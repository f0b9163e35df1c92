\* All mappings of two keys with one or two keysyms each, equal rows of up to
\* five keysyms, and every keysym alone; screens of two depths with up to three
\* visuals each; up to two picture formats; two parameters for a request.
SPECIFICATION LookupSpec
CONSTANTS
    MinKeycode = 6
    MaxKeycode = 7
    KeycodeLimit = 8
    Tables <- MCTables
    Sought = {65}
    Visual = {1, 2}
    Class <- MCClass
    MaxVisuals = 3
    Null = Null
    Format <- MCFormat
    MaxFormats = 2
    NoReply = NoReply
    Value = {v1, v2}
    Junk = Junk
    MaxAdds = 2
    Other = Other
    Name <- MCName
    ResponseType = {2, 3, 12, 13, 14, 33, 34, 35, 127, 130, 140, 162, 163, 255}
    ErrorCode = {0, 1, 2, 13, 14, 17, 18, 255}
    Major = {0, 1, 73, 74, 75, 76, 77, 119, 120, 126, 127, 128, 255}
    NoLabel = NoLabel
INVARIANTS
    ColumnsFollowProtocol
    FoundExactly
    LookupsFind
    TablesAgree
    DigitsLeadComponents
PROPERTIES
    SearchReturns
    SetsWhatWasAdded
CHECK_DEADLOCK FALSE
