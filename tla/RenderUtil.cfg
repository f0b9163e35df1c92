\* No thread disconnects while another looks something up; a client appends to
\* its stream up to four times, runs of every length from none to too many.
SPECIFICATION UtilSpec
CONSTANTS
    c1 = c1
    c2 = c2
    Conn = {c1, c2}
    Proc = {p1, p2}
    Entry = {e1, e2}
    Null = Null
    Screens <- MCScreens
    Exclusive = TRUE
    Glyphset = {8, 9}
    Offset = {1}
    Glyph = {2}
    Count = {0, 1, 2, 3, 5, 6, 7}
    Total = {0, 1, 2, 5}
    Limit <- MCLimit
    Marker = 7
    MaxCalls = 4
INVARIANTS
    LookupsReadListedEntries
    PromiseSuffices
    DrawsWhatWasAsked
PROPERTIES
    ImplementsRenderAnswers
    LookupReturns
