\* Every pair of formats of a depth, except the two orders of 24 bits per pixel;
\* for the inline functions, rows of more than one unit.
SPECIFICATION FastSpec
CONSTANTS
    Width = 9
    Height = 2
    Sources <- MCFormats
    Targets <- MCFormats
    Servers <- MCServers
    MaxSteps = 1
    FastWidth = 35
    FastSources <- MCFastFormats
INVARIANTS
    PixelsAreKept
    PutDrawsPicture
    StaysNearStorage
    FastAgrees
CHECK_DEADLOCK FALSE
