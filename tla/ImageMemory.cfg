\* A bitmap, a depth the server has a format for and one it has none for; two
\* images at a time.
SPECIFICATION MemorySpec
CONSTANTS
    Depth = {1, 8, 15}
    FormatDepth = {1, 8}
    MaxSize = 2
    MaxBlocks = 2
    MaxImages = 2
    MaxPictures = 3
    MaxRequests = 4
INVARIANTS
    StorageIsOwned
PROPERTIES
    PicturesAreWhole
    Completes
CHECK_DEADLOCK FALSE
