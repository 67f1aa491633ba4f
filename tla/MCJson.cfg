SPECIFICATION Spec
CONSTANTS
    i1 = i1
    i2 = i2
    i3 = i3
    i4 = i4
    Item = {i1, i2, i3, i4}
    NULL = NULL
    Key = {"a", "A"}
    Folded <- MCFolded
    MaxLabelled = 2
    Texts <- MCTexts
    Trees <- MCTrees
    Buffers = {0, 1, 4, 7, 11, 16, 24, 40}
    NestingLimit = 3
    IntMax = 60
    Reallocs = 2
SYMMETRY Addresses
INVARIANTS
    ItemsTypeOK
    LinksMatch
    OwnedOnce
    BuffersOwned
    ParserAgrees
    EscapesDecode
    PrintFits
    PrintRoundTrip
    MinifyKeeps
PROPERTIES
    RefinesItemLists
CHECK_DEADLOCK FALSE
