SPECIFICATION FairSpec
CONSTANTS
    c1 = c1
    c2 = c2
    Cpu = {c1, c2}
    Page = {0, 1, 2, 3, 4, 5, 6, 7, 8, 9}
    L = 2
    Large = {0, 1, 4}
    Frame <- Mapped
    BootProt <- MappedProt
    Direct = {0, 1, 2, 3, 4, 5}
    High = {8, 9}
    Text = {8}
    TextRo = {8, 9}
    Bios = {}
    Rodata = {3}
    Request <- Calls
    Loads <- OneTlb
    Ceiling = 1
    MaxCall = 1
INVARIANTS NoLargeLeft NoStaleTlb NumpagesOK ProtectedOnce MapsRange
PROPERTY CallEnds Refines
CHECK_DEADLOCK FALSE
