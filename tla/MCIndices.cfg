\* Two clients give three commands, among them those that cross in create_index().
CONSTANTS
    MaxKey = 3
    KB = 2
    DAY = 1
    now = 3
    Client = {1, 2}
    Server = {1, 2}
    Master = {1, 2}
    NoIndex = NoIndex
    Index <- MCIndex
    File <- MCFile
    Root <- MCRoot
    Dir <- MCDir
    Up <- MCUp
    DirOf <- MCDirOf
    Failed = Failed
    Word = Word
    Clipped <- MCClipped
    Empty = Empty
    IndexMaster <- MCIndexMaster
    MasterOf <- MCMasterOf
    Existing <- MCExisting
    Placement <- MCPlacement
    StartsWith <- MCStartsWith
    CommandLines <- MCCommandLines
    LibraryCalls <- MCLibraryCalls
    Listings <- MCListings
    FileOrder <- MCFileOrder
    KeyType = {"uint64"}
    DefaultBatch = 2
    Volatile = {"/f"}
    MaxCommands = 3
SPECIFICATION Spec
CHECK_DEADLOCK FALSE
INVARIANTS TypeOK ListedIsServed NeverStuck
PROPERTIES   UpdateSendsAll
