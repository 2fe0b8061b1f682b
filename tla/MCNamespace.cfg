CONSTANTS
    root = root
    a = a
    b = b
    Absent = Absent
    Path <- MCPath
    FilePath <- MCFilePath
    DirPath <- MCDirPath
    Root = root
    Parent <- MCParent
    KeyOrder <- MCKeyOrder
    HashPrefix <- MCHashPrefix
    IdModulus = 2
    MaxCreates = 2
    Attr = {0}
SPECIFICATION Spec
INVARIANTS TypeOK WriteThrough ListedParentStays LookupRoundTrip CreateCheckHolds
