CONSTANTS
    root = root
    a = a
    Absent = Absent
    Path <- MCPath
    FilePath <- MCPath
    DirPath <- MCPath
    Root = root
    Parent <- MCParent
    KeyOrder <- MCKeyOrder
    HashPrefix <- MCHashPrefix
    IdModulus = 2
    MaxCreates = 2
    Attr = {0}
SPECIFICATION Spec
PROPERTY ImplementsDirTree
