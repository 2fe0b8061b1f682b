\* Two threads; one index is removed as well as created, and its partitions
\* are worked on.
CONSTANTS
    n = n  t1 = t1  t2 = t2
    NoNode = NoNode
    NoIndex = NoIndex
    Root = "/"
    Path <- MCPath
    Name <- MCName
    cleanup_path <- MCCleanup
    Order <- MCOrder
    StartsWith <- MCStartsWith
    Partials <- MCPartials
    Below <- MCBelow
    IndexPath <- MCIndexPath
    Request <- MCRequest
    Removable <- MCRemovable
    Partitioned <- MCPartitioned
    Sep <- MCSep
    Thread = {t1, t2}
SYMMETRY Symmetry
SPECIFICATION Spec
INVARIANTS
    TypeOK WriteThrough  CreatedIsListed DirectoryIsListed
    AckedPartitionsStored
CHECK_DEADLOCK FALSE
