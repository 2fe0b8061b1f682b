\* Two threads, one path that may be created twice, two descriptors.
CONSTANTS
    p = p  t1 = t1  t2 = t2
    None = None  Dir = Dir
    Path = {p}
    Fd = {3, 4}
    MaxOid = 2
    Thread = {t1, t2}
SYMMETRY Symmetry
SPECIFICATION Spec
INVARIANTS TypeOK DescriptorsOwned  OpensWhatWasLookedUp
