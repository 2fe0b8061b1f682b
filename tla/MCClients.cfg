CONSTANTS
    root = root
    d = d
    f = f
    Client = {1, 2}
    Path <- MCPath
    Root = root
    Parent <- MCParent
    Ops = {"create", "unlink", "mkdir"}
    LooksUp = TRUE
    Faults = {"die"}
SPECIFICATION MCSpec
INVARIANTS TypeOK NoDanglingEntry OneHolder NeverRolledBack
PROPERTIES OkIsTrue CreateReturns 
