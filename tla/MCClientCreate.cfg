CONSTANTS
    root = root
    d = d
    f = f
    Client = {1}
    Path <- MCPath
    Root = root
    Parent <- MCParent
    Ops = {"create", "mkdir", "unlink", "rmdir"}
    LooksUp = FALSE
    Faults = {"transport", "store", "die"}
SPECIFICATION Spec
PROPERTY OkIsTrue
