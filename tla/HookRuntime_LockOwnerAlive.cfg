CONSTANTS
    t1 = t1
    t2 = t2
    Threads <- MCThreads
    NoThread = NoThread
    AppSysnos = {"other", "exit"}
    MaxStack = 6
SYMMETRY MCSymmetry
SPECIFICATION Spec
INVARIANT
    LockOwnerAlive
