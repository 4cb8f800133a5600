CONSTANTS
    MAX_SYSCALL_NR = 512
    Nrs <- MC_NrsValid
    Rsps <- MC_RspsBoth
    Site = 65536
    HookEntryAddr = 131072
    Orig <- MC_Orig
    Junk = 200000
    Frame = 200001
    RedZone = 200002
    Result = 200003
    Mutated = 200004
SPECIFICATION Spec
INVARIANT
    KernelAbiPreserved
