CONSTANTS
    LongBits <- MC_LongBits
    IntBits <- MC_IntBits
    Records <- MC_Records
    KernelRet <- MC_KernelRet
SPECIFICATION Spec
INVARIANT
    DefaultHooksTransparent
