CONSTANTS
    Regions <- MCRegions
    LibcIdx <- MCLibcIdx
    LoaderIdx <- MCLoaderIdx
    RawAddr <- MCRawAddr
    ExePath <- MCExePath
    EnvExclude <- MCEnvExclude
SPECIFICATION Spec
INVARIANTS
    TypeOK
    RawPathIntact
    NoCrash
    ReplacementFidelity
    CountsMatchPatches
    WXRestored
