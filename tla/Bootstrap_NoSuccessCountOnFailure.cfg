CONSTANTS
    Regions <- MCRegions
    LibcIdx <- MCLibcIdx
    LoaderIdx <- MCLoaderIdx
    RawAddr <- MCRawAddr
    ExePath <- MCExePath
    EnvExclude <- MCEnvExclude
SPECIFICATION Spec
INVARIANT
    NoSuccessCountOnFailure
