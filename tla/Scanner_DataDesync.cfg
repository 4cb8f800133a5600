CONSTANTS
    Insns <- MC_Insns
    DataBytes <- MC_Data
    MaxItems = 4
    MaxCalls = 2
SPECIFICATION Spec
INVARIANT ScanReportsInstructions
