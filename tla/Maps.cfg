CONSTANTS
    Mappings <- MC_Mappings
    Names <- MC_Names
    MaxLines = 2
    MaxPad = 2
SPECIFICATION Spec
INVARIANTS
    RegionsFaithful
    PathCollapsed
