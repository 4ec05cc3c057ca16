SPECIFICATION Spec
CONSTANTS
    Group = 3
    Width = 8
    Magic <- MCMagic
    Version <- MCVersion
    SpecName <- MCSpecName
    MetaName <- MCMetaName
    MaxEntries = 3
    EventPrefix = 4
    Inputs <- MCInputs
INVARIANTS
    ModuleIsReadWhole
    InterfaceIsDeclared
