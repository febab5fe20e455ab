SPECIFICATION Spec
CONSTANTS
    StateIds <- TheStates
    LgasOf <- TheLgas
    WardsOf <- TheWards
    PusOf <- ThePus
    Wrapped <- TheWrapped
    NameOf <- TheNames
    Canonical <- TheCanonical
    CodeOf <- TheCodes
    Quarantined <- TheQuarantined
    Legacy <- TheLegacy
    NoFile = NoFile
    Torn = Torn
    Importers = {i1, i2}
    PageSize = 1
    MaxTools = 2
    MaxFaults = 2
    MaxImports = 2
INVARIANTS
    CleanMeansComplete
    CompleteImportHoldsSnapshot
    NoTwins
SYMMETRY EitherImporter
CHECK_DEADLOCK FALSE
