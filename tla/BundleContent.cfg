CONSTANTS
    Names <- MCNames
    Entrypoint <- MCEntrypoint
    MaxBytes = 3
    MaxFiles = 2
    Word = 8
    Archives = {3, 4}
    MaxSize = 4
    MaxPuts = 2
    MaxObject = 3
    MaxInject = 2
    ScanTokens = 4
    MaxTokens = 5
    None = None
SPECIFICATION Spec
CHECK_DEADLOCK TRUE
INVARIANTS TypeOK ExpansionBounded ResponseIntact BridgePlaced OpensInside
PROPERTIES ImplementsFile
