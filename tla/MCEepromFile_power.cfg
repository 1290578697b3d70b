SPECIFICATION Spec
CONSTANTS
    v1 = v1
    v2 = v2
    v3 = v3
    None = None
    Signature = Signature
    FileSize = 2
    Values = {v1, v2}
    Generations = 4
    Noise = {0, 2}
    Patient = TRUE
    Erases = TRUE
    Spared = TRUE
INVARIANTS TypeOK IdleMeansWritten
PROPERTIES ImplementsSaveFile
