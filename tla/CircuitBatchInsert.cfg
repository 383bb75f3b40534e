CONSTANTS
    Ops = {"xa", "ya", "xb", "cz", "ma", "cb"}
    Qubits = {"a", "b"}
    Keys = {"k"}
    QubitsOf <- GateQubits
    MKeysOf <- GateMKeys
    CKeysOf <- GateCKeys
    MaxMoments = 3
    MaxInsert = 2
SPECIFICATION Spec
INVARIANT BatchInsertLands
