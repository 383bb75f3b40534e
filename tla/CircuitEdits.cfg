CONSTANTS
    Ops = {"xa", "xb", "cz", "ma", "cb"}
    Qubits = {"a", "b"}
    Keys = {"k"}
    QubitsOf <- GateQubits
    MKeysOf <- GateMKeys
    CKeysOf <- GateCKeys
    MaxMoments = 3
    MaxInsert = 3
SPECIFICATION Spec
INVARIANTS TypeOK CachesAreFresh InsertKeepsOrder AppendsAgree FrontierKeepsOrder RepackingKeepsOrder
