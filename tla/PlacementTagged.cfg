CONSTANTS
    Ops = {"xa", "cz", "ma", "cb", "mb"}
    Qubits = {"a", "b"}
    Keys = {"k"}
    QubitsOf <- GateQubits
    MKeysOf <- GateMKeys
    CKeysOf <- GateCKeys
    MaxMoments = 4
SPECIFICATION TaggedSpec
INVARIANT CacheExact
