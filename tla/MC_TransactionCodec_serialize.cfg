\* A caller serializes transactions with validation; their bytes are decoded with validation.
CONSTANTS
    Workers = {w1}
    NoId = NoId
    r1 = r1
    a1 = a1
    a2 = a2
    k1 = k1
    k2 = k2
    MaxInputsCount = 2
    MaxOutputsCount = 2
    TotalSupply = 3
    Wires = {}
    Txs <- SerializedTxs
    Modes = {TRUE}
    Params = {TRUE}
SPECIFICATION Spec
INVARIANT
    ValidatedEncodingDecodes
CHECK_DEADLOCK FALSE
