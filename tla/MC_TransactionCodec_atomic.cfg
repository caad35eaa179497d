\* Two callers decoding, with and without validation and parameters, while
\* callers serialize transactions of one or two inputs.
CONSTANTS
    Workers = {w1, w2}
    NoId = NoId
    r1 = r1
    a1 = a1
    a2 = a2
    k1 = k1
    k2 = k2
    MaxInputsCount = 2
    MaxOutputsCount = 2
    TotalSupply = 3
    Wires <- ConcWires
    Txs <- ConcTxs
    Modes = {TRUE, FALSE}
    Params = {TRUE, FALSE}
SPECIFICATION Spec
INVARIANT
    DecodedUnlocksMatchInputs
PROPERTY
    DeserializeIsAtomic
CHECK_DEADLOCK FALSE
