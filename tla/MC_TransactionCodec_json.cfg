\* A caller round-trips transactions through the JSON mirror; the result is compared with the binary decoder.
CONSTANTS
    Workers = {w1}
    NoId = NoId
    r1 = r1
    a1 = a1
    a2 = a2
    k1 = k1
    k2 = k2
    MaxInputsCount = 2
    MaxOutputsCount = 2
    TotalSupply = 3
    Wires = {}
    Txs <- JSONTxs
    Modes = {TRUE}
    Params = {TRUE}
SPECIFICATION Spec
INVARIANT
    JSONAgreesWithBinary
CHECK_DEADLOCK FALSE
