\* One caller decodes every variation of a valid transaction, its
\* truncation and a foreign payload tag, in both modes.
CONSTANTS
    Workers = {w1}
    NoId = NoId
    r1 = r1
    a1 = a1
    a2 = a2
    k1 = k1
    k2 = k2
    MaxInputsCount = 2
    MaxOutputsCount = 2
    TotalSupply = 3
    Wires <- WideWires
    Txs = {}
    Modes = {TRUE, FALSE}
    Params = {TRUE, FALSE}
SPECIFICATION Spec
INVARIANTS
    TypeOK
    DecodedWellFormed
    DecodedHasSigningMessage
    TxIdAgreement
CHECK_DEADLOCK FALSE
