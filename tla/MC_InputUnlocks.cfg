\* Two inputs of every kind: Ed25519 owners with Sender/Expiration
\* hand-over (expirations 1 and 2 against milestone 1), Alias inputs
\* (governance vs state controller), NFT and Foundry inputs, and unlock
\* blocks of all four kinds.
CONSTANTS
    EdAddrs = {e1, e2}
    AliasIds = {x1}
    NFTIds = {n1}
    ZeroId = ZeroId
    None = None
    BadSig = BadSig
    ExpValues = {1, 2}
    StateIndexes = {0, 1}
    r1 = r1
    r2 = r2
    x1 = x1
    n1 = n1
    UTXORefs <- MCUTXORefs
    AliasIdFromOutputID <- MCAliasIdFromOutputID
    ConfirmingMilestoneIndex = 1
    ConfirmingMilestoneUnix = 1
SPECIFICATION Spec
SYMMETRY MCSymmetry
CHECK_DEADLOCK FALSE
INVARIANTS TypeOK AcceptedInputsAuthorized NoChainOwnedInputAccepted
