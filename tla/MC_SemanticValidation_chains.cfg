\* Chain dispatch: an NFT input continued by up to two NFT outputs.
CONSTANTS
    EdAddrs = {e1, e2}
    AliasIds = {}
    NFTIds = {n1}
    ZeroId = ZeroId
    None = None
    BadSig = BadSig
    ExpValues = {1, 2}
    StateIndexes = {0}
    r1 = r1
    r2 = r2
    r3 = r3
    x1 = x1
    n1 = n1
    t1 = t1
    f1 = f1
    UTXORefs <- MCUTXORefs
    SpareRefs = {}
    AliasIdFromOutputID <- MCAliasIdFromOutputID
    FoundryIdOf <- MCFoundryIdOf
    PipelineUnlockBlocks <- MCPipelineUnlockBlocks
    CandidateInputs <- ChainInputs
    CandidateOutputs <- ChainOutputs
    MaxOutputs = 2
    TotalSupply = 10
    CallerRules = {}
    MaxTokenSum = 1
    ConfirmingMilestoneIndex = 1
    ConfirmingMilestoneUnix = 1
SPECIFICATION Spec
SYMMETRY MCSymmetry
CHECK_DEADLOCK FALSE
INVARIANT EveryChainOutputValidated
