------------------------- MODULE SemanticValidation -------------------------
(***************************************************************************)
(* Transaction.SemanticallyValidate (src/transaction.go:263-333, 501-702):*)
(* the working set is built (NewSemValiContextWorkingSet), then the       *)
(* checks run in their fixed order, the first error aborting the rest:    *)
(*   InputUnlocks -> Deposit -> NativeTokens -> Timelock -> OutputsSender *)
(*   -> STVFOnChains.                                                      *)
(* The unlock pass is the InputUnlocks module, instantiated on the same   *)
(* variables; each later check is one action.                              *)
(*                                                                         *)
(* Outputs here are records of the Outputs module widened by a deposit,   *)
(* a native token map (token id -> amount) and the feature blocks the     *)
(* later checks read: timelockMs, timelockUnix and dustReturn.            *)
(***************************************************************************)
EXTENDS Outputs, Sequences, FiniteSetsExt, Functions, TLC

CONSTANTS
    UTXORefs,                   \* UTXO references the transaction's inputs name
    SpareRefs,                  \* UTXO references of the InputSet no input names
    AliasIdFromOutputID(_),
    ConfirmingMilestoneIndex,
    ConfirmingMilestoneUnix,
    CandidateInputs,            \* outputs the InputSet may hold
    CandidateOutputs,           \* outputs the essence may create
    MaxOutputs,                 \* bound on the number of outputs
    FoundryIdOf(_),             \* NativeTokenID.FoundryID()
    PipelineUnlockBlocks(_),    \* unlock blocks enumerated for n inputs
    MaxTokenSum,                \* largest native token sum (u256 abstracted)
    CallerRules,                \* SemanticValidationFuncs a caller may pass
    TotalSupply                 \* the total token supply (abstracted)

ASSUME SpareRefs \cap {UTXORefs[i] : i \in DOMAIN UTXORefs} = {}
ASSUME MaxOutputs \in Nat \ {0}
ASSUME \A n \in 1..Len(UTXORefs) : PipelineUnlockBlocks(n) \subseteq UnlockBlocks(n)

VARIABLES
    inputs, inputSet, unlockBlocks, outChains, unlockedIdents, inputIndex,
    verdict,            \* the unlock pass, as in InputUnlocks
    outputs,            \* Essence.Outputs
    stage,              \* the check runSemanticValidations is at
    result,             \* "running", "ok" or the first error
    inNativeTokens,     \* WorkingSet.InNativeTokens
    outNativeTokens,    \* WorkingSet.OutNativeTokens
    stvfCalls,          \* the ValidateStateTransition calls made: <<chain, kind>>
    semValFuncs         \* the caller's rules and their verdict on this call

unlockVars == <<inputs, inputSet, unlockBlocks, outChains, unlockedIdents,
                inputIndex, verdict>>
pipeVars == <<outputs, stage, result, inNativeTokens, outNativeTokens,
              stvfCalls, semValFuncs>>
vars == <<unlockVars, pipeVars>>

U == INSTANCE InputUnlocks

Stages == {"workingSet", "unlocks", "deposit", "nativeTokens", "timelock", "sender", "stvf",
           "done"}

HasNoFeatureBlocks(o) == \A f \in DOMAIN o.fb : o.fb[f] = None

OutIndexes == 1..Len(outputs)

-----------------------------------------------------------------------------
(* The working set (NewSemValiContextWorkingSet, transaction.go:263-295).  *)

\* The chain id of an output: its stored id, or, when zeroed, the id derived
\* from the transaction id and the output index, which no existing chain has.
OutputChainId(k) ==
    LET o == outputs[k]
    IN  CASE o.type = "Foundry" -> o.foundryId
          [] ChainAddress(o) = ZeroId -> <<"new", k>>
          [] OTHER -> ChainAddress(o)

InputChainIdOf(r) ==
    IF inputSet[r].type = "Foundry" THEN inputSet[r].foundryId
    ELSE U!InputChainId(r)

IsChainOutput(o) == o.type \in {"Alias", "NFT", "Foundry"}

\* WorkingSet.InChains: from the whole InputSet (transaction.go:289).
InChains == {InputChainIdOf(r) : r \in {s \in DOMAIN inputSet :
                                          IsChainOutput(inputSet[s])}}

\* WorkingSet.OutChains (transaction.go:291).
OutChains == {OutputChainId(k) : k \in {j \in OutIndexes :
                                          IsChainOutput(outputs[j])}}

\* The output OutChains holds for chain id c: ChainConstrainedOutputSet
\* (outside src/) assigns the map entry per output in order, so of several
\* outputs with one chain id the last one remains.
OutChainEntry(c) ==
    Max({k \in OutIndexes : IsChainOutput(outputs[k]) /\ OutputChainId(k) = c})

\* The alias part of OutChains that identToUnlockFromMultiIdentOutput reads:
\* the state index of the entry the map keeps for the alias.
AliasOutChains ==
    [x \in AliasIds |->
        IF x \in OutChains /\ outputs[OutChainEntry(x)].type = "Alias"
        THEN outputs[OutChainEntry(x)].stateIndex
        ELSE None]

EmptyMap == [a \in {} |-> 0]

Init ==
    /\ \E n \in 1..Len(UTXORefs) : inputs = SubSeq(UTXORefs, 1, n)
    /\ inputSet \in UNION {[S -> CandidateInputs] :
                            S \in SUBSET (Range(inputs) \cup SpareRefs)}
    /\ U!ChainIdsUnique
    /\ outputs \in UNION {[1..m -> CandidateOutputs] : m \in 1..MaxOutputs}
    /\ unlockBlocks \in [1..Len(inputs) -> PipelineUnlockBlocks(Len(inputs))]
    /\ outChains = AliasOutChains
    /\ unlockedIdents = EmptyMap
    /\ inputIndex = 1
    /\ verdict = "running"
    /\ stage = "workingSet"
    /\ result = "running"
    /\ inNativeTokens = EmptyMap
    /\ outNativeTokens = EmptyMap
    /\ stvfCalls = {}
    /\ semValFuncs \in UNION {[S -> {"none", "RuleViolated"}] : S \in SUBSET CallerRules}

Pass(next) == stage' = next /\ UNCHANGED result
Fail(err) == stage' = "done" /\ result' = err

-----------------------------------------------------------------------------
(* The signing message (NewSemValiContextWorkingSet, transaction.go:269-  *)
(* 272): the essence serialized with validation, which runs the essence's *)
(* SyntacticallyValidate (transaction_essence.go:286-313) on the outputs.  *)
(* Inputs are non-empty and unique by construction of Init.                *)

\* An output feature block that needs a Sender next to it (spec 4.6).
NeedsSender(o) ==
    o.fb.expMs # None \/ o.fb.expUnix # None \/ o.fb.dustReturn # None

OutputDepositSum == MapThenSumSet(LAMBDA k : outputs[k].deposit, OutIndexes)

\* Mutant: each deposit is bounded by the supply, but not their sum.
EssenceErrPerOutput ==
    CASE \E k \in OutIndexes : outputs[k].deposit = 0 -> "DepositAmountZero"
      [] \E k \in OutIndexes : outputs[k].deposit > TotalSupply ->
            "OutputDepositsMoreThanTotalSupply"
      [] \E k \in OutIndexes : NeedsSender(outputs[k]) /\ outputs[k].fb.sender = None ->
            "OutputRequiresSenderFeatureBlock"
      [] OTHER -> "none"

\* OutputsPredicateDepositAmount, then OutputsPredicateSenderFeatureBlock-
\* Requirement; the native token count and foundry predicates read fields
\* the outputs here do not carry.
EssenceErr ==
    CASE \E k \in OutIndexes : outputs[k].deposit = 0 -> "DepositAmountZero"
      [] \E k \in OutIndexes : outputs[k].deposit > TotalSupply ->
            "OutputDepositsMoreThanTotalSupply"
      [] OutputDepositSum > TotalSupply -> "OutputsSumExceedsTotalSupply"
      [] \E k \in OutIndexes : NeedsSender(outputs[k]) /\ outputs[k].fb.sender = None ->
            "OutputRequiresSenderFeatureBlock"
      [] OTHER -> "none"

\* SemanticallyValidate returns the working set's error before any check.
BuildWorkingSet ==
    /\ stage = "workingSet"
    /\ IF EssenceErr # "none" THEN Fail(EssenceErr) ELSE Pass("unlocks")
    /\ UNCHANGED <<unlockVars, semValFuncs, outputs, inNativeTokens,
                   outNativeTokens, stvfCalls>>

-----------------------------------------------------------------------------
(* runSemanticValidations: TxSemanticInputUnlocks first.                   *)

UnlockStep ==
    /\ stage = "unlocks"
    /\ \/ U!MissingUTXO
       \/ U!UnlockChainConstrained
       \/ U!UnlockByReference
       \/ U!UnlockBySignature
       \/ U!AllUnlocked
    /\ UNCHANGED pipeVars

UnlocksPassed ==
    /\ stage = "unlocks" /\ verdict = "ok"
    /\ Pass("deposit")
    /\ UNCHANGED <<unlockVars, semValFuncs, outputs, inNativeTokens, outNativeTokens,
                   stvfCalls>>

UnlocksFailed ==
    /\ stage = "unlocks" /\ verdict \notin {"running", "ok"}
    /\ Fail(verdict)
    /\ UNCHANGED <<unlockVars, semValFuncs, outputs, inNativeTokens, outNativeTokens,
                   stvfCalls>>

-----------------------------------------------------------------------------
(* TxSemanticDeposit (transaction.go:534-593).  Both sums run over the     *)
(* whole InputSet map and the essence's outputs.                           *)

\* inputSumReturnAmountPerIdent: DustDepositReturn amounts per Sender.
ReturnInputs == {r \in DOMAIN inputSet : inputSet[r].fb.dustReturn # None}

ReturnAmountPerIdent ==
    [a \in {inputSet[r].fb.sender : r \in ReturnInputs} |->
        MapThenSumSet(LAMBDA r : inputSet[r].fb.dustReturn,
                      {r \in ReturnInputs : inputSet[r].fb.sender = a})]

\* Mutant: every Extended output counts as a simple transfer, its feature
\* blocks (a Timelock, an Expiration) notwithstanding.
SimpleTransferAnyExtended(o) == o.type \in {"Simple", "Extended"}

\* A Simple output, or an Extended output without feature blocks.
SimpleTransfer(o) ==
    \/ o.type = "Simple"
    \/ o.type = "Extended" /\ HasNoFeatureBlocks(o)

\* outputSimpleTransfersPerIdent
SimpleTransfersPerIdent ==
    LET ks == {k \in OutIndexes : SimpleTransfer(outputs[k])}
    IN  [a \in {outputs[k].address : k \in ks} |->
            MapThenSumSet(LAMBDA k : outputs[k].deposit,
                          {k \in ks : outputs[k].address = a})]

TxSemanticDeposit ==
    /\ stage = "deposit"
    /\ LET in  == MapThenSumSet(LAMBDA r : inputSet[r].deposit, DOMAIN inputSet)
           out == MapThenSumSet(LAMBDA k : outputs[k].deposit, OutIndexes)
           ret == ReturnAmountPerIdent
           tr  == SimpleTransfersPerIdent
       IN  CASE in # out -> Fail("InputOutputSumMismatch")
             [] \E a \in DOMAIN ret : a \notin DOMAIN tr \/ tr[a] < ret[a] ->
                    Fail("ReturnAmountNotFulfilled")
             [] OTHER -> Pass("nativeTokens")
    /\ UNCHANGED <<unlockVars, semValFuncs, outputs, inNativeTokens, outNativeTokens,
                   stvfCalls>>

-----------------------------------------------------------------------------
(* TxSemanticNativeTokens (transaction.go:654-702).                        *)

\* NativeTokenOutputs().Sum() over the outputs of the function outs.
NativeTokenSum(outs) ==
    [t \in UNION {DOMAIN outs[x].tokens : x \in DOMAIN outs} |->
        MapThenSumSet(LAMBDA x : IF t \in DOMAIN outs[x].tokens
                                 THEN outs[x].tokens[t] ELSE 0, DOMAIN outs)]

Overflows(sum) == \E t \in DOMAIN sum : sum[t] > MaxTokenSum

TxSemanticNativeTokens ==
    /\ stage = "nativeTokens"
    /\ LET inSum  == NativeTokenSum(inputSet)
           \* transaction.go:663 sums InputsByType a second time
           outSum == NativeTokenSum(inputSet)
           foundries == \/ \E k \in OutIndexes : outputs[k].type = "Foundry"
                        \/ \E r \in DOMAIN inputSet : inputSet[r].type = "Foundry"
           Unbalanced(t, this, other) ==
               t \notin DOMAIN other \/ this[t] # other[t]
       IN  /\ inNativeTokens' = inSum
           /\ outNativeTokens' = outSum
           /\ CASE Overflows(inSum) -> Fail("InvalidInputNativeTokenSet")
                [] Overflows(outSum) -> Fail("InvalidOutputNativeTokenSet")
                [] ~foundries /\ inSum # outSum -> Fail("NativeTokenSumUnbalanced")
                [] foundries /\
                   \E t \in DOMAIN inSum \cup DOMAIN outSum :
                       /\ \/ t \in DOMAIN inSum /\ Unbalanced(t, inSum, outSum)
                          \/ t \in DOMAIN outSum /\ Unbalanced(t, outSum, inSum)
                       /\ FoundryIdOf(t) \notin OutChains ->
                       Fail("NativeTokenSumUnbalanced")
                [] OTHER -> Pass("timelock")
    /\ UNCHANGED <<unlockVars, semValFuncs, outputs, stvfCalls>>

-----------------------------------------------------------------------------
(* TxSemanticTimelock (transaction.go:597-619), over the whole InputSet.   *)

TimelockNotExpired(fb) ==
    \/ fb.timelockMs # None /\ ConfirmingMilestoneIndex < fb.timelockMs
    \/ fb.timelockUnix # None /\ ConfirmingMilestoneUnix < fb.timelockUnix

TxSemanticTimelock ==
    /\ stage = "timelock"
    /\ IF \E r \in DOMAIN inputSet : TimelockNotExpired(inputSet[r].fb)
       THEN Fail("InvalidInputUnlock")
       ELSE Pass("sender")
    /\ UNCHANGED <<unlockVars, semValFuncs, outputs, inNativeTokens, outNativeTokens,
                   stvfCalls>>

-----------------------------------------------------------------------------
(* TxSemanticOutputsSender (transaction.go:503-529).                       *)

\* Mutant: the Sender must merely own one of the consumed outputs, instead
\* of having been unlocked.
SenderNotUnlockedOwnerCheck(o) ==
    /\ o.fb.sender # None
    /\ o.fb.sender \notin {inputSet[r].address :
                             r \in {q \in DOMAIN inputSet :
                                     "address" \in DOMAIN inputSet[q]}}

SenderNotUnlocked(o) ==
    o.fb.sender # None /\ o.fb.sender \notin DOMAIN unlockedIdents

TxSemanticOutputsSender ==
    /\ stage = "sender"
    /\ IF \E k \in OutIndexes : SenderNotUnlocked(outputs[k])
       THEN Fail("SenderFeatureBlockNotUnlocked")
       ELSE Pass("stvf")
    /\ UNCHANGED <<unlockVars, semValFuncs, outputs, inNativeTokens, outNativeTokens,
                   stvfCalls>>

-----------------------------------------------------------------------------
(* TxSemanticSTVFOnChains (transaction.go:622-649).  The per-variant       *)
(* ValidateStateTransition functions are outside src/; each call may pass  *)
(* or fail, so the outcome is a free choice once the calls are made.       *)

\* A call is <<chain id, kind, index of the output passed as next state>>;
\* Destroy passes nil (0); Genesis is called on the output itself.
StvfCallsOf ==
    {IF c \in OutChains THEN <<c, "StateChange", OutChainEntry(c)>>
                        ELSE <<c, "Destroy", 0>> : c \in InChains}
    \cup {<<c, "Genesis", OutChainEntry(c)>> : c \in OutChains \ InChains}

ChainsTransitioned ==
    /\ stage = "stvf"
    /\ stvfCalls' = StvfCallsOf
    /\ stage' = "done"
    /\ result' = "ok"
    /\ UNCHANGED <<unlockVars, semValFuncs, outputs, inNativeTokens, outNativeTokens>>

ChainTransitionRejected ==
    /\ stage = "stvf"
    /\ StvfCallsOf # {}
    /\ stvfCalls' = StvfCallsOf
    /\ Fail("InvalidChainTransition")
    /\ UNCHANGED <<unlockVars, semValFuncs, outputs, inNativeTokens, outNativeTokens>>

Next ==
    \/ BuildWorkingSet
    \/ UnlockStep
    \/ UnlocksPassed
    \/ UnlocksFailed
    \/ TxSemanticDeposit
    \/ TxSemanticNativeTokens
    \/ TxSemanticTimelock
    \/ TxSemanticOutputsSender
    \/ ChainsTransitioned
    \/ ChainTransitionRejected

Spec == Init /\ [][Next]_vars

-----------------------------------------------------------------------------
TypeOK ==
    /\ inputs \in Seq(Range(UTXORefs))
    /\ inputSet \in [DOMAIN inputSet -> CandidateInputs]
    /\ unlockBlocks \in [1..Len(inputs) -> UnlockBlocks(Len(inputs))]
    /\ DOMAIN unlockedIdents \subseteq Address \cup {ZeroId}
    /\ \A a \in DOMAIN unlockedIdents : unlockedIdents[a] \in 1..Len(inputs)
    /\ inputIndex \in 1..Len(inputs) + 1
    /\ outputs \in Seq(CandidateOutputs)
    /\ stage \in Stages
    /\ result \in {"running", "ok"} \cup U!Verdicts \cup
         {"InputOutputSumMismatch", "ReturnAmountNotFulfilled",
          "InvalidInputNativeTokenSet", "InvalidOutputNativeTokenSet",
          "NativeTokenSumUnbalanced", "SenderFeatureBlockNotUnlocked",
          "InvalidChainTransition", "DepositAmountZero",
          "OutputDepositsMoreThanTotalSupply", "OutputsSumExceedsTotalSupply",
          "OutputRequiresSenderFeatureBlock"}
    /\ (result = "running") = (stage # "done")
    /\ stvfCalls \subseteq (InChains \cup OutChains) \X {"Genesis", "StateChange", "Destroy"}
                            \X (OutIndexes \cup {0})
    /\ DOMAIN semValFuncs \subseteq CallerRules
    /\ \A f \in DOMAIN semValFuncs : semValFuncs[f] \in {"none", "RuleViolated"}

-----------------------------------------------------------------------------
(* Properties.                                                              *)

Sig(a) == [type |-> "Signature", sig |-> a]

\* Input i is unlocked with a's signature: its own block, or the earlier
\* block its ReferenceUnlockBlock points to.
SignedBy(i, a) ==
    \/ unlockBlocks[i] = Sig(a)
    \/ /\ unlockBlocks[i].type = "Reference"
       /\ unlockBlocks[i].ref < i
       /\ unlockBlocks[unlockBlocks[i].ref] = Sig(a)

TxInput(i) == inputSet[inputs[i]]

\* A plain value transfer to a (spec 4.5 step 2): a Simple output, or an
\* Extended output carrying no feature block, deposited to a.
PlainTransferTo(k, a) ==
    /\ outputs[k].type \in {"Simple", "Extended"}
    /\ \A f \in DOMAIN outputs[k].fb : outputs[k].fb[f] = None
    /\ outputs[k].address = a

\* In an accepted transaction every Sender that a consumed input asks a
\* DustDepositReturn for gets at least the sum it asked for back through
\* plain transfers: no timelocked or expiring output can pose as a return.
\* (TxSemanticDeposit, transaction.go:539-589.)
DustReturnHonoured ==
    result = "ok" =>
        \A a \in {TxInput(i).fb.sender : i \in 1..Len(inputs)} :
            MapThenSumSet(LAMBDA i : IF TxInput(i).fb.sender = a
                                        /\ TxInput(i).fb.dustReturn # None
                                     THEN TxInput(i).fb.dustReturn ELSE 0,
                          1..Len(inputs))
            <= MapThenSumSet(LAMBDA k : IF PlainTransferTo(k, a)
                                        THEN outputs[k].deposit ELSE 0,
                             OutIndexes)

\* In an accepted transaction every SenderFeatureBlock on an output names an
\* identity that signed one of the inputs: OutputsSender (transaction.go:
\* 503-529) reads the UnlockedIdents the unlock pass left behind, so the
\* order of runSemanticValidations matters.
OutputSendersSigned ==
    result = "ok" =>
        \A k \in OutIndexes :
            outputs[k].fb.sender # None =>
                \E i \in 1..Len(inputs) : unlockBlocks[i] = Sig(outputs[k].fb.sender)

\* Expiration of an input per spec 4.4: past once every present kind is
\* reached by the confirming milestone.
ExpiredAt(fb) ==
    /\ fb.expMs # None \/ fb.expUnix # None
    /\ fb.expMs = None \/ fb.expMs <= ConfirmingMilestoneIndex
    /\ fb.expUnix = None \/ fb.expUnix <= ConfirmingMilestoneUnix

\* In an accepted transaction no consumed input is still timelocked, an
\* input past its expiration was signed for by its Sender, and a Simple or
\* Extended input before its expiration by its owner.  Unlock resolution
\* (checkSenderFeatureBlockIdentUnlock) and TxSemanticTimelock compare with
\* the same milestone in opposite directions.
SpentWithinTimeConditions ==
    result = "ok" =>
        \A i \in 1..Len(inputs) :
            LET o == TxInput(i)
            IN  /\ o.fb.timelockMs = None \/ o.fb.timelockMs <= ConfirmingMilestoneIndex
                /\ o.fb.timelockUnix = None \/ o.fb.timelockUnix <= ConfirmingMilestoneUnix
                /\ ExpiredAt(o.fb) => SignedBy(i, o.fb.sender)
                /\ (~ExpiredAt(o.fb) /\ o.type \in {"Simple", "Extended"}
                    /\ o.address \in EdAddrs) => SignedBy(i, o.address)

\* What an accepted transaction should balance (spec 4.5 step 2 and 8):
\* the deposits of the outputs its inputs consume equal those it creates.
DepositBalanced ==
    result = "ok" =>
        MapThenSumSet(LAMBDA i : TxInput(i).deposit, 1..Len(inputs))
        = MapThenSumSet(LAMBDA k : outputs[k].deposit, OutIndexes)

\* What the native token check should ensure (spec 4.5 step 3 and 9): in
\* an accepted transaction every native token whose amount differs between
\* the consumed and the created outputs has its foundry transitioning.
NativeTokensBalanced ==
    result = "ok" =>
        LET inSum  == NativeTokenSum([i \in 1..Len(inputs) |-> TxInput(i)])
            outSum == NativeTokenSum(outputs)
            amount(sum, t) == IF t \in DOMAIN sum THEN sum[t] ELSE 0
        IN  \A t \in DOMAIN inSum \cup DOMAIN outSum :
                amount(inSum, t) # amount(outSum, t) => FoundryIdOf(t) \in OutChains

\* Every chain-constrained output of an accepted transaction is the state a
\* ValidateStateTransition call of TxSemanticSTVFOnChains (transaction.go:
\* 625-645) was given, so no chain state is created without its STVF.
\* OutChains is a map keyed by chain id (transaction.go:291).
EveryChainOutputValidated ==
    result = "ok" =>
        \A k \in OutIndexes :
            IsChainOutput(outputs[k]) => \E call \in stvfCalls : call[3] = k

\* TxSemanticDeposit sums deposits in uint64 on the strength of its comment
\* "due to syntactic validation of outputs, input and output deposit sums
\* are always within bounds of the total token supply" (transaction.go:
\* 535-536).  Only the signing message of NewSemValiContextWorkingSet runs
\* that validation, and only on the outputs: in an accepted transaction the
\* outputs' sum and the sum the deposit check takes over the InputSet both
\* stay within the total supply.
DepositSumsWithinSupply ==
    result = "ok" =>
        /\ OutputDepositSum <= TotalSupply
        /\ MapThenSumSet(LAMBDA r : inputSet[r].deposit, DOMAIN inputSet) <= TotalSupply

\* A SemanticValidationFunc "tells whether the transaction is passing a
\* specific semantic validation rule" (transaction.go:208-210), and
\* SemanticallyValidate takes them as semValFuncs (transaction.go:300): an
\* accepted transaction passes every rule its caller supplied.
CallerRulesHonoured ==
    result = "ok" => \A f \in DOMAIN semValFuncs : semValFuncs[f] = "none"

=============================================================================
