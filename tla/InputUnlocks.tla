---------------------------- MODULE InputUnlocks ----------------------------
(***************************************************************************)
(* The unlock pass of semantic validation, TxSemanticInputUnlocks and     *)
(* unlockOutput (src/transaction.go:345-499).  The inputs are walked in   *)
(* ascending index order; for each one the identity to unlock is resolved *)
(* (identToUnlock, identToUnlockFromMultiIdentOutput and the Sender/      *)
(* Expiration override of checkSenderFeatureBlockIdentUnlock), and the    *)
(* unlock block at the same index must unlock it, reading and extending  *)
(* the UnlockedIdents table of the working set.                            *)
(*                                                                         *)
(* One step of the model is one iteration of the loop at                  *)
(* transaction.go:349, i.e. one whole call of unlockOutput.               *)
(***************************************************************************)
EXTENDS Outputs, Sequences, Functions, TLC

CONSTANTS
    UTXORefs,                   \* the UTXO references the inputs name, in order
    AliasIdFromOutputID(_),     \* AliasID derived from an OutputID (a hash)
    ConfirmingMilestoneIndex,
    ConfirmingMilestoneUnix

ASSUME IsInjective(UTXORefs)
ASSUME AliasIds # {} =>
        \A i \in DOMAIN UTXORefs : AliasIdFromOutputID(UTXORefs[i]) \in AliasIds

VARIABLES
    inputs,          \* Essence.Inputs: the UTXO references, in order
    inputSet,        \* the supplied OutputSet: UTXO reference -> Output
    unlockBlocks,    \* Tx.UnlockBlocks, parallel to inputs
    outChains,       \* OutChains restricted to aliases: AliasID -> next StateIndex or None
    unlockedIdents,  \* WorkingSet.UnlockedIdents: Address -> input index
    inputIndex,      \* the loop index of TxSemanticInputUnlocks (1-based)
    verdict          \* "running", "ok" or the error returned

vars == <<inputs, inputSet, unlockBlocks, outChains, unlockedIdents,
          inputIndex, verdict>>

Verdicts == {"running", "ok", "MissingUTXO", "InvalidInputUnlock",
             "SignatureInvalid"}

-----------------------------------------------------------------------------
(* Resolution of the identity an input must be unlocked by.                *)

\* identToUnlockFromMultiIdentOutput: the governance controller unlocks when
\* the alias is destroyed or its state index does not change.
IdentFromAlias(i, o) ==
    LET aliasID == IF o.aliasId = ZeroId
                   THEN AliasIdFromOutputID(inputs[i])
                   ELSE o.aliasId
    IN  IF outChains[aliasID] = None \/ o.stateIndex = outChains[aliasID]
        THEN o.govCtrl
        ELSE o.stateCtrl

\* identToUnlock
IdentToUnlock(i, o) ==
    IF IsSingleIdentOutput(o) THEN o.address ELSE IdentFromAlias(i, o)

\* Mutant: an Expiration counts as reached only once the milestone is past it.
ExpirationReachedStrict(fb) ==
    /\ fb.expMs # None \/ fb.expUnix # None
    /\ fb.expMs # None => fb.expMs < ConfirmingMilestoneIndex
    /\ fb.expUnix # None => fb.expUnix < ConfirmingMilestoneUnix

\* checkSenderFeatureBlockIdentUnlock: an Expiration (both kinds AND'd when
\* both are present) that has been reached hands the output to its Sender.
ExpirationReached(fb) ==
    /\ fb.expMs # None \/ fb.expUnix # None
    /\ fb.expMs # None => fb.expMs <= ConfirmingMilestoneIndex
    /\ fb.expUnix # None => fb.expUnix <= ConfirmingMilestoneUnix

\* The targetIdent unlockOutput settles on (transaction.go:440-451).
TargetIdent(i) ==
    LET o == inputSet[inputs[i]]
    IN  IF ExpirationReached(o.fb) THEN o.fb.sender ELSE IdentToUnlock(i, o)

\* The chain id of an addressable chain output of the input set; a zeroed
\* AliasID stands for the one derived from the output's id.
InputChainId(r) ==
    IF inputSet[r].type = "Alias" /\ inputSet[r].aliasId = ZeroId
    THEN AliasIdFromOutputID(r)
    ELSE ChainAddress(inputSet[r])

\* Chain ids are unique among the unspent outputs of a ledger.
ChainIdsUnique ==
    \A r, s \in DOMAIN inputSet :
        (/\ r # s
         /\ IsAddressableChainOutput(inputSet[r])
         /\ IsAddressableChainOutput(inputSet[s]))
        => InputChainId(r) # InputChainId(s)

-----------------------------------------------------------------------------
Init ==
    /\ \E n \in 1..Len(UTXORefs) : inputs = SubSeq(UTXORefs, 1, n)
    /\ inputSet \in UNION {[S -> InputOutputs] : S \in SUBSET Range(inputs)}
    /\ ChainIdsUnique
    /\ unlockBlocks \in [1..Len(inputs) -> UnlockBlocks(Len(inputs))]
    /\ outChains \in [AliasIds -> StateIndexes \cup {None}]
    /\ unlockedIdents = [a \in {} |-> 0]
    /\ inputIndex = 1
    /\ verdict = "running"

Running == verdict = "running" /\ inputIndex <= Len(inputs)

\* transaction.go:350-353: the input's UTXO is not in the supplied set.
MissingUTXO ==
    /\ Running
    /\ inputs[inputIndex] \notin DOMAIN inputSet
    /\ verdict' = "MissingUTXO"
    /\ UNCHANGED <<inputs, inputSet, unlockBlocks, outChains, unlockedIdents,
                   inputIndex>>

Present == Running /\ inputs[inputIndex] \in DOMAIN inputSet

Advance == inputIndex' = inputIndex + 1 /\ UNCHANGED verdict
Reject(err) == verdict' = err /\ UNCHANGED <<unlockedIdents, inputIndex>>

\* transaction.go:456-470: the target is a ChainConstrainedAddress.  The
\* block must be a chainable, source-allowed reference to the very index
\* that unlocked the address; the input's own chain address then becomes
\* unlocked at this index.
UnlockChainConstrained ==
    /\ Present
    /\ LET i  == inputIndex
           o  == inputSet[inputs[i]]
           t  == TargetIdent(i)
           ub == unlockBlocks[i]
       IN  /\ t \in ChainConstrainedAddress
           /\ IF /\ ub.type # "Signature"
                 /\ Chainable(ub) /\ SourceAllowed(ub, t)
                 /\ t \in DOMAIN unlockedIdents
                 /\ unlockedIdents[t] = ub.ref
              THEN /\ unlockedIdents' =
                        IF IsAddressableChainOutput(o)
                        THEN (ChainAddress(o) :> i) @@ unlockedIdents
                        ELSE unlockedIdents
                   /\ Advance
              ELSE Reject("InvalidInputUnlock")
    /\ UNCHANGED <<inputs, inputSet, unlockBlocks, outChains>>

\* Mutant: the referential check of transaction.go:480 tests only that the
\* address was unlocked, not that it was unlocked at the referenced index.
UnlockByReferenceAnyIndex ==
    /\ Present
    /\ LET i  == inputIndex
           t  == TargetIdent(i)
           ub == unlockBlocks[i]
       IN  /\ t \in DirectUnlockableAddress
           /\ ub.type # "Signature"
           /\ IF /\ ~Chainable(ub) /\ SourceAllowed(ub, t)
                 /\ t \in DOMAIN unlockedIdents
              THEN Advance /\ UNCHANGED unlockedIdents
              ELSE Reject("InvalidInputUnlock")
    /\ UNCHANGED <<inputs, inputSet, unlockBlocks, outChains>>

\* transaction.go:474-482: a direct address behind a referential block,
\* which must be a non-chainable ReferenceUnlockBlock pointing at the index
\* that unlocked the address.
UnlockByReference ==
    /\ Present
    /\ LET i  == inputIndex
           t  == TargetIdent(i)
           ub == unlockBlocks[i]
       IN  /\ t \in DirectUnlockableAddress
           /\ ub.type # "Signature"
           /\ IF /\ ~Chainable(ub) /\ SourceAllowed(ub, t)
                 /\ t \in DOMAIN unlockedIdents
                 /\ unlockedIdents[t] = ub.ref
              THEN Advance /\ UNCHANGED unlockedIdents
              ELSE Reject("InvalidInputUnlock")
    /\ UNCHANGED <<inputs, inputSet, unlockBlocks, outChains>>

\* Mutant: the index stored at transaction.go:493 is one past the input's
\* (a 0-based/1-based slip).
UnlockBySignatureOffByOne ==
    /\ Present
    /\ LET i  == inputIndex
           t  == TargetIdent(i)
           ub == unlockBlocks[i]
       IN  /\ t \in DirectUnlockableAddress
           /\ ub.type = "Signature"
           /\ CASE t \in DOMAIN unlockedIdents -> Reject("InvalidInputUnlock")
                [] ub.sig # t -> Reject("SignatureInvalid")
                [] OTHER -> /\ unlockedIdents' = (t :> i + 1) @@ unlockedIdents
                            /\ Advance
    /\ UNCHANGED <<inputs, inputSet, unlockBlocks, outChains>>

\* Mutant: the chain address of a signature-unlocked Alias/NFT input is
\* registered too, as transaction.go:468-470 does for the chain branch only.
UnlockBySignatureRegisteringChain ==
    /\ Present
    /\ LET i  == inputIndex
           o  == inputSet[inputs[i]]
           t  == TargetIdent(i)
           ub == unlockBlocks[i]
       IN  /\ t \in DirectUnlockableAddress
           /\ ub.type = "Signature"
           /\ CASE t \in DOMAIN unlockedIdents -> Reject("InvalidInputUnlock")
                [] ub.sig # t -> Reject("SignatureInvalid")
                [] OTHER -> /\ unlockedIdents' =
                                 IF IsAddressableChainOutput(o)
                                 THEN (t :> i) @@ (ChainAddress(o) :> i) @@ unlockedIdents
                                 ELSE (t :> i) @@ unlockedIdents
                            /\ Advance
    /\ UNCHANGED <<inputs, inputSet, unlockBlocks, outChains>>

\* transaction.go:483-493: a direct address behind a signature; the address
\* must not be unlocked yet, and the signature must verify for it.
UnlockBySignature ==
    /\ Present
    /\ LET i  == inputIndex
           t  == TargetIdent(i)
           ub == unlockBlocks[i]
       IN  /\ t \in DirectUnlockableAddress
           /\ ub.type = "Signature"
           /\ CASE t \in DOMAIN unlockedIdents -> Reject("InvalidInputUnlock")
                [] ub.sig # t -> Reject("SignatureInvalid")
                [] OTHER -> /\ unlockedIdents' = (t :> i) @@ unlockedIdents
                            /\ Advance
    /\ UNCHANGED <<inputs, inputSet, unlockBlocks, outChains>>

\* transaction.go:359: every input was unlocked.
AllUnlocked ==
    /\ verdict = "running"
    /\ inputIndex > Len(inputs)
    /\ verdict' = "ok"
    /\ UNCHANGED <<inputs, inputSet, unlockBlocks, outChains, unlockedIdents,
                   inputIndex>>

Next ==
    \/ MissingUTXO
    \/ UnlockChainConstrained
    \/ UnlockByReference
    \/ UnlockBySignature
    \/ AllUnlocked

Spec == Init /\ [][Next]_vars

-----------------------------------------------------------------------------
TypeOK ==
    /\ inputs \in Seq(Range(UTXORefs))
    /\ inputSet \in [DOMAIN inputSet -> InputOutputs]
    /\ unlockBlocks \in [1..Len(inputs) -> UnlockBlocks(Len(inputs))]
    /\ outChains \in [AliasIds -> StateIndexes \cup {None}]
    /\ DOMAIN unlockedIdents \subseteq Address \cup {ZeroId}
    /\ \A a \in DOMAIN unlockedIdents : unlockedIdents[a] \in 1..Len(inputs)
    /\ inputIndex \in 1..Len(inputs) + 1
    /\ verdict \in Verdicts


(***************************************************************************)
(* Who may spend an input (spec section 4.4): a direct address through    *)
(* its own valid signature, or through a ReferenceUnlockBlock pointing    *)
(* back to the input whose signature block is that signature; a chain-    *)
(* constrained address through an Alias/NFT unlock block pointing back to *)
(* the input that holds that very chain.                                  *)
(***************************************************************************)
AuthorizedUnlock(i) ==
    LET t   == TargetIdent(i)
        ub  == unlockBlocks[i]
        sig == [type |-> "Signature", sig |-> t]
    IN  IF t \in DirectUnlockableAddress
        THEN \/ ub = sig
             \/ /\ ub.type = "Reference"
                /\ ub.ref < i
                /\ unlockBlocks[ub.ref] = sig
        ELSE /\ ub.type \in {"Alias", "NFT"}
             /\ ub.ref < i
             /\ inputs[ub.ref] \in DOMAIN inputSet
             /\ IsAddressableChainOutput(inputSet[inputs[ub.ref]])
             /\ ChainAddress(inputSet[inputs[ub.ref]]) = t

\* When the unlock pass of unlockOutput accepts a transaction, every input
\* was spent by the identity it must be unlocked by (owner, controller or
\* expired-to sender), with references only to earlier inputs, although
\* the code never compares a reference with the current index.
AcceptedInputsAuthorized ==
    verdict = "ok" => \A i \in 1..Len(inputs) : AuthorizedUnlock(i)

\* No accepted transaction spends an input whose identity to unlock is an
\* Alias or NFT address: unlockOutput registers a chain's address only in
\* its ChainConstrainedAddress branch (transaction.go:468-470), which itself
\* needs a chain address registered before, so an Alias or NFT unlocked by a
\* signature never makes the outputs it owns spendable.
NoChainOwnedInputAccepted ==
    verdict = "ok" =>
        \A i \in 1..Len(inputs) : TargetIdent(i) \notin ChainConstrainedAddress

=============================================================================
