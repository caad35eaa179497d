------------------------------ MODULE Outputs ------------------------------
(***************************************************************************)
(* The closed family of ledger objects a transaction consumes and         *)
(* produces, abstracted to the fields the semantic validation of          *)
(* transaction.go reads.  The Go types (SimpleOutput, ExtendedOutput,     *)
(* AliasOutput, NFTOutput, FoundryOutput, the feature blocks, the unlock  *)
(* blocks and the addresses) live outside src/ and are modelled from the  *)
(* specification's data model (spec.md section 3 and 4.4).               *)
(*                                                                         *)
(* Addresses are model values.  An AliasAddress is identified with the    *)
(* AliasID it is derived from, an NFTAddress with its NFTID.              *)
(***************************************************************************)
EXTENDS Naturals

CONSTANTS
    EdAddrs,        \* Ed25519 addresses (DirectUnlockableAddress)
    AliasIds,       \* AliasIDs, equal to the AliasAddresses they induce
    NFTIds,         \* NFTIDs, equal to the NFTAddresses they induce
    ZeroId,         \* the empty (zeroed) AliasID / NFTID
    None,           \* absent map entry or absent feature block
    BadSig,         \* a signature that verifies for no address
    ExpValues,      \* milestone indexes / unix times an expiration may carry
    StateIndexes    \* alias state indexes

ASSUME ZeroId \notin EdAddrs \cup AliasIds \cup NFTIds

Address == EdAddrs \cup AliasIds \cup NFTIds

\* ChainConstrainedAddress / DirectUnlockableAddress families.
ChainConstrainedAddress == AliasIds \cup NFTIds
DirectUnlockableAddress == EdAddrs

(***************************************************************************)
(* The feature blocks read during unlocking: Sender and the two           *)
(* Expiration kinds.  Syntactic validation (OutputsPredicateSender-       *)
(* FeatureBlockRequirement) guarantees a Sender when an Expiration is     *)
(* present, which transaction.go:417 relies on.                           *)
(***************************************************************************)
UnlockFeatureBlocks ==
    { fb \in [sender: Address \cup {None},
              expMs: ExpValues \cup {None},
              expUnix: ExpValues \cup {None}] :
        (fb.expMs # None \/ fb.expUnix # None) => fb.sender # None }

NoFeatureBlocks == [sender |-> None, expMs |-> None, expUnix |-> None]

(***************************************************************************)
(* Output variants.  Simple and Extended outputs carry one owner address; *)
(* an NFT output is owned by its address field and may not be owned by    *)
(* itself (NFTOutputCyclicAddress); a Foundry is owned by an alias; an    *)
(* Alias has a state and a governance controller, neither equal to its    *)
(* own AliasID (AliasOutputCyclicAddress).                                 *)
(***************************************************************************)
SimpleOutputs == [type: {"Simple"}, address: Address, fb: {NoFeatureBlocks}]

\* On the input side a Sender block matters only next to an Expiration, so
\* the inputs enumerated carry a Sender only together with one.
InputFeatureBlocks ==
    { fb \in UnlockFeatureBlocks :
        fb.sender # None => (fb.expMs # None \/ fb.expUnix # None) }

ExtendedOutputs == [type: {"Extended"}, address: Address, fb: InputFeatureBlocks]

AliasOutputs ==
    { o \in [type: {"Alias"}, aliasId: AliasIds \cup {ZeroId},
             stateCtrl: Address, govCtrl: Address,
             stateIndex: StateIndexes, fb: {NoFeatureBlocks}] :
        /\ AliasIds # {}
        /\ o.aliasId \notin {o.stateCtrl, o.govCtrl} }

NFTOutputs ==
    { o \in [type: {"NFT"}, nftId: NFTIds, address: Address,
             fb: {NoFeatureBlocks}] :
        o.nftId # o.address }

FoundryOutputs == [type: {"Foundry"}, address: AliasIds, fb: {NoFeatureBlocks}]

InputOutputs ==
    SimpleOutputs \cup ExtendedOutputs \cup AliasOutputs \cup NFTOutputs
        \cup FoundryOutputs

\* SingleIdentOutput: every variant but the Alias (the MultiIdentOutput).
IsSingleIdentOutput(o) == o.type # "Alias"

\* ChainConstrainedOutput whose Chain() is Addressable: Alias and NFT.
IsAddressableChainOutput(o) == o.type \in {"Alias", "NFT"}

\* Chain().ToAddress() of an addressable chain output: its stored id.
ChainAddress(o) == IF o.type = "Alias" THEN o.aliasId ELSE o.nftId

(***************************************************************************)
(* Unlock blocks.  A SignatureUnlockBlock is abstracted to the address    *)
(* whose Unlock(msg, sig) it satisfies (BadSig: none).  The referential   *)
(* blocks carry the index they point to (1-based here, 0-based in Go).    *)
(***************************************************************************)
SignatureUnlockBlocks == [type: {"Signature"}, sig: EdAddrs \cup {BadSig}]

ReferentialUnlockBlocks(n) ==
    [type: {"Reference", "Alias", "NFT"}, ref: 1..n]

UnlockBlocks(n) == SignatureUnlockBlocks \cup ReferentialUnlockBlocks(n)

\* ReferentialUnlockBlock.Chainable(): Alias and NFT unlock blocks.
Chainable(ub) == ub.type \in {"Alias", "NFT"}

\* ReferentialUnlockBlock.SourceAllowed(addr).
SourceAllowed(ub, addr) ==
    CASE ub.type = "Reference" -> addr \in DirectUnlockableAddress
      [] ub.type = "Alias"     -> addr \in AliasIds
      [] ub.type = "NFT"       -> addr \in NFTIds

=============================================================================
