# TLA+ models of the iota.go transaction core

This directory models the transaction core of `iota.go`: `src/transaction.go` and
`src/transaction_essence.go`. It uses TLA+ and checks the models with TLC.

## 1. Inventory

### Components

| Component | Source | State it keeps | Operations |
|---|---|---|---|
| Unlock resolution | `transaction.go:345-499` | `WorkingSet.UnlockedIdents` (address -> input index), the loop index | `TxSemanticInputUnlocks`, `unlockOutput`, `identToUnlock`, `identToUnlockFromMultiIdentOutput`, `checkSenderFeatureBlockIdentUnlock` |
| Semantic pipeline | `transaction.go:208-333, 501-702` | the `SemValiContextWorkingSet`: InputSet, InChains, OutChains, InputsByType/OutputsByType, In/OutNativeTokens | `SemanticallyValidate`, `NewSemValiContextWorkingSet`, `runSemanticValidations`, `TxSemanticDeposit`, `TxSemanticNativeTokens`, `TxSemanticTimelock`, `TxSemanticOutputsSender`, `TxSemanticSTVFOnChains` |
| Essence syntactic validation | `transaction_essence.go:281-313` | none (a predicate) | `SyntacticallyValidate` |
| Transaction syntactic validation | `transaction.go:175-206` | none | `syntacticallyValidate`, `txDeSeriValidation` |
| Codec | `transaction.go:90-138`, `transaction_essence.go:98-229` | the byte buffer, a per-call copy of the unlock-block array rules | `Serialize`, `Deserialize`, `SigningMessage`, `ID`, `OutputsSet` |
| JSON mirror | `transaction.go:140-173, 704-727`, `transaction_essence.go:231-386` | none | `MarshalJSON`, `UnmarshalJSON`, `ToSerializable` |
| Output, feature block, unlock block and address types | outside `src/` (spec section 3) | value objects | accessors only |

### How the components interact

Each call runs synchronously. The semantic checks share nothing between calls.
The codec is the one place where callers can run at the same time: spec
section 5 says a `Transaction` may be decoded concurrently, and
`Deserialize` protects itself by copying the package-level
`txUnlockBlockArrayRules` before binding its Min/Max (`transaction.go:101`).
`SemanticallyValidate` first builds the working set:

- the signing message, which re-serializes the essence with validation;
- the transaction id, which serializes the transaction;
- InChains from the supplied InputSet map;
- OutChains from the outputs, using the transaction id to derive zeroed chain ids.

It then runs six checks in a fixed order. The first error stops the rest.
The checks talk to each other only through the working set:

- the unlock pass writes `UnlockedIdents`, and `TxSemanticOutputsSender` reads it later;
- the unlock pass reads `OutChains`, to choose the alias controller;
- the native token check reads `OutChains`, to find transitioning foundries.

### What is hard

There is no persistence and no timeout. The one concurrency is callers
decoding at the same time. The hard parts are ordering and protocol:

- **Referential unlocks.** An input may name an earlier input's unlock. This
  works only if the inputs are processed in ascending order. The code never
  compares the referenced index with the current one. Correctness rests on
  the index stored in `UnlockedIdents`.
- **Who must unlock an input.** This depends on other state:
  - for an alias, on the output side (governance or state transition);
  - for an expiring output, on the confirming milestone (the Sender takes over).
- **Boundaries.** Expiration uses `<=` and timelocks use `<`, against the same
  milestone. With both expiration kinds present, both must be reached.
- **Which inputs count.** Three checks iterate the InputSet *map*, not the
  inputs the essence names: the deposit sum, the timelock check and InChains.
- **Chains.** Chain ids on the output side are map keys. Chain addresses are
  registered in `UnlockedIdents` only on one path.

### What makes each component correct

- **Unlock resolution.** Every input of an accepted transaction is unlocked by
  the identity it resolves to. That identity is one of:
  - the owner;
  - the alias's governance or state controller;
  - the expired-to Sender.
  The unlock is either a valid signature of that identity, or a reference to
  the earlier input that holds the signature (or the chain).
- **Pipeline.**
  - The deposits of the consumed outputs equal those of the created outputs.
  - Native tokens balance, except for tokens whose foundry transitions.
  - Every DustDepositReturn is paid back by plain transfers.
  - No timelocked input is spent.
  - Every output Sender signed the transaction.
  - Every chain gets one state-transition call of the right kind.
- **Syntactic validation.** Its verdict is a deterministic predicate of the
  object: bounds, uniqueness, and the derivation of alias and NFT ids.
- **Codec.** `decode(encode(x)) = x`. Under lexical ordering the encoding is
  canonical. The signing message and the transaction id depend only on the
  object.

## 2. Plan

The order puts the most important behaviour first:

1. **`InputUnlocks`** (done). The unlock pass, one action per branch of
   `unlockOutput`.
2. **`SemanticValidation`** (done, partly). Builds the whole pipeline on top of
   `InputUnlocks` through `INSTANCE` on the same variables. Done since:
   duplicate chain ids on the output side (`duplicate_chains`) and the
   caller's own rules (`caller_rules`). The signing-message error path is the `BuildWorkingSet` stage.
3. **`EssenceSyntax`** (folded into `TransactionCodec`). `SyntacticallyValidate` and the transaction's
   `syntacticallyValidate` as predicates over bounded essences. Checked:
   - idempotence and determinism;
   - the derivation of alias and NFT ids from (transaction id, index);
   - the unlock-block reference rules the semantic pass relies on.
4. **`Codec`** (done as `TransactionCodec`, without the recursive decoder:
   the token encoding makes each array one token per element). Serialize and Deserialize of the essence and the transaction
   over abstract tokens. Covers the u16 length prefixes, the array rules
   (min/max, no-duplicates, lexical ordering), the type bytes and the
   payload guard. It is a `RECURSIVE` decoder, checked for round trip and
   canonicality against a reference definition over bounded objects. The
   transaction id and the signing message are hashes, modelled as an
   injective function.
5. **`AtomicDeserialize`** (done): the codec's refinement.
6. **`AbstractValidation`** and a refinement. An abstract specification of
   what semantic validation promises: accept exactly the transactions that are
   authorised, balanced and in time. `SemanticValidation` is then shown to
   implement it with `INSTANCE ... WITH`, using only the parts that hold. The
   known divergences are stated as violations.

## 3. Modules

- **`Outputs.tla`.** The closed families of addresses, outputs, feature
  blocks and unlock blocks. Their Go types are outside `src/`, so this module
  is modelled from spec sections 3 and 4.4.
  - An Alias or NFT address is identified with its id.
  - A signature unlock block is abstracted to the address it verifies for.
  - Referential unlock blocks carry 1-based indices (0-based in Go).
- **`InputUnlocks.tla`.** Models `transaction.go:345-499`.
  - Variables: the transaction (`inputs`, `unlockBlocks`), the supplied
    `inputSet`, `outChains` (the alias part of OutChains), `unlockedIdents`,
    the loop `inputIndex`, and `verdict`.
  - `TargetIdent` is the identity `unlockOutput` settles on.
  - Actions: `MissingUTXO`, `UnlockChainConstrained`, `UnlockByReference` and
    `UnlockBySignature` are the branches of the loop body. `AllUnlocked` is
    the loop's exit.
- **`SemanticValidation.tla`.** Models `transaction.go:263-333, 501-702`.
  - `U == INSTANCE InputUnlocks` runs the unlock pass on the same variables.
  - `stage` follows `runSemanticValidations`, and `result` holds the first
    error.
  - There is one action per check. The state-transition functions are outside
    `src/`, so their outcome is a free choice (`ChainsTransitioned` or
    `ChainTransitionRejected`) once the calls in `stvfCalls` are fixed.
  - The native token action keeps the code's second sum over the *inputs*
    (`transaction.go:663`).
  - The first stage, `BuildWorkingSet`, is `NewSemValiContextWorkingSet`. Its
    signing message serializes the essence with validation, and so runs
    `SyntacticallyValidate` on the outputs (`EssenceErr`: zero deposit, a
    deposit or the sum over `TotalSupply`, a missing Sender). A failure ends
    the call before the unlock pass.
  - `semValFuncs` holds the caller's `SemanticValidationFunc` arguments
    (`transaction.go:300`) with their verdicts. No action reads it,
    because the code does not call them.
  - `AliasOutChains` is the alias part of the `OutChains` map. Like
    `OutChainEntry`, it keeps the last output per chain id.
- **`TransactionCodec.tla`.** Models `transaction.go:50-206` and
  `transaction_essence.go:16-386`.
  - Bytes are a sequence of tokens: one per fixed-width field (type byte,
    u16 count, payload length) and one per serialized object. Truncation and
    foreign type bytes are therefore expressible; bit layout is not.
  - `Hash` is an injective function (`[blake2b |-> bytes]`).
  - `DeserializeEssence`, `EssenceSyntacticErr`, `SerializeEssence`,
    `TxSyntacticErr`, `TxDeSeriValidation`, `SerializeTx`, `ID`,
    `SigningMessage`, `DecodeTx`, the two essence type selectors, and the
    JSON halves (`EssenceMarshalJSON`, `MarshalJSON`, `EssenceToSerializable`,
    `UnmarshalJSON`) are operators translating the functions of the same
    names.
  - `Transaction.Deserialize` is also split into the steps a concurrent
    caller goes through: `DeserializeCall` (take the per-call copy of the
    rules, line 101), `ReadEssence`, `BindUnlockRules` (109-113),
    `ReadUnlockBlocks` (114) and `ValidateTx` (117). `rules` is the memory
    holding the package-level rules (`"global"`) and each caller's copy;
    `rulesRef[w]` is the slot caller `w` uses.
  - `Serialize` and `JSONRoundTrip` are callers producing bytes or objects.
- **`AtomicDeserialize.tla`.** What `Deserialize` promises its callers
  (spec 4.1 and 5). A call is a pure function of its arguments: `Call`
  records the arguments, `Return` yields `Decode` of them, and `Publish`
  makes serialized bytes available. `TransactionCodec` instantiates it as
  `Atomic` with a refinement mapping.
- **`MC_InputUnlocks.tla`** and **`MC_SemanticValidation.tla`.** Model values,
  the `AliasIDFromOutputID` stand-in, the candidate outputs for each question,
  and symmetry over the Ed25519 addresses. The properties treat every Ed25519
  address alike, so the symmetry is sound.

## 4. Runs

| Run | What it checks | Result |
|---|---|---|
| `unlock_pass` | `TypeOK`, `AcceptedInputsAuthorized`, `NoChainOwnedInputAccepted` | pass |
| `pipeline_time` | `TypeOK`, `DustReturnHonoured`, `OutputSendersSigned`, `SpentWithinTimeConditions`, `DepositSumsWithinSupply` | pass |
| `deposit_superset` | `DepositBalanced` | violation (finding) |
| `native_tokens` | `NativeTokensBalanced` | violation (finding) |
| `caller_rules` | `CallerRulesHonoured` | violation (finding) |
| `duplicate_chains` | `EveryChainOutputValidated` | violation (finding) |
| `codec_atomic` | `DecodedUnlocksMatchInputs`, `DeserializeIsAtomic` | pass |
| `codec_decode` | `TypeOK`, `DecodedWellFormed`, `DecodedHasSigningMessage`, `TxIdAgreement` | pass |
| `codec_serialize` | `ValidatedEncodingDecodes` | violation (finding) |
| `codec_json` | `JSONAgreesWithBinary` | violation (finding) |

What each run covers:

- **`unlock_pass`.** One instance holds every input kind, with two inputs
  (about 8.8 million distinct states, under a minute). First, Ed25519 owners,
  and Extended inputs with expiring Senders:
  - expiration values 1 and 2 against milestone 1, so the `<=` boundary is hit;
  - unlock blocks of all four kinds, with references to any index, backward
    or not.
  Accepted transactions only ever let the resolved identity spend, through its
  own signature or a backward `ReferenceUnlockBlock` to it.
  Second, Alias inputs (explicit and zeroed ids, all controller
  pairs, next state index absent, equal or different), NFT and Foundry
  inputs, and Alias/NFT unlock blocks. `NoChainOwnedInputAccepted` holds:
  - no accepted transaction spends an output owned by an Alias or NFT address;
  - this is the third finding below;
  - its mutant registers the chain address on the signature path too, and then
    TLC accepts such spends.
- **`pipeline_time`.** The whole pipeline with two inputs and up to two
  outputs. Deposits are 1 or 2. Inputs have expiring Senders with or without
  a return amount, and timelocks at 1 or 2. Outputs include Sender-carrying,
  timelocked and NFT outputs (existing and genesis).
  `TotalSupply = 3` sits below the largest output sum (2 + 2), so the working
  set's signing message rejects some essences before any check runs.
  - `DepositSumsWithinSupply`: in an accepted transaction, the outputs' deposit
    sum and the deposit check's sum over the InputSet both stay within the
    supply. `TxSemanticDeposit` relies on this for its unchecked uint64 sums
    (comment at `transaction.go:535-536`). The mutant bounds each deposit by
    the supply but not their sum.
- **`deposit_superset`.** The InputSet may hold one spare output `r3`. TLC
  finds an input of 1 plus the spare entry of 1 funding an output of 2.
- **`native_tokens`.** TLC finds an input without tokens and an output with
  one unit of `t1`, with no foundry anywhere, and the transaction is accepted.
- **`caller_rules`.** The caller passes one `SemanticValidationFunc`. Its
  verdict on the transaction is chosen in `Init` (`semValFuncs`), since the
  rule is the caller's own code. TLC finds a transaction the rule rejects
  that `SemanticallyValidate` accepts.

- **`duplicate_chains`.** TLC finds two NFT outputs with the same id. They
  collapse into one `OutChains` entry (`OutChainEntry`: the last output with
  that id), and only that one is given to an STVF.
- **`codec_atomic`.** Two callers decode, interleaved step by step. Each
  decodes with or without validation, and with or without parameters. The
  inputs are encodings of one- and two-input transactions with matching or
  wrong unlock block counts. Meanwhile other callers serialize and publish
  bytes. Two properties are checked:
  - No accepted transaction has a different number of unlock blocks than
    inputs. Its mutant lets every caller bind the package-level rules, and
    TLC finds one caller's count used by the other.
  - `DeserializeIsAtomic`: the model refines `AtomicDeserialize`, in which
    a call is one step returning `DecodeTx` of its own arguments. The
    refinement mapping maps `pc` to idle/busy/done and the progress record
    to the returned result. Its mutant validates as if parameters had been
    passed.
- **`codec_decode`.** One caller decodes, with and without validation,
  the encodings of transactions that vary one field at a time (inputs of
  every kind up to one over the bound, outputs of every kind, payloads,
  unlock blocks), each also truncated and with a foreign type byte.
  Accepted transactions are well formed by an independent statement of spec
  sections 3 and 4.6 (`WellFormedTx`), and the id computed from the bytes
  read equals `ID()`. Every accepted transaction also has a signing message:
  `SigningMessage` serializes the essence with validation, and that
  validation accepts whatever the validating decoder accepts. So
  `NewSemValiContextWorkingSet` cannot fail at `transaction.go:268` on a
  transaction taken off the wire.
- **`codec_serialize`.** TLC finds a transaction with two outputs to the same
  address that `Serialize` with validation accepts and `Deserialize` with
  validation refuses.
- **`codec_json`.** TLC finds a transaction with a duplicated input and one
  unlock block that `UnmarshalJSON` accepts and the binary decoder refuses.

Every property of a passing run has a mutant in `PROJECT.json`. Each mutant is
a plausible slip in the code, and TLC finds it violating the property.

### Findings

1. **Native tokens are never balanced** (`transaction.go:663`). The output sum
   is taken from the inputs. Spec section 9 already suspects this.
2. **Deposits are summed over the supplied map** (`transaction.go:540`), not
   over the consumed outputs. The same holds for timelocks (599) and InChains
   (289).
3. **Chain-owned outputs can never be unlocked** (`transaction.go:468-470`).
   A chain address is registered only in a branch that needs it registered
   already.
4. **Validated encodings need not decode** (`transaction_essence.go:144`).
   Address uniqueness of outputs is checked only on decode. The essence check
   with rent structure is outside `src/`; it is modelled from spec 4.6, which
   names no such rule.
5. **JSON decoding validates nothing** (`transaction.go:711`,
   `transaction_essence.go:336`), unlike what spec section 6 says.
6. **Duplicate output chain ids go unvalidated** (`transaction.go:291`).
   Nothing in `src/` or in spec 4.6 rejects two outputs with one NFT or Alias
   id. Only one of them reaches `ValidateStateTransition`, unless the
   per-variant STVF outside `src/` scans the outputs itself.
7. **Caller-supplied rules are ignored** (`transaction.go:300`).
   `SemanticallyValidate` takes `semValFuncs ...SemanticValidationFunc`.
   The doc comment (208-209) says such a function tells whether the
   transaction passes a rule. The function never calls them.

### Bounds

- Two inputs are enough for every unlock interaction. A reference needs one
  earlier input, and the chain finding is an induction whose base case already
  fails with two.
- Two outputs let a return and a change output coexist.
- In the codec, MaxInputsCount = MaxOutputsCount = 2 stand for 127: the
  checks compare against the constant only, so arrays of 0, 1, 2 and 3 cover
  below, at and over every bound, and UTXO index 2 is one past the last.
  Two callers are enough for the interleaving: the hazard is one caller's
  binding seen by one other.
- `TotalSupply` is 3 in `pipeline_time` (two outputs of 2 exceed it, one
  does not) and 10 elsewhere, where it never binds.
- Milestone index and unix time are both 1, and expirations and timelocks
  take the values 1 and 2. This covers below, at, and after the boundary.

### Fairness

No run assumes fairness and no liveness property is checked. The semantic
checks and `Deserialize` are straight-line code whose loops run over the
finite inputs, outputs and unlock blocks of one transaction, and they take no
lock and wait for nothing; a property that the call returns would restate the
loop bounds. The properties are all safety properties.

The runs set `CHECK_DEADLOCK FALSE` because validation and decoding really
stop once every call has returned.

## 5. Not modelled

- **JSON field formatting.** Hex and string conversions are left out; the
  model keeps which checks the JSON path runs.
- **`OutputsSet`.** A map keyed by (`ID()`, index); it adds no control not
  in `ID`.
- **The working-set types** (`SemanticValidationContext`,
  `SemValiContextWorkingSet`, `transaction.go:207-248`). They are the
  variables of `SemanticValidation`. `featureBlockSetFromOutput` is not
  called by the code in `src/`.
- **Cryptography.** Blake2b and Ed25519 become equality of model values.
- **Per-variant state-transition functions and output syntactic predicates.**
  They are outside `src/`.
- **uint64 wrap-around of the deposit sums.** `TxSemanticDeposit` adds
  deposits without an overflow check. The model sums without wrapping.
  Wrapping the InputSet sum would need thousands of map entries at the
  supply limit. Only the bound the code's comment relies on is checked
  (`DepositSumsWithinSupply`).
- **The native token count and foundry predicates of
  `SyntacticallyValidate`.** They read fields the modelled outputs do not
  carry.
