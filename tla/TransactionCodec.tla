-------------------------- MODULE TransactionCodec --------------------------
(***************************************************************************)
(* The binary codec, the syntactic validation and the JSON mirror of a     *)
(* Transaction (transaction.go:77-206, 704-727 and transaction_essence.go). *)
(*                                                                         *)
(* A byte string is a sequence of tokens: one token per fixed-width field  *)
(* (the u32 payload tag, the u8 essence type, the u16 array counts, the    *)
(* u32 payload length) and one per serialized element (an input, an       *)
(* output, an unlock block, the embedded payload).  Elements carry their   *)
(* type tag, so the selectors that reject unsupported types see it.  The  *)
(* array reader of the serializer library (hive.go, outside src/) is       *)
(* modelled from spec.md 4.1.  Blake2b is an injective function.           *)
(*                                                                         *)
(* Transaction.Deserialize runs as a sequence of steps per caller, because *)
(* between reading the essence and reading the unlock blocks it fills in  *)
(* the count bounds of the package-level txUnlockBlockArrayRules on a      *)
(* copy (transaction.go:101, 109-113); several callers decode at once     *)
(* (spec.md section 5).  Serialize and the JSON mirror are single steps.  *)
(***************************************************************************)
EXTENDS Naturals, Sequences, FiniteSetsExt, Functions

CONSTANTS
    Workers,            \* goroutines calling the codec concurrently
    NoId,               \* the id field of elements that have none
    MaxInputsCount,     \* MaxInputsCount (127 in the code)
    MaxOutputsCount,    \* MaxOutputsCount (127); also bounds UTXO indexes
    TotalSupply,        \* total token supply bounding deposits
    Wires,              \* byte strings handed to Transaction.Deserialize
    Txs,                \* transactions handed to Serialize and MarshalJSON
    Modes,              \* validation flags callers pass (DeSeriMode)
    Params              \* whether a caller passes DeSerializationParameters

(***************************************************************************)
(* Elements.  All share one record shape: type tag, id (UTXO transaction  *)
(* id, output address or signature key), num (UTXO index, deposit or      *)
(* referenced unlock index, 0-based as in Go) and flag (an output whose   *)
(* feature blocks require a missing SenderFeatureBlock).                   *)
(***************************************************************************)
Elem(t, i, n, f) == [type |-> t, id |-> i, num |-> n, flag |-> f]
NoElem == Elem("none", NoId, 0, FALSE)

UTXOInput(ref, index)        == Elem("UTXO", ref, index, FALSE)
Output(t, addr, dep, noSndr) == Elem(t, addr, dep, noSndr)
SignatureUB(key)             == Elem("Signature", key, 0, FALSE)
ReferenceUB(ref)             == Elem("Reference", NoId, ref, FALSE)
Payload(t)                   == Elem(t, NoId, 0, FALSE)

\* PayloadTransaction and TransactionEssenceNormal.
PayloadTransaction       == 6
TransactionEssenceNormal == 0

\* outputTypeSupportedByTxEssence; Simple and Extended stand for the five
\* supported output types, whose per-type fields no check here reads.
EssenceOutputTypes == {"Simple", "Extended"}
UnlockBlockTypes   == {"Signature", "Reference"}

\* Tokens: a fixed-width field or one serialized element.
Fixed(k, n) == [k |-> k, num |-> n, e |-> NoElem]
Obj(k, x)   == [k |-> k, num |-> 0, e |-> x]

\* blake2b.Sum256.
Hash(bytes) == [blake2b |-> bytes]

(***************************************************************************)
(* Array rules (serializer.ArrayRules).                                    *)
(***************************************************************************)
InputsArrayBound ==
    [min |-> 1, max |-> MaxInputsCount, mode |-> "noDuplicates"]
OutputsArrayBound ==
    [min |-> 1, max |-> MaxOutputsCount, mode |-> "none"]
\* min/max are left zero and filled out per transaction.
TxUnlockBlockArrayRules == [min |-> 0, max |-> 0, mode |-> "none"]

Result(v, p) == [err |-> "none", val |-> v, pos |-> p]
Failed(err)  == [err |-> err, val |-> NoElem, pos |-> 0]

(***************************************************************************)
(* Encoding (WriteNum, WriteSliceOfObjects, WritePayload).                 *)
(***************************************************************************)
EncodeSlice(kind, s) ==
    <<Fixed("u16", Len(s))>> \o [j \in 1..Len(s) |-> Obj(kind, s[j])]

EncodePayload(p) ==
    IF p = NoElem THEN <<Fixed("u32", 0)>>
                  ELSE <<Fixed("u32", 1), Obj("payload", p)>>

EncodeEssence(e) ==
    <<Fixed("u8", TransactionEssenceNormal)>>
        \o EncodeSlice("input", e.inputs) \o EncodeSlice("output", e.outputs)
        \o EncodePayload(e.payload)

(***************************************************************************)
(* Decoding.  ReadSlice is ReadSliceOfObjects: a u16 count, the bounds     *)
(* check under validation, the elements with their type selector, and the *)
(* no-duplicates check on the elements' bytes.                             *)
(***************************************************************************)
IsField(b, p, k) == p <= Len(b) /\ b[p].k = k

ReadSlice(b, p, kind, allowed, rules, v) ==
    LET n     == b[p].num
        elems == [j \in 1..n |-> b[p + j].e]
    IN  CASE ~IsField(b, p, "u16") -> Failed("ShortBuffer")
          [] v /\ (n < rules.min \/ n > rules.max) -> Failed("ArrayBoundViolation")
          [] \E j \in 1..n : ~IsField(b, p + j, kind) -> Failed("ShortBuffer")
          [] \E j \in 1..n : elems[j].type \notin allowed ->
                Failed("UnsupportedObjectType")
          [] v /\ rules.mode = "noDuplicates" /\ ~IsInjective(elems) ->
                Failed("DuplicateElement")
          [] OTHER -> Result(elems, p + n + 1)

\* ReadPayload with the selector that admits only an Indexation payload.
ReadPayload(b, p) ==
    CASE ~IsField(b, p, "u32") -> Failed("ShortBuffer")
      [] b[p].num = 0 -> Result(NoElem, p + 1)
      [] ~IsField(b, p + 1, "payload") -> Failed("ShortBuffer")
      [] b[p + 1].e.type # "Indexation" -> Failed("UnsupportedPayloadType")
      [] OTHER -> Result(b[p + 1].e, p + 2)

\* OutputsPredicateAddrUnique.
OutputsAddrUnique(outs) == IsInjective([k \in DOMAIN outs |-> outs[k].id])

\* TransactionEssenceMinByteSize: type byte, two counts, payload length.
EssenceMinFields == 4

\* TransactionEssence.Deserialize, reading from position p.  The AbortIf
\* after ReadPayload (160-170) cannot fail once the selector admitted the
\* payload.
DeserializeEssence(b, p, v) ==
    LET ins  == ReadSlice(b, p + 1, "input", {"UTXO"}, InputsArrayBound, v)
        outs == ReadSlice(b, ins.pos, "output", EssenceOutputTypes,
                          OutputsArrayBound, v)
        pay  == ReadPayload(b, outs.pos)
    IN  CASE v /\ Len(b) - p + 1 < EssenceMinFields -> Failed("ShortBuffer")
          [] v /\ ~(IsField(b, p, "u8")
                    /\ b[p].num = TransactionEssenceNormal) -> Failed("BadTypeTag")
          [] p > Len(b) -> Failed("ShortBuffer")
          [] ins.err # "none" -> ins
          [] outs.err # "none" -> outs
          [] v /\ ~OutputsAddrUnique(outs.val) -> Failed("OutputAddrNotUnique")
          [] pay.err # "none" -> pay
          [] OTHER -> Result([inputs |-> ins.val, outputs |-> outs.val,
                              payload |-> pay.val], pay.pos)

-----------------------------------------------------------------------------
(***************************************************************************)
(* Syntactic validation.                                                   *)
(***************************************************************************)

\* TransactionEssence.SyntacticallyValidate: the min counts, then the input
\* predicates (unique UTXO refs, index bounds), then the output predicates
\* (deposit amount and supply, SenderFeatureBlock requirement), each of
\* which returns the first error.
EssenceSyntacticErr(e) ==
    LET refs     == [i \in DOMAIN e.inputs |-> <<e.inputs[i].id, e.inputs[i].num>>]
        deposits == MapThenSumSet(LAMBDA k : e.outputs[k].num, DOMAIN e.outputs)
    IN  CASE Len(e.inputs) = 0 -> "MinInputsNotReached"
          [] Len(e.outputs) = 0 -> "MinOutputsNotReached"
          [] ~IsInjective(refs) -> "InputUTXORefsNotUnique"
          [] \E i \in DOMAIN e.inputs : e.inputs[i].num > MaxOutputsCount - 1 ->
                "InputUTXOIndexOutOfBounds"
          [] \E k \in DOMAIN e.outputs : e.outputs[k].num = 0 -> "DepositAmountZero"
          [] \E k \in DOMAIN e.outputs : e.outputs[k].num > TotalSupply ->
                "OutputDepositsMoreThanTotalSupply"
          [] deposits > TotalSupply -> "OutputsSumExceedsTotalSupply"
          [] \E k \in DOMAIN e.outputs : e.outputs[k].flag ->
                "OutputRequiresSenderFeatureBlock"
          [] OTHER -> "none"

\* Essence.syntacticallyValidate(minDustDep, rentStruct), which the
\* transaction check calls: the array bounds of spec.md 4.6 on top of the
\* essence rules.  The bounds are inclusive, as Max is in inputsArrayBound
\* and outputsArrayBound (transaction_essence.go:62-73).
TxEssenceSyntacticErr(e) ==
    CASE Len(e.inputs) > MaxInputsCount -> "MaxInputsExceeded"
      [] Len(e.outputs) > MaxOutputsCount -> "MaxOutputsExceeded"
      [] OTHER -> EssenceSyntacticErr(e)

\* UnlockBlocksSigUniqueAndRefValidator: signature blocks are pairwise
\* distinct, a reference names an earlier signature block.
UnlockBlocksValid(ubs) ==
    /\ \A i, j \in DOMAIN ubs :
          (i # j /\ ubs[i].type = "Signature" /\ ubs[j].type = "Signature")
              => ubs[i].id # ubs[j].id
    /\ \A i \in DOMAIN ubs :
          ubs[i].type = "Reference" =>
              /\ ubs[i].num + 1 < i
              /\ ubs[ubs[i].num + 1].type = "Signature"

\* (mutant) the essence's own rules are not consulted.
TxSyntacticErrNoEssence(readBytes, tx) ==
    IF ~UnlockBlocksValid(tx.unlocks) THEN "InvalidUnlockBlocks" ELSE "none"

\* Transaction.syntacticallyValidate over the bytes read or written.  The
\* transaction id it derives from them feeds OutputsSyntacticalAlias/NFT;
\* the outputs here carry no zeroed chain ids, so those accept.
TxSyntacticErr(readBytes, tx) ==
    CASE TxEssenceSyntacticErr(tx.essence) # "none" ->
            TxEssenceSyntacticErr(tx.essence)
      [] ~UnlockBlocksValid(tx.unlocks) -> "InvalidUnlockBlocks"
      [] OTHER -> "none"

\* txDeSeriValidation: the parameters must be present.
TxDeSeriValidation(readBytes, tx, params) ==
    IF params THEN TxSyntacticErr(readBytes, tx)
              ELSE "MissingDeSerializationParas"

(***************************************************************************)
(* Serialization and the transaction id.                                   *)
(***************************************************************************)

\* TransactionEssence.Serialize: under validation the payload kind, the
\* essence's syntactic rules and the uniqueness of the written inputs; no
\* array bounds and no output address uniqueness are checked.
\* (mutant) the inputs' uniqueness is judged on their transaction ids.
SerializeEssenceUniqueByTxId(e, v) ==
    CASE v /\ e.payload # NoElem /\ e.payload.type # "Indexation" ->
            Failed("InvalidBytes")
      [] v /\ EssenceSyntacticErr(e) # "none" -> Failed(EssenceSyntacticErr(e))
      [] v /\ ~IsInjective([i \in DOMAIN e.inputs |-> e.inputs[i].id]) ->
            Failed("DuplicateElement")
      [] OTHER -> Result(EncodeEssence(e), 0)

SerializeEssence(e, v) ==
    CASE v /\ e.payload # NoElem /\ e.payload.type # "Indexation" ->
            Failed("InvalidBytes")
      [] v /\ EssenceSyntacticErr(e) # "none" -> Failed(EssenceSyntacticErr(e))
      [] v /\ ~IsInjective(e.inputs) -> Failed("DuplicateElement")
      [] OTHER -> Result(EncodeEssence(e), 0)

\* TransactionEssence.SigningMessage: the hash of the essence serialized
\* with validation.  Lexical ordering changes nothing here: neither the
\* inputs nor the outputs array asks for it.
SigningMessage(e) ==
    LET r == SerializeEssence(e, TRUE)
    IN  IF r.err # "none" THEN r ELSE Result(Hash(r.val), 0)

\* (mutant) min one below the input count.
UnlockRulesForOffByOne(rules, e) ==
    [rules EXCEPT !.min = Len(e.inputs) - 1, !.max = Len(e.inputs)]

\* The unlock array rules copied and bound to the input count.
UnlockRulesFor(rules, e) ==
    [rules EXCEPT !.min = Len(e.inputs), !.max = Len(e.inputs)]

\* Transaction.Serialize.
SerializeTx(tx, v, params) ==
    LET rules == UnlockRulesFor(TxUnlockBlockArrayRules, tx.essence)
        ess   == SerializeEssence(tx.essence, v)
        bytes == <<Fixed("u32", PayloadTransaction)>> \o ess.val
                     \o EncodeSlice("unlock", tx.unlocks)
    IN  CASE ess.err # "none" -> ess
          [] v /\ (Len(tx.unlocks) < rules.min \/ Len(tx.unlocks) > rules.max) ->
                Failed("ArrayBoundViolation")
          [] v /\ TxDeSeriValidation(bytes, tx, params) # "none" ->
                Failed(TxDeSeriValidation(bytes, tx, params))
          [] OTHER -> Result(bytes, 0)

\* (mutant) an id over the essence alone.
IDOfEssence(tx) == Hash(SerializeEssence(tx.essence, FALSE).val)

\* Transaction.ID: the hash of the encoding without validation.
ID(tx) == Hash(SerializeTx(tx, FALSE, FALSE).val)

(***************************************************************************)
(* Transaction.Deserialize, step by step.                                  *)
(***************************************************************************)

\* TransactionEssenceSelector.
TransactionEssenceSelector(ty) ==
    IF ty = TransactionEssenceNormal THEN "none" ELSE "UnknownTransactionEssenceType"

\* CheckTypePrefix, then ReadObject with the essence selector.
ReadTxEssence(b, v) ==
    CASE ~(IsField(b, 1, "u32") /\ b[1].num = PayloadTransaction) ->
            Failed("BadTypeTag")
      [] ~IsField(b, 2, "u8") -> Failed("ShortBuffer")
      [] TransactionEssenceSelector(b[2].num) # "none" ->
            Failed(TransactionEssenceSelector(b[2].num))
      [] OTHER -> DeserializeEssence(b, 2, v)

\* Transaction.Deserialize as one caller runs it, all steps in a row.
DecodeTx(b, v, ps) ==
    LET e   == ReadTxEssence(b, v)
        u   == ReadSlice(b, e.pos, "unlock", UnlockBlockTypes,
                         UnlockRulesFor(TxUnlockBlockArrayRules, e.val), v)
        tx  == [essence |-> e.val, unlocks |-> u.val]
        err == IF v THEN TxDeSeriValidation(SubSeq(b, 1, u.pos - 1), tx, ps)
                    ELSE "none"
    IN  CASE e.err # "none" -> e
          [] u.err # "none" -> u
          [] err # "none" -> Failed(err)
          [] OTHER -> Result(tx, u.pos)

(***************************************************************************)
(* The JSON mirror.  A JSON document has the shape of jsonTransaction:     *)
(* the type fields and the essence and unlock blocks as nested objects.    *)
(***************************************************************************)

\* TransactionEssence.MarshalJSON: the type and the elements as they are.
EssenceMarshalJSON(e) ==
    [type |-> TransactionEssenceNormal, inputs |-> e.inputs,
     outputs |-> e.outputs, payload |-> e.payload]

\* Transaction.MarshalJSON.
MarshalJSON(tx) ==
    [type |-> PayloadTransaction, essence |-> EssenceMarshalJSON(tx.essence),
     unlockBlocks |-> tx.unlocks]

\* jsonTransactionEssenceSelector.
JSONTransactionEssenceSelector(ty) ==
    IF ty = TransactionEssenceNormal THEN "none" ELSE "UnknownTransactionEssenceType"

\* jsonTransactionEssence.ToSerializable: the elements are taken as they
\* are; only the payload kind is checked.
EssenceToSerializable(doc) ==
    IF doc.payload # NoElem /\ doc.payload.type # "Indexation"
    THEN Failed("InvalidJSON")
    ELSE Result([inputs |-> doc.inputs, outputs |-> doc.outputs,
                 payload |-> doc.payload], 0)

\* jsonTransaction.ToSerializable: the essence through its selector, then
\* the unlock blocks.  No array bound, uniqueness or syntactic check.
UnmarshalJSON(doc) ==
    LET e == EssenceToSerializable(doc.essence)
    IN  CASE JSONTransactionEssenceSelector(doc.essence.type) # "none" ->
                Failed(JSONTransactionEssenceSelector(doc.essence.type))
          [] e.err # "none" -> e
          [] OTHER -> Result([essence |-> e.val, unlocks |-> doc.unlockBlocks], 0)

-----------------------------------------------------------------------------
(***************************************************************************)
(* Callers.  rules is the memory holding array rules: the package-level   *)
(* txUnlockBlockArrayRules under "global" and each caller's local copy    *)
(* under its own name; rulesRef[w] is where unlockBlockArrayRulesCopy of  *)
(* caller w lives.                                                         *)
(***************************************************************************)
VARIABLES
    pc,         \* per caller: where its Deserialize call is
    wire,       \* the bytes a caller is decoding
    mode,       \* whether it decodes with DeSeriModePerformValidation
    params,     \* whether it passed DeSerializationParameters
    dec,        \* the decoder's progress: error, essence, unlock blocks, offset, tx id
    rules,      \* array-rules memory
    rulesRef,   \* the storage of each caller's unlockBlockArrayRulesCopy
    pool,       \* bytes callers serialized with validation
    jsonTxs     \* transactions callers decoded from JSON

vars == <<pc, wire, mode, params, dec, rules, rulesRef, pool, jsonTxs>>

Slots == {"global"} \cup Workers

NoDecode == [err |-> "none", essence |-> [inputs |-> <<>>, outputs |-> <<>>,
             payload |-> NoElem], unlocks |-> <<>>, pos |-> 0, txId |-> Hash(<<>>)]

Init ==
    /\ pc = [w \in Workers |-> "idle"]
    /\ wire = [w \in Workers |-> <<>>]
    /\ mode = [w \in Workers |-> TRUE]
    /\ params = [w \in Workers |-> TRUE]
    /\ dec = [w \in Workers |-> NoDecode]
    /\ rules = [s \in Slots |-> TxUnlockBlockArrayRules]
    /\ rulesRef = [w \in Workers |-> w]
    /\ pool = {}
    /\ jsonTxs = {}

Transition(w, from, to) ==
    /\ pc[w] = from
    /\ pc' = [pc EXCEPT ![w] = to]

\* A decoding step that failed ends the call with its error.
Fail(w, r) ==
    /\ pc' = [pc EXCEPT ![w] = "done"]
    /\ dec' = [dec EXCEPT ![w].err = r.err]

\* (mutant) the copy aliases the package-level rules.
DeserializeCallSharedRules(w, b, v, ps) ==
    /\ Transition(w, "idle", "essence")
    /\ wire' = [wire EXCEPT ![w] = b]
    /\ mode' = [mode EXCEPT ![w] = v]
    /\ params' = [params EXCEPT ![w] = ps]
    /\ rulesRef' = [rulesRef EXCEPT ![w] = "global"]
    /\ UNCHANGED <<rules, dec, pool, jsonTxs>>

\* Transaction.Deserialize is called: unlockBlockArrayRulesCopy is a copy of
\* the package-level rules (transaction.go:101).
DeserializeCall(w, b, v, ps) ==
    /\ Transition(w, "idle", "essence")
    /\ wire' = [wire EXCEPT ![w] = b]
    /\ mode' = [mode EXCEPT ![w] = v]
    /\ params' = [params EXCEPT ![w] = ps]
    /\ rules' = [rules EXCEPT ![w] = rules["global"]]
    /\ rulesRef' = [rulesRef EXCEPT ![w] = w]
    /\ UNCHANGED <<dec, pool, jsonTxs>>

\* CheckTypePrefix and ReadObject of the essence (103-108).
ReadEssence(w) ==
    LET r == ReadTxEssence(wire[w], mode[w])
    IN  /\ pc[w] = "essence"
        /\ IF r.err # "none"
              THEN Fail(w, r)
              ELSE /\ pc' = [pc EXCEPT ![w] = "rules"]
                   /\ dec' = [dec EXCEPT ![w].essence = r.val, ![w].pos = r.pos]
        /\ UNCHANGED <<wire, mode, params, rules, rulesRef, pool, jsonTxs>>

\* Do: the copy's min and max become the input count (109-113).
BindUnlockRules(w) ==
    /\ Transition(w, "rules", "unlocks")
    /\ rules' = [rules EXCEPT ![rulesRef[w]] =
                    UnlockRulesFor(@, dec[w].essence)]
    /\ UNCHANGED <<wire, mode, params, dec, rulesRef, pool, jsonTxs>>

\* ReadSliceOfObjects of the unlock blocks under the copy (114-116).
ReadUnlockBlocks(w) ==
    LET r == ReadSlice(wire[w], dec[w].pos, "unlock", UnlockBlockTypes,
                       rules[rulesRef[w]], mode[w])
    IN  /\ pc[w] = "unlocks"
        /\ IF r.err # "none"
              THEN Fail(w, r)
              ELSE /\ pc' = [pc EXCEPT ![w] = "validate"]
                   /\ dec' = [dec EXCEPT ![w].unlocks = r.val, ![w].pos = r.pos]
        /\ UNCHANGED <<wire, mode, params, rules, rulesRef, pool, jsonTxs>>

\* (mutant) the validation runs as if parameters had been passed.
ValidateTxIgnoringParams(w) ==
    LET read == SubSeq(wire[w], 1, dec[w].pos - 1)
        tx   == [essence |-> dec[w].essence, unlocks |-> dec[w].unlocks]
        err  == IF mode[w] THEN TxDeSeriValidation(read, tx, TRUE) ELSE "none"
    IN  /\ Transition(w, "validate", "done")
        /\ dec' = [dec EXCEPT ![w].err = err, ![w].txId = Hash(read)]
        /\ UNCHANGED <<wire, mode, params, rules, rulesRef, pool, jsonTxs>>

\* WithValidation(txDeSeriValidation) over the bytes read (117, 175-206);
\* the transaction id is derived from those bytes (191).
ValidateTx(w) ==
    LET read == SubSeq(wire[w], 1, dec[w].pos - 1)
        tx   == [essence |-> dec[w].essence, unlocks |-> dec[w].unlocks]
        err  == IF mode[w] THEN TxDeSeriValidation(read, tx, params[w]) ELSE "none"
    IN  /\ Transition(w, "validate", "done")
        /\ dec' = [dec EXCEPT ![w].err = err, ![w].txId = Hash(read)]
        /\ UNCHANGED <<wire, mode, params, rules, rulesRef, pool, jsonTxs>>

\* Transaction.Serialize with validation, as a caller does before handing
\* the bytes on; they enter the pool when it succeeds.
Serialize(w, tx) ==
    LET r == SerializeTx(tx, TRUE, TRUE)
    IN  /\ pc[w] = "idle"
        /\ r.err = "none"
        /\ pool' = pool \cup {r.val}
        /\ UNCHANGED <<pc, wire, mode, params, dec, rules, rulesRef, jsonTxs>>

\* MarshalJSON followed by UnmarshalJSON of the document.
JSONRoundTrip(w, tx) ==
    LET r == UnmarshalJSON(MarshalJSON(tx))
    IN  /\ pc[w] = "idle"
        /\ r.err = "none"
        /\ jsonTxs' = jsonTxs \cup {r.val}
        /\ UNCHANGED <<pc, wire, mode, params, dec, rules, rulesRef, pool>>

Next ==
    \E w \in Workers :
        \/ pc[w] = "idle" /\ \E b \in Wires \cup pool, v \in Modes, ps \in Params :
                                DeserializeCall(w, b, v, ps)
        \/ ReadEssence(w)
        \/ BindUnlockRules(w)
        \/ ReadUnlockBlocks(w)
        \/ ValidateTx(w)
        \/ \E tx \in Txs : Serialize(w, tx)
        \/ \E tx \in Txs : JSONRoundTrip(w, tx)

Spec == Init /\ [][Next]_vars

-----------------------------------------------------------------------------
(***************************************************************************)
(* Properties.                                                             *)
(***************************************************************************)
Errors ==
    {"none", "ShortBuffer", "ArrayBoundViolation", "UnsupportedObjectType",
     "DuplicateElement", "UnsupportedPayloadType", "BadTypeTag",
     "OutputAddrNotUnique", "UnknownTransactionEssenceType",
     "MissingDeSerializationParas", "InvalidUnlockBlocks", "MaxInputsExceeded",
     "MaxOutputsExceeded", "MinInputsNotReached", "MinOutputsNotReached",
     "InputUTXORefsNotUnique", "InputUTXOIndexOutOfBounds", "DepositAmountZero",
     "OutputDepositsMoreThanTotalSupply", "OutputsSumExceedsTotalSupply",
     "OutputRequiresSenderFeatureBlock"}

TypeOK ==
    /\ pc \in [Workers -> {"idle", "essence", "rules", "unlocks", "validate", "done"}]
    /\ mode \in [Workers -> BOOLEAN]
    /\ params \in [Workers -> BOOLEAN]
    /\ rules \in [Slots -> [min: Nat, max: Nat, mode: {"none", "noDuplicates"}]]
    /\ rulesRef \in [Workers -> Slots]
    /\ \A w \in Workers : dec[w].err \in Errors /\ dec[w].pos \in Nat

\* Caller w finished Deserialize with validation and without error.
Accepted(w) == pc[w] = "done" /\ mode[w] /\ dec[w].err = "none"

DecodedTx(w) == [essence |-> dec[w].essence, unlocks |-> dec[w].unlocks]

\* A transaction decoded with validation has exactly one unlock block per
\* input, whatever other callers decode at the same time: the unlock array
\* bounds of transaction.go:109-116 are bound on a per-call copy of the
\* package-level txUnlockBlockArrayRules, never on the shared rules.
DecodedUnlocksMatchInputs ==
    \A w \in Workers :
        Accepted(w) =>
            Len(dec[w].unlocks) = Len(dec[w].essence.inputs)

\* Reference definition of a syntactically valid transaction (spec.md
\* sections 3 and 4.6), written independently of the decoder.
WellFormedTx(tx) ==
    LET e     == tx.essence
        ub    == tx.unlocks
        utxos == {<<e.inputs[i].id, e.inputs[i].num>> : i \in DOMAIN e.inputs}
    IN  /\ Len(e.inputs) \in 1..MaxInputsCount
        /\ Len(e.outputs) \in 1..MaxOutputsCount
        /\ Len(ub) = Len(e.inputs)
        /\ \A i \in DOMAIN e.inputs :
              e.inputs[i].type = "UTXO" /\ e.inputs[i].num < MaxOutputsCount
        /\ Cardinality(utxos) = Len(e.inputs)
        /\ \A k \in DOMAIN e.outputs :
              /\ e.outputs[k].type \in EssenceOutputTypes
              /\ e.outputs[k].num \in 1..TotalSupply
              /\ ~e.outputs[k].flag
        /\ MapThenSumSet(LAMBDA k : e.outputs[k].num, DOMAIN e.outputs) <= TotalSupply
        /\ e.payload = NoElem \/ e.payload.type = "Indexation"
        /\ \A i \in DOMAIN ub :
              \/ ub[i].type = "Signature"
                 /\ \A j \in DOMAIN ub : j # i /\ ub[j].type = "Signature"
                                            => ub[j].id # ub[i].id
              \/ ub[i].type = "Reference"
                 /\ ub[i].num + 1 \in 1..(i - 1)
                 /\ ub[ub[i].num + 1].type = "Signature"

\* Every transaction Transaction.Deserialize accepts with validation is
\* syntactically valid: the checks spread over the essence decoder, the
\* array rules and txDeSeriValidation together enforce spec.md 4.6.
DecodedWellFormed ==
    \A w \in Workers : Accepted(w) => WellFormedTx(DecodedTx(w))

\* The transaction id the decode-time validation derives from the bytes it
\* read (transaction.go:191, which alias and NFT ids are computed from) is
\* the id Transaction.ID computes for the decoded object (91-98, used by
\* OutputsSet and by semantic validation): decoding and re-encoding give
\* back the bytes read (spec.md 4.1).
TxIdAgreement ==
    \A w \in Workers : Accepted(w) => dec[w].txId = ID(DecodedTx(w))

(***************************************************************************)
(* Refinement: the step-wise, concurrent Deserialize implements the atomic *)
(* one of AtomicDeserialize.  A call is busy from DeserializeCall until it *)
(* ends; what it returns is the decoder's progress record read as a       *)
(* result.                                                                 *)
(***************************************************************************)
Returned(w) ==
    IF dec[w].err = "none" THEN Result(DecodedTx(w), dec[w].pos)
                           ELSE Failed(dec[w].err)

Atomic == INSTANCE AtomicDeserialize WITH
    Callers     <- Workers,
    Given       <- Wires,
    Publishable <- {SerializeTx(tx, TRUE, TRUE).val :
                      tx \in {t \in Txs : SerializeTx(t, TRUE, TRUE).err = "none"}},
    Decode      <- DecodeTx,
    status      <- [w \in Workers |-> CASE pc[w] = "idle" -> "idle"
                                        [] pc[w] = "done" -> "done"
                                        [] OTHER -> "busy"],
    arg         <- [w \in Workers |-> IF pc[w] = "idle" THEN <<>>
                                       ELSE <<wire[w], mode[w], params[w]>>],
    outcome     <- [w \in Workers |-> IF pc[w] = "done" THEN Returned(w) ELSE <<>>],
    published   <- pool

\* Each Deserialize call, its steps interleaved with other callers' and
\* with callers serializing, returns exactly what one uninterrupted decode
\* of its own arguments returns (DecodeTx): the per-call copy of the unlock
\* block rules (transaction.go:101-114), the caller's parameters (117) and
\* the bytes-read transaction id (191) carry no state between calls.
DeserializeIsAtomic == Atomic!SafetySpec


\* Every transaction Deserialize accepts with validation has a signing
\* message: TransactionEssence.Serialize with validation (transaction_
\* essence.go:187-229) accepts every essence the validating decoder does,
\* so NewSemValiContextWorkingSet (transaction.go:268-271) cannot fail on
\* a transaction taken off the wire, and its signatures can be verified.
DecodedHasSigningMessage ==
    \A w \in Workers : Accepted(w) => SigningMessage(dec[w].essence).err = "none"

\* Bytes that Transaction.Serialize produced with validation decode with
\* validation (spec.md 4.1: decode(encode(x)) = x in the validating mode).
ValidatedEncodingDecodes ==
    \A b \in pool : DecodeTx(b, TRUE, TRUE).err = "none"

\* A transaction decoded from JSON is the one the binary decoder with
\* validation produces from its encoding (spec.md section 6).
JSONAgreesWithBinary ==
    \A t \in jsonTxs :
        LET d == DecodeTx(SerializeTx(t, FALSE, FALSE).val, TRUE, TRUE)
        IN  d.err = "none" /\ d.val = t

=============================================================================
