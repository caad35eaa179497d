------------------------- MODULE MC_TransactionCodec -------------------------
(***************************************************************************)
(* Instances of TransactionCodec for TLC.  One UTXO transaction id, two   *)
(* addresses, two signature keys; MaxInputsCount = MaxOutputsCount = 2    *)
(* stand for 127 so that arrays one over the bound and UTXO index         *)
(* MaxOutputsCount (one past the last valid index) are reachable.         *)
(***************************************************************************)
EXTENDS TransactionCodec

CONSTANTS r1, a1, a2, k1, k2

\* Inputs: two valid UTXO refs, one index past the bound, one of an
\* unsupported input type.
In0   == UTXOInput(r1, 0)
In1   == UTXOInput(r1, 1)
InOOB == UTXOInput(r1, MaxOutputsCount)
InTr  == Elem("Treasury", r1, 0, FALSE)

\* Outputs: valid ones, one with zero deposit, one missing a required
\* Sender, one of an unsupported type, one sharing O1's address.
O1   == Output("Simple", a1, 1, FALSE)
O2   == Output("Extended", a2, 1, FALSE)
O0   == Output("Simple", a2, 0, FALSE)
ONoS == Output("Extended", a2, 1, TRUE)
OTr  == Output("Treasury", a2, 1, FALSE)
O1b  == Output("Extended", a1, 1, FALSE)

S1 == SignatureUB(k1)
S2 == SignatureUB(k2)
R0 == ReferenceUB(0)
R1 == ReferenceUB(1)

Payloads == {NoElem, Payload("Indexation"), Payload("Milestone")}

\* Sequences over S of length at most n.
SeqsUpTo(S, n) == UNION {[1..m -> S] : m \in 0..n}

Essence(ins, outs, pay) == [inputs |-> ins, outputs |-> outs, payload |-> pay]
Tx(ess, ubs) == [essence |-> ess, unlocks |-> ubs]

\* One signature then references to it, one block per input.
UnlocksFor(n) == [i \in 1..n |-> IF i = 1 THEN S1 ELSE R0]

BaseEssence == Essence(<<In0>>, <<O1>>, NoElem)

\* Every field varied on its own around a valid transaction.
VariedTxs ==
    {Tx(Essence(ins, <<O1>>, NoElem), UnlocksFor(Len(ins))) :
        ins \in SeqsUpTo({In0, In1, InOOB, InTr}, 3)}
    \cup {Tx(Essence(<<In0>>, outs, NoElem), <<S1>>) :
            outs \in SeqsUpTo({O1, O2, O0, ONoS, OTr, O1b}, 3)}
    \cup {Tx(Essence(<<In0>>, <<O1>>, p), <<S1>>) : p \in Payloads}
    \cup {Tx(Essence(<<In0, In1>>, <<O1>>, NoElem), ubs) :
            ubs \in SeqsUpTo({S1, S2, R0, R1}, 3)}

Encoding(tx) == SerializeTx(tx, FALSE, FALSE).val

\* The encodings, each also cut short by one field and with a foreign
\* payload tag.
WideWires ==
    UNION {{Encoding(tx), SubSeq(Encoding(tx), 1, Len(Encoding(tx)) - 1),
            [Encoding(tx) EXCEPT ![1] = Fixed("u32", 7)]} : tx \in VariedTxs}

\* Concurrent callers: one or two inputs, with a matching or a wrong
\* number of unlock blocks.
ConcTxs ==
    {Tx(BaseEssence, <<S1>>), Tx(BaseEssence, <<S1, R0>>),
     Tx(Essence(<<In0, In1>>, <<O1>>, NoElem), <<S1, R0>>),
     Tx(Essence(<<In0, In1>>, <<O1>>, NoElem), <<S1>>)}

ConcWires == {Encoding(tx) : tx \in ConcTxs}

\* Transactions callers serialize or exchange as JSON.
SerializedTxs ==
    {Tx(BaseEssence, <<S1>>), Tx(Essence(<<In0>>, <<O1, O1b>>, NoElem), <<S1>>)}

JSONTxs ==
    {Tx(BaseEssence, <<S1>>), Tx(Essence(<<In0, In0>>, <<O1>>, NoElem), <<S1>>)}

=============================================================================
