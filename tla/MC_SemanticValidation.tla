----------------------- MODULE MC_SemanticValidation -----------------------
(* Model-checking instances of SemanticValidation: the outputs the InputSet *)
(* and the essence are drawn from, per question asked.                      *)
EXTENDS SemanticValidation

CONSTANTS r1, r2, r3, x1, n1, t1, f1

MCUTXORefs == <<r1, r2>>

MCAliasIdFromOutputID(r) == x1

MCFoundryIdOf(t) == f1

\* Unlock blocks that can succeed for direct owners: a signature by an
\* address of the model, or a ReferenceUnlockBlock.
MCPipelineUnlockBlocks(n) ==
    [type: {"Signature"}, sig: EdAddrs] \cup [type: {"Reference"}, ref: 1..n]

\* Feature blocks with both milestone-index and unix-time conditions.
FBTime(s, em, eu, tm, tu, dr) ==
    [sender |-> s, expMs |-> em, expUnix |-> eu,
     timelockMs |-> tm, timelockUnix |-> tu, dustReturn |-> dr]

FB(s, em, tm, dr) == FBTime(s, em, None, tm, None, dr)

NoFB == FB(None, None, None, None)

Simple(a, d) ==
    [type |-> "Simple", address |-> a, fb |-> NoFB, deposit |-> d,
     tokens |-> EmptyMap]

Extended(a, fb, d, tk) ==
    [type |-> "Extended", address |-> a, fb |-> fb, deposit |-> d, tokens |-> tk]

NFT(id, a, d) ==
    [type |-> "NFT", nftId |-> id, address |-> a, fb |-> NoFB, deposit |-> d,
     tokens |-> EmptyMap]

Foundry(d, tk) ==
    [type |-> "Foundry", address |-> x1, foundryId |-> f1, fb |-> NoFB,
     deposit |-> d, tokens |-> tk]

(* Time conditions, dust deposit returns and senders: Simple inputs,       *)
(* Extended inputs with an expiring Sender (reached at milestone 1 or not  *)
(* before 2) with or without a return amount, timelocked inputs (1: just   *)
(* reached, 2: not yet), an NFT input.  Unix kinds: an expiration by unix *)
(* time alone, one whose milestone index is reached but unix time not    *)
(* (both kinds must be reached), and a unix timelock.                     *)
TimeInputs ==
    {Simple(a, 2) : a \in EdAddrs}
    \cup UNION {{Extended(a, FB(s, em, None, dr), 2, EmptyMap) :
                    s \in EdAddrs \ {a}, em \in {1, 2}, dr \in {None, 1}} :
                 a \in EdAddrs}
    \cup {Extended(a, FB(None, None, tm, None), 2, EmptyMap) :
            a \in EdAddrs, tm \in {1, 2}}
    \cup {NFT(n1, a, 2) : a \in EdAddrs}
    \cup UNION {{Extended(a, FBTime(s, ex[1], ex[2], None, None, None), 2, EmptyMap) :
                    s \in EdAddrs \ {a}, ex \in {<<None, 1>>, <<1, 2>>}} :
                 a \in EdAddrs}
    \cup {Extended(a, FBTime(None, None, None, None, tu, None), 2, EmptyMap) :
            a \in EdAddrs, tu \in {1, 2}}

TimeOutputs ==
    {Simple(a, d) : a \in EdAddrs, d \in {1, 2}}
    \cup {Extended(a, FB(s, None, None, None), 1, EmptyMap) : a \in EdAddrs, s \in EdAddrs}
    \cup {Extended(a, FB(None, None, 2, None), 1, EmptyMap) : a \in EdAddrs}
    \cup {NFT(id, a, 2) : id \in {n1, ZeroId}, a \in EdAddrs}

(* Native tokens: outputs with or without one unit of token t1, with and   *)
(* without its foundry.                                                     *)
TokenInputs ==
    {Extended(a, NoFB, 1, tk) : a \in EdAddrs, tk \in {EmptyMap, t1 :> 1}}

TokenOutputs == TokenInputs \cup {Foundry(1, EmptyMap)}

(* Chains: an NFT input of deposit 2 and outputs that continue it, each of *)
(* deposit 1, so one input can fund two outputs with the same NFT id.      *)
ChainInputs == {NFT(n1, a, 2) : a \in EdAddrs} \cup {Simple(a, 2) : a \in EdAddrs}

ChainOutputs ==
    {NFT(id, a, 1) : id \in {n1, ZeroId}, a \in EdAddrs} \cup {Simple(a, 1) : a \in EdAddrs}

(* Deposits only, with an InputSet that may hold an output no input names. *)
DepositInputs == {Simple(a, d) : a \in EdAddrs, d \in {1, 2}}

MCSymmetry == Permutations(EdAddrs)
=============================================================================
