------------------------- MODULE AtomicDeserialize -------------------------
(***************************************************************************)
(* What Transaction.Deserialize promises its callers (spec.md sections 4.1 *)
(* and 5): a call is a pure function of its arguments.  Each caller passes *)
(* bytes, a mode and parameters, and eventually gets back                  *)
(* Decode(bytes, mode, params), whatever other callers decode meanwhile.   *)
(* Bytes are either given from the start or published later by a caller   *)
(* that serialized them.                                                   *)
(***************************************************************************)
CONSTANTS
    Callers,            \* independent workers
    Given,              \* bytes available from the start
    Publishable,        \* bytes a caller may produce and hand on
    Modes, Params,      \* the arguments a call may pass
    Decode(_, _, _)     \* the result of one call: bytes, mode, params

VARIABLES
    status,     \* per caller: "idle", "busy" (called) or "done" (returned)
    arg,        \* the arguments of a caller's call
    outcome,    \* what the call returned
    published   \* bytes callers have produced so far

vars == <<status, arg, outcome, published>>

Init ==
    /\ status = [c \in Callers |-> "idle"]
    /\ arg = [c \in Callers |-> <<>>]
    /\ outcome = [c \in Callers |-> <<>>]
    /\ published = {}

\* A caller calls Deserialize on bytes it can see.
Call(c, b, v, ps) ==
    /\ status[c] = "idle"
    /\ b \in Given \cup published
    /\ status' = [status EXCEPT ![c] = "busy"]
    /\ arg' = [arg EXCEPT ![c] = <<b, v, ps>>]
    /\ UNCHANGED <<outcome, published>>

\* The call returns the decoder's result for exactly its arguments.
Return(c) ==
    /\ status[c] = "busy"
    /\ status' = [status EXCEPT ![c] = "done"]
    /\ outcome' = [outcome EXCEPT ![c] = Decode(arg[c][1], arg[c][2], arg[c][3])]
    /\ UNCHANGED <<arg, published>>

\* A caller hands on bytes it produced.
Publish(b) ==
    /\ b \in Publishable
    /\ published' = published \cup {b}
    /\ UNCHANGED <<status, arg, outcome>>

Next ==
    \/ \E c \in Callers, b \in Given \cup published, v \in Modes, ps \in Params :
           Call(c, b, v, ps)
    \/ \E c \in Callers : Return(c)
    \/ \E b \in Publishable : Publish(b)

SafetySpec == Init /\ [][Next]_vars

=============================================================================
