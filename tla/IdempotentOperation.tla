------------------------- MODULE IdempotentOperation -------------------------
(***************************************************************************)
(* What the operation pipeline promises its callers, without transactions, *)
(* ledgers, snapshots or locks: an operation named by an identity happens  *)
(* at most once, and a call is answered with the result of the one call    *)
(* that performed it, provided it asked for the same thing.                *)
(***************************************************************************)
CONSTANTS Calls, Ids, Bodies

VARIABLES
    id, body,     \* the identity and the request body of each call
    performed,    \* the calls that performed their operation
    outcome,      \* "pending", "answered" or "refused"
    from          \* whose result an answered call was given

vars == <<id, body, performed, outcome, from>>

Init ==
    /\ id \in [Calls -> Ids]
    /\ body \in [Calls -> Bodies]
    /\ performed = {}
    /\ outcome = [c \in Calls |-> "pending"]
    /\ from = [c \in Calls |-> c]

Answer(c, d) ==
    /\ outcome[c] = "pending"
    /\ outcome' = [outcome EXCEPT ![c] = "answered"]
    /\ from' = [from EXCEPT ![c] = d]
    /\ UNCHANGED <<id, body>>

\* The operation happens, because no call with this identity performed it yet.
Perform(c) ==
    /\ \A d \in performed : id[d] # id[c]
    /\ performed' = performed \cup {c}
    /\ Answer(c, c)

\* The call is given the result of the call that performed its operation.
Replay(c, d) ==
    /\ d \in performed
    /\ id[d] = id[c]
    /\ body[d] = body[c]
    /\ Answer(c, d)
    /\ UNCHANGED performed

\* The call is refused.  An answer that was not delivered yet can still be lost,
\* what the call performed cannot.
Refuse(c) ==
    /\ outcome[c] # "refused"
    /\ outcome' = [outcome EXCEPT ![c] = "refused"]
    /\ from' = [from EXCEPT ![c] = c]
    /\ UNCHANGED <<id, body, performed>>

Next ==
    \E c \in Calls :
        \/ Perform(c)
        \/ \E d \in Calls : Replay(c, d)
        \/ Refuse(c)

Spec == Init /\ [][Next]_vars
=============================================================================
