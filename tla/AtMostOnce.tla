----------------------------- MODULE AtMostOnce -----------------------------
(***************************************************************************)
(* What ADR-012 promises the callers of a mutation: the first request that *)
(* succeeds under a key decides the answer of all of them.  A key is       *)
(* performed at most once, a repetition is answered with the response of   *)
(* that one execution, and a request whose payload differs never is.       *)
(***************************************************************************)
CONSTANTS
    Requests,   \* requests that reach the API
    Keys,       \* idempotency keys, each with the scope it is used in
    KeyOf,      \* the key of a request
    PrintOf,    \* the fingerprint of a request's payload
    NoRequest

VARIABLES
    performed,  \* per key, the request whose execution took effect, if any
    reply       \* per request, the execution its success reports, if any

Init ==
    /\ performed = [k \in Keys |-> NoRequest]
    /\ reply = [r \in Requests |-> NoRequest]

\* The operation takes effect and its own response is returned.
Perform(r) ==
    /\ performed[KeyOf[r]] = NoRequest
    /\ reply[r] = NoRequest
    /\ performed' = [performed EXCEPT ![KeyOf[r]] = r]
    /\ reply' = [reply EXCEPT ![r] = r]

\* The persisted response is returned; nothing is performed.
Replay(r) ==
    /\ performed[KeyOf[r]] # NoRequest
    /\ PrintOf[performed[KeyOf[r]]] = PrintOf[r]
    /\ reply[r] = NoRequest
    /\ reply' = [reply EXCEPT ![r] = performed[KeyOf[r]]]
    /\ UNCHANGED performed

Next == \E r \in Requests : Perform(r) \/ Replay(r)

Spec == Init /\ [][Next]_<<performed, reply>>
=============================================================================
