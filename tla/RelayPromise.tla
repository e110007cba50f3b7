---------------------------- MODULE RelayPromise ----------------------------
(* What `memcontext share` promises the web client that calls a brain        *)
(* through the relay: a call is refused at once, or it is taken and ends,    *)
(* with an answer or with an error; the answer a call gets is the one the    *)
(* brain computed for that call; the brain computes it at most once, whatever *)
(* happens to the connections in between.                                    *)

CONSTANT Requests

VARIABLES
    status,     \* what the client has seen of each call
    performed   \* the calls the brain's local server was asked to perform

vars == <<status, performed>>

Init ==
    /\ status = [r \in Requests |-> "idle"]
    /\ performed = {}

\* the brain is offline: 503, nothing was asked of it
Refuse(r) ==
    /\ status[r] = "idle"
    /\ status' = [status EXCEPT ![r] = "refused"]
    /\ UNCHANGED performed

Take(r) ==
    /\ status[r] = "idle"
    /\ status' = [status EXCEPT ![r] = "open"]
    /\ UNCHANGED performed

\* asked once; the client may have been told of a failure already, because a
\* time-out at the relay does not reach the brain
Perform(r) ==
    /\ status[r] \in {"open", "failed"}
    /\ r \notin performed
    /\ performed' = performed \cup {r}
    /\ UNCHANGED status

Answer(r) ==
    /\ status[r] = "open"
    /\ r \in performed
    /\ status' = [status EXCEPT ![r] = "answered"]
    /\ UNCHANGED performed

\* a relay that dies takes every call it holds with it
Fail(calls) ==
    /\ \A r \in calls : status[r] = "open"
    /\ status' = [r \in Requests |-> IF r \in calls THEN "failed" ELSE status[r]]
    /\ UNCHANGED performed

Next ==
    \/ \E r \in Requests : Refuse(r) \/ Take(r) \/ Perform(r) \/ Answer(r)
    \/ \E calls \in SUBSET Requests : Fail(calls)

Spec == Init /\ [][Next]_vars
=============================================================================
