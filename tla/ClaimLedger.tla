------------------------------ MODULE ClaimLedger ------------------------------
(***************************************************************************)
(* What the claim store promises its readers, with no matching rule, trust *)
(* or turn in sight: a claim stops being current only when a replacement   *)
(* for it is on record or when it is dismissed, what is no longer current  *)
(* never comes back, and nothing on record is rewritten.                   *)
(***************************************************************************)

VARIABLES
    known,  \* every claim ever asserted
    live,   \* those that are current
    links   \* <<old, new>>: new is on record as a replacement of old

vars == <<known, live, links>>

Init == known = {} /\ live = {} /\ links = {}

\* Claims are asserted, replacements are recorded, replaced claims retire.
Settle ==
    /\ known \subseteq known'
    /\ links \subseteq links' /\ links' \subseteq known' \X known'
    /\ live' \subseteq live \cup (known' \ known)
    /\ \A c \in live \ live' : \E n \in known' : <<c, n>> \in links'

Dismiss(c) ==
    /\ live' = live \ {c}
    /\ UNCHANGED <<known, links>>

Next == Settle \/ \E c \in known : Dismiss(c)

Spec == Init /\ [][Next]_vars
=============================================================================
