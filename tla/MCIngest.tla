------------------------------- MODULE MCIngest -------------------------------
(* Small instances of Ingest for TLC. *)
EXTENDS Ingest, TLC

CONSTANTS p1, p2, db, cache, pg, dyn
Writers == {p1, p2}
Slots == {db, cache}
Values == {pg, dyn}
AllAlike == Permutations(Writers) \cup Permutations(Slots) \cup Permutations(Values)

Assistant == [speaker |-> "assistant", type |-> "conversation"]

UserOnly == {UserSays}
UserAndAssistant == {UserSays, Assistant}

Identity == [v \in Vals |-> v]
NothingPast == {}
NoAttributes == [v \in Vals |-> NoAttr]
NoPairs == {}
NoOverlap == [p \in Vals \X Vals |-> 0]
=============================================================================
