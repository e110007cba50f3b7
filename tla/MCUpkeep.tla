------------------------------- MODULE MCUpkeep -------------------------------
EXTENDS Upkeep, TLC

ProcSymmetry == Permutations(Procs)

AllKinds == {"tick", "consolidate", "reindex", "prune", "backfill"}

\* one fact in two sessions, and the strangers: a value contesting it and another
\* tenant's copy
InSession(n) == [ns |-> "home", session |-> n, value |-> "blue"]
Strangers == {[ns |-> "home", session |-> 1, value |-> "red"],
              [ns |-> "work", session |-> 2, value |-> "blue"]}
FewFacts == {InSession(1), InSession(2)} \cup Strangers

\* One stranger is enough, and which session states the fact first is all the same.
Telling ==
    /\ Cardinality({c \in Claims : fact[c] \in Strangers}) <= 1
    /\ \A c \in Claims : fact[c] = InSession(2) => \E d \in 1 .. c - 1 : fact[d] = InSession(1)
===============================================================================
