---------------------------- MODULE MCForgetting ----------------------------
(* Values for the constants of Forgetting: one turn tells of both subjects,  *)
(* and one subject is told of in two sessions.                               *)
EXTENDS Forgetting

Turn == [c1 |-> "t1", c2 |-> "t1", c3 |-> "t2"]
Subj == [c1 |-> "alice", c2 |-> "bob", c3 |-> "alice"]
Pred == [c1 |-> "likes", c2 |-> "likes", c3 |-> "city"]
Val == [c1 |-> "coffee", c2 |-> "tea", c3 |-> "berlin"]
Sess == [t1 |-> "s1", t2 |-> "s2"]
=============================================================================
