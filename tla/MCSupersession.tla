---------------------------- MODULE MCSupersession ----------------------------
(* Small instances of Supersession for TLC. *)
EXTENDS Reads

User == UserSays
Assistant == [speaker |-> "assistant", type |-> "conversation"]

UserAndAssistant == {User, Assistant}

ThreeValues == {"pg", "dyn", "redis"}
TwoValues == {"pg", "dyn"}
\* Two flats that differ by a number, the town of one of them in fewer words, the
\* same with a full stop, another town, and a former home.
Phrases == {"flat_4_ny", "flat_5_ny", "ny", "ny.", "boston", "was_ny"}

Undotted == [v \in {"ny."} |-> "ny"]
NormOf == [v \in Vals |-> IF v \in DOMAIN Undotted THEN Undotted[v] ELSE v]
PlainOf == [v \in Vals |-> v]
Past == Vals \cap {"was_ny"}
AttrOf == [v \in Vals |-> IF v \in {"ny", "ny.", "boston", "was_ny"} THEN "residence" ELSE "none"]
Pairs(S) == {p \in (S \cap Vals) \X (S \cap Vals) : p[1] # p[2]}
QuantityOf == Pairs({"flat_4_ny", "flat_5_ny"})
OverlapOf == [p \in Vals \X Vals |-> IF p \in Pairs({"flat_4_ny", "ny"}) \cup Pairs({"flat_4_ny", "ny."}) THEN 1 ELSE 0]
NarrowerOf == (Vals \X Vals) \cap {<<"ny", "flat_4_ny">>}

\* Claims come and nobody corrects or dismisses one by hand.
StoresOnly == Store \/ FinishInline \/ FinishDeferred \/ ExtractNext
StoresOnlySpec == Init /\ [][StoresOnly]_vars

\* Constraint: every turn that is done with yielded a claim.  One that did not
\* leaves the store as it was.
Fruitful ==
    {c.turn.no : c \in claims}
        \cup {inline[i].no : i \in DOMAIN inline} \cup {queue[i].no : i \in DOMAIN queue} = 1 .. nTurns
=============================================================================
