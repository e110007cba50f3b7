-------------------------------- MODULE Reads --------------------------------
(***************************************************************************)
(* What memory_trace, explain_claim and memory_contradictions read back    *)
(* from the claim store of Supersession: the head of a slot, its lineage   *)
(* and the current values that compete with it (conflicts.py, chains.py,   *)
(* claims.py).                                                             *)
(***************************************************************************)
EXTENDS Supersession

\* The reports have a comparison form of their own: it minds the punctuation at
\* the end of a value, which the form of Pass 1 drops.
CONSTANT Plain   \* Plain[v]: v in lower case, its spaces collapsed
ASSUME ReadsAssumption ==
    /\ Plain \in [Vals -> Vals]
    /\ \A v, w \in Vals : Plain[v] = Plain[w] => Norm[v] = Norm[w]

\* _norm_value
ReadsAlike(c, d) == Plain[c.val] = Plain[d.val]

Trust(c) == TrustOf(c.turn.src)

Earliest(S) == CHOOSE c \in S : \A d \in S : c.ts <= d.ts

\* max by (trust, created_ts)
MostTrusted(S) ==
    CHOOSE c \in S : \A d \in S :
        Trust(d) < Trust(c) \/ (Trust(d) = Trust(c) /\ d.ts <= c.ts)

\* _live_slot_rows: the session only selects the namespace, that of its most
\* trusted claim in the slot; a session without one falls back to all of them
LiveSlotRows(subj, pred, sess) ==
    LET rows == {c \in live : c.subj = subj /\ c.pred = pred}
        mine == {c \in rows : c.turn.sess = sess}
    IN IF mine = {} THEN rows
       ELSE {c \in rows : c.turn.ns = MostTrusted(mine).turn.ns}

\* Mutant: the latest copy stands for the value.
LatestCopy(rows) ==
    LET best == MostTrusted(rows)
        copies == {c \in rows : c.turn.ns = best.turn.ns /\ ReadsAlike(c, best)}
    IN CHOOSE c \in copies : \A d \in copies : d.ts <= c.ts

\* trusted_slot_head: the earliest copy of the most trusted, then newest value
SlotHead(rows) ==
    LET best == MostTrusted(rows)
    IN Earliest({c \in rows : c.turn.ns = best.turn.ns /\ ReadsAlike(c, best)})

\* Mutant: an edge is looked for in one direction.
ContradictedBy(c, d) ==
    \E e \in edges : e.type = "contradicts" /\ e.old = c /\ e.new = d

Contradicted(c, d) ==
    \E e \in edges : e.type = "contradicts" /\ {e.old, e.new} = {c, d}

\* slot_conflicts, values instead of rows.  Subjects that name the same decision
\* in other words are left out.
SlotConflicts(c) ==
    IF c \notin live \/ c.subj = NoSubject THEN {}
    ELSE {Plain[d.val] : d \in {x \in live :
              /\ SameSlot(c, x) /\ ~ReadsAlike(c, x)
              /\ c.pred \in SingleValued \/ Contradicted(c, x)}}

\* memory_contradictions
Contradictions ==
    {e \in edges : e.type = "contradicts" /\ {e.old, e.new} \subseteq live}

EdgesTo(c) == {e \in edges : e.new = c}

\* The newest edge into a claim.  Of those Pass 1 wrote for one replacement, which
\* share a stamp here, the last is the one from the oldest copy.
NewestEdgeTo(c) ==
    CHOOSE e \in EdgesTo(c) : \A f \in EdgesTo(c) :
        f.ts < e.ts \/ (f.ts = e.ts /\ e.old.ts <= f.old.ts)

\* get_supersession_chain, as the edges it walks; build_chain adds c itself
Chain(c) ==
    LET walk[n \in Nat] ==
          IF n = 0 THEN {}
          ELSE LET prev == walk[n - 1]
                   from == {c} \cup {e.old : e \in prev}
               IN prev \cup {NewestEdgeTo(x) : x \in {y \in from : EdgesTo(y) # {}}}
    IN walk[Cardinality(claims)]

-----------------------------------------------------------------------------
\* Tracing a single-valued slot in which nothing was refused or dismissed, from a
\* head that speaks of the present, shows its whole past: a superseded claim is
\* on the head's lineage, or was replaced together with a copy that is.  Stated
\* where no restatement differs from the head in closing punctuation: Pass 1 takes
\* such a one for a copy, trusted_slot_head does not and may start from it, though
\* "the original assertion", which it says it returns, carries the lineage.
LineageComplete ==
    \A subj \in Subjects, pred \in SingleValued, sess \in Sessions :
        LET rows == LiveSlotRows(subj, pred, sess)
            head == SlotHead(rows)
            chain == Chain(head)
        IN /\ rows # {} /\ superseded # {} /\ head.val \notin Historical /\ Uncontested(SlotOf(head))
           /\ \A c \in rows : SameValue(head, c) => ReadsAlike(head, c)
           => \A d \in superseded : SameSlot(head, d) =>
                 \E e \in chain :
                     e.old = d \/ (SameValue(e.old, d) /\ Successor(d) = e.new)

\* Where a refused override left two current values, tracing either claim shows
\* the other's value, so none is served as undisputed.
ConflictsAgree ==
    \A e \in Contradictions :
        SameSlot(e.old, e.new) =>
            /\ Plain[e.new.val] \in SlotConflicts(e.old)
            /\ Plain[e.old.val] \in SlotConflicts(e.new)
=============================================================================
