------------------------------ MODULE ClaimRules ------------------------------
(***************************************************************************)
(* The rules by which memcontext weighs a claim against older ones: source *)
(* trust, the deterministic Pass-1 matcher and the scope of the semantic   *)
(* Pass 2.  Everything here is a function of the claims' immutable fields; *)
(* the modules that move claims through their lifecycle build on it.       *)
(*                                                                         *)
(* A value is an abstract token.  What the code computes from its text is  *)
(* given by constants: its normal form, whether it is framed as history,   *)
(* the life attribute it names, and how its words relate to another's.     *)
(***************************************************************************)
EXTENDS Integers

CONSTANTS
    Namespaces,   \* tenants / projects
    Sessions,     \* caller-chosen session ids (they collide across tenants)
    Sources,      \* where a turn comes from: [speaker, type] records
    Subjects,     \* normalised subjects
    Preds,        \* predicates in the active pack's vocabulary
    SingleValued, \* the predicates the pack declares single_valued
    Vals,         \* claim values
    Norm,         \* Norm[v]: the comparison form of v
    Historical,   \* the values framed as a closed window or as the past
    Attr,         \* Attr[v]: the single-valued life attribute v names
    Quantity,     \* <<v, w>>: v and w differ only in a number or quantifier
    Overlap,      \* Overlap[v, w]: rank of their word overlap, 0 below the bar
    Narrower      \* <<v, w>>: the words of v are a strict subset of those of w

Speakers == {"user", "assistant", "system"}
SourceTypes == {"conversation", "tool_call", "browser"}
Attributes == {"residence", "employer"}
NoAttr == "none"

ASSUME RulesAssumption ==
    /\ Sources \subseteq [speaker : Speakers, type : SourceTypes]
    /\ SingleValued \subseteq Preds
    /\ Norm \in [Vals -> Vals]
    /\ Historical \subseteq Vals
    /\ Attr \in [Vals -> Attributes \cup {NoAttr}]
    /\ Quantity \subseteq Vals \X Vals
    /\ Overlap \in [Vals \X Vals -> Nat]
    /\ Narrower \subseteq Vals \X Vals

\* A fact whose triple is absent, or was dropped because its predicate is not in
\* the vocabulary, is kept as natural language only.
NL == "nl"
NoSubject == ""
ASSUME NLAssumption == NL \notin Preds /\ NoSubject \notin Subjects

UserSays == [speaker |-> "user", type |-> "conversation"]

Turn == [no : Nat, ns : Namespaces, sess : Sessions, src : Sources \cup {UserSays}]

Claim == [ts : Nat, turn : Turn, subj : Subjects \cup {NoSubject},
          pred : Preds \cup {NL}, val : Vals]

EdgeTypes == {"refines", "assistant_confirm", "user_correction", "contradicts",
              "semantic_replace"}

-----------------------------------------------------------------------------
(* Source trust, in hundredths. *)

TrustOf(src) ==
    CASE src.type = "browser"      -> 35
      [] src.type = "tool_call"    -> 70
      [] src.type = "conversation" -> IF src.speaker = "user" THEN 100 ELSE 50

\* The guard's arithmetic on two trust weights ...
OutOfReach(newTrust, oldTrust) == newTrust + 20 < oldTrust

\* Mutant: nobody consults the guard.
NeverBlocked(new, old) == FALSE

\* ... and on two claims with the trust their sources earn.
Blocked(new, old) == OutOfReach(TrustOf(new.turn.src), TrustOf(old.turn.src))

-----------------------------------------------------------------------------
(* Scope. *)

SameSlot(c, d) == c.turn.ns = d.turn.ns /\ c.subj = d.subj /\ c.pred = d.pred

SameValue(c, d) == Norm[c.val] = Norm[d.val]

\* Mutant: order by turn where stamps decide.
OlderTurnsOnly(new, c) == new.pred # NL /\ SameSlot(c, new) /\ c.turn.no < new.turn.no

\* Pass 1 looks at the older claims of the slot that another turn stated.
InPass1Scope(new, c) ==
    /\ new.pred # NL
    /\ SameSlot(c, new)
    /\ c.turn # new.turn
    /\ c.ts < new.ts

\* Pass 2 looks across subjects for a structured claim, and inside the session
\* for a natural-language one.
InPass2Scope(new, c) ==
    /\ c.turn.ns = new.turn.ns
    /\ IF new.pred = NL THEN c.turn.sess = new.turn.sess ELSE c.pred = new.pred
    /\ c.turn # new.turn
    /\ c.ts < new.ts

\* An identical restatement in scope makes Pass 2 stand back.
Restates(new, rows) ==
    \E c \in rows : SameValue(c, new) /\ (c.pred = NL \/ c.subj = new.subj)

-----------------------------------------------------------------------------
(* Pass 1. *)

Newest(rows) == {c \in rows : \A d \in rows : d.ts <= c.ts}

\* The claim a new claim is matched with: {} or a singleton.
Pass1Match(new, rows) ==
    LET differing == {c \in rows : ~SameValue(c, new) /\ c.val \notin Historical}
        attribute == {c \in differing :
                        Attr[new.val] # NoAttr /\ Attr[c.val] = Attr[new.val]}
        quantity  == {c \in differing : <<c.val, new.val>> \in Quantity}
        overlap   == {c \in differing :
                        /\ Overlap[c.val, new.val] > 0
                        /\ \A d \in differing :
                              Overlap[d.val, new.val] <= Overlap[c.val, new.val]}
    IN  CASE new.val \in Historical     -> {}
          [] new.val \notin Historical ->
               IF new.pred \in SingleValued THEN Newest(differing)
               ELSE IF attribute # {} THEN Newest(attribute)
               ELSE IF quantity # {} THEN Newest(quantity)
               ELSE Newest(overlap)

\* The type of the edge a match earns before the trust guard is consulted.
Classify(new, old) ==
    CASE <<new.val, old.val>> \in Narrower -> "refines"
      [] <<new.val, old.val>> \notin Narrower ->
           CASE new.turn.src.speaker = "assistant" -> "assistant_confirm"
             [] new.turn.src.speaker = "user"      -> "user_correction"
             [] new.turn.src.speaker = "system"    -> "contradicts"

\* Mutants: the copies stay; the copies go whatever their source.
NoCopies(new, old, rows) == {}
AllCopies(new, old, rows) == {c \in rows \ {old} : SameValue(c, old)}

\* The other copies of the matched value, which go with it unless their own
\* source is out of the new claim's reach.
CopiesOf(new, old, rows) ==
    {c \in rows \ {old} : SameValue(c, old) /\ ~Blocked(new, c)}
=============================================================================
