-------------------------- MODULE SupersessionProofs --------------------------
(***************************************************************************)
(* What Supersession guarantees for every vocabulary, every matching       *)
(* relation and every bound.  All steps that touch the store fall into two *)
(* kinds: one new claim is settled against some live ones, or one claim is *)
(* dismissed.  The invariants are proved for these two.                    *)
(*                                                                         *)
(* In order: the matching rules; the kinds of step; types; safety and the  *)
(* refinement; what Pass 1 leaves current; conflicts; walks along edges;   *)
(* lineages (Reads); the reports made of the store (Views).                *)
(***************************************************************************)
EXTENDS Views, FiniteSetTheorems, WellFoundedInduction, TLAPS

\* One claim is settled: it replaces the claims in olds, or contradicts them.
Settles(new, olds, type) ==
    /\ new \in Claim /\ new.ts = clock + 1
    /\ olds \subseteq live /\ type \in EdgeTypes
    /\ \A o \in olds : o.turn.ns = new.turn.ns
    /\ type # "contradicts" => \A o \in olds : ~Blocked(new, o)
    /\ Insert(new) /\ Link(olds, new, type)
    /\ Retire(IF type = "contradicts" THEN {} ELSE olds, new)
    /\ dismissed' = dismissed

\* What settling leaves on record: links between claims of different turns, of one
\* slot but for Pass 2, and the audit of what the guard refused.
Records(new, olds, type) ==
    /\ \A o \in olds : o.turn # new.turn
    /\ type # "semantic_replace" => \A o \in olds : o.pred # NL => SameSlot(o, new)
    /\ drift' = drift \cup {<<o, new>> : o \in {x \in olds : Blocked(new, x)}}

\* Turns are numbered as they are stored, and no claim is of a turn to come.
Numbered == \A t \in Extracting \cup {c.turn : c \in claims} : t.no <= nTurns

Dismisses(c) ==
    /\ c \in claims
    /\ live' = live \ {c} /\ dismissed' = dismissed \cup {c}
    /\ UNCHANGED <<claims, edges, clock>>

core == <<clock, claims, live, dismissed, edges>>

\* The part of TypeOK the store's invariants rest on.
CoreType ==
    /\ clock \in Nat
    /\ claims \subseteq Claim /\ live \subseteq claims /\ dismissed \subseteq claims
    /\ edges \subseteq Edge

-----------------------------------------------------------------------------
(* The matching rules. *)

\* Pass 1 only ever matches one of the rows its query returned.
LEMMA MatchIsARow ==
    ASSUME NEW new, NEW rows
    PROVE  Pass1Match(new, rows) \subseteq rows
  BY DEF Pass1Match, Newest

\* A turn's edge type is one of the enumerated ones.
LEMMA ClassifyType ==
    ASSUME NEW new \in Claim, NEW old
    PROVE  Classify(new, old) \in EdgeTypes
  <1>1. new.turn.src.speaker \in Speakers
    BY RulesAssumption DEF Claim, Turn, UserSays, Speakers
  <1> QED
    BY <1>1 DEF Classify, EdgeTypes, Speakers

\* No source is out of reach of what the user says.
LEMMA UserReachesAll ==
    ASSUME NEW new \in Claim, NEW old \in Claim, new.turn.src = UserSays
    PROVE  ~Blocked(new, old)
  <1>1. TrustOf(new.turn.src) = 100
    BY DEF TrustOf, UserSays
  <1>2. old.turn.src \in [speaker : Speakers, type : SourceTypes]
    BY RulesAssumption DEF Claim, Turn, UserSays, Speakers, SourceTypes
  <1>3. TrustOf(old.turn.src) \in {35, 70, 100, 50}
    BY <1>2 DEF TrustOf, SourceTypes
  <1> QED
    BY <1>1, <1>3 DEF Blocked, OutOfReach

\* Only a user is within reach of what a user said.
LEMMA OnlyUserReachesUser ==
    ASSUME NEW new \in Claim, NEW old \in Claim,
           old.turn.src = UserSays, ~Blocked(new, old)
    PROVE  new.turn.src = UserSays
  <1>1. TrustOf(old.turn.src) = 100
    BY DEF TrustOf, UserSays
  <1>2. new.turn.src \in [speaker : Speakers, type : SourceTypes]
    BY RulesAssumption DEF Claim, Turn, UserSays, Speakers, SourceTypes
  <1>3. ~(TrustOf(new.turn.src) + 20 < 100)
    BY <1>1 DEF Blocked, OutOfReach
  <1>4. new.turn.src.type \in SourceTypes
    BY <1>2
  <1>5. TrustOf(new.turn.src) \notin {35, 70, 50}
    BY <1>3
  <1>6. new.turn.src.type = "conversation" /\ new.turn.src.speaker = "user"
    BY <1>4, <1>5 DEF TrustOf, SourceTypes
  <1> QED
    BY <1>2, <1>6 DEF UserSays

\* A new claim drafted from a turn is well-typed and stamped after all others.
LEMMA NewClaimType ==
    ASSUME clock \in Nat, NEW turn \in Turn, NEW subj \in Subjects \cup {NoSubject},
           NEW pred \in Preds \cup {NL}, NEW val \in Vals
    PROVE  /\ NewClaim(turn, subj, pred, val) \in Claim
           /\ NewClaim(turn, subj, pred, val).ts = clock + 1
           /\ NewClaim(turn, subj, pred, val).turn = turn
  BY DEF NewClaim, Claim
-----------------------------------------------------------------------------
(* The two kinds of step. *)

\* Whatever is decided about a claim extracted from a turn, it is settled.
LEMMA ExtractSettles ==
    ASSUME CoreType, NEW new \in Claim, new.ts = clock + 1, Extract(new)
    PROVE  \E olds, type : Settles(new, olds, type) /\ Records(new, olds, type)
  <1> DEFINE rows == Pass1Rows(new)
             Refused(olds) == {<<o, new>> : o \in {x \in olds : Blocked(new, x)}}
  <1>1. rows \subseteq live /\ \A c \in rows : /\ c.turn.ns = new.turn.ns
                                               /\ c.turn # new.turn /\ SameSlot(c, new)
    BY DEF Pass1Rows, InPass1Scope, SameSlot
  <1>2. Pass1Match(new, rows) \subseteq rows
    BY MatchIsARow
  <1>3. CASE Add(new)
    <2>1. Settles(new, {}, "contradicts")
      BY <1>3 DEF Add, Settles, Insert, Retire, Link, EdgeTypes
    <2>2. Records(new, {}, "contradicts")
      BY <1>3 DEF Add, Records
    <2> QED
      BY <2>1, <2>2
  <1>4. CASE Override(new)
    <2>1. PICK old \in Pass1Match(new, rows) :
            LET gone == {old} \cup CopiesOf(new, old, rows)
            IN  /\ ~Blocked(new, old) /\ Classify(new, old) # "contradicts"
                /\ Insert(new) /\ Retire(gone, new)
                /\ Link(gone, new, Classify(new, old))
                /\ UNCHANGED <<dismissed, drift>>
      BY <1>4 DEF Override
    <2> DEFINE gone == {old} \cup CopiesOf(new, old, rows)
    <2>2. gone \subseteq rows /\ \A o \in gone : ~Blocked(new, o)
      BY <1>2, <2>1 DEF CopiesOf
    <2>3. Classify(new, old) \in EdgeTypes
      BY ClassifyType
    <2>4. Settles(new, gone, Classify(new, old))
      BY <1>1, <2>1, <2>2, <2>3 DEF Settles
    <2>5. drift' = drift \cup Refused(gone)
      BY <2>1, <2>2
    <2>6. Records(new, gone, Classify(new, old))
      BY <1>1, <2>2, <2>5 DEF Records
    <2> QED
      BY <2>4, <2>6
  <1>5. CASE Refuse(new) \/ Contradict(new)
    <2>1. PICK old \in Pass1Match(new, rows) :
            /\ Insert(new) /\ Retire({}, new)
            /\ Link({old}, new, "contradicts")
            /\ UNCHANGED dismissed
            /\ IF Blocked(new, old) THEN drift' = drift \cup {<<old, new>>} ELSE drift' = drift
      BY <1>5 DEF Refuse, Contradict
    <2>2. Settles(new, {old}, "contradicts")
      BY <1>1, <1>2, <2>1 DEF Settles, EdgeTypes
    <2>3. drift' = drift \cup Refused({old})
      BY <2>1
    <2>4. Records(new, {old}, "contradicts")
      BY <1>1, <1>2, <2>3 DEF Records
    <2> QED
      BY <2>2, <2>4
  <1>6. CASE SemanticReplace(new)
    <2>1. PICK old \in {c \in live : InPass2Scope(new, c)} :
            /\ ~Blocked(new, old)
            /\ Insert(new) /\ Retire({old}, new)
            /\ Link({old}, new, "semantic_replace")
            /\ UNCHANGED <<dismissed, drift>>
      BY <1>6 DEF SemanticReplace
    <2>2. Settles(new, {old}, "semantic_replace")
      BY <2>1 DEF Settles, EdgeTypes, InPass2Scope
    <2>3. Records(new, {old}, "semantic_replace")
      BY <2>1 DEF Records, InPass2Scope
    <2> QED
      BY <2>2, <2>3
  <1> QED
    BY <1>3, <1>4, <1>5, <1>6 DEF Extract

\* A correction settles a claim of the user's own against the head it corrects.
LEMMA CorrectSettles ==
    ASSUME CoreType, nTurns \in Nat, NEW c \in claims, NEW val \in Vals, Correct(c, val)
    PROVE  \E new, olds, type : /\ Settles(new, olds, type)
                                /\ Numbered => Records(new, olds, type)
  <1> DEFINE target == CurrentHead(c)
             turn == TurnFrom(target.turn.ns, target.turn.sess, UserSays)
             new == NewClaim(turn, target.subj, target.pred, val)
  <1> HIDE DEF target
  <1>1. target \in live /\ target \in Claim
    BY DEF Correct, CoreType, target
  <1>2. turn \in Turn /\ turn.src = UserSays /\ turn.ns = target.turn.ns
    BY <1>1 DEF TurnFrom, Turn, Claim
  <1>3. new \in Claim /\ new.ts = clock + 1 /\ new.turn = turn
    BY <1>1, <1>2, NewClaimType DEF Claim, CoreType
  <1> HIDE DEF turn, new
  <1>4. ~Blocked(new, target)
    BY <1>1, <1>2, <1>3, UserReachesAll
  <1>5. /\ Insert(new) /\ Retire({target}, new)
        /\ Link({target}, new, "user_correction")
        /\ dismissed' = dismissed /\ drift' = drift
    BY DEF Correct, target, turn, new
  <1>6. Settles(new, {target}, "user_correction")
    BY <1>1, <1>2, <1>3, <1>4, <1>5 DEF Settles, EdgeTypes
  <1>7. ASSUME Numbered PROVE Records(new, {target}, "user_correction")
    <2>1. target.turn # new.turn
      <3>1. target.turn.no <= nTurns
        BY <1>1, <1>7 DEF Numbered, CoreType
      <3>2. new.turn.no = nTurns + 1 /\ target.turn.no \in Nat
        BY <1>1, <1>3 DEF turn, TurnFrom, Claim, Turn
      <3> QED
        BY <3>1, <3>2
    <2>2. target.pred # NL => SameSlot(target, new)
      BY <1>2, <1>3 DEF new, NewClaim, SameSlot
    <2> QED
      BY <1>4, <1>5, <2>1, <2>2 DEF Records
  <1> QED
    BY <1>6, <1>7

\* Every step settles a claim, dismisses one, or leaves the store alone.
LEMMA StepsRecord ==
    ASSUME TypeOK, [Next]_vars
    PROVE  \/ \E new, olds, type : /\ Settles(new, olds, type)
                                   /\ Numbered => Records(new, olds, type)
           \/ \E c \in claims : Dismisses(c) /\ drift' = drift
           \/ UNCHANGED core /\ UNCHANGED drift
  <1>1. CoreType /\ nTurns \in Nat
    BY DEF TypeOK, CoreType
  <1>2. CASE Store
    BY <1>2 DEF Store, StoreInline, StoreDeferred, store, core
  <1>3. CASE Store \/ FinishInline \/ FinishDeferred \/ UNCHANGED vars
    BY <1>2, <1>3 DEF FinishInline, FinishDeferred, store, core, vars
  <1>4. CASE ExtractNext
    <2>1. PICK turn \in {Head(s) : s \in {inline, queue} \ {<<>>}},
               subj \in Subjects, pred \in Preds \cup {NL}, val \in Vals :
            Extract(NewClaim(turn, subj, pred, val))
      BY <1>4 DEF ExtractNext
    <2>2. turn \in Turn
      BY DEF TypeOK
    <2>3. NewClaim(turn, subj, pred, val) \in Claim
          /\ NewClaim(turn, subj, pred, val).ts = clock + 1
      BY <1>1, <2>2, NewClaimType DEF CoreType
    <2> QED
      BY <1>1, <2>1, <2>3, ExtractSettles
  <1>5. CASE UserAction
    <2>1. PICK c \in claims : Dismiss(c) \/ \E val \in Vals : Correct(c, val)
      BY <1>5 DEF UserAction
    <2>2. CASE Dismiss(c)
      BY <2>2 DEF Dismiss, Dismisses
    <2>3. CASE \E val \in Vals : Correct(c, val)
      BY <1>1, <2>3, CorrectSettles
    <2> QED
      BY <2>1, <2>2, <2>3
  <1> QED
    BY <1>3, <1>4, <1>5 DEF Next

\* What most proofs need of it.
LEMMA StepKinds ==
    ASSUME TypeOK, [Next]_vars
    PROVE  \/ \E new, olds, type : Settles(new, olds, type)
           \/ \E c \in claims : Dismisses(c)
           \/ UNCHANGED core
  <1>1. \/ \E new, olds, type : /\ Settles(new, olds, type)
                                /\ Numbered => Records(new, olds, type)
        \/ \E c \in claims : Dismisses(c) /\ drift' = drift
        \/ UNCHANGED core /\ UNCHANGED drift
    BY StepsRecord
  <1> QED
    BY <1>1

-----------------------------------------------------------------------------
(* Types. *)

\* A step of any kind keeps the types of the store.
LEMMA CoreTypeStep ==
    ASSUME TypeOK, [Next]_vars
    PROVE  CoreType'
  <1>1. CASE \E new, olds, type : Settles(new, olds, type)
    <2>1. PICK new, olds, type : Settles(new, olds, type)
      BY <1>1
    <2>2. {[old |-> o, new |-> new, type |-> type, ts |-> clock + 2] : o \in olds} \subseteq Edge
      BY <2>1 DEF Settles, TypeOK, Edge
    <2> QED
      BY <2>1, <2>2 DEF Settles, TypeOK, CoreType, Insert, Link, Retire
  <1>2. CASE \E c \in claims : Dismisses(c)
    BY <1>2 DEF Dismisses, TypeOK, CoreType
  <1>3. CASE UNCHANGED core
    BY <1>3 DEF core, TypeOK, CoreType
  <1> QED
    BY <1>1, <1>2, <1>3, StepKinds

\* Every variable keeps its type: in particular a claim is live, dismissed or
\* superseded only if it was inserted, and stays on record.
THEOREM TypeCorrect == Spec => []TypeOK
  <1>1. Init => TypeOK
    BY DEF Init, TypeOK
  <1>2. TypeOK /\ [Next]_vars => TypeOK'
    <2> SUFFICES ASSUME TypeOK, [Next]_vars PROVE TypeOK'
      OBVIOUS
    <2>1. CoreType'
      BY CoreTypeStep
    <2>2. nTurns' \in Nat /\ nActions' \in Nat
          /\ inline' \in Seq(Turn) /\ queue' \in Seq(Turn)
          /\ drift' \subseteq claims' \X claims'
      <3>1. CASE Store
        <4>1. PICK ns \in Namespaces, sess \in Sessions, src \in Sources :
                StoreInline(ns, sess, src) \/ StoreDeferred(ns, sess, src)
          BY <3>1 DEF Store
        <4>2. TurnFrom(ns, sess, src) \in Turn
          BY DEF TurnFrom, Turn, TypeOK
        <4>3. <<TurnFrom(ns, sess, src)>> \in Seq(Turn)
              /\ Append(queue, TurnFrom(ns, sess, src)) \in Seq(Turn)
          BY <4>2 DEF TypeOK
        <4>4. /\ nTurns' = nTurns + 1 /\ UNCHANGED <<nActions, claims, drift>>
              /\ inline' \in {inline, <<TurnFrom(ns, sess, src)>>}
              /\ queue' \in {queue, Append(queue, TurnFrom(ns, sess, src))}
          BY <4>1 DEF StoreInline, StoreDeferred, store
        <4>5. inline' \in Seq(Turn) /\ queue' \in Seq(Turn)
          BY <4>3, <4>4 DEF TypeOK
        <4>6. nTurns' \in Nat /\ nActions' \in Nat /\ drift' \subseteq claims' \X claims'
          BY <4>4 DEF TypeOK
        <4> QED
          BY <4>5, <4>6
      <3>2. CASE FinishInline \/ FinishDeferred \/ UNCHANGED vars
        <4>1. /\ UNCHANGED <<nTurns, nActions, claims, drift>>
              /\ inline' \in {inline, <<>>}
              /\ queue' = queue \/ (queue # <<>> /\ queue' = Tail(queue))
          BY <3>2 DEF FinishInline, FinishDeferred, store, vars
        <4>2. <<>> \in Seq(Turn) /\ (queue # <<>> => Tail(queue) \in Seq(Turn))
          BY DEF TypeOK
        <4> QED
          BY <4>1, <4>2 DEF TypeOK
      <3>3. CASE ExtractNext
        <4>1. PICK new : Extract(new)
          BY <3>3 DEF ExtractNext
        <4>2. Pass1Match(new, Pass1Rows(new)) \subseteq claims
          BY MatchIsARow DEF Pass1Rows, TypeOK
        <4>3. claims' = claims \cup {new}
              /\ (drift' = drift \/ \E old \in claims : drift' = drift \cup {<<old, new>>})
          BY <4>1, <4>2 DEF Extract, Add, Override, Refuse, Contradict, SemanticReplace, Insert
        <4>4. UNCHANGED <<nTurns, inline, queue, nActions>>
          BY <4>1 DEF Extract
        <4> QED
          BY <4>3, <4>4 DEF TypeOK
      <3>4. CASE UserAction
        <4>1. PICK c \in claims : Dismiss(c) \/ \E val \in Vals : Correct(c, val)
          BY <3>4 DEF UserAction
        <4>2. /\ nTurns' \in {nTurns, nTurns + 1} /\ nActions' = nActions + 1
              /\ claims \subseteq claims' /\ UNCHANGED <<inline, queue, drift>>
          BY <4>1 DEF Dismiss, Correct, Insert
        <4> QED
          BY <4>2 DEF TypeOK
      <3> QED
        BY <3>1, <3>2, <3>3, <3>4 DEF Next
    <2> QED
      BY <2>1, <2>2 DEF TypeOK, CoreType
  <1> QED
    BY <1>1, <1>2, PTL DEF Spec
-----------------------------------------------------------------------------
(* Safety. *)

\* Stamps come from one increasing clock, so whatever is written next is newer.
Stamped ==
    /\ \A c \in claims : c.ts <= clock
    /\ \A e \in edges : e.ts <= clock

\* The invariants support each other: lineages run forward because of the
\* stamps, and the redirect is right because an edge is only ever written for a
\* live claim, which no earlier edge can have replaced.
StoreInv ==
    Stamped /\ EdgesForward /\ TrustGuard /\ RetiredForCause /\ RedirectFollowsReplacement

\* Settling a claim keeps the invariant: it is newer than all it is linked to.
LEMMA SettlePreserves ==
    ASSUME TypeOK, StoreInv, NEW new, NEW olds, NEW type, Settles(new, olds, type)
    PROVE  StoreInv'
  <1> DEFINE added == {[old |-> o, new |-> new, type |-> type, ts |-> clock + 2] : o \in olds}
             gone == IF type = "contradicts" THEN {} ELSE olds
  <1>1. /\ claims' = claims \cup {new} /\ clock' = clock + 2 /\ clock \in Nat
        /\ edges' = edges \cup added /\ dismissed' = dismissed
        /\ live' = (live \ gone) \cup {new}
        /\ new.ts = clock + 1 /\ olds \subseteq live
        /\ \A o \in olds : o.turn.ns = new.turn.ns
        /\ type # "contradicts" => \A o \in olds : ~Blocked(new, o)
    BY DEF Settles, Insert, Link, Retire, TypeOK
  <1>2. /\ live \subseteq claims /\ dismissed \subseteq claims
        /\ \A c \in claims : c.ts \in Nat
        /\ \A e \in edges : e.ts \in Nat
    BY DEF TypeOK, Claim, Edge
  <1>3. \A e \in added : /\ e.old \in olds /\ e.new = new
                         /\ e.type = type /\ e.ts = clock + 2
    OBVIOUS
  <1>4. ASSUME NEW o \in olds PROVE \E e \in added : e.old = o
    <2> DEFINE e == [old |-> o, new |-> new, type |-> type, ts |-> clock + 2]
    <2>1. e \in added /\ e.old = o
      OBVIOUS
    <2> QED
      BY <2>1
  <1> HIDE DEF added
  <1>5. Stamped'
    BY <1>1, <1>2, <1>3 DEF StoreInv, Stamped
  <1>6. EdgesForward'
    <2>1. \A o \in olds : o \in claims /\ o.ts < new.ts
      BY <1>1, <1>2 DEF StoreInv, Stamped
    <2> QED
      BY <1>1, <1>3, <2>1 DEF StoreInv, EdgesForward
  <1>7. TrustGuard'
    BY <1>1, <1>3 DEF StoreInv, TrustGuard, Replaces
  <1>8. new \notin claims
    BY <1>1, <1>2 DEF StoreInv, Stamped
  <1>9. superseded' = superseded \cup gone
    BY <1>1, <1>2, <1>8 DEF StoreInv, RetiredForCause, superseded
  <1>10. \A c \in gone : \E e \in added : e.old = c /\ Replaces(e)
    BY <1>3, <1>4 DEF Replaces
  <1>11. RetiredForCause'
    <2>1. (live \cap dismissed = {})'
      BY <1>1, <1>2, <1>8 DEF StoreInv, RetiredForCause
    <2>2. ASSUME NEW c \in claims' \ dismissed', c \in superseded'
          PROVE  \E e \in edges' : e.old = c /\ Replaces(e)
      <3>1. CASE c \in gone
        BY <1>1, <1>10, <3>1
      <3>2. CASE c \in superseded
        BY <1>1, <3>2 DEF StoreInv, RetiredForCause, superseded
      <3> QED
        BY <1>9, <2>2, <3>1, <3>2
    <2>3. ASSUME NEW c \in claims' \ dismissed', NEW e \in edges', e.old = c, Replaces(e)
          PROVE  c \in superseded'
      <3>1. CASE e \in added
        BY <1>3, <1>9, <2>3, <3>1 DEF Replaces
      <3>2. CASE e \in edges
        <4>1. c \in claims \ dismissed
          BY <1>1, <2>3, <3>2 DEF StoreInv, EdgesForward
        <4> QED
          BY <1>9, <2>3, <3>2, <4>1 DEF StoreInv, RetiredForCause
      <3> QED
        BY <1>1, <3>1, <3>2
    <2> QED
      BY <2>1, <2>2, <2>3 DEF RetiredForCause
  <1>12. RedirectFollowsReplacement'
    <2> SUFFICES ASSUME NEW c \in superseded', NEW e \in edges', e.old = c,
                        \A f \in edges' : f.old = c => f.ts <= e.ts
                 PROVE  Replaces(e)
      BY DEF RedirectFollowsReplacement, EdgesFrom, Replaces
    <2>1. CASE c \in gone
      <3>1. PICK f \in added : f.old = c /\ Replaces(f)
        BY <1>10, <2>1
      <3>2. clock + 2 <= e.ts
        BY <1>1, <1>3, <3>1
      <3>3. e \in added
        BY <1>1, <1>2, <3>2 DEF StoreInv, Stamped
      <3> QED
        BY <1>3, <3>1, <3>3 DEF Replaces
    <2>2. CASE c \in superseded /\ c \notin gone
      <3>1. c \notin live
        BY <2>2 DEF superseded
      <3>2. e \notin added
        BY <1>1, <1>3, <3>1
      <3>3. e \in edges /\ \A f \in edges : f.old = c => f.ts <= e.ts
        BY <1>1, <3>2
      <3> QED
        BY <2>2, <3>3 DEF StoreInv, RedirectFollowsReplacement, EdgesFrom
    <2> QED
      BY <1>9, <2>1, <2>2
  <1> QED
    BY <1>5, <1>6, <1>7, <1>11, <1>12 DEF StoreInv

\* Dismissing one keeps it, since a dismissed claim is neither current nor superseded.
LEMMA DismissPreserves ==
    ASSUME TypeOK, StoreInv, NEW c \in claims, Dismisses(c)
    PROVE  StoreInv'
  <1>1. superseded' \subseteq superseded /\ superseded' \cap dismissed' = {}
    BY DEF Dismisses, superseded
  <1>2. Stamped' /\ EdgesForward' /\ TrustGuard'
    BY DEF Dismisses, StoreInv, Stamped, EdgesForward, TrustGuard
  <1>3. RetiredForCause'
    BY DEF Dismisses, StoreInv, RetiredForCause, superseded
  <1>4. RedirectFollowsReplacement'
    BY <1>1 DEF Dismisses, StoreInv, RedirectFollowsReplacement, EdgesFrom
  <1> QED
    BY <1>2, <1>3, <1>4 DEF StoreInv

\* The inductive invariant holds.
THEOREM StoreInvHolds == Spec => []StoreInv
  <1>1. Init => StoreInv
    BY DEF Init, StoreInv, Stamped, EdgesForward, TrustGuard, RetiredForCause,
           RedirectFollowsReplacement, superseded
  <1>2. TypeOK /\ StoreInv /\ [Next]_vars => StoreInv'
    <2> SUFFICES ASSUME TypeOK, StoreInv, [Next]_vars PROVE StoreInv'
      OBVIOUS
    <2>1. CASE UNCHANGED core
      BY <2>1 DEF core, StoreInv, Stamped, EdgesForward, TrustGuard, RetiredForCause,
                  RedirectFollowsReplacement, superseded, EdgesFrom
    <2> QED
      BY <2>1, StepKinds, SettlePreserves, DismissPreserves
  <1> QED
    BY <1>1, <1>2, TypeCorrect, PTL DEF Spec

\* Lineages never form a circle or leave their namespace, whatever vocabulary,
\* embedder, sources and corrections meet.
THEOREM EdgesForwardHolds == Spec => []EdgesForward
  BY StoreInvHolds, PTL DEF StoreInv

\* No path to a replacement (Pass 1, a copy, Pass 2, a correction) gets round
\* the trust guard.
THEOREM TrustGuardHolds == Spec => []TrustGuard
  BY StoreInvHolds, PTL DEF StoreInv

\* Nothing vanishes without lineage, and nothing replaced is still served.
THEOREM RetiredForCauseHolds == Spec => []RetiredForCause
  BY StoreInvHolds, PTL DEF StoreInv

\* The redirect of a correction leaves a superseded claim along the edge that
\* replaced it, never along a refused override.
THEOREM RedirectHolds == Spec => []RedirectFollowsReplacement
  BY StoreInvHolds, PTL DEF StoreInv

-----------------------------------------------------------------------------
(* Steps. *)

\* What a user stated stops being current only on the word of a user.
THEOREM UserWordHolds == Spec => UserWordStands
  <1>1. TypeOK /\ [Next]_vars =>
          [\A c \in live \ live' :
              c.turn.src = UserSays =>
                \/ c \in dismissed'
                \/ \E e \in edges' : /\ e.old = c /\ Replaces(e)
                                     /\ e.new.turn.src = UserSays]_vars
    <2> SUFFICES ASSUME TypeOK, [Next]_vars, NEW c \in live \ live',
                        c.turn.src = UserSays, c \notin dismissed'
                 PROVE  \E e \in edges' : /\ e.old = c /\ Replaces(e)
                                          /\ e.new.turn.src = UserSays
      OBVIOUS
    <2>1. PICK new, olds, type : Settles(new, olds, type)
      BY StepKinds DEF Dismisses, core
    <2>2. c \in olds /\ type # "contradicts" /\ c \in Claim
      BY <2>1 DEF Settles, Retire, TypeOK
    <2>3. new.turn.src = UserSays
      BY <2>1, <2>2, OnlyUserReachesUser DEF Settles
    <2> DEFINE e == [old |-> c, new |-> new, type |-> type, ts |-> clock + 2]
    <2>4. e \in edges'
      BY <2>1, <2>2 DEF Settles, Link
    <2>5. e.old = c /\ Replaces(e) /\ e.new = new
      BY <2>2 DEF Replaces
    <2> QED
      BY <2>3, <2>4, <2>5
  <1> QED
    BY <1>1, TypeCorrect, PTL DEF Spec, UserWordStands

\* The store implements the ledger its readers rely on: every step asserts and
\* links claims before it retires them, dismisses one, or changes nothing.
THEOREM Refinement == Spec => KeepsLedger
  <1> DEFINE links == {<<e.old, e.new>> : e \in {f \in edges : Replaces(f)}}
  <1>1. Init => Ledger!Init
    BY DEF Init, Ledger!Init
  <1>2. TypeOK /\ StoreInv /\ StoreInv' /\ [Next]_vars => [Ledger!Next]_(Ledger!vars)
    <2> SUFFICES ASSUME TypeOK, StoreInv, StoreInv', [Next]_vars
                 PROVE  [Ledger!Next]_(Ledger!vars)
      OBVIOUS
    <2>1. CASE \E new, olds, type : Settles(new, olds, type)
      <3>1. PICK new, olds, type : Settles(new, olds, type)
        BY <2>1
      <3>2. links \subseteq links' /\ links' \subseteq claims' \X claims'
        BY <3>1 DEF Settles, Link, StoreInv, EdgesForward, Replaces
      <3>3. new \notin claims
        BY <3>1 DEF Settles, StoreInv, Stamped, TypeOK
      <3>4. claims \subseteq claims' /\ live' \subseteq live \cup (claims' \ claims)
        BY <3>1, <3>3 DEF Settles, Insert, Retire
      <3>5. ASSUME NEW c \in live \ live' PROVE \E n \in claims' : <<c, n>> \in links'
        <4>1. c \in superseded' /\ c \in claims' \ dismissed'
          BY <3>1, <3>4 DEF Settles, StoreInv, RetiredForCause, superseded, TypeOK
        <4>2. PICK e \in edges' : e.old = c /\ Replaces(e)
          BY <4>1 DEF StoreInv, RetiredForCause
        <4>3. e.new \in claims' /\ <<c, e.new>> \in links'
          BY <4>2 DEF StoreInv, EdgesForward, Replaces
        <4> QED
          BY <4>3
      <3>6. Ledger!Settle
        BY <3>2, <3>4, <3>5 DEF Ledger!Settle
      <3> QED
        BY <3>6 DEF Ledger!Next
    <2>2. CASE \E c \in claims : Dismisses(c)
      BY <2>2 DEF Dismisses, Ledger!Next, Ledger!Dismiss, Replaces
    <2>3. CASE UNCHANGED core
      BY <2>3 DEF core, Ledger!vars, Replaces
    <2> QED
      BY <2>1, <2>2, <2>3, StepKinds
  <1> QED
    BY <1>1, <1>2, TypeCorrect, StoreInvHolds, PTL DEF Spec, KeepsLedger, Ledger!Spec
-----------------------------------------------------------------------------
(* No stale copies. *)

\* Extraction leaves no copy of a value it replaced: the copies Pass 1 does not
\* retire with the match are exactly those out of the new claim's reach.
LEMMA ExtractLeavesNoCopy ==
    ASSUME TypeOK, StoreInv, NoStaleCopy,
           NEW new \in Claim, new.ts = clock + 1, Extract(new)
    PROVE  NoStaleCopy'
  <1> DEFINE rows == Pass1Rows(new)
             Stale(e, c) == InPass1Scope(e.new, c) /\ SameValue(c, e.old)
  <1> SUFFICES ASSUME NEW e \in edges', e.type \in Pass1Types,
                      NEW c \in live', Stale(e, c)
               PROVE  Blocked(e.new, c)
    BY DEF NoStaleCopy
  <1>1. clock \in Nat /\ \A d \in claims : d.ts \in Nat /\ d.ts <= clock
    BY DEF TypeOK, Claim, StoreInv, Stamped
  <1>2. live' \subseteq live \cup {new}
    BY DEF Extract, Add, Override, Refuse, Contradict, SemanticReplace, Retire
  <1>3. CASE e \in edges
    <2>1. e.new.ts <= clock
      BY <1>1, <1>3 DEF StoreInv, EdgesForward
    <2>2. e.new \in claims /\ c.ts < e.new.ts
      BY <1>3 DEF StoreInv, EdgesForward, InPass1Scope
    <2>3. c \in live
      BY <1>1, <1>2, <2>1, <2>2
    <2> QED
      BY <1>3, <2>3 DEF NoStaleCopy
  <1>4. CASE e \notin edges
    <2>1. Override(new)
      <3>1. Add(new) => edges' = edges
        BY DEF Add
      <3>2. ASSUME Refuse(new) \/ Contradict(new) PROVE e.type = "contradicts"
        BY <1>4, <3>2 DEF Refuse, Contradict, Link
      <3>3. ASSUME SemanticReplace(new) PROVE e.type = "semantic_replace"
        BY <1>4, <3>3 DEF SemanticReplace, Link
      <3> QED
        BY <1>4, <3>1, <3>2, <3>3 DEF Extract, Pass1Types
    <2>2. PICK old \in Pass1Match(new, rows) :
            LET gone == {old} \cup CopiesOf(new, old, rows)
            IN  Retire(gone, new) /\ Link(gone, new, Classify(new, old))
      BY <2>1 DEF Override
    <2>3. e.new = new /\ (e.old = old \/ e.old \in CopiesOf(new, old, rows))
      BY <1>4, <2>2 DEF Link
    <2>4. SameValue(c, old)
      BY <2>3 DEF CopiesOf, SameValue
    <2>5. c # new
      BY <1>1, <2>3 DEF InPass1Scope
    <2>6. c \in rows
      BY <1>2, <2>3, <2>5 DEF Pass1Rows
    <2>7. c # old /\ c \notin CopiesOf(new, old, rows)
      BY <2>2, <2>5 DEF Retire
    <2> QED
      BY <2>3, <2>4, <2>6, <2>7 DEF CopiesOf
  <1> QED
    BY <1>3, <1>4

\* Nobody corrects a claim by hand in this step.
Uncorrected == \A c \in claims, val \in Vals : ~Correct(c, val)

\* Without corrections, a claim comes from extraction.
LEMMA ByExtraction ==
    ASSUME TypeOK, [Next]_vars, Uncorrected
    PROVE  \/ \E new \in Claim : new.ts = clock + 1 /\ Extract(new)
           \/ \E c \in claims : Dismisses(c)
           \/ UNCHANGED core
  <1>1. CASE ExtractNext
    <2>1. PICK turn \in {Head(s) : s \in {inline, queue} \ {<<>>}},
               subj \in Subjects, pred \in Preds \cup {NL}, val \in Vals :
            Extract(NewClaim(turn, subj, pred, val))
      BY <1>1 DEF ExtractNext
    <2>2. turn \in Turn /\ clock \in Nat
      BY DEF TypeOK
    <2> QED
      BY <2>1, <2>2, NewClaimType
  <1>2. CASE UserAction
    <2>1. PICK c \in claims : Dismiss(c)
      BY <1>2 DEF UserAction, Uncorrected
    <2> QED
      BY <2>1 DEF Dismiss, Dismisses
  <1>3. CASE Store \/ FinishInline \/ FinishDeferred \/ UNCHANGED vars
    BY <1>3 DEF Store, StoreInline, StoreDeferred, FinishInline, FinishDeferred, store, core, vars
  <1> QED
    BY <1>1, <1>2, <1>3 DEF Next

\* Where nobody corrects claims by hand, replacing a value leaves no copy of it
\* current that the new claim could have reached, whatever is dismissed.
THEOREM NoStaleCopyHolds == Spec /\ [][Uncorrected]_vars => []NoStaleCopy
  <1>1. Init => NoStaleCopy
    BY DEF Init, NoStaleCopy
  <1>2. TypeOK /\ StoreInv /\ NoStaleCopy /\ [Next /\ Uncorrected]_vars => NoStaleCopy'
    <2> SUFFICES ASSUME TypeOK, StoreInv, NoStaleCopy, [Next /\ Uncorrected]_vars
                 PROVE  NoStaleCopy'
      OBVIOUS
    <2>1. CASE UNCHANGED vars
      BY <2>1 DEF NoStaleCopy, vars
    <2>2. CASE UNCHANGED core
      BY <2>2 DEF NoStaleCopy, core
    <2>3. ASSUME NEW c \in claims, Dismisses(c) PROVE NoStaleCopy'
      BY <2>3 DEF NoStaleCopy, Dismisses
    <2> QED
      BY <2>1, <2>2, <2>3, ByExtraction, ExtractLeavesNoCopy
  <1> QED
    BY <1>1, <1>2, TypeCorrect, StoreInvHolds, PTL DEF Spec

-----------------------------------------------------------------------------
(* One current value. *)

\* A nonempty set of numbers has a least element.
LEMMA Smallest ==
    ASSUME NEW S, S \subseteq Nat, S # {}
    PROVE  \E x \in S : \A y \in S : x <= y
  <1>1. PICK m \in S : m \in Nat
    OBVIOUS
  <1> DEFINE U == 0 .. m
             Below(x) == {y \in U : y \in S /\ y <= x}
             T == {C \in SUBSET U : \E x \in S : x <= m /\ C = Below(x)}
  <1>2. IsFiniteSet(U)
    BY <1>1, FS_Interval
  <1>3. T \subseteq FiniteSubsetsOf(U) /\ T # {}
    <2>1. Below(m) \in T
      BY <1>1
    <2>2. FiniteSubsetsOf(U) = SUBSET U
      BY <1>2, FS_FiniteSubsetsOfFinite
    <2> QED
      BY <2>1, <2>2
  <1> HIDE DEF T
  <1>4. PICK B \in T : \A C \in T : ~(<<C, B>> \in StrictSubsetOrdering(U))
    BY <1>3, FS_StrictSubsetOrderingWellFounded, WFMin
  <1>5. PICK x \in S : x <= m /\ B = Below(x)
    BY <1>4 DEF T
  <1>6. ASSUME NEW y \in S, y < x PROVE FALSE
    <2>1. Below(y) \in T
      BY <1>1, <1>5, <1>6 DEF T
    <2>2. Below(y) \subseteq B /\ x \in B /\ x \notin Below(y)
      BY <1>1, <1>5, <1>6
    <2>3. <<Below(y), B>> \in StrictSubsetOrdering(U)
      BY <2>1, <2>2, <1>4 DEF StrictSubsetOrdering, T
    <2> QED
      BY <1>4, <2>1, <2>3
  <1> QED
    BY <1>6

\* Stamps stay below the clock, so some claim of a nonempty set is the newest.
LEMMA SomeNewest ==
    ASSUME TypeOK, StoreInv, NEW S, S \subseteq claims, S # {}
    PROVE  Newest(S) # {}
  <1> DEFINE Ages == {clock - c.ts : c \in S}
  <1>1. clock \in Nat /\ \A c \in S : c.ts \in Nat /\ c.ts <= clock
    BY DEF TypeOK, Claim, StoreInv, Stamped
  <1>2. Ages \subseteq Nat /\ Ages # {}
    BY <1>1
  <1>3. PICK a \in Ages : \A b \in Ages : a <= b
    BY <1>2, Smallest
  <1>4. PICK c \in S : a = clock - c.ts
    BY <1>3
  <1>5. ASSUME NEW d \in S PROVE d.ts <= c.ts
    <2>1. clock - d.ts \in Ages
      OBVIOUS
    <2>2. clock - c.ts <= clock - d.ts
      BY <1>3, <1>4, <2>1
    <2> QED
      BY <1>1, <2>2
  <1> QED
    BY <1>5 DEF Newest

\* In an uncontested slot extraction replaces every other value: the matched
\* claim has all of them as copies, and none is out of reach.
LEMMA ExtractLeavesOneValue ==
    ASSUME TypeOK, StoreInv, OneCurrentValue,
           NEW new \in Claim, new.ts = clock + 1, Extract(new)
    PROVE  OneCurrentValue'
  <1> DEFINE rows == Pass1Rows(new)
  <1> SUFFICES ASSUME NEW c \in live', NEW d \in live', c.pred \in SingleValued,
                      d \in SlotOf(c)', c \in SlotOf(d)', Uncontested(SlotOf(c))'
               PROVE  SameValue(c, d)
    BY DEF OneCurrentValue, SameValue, Uncontested
  <1>1. clock \in Nat /\ \A x \in claims : x \in Claim /\ x.ts \in Nat /\ x.ts <= clock
    BY DEF TypeOK, Claim, StoreInv, Stamped
  <1>2. new \notin claims
    BY <1>1
  <1>3. live' \subseteq live \cup {new} /\ claims' = claims \cup {new} /\ live \subseteq claims
    BY DEF Extract, Add, Override, Refuse, Contradict, SemanticReplace, Retire, Insert, TypeOK
  <1>4. SlotOf(c) \subseteq SlotOf(c)' /\ \A x : SlotOf(x)' \subseteq SlotOf(x) \cup {new}
    BY <1>3 DEF SlotOf
  <1>5. \A x, y \in SlotOf(c)' : x # y => /\ x.turn # y.turn /\ ~Blocked(x, y)
                                          /\ x.turn.src.speaker # "system"
    BY DEF Uncontested
  <1>6. SameSlot(c, d) /\ SameSlot(d, c) /\ c.val \notin Historical /\ d.val \notin Historical
    BY DEF SlotOf
  <1>7. \A x \in claims, y \in claims :
            x \in live /\ y \in live /\ x \in SlotOf(c)' /\ y \in SlotOf(c)' => SameValue(x, y)
    <2> SUFFICES ASSUME NEW x \in live, NEW y \in live, x \in SlotOf(c)', y \in SlotOf(c)'
                 PROVE  SameValue(x, y)
      OBVIOUS
    <2>1. x.pred \in SingleValued /\ y \in SlotOf(x) /\ x \in SlotOf(y)
      BY <1>3 DEF SlotOf, SameSlot
    <2>2. SlotOf(x) \subseteq SlotOf(c)'
      BY <1>3 DEF SlotOf, SameSlot
    <2>3. Uncontested(SlotOf(x))
      BY <1>5, <2>2 DEF Uncontested
    <2> QED
      BY <2>1, <2>3 DEF OneCurrentValue
  <1>8. ASSUME NEW x \in live, x \in live', x \in SlotOf(c)', new \in SlotOf(c)' PROVE SameValue(x, new)
    <2> DEFINE differing == {y \in rows : ~SameValue(y, new) /\ y.val \notin Historical}
               match == Pass1Match(new, rows)
    <2> SUFFICES ASSUME ~SameValue(x, new) PROVE FALSE
      OBVIOUS
    <2>1. /\ new.pred \in SingleValued /\ new.pred # NL /\ new.val \notin Historical
          /\ SameSlot(x, new) /\ x.val \notin Historical
      BY <1>8, NLAssumption, RulesAssumption DEF SlotOf, SameSlot
    <2>2. match = Newest(differing)
      BY <2>1 DEF Pass1Match
    <2>3. x \in rows /\ x \in differing
      BY <1>1, <1>2, <1>3, <1>5, <1>8, <2>1 DEF Pass1Rows, InPass1Scope
    <2>4. differing \subseteq claims
      BY <1>3 DEF Pass1Rows
    <2>5. match # {}
      BY <2>2, <2>3, <2>4, SomeNewest
    <2>6. \A y \in differing : y \in live /\ y \in SlotOf(c)' /\ y # new
      BY <1>2, <1>3, <1>8, <2>1 DEF Pass1Rows, InPass1Scope, SlotOf, SameSlot
    <2>7. \A y \in differing : ~Blocked(new, y) /\ SameValue(x, y)
      BY <1>3, <1>5, <1>7, <1>8, <2>6
    <2>8. new.turn.src.speaker \in {"user", "assistant"}
      <3>1. new.turn.src.speaker \in Speakers
        BY RulesAssumption DEF Claim, Turn, UserSays, Speakers
      <3>2. new.turn.src.speaker # "system"
        BY <1>2, <1>3, <1>5, <1>8
      <3> QED
        BY <3>1, <3>2 DEF Speakers
    <2>9. \A old \in match : Classify(new, old) # "contradicts"
      BY <2>8 DEF Classify
    <2>10. match \subseteq differing
      BY <2>2 DEF Newest
    <2> HIDE DEF match, differing
    <2>11. Override(new)
      BY <2>5, <2>7, <2>9, <2>10 DEF Extract, Add, Refuse, Contradict, SemanticReplace, match
    <2>12. PICK old \in match : Retire({old} \cup CopiesOf(new, old, rows), new)
      BY <2>11 DEF Override, match
    <2>13. x = old \/ x \in CopiesOf(new, old, rows)
      BY <2>3, <2>7, <2>10, <2>12 DEF CopiesOf, SameValue
    <2> QED
      BY <1>2, <1>3, <1>8, <2>12, <2>13 DEF Retire
  <1> QED
    BY <1>2, <1>3, <1>6, <1>7, <1>8 DEF SameValue, SlotOf, SameSlot

\* Steps that correct nothing leave one value in a slot that holds one.
LEMMA UncorrectedKeepsOneValue ==
    ASSUME TypeOK, StoreInv, OneCurrentValue, [Next /\ Uncorrected]_vars
    PROVE  OneCurrentValue'
  <1>1. CASE UNCHANGED vars
    BY <1>1 DEF OneCurrentValue, SlotOf, vars
  <1>2. CASE UNCHANGED core
    BY <1>2 DEF OneCurrentValue, SlotOf, core
  <1>3. ASSUME NEW c \in claims, Dismisses(c) PROVE OneCurrentValue'
    BY <1>3 DEF OneCurrentValue, SlotOf, Dismisses
  <1> QED
    BY <1>1, <1>2, <1>3, ByExtraction, ExtractLeavesOneValue

\* A single-valued slot in which every claim came in a turn of its own, from
\* users and assistants within reach of each other, holds one current value,
\* however many claims were made of it, as long as none was corrected by hand.
THEOREM OneCurrentValueHolds == Spec /\ [][Uncorrected]_vars => []OneCurrentValue
  <1>1. Init => OneCurrentValue
    BY DEF Init, OneCurrentValue
  <1>2. TypeOK /\ StoreInv /\ OneCurrentValue /\ [Next /\ Uncorrected]_vars => OneCurrentValue'
    BY UncorrectedKeepsOneValue
  <1> QED
    BY <1>1, <1>2, TypeCorrect, StoreInvHolds, PTL DEF Spec

\* As long as the user has done nothing to a claim, such a slot holds one value.
LEMMA OneValueUntilActions == Spec => [](nActions = 0 => OneCurrentValue)
  <1>1. Init => OneCurrentValue
    BY DEF Init, OneCurrentValue
  <1>2. /\ TypeOK /\ StoreInv /\ (nActions = 0 => OneCurrentValue) /\ [Next]_vars
        => (nActions = 0 => OneCurrentValue)'
    <2> SUFFICES ASSUME TypeOK, StoreInv, nActions = 0 => OneCurrentValue, [Next]_vars, nActions' = 0
                 PROVE  OneCurrentValue'
      OBVIOUS
    <2>1. ~UserAction
      <3>1. UserAction => nActions' = nActions + 1
        BY DEF UserAction, Dismiss, Correct
      <3> QED
        BY <3>1 DEF TypeOK
    <2>2. Uncorrected
      BY <2>1 DEF UserAction, Uncorrected
    <2>3. nActions = 0
      BY <2>1 DEF Next, Store, StoreInline, StoreDeferred, FinishInline, FinishDeferred, ExtractNext,
                  Extract, vars
    <2> QED
      BY <2>2, <2>3, UncorrectedKeepsOneValue
  <1> QED
    BY <1>1, <1>2, TypeCorrect, StoreInvHolds, PTL DEF Spec

-----------------------------------------------------------------------------
(* Conflicts. *)

\* Pass 1 matches a claim of another value, in a slot with a subject of its own.
LEMMA MatchDiffers ==
    ASSUME NEW new, NEW rows
    PROVE  \A old \in Pass1Match(new, rows) : ~SameValue(old, new)
  BY DEF Pass1Match, Newest

\* What an edge sets against each other are two values of one subject.
Disputes ==
    \A e \in edges : e.type = "contradicts" =>
        ~SameValue(e.old, e.new) /\ e.old.subj # NoSubject

\* Extraction writes a refused override only between two values of one subject.
LEMMA ExtractDisputes ==
    ASSUME TypeOK, Disputes, NEW turn, NEW subj \in Subjects, NEW pred \in Preds \cup {NL}, NEW val \in Vals,
           Extract(NewClaim(turn, subj, pred, val))
    PROVE  Disputes'
  <1> DEFINE new == NewClaim(turn, subj, pred, val)
             match == Pass1Match(new, Pass1Rows(new))
  <1> SUFFICES ASSUME NEW e \in edges', e \notin edges, e.type = "contradicts"
               PROVE  ~SameValue(e.old, e.new) /\ e.old.subj # NoSubject
    BY DEF Disputes
  <1>1. \A old \in match : ~SameValue(old, new) /\ old \in Pass1Rows(new)
    BY MatchDiffers, MatchIsARow
  <1>2. \A old \in match : old.subj = subj
    BY <1>1 DEF Pass1Rows, InPass1Scope, SameSlot, NewClaim
  <1>3. PICK old \in match : e.old = old /\ e.new = new
    <2> HIDE DEF new
    <2>1. ~Add(new)
      BY DEF Add
    <2>2. ASSUME NEW olds, NEW type, Link(olds, new, type) PROVE type = "contradicts"
      BY <2>2 DEF Link
    <2>3. ~SemanticReplace(new) /\ ~Override(new)
      BY <2>2 DEF SemanticReplace, Override
    <2>4. Refuse(new) \/ Contradict(new)
      BY <2>1, <2>3 DEF Extract, new
    <2> QED
      BY <2>4 DEF Refuse, Contradict, Link
  <1> QED
    BY <1>1, <1>2, <1>3, NLAssumption

\* Values that read alike are the same to Pass 1.
LEMMA AlikeIsSame ==
    \A c, d \in Claim : ReadsAlike(c, d) => SameValue(c, d)
  BY ReadsAssumption DEF Claim, ReadsAlike, SameValue

\* Where a refused override left two current values, tracing either claim shows
\* the other's value.
THEOREM ConflictsAgreeHolds == Spec => []ConflictsAgree
  <1>1. Init => Disputes
    BY DEF Init, Disputes
  <1>2. TypeOK /\ Disputes /\ [Next]_vars => Disputes'
    <2> SUFFICES ASSUME TypeOK, Disputes, [Next]_vars PROVE Disputes'
      OBVIOUS
    <2>1. CASE ExtractNext
      BY <2>1, ExtractDisputes DEF ExtractNext
    <2>2. CASE UserAction
      BY <2>2 DEF UserAction, Dismiss, Correct, Link, Disputes
    <2>3. CASE Store \/ FinishInline \/ FinishDeferred \/ UNCHANGED vars
      BY <2>3 DEF Store, StoreInline, StoreDeferred, FinishInline, FinishDeferred, store, vars, Disputes
    <2> QED
      BY <2>1, <2>2, <2>3 DEF Next
  <1>3. TypeOK /\ Disputes => ConflictsAgree
    <2> SUFFICES ASSUME TypeOK, Disputes PROVE ConflictsAgree
      OBVIOUS
    <2>1. \A e \in edges : e.type = "contradicts" =>
              ~ReadsAlike(e.old, e.new) /\ ~ReadsAlike(e.new, e.old) /\ e.old.subj # NoSubject
      BY AlikeIsSame DEF Disputes, TypeOK, Edge, ReadsAlike
    <2> QED
      BY <2>1 DEF ConflictsAgree, Contradictions, SlotConflicts, Contradicted, SameSlot
  <1> QED
    BY <1>1, <1>2, <1>3, TypeCorrect, PTL DEF Spec

-----------------------------------------------------------------------------
(* Walks along the edges. *)

\* A function on a set can be applied any number of times.
LEMMA Iterates ==
    ASSUME NEW S, NEW g \in [S -> S], NEW c \in S
    PROVE  \E f \in [Nat -> S] : f[0] = c /\ \A n \in Nat \ {0} : f[n] = g[f[n - 1]]
  <1> DEFINE UpTo(f, n) == /\ f \in [0 .. n -> S] /\ f[0] = c
                           /\ \A i \in 1 .. n : f[i] = g[f[i - 1]]
             Some(n) == CHOOSE f : UpTo(f, n)
             F == [n \in Nat |-> Some(n)[n]]
  <1>1. \A n \in Nat : \E f : UpTo(f, n)
    <2> DEFINE Bad == {n \in Nat : ~\E f : UpTo(f, n)}
    <2> SUFFICES ASSUME Bad # {} PROVE FALSE
      OBVIOUS
    <2>1. PICK n \in Bad : \A m \in Bad : n <= m
      BY Smallest
    <2>2. CASE n = 0
      <3>1. UpTo([i \in 0 .. 0 |-> c], 0)
        OBVIOUS
      <3> QED
        BY <2>1, <2>2, <3>1
    <2>3. CASE n # 0
      <3>1. n \in Nat /\ n - 1 \in Nat /\ ~(n <= n - 1)
        BY <2>1, <2>3
      <3>2. PICK f : UpTo(f, n - 1)
        BY <2>1, <3>1
      <3> DEFINE h == [i \in 0 .. n |-> IF i < n THEN f[i] ELSE g[f[n - 1]]]
      <3>3. /\ f \in [0 .. n - 1 -> S] /\ f[0] = c
            /\ \A i \in 1 .. n - 1 : f[i] = g[f[i - 1]]
        BY <3>2
      <3>4. h \in [0 .. n -> S] /\ h[0] = c
        BY <2>3, <3>1, <3>3
      <3>5. \A i \in 1 .. n : h[i] = g[h[i - 1]]
        BY <3>1, <3>3
      <3> HIDE DEF h
      <3>6. UpTo(h, n)
        BY <3>4, <3>5
      <3> QED
        BY <2>1, <3>6
    <2> QED
      BY <2>2, <2>3
  <1>2. ASSUME NEW n \in Nat, NEW m \in 0 .. n, NEW f, UpTo(f, m), NEW h, UpTo(h, n)
        PROVE  f[m] = h[m]
    <2> DEFINE Bad == {i \in 0 .. m : f[i] # h[i]}
    <2> SUFFICES ASSUME Bad # {} PROVE FALSE
      OBVIOUS
    <2>1. Bad \subseteq Nat
      OBVIOUS
    <2>2. PICK i \in Bad : \A j \in Bad : i <= j
      BY <2>1, Smallest
    <2>3. i # 0
      BY <1>2, <2>2
    <2>4. i \in 1 .. m /\ i \in 1 .. n /\ i - 1 \in 0 .. m /\ i - 1 \notin Bad
      BY <2>2, <2>3
    <2> QED
      BY <1>2, <2>2, <2>4
  <1> HIDE DEF UpTo
  <1>3. \A n \in Nat : UpTo(Some(n), n)
    BY <1>1
  <1> HIDE DEF Some
  <1>4. F \in [Nat -> S] /\ F[0] = c
    <2>1. \A n \in Nat : Some(n) \in [0 .. n -> S] /\ Some(n)[0] = c
      BY <1>3 DEF UpTo
    <2>2. \A n \in Nat : Some(n)[n] \in S
      BY <2>1
    <2> QED
      BY <2>1, <2>2
  <1>5. ASSUME NEW n \in Nat \ {0} PROVE F[n] = g[F[n - 1]]
    <2>1. n - 1 \in Nat /\ n - 1 \in 0 .. n /\ n \in 1 .. n
      OBVIOUS
    <2>2. UpTo(Some(n - 1), n - 1) /\ UpTo(Some(n), n)
      BY <1>3, <2>1
    <2>3. F[n] = Some(n)[n] /\ F[n - 1] = Some(n - 1)[n - 1]
      BY <2>1
    <2> HIDE DEF F
    <2>4. Some(n - 1)[n - 1] = Some(n)[n - 1]
      BY <1>2, <2>1, <2>2
    <2>5. Some(n)[n] = g[Some(n)[n - 1]]
      BY <2>1, <2>2 DEF UpTo
    <2> QED
      BY <2>3, <2>4, <2>5
  <1> QED
    BY <1>4, <1>5

Finite == IsFiniteSet(claims)

\* The claims table is finite.
LEMMA ClaimsAreFinite == Spec => []Finite
  <1>1. Init => Finite
    BY FS_EmptySet DEF Init, Finite
  <1>2. TypeOK /\ Finite /\ [Next]_vars => Finite'
    <2> SUFFICES ASSUME TypeOK, Finite, [Next]_vars PROVE Finite'
      OBVIOUS
    <2>1. claims' = claims \/ \E new : claims' = claims \cup {new}
      BY StepKinds DEF Settles, Insert, Dismisses, core
    <2> QED
      BY <2>1, FS_AddElement DEF Finite
  <1> QED
    BY <1>1, <1>2, TypeCorrect, PTL DEF Spec

\* The successor of a claim is what the newest edge out of it leads to.
LEMMA SuccessorIs ==
    ASSUME TypeOK, StoreInv, NEW c, EdgesFrom(c) # {}
    PROVE  \E e \in EdgesFrom(c) : /\ Successor(c) = e.new
                                   /\ \A f \in EdgesFrom(c) : f.ts <= e.ts
  <1> DEFINE Ages == {clock - e.ts : e \in EdgesFrom(c)}
  <1>1. clock \in Nat /\ \A e \in EdgesFrom(c) : e.ts \in Nat /\ e.ts <= clock
    BY DEF TypeOK, Edge, StoreInv, Stamped, EdgesFrom
  <1>2. Ages \subseteq Nat /\ Ages # {}
    BY <1>1
  <1>3. PICK a \in Ages : \A b \in Ages : a <= b
    BY <1>2, Smallest
  <1>4. PICK e \in EdgesFrom(c) : a = clock - e.ts
    BY <1>3
  <1>5. ASSUME NEW f \in EdgesFrom(c) PROVE f.ts <= e.ts
    <2>1. clock - f.ts \in Ages
      OBVIOUS
    <2>2. clock - e.ts <= clock - f.ts
      BY <1>3, <1>4, <2>1
    <2> QED
      BY <1>1, <2>2
  <1> QED
    BY <1>5 DEF Successor

\* A superseded claim leads to a newer one of its namespace.
LEMMA SuccessorIsNewer ==
    ASSUME TypeOK, StoreInv, NEW c \in superseded
    PROVE  /\ EdgesFrom(c) # {}
           /\ Successor(c) \in claims /\ c.ts < Successor(c).ts
           /\ Successor(c).turn.ns = c.turn.ns
  <1>1. EdgesFrom(c) # {}
    BY DEF StoreInv, RetiredForCause, EdgesFrom, superseded
  <1>2. PICK e \in EdgesFrom(c) : Successor(c) = e.new
    BY <1>1, SuccessorIs
  <1> QED
    BY <1>1, <1>2 DEF EdgesFrom, StoreInv, EdgesForward

\* One step of the walk to the head of a lineage.
Onward(d) == IF d \in superseded /\ EdgesFrom(d) # {} THEN Successor(d) ELSE d

\* The walk to the head of a lineage, as the iteration of such steps.
LEMMA WalkForward ==
    ASSUME TypeOK, StoreInv, Finite, NEW c \in claims
    PROVE  \E f \in [Nat -> claims] :
              /\ f[0] = c /\ \A n \in Nat \ {0} : f[n] = Onward(f[n - 1])
              /\ CurrentHead(c) = f[Cardinality(claims)]
  <1> DEFINE IsWalk(f) == f = [n \in Nat |->
                              IF n = 0 THEN c
                              ELSE IF f[n - 1] \in superseded /\ EdgesFrom(f[n - 1]) # {}
                                   THEN Successor(f[n - 1]) ELSE f[n - 1]]
             walk == CHOOSE f : IsWalk(f)
             g == [d \in claims |-> Onward(d)]
  <1>1. CurrentHead(c) = walk[Cardinality(claims)]
    BY DEF CurrentHead
  <1>2. \A d \in claims : Onward(d) \in claims
    BY SuccessorIsNewer DEF Onward
  <1>3. g \in [claims -> claims]
    BY <1>2
  <1> HIDE DEF g
  <1>4. PICK f \in [Nat -> claims] : f[0] = c /\ \A n \in Nat \ {0} : f[n] = g[f[n - 1]]
    BY <1>3, Iterates
  <1>5. \A n \in Nat \ {0} : f[n] = Onward(f[n - 1])
    <2> TAKE n \in Nat \ {0}
    <2>1. n - 1 \in Nat /\ f[n - 1] \in claims
      OBVIOUS
    <2> QED
      BY <1>4, <2>1 DEF g
  <1>6. IsWalk(f)
    BY <1>4, <1>5 DEF Onward
  <1>7. IsWalk(walk)
    BY <1>6
  <1> HIDE DEF walk
  <1>8. DOMAIN walk = Nat /\ walk[0] = c /\ \A n \in Nat \ {0} : walk[n] = Onward(walk[n - 1])
    BY <1>7 DEF Onward
  <1>9. \A n \in Nat : walk[n] = f[n]
    <2> DEFINE Bad == {n \in Nat : walk[n] # f[n]}
    <2> SUFFICES ASSUME Bad # {} PROVE FALSE
      OBVIOUS
    <2>1. PICK n \in Bad : \A m \in Bad : n <= m
      BY Smallest
    <2>2. n # 0
      BY <1>4, <1>8, <2>1
    <2>3. n \in Nat \ {0} /\ n - 1 \in Nat /\ n - 1 \notin Bad
      BY <2>1, <2>2
    <2> QED
      BY <1>5, <1>8, <2>1, <2>3
  <1>10. Cardinality(claims) \in Nat
    BY FS_CardinalityType DEF Finite
  <1> QED
    BY <1>1, <1>4, <1>5, <1>9, <1>10

\* A walk from one superseded claim to the next passes ever newer claims, so it
\* is over before it is longer than the table.
LEMMA WalksEnd ==
    ASSUME TypeOK, StoreInv, Finite, NEW c \in claims
    PROVE  CurrentHead(c) \in live \cup dismissed /\ CurrentHead(c).turn.ns = c.turn.ns
  <1> DEFINE N == Cardinality(claims)
  <1>1. PICK f \in [Nat -> claims] :
            /\ f[0] = c /\ \A n \in Nat \ {0} : f[n] = Onward(f[n - 1])
            /\ CurrentHead(c) = f[N]
    BY WalkForward
  <1>2. N \in Nat
    BY FS_CardinalityType DEF Finite
  <1>3. \A x \in claims : x.ts \in Nat
    BY DEF TypeOK, Claim
  <1> DEFINE Good(n) == /\ f[n].turn.ns = c.turn.ns
                        /\ f[n] \in superseded =>
                              \A j \in 0 .. n : \A i \in 0 .. j - 1 : f[i].ts < f[j].ts
             Bad == {n \in Nat : ~Good(n)}
  <1>4. \A n \in Nat : Good(n)
    <2> SUFFICES ASSUME Bad # {} PROVE FALSE
      OBVIOUS
    <2>1. PICK n \in Bad : \A m \in Bad : n <= m
      BY Smallest
    <2>2. n # 0
      BY <1>1, <2>1
    <2>3. n \in Nat \ {0} /\ n - 1 \in Nat /\ Good(n - 1)
      BY <2>1, <2>2
    <2>4. f[n] = Onward(f[n - 1]) /\ f[n - 1] \in claims /\ f[n] \in claims
      BY <1>1, <2>3
    <2>5. CASE f[n - 1] \notin superseded
      BY <2>1, <2>3, <2>4, <2>5 DEF Onward
    <2>6. CASE f[n - 1] \in superseded
      <3>1. f[n - 1].ts < f[n].ts /\ f[n].turn.ns = c.turn.ns
        BY <2>3, <2>4, <2>6, SuccessorIsNewer DEF Onward
      <3>2. ASSUME NEW j \in 0 .. n, NEW i \in 0 .. j - 1 PROVE f[i].ts < f[j].ts
        <4>1. CASE j \in 0 .. n - 1
          BY <2>3, <2>6, <4>1
        <4>2. CASE j = n /\ i = n - 1
          BY <3>1, <4>2
        <4>3. CASE j = n /\ i \in 0 .. n - 2
          <5>1. n - 1 \in 0 .. n - 1 /\ i \in 0 .. (n - 1) - 1
            BY <2>3, <4>3
          <5>2. f[i].ts < f[n - 1].ts
            BY <2>3, <2>6, <5>1
          <5>3. f[i] \in claims
            BY <2>3, <4>3
          <5> QED
            BY <1>3, <2>4, <3>1, <4>3, <5>2, <5>3
        <4> QED
          BY <2>3, <4>1, <4>2, <4>3
      <3> QED
        BY <2>1, <3>1, <3>2
    <2> QED
      BY <2>5, <2>6
  <1>5. ASSUME f[N] \in superseded PROVE FALSE
    <2> DEFINE h == [i \in 0 .. N |-> f[i]]
    <2>1. \A j \in 0 .. N : \A i \in 0 .. j - 1 : f[i].ts < f[j].ts
      BY <1>2, <1>4, <1>5
    <2>2. \A i \in 0 .. N : f[i] \in claims /\ f[i].ts \in Nat
      BY <1>2, <1>3
    <2>3. ASSUME NEW i \in 0 .. N, NEW j \in 0 .. N, i # j PROVE f[i] # f[j]
      <3>1. CASE i < j
        BY <1>2, <2>1, <2>2, <3>1
      <3>2. CASE j < i
        BY <1>2, <2>1, <2>2, <3>2
      <3> QED
        BY <1>2, <2>3, <3>1, <3>2
    <2>4. h \in [0 .. N -> claims]
      BY <2>2
    <2>5. IsFiniteSet(0 .. N) /\ Cardinality(0 .. N) = N + 1
      BY <1>2, FS_Interval
    <2>6. Cardinality(claims) < Cardinality(0 .. N) /\ IsFiniteSet(claims)
      BY <1>2, <2>5 DEF Finite
    <2> HIDE DEF h, N
    <2>7. PICK i \in 0 .. N, j \in 0 .. N : i # j /\ h[i] = h[j]
      BY <2>4, <2>5, <2>6, FS_PigeonHole
    <2> QED
      BY <2>3, <2>7 DEF h
  <1> QED
    BY <1>1, <1>2, <1>4, <1>5 DEF superseded

\* Following a superseded claim forward reaches one that is not, in the same
\* namespace, however long the lineage and whatever was dismissed in it.
THEOREM HeadIsCurrentHolds == Spec => []HeadIsCurrent
  <1>1. TypeOK /\ StoreInv /\ Finite => HeadIsCurrent
    BY WalksEnd DEF HeadIsCurrent, superseded
  <1> QED
    BY <1>1, TypeCorrect, StoreInvHolds, ClaimsAreFinite, PTL

-----------------------------------------------------------------------------
(* Lineages.                                                              *)

\* A single-valued slot in which nothing was refused, seen from a claim in it.
Tidy(c) == c.pred \in SingleValued /\ c.val \notin Historical /\ Uncontested(SlotOf(c))

\* The newest edge into a claim, or of those of one stamp one from the oldest copy.
IsNewestTo(e, c) ==
    /\ e \in EdgesTo(c)
    /\ \A f \in EdgesTo(c) : f.ts < e.ts \/ (f.ts = e.ts /\ e.old.ts <= f.old.ts)

\* The earliest current claim of its slot: what a trace of the slot starts from.
Leads(c) == c \in live /\ \A d \in live \cap SlotOf(c) : c.ts <= d.ts

\* No two claims have one stamp.
StampsDiffer == \A c, d \in claims : c.ts = d.ts => c = d

\* Each claim that replaced others is where a trace starts, or is itself the one a
\* newer claim's lineage leads to: of the copies replaced together, the oldest.
LineageInv ==
    /\ StampsDiffer
    /\ \A e \in edges : SameSlot(e.old, e.new) /\ {e.old.val, e.new.val} \cap Historical = {}
    /\ \A e, f \in edges : e.old = f.old /\ Tidy(e.old) => e = f /\ Replaces(e)
    /\ \A e \in edges : Tidy(e.old) => \E f \in edges : IsNewestTo(f, e.new) /\ SameValue(f.old, e.old)
    /\ \A e \in edges : Tidy(e.new) =>
          Leads(e.new) \/ \E f \in edges : f.old = e.new /\ IsNewestTo(f, f.new)

\* Nobody corrects or dismisses a claim in this step.
StoresAlone == ~UserAction

\* Values that differ in case, blanks or closing punctuation speak of the same time.
NormKeepsTime == \A v, w \in Vals : Norm[v] = Norm[w] => (v \in Historical <=> w \in Historical)

\* What Pass 1 matches lies in the slot of the new claim and, like it, speaks of
\* the present.
LEMMA MatchInSlot ==
    ASSUME NEW new
    PROVE  \A old \in Pass1Match(new, Pass1Rows(new)) :
              /\ old \in live /\ SameSlot(old, new) /\ ~SameValue(old, new)
              /\ old.val \notin Historical /\ new.val \notin Historical
  BY DEF Pass1Match, Newest, Pass1Rows, InPass1Scope

\* Extraction without Pass 2 adds a claim, replaces the matched one together with
\* its copies, or sets the new claim against it.
LEMMA ExtractKinds ==
    ASSUME ~Semantic, NEW new, Extract(new)
    PROVE  /\ claims' = claims \cup {new} /\ clock' = clock + 2 /\ dismissed' = dismissed
           /\ \/ edges' = edges /\ live' = live \cup {new}
                 /\ Pass1Match(new, Pass1Rows(new)) = {}
              \/ \E old \in Pass1Match(new, Pass1Rows(new)) :
                    LET gone == {old} \cup CopiesOf(new, old, Pass1Rows(new))
                    IN  Link(gone, new, Classify(new, old)) /\ Retire(gone, new)
                        /\ Classify(new, old) # "contradicts"
              \/ \E old \in Pass1Match(new, Pass1Rows(new)) :
                    /\ Blocked(new, old) \/ new.turn.src.speaker \notin {"user", "assistant"}
                    /\ Link({old}, new, "contradicts") /\ live' = live \cup {new}
  <1>1. ~SemanticReplace(new)
    BY DEF SemanticReplace
  <1>2. CASE Add(new)
    BY <1>2 DEF Add, Insert, Retire
  <1>3. CASE Override(new)
    BY <1>3 DEF Override, Insert
  <1>4. CASE Refuse(new)
    BY <1>4 DEF Refuse, Insert, Retire
  <1>5. CASE Contradict(new)
    <2>1. \A old : Classify(new, old) = "contradicts" => new.turn.src.speaker \notin {"user", "assistant"}
      BY DEF Classify
    <2> QED
      BY <1>5, <2>1 DEF Contradict, Insert, Retire
  <1> QED
    BY <1>1, <1>2, <1>3, <1>4, <1>5 DEF Extract

\* A slot only ever gets more claims, so one that is tidy always was.
LEMMA TidyBefore ==
    ASSUME NEW new, claims' = claims \cup {new}, NEW c
    PROVE  Tidy(c)' => Tidy(c) /\ SlotOf(c) \subseteq SlotOf(c)' /\ SlotOf(c)' \subseteq SlotOf(c) \cup {new}
  <1>1. SlotOf(c) \subseteq SlotOf(c)' /\ SlotOf(c)' \subseteq SlotOf(c) \cup {new}
    BY DEF SlotOf
  <1>2. Uncontested(SlotOf(c)') => Uncontested(SlotOf(c))
    BY <1>1 DEF Uncontested
  <1> QED
    BY <1>1, <1>2 DEF Tidy, Uncontested

\* In a slot that stays tidy, a claim is only ever linked to one that replaces it,
\* and every current claim of another value is replaced at once.
LEMMA ReplacesAll ==
    ASSUME TypeOK, StoreInv, OneCurrentValue, ~Semantic, NormKeepsTime,
           NEW new \in Claim, new.ts = clock + 1, Extract(new),
           NEW c, Tidy(c)', new \in SlotOf(c)',
           NEW x \in live \cap SlotOf(c), ~SameValue(x, new)
    PROVE  /\ \E type \in EdgeTypes \ {"contradicts"} :
                 Link(live \cap SlotOf(c), new, type) /\ Retire(live \cap SlotOf(c), new)
           /\ \A y, z \in live \cap SlotOf(c) : SameValue(y, z)
  <1> DEFINE rows == Pass1Rows(new)
             match == Pass1Match(new, rows)
             L == live \cap SlotOf(c)
  <1>1. clock \in Nat /\ live \subseteq claims /\ \A y \in claims : y \in Claim /\ y.ts \in Nat /\ y.ts <= clock
    BY DEF TypeOK, Claim, StoreInv, Stamped
  <1>2. new \notin claims /\ claims' = claims \cup {new}
    BY <1>1, ExtractKinds
  <1>3. Tidy(c) /\ SlotOf(c) \subseteq SlotOf(c)'
    BY <1>2, TidyBefore
  <1>4. \A y, z \in SlotOf(c)' : y # z => /\ y.turn # z.turn /\ ~Blocked(y, z)
                                          /\ y.turn.src.speaker # "system"
    BY DEF Tidy, Uncontested
  <1>5. /\ new.pred \in SingleValued /\ new.pred # NL /\ new.val \notin Historical
        /\ \A y \in SlotOf(c) : y \in claims /\ SameSlot(y, new) /\ y.val \notin Historical
    BY <1>3, NLAssumption, RulesAssumption DEF SlotOf, SameSlot, Tidy
  <1>6. L \subseteq rows
    BY <1>1, <1>2, <1>3, <1>4, <1>5 DEF Pass1Rows, InPass1Scope
  <1>7. \A y, z \in L : SameValue(y, z)
    <2> TAKE y, z \in L
    <2>1. y.pred \in SingleValued /\ z \in SlotOf(y) /\ y \in SlotOf(z) /\ SlotOf(y) \subseteq SlotOf(c)
      BY <1>5 DEF SlotOf, SameSlot, Tidy
    <2>2. Uncontested(SlotOf(y))
      BY <1>3, <2>1 DEF Tidy, Uncontested
    <2> QED
      BY <2>1, <2>2 DEF OneCurrentValue
  <1>8. \A y \in rows : ~Blocked(new, y) \/ y \notin L
    BY <1>2, <1>3, <1>4, <1>5
  <1> DEFINE differing == {y \in rows : ~SameValue(y, new) /\ y.val \notin Historical}
  <1>9. match = Newest(differing)
    BY <1>5 DEF Pass1Match
  <1>10. x \in differing /\ differing \subseteq claims
    BY <1>1, <1>5, <1>6 DEF Pass1Rows
  <1>11. match # {}
    BY <1>9, <1>10, SomeNewest
  <1>12. \A y \in rows : y \in live /\ (y.val \notin Historical => y \in L)
    BY <1>1, <1>2, <1>5 DEF Pass1Rows, InPass1Scope, SlotOf, SameSlot
  <1>13. \A old \in match : old \in L
    BY <1>9, <1>12 DEF Newest
  <1>14. new.turn.src.speaker \in {"user", "assistant"}
    <2>1. new.turn.src.speaker \in Speakers
      BY RulesAssumption DEF Claim, Turn, UserSays, Speakers
    <2> QED
      BY <1>2, <1>3, <1>4, <1>5, <2>1 DEF Speakers
  <1> HIDE DEF match
  <1>15. PICK old \in match :
            LET gone == {old} \cup CopiesOf(new, old, rows)
            IN  Link(gone, new, Classify(new, old)) /\ Retire(gone, new)
                /\ Classify(new, old) # "contradicts"
    <2>1. \A old \in match : ~Blocked(new, old)
      BY <1>6, <1>8, <1>13
    <2> QED
      BY <1>11, <1>14, <2>1, ExtractKinds DEF match
  <1>16. CopiesOf(new, old, rows) \subseteq L
    <2>1. ASSUME NEW y \in rows, SameValue(y, old) PROVE y.val \notin Historical
      <3>1. y \in Claim /\ old \in Claim /\ old.val \notin Historical
        BY <1>1, <1>5, <1>12, <1>13
      <3>2. y.val \in Vals /\ old.val \in Vals
        BY <3>1 DEF Claim
      <3> QED
        BY <2>1, <3>1, <3>2 DEF SameValue, NormKeepsTime
    <2> QED
      BY <1>12, <2>1 DEF CopiesOf
  <1>17. L \subseteq {old} \cup CopiesOf(new, old, rows)
    BY <1>6, <1>7, <1>8, <1>13 DEF CopiesOf
  <1>18. L = {old} \cup CopiesOf(new, old, rows)
    BY <1>13, <1>16, <1>17
  <1>19. Classify(new, old) \in EdgeTypes
    BY ClassifyType
  <1> QED
    BY <1>7, <1>15, <1>18, <1>19

\* An extraction either leaves what a tidy slot has alone, or replaces all of it.
TidyStep(new, c) ==
    \/ live \cap SlotOf(c) \subseteq live' /\ \A e \in edges' \ edges : e.old \notin SlotOf(c)
    \/ /\ new \in SlotOf(c)' /\ live \cap SlotOf(c) # {}
       /\ \E type \in EdgeTypes \ {"contradicts"} :
             Link(live \cap SlotOf(c), new, type) /\ Retire(live \cap SlotOf(c), new)
       /\ \A y, z \in live \cap SlotOf(c) : SameValue(y, z)

\* Every extraction does one of the three to a slot that stays tidy.
LEMMA TidySlots ==
    ASSUME TypeOK, StoreInv, OneCurrentValue, ~Semantic, NormKeepsTime,
           NEW new \in Claim, new.ts = clock + 1, Extract(new), NEW c, Tidy(c)'
    PROVE  TidyStep(new, c)
  <1> DEFINE rows == Pass1Rows(new)
             match == Pass1Match(new, rows)
  <1>1. claims' = claims \cup {new} /\ live \subseteq claims
    BY ExtractKinds DEF TypeOK
  <1>2. new \notin claims
    BY DEF TypeOK, Claim, StoreInv, Stamped
  <1>3. \A old \in match : /\ old \in live /\ SameSlot(old, new) /\ ~SameValue(old, new)
                           /\ old.val \notin Historical /\ new.val \notin Historical
    BY MatchInSlot
  <1>4. \A old \in match : old \in SlotOf(c) => new \in SlotOf(c)' /\ old \in SlotOf(c)'
    BY <1>1, <1>3 DEF SlotOf, SameSlot
  <1>5. \A old \in match : \A y : SameSlot(y, new) /\ y \in SlotOf(c) => old \in SlotOf(c)
    BY <1>1, <1>3 DEF SlotOf, SameSlot
  <1> HIDE DEF match
  <1>6. CASE edges' = edges /\ live' = live \cup {new}
    BY <1>6 DEF TidyStep
  <1>7. ASSUME NEW old \in match,
               LET gone == {old} \cup CopiesOf(new, old, rows)
               IN  Link(gone, new, Classify(new, old)) /\ Retire(gone, new)
        PROVE  TidyStep(new, c)
    <2>1. CASE old \in SlotOf(c)
      BY <1>3, <1>4, <2>1, ReplacesAll DEF TidyStep
    <2>2. CASE old \notin SlotOf(c)
      <3> DEFINE gone == {old} \cup CopiesOf(new, old, rows)
      <3>1. \A y \in gone : y \notin SlotOf(c)
        BY <1>3, <1>5, <2>2 DEF CopiesOf, Pass1Rows, InPass1Scope
      <3>2. \A e \in edges' \ edges : e.old \in gone
        BY <1>7 DEF Link
      <3>3. live' = (live \ gone) \cup {new}
        BY <1>7 DEF Retire
      <3> QED
        BY <3>1, <3>2, <3>3 DEF TidyStep
    <2> QED
      BY <2>1, <2>2
  <1>8. ASSUME NEW old \in match, Link({old}, new, "contradicts"), live' = live \cup {new},
               Blocked(new, old) \/ new.turn.src.speaker \notin {"user", "assistant"}
        PROVE  TidyStep(new, c)
    <2>1. old \notin SlotOf(c)
      <3>1. SUFFICES ASSUME old \in SlotOf(c) PROVE FALSE
        OBVIOUS
      <3>2. new \in SlotOf(c)' /\ old \in SlotOf(c)' /\ new # old
        BY <1>1, <1>2, <1>3, <1>4, <3>1
      <3>3. ~Blocked(new, old) /\ new.turn.src.speaker # "system"
        BY <3>2 DEF Tidy, Uncontested
      <3>4. new.turn.src.speaker \in Speakers
        BY RulesAssumption DEF Claim, Turn, UserSays, Speakers
      <3> QED
        BY <1>8, <3>3, <3>4 DEF Speakers
    <2>2. \A e \in edges' \ edges : e.old = old
      BY <1>8 DEF Link
    <2> QED
      BY <1>8, <2>1, <2>2 DEF TidyStep
  <1> QED
    BY <1>6, <1>7, <1>8, ExtractKinds DEF match

\* Of a nonempty set of claims one is the earliest.
LEMMA SomeEarliest ==
    ASSUME TypeOK, NEW S, S \subseteq claims, S # {}
    PROVE  \E c \in S : \A d \in S : c.ts <= d.ts
  <1>1. {c.ts : c \in S} \subseteq Nat /\ {c.ts : c \in S} # {}
    BY DEF TypeOK, Claim
  <1>2. PICK t \in {c.ts : c \in S} : \A u \in {c.ts : c \in S} : t <= u
    BY <1>1, Smallest
  <1> QED
    BY <1>2

\* The edges into an old claim stay as they are.
LEMMA NewestStays ==
    ASSUME NEW new, new \notin claims, edges \subseteq edges', \A e \in edges' \ edges : e.new = new,
           NEW c \in claims, NEW e, IsNewestTo(e, c)
    PROVE  IsNewestTo(e, c)'
  <1>1. EdgesTo(c)' = EdgesTo(c)
    BY DEF EdgesTo
  <1> QED
    BY <1>1 DEF IsNewestTo

\* Of the copies a new claim replaces, its lineage follows the oldest.
LEMMA OldestIsNewest ==
    ASSUME TypeOK, StoreInv, NEW new, new \notin claims, NEW L, NEW type, Link(L, new, type),
           NEW o \in L, \A y \in L : o.ts <= y.ts
    PROVE  \E e \in edges' : e.old = o /\ e.new = new /\ IsNewestTo(e, new)'
  <1>1. PICK e \in edges' : e.old = o /\ e.new = new /\ e.ts = clock + 2
    <2> DEFINE added == [old |-> o, new |-> new, type |-> type, ts |-> clock + 2]
    <2>1. added \in edges'
      BY DEF Link
    <2> QED
      BY <2>1
  <1>2. \A f \in EdgesTo(new)' : f.ts = clock + 2 /\ f.old \in L
    BY DEF Link, EdgesTo, StoreInv, EdgesForward
  <1>3. e \in EdgesTo(new)'
    BY <1>1 DEF EdgesTo
  <1>4. IsNewestTo(e, new)'
    BY <1>1, <1>2, <1>3 DEF IsNewestTo
  <1> QED
    BY <1>1, <1>4

\* Extraction preserves the shape of lineages.
LEMMA ExtractKeepsLineage ==
    ASSUME TypeOK, StoreInv, OneCurrentValue, LineageInv, ~Semantic, NormKeepsTime,
           NEW new \in Claim, new.ts = clock + 1, Extract(new)
    PROVE  LineageInv'
  <1>1. /\ claims' = claims \cup {new} /\ new \notin claims /\ live \subseteq claims
        /\ clock \in Nat /\ \A c \in claims : c \in Claim /\ c.ts \in Nat /\ c.ts <= clock
    BY ExtractKinds DEF TypeOK, Claim, StoreInv, Stamped
  <1>2. /\ edges \subseteq edges' /\ live' \subseteq live \cup {new}
        /\ \A e \in edges' \ edges : e.new = new /\ e.old \in live
                                     /\ SameSlot(e.old, new) /\ {e.old.val, new.val} \cap Historical = {}
    <2> DEFINE match == Pass1Match(new, Pass1Rows(new))
    <2>1. \A old \in match : /\ old \in live /\ SameSlot(old, new)
                             /\ old.val \notin Historical /\ new.val \notin Historical
      BY MatchInSlot
    <2>2. ASSUME NEW old \in match, NEW y \in CopiesOf(new, old, Pass1Rows(new))
          PROVE  y \in live /\ SameSlot(y, new) /\ y.val \notin Historical
      <3>1. y \in live /\ SameSlot(y, new) /\ Norm[y.val] = Norm[old.val]
        BY DEF CopiesOf, Pass1Rows, InPass1Scope, SameValue
      <3>2. y.val \in Vals /\ old.val \in Vals
        BY <1>1, <2>1, <3>1 DEF Claim
      <3> QED
        BY <2>1, <3>1, <3>2 DEF NormKeepsTime
    <2> HIDE DEF match
    <2>3. CASE edges' = edges /\ live' = live \cup {new}
      BY <2>3
    <2>4. ASSUME NEW old \in match,
                 LET gone == {old} \cup CopiesOf(new, old, Pass1Rows(new))
                 IN  Link(gone, new, Classify(new, old)) /\ Retire(gone, new)
          PROVE  <1>2!1 /\ <1>2!2
      BY <2>1, <2>2, <2>4 DEF Link, Retire
    <2>5. ASSUME NEW old \in match, Link({old}, new, "contradicts"), live' = live \cup {new}
          PROVE  <1>2!1 /\ <1>2!2
      BY <2>1, <2>5 DEF Link
    <2> QED
      BY <2>3, <2>4, <2>5, ExtractKinds DEF match
  <1>3. \A e \in edges : {e.old, e.new} \subseteq claims
    BY DEF StoreInv, EdgesForward
  <1>4. \A e \in edges' : e.old \in claims /\ e.new \in claims'
    BY <1>1, <1>2, <1>3
  <1>5. \A c \in claims' : Tidy(c)' => /\ TidyStep(new, c) /\ Tidy(c)
                                       /\ SlotOf(c)' \subseteq SlotOf(c) \cup {new}
                                       /\ c \in claims => c \in SlotOf(c)
    <2> TAKE c \in claims'
    <2> HAVE Tidy(c)'
    <2>1. TidyStep(new, c)
      BY TidySlots
    <2>2. Tidy(c) /\ SlotOf(c)' \subseteq SlotOf(c) \cup {new}
      BY <1>1, TidyBefore
    <2> QED
      BY <2>1, <2>2 DEF Tidy, SlotOf, SameSlot
  <1>6. \A f \in edges : IsNewestTo(f, f.new) => IsNewestTo(f, f.new)'
    BY <1>1, <1>2, <1>3, NewestStays
  <1>7. StampsDiffer'
    BY <1>1 DEF LineageInv, StampsDiffer
  <1>8. \A e \in edges' : SameSlot(e.old, e.new) /\ {e.old.val, e.new.val} \cap Historical = {}
    BY <1>2 DEF LineageInv
  <1>9. ASSUME NEW e \in edges', NEW f \in edges', e.old = f.old, Tidy(e.old)'
        PROVE  e = f /\ Replaces(e)
    <2> DEFINE c == e.old
    <2>1. c \in claims /\ TidyStep(new, c) /\ Tidy(c) /\ c \in SlotOf(c)
      BY <1>1, <1>4, <1>5, <1>9
    <2>2. CASE e \in edges /\ f \in edges
      BY <1>9, <2>1, <2>2 DEF LineageInv
    <2>3. CASE ~(e \in edges /\ f \in edges)
      <3>1. PICK type \in EdgeTypes \ {"contradicts"} : Link(live \cap SlotOf(c), new, type)
        BY <1>9, <2>1, <2>3 DEF TidyStep
      <3>2. c \in live
        BY <1>2, <1>9, <2>3
      <3>3. \A h \in edges : h.old # c
        <4> SUFFICES ASSUME NEW h \in edges, h.old = c PROVE FALSE
          OBVIOUS
        <4>1. Replaces(h)
          BY <2>1 DEF LineageInv
        <4>2. c \in claims \ dismissed /\ c \notin superseded
          BY <1>1, <3>2 DEF StoreInv, RetiredForCause, superseded
        <4> QED
          BY <4>1, <4>2 DEF StoreInv, RetiredForCause
      <3>4. e \notin edges /\ f \notin edges
        BY <1>9, <3>3
      <3> QED
        BY <1>9, <3>1, <3>4 DEF Link, Replaces
    <2> QED
      BY <2>2, <2>3
  <1>10. ASSUME NEW e \in edges', Tidy(e.old)'
         PROVE  \E f \in edges' : IsNewestTo(f, e.new)' /\ SameValue(f.old, e.old)
    <2> DEFINE c == e.old
               L == live \cap SlotOf(c)
    <2>1. c \in claims /\ TidyStep(new, c) /\ Tidy(c) /\ c \in SlotOf(c)
      BY <1>1, <1>4, <1>5, <1>10
    <2>2. CASE e \in edges
      <3>1. PICK f \in edges : IsNewestTo(f, e.new) /\ SameValue(f.old, e.old)
        BY <2>1, <2>2 DEF LineageInv
      <3>2. f.new = e.new
        BY <3>1 DEF IsNewestTo, EdgesTo
      <3> QED
        BY <1>2, <1>6, <3>1, <3>2
    <2>3. CASE e \notin edges
      <3>1. c \in live /\ e.new = new
        BY <1>2, <2>3
      <3>2. PICK type \in EdgeTypes \ {"contradicts"} : Link(L, new, type)
        BY <2>1, <2>3 DEF TidyStep
      <3>3. \A y, z \in L : SameValue(y, z)
        BY <2>1, <2>3 DEF TidyStep
      <3>4. PICK o \in L : \A y \in L : o.ts <= y.ts
        BY <1>1, <2>1, <3>1, SomeEarliest
      <3>5. PICK f \in edges' : f.old = o /\ IsNewestTo(f, new)'
        BY <1>1, <3>2, <3>4, OldestIsNewest
      <3> QED
        BY <2>1, <3>1, <3>3, <3>5
    <2> QED
      BY <2>2, <2>3
  <1>11. ASSUME NEW e \in edges', Tidy(e.new)'
         PROVE  Leads(e.new)' \/ \E f \in edges' : f.old = e.new /\ IsNewestTo(f, f.new)'
    <2> DEFINE c == e.new
               L == live \cap SlotOf(c)
    <2>1. c \in claims' /\ TidyStep(new, c) /\ Tidy(c) /\ SlotOf(c)' \subseteq SlotOf(c) \cup {new}
      BY <1>4, <1>5, <1>11
    <2>2. CASE e \notin edges
      <3>1. c = new /\ e.old \in live /\ e.old \in SlotOf(c)
        BY <1>1, <1>2, <2>2 DEF SlotOf, SameSlot
      <3>2. Retire(L, new)
        BY <2>1, <2>2, <3>1 DEF TidyStep
      <3>3. live' \cap SlotOf(c)' \subseteq {new} /\ new \in live'
        BY <1>1, <2>1, <3>2 DEF Retire
      <3> QED
        BY <1>1, <3>1, <3>3 DEF Leads
    <2>3. CASE e \in edges
      <3>1. c \in claims /\ c \in SlotOf(c)
        BY <1>3, <1>5, <1>11, <2>1, <2>3
      <3>2. CASE ~Leads(c)
        <4>1. PICK f \in edges : f.old = c /\ IsNewestTo(f, f.new)
          BY <2>1, <2>3, <3>2 DEF LineageInv
        <4> QED
          BY <1>2, <1>6, <4>1
      <3>3. CASE Leads(c)
        <4>1. c \in L /\ \A y \in L : c.ts <= y.ts
          BY <3>1, <3>3 DEF Leads
        <4>2. CASE L \subseteq live'
          <5>1. c \in live' /\ live' \cap SlotOf(c)' \subseteq L \cup {new}
            BY <1>2, <2>1, <4>1, <4>2
          <5> QED
            BY <1>1, <3>1, <4>1, <5>1 DEF Leads
        <4>3. CASE \E type : Link(L, new, type)
          BY <1>1, <4>1, <4>3, OldestIsNewest
        <4> QED
          BY <2>1, <4>2, <4>3 DEF TidyStep
      <3> QED
        BY <3>2, <3>3
    <2> QED
      BY <2>2, <2>3
  <1> QED
    BY <1>7, <1>8, <1>9, <1>10, <1>11 DEF LineageInv

\* A single-valued slot keeps the shape of its lineages as long as claims come
\* from stores alone.
THEOREM LineageInvHolds ==
    ASSUME ~Semantic, NormKeepsTime
    PROVE  Spec /\ [][StoresAlone]_vars => []LineageInv
  <1>1. Init => LineageInv
    BY DEF Init, LineageInv, StampsDiffer
  <1>2. [Next]_vars /\ [StoresAlone]_vars => [Uncorrected]_vars
    BY DEF StoresAlone, Uncorrected, UserAction
  <1>3. TypeOK /\ StoreInv /\ OneCurrentValue /\ LineageInv /\ [Next]_vars /\ [StoresAlone]_vars => LineageInv'
    <2> SUFFICES ASSUME TypeOK, StoreInv, OneCurrentValue, LineageInv, [Next]_vars, [StoresAlone]_vars
                 PROVE  LineageInv'
      OBVIOUS
    <2>1. ASSUME UNCHANGED core PROVE LineageInv'
      <3>1. \A c : Tidy(c)' = Tidy(c) /\ Leads(c)' = Leads(c)
        BY <2>1 DEF core, Tidy, Leads, SlotOf
      <3>2. \A e, c : IsNewestTo(e, c)' = IsNewestTo(e, c)
        BY <2>1 DEF core, IsNewestTo, EdgesTo
      <3>3. claims' = claims /\ edges' = edges
        BY <2>1 DEF core
      <3> QED
        BY <3>1, <3>2, <3>3 DEF LineageInv, StampsDiffer
    <2>2. CASE ExtractNext
      <3>1. PICK turn \in {Head(s) : s \in {inline, queue} \ {<<>>}},
                 subj \in Subjects, pred \in Preds \cup {NL}, val \in Vals :
              Extract(NewClaim(turn, subj, pred, val))
        BY <2>2 DEF ExtractNext
      <3>2. turn \in Turn /\ clock \in Nat
        BY DEF TypeOK
      <3> QED
        BY <3>1, <3>2, NewClaimType, ExtractKeepsLineage
    <2>3. CASE Store \/ FinishInline \/ FinishDeferred \/ UNCHANGED vars
      <3>1. UNCHANGED core
        BY <2>3 DEF Store, StoreInline, StoreDeferred, FinishInline, FinishDeferred, store, core, vars
      <3> QED
        BY <2>1, <3>1
    <2> QED
      BY <2>2, <2>3 DEF Next, StoresAlone
  <1> QED
    BY <1>1, <1>2, <1>3, TypeCorrect, StoreInvHolds, OneCurrentValueHolds, PTL DEF Spec

\* The newest edge into a claim exists, and the copy it comes from is the only one.
LEMMA NewestEdgeIs ==
    ASSUME TypeOK, StoreInv, StampsDiffer, NEW c, EdgesTo(c) # {}
    PROVE  /\ IsNewestTo(NewestEdgeTo(c), c)
           /\ \A f : IsNewestTo(f, c) => f.old = NewestEdgeTo(c).old
  <1> DEFINE Ages == {clock - e.ts : e \in EdgesTo(c)}
  <1>1. clock \in Nat /\ \A e \in EdgesTo(c) : /\ e \in edges /\ e.ts \in Nat /\ e.ts <= clock
                                               /\ e.old \in claims /\ e.old.ts \in Nat
    BY DEF TypeOK, Edge, Claim, StoreInv, Stamped, EdgesForward, EdgesTo
  <1>2. Ages \subseteq Nat /\ Ages # {}
    BY <1>1
  <1>3. PICK a \in Ages : \A b \in Ages : a <= b
    BY <1>2, Smallest
  <1>4. PICK m \in EdgesTo(c) : a = clock - m.ts
    BY <1>3
  <1>5. ASSUME NEW f \in EdgesTo(c) PROVE f.ts <= m.ts
    <2>1. clock - f.ts \in Ages
      OBVIOUS
    <2>2. clock - m.ts <= clock - f.ts
      BY <1>3, <1>4, <2>1
    <2> QED
      BY <1>1, <2>2
  <1> DEFINE Last == {e \in EdgesTo(c) : e.ts = m.ts}
  <1>6. PICK o \in {e.old : e \in Last} : \A d \in {e.old : e \in Last} : o.ts <= d.ts
    <2>1. {e.old : e \in Last} \subseteq claims /\ {e.old : e \in Last} # {}
      BY <1>1
    <2> QED
      BY <2>1, SomeEarliest
  <1>7. PICK e \in Last : e.old = o
    BY <1>6
  <1>8. IsNewestTo(e, c)
    BY <1>1, <1>5, <1>6, <1>7 DEF IsNewestTo
  <1>9. IsNewestTo(NewestEdgeTo(c), c)
    BY <1>8 DEF IsNewestTo, NewestEdgeTo
  <1>10. ASSUME NEW f, IsNewestTo(f, c), NEW g, IsNewestTo(g, c) PROVE f.old = g.old
    <2>1. f.old.ts <= g.old.ts /\ g.old.ts <= f.old.ts
      BY <1>1, <1>10 DEF IsNewestTo
    <2> QED
      BY <1>1, <1>10, <2>1 DEF IsNewestTo, StampsDiffer
  <1> QED
    BY <1>9, <1>10

\* One step of the walk back along a lineage, and the edges found by it.
Before(d) == IF EdgesTo(d) # {} THEN NewestEdgeTo(d).old ELSE d
Further(c, found) ==
    found \cup {NewestEdgeTo(x) : x \in {y \in {c} \cup {e.old : e \in found} : EdgesTo(y) # {}}}

\* The walk back, as the iteration of such steps.
LEMMA WalkBack ==
    ASSUME TypeOK, StoreInv, StampsDiffer, Finite, NEW c \in claims
    PROVE  \E w \in [Nat -> SUBSET edges] :
              /\ \A n \in Nat \ {0} : w[n] = Further(c, w[n - 1])
              /\ Chain(c) = w[Cardinality(claims)]
  <1> DEFINE IsWalk(w) == w = [n \in Nat |->
                              IF n = 0 THEN {}
                              ELSE w[n - 1] \cup {NewestEdgeTo(x) : x \in
                                      {y \in {c} \cup {e.old : e \in w[n - 1]} : EdgesTo(y) # {}}}]
             walk == CHOOSE w : IsWalk(w)
             g == [P \in SUBSET edges |-> Further(c, P)]
  <1>1. Chain(c) = walk[Cardinality(claims)]
    BY DEF Chain
  <1>2. ASSUME NEW P \in SUBSET edges PROVE Further(c, P) \in SUBSET edges
    <2>1. \A y : EdgesTo(y) # {} => NewestEdgeTo(y) \in edges
      BY NewestEdgeIs DEF IsNewestTo, EdgesTo
    <2> QED
      BY <2>1 DEF Further
  <1>3. g \in [SUBSET edges -> SUBSET edges]
    BY <1>2
  <1> HIDE DEF g
  <1>4. PICK w \in [Nat -> SUBSET edges] : w[0] = {} /\ \A n \in Nat \ {0} : w[n] = g[w[n - 1]]
    <2> DEFINE S == SUBSET edges
    <2>1. {} \in S /\ g \in [S -> S]
      BY <1>3
    <2> HIDE DEF S
    <2>2. \E w \in [Nat -> S] : w[0] = {} /\ \A n \in Nat \ {0} : w[n] = g[w[n - 1]]
      BY <2>1, Iterates
    <2> QED
      BY <2>2 DEF S
  <1>5. \A n \in Nat \ {0} : w[n] = Further(c, w[n - 1])
    <2> TAKE n \in Nat \ {0}
    <2>1. n - 1 \in Nat /\ w[n - 1] \in SUBSET edges
      OBVIOUS
    <2> QED
      BY <1>4, <2>1 DEF g
  <1>6. IsWalk(w)
    BY <1>4, <1>5 DEF Further
  <1>7. IsWalk(walk)
    BY <1>6
  <1> HIDE DEF walk
  <1>8. DOMAIN walk = Nat /\ walk[0] = {} /\ \A n \in Nat \ {0} : walk[n] = Further(c, walk[n - 1])
    BY <1>7 DEF Further
  <1>9. \A n \in Nat : walk[n] = w[n]
    <2> DEFINE Bad == {n \in Nat : walk[n] # w[n]}
    <2> SUFFICES ASSUME Bad # {} PROVE FALSE
      OBVIOUS
    <2>1. PICK n \in Bad : \A m \in Bad : n <= m
      BY Smallest
    <2>2. n # 0
      BY <1>4, <1>8, <2>1
    <2>3. n \in Nat \ {0} /\ n - 1 \in Nat /\ n - 1 \notin Bad
      BY <2>1, <2>2
    <2> QED
      BY <1>5, <1>8, <2>1, <2>3
  <1>10. Cardinality(claims) \in Nat
    BY FS_CardinalityType DEF Finite
  <1> QED
    BY <1>1, <1>4, <1>5, <1>9, <1>10

\* The walk back from where a tidy slot's traces start meets every claim of the
\* slot that replaced others: the newest one it missed would be what the lineage
\* of a newer one leads to.
LEMMA MeetsAll ==
    ASSUME TypeOK, StoreInv, LineageInv, NEW head, Tidy(head), Leads(head),
           NEW f \in [Nat -> claims], f[0] = head, \A n \in Nat \ {0} : f[n] = Before(f[n - 1]),
           NEW y \in SlotOf(head), EdgesTo(y) # {}
    PROVE  \E k \in Nat : f[k] = y
  <1> DEFINE Missed == {x \in SlotOf(head) : EdgesTo(x) # {} /\ \A k \in Nat : f[k] # x}
  <1> SUFFICES ASSUME Missed # {} PROVE FALSE
    OBVIOUS
  <1>1. Missed \subseteq claims
    BY DEF SlotOf
  <1>2. PICK x \in Missed : \A z \in Missed : z.ts <= x.ts
    BY <1>1, SomeNewest DEF Newest
  <1>3. PICK e \in edges : e.new = x
    BY <1>2 DEF EdgesTo
  <1>4. /\ head \in claims /\ head \in SlotOf(head) /\ x \in claims /\ SlotOf(x) = SlotOf(head)
        /\ \A z \in claims : z.ts \in Nat
    BY <1>2 DEF TypeOK, Claim, Leads, Tidy, SlotOf, SameSlot
  <1>5. Tidy(x)
    BY <1>2, <1>4 DEF Tidy, SlotOf, SameSlot
  <1>6. CASE Leads(x)
    <2>1. x.ts <= head.ts /\ head.ts <= x.ts
      BY <1>2, <1>4, <1>6 DEF Leads
    <2>2. x = head
      BY <1>4, <2>1 DEF LineageInv, StampsDiffer
    <2> QED
      BY <1>2, <2>2
  <1>7. CASE ~Leads(x)
    <2>1. PICK h \in edges : h.old = x /\ IsNewestTo(h, h.new)
      BY <1>3, <1>5, <1>7 DEF LineageInv
    <2>2. h.new \in claims /\ x.ts < h.new.ts /\ EdgesTo(h.new) # {}
      BY <2>1 DEF StoreInv, EdgesForward, EdgesTo
    <2>3. h.new \in SlotOf(head)
      BY <1>2, <2>1, <2>2 DEF LineageInv, SlotOf, SameSlot
    <2>4. h.new \notin Missed
      BY <1>2, <1>4, <2>2
    <2>5. PICK k \in Nat : f[k] = h.new
      BY <2>2, <2>3, <2>4
    <2>6. f[k + 1] = x
      <3>1. k + 1 \in Nat \ {0} /\ (k + 1) - 1 = k
        OBVIOUS
      <3>2. f[k + 1] = Before(h.new)
        BY <2>5, <3>1
      <3> QED
        BY <2>1, <2>2, <3>2, NewestEdgeIs DEF Before, LineageInv
    <2> QED
      BY <1>2, <2>6
  <1> QED
    BY <1>6, <1>7

\* Such a walk passes ever older claims, so it meets them within as many steps as
\* there are claims.
LEMMA MeetsInTime ==
    ASSUME TypeOK, StoreInv, LineageInv, Finite,
           NEW f \in [Nat -> claims], \A n \in Nat \ {0} : f[n] = Before(f[n - 1]),
           NEW k \in Nat, EdgesTo(f[k]) # {}
    PROVE  k < Cardinality(claims) /\ \A i \in 0 .. k : EdgesTo(f[i]) # {}
  <1>1. \A x \in claims : x.ts \in Nat
    BY DEF TypeOK, Claim
  <1>2. ASSUME NEW n \in Nat \ {0}
        PROVE  /\ n - 1 \in Nat /\ f[n - 1] \in claims /\ f[n] \in claims
               /\ EdgesTo(f[n - 1]) = {} => f[n] = f[n - 1]
               /\ EdgesTo(f[n - 1]) # {} => f[n].ts < f[n - 1].ts
    <2>1. n - 1 \in Nat /\ f[n] = Before(f[n - 1]) /\ f[n - 1] \in claims /\ f[n] \in claims
      OBVIOUS
    <2>2. ASSUME EdgesTo(f[n - 1]) # {} PROVE f[n].ts < f[n - 1].ts
      <3>1. IsNewestTo(NewestEdgeTo(f[n - 1]), f[n - 1])
        BY <2>2, NewestEdgeIs DEF LineageInv
      <3>2. f[n] = NewestEdgeTo(f[n - 1]).old
        BY <2>1, <2>2 DEF Before
      <3> QED
        BY <3>1, <3>2 DEF IsNewestTo, EdgesTo, StoreInv, EdgesForward
    <2> QED
      BY <2>1, <2>2 DEF Before
  <1> DEFINE Good(n) == EdgesTo(f[n]) # {} =>
                           \A j \in 0 .. n : /\ EdgesTo(f[j]) # {}
                                             /\ \A i \in 0 .. j - 1 : f[j].ts < f[i].ts
             Bad == {n \in Nat : ~Good(n)}
  <1>3. \A n \in Nat : Good(n)
    <2> SUFFICES ASSUME Bad # {} PROVE FALSE
      OBVIOUS
    <2>1. PICK n \in Bad : \A m \in Bad : n <= m
      BY Smallest
    <2>2. n # 0
      BY <2>1
    <2>3. n \in Nat \ {0} /\ n - 1 \in Nat /\ Good(n - 1)
      BY <2>1, <2>2
    <2>4. EdgesTo(f[n]) # {} /\ EdgesTo(f[n - 1]) # {} /\ f[n].ts < f[n - 1].ts
      BY <1>2, <2>1, <2>3
    <2>5. ASSUME NEW j \in 0 .. n, NEW i \in 0 .. j - 1 PROVE f[j].ts < f[i].ts
      <3>1. CASE j \in 0 .. n - 1
        BY <2>3, <2>4, <3>1
      <3>2. CASE j = n /\ i = n - 1
        BY <2>4, <3>2
      <3>3. CASE j = n /\ i \in 0 .. n - 2
        <4>1. n - 1 \in 0 .. n - 1 /\ i \in 0 .. (n - 1) - 1 /\ i \in Nat
          BY <2>3, <3>3
        <4>2. f[n - 1].ts < f[i].ts
          BY <2>3, <2>4, <4>1
        <4>3. f[i] \in claims /\ f[n - 1] \in claims /\ f[n] \in claims
          BY <2>3, <4>1
        <4> QED
          BY <1>1, <2>4, <3>3, <4>2, <4>3
      <3> QED
        BY <2>3, <3>1, <3>2, <3>3
    <2>6. ASSUME NEW j \in 0 .. n PROVE EdgesTo(f[j]) # {}
      <3>1. j = n \/ j \in 0 .. n - 1
        BY <2>3
      <3> QED
        BY <2>3, <2>4, <3>1
    <2> QED
      BY <2>1, <2>5, <2>6
  <1>4. Cardinality(claims) \in Nat /\ IsFiniteSet(claims)
    BY FS_CardinalityType DEF Finite
  <1>5. ASSUME ~(k < Cardinality(claims)) PROVE FALSE
    <2> DEFINE h == [i \in 0 .. k |-> f[i]]
    <2>1. \A i \in 0 .. k : f[i] \in claims /\ f[i].ts \in Nat
      BY <1>1
    <2>2. ASSUME NEW i \in 0 .. k, NEW j \in 0 .. k, i # j PROVE f[i] # f[j]
      <3>1. CASE i < j
        BY <1>3, <2>1, <3>1
      <3>2. CASE j < i
        BY <1>3, <2>1, <3>2
      <3> QED
        BY <2>2, <3>1, <3>2
    <2>3. h \in [0 .. k -> claims]
      BY <2>1
    <2>4. IsFiniteSet(0 .. k) /\ Cardinality(0 .. k) = k + 1
      BY FS_Interval
    <2>5. Cardinality(claims) < Cardinality(0 .. k)
      BY <1>4, <1>5, <2>4
    <2> HIDE DEF h
    <2>6. PICK i \in 0 .. k, j \in 0 .. k : i # j /\ h[i] = h[j]
      BY <1>4, <2>3, <2>4, <2>5, FS_PigeonHole
    <2> QED
      BY <2>2, <2>6 DEF h
  <1> QED
    BY <1>3, <1>5

\* So the trace of a tidy slot holds the newest edge into every claim of the slot
\* that replaced others.
LEMMA TraceIsWhole ==
    ASSUME TypeOK, StoreInv, LineageInv, Finite, NEW head, Tidy(head), Leads(head),
           NEW y \in SlotOf(head), EdgesTo(y) # {}
    PROVE  NewestEdgeTo(y) \in Chain(head)
  <1> DEFINE N == Cardinality(claims)
             g == [d \in claims |-> Before(d)]
  <1>1. head \in claims
    BY DEF Leads, TypeOK
  <1>2. \A d \in claims : Before(d) \in claims
    BY NewestEdgeIs DEF LineageInv, Before, IsNewestTo, EdgesTo, StoreInv, EdgesForward
  <1>3. g \in [claims -> claims]
    BY <1>2
  <1> HIDE DEF g
  <1>4. PICK f \in [Nat -> claims] : f[0] = head /\ \A n \in Nat \ {0} : f[n] = g[f[n - 1]]
    BY <1>1, <1>3, Iterates
  <1>5. \A n \in Nat \ {0} : f[n] = Before(f[n - 1])
    <2> TAKE n \in Nat \ {0}
    <2>1. n - 1 \in Nat /\ f[n - 1] \in claims
      OBVIOUS
    <2> QED
      BY <1>4, <2>1 DEF g
  <1>6. PICK k \in Nat : f[k] = y
    BY <1>4, <1>5, MeetsAll
  <1>7. k < N /\ N \in Nat /\ \A i \in 0 .. k : EdgesTo(f[i]) # {}
    BY <1>5, <1>6, MeetsInTime, FS_CardinalityType DEF Finite
  <1>8. PICK w \in [Nat -> SUBSET edges] :
            /\ \A n \in Nat \ {0} : w[n] = Further(head, w[n - 1])
            /\ Chain(head) = w[N]
    BY <1>1, WalkBack DEF LineageInv
  <1> DEFINE Good(n) == \A i \in 0 .. k : i < n => NewestEdgeTo(f[i]) \in w[n]
             Bad == {n \in Nat : ~Good(n)}
  <1>9. \A n \in Nat : Good(n)
    <2> SUFFICES ASSUME Bad # {} PROVE FALSE
      OBVIOUS
    <2>1. PICK n \in Bad : \A m \in Bad : n <= m
      BY Smallest
    <2>2. PICK i \in 0 .. k : i < n /\ NewestEdgeTo(f[i]) \notin w[n]
      BY <2>1
    <2>3. n \in Nat \ {0} /\ n - 1 \in Nat /\ Good(n - 1)
      BY <2>1, <2>2
    <2>4. w[n] = Further(head, w[n - 1])
      BY <1>8, <2>3
    <2>5. EdgesTo(f[i]) # {}
      BY <1>7
    <2>6. CASE i = 0
      BY <1>4, <2>2, <2>4, <2>5, <2>6 DEF Further
    <2>7. CASE i # 0
      <3>1. i \in Nat \ {0} /\ i - 1 \in 0 .. k /\ i - 1 < n - 1
        BY <2>2, <2>3, <2>7
      <3>2. NewestEdgeTo(f[i - 1]) \in w[n - 1]
        BY <2>3, <3>1
      <3>3. f[i] = NewestEdgeTo(f[i - 1]).old
        BY <1>5, <1>7, <3>1 DEF Before
      <3> QED
        BY <2>2, <2>4, <2>5, <3>2, <3>3 DEF Further
    <2> QED
      BY <2>6, <2>7
  <1> QED
    BY <1>6, <1>7, <1>8, <1>9

\* A claim's trust is one of the weights, the highest for what a user said.
LEMMA TrustIs ==
    ASSUME NEW c \in Claim
    PROVE  Trust(c) \in {35, 50, 70, 100} /\ (Trust(c) = 100 <=> c.turn.src = UserSays)
  <1>1. c.turn.src \in [speaker : Speakers, type : SourceTypes]
    BY RulesAssumption DEF Claim, Turn, UserSays, Speakers, SourceTypes
  <1>2. c.turn.src.type \in SourceTypes /\ c.turn.src.speaker \in Speakers
    BY <1>1
  <1>3. c.turn.src = [speaker |-> c.turn.src.speaker, type |-> c.turn.src.type]
    BY <1>1
  <1> QED
    BY <1>2, <1>3 DEF Trust, TrustOf, SourceTypes, Speakers, UserSays

\* The head of a slot is the earliest copy, as the reports tell copies, of its most
\* trusted, then newest value.
LEMMA SlotHeadIs ==
    ASSUME TypeOK, StoreInv, NEW rows, rows # {}, rows \subseteq live,
           NEW best, best = MostTrusted(rows), NEW head, head = SlotHead(rows)
    PROVE  /\ best \in rows
           /\ \A d \in rows : Trust(d) < Trust(best) \/ (Trust(d) = Trust(best) /\ d.ts <= best.ts)
           /\ head \in rows /\ head.turn.ns = best.turn.ns
           /\ SameValue(head, best) /\ ReadsAlike(head, best)
           /\ \A d \in rows : d.turn.ns = best.turn.ns /\ ReadsAlike(d, best) => head.ts <= d.ts
  <1> DEFINE Lacks == {100 - Trust(c) : c \in rows}
             copies == {c \in rows : c.turn.ns = best.turn.ns /\ ReadsAlike(c, best)}
  <1>1. rows \subseteq claims
    BY DEF TypeOK
  <1>2. \A c \in rows : Trust(c) \in {35, 50, 70, 100} /\ c.ts \in Nat
    BY <1>1, TrustIs DEF TypeOK, Claim
  <1>3. Lacks \subseteq Nat /\ Lacks # {}
    <2>1. \A c \in rows : 100 - Trust(c) \in Nat
      BY <1>2
    <2> QED
      BY <2>1
  <1>4. PICK a \in Lacks : \A b \in Lacks : a <= b
    BY <1>3, Smallest
  <1>5. PICK m \in rows : a = 100 - Trust(m)
    BY <1>4
  <1>6. ASSUME NEW c \in rows PROVE Trust(c) <= Trust(m)
    <2>1. 100 - Trust(c) \in Lacks
      OBVIOUS
    <2>2. 100 - Trust(m) <= 100 - Trust(c)
      BY <1>4, <1>5, <2>1
    <2> QED
      BY <1>2, <2>2
  <1> DEFINE Top == {c \in rows : Trust(c) = Trust(m)}
  <1>7. PICK n \in Top : \A d \in Top : d.ts <= n.ts
    <2>1. Top \subseteq claims /\ Top # {}
      BY <1>1
    <2> QED
      BY <2>1, SomeNewest DEF Newest
  <1>8. \A d \in rows : Trust(d) < Trust(n) \/ (Trust(d) = Trust(n) /\ d.ts <= n.ts)
    <2> TAKE d \in rows
    <2>1. Trust(d) <= Trust(m) /\ Trust(n) = Trust(m)
      BY <1>6, <1>7
    <2> QED
      BY <1>2, <1>7, <2>1
  <1> HIDE DEF Top, Lacks
  <1>9. /\ best \in rows
        /\ \A d \in rows : Trust(d) < Trust(best) \/ (Trust(d) = Trust(best) /\ d.ts <= best.ts)
    BY <1>7, <1>8 DEF MostTrusted, Top
  <1>10. head \in copies /\ \A d \in copies : head.ts <= d.ts
    <2>1. best \in copies /\ copies \subseteq claims
      BY <1>1, <1>9 DEF ReadsAlike
    <2>2. \E c \in copies : \A d \in copies : c.ts <= d.ts
      BY <2>1, SomeEarliest
    <2>3. head = Earliest(copies)
      BY DEF SlotHead
    <2> HIDE DEF copies
    <2> QED
      BY <2>2, <2>3 DEF Earliest
  <1>11. SameValue(head, best)
    BY <1>1, <1>9, <1>10, AlikeIsSame DEF TypeOK
  <1> QED
    BY <1>9, <1>10, <1>11

\* In a slot with one current value, told in one way, what the trace of the slot
\* starts from is the earliest current claim.
LEMMA HeadLeads ==
    ASSUME TypeOK, StoreInv, OneCurrentValue, NEW subj, NEW pred \in SingleValued, NEW sess,
           LiveSlotRows(subj, pred, sess) # {},
           NEW head, head = SlotHead(LiveSlotRows(subj, pred, sess)),
           head.val \notin Historical, Uncontested(SlotOf(head)),
           \A c \in LiveSlotRows(subj, pred, sess) : SameValue(head, c) => ReadsAlike(head, c)
    PROVE  Tidy(head) /\ Leads(head)
  <1> DEFINE rows == LiveSlotRows(subj, pred, sess)
  <1>1. /\ rows \subseteq live /\ live \subseteq claims /\ \A c \in rows : c.subj = subj /\ c.pred = pred
        /\ \A c \in rows, d \in live : SameSlot(c, d) => d \in rows
    BY DEF LiveSlotRows, SameSlot, TypeOK
  <1>2. rows # {} /\ head = SlotHead(rows) /\ \A c \in rows : SameValue(head, c) => ReadsAlike(head, c)
    OBVIOUS
  <1> HIDE DEF rows
  <1>3. PICK best : /\ head \in rows /\ head.turn.ns = best.turn.ns /\ ReadsAlike(head, best)
                    /\ \A d \in rows : d.turn.ns = best.turn.ns /\ ReadsAlike(d, best) => head.ts <= d.ts
    BY <1>1, <1>2, SlotHeadIs
  <1>4. head \in live /\ head.pred = pred
    BY <1>1, <1>3
  <1>5. Tidy(head)
    BY <1>4 DEF Tidy
  <1>6. ASSUME NEW d \in live \cap SlotOf(head) PROVE head.ts <= d.ts
    <2>1. SameSlot(head, d) /\ SameSlot(d, head) /\ d \in rows
      BY <1>1, <1>3 DEF SlotOf, SameSlot
    <2>2. head \in SlotOf(d)
      BY <1>1, <1>4, <2>1 DEF SlotOf
    <2>3. SameValue(head, d)
      BY <1>4, <2>2 DEF OneCurrentValue
    <2>4. ReadsAlike(d, best)
      BY <1>2, <1>3, <2>1, <2>3 DEF ReadsAlike
    <2> QED
      BY <1>3, <2>1, <2>4 DEF SameSlot
  <1> QED
    BY <1>4, <1>5, <1>6 DEF Leads

\* Tracing a single-valued slot in which nothing was refused and no restatement
\* differs from the head in closing punctuation shows its whole past, however long:
\* a superseded claim is on the head's lineage, or was replaced together with a copy
\* that is.
THEOREM LineageCompleteHolds ==
    ASSUME ~Semantic, NormKeepsTime
    PROVE  Spec /\ [][StoresAlone]_vars => []LineageComplete
  <1>1. [Next]_vars /\ [StoresAlone]_vars => [Uncorrected]_vars
    BY DEF StoresAlone, Uncorrected, UserAction
  <1>2. TypeOK /\ StoreInv /\ Finite /\ OneCurrentValue /\ LineageInv => LineageComplete
    <2> SUFFICES ASSUME TypeOK, StoreInv, Finite, OneCurrentValue, LineageInv,
                        NEW subj \in Subjects, NEW pred \in SingleValued, NEW sess \in Sessions,
                        NEW head, head = SlotHead(LiveSlotRows(subj, pred, sess)),
                        LiveSlotRows(subj, pred, sess) # {},
                        head.val \notin Historical, Uncontested(SlotOf(head)),
                        \A c \in LiveSlotRows(subj, pred, sess) : SameValue(head, c) => ReadsAlike(head, c),
                        NEW d \in superseded, SameSlot(head, d)
                 PROVE  \E e \in Chain(head) :
                           e.old = d \/ (SameValue(e.old, d) /\ Successor(d) = e.new)
      BY DEF LineageComplete
    <2>1. Tidy(head) /\ Leads(head)
      BY HeadLeads
    <2>2. PICK e \in EdgesFrom(d) : TRUE
      BY SuccessorIsNewer
    <2>3. e \in edges /\ e.old = d /\ e.new \in claims /\ d \in claims /\ EdgesTo(e.new) # {}
      BY <2>2 DEF EdgesFrom, EdgesTo, StoreInv, EdgesForward
    <2>4. d \in SlotOf(head) /\ e.new \in SlotOf(head)
      BY <2>3 DEF LineageInv, SlotOf, SameSlot
    <2>5. Tidy(d)
      <3>1. SlotOf(d) = SlotOf(head)
        BY <2>4 DEF SlotOf, SameSlot
      <3> QED
        BY <2>1, <2>4, <3>1 DEF Tidy, SlotOf, SameSlot
    <2>6. EdgesFrom(d) = {e}
      BY <2>3, <2>5 DEF EdgesFrom, LineageInv
    <2>7. Successor(d) = e.new
      BY <2>2, <2>3, <2>6 DEF Successor, TypeOK, Edge
    <2>8. PICK f \in edges : IsNewestTo(f, e.new) /\ SameValue(f.old, d)
      BY <2>3, <2>5 DEF LineageInv
    <2>9. NewestEdgeTo(e.new) \in Chain(head)
      BY <2>1, <2>3, <2>4, TraceIsWhole
    <2>10. NewestEdgeTo(e.new).old = f.old /\ NewestEdgeTo(e.new).new = e.new
      BY <2>3, <2>8, NewestEdgeIs DEF LineageInv, IsNewestTo, EdgesTo
    <2> QED
      BY <2>7, <2>8, <2>9, <2>10
  <1> QED
    BY <1>1, <1>2, TypeCorrect, StoreInvHolds, ClaimsAreFinite, OneCurrentValueHolds,
       LineageInvHolds, PTL DEF Spec

-----------------------------------------------------------------------------
(* Reports. *)

\* A set is no larger than one it can be told apart in ...
LEMMA NoLarger ==
    ASSUME NEW S, NEW T, IsFiniteSet(T), NEW f \in [S -> T],
           \A x, y \in S : f[x] = f[y] => x = y
    PROVE  IsFiniteSet(S) /\ Cardinality(S) \in Nat /\ Cardinality(S) <= Cardinality(T)
  <1>1. f \in Injection(S, T)
    BY DEF Injection, IsInjective
  <1> QED
    BY <1>1, FS_Injection, FS_CardinalityType

\* ... and no smaller than one whose every element it has something for.
LEMMA NoSmaller ==
    ASSUME NEW S, NEW T, IsFiniteSet(S), NEW f \in [S -> T],
           \A y \in T : \E x \in S : f[x] = y
    PROVE  IsFiniteSet(T) /\ Cardinality(T) \in Nat /\ Cardinality(T) <= Cardinality(S)
  <1>1. f \in Surjection(S, T)
    BY DEF Surjection
  <1> QED
    BY <1>1, FS_Surjection, FS_CardinalityType

\* Turns are numbered in the order they are stored.
LEMMA NumberedStep ==
    ASSUME TypeOK, Numbered, [Next]_vars
    PROVE  Numbered' /\ nTurns <= nTurns'
  <1> DEFINE Known == Extracting \cup {c.turn : c \in claims}
  <1>1. nTurns \in Nat /\ \A t \in Known : t.no \in Nat /\ t.no <= nTurns
    <2>1. Extracting \subseteq Turn
      BY DEF TypeOK, Extracting
    <2>2. {c.turn : c \in claims} \subseteq Turn
      BY DEF TypeOK, Claim
    <2>3. Known \subseteq Turn
      BY <2>1, <2>2
    <2>4. \A t \in Known : t.no <= nTurns
      BY DEF Numbered
    <2> HIDE DEF Known
    <2> QED
      BY <2>3, <2>4 DEF Turn, TypeOK
  <1>2. ASSUME NEW t, t.no \in Nat, t.no <= nTurns', nTurns <= nTurns', nTurns' \in Nat,
               Extracting' \cup {c.turn : c \in claims'} \subseteq Known \cup {t}
        PROVE  Numbered' /\ nTurns <= nTurns'
    <2>1. ASSUME NEW u \in Known PROVE u.no <= nTurns'
      BY <1>1, <1>2, <2>1
    <2> HIDE DEF Known
    <2> QED
      BY <1>2, <2>1 DEF Numbered
  <1>3. CASE Store
    <2>1. PICK ns \in Namespaces, sess \in Sessions, src \in Sources :
            StoreInline(ns, sess, src) \/ StoreDeferred(ns, sess, src)
      BY <1>3 DEF Store
    <2> DEFINE t == TurnFrom(ns, sess, src)
    <2>2. t.no = nTurns + 1 /\ nTurns' = nTurns + 1 /\ claims' = claims
      BY <2>1 DEF TurnFrom, StoreInline, StoreDeferred, store
    <2>3. /\ inline' = inline \/ inline' = <<t>>
          /\ queue' = queue \/ queue' = Append(queue, t)
      BY <2>1 DEF StoreInline, StoreDeferred
    <2>4. \A i \in DOMAIN Append(queue, t) : Append(queue, t)[i] \in {queue[j] : j \in DOMAIN queue} \cup {t}
      BY DEF TypeOK
    <2>5. \A i \in DOMAIN <<t>> : <<t>>[i] = t
      OBVIOUS
    <2> HIDE DEF t
    <2>6. Extracting' \subseteq Extracting \cup {t}
      BY <2>3, <2>4, <2>5 DEF Extracting
    <2> QED
      BY <1>1, <1>2, <2>2, <2>6
  <1>4. ASSUME UNCHANGED <<nTurns, claims>>, Extracting' \subseteq Extracting
        PROVE  Numbered' /\ nTurns <= nTurns'
    BY <1>1, <1>4 DEF Numbered
  <1>5. CASE FinishInline \/ FinishDeferred \/ UNCHANGED vars
    <2>1. /\ UNCHANGED <<nTurns, claims>>
          /\ inline' = inline \/ inline' = <<>>
          /\ queue' = queue \/ (queue # <<>> /\ queue' = Tail(queue))
      BY <1>5 DEF FinishInline, FinishDeferred, store, vars
    <2>2. queue # <<>> => \A i \in DOMAIN Tail(queue) : Tail(queue)[i] \in {queue[j] : j \in DOMAIN queue}
      BY DEF TypeOK
    <2>3. Extracting' \subseteq Extracting
      BY <2>1, <2>2 DEF Extracting
    <2> QED
      BY <1>4, <2>1, <2>3
  <1>6. CASE ExtractNext
    <2>1. PICK s \in {inline, queue} \ {<<>>},
               subj \in Subjects, pred \in Preds \cup {NL}, val \in Vals :
            Extract(NewClaim(Head(s), subj, pred, val))
      BY <1>6 DEF ExtractNext
    <2>2. Head(s) \in Extracting
      BY DEF TypeOK, Extracting
    <2>3. /\ claims' = claims \cup {NewClaim(Head(s), subj, pred, val)}
          /\ UNCHANGED <<nTurns, inline, queue>>
      BY <2>1 DEF Extract, Add, Override, Refuse, Contradict, SemanticReplace, Insert
    <2>4. NewClaim(Head(s), subj, pred, val).turn = Head(s)
      BY DEF NewClaim
    <2>5. Extracting' \cup {c.turn : c \in claims'} \subseteq Known \cup {Head(s)}
      BY <2>3, <2>4 DEF Extracting
    <2> QED
      BY <1>1, <1>2, <2>2, <2>3, <2>5
  <1>7. CASE UserAction
    <2>1. PICK c \in claims : Dismiss(c) \/ \E val \in Vals : Correct(c, val)
      BY <1>7 DEF UserAction
    <2>2. CASE Dismiss(c)
      BY <1>4, <2>2 DEF Dismiss, Extracting
    <2>3. CASE \E val \in Vals : Correct(c, val)
      <3>1. PICK val \in Vals : Correct(c, val)
        BY <2>3
      <3> DEFINE target == CurrentHead(c)
                 t == TurnFrom(target.turn.ns, target.turn.sess, UserSays)
                 new == NewClaim(t, target.subj, target.pred, val)
      <3>2. nTurns' = nTurns + 1 /\ claims' = claims \cup {new} /\ UNCHANGED <<inline, queue>>
        BY <3>1 DEF Correct, Insert
      <3>3. new.turn = t /\ t.no = nTurns + 1
        BY DEF NewClaim, TurnFrom
      <3> HIDE DEF t, new
      <3>4. Extracting' \cup {d.turn : d \in claims'} \subseteq Known \cup {t}
        BY <3>2, <3>3 DEF Extracting
      <3> QED
        BY <1>1, <1>2, <3>2, <3>3, <3>4
    <2> QED
      BY <2>1, <2>2, <2>3
  <1> QED
    BY <1>3, <1>5, <1>6, <1>7 DEF Next

\* What the reports count on: an edge replaces a claim of another turn, once, and
\* but for Pass 2 one of its slot; the audit has what the guard refused.
OnRecord ==
    /\ IsFiniteSet(edges)
    /\ StampsDiffer
    /\ \A e \in edges : Replaces(e) => e.old.turn # e.new.turn
    /\ \A e \in edges : Replaces(e) /\ e.type # "semantic_replace" /\ e.old.pred # NL =>
                            SameSlot(e.old, e.new)
    /\ \A e, f \in edges : e.old = f.old /\ (e.new = f.new \/ (Replaces(e) /\ Replaces(f))) => e = f
    /\ drift = {<<e.old, e.new>> : e \in {f \in edges : Blocked(f.new, f.old)}}

\* Settling a claim keeps it so, as the claims it is linked to were still current.
LEMMA SettleKeepsRecord ==
    ASSUME TypeOK, StoreInv, Finite, OnRecord,
           NEW new, NEW olds, NEW type, Settles(new, olds, type), Records(new, olds, type)
    PROVE  OnRecord'
  <1> DEFINE Link1(o) == [old |-> o, new |-> new, type |-> type, ts |-> clock + 2]
             added == {Link1(o) : o \in olds}
  <1>1. /\ claims' = claims \cup {new} /\ edges' = edges \cup added
        /\ new.ts = clock + 1 /\ olds \subseteq live
        /\ \A o \in olds : o.turn # new.turn
        /\ type # "semantic_replace" => \A o \in olds : o.pred # NL => SameSlot(o, new)
        /\ drift' = drift \cup {<<o, new>> : o \in {x \in olds : Blocked(new, x)}}
    BY DEF Settles, Records, Insert, Link
  <1>2. /\ live \subseteq claims /\ clock \in Nat
        /\ \A c \in claims : c.ts \in Nat /\ c.ts <= clock
    BY DEF TypeOK, Claim, StoreInv, Stamped
  <1>3. \A e \in added : e.old \in olds /\ e.new = new /\ e.type = type /\ e = Link1(e.old)
    OBVIOUS
  <1>4. new \notin claims
    BY <1>1, <1>2
  <1>5. IsFiniteSet(edges')
    <2>1. IsFiniteSet(olds)
      BY <1>1, <1>2, FS_Subset DEF Finite
    <2> DEFINE f == [o \in olds |-> Link1(o)]
    <2>2. f \in [olds -> added] /\ \A e \in added : \E o \in olds : f[o] = e
      OBVIOUS
    <2> HIDE DEF f, added
    <2>3. IsFiniteSet(added)
      BY <2>1, <2>2, NoSmaller
    <2> QED
      BY <1>1, <2>3, FS_Union DEF OnRecord
  <1>6. \A o \in olds : Link1(o) \in added /\ Link1(o).old = o /\ Link1(o).new = new
    OBVIOUS
  <1> HIDE DEF added, Link1
  <1>7. StampsDiffer'
    BY <1>1, <1>2 DEF OnRecord, StampsDiffer
  <1>8. \A e \in edges : e.old \in claims /\ e.new \in claims
    BY DEF StoreInv, EdgesForward
  <1>9. \A e \in edges' : Replaces(e) => e.old.turn # e.new.turn
    BY <1>1, <1>3 DEF OnRecord
  <1>10. \A e \in edges' : Replaces(e) /\ e.type # "semantic_replace" /\ e.old.pred # NL =>
                              SameSlot(e.old, e.new)
    BY <1>1, <1>3 DEF OnRecord
  <1>11. ASSUME NEW e \in edges', NEW f \in edges', e.old = f.old,
                e.new = f.new \/ (Replaces(e) /\ Replaces(f))
         PROVE  e = f
    <2>1. \A g \in edges : Replaces(g) => g.old \notin live
      BY DEF StoreInv, RetiredForCause, superseded, EdgesForward
    <2>2. CASE e \in edges /\ f \in edges
      BY <1>11, <2>2 DEF OnRecord
    <2>3. CASE e \in added /\ f \in added
      BY <1>3, <1>11, <2>3
    <2>4. CASE (e \in edges /\ f \in added) \/ (e \in added /\ f \in edges)
      BY <1>1, <1>3, <1>4, <1>8, <1>11, <2>1, <2>4
    <2> QED
      BY <1>1, <2>2, <2>3, <2>4
  <1>12. drift' = {<<e.old, e.new>> : e \in {f \in edges' : Blocked(f.new, f.old)}}
    <2> DEFINE Of(E) == {<<e.old, e.new>> : e \in {f \in E : Blocked(f.new, f.old)}}
    <2>1. Of(added) = {<<o, new>> : o \in {x \in olds : Blocked(new, x)}}
      BY <1>3, <1>6
    <2>2. drift = Of(edges)
      BY DEF OnRecord
    <2>3. Of(edges \cup added) = Of(edges) \cup Of(added)
      OBVIOUS
    <2> HIDE DEF Of
    <2>4. drift' = Of(edges')
      BY <1>1, <2>1, <2>2, <2>3
    <2> QED
      BY <2>4 DEF Of
  <1> QED
    BY <1>5, <1>7, <1>9, <1>10, <1>11, <1>12 DEF OnRecord, Replaces

\* All of it stays on record.
LEMMA OnRecordHolds == Spec => [](Numbered /\ OnRecord)
  <1>1. Init => Numbered /\ OnRecord
    BY FS_EmptySet DEF Init, Numbered, Extracting, OnRecord, StampsDiffer
  <1>2. TypeOK /\ StoreInv /\ Finite /\ Numbered /\ OnRecord /\ [Next]_vars => (Numbered /\ OnRecord)'
    <2> SUFFICES ASSUME TypeOK, StoreInv, Finite, Numbered, OnRecord, [Next]_vars PROVE OnRecord'
      BY NumberedStep
    <2>1. CASE UNCHANGED core /\ UNCHANGED drift
      BY <2>1 DEF core, OnRecord, StampsDiffer
    <2>2. ASSUME NEW c \in claims, Dismisses(c), drift' = drift PROVE OnRecord'
      BY <2>2 DEF Dismisses, OnRecord, StampsDiffer
    <2> QED
      BY <2>1, <2>2, StepsRecord, SettleKeepsRecord
  <1> QED
    BY <1>1, <1>2, TypeCorrect, StoreInvHolds, ClaimsAreFinite, PTL DEF Spec

\* A lineage is made of recorded edges.
LEMMA ChainIsRecorded ==
    ASSUME TypeOK, StoreInv, StampsDiffer, Finite, NEW c \in claims
    PROVE  Chain(c) \subseteq edges
  <1>1. PICK w \in [Nat -> SUBSET edges] : Chain(c) = w[Cardinality(claims)]
    BY WalkBack
  <1>2. Cardinality(claims) \in Nat
    BY FS_CardinalityType DEF Finite
  <1> QED
    BY <1>1, <1>2

\* The forward walk of a trace passes all that the walk to the head passes, first
\* of all the claim's successor.
LEMMA ForwardPasses ==
    ASSUME TypeOK, StoreInv, Finite, NEW c \in superseded
    PROVE  {Successor(c), CurrentHead(c)} \subseteq Forward(c)
  <1> DEFINE N == Cardinality(claims)
             Onto(S) == S \cup {Successor(d) : d \in {x \in S : EdgesFrom(x) # {}}}
             IsWalk(w) == w = [n \in Nat |->
                              IF n = 0 THEN {c}
                              ELSE w[n - 1] \cup {Successor(d) : d \in {x \in w[n - 1] : EdgesFrom(x) # {}}}]
             walk == CHOOSE w : IsWalk(w)
             g == [P \in SUBSET claims |-> Onto(P)]
  <1>1. c \in claims /\ N \in Nat /\ N # 0
    BY FS_CardinalityType, FS_EmptySet DEF Finite, superseded
  <1>2. Forward(c) = walk[N]
    BY DEF Forward
  <1>3. ASSUME NEW P \in SUBSET claims PROVE Onto(P) \in SUBSET claims
    <2>1. \A d : EdgesFrom(d) # {} => Successor(d) \in claims
      BY SuccessorIs DEF EdgesFrom, StoreInv, EdgesForward
    <2> QED
      BY <2>1
  <1> HIDE DEF N
  <1>4. PICK w \in [Nat -> SUBSET claims] : w[0] = {c} /\ \A n \in Nat \ {0} : w[n] = g[w[n - 1]]
    <2> DEFINE S == SUBSET claims
    <2>1. {c} \in S /\ g \in [S -> S]
      BY <1>1, <1>3
    <2> HIDE DEF S, g
    <2>2. \E w \in [Nat -> S] : w[0] = {c} /\ \A n \in Nat \ {0} : w[n] = g[w[n - 1]]
      BY <2>1, Iterates
    <2> QED
      BY <2>2 DEF S
  <1>5. \A n \in Nat \ {0} : w[n] = Onto(w[n - 1])
    <2> TAKE n \in Nat \ {0}
    <2>1. n - 1 \in Nat /\ w[n - 1] \in SUBSET claims
      OBVIOUS
    <2>2. w[n] = g[w[n - 1]]
      BY <1>4
    <2> QED
      BY <2>1, <2>2
  <1> HIDE DEF g
  <1>6. IsWalk(w)
    BY <1>4, <1>5
  <1>7. IsWalk(walk)
    BY <1>6
  <1> HIDE DEF walk
  <1>8. walk[0] = {c} /\ \A n \in Nat \ {0} : walk[n] = Onto(walk[n - 1])
    BY <1>7
  <1> HIDE DEF IsWalk
  <1>9. \A n \in Nat \ {0} : Successor(c) \in walk[n]
    <2> DEFINE Bad == {n \in Nat : n # 0 /\ Successor(c) \notin walk[n]}
    <2> SUFFICES ASSUME Bad # {} PROVE FALSE
      OBVIOUS
    <2>1. PICK n \in Bad : \A m \in Bad : n <= m
      BY Smallest
    <2>2. n \in Nat \ {0} /\ n - 1 \in Nat /\ n - 1 \notin Bad
      BY <2>1
    <2>3. walk[n - 1] \subseteq walk[n]
      BY <1>8, <2>2
    <2>4. n = 1
      BY <2>1, <2>2, <2>3
    <2>5. EdgesFrom(c) # {}
      BY SuccessorIsNewer
    <2>6. walk[1] = Onto({c})
      BY <1>8
    <2>7. Successor(c) \in Onto({c})
      BY <2>5
    <2> QED
      BY <2>1, <2>4, <2>6, <2>7
  <1>10. PICK f \in [Nat -> claims] :
            /\ f[0] = c /\ \A n \in Nat \ {0} : f[n] = Onward(f[n - 1])
            /\ CurrentHead(c) = f[N]
    BY <1>1, WalkForward DEF N
  <1>11. \A n \in Nat : f[n] \in walk[n]
    <2> DEFINE Bad == {n \in Nat : f[n] \notin walk[n]}
    <2> SUFFICES ASSUME Bad # {} PROVE FALSE
      OBVIOUS
    <2>1. PICK n \in Bad : \A m \in Bad : n <= m
      BY Smallest
    <2>2. n # 0
      BY <1>8, <1>10, <2>1
    <2>3. n \in Nat \ {0} /\ n - 1 \in Nat /\ n - 1 \notin Bad
      BY <2>1, <2>2
    <2>4. f[n - 1] \in walk[n - 1] /\ f[n] = Onward(f[n - 1]) /\ walk[n] = Onto(walk[n - 1])
      BY <1>8, <1>10, <2>3
    <2>5. f[n] \in walk[n]
      BY <2>4 DEF Onward
    <2> QED
      BY <2>1, <2>5
  <1> QED
    BY <1>1, <1>2, <1>9, <1>10, <1>11

\* A superseded claim was replaced by a claim of another turn.
LEMMA ReplacedByAnother ==
    ASSUME TypeOK, StoreInv, OnRecord, NEW c \in superseded
    PROVE  Successor(c).turn # c.turn
  <1>1. EdgesFrom(c) # {}
    BY SuccessorIsNewer
  <1>2. PICK e \in EdgesFrom(c) : /\ Successor(c) = e.new
                                  /\ \A f \in EdgesFrom(c) : f.ts <= e.ts
    BY <1>1, SuccessorIs
  <1>3. Replaces(e) /\ e \in edges /\ e.old = c
    BY <1>2 DEF StoreInv, RedirectFollowsReplacement, EdgesFrom
  <1> QED
    BY <1>2, <1>3 DEF OnRecord

\* What a replacing edge leads from is neither current nor on its way to be.
LEMMA ReplacedIsPast ==
    ASSUME TypeOK, StoreInv, NEW e \in edges, Replaces(e)
    PROVE  e.old \in claims /\ e.old \notin live /\ (e.old \in superseded \/ e.old \in dismissed)
  BY DEF StoreInv, RetiredForCause, EdgesForward, superseded

\* The renderings of a trace agree, and a trace leads to what took a claim's place.
LEMMA TracesDoAgree ==
    ASSUME TypeOK, StoreInv, Finite, OnRecord, HeadIsCurrent, ConflictsAgree
    PROVE  TracesAgree
  <1>1. ASSUME NEW c \in live, \A e \in Chain(c) : Replaces(e)
        PROVE  /\ \A row \in TraceOf(c).lineage : TableLabel(row) = TextLabel(row)
               /\ \A why \in Explanation(c) : why[1] \notin live
    <2>1. c \in claims
      BY DEF TypeOK
    <2>2. \A e \in Chain(c) : e.old \notin live /\ e.type # "active"
      BY <1>1, <2>1, ChainIsRecorded, ReplacedIsPast DEF OnRecord, TypeOK, Edge, EdgeTypes
    <2>3. TraceOf(c).lineage = BuildChain(c)
      BY DEF TraceOf
    <2>4. ASSUME NEW row \in BuildChain(c) PROVE TableLabel(row) = TextLabel(row)
      <3>1. CASE row = [claim |-> c, edge |-> "active"]
        BY <3>1 DEF TableLabel, TextLabel
      <3>2. CASE \E e \in Chain(c) : row = [claim |-> e.old, edge |-> e.type]
        BY <2>2, <3>2 DEF TableLabel, TextLabel
      <3> QED
        BY <3>1, <3>2 DEF BuildChain
    <2>5. \A why \in Explanation(c) : why[1] \notin live
      BY <2>2 DEF Explanation
    <2> QED
      BY <2>3, <2>4, <2>5
  <1>2. ASSUME NEW c \in superseded PROVE TraceOf(c).chain \cap (live \cup dismissed) # {}
    <2>1. TraceOf(c).chain = Forward(c)
      BY DEF TraceOf
    <2> QED
      BY <2>1, ForwardPasses DEF HeadIsCurrent
  <1>3. \A e \in Contradictions : SameSlot(e.old, e.new) =>
            /\ Plain[e.new.val] \in TraceOf(e.old).conflicts
            /\ Plain[e.old.val] \in TraceOf(e.new).conflicts
    BY DEF ConflictsAgree, TraceOf
  <1> QED
    BY <1>1, <1>2, <1>3 DEF TracesAgree

\* Where the profile counts no edge, nobody does, and nothing was superseded.
LEMMA StableStaysStable ==
    ASSUME TypeOK, StoreInv, OnRecord
    PROVE  StableIsStable
  <1> SUFFICES ASSUME NEW subj \in Subjects, NEW pred \in Preds, ProfileVolatility(subj, pred) = "stable"
               PROVE  /\ Volatility(subj, pred) = "stable" /\ TrustVolatility(subj, pred) = "stable"
                      /\ \A c \in superseded : ~In(c, subj, pred)
    BY DEF StableIsStable
  <1> DEFINE from == {e \in edges : In(e.old, subj, pred)}
             to == {e \in edges : In(e.new, subj, pred)}
             within == {e \in edges : In(e.old, subj, pred) /\ In(e.new, subj, pred)}
  <1>1. IsFiniteSet(from) /\ IsFiniteSet(to)
    BY FS_Subset DEF OnRecord
  <1>2. Cardinality(from) \in Nat /\ Cardinality(to) \in Nat
    BY <1>1, FS_CardinalityType
  <1>3. Tier(Cardinality(from) + Cardinality(to)) = "stable"
    BY DEF ProfileVolatility
  <1>4. Cardinality(from) + Cardinality(to) = 0
    BY <1>3 DEF Tier
  <1>5. from = {} /\ to = {}
    BY <1>1, <1>2, <1>4, FS_EmptySet
  <1>6. within = {}
    BY <1>5
  <1>7. Volatility(subj, pred) = "stable" /\ TrustVolatility(subj, pred) = "stable"
    BY <1>5, <1>6, FS_EmptySet DEF Volatility, TrustVolatility, Tier
  <1>8. ASSUME NEW c \in superseded, In(c, subj, pred) PROVE FALSE
    <2>1. PICK e \in edges : e.old = c
      BY <1>8 DEF StoreInv, RetiredForCause, superseded
    <2> QED
      BY <1>5, <1>8, <2>1
  <1> QED
    BY <1>7, <1>8

\* The number of elements of a set that falls in two parts.
LEMMA TwoParts ==
    ASSUME NEW A, NEW B, IsFiniteSet(A \cup B), A \cap B = {}
    PROVE  /\ Cardinality(A \cup B) = Cardinality(A) + Cardinality(B)
           /\ IsFiniteSet(A) /\ IsFiniteSet(B)
           /\ Cardinality(A) \in Nat /\ Cardinality(B) \in Nat
  <1>1. IsFiniteSet(A) /\ IsFiniteSet(B)
    BY FS_Subset
  <1>2. Cardinality(A) \in Nat /\ Cardinality(B) \in Nat
    BY <1>1, FS_CardinalityType
  <1> QED
    BY <1>1, <1>2, FS_Union, FS_EmptySet

\* The counts of the trust report and of the statistics fit the same tables.
LEMMA ReportsDoAddUp ==
    ASSUME TypeOK, StoreInv, Finite, OnRecord
    PROVE  ReportsAddUp
  <1> DEFINE blocked == {e \in edges : Blocked(e.new, e.old)}
             contradicting == {e \in edges : e.type = "contradicts"}
             replacing == {e \in edges : Replaces(e)}
             trusted == {c \in claims : Trust(c) >= 70}
             neutral == {c \in claims : Quarantine <= Trust(c) /\ Trust(c) < 70}
             quarantined == {c \in claims : Trust(c) < Quarantine}
  <1>1. Cardinality(drift) = Cardinality(blocked)
    <2> DEFINE f == [e \in blocked |-> <<e.old, e.new>>]
    <2>1. f \in [blocked -> drift] /\ \A d \in drift : \E e \in blocked : f[e] = d
      BY DEF OnRecord
    <2>2. \A x, y \in blocked : f[x] = f[y] => x = y
      BY DEF OnRecord
    <2>3. IsFiniteSet(blocked)
      BY FS_Subset DEF OnRecord
    <2> HIDE DEF f, blocked
    <2>4. IsFiniteSet(drift) /\ Cardinality(drift) \in Nat /\ Cardinality(drift) <= Cardinality(blocked)
      BY <2>1, <2>3, NoSmaller
    <2>5. Cardinality(blocked) \in Nat /\ Cardinality(blocked) <= Cardinality(drift)
      BY <2>1, <2>2, <2>4, NoLarger
    <2> QED
      BY <2>4, <2>5
  <1>2. Cardinality(superseded) <= Cardinality(edges) - Cardinality(contradicting)
    <2> DEFINE f == [c \in superseded |-> CHOOSE e \in replacing : e.old = c]
    <2>1. \A c \in superseded : \E e \in replacing : e.old = c
      BY DEF StoreInv, RetiredForCause, superseded
    <2>2. \A c \in superseded : f[c] \in replacing /\ f[c].old = c
      BY <2>1
    <2>3. f \in [superseded -> replacing]
      BY <2>2
    <2>4. \A x, y \in superseded : f[x] = f[y] => x = y
      BY <2>2
    <2>5. edges = replacing \cup contradicting /\ replacing \cap contradicting = {}
      BY DEF Replaces
    <2> HIDE DEF f, replacing, contradicting
    <2>6. /\ Cardinality(edges) = Cardinality(replacing) + Cardinality(contradicting)
          /\ IsFiniteSet(replacing)
          /\ Cardinality(replacing) \in Nat /\ Cardinality(contradicting) \in Nat
      BY <2>5, TwoParts DEF OnRecord
    <2>7. Cardinality(superseded) \in Nat /\ Cardinality(superseded) <= Cardinality(replacing)
      BY <2>3, <2>4, <2>6, NoLarger
    <2> QED
      BY <2>6, <2>7
  <1>3. Cardinality(claims) = Cardinality(trusted) + Cardinality(neutral) + Cardinality(quarantined)
    <2>1. \A c \in claims : Trust(c) \in {35, 50, 70, 100}
      BY TrustIs DEF TypeOK
    <2>2. /\ claims = (trusted \cup neutral) \cup quarantined
          /\ (trusted \cup neutral) \cap quarantined = {} /\ trusted \cap neutral = {}
      BY <2>1 DEF Quarantine
    <2> HIDE DEF trusted, neutral, quarantined
    <2>3. /\ Cardinality(claims) = Cardinality(trusted \cup neutral) + Cardinality(quarantined)
          /\ IsFiniteSet(trusted \cup neutral)
      BY <2>2, TwoParts DEF Finite
    <2>4. Cardinality(trusted \cup neutral) = Cardinality(trusted) + Cardinality(neutral)
      BY <2>2, <2>3, TwoParts
    <2> QED
      BY <2>3, <2>4
  <1>4. Cardinality(claims) = Cardinality(live) + Cardinality(superseded) + Cardinality(dismissed)
    <2>1. /\ claims = (live \cup superseded) \cup dismissed
          /\ (live \cup superseded) \cap dismissed = {} /\ live \cap superseded = {}
      BY DEF TypeOK, superseded, StoreInv, RetiredForCause
    <2>2. /\ Cardinality(claims) = Cardinality(live \cup superseded) + Cardinality(dismissed)
          /\ IsFiniteSet(live \cup superseded)
      BY <2>1, TwoParts DEF Finite
    <2>3. Cardinality(live \cup superseded) = Cardinality(live) + Cardinality(superseded)
      BY <2>1, <2>2, TwoParts
    <2> QED
      BY <2>2, <2>3
  <1>5. /\ TrustReport.superseded = Cardinality(superseded)
        /\ TrustReport.edges = Cardinality(edges)
        /\ TrustReport.contradictions = Cardinality(contradicting)
        /\ TrustReport.drift_blocked = Cardinality(drift)
        /\ TrustReport.trusted = Cardinality(trusted)
        /\ TrustReport.neutral = Cardinality(neutral)
        /\ TrustReport.quarantined = Cardinality(quarantined)
        /\ Stats.active_claims = Cardinality(live)
        /\ Stats.superseded_claims = Cardinality(superseded)
    BY DEF TrustReport, Stats
  <1> HIDE DEF contradicting, trusted, neutral, quarantined
  <1> QED
    BY <1>1, <1>2, <1>3, <1>4, <1>5 DEF ReportsAddUp

\* A memory is current just when the brain of its session shows a fact of it.
LEMMA EvidenceDoesAgree ==
    ASSUME TypeOK, StoreInv, Finite, OnRecord
    PROVE  EvidenceAgrees
  <1> SUFFICES ASSUME NEW t \in turns,
                      NEW m, m = Memory(t), NEW brain, brain = Brain(t.sess),
                      NEW facts, facts = UNION {brain[subj].facts : subj \in DOMAIN brain}
               PROVE  /\ m.state \in {"current", "mixed"} <=> facts \cap m.claims # {}
                      /\ m.state = "historical" =>
                           \A c \in m.claims \ dismissed : \E d \in TraceOf(c).chain : d.turn # t
    BY DEF EvidenceAgrees
  <1> DEFINE derived == {c \in claims : c.turn = t}
  <1>1. m.claims = derived /\ m.state = State(derived \cap live, derived \ live)
    BY DEF Memory
  <1>2. facts = ActiveClaims(t.sess)
    <2> DEFINE active == ActiveClaims(t.sess)
    <2>1. Projection(t.sess).claims = active
      BY DEF Projection
    <2>2. /\ DOMAIN brain = {c.subj : c \in active}
          /\ \A subj \in DOMAIN brain : brain[subj].facts = {c \in active : c.subj = subj}
      BY <2>1 DEF Brain
    <2> HIDE DEF active
    <2> QED
      BY <2>2 DEF active
  <1>3. facts \cap derived = derived \cap live
    BY <1>2 DEF ActiveClaims, TypeOK
  <1>4. m.state \in {"current", "mixed"} <=> derived \cap live # {}
    BY <1>1 DEF State
  <1>5. ASSUME m.state = "historical", NEW c \in derived \ dismissed
        PROVE  \E d \in TraceOf(c).chain : d.turn # t
    <2>1. derived \cap live = {}
      BY <1>1, <1>5 DEF State
    <2>2. c \in superseded /\ c.turn = t
      BY <1>5, <2>1 DEF superseded
    <2>3. Successor(c) \in TraceOf(c).chain
      BY <2>2, ForwardPasses DEF TraceOf
    <2> QED
      BY <2>2, <2>3, ReplacedByAnother
  <1> QED
    BY <1>1, <1>3, <1>4, <1>5

\* What the live view lists as decided, replaced and changed fits the lineages.
LEMMA WatchDoesAgree ==
    ASSUME TypeOK, StoreInv, Finite, OnRecord
    PROVE  WatchAgrees
  <1> DEFINE screen == MemoryView
             current == {row.claim : row \in screen.decisions}
  <1>1. \/ screen.decisions = {} /\ screen.changes = {}
        \/ screen.decisions = Decisions /\ screen.changes = Changes
    BY DEF MemoryView
  <1>2. ASSUME NEW row \in Decisions
        PROVE  row.replaced >= Cardinality({r \in TraceOf(row.claim).lineage :
                 /\ r.edge \notin {"active", "contradicts"} /\ r.claim \notin dismissed
                 /\ In(r.claim, row.claim.subj, row.claim.pred)})
    <2>1. PICK c \in live : row = [claim |-> c,
              replaced |-> Cardinality({o \in superseded : In(o, c.subj, c.pred)})]
      BY DEF Decisions
    <2> DEFINE gone == {o \in superseded : In(o, c.subj, c.pred)}
               told == {r \in BuildChain(c) :
                           /\ r.edge \notin {"active", "contradicts"} /\ r.claim \notin dismissed
                           /\ In(r.claim, c.subj, c.pred)}
               f == [r \in told |-> r.claim]
    <2>2. c \in claims
      BY DEF TypeOK
    <2>3. \A r \in told : \E e \in edges : r.claim = e.old /\ r.edge = e.type /\ Replaces(e)
                                           /\ r = [claim |-> e.old, edge |-> e.type]
      BY <2>2, ChainIsRecorded DEF OnRecord, BuildChain, Replaces
    <2>4. f \in [told -> gone]
      BY <2>3, ReplacedIsPast
    <2>5. ASSUME NEW q \in told, NEW r \in told, f[q] = f[r] PROVE q = r
      <3>1. PICK d \in edges : q = [claim |-> d.old, edge |-> d.type] /\ Replaces(d)
        BY <2>3
      <3>2. PICK e \in edges : r = [claim |-> e.old, edge |-> e.type] /\ Replaces(e)
        BY <2>3
      <3>3. d.old = e.old
        BY <2>5, <3>1, <3>2
      <3>4. d = e
        BY <3>1, <3>2, <3>3 DEF OnRecord
      <3> QED
        BY <3>1, <3>2, <3>4
    <2>6. IsFiniteSet(gone)
      <3>1. gone \subseteq claims
        BY DEF superseded
      <3> QED
        BY <3>1, FS_Subset DEF Finite
    <2>7. row.claim = c /\ row.replaced = Cardinality(gone)
      BY <2>1
    <2>8. TraceOf(c).lineage = BuildChain(c)
      BY DEF TraceOf
    <2>9. Cardinality(gone) \in Nat
      BY <2>6, FS_CardinalityType
    <2> HIDE DEF f, gone, told
    <2>10. Cardinality(told) \in Nat /\ Cardinality(told) <= Cardinality(gone)
      BY <2>4, <2>5, <2>6, NoLarger
    <2>11. row.replaced >= Cardinality(told)
      BY <2>7, <2>9, <2>10
    <2> QED
      BY <2>7, <2>8, <2>11 DEF told
  <1>3. ASSUME screen.decisions = Decisions, screen.changes = Changes,
               NEW row \in Changes, row.why # "contradicts"
        PROVE  /\ row.was \notin current
               /\ row.now.subj # NoSubject =>
                      row.now \in current \/ row.now \in dismissed
                      \/ \E next \in Changes : next.was = row.now /\ next.why # "contradicts"
    <2>1. current = {d \in live : d.subj # NoSubject}
      <3> DEFINE Row(d) == [claim |-> d, replaced |->
                              Cardinality({o \in superseded : In(o, d.subj, d.pred)})]
                 shown == {d \in live : d.subj # NoSubject}
      <3>1. current = {r.claim : r \in Decisions}
        BY <1>3
      <3>2. Decisions = {Row(d) : d \in shown}
        BY DEF Decisions
      <3>3. \A d : Row(d).claim = d
        OBVIOUS
      <3> HIDE DEF Row, shown
      <3>4. current = shown
        BY <3>1, <3>2, <3>3
      <3> QED
        BY <3>4 DEF shown
    <2>2. PICK e \in edges : row.was = e.old /\ row.now = e.new /\ Replaces(e)
      BY <1>3 DEF Changes, Replaces
    <2>3. row.was \notin current
      BY <2>1, <2>2, ReplacedIsPast
    <2>4. ASSUME row.now.subj # NoSubject, row.now \notin current, row.now \notin dismissed
          PROVE  \E next \in Changes : next.was = row.now /\ next.why # "contradicts"
      <3>1. row.now \in superseded
        BY <2>1, <2>2, <2>4 DEF superseded, StoreInv, EdgesForward
      <3>2. PICK g \in edges : g.old = row.now /\ Replaces(g)
        BY <3>1 DEF StoreInv, RetiredForCause, superseded
      <3> DEFINE next == [was |-> g.old, now |-> g.new, why |-> g.type]
      <3>3. next \in Changes /\ next.was = row.now /\ next.why # "contradicts"
        BY <3>2 DEF Changes, Replaces
      <3> QED
        BY <3>3
    <2> QED
      BY <2>3, <2>4
  <1> HIDE DEF screen, current
  <1>4. \A row \in screen.decisions : row.replaced >= Cardinality({r \in TraceOf(row.claim).lineage :
                 /\ r.edge \notin {"active", "contradicts"} /\ r.claim \notin dismissed
                 /\ In(r.claim, row.claim.subj, row.claim.pred)})
    BY <1>1, <1>2
  <1>5. \A row \in screen.changes : row.why # "contradicts" =>
             /\ row.was \notin current
             /\ row.now.subj # NoSubject =>
                    row.now \in current \/ row.now \in dismissed
                    \/ \E next \in screen.changes : next.was = row.now /\ next.why # "contradicts"
    BY <1>1, <1>3
  <1> QED
    BY <1>4, <1>5 DEF WatchAgrees, screen, current

\* The newest a user said of a slot is the most trusted, then newest of its current
\* claims, unless it was dismissed or taken for another subject's.
LEMMA LastWordDoesLead ==
    ASSUME TypeOK, StoreInv, OnRecord
    PROVE  LastWordLeads
  <1> SUFFICES ASSUME NEW subj \in Subjects, NEW pred \in SingleValued, NEW sess \in Sessions,
                      NEW rows, rows = LiveSlotRows(subj, pred, sess), rows # {},
                      NEW head, head = SlotHead(rows),
                      NEW said, said = {c \in claims : SameSlot(c, head) /\ c.turn.src = UserSays},
                      NEW u \in Newest(said), u \notin dismissed,
                      \A e \in EdgesFrom(u) : e.type # "semantic_replace"
               PROVE  SameValue(u, head)
    BY DEF LastWordLeads
  <1>1. /\ rows \subseteq live /\ live \subseteq claims
        /\ \A c \in rows : c.subj = subj /\ c.pred = pred
        /\ \A c \in rows, d \in live : SameSlot(d, c) => d \in rows
    BY DEF LiveSlotRows, SameSlot, TypeOK
  <1>2. PICK best : /\ best \in rows
                    /\ \A d \in rows : Trust(d) < Trust(best) \/ (Trust(d) = Trust(best) /\ d.ts <= best.ts)
                    /\ head \in rows /\ head.turn.ns = best.turn.ns /\ SameValue(head, best)
    BY <1>1, SlotHeadIs
  <1>3. /\ u \in claims /\ u \in Claim /\ SameSlot(u, head) /\ u.turn.src = UserSays
        /\ \A d \in said : d.ts <= u.ts
    BY DEF Newest, TypeOK
  <1>4. u.pred # NL
    BY <1>1, <1>2, <1>3, RulesAssumption, NLAssumption DEF SameSlot
  <1>5. u \in live
    <2> SUFFICES ASSUME u \notin live PROVE FALSE
      OBVIOUS
    <2>1. PICK e \in edges : e.old = u /\ Replaces(e)
      BY <1>3 DEF StoreInv, RetiredForCause, superseded
    <2>2. SameSlot(u, e.new)
      BY <1>4, <2>1 DEF OnRecord, EdgesFrom
    <2>3. e.new \in claims /\ e.new \in Claim /\ u.ts < e.new.ts
      BY <2>1 DEF StoreInv, EdgesForward, TypeOK
    <2>4. e.new.turn.src = UserSays
      BY <1>3, <2>1, <2>3, OnlyUserReachesUser DEF StoreInv, TrustGuard
    <2>5. e.new \in said
      BY <1>3, <2>2, <2>3, <2>4 DEF SameSlot
    <2> QED
      BY <1>3, <2>3, <2>5 DEF Claim
  <1>6. u \in rows
    BY <1>1, <1>2, <1>3, <1>5
  <1>7. best \in Claim /\ best \in claims /\ SameSlot(best, head)
    BY <1>1, <1>2 DEF TypeOK, SameSlot
  <1>8. Trust(u) = 100 /\ Trust(best) \in {35, 50, 70, 100}
    BY <1>3, <1>7, TrustIs
  <1>9. Trust(best) = 100 /\ u.ts <= best.ts
    BY <1>2, <1>6, <1>8
  <1>10. best \in said
    BY <1>7, <1>9, TrustIs
  <1>11. u = best
    BY <1>3, <1>7, <1>9, <1>10 DEF OnRecord, StampsDiffer, Claim
  <1> QED
    BY <1>2, <1>11 DEF SameValue

\* Reading the store does nothing to it.
LEMMA ViewsAddNothing == ViewSpec => Spec
  <1>1. ViewInit => Init
    BY DEF ViewInit
  <1>2. [ViewNext]_<<vars, turns>> => [Next]_vars
    BY DEF ViewNext, Next
  <1> QED
    BY <1>1, <1>2, PTL DEF ViewSpec, Spec

\* Stored turns are numbered, too.
TurnsStored == turns \subseteq Turn /\ \A t \in turns : t.no <= nTurns

\* So are those that yielded no claim.
LEMMA TurnsStoredHolds == ViewSpec => []TurnsStored
  <1>1. ViewInit => TurnsStored
    BY DEF ViewInit, TurnsStored
  <1>2. TypeOK /\ TypeOK' /\ Numbered /\ TurnsStored /\ [ViewNext]_<<vars, turns>> => TurnsStored'
    <2> SUFFICES ASSUME TypeOK, TypeOK', Numbered, TurnsStored, [ViewNext]_<<vars, turns>>
                 PROVE  TurnsStored'
      OBVIOUS
    <2>1. CASE UNCHANGED <<vars, turns>>
      BY <2>1 DEF vars, TurnsStored
    <2>2. CASE ViewNext
      <3> DEFINE Known == Extracting' \cup {c.turn : c \in claims'}
      <3>1. [Next]_vars /\ turns' = turns \cup Known
        BY <2>2 DEF ViewNext, Next, Stored
      <3>2. Known \subseteq Turn
        <4>1. Extracting' \subseteq Turn
          BY DEF TypeOK, Extracting
        <4>2. {c.turn : c \in claims'} \subseteq Turn
          BY DEF TypeOK, Claim
        <4> QED
          BY <4>1, <4>2
      <3>3. nTurns <= nTurns' /\ \A t \in Known : t.no <= nTurns'
        BY <3>1, NumberedStep DEF Numbered
      <3>4. \A t \in turns : t.no <= nTurns'
        BY <3>3 DEF TurnsStored, Turn, TypeOK
      <3> HIDE DEF Known
      <3> QED
        BY <3>1, <3>2, <3>3, <3>4 DEF TurnsStored
    <2> QED
      BY <2>1, <2>2
  <1> QED
    BY <1>1, <1>2, ViewsAddNothing, TypeCorrect, OnRecordHolds, PTL DEF ViewSpec

\* Brain, projection and trace lead with one value, and no session with turns is
\* shown empty.
LEMMA OneStoryIsTold ==
    ASSUME TypeOK, StoreInv, Finite, TurnsStored, nActions = 0 => OneCurrentValue
    PROVE  OneStory
  <1>1. ASSUME NEW sess \in Sessions, {t \in turns : t.sess = sess} # {}
        PROVE  Projection(sess).claims \cup Projection(sess).episodes # {}
    <2> DEFINE S == {t \in turns : t.sess = sess}
               Lags == {nTurns - t.no : t \in S}
    <2>1. nTurns \in Nat /\ \A t \in S : t.no \in Nat /\ t.no <= nTurns
      BY DEF TypeOK, TurnsStored, Turn
    <2>2. Lags \subseteq Nat /\ Lags # {}
      BY <1>1, <2>1
    <2>3. PICK a \in Lags : \A b \in Lags : a <= b
      BY <2>2, Smallest
    <2>4. PICK t \in S : a = nTurns - t.no
      BY <2>3
    <2>5. ASSUME NEW u \in S PROVE ~(u.no > t.no)
      <3>1. nTurns - t.no <= nTurns - u.no
        BY <2>3, <2>4
      <3> QED
        BY <2>1, <3>1
    <2>6. {u \in S : u.no > t.no} = {}
      BY <2>5
    <2>7. t \in MostRecent(S)
      BY <2>6, FS_EmptySet, ViewsAssumption DEF MostRecent
    <2> QED
      BY <2>7 DEF Projection
  <1>2. ASSUME NEW sess \in Sessions, NEW brain, brain = Brain(sess), nActions = 0,
               NEW subj \in DOMAIN brain \cap Subjects, NEW pred \in SingleValued \ brain[subj].gaps,
               NEW facts, facts = {c \in brain[subj].facts : c.pred = pred},
               NEW newest, newest = NewestOf(Projection(sess).claims, subj, pred),
               NEW rows, rows = LiveSlotRows(subj, pred, sess),
               Cardinality({c.turn.ns : c \in facts}) = 1,
               \A c \in facts \cup rows : c.val \notin Historical /\ Uncontested(SlotOf(c))
        PROVE  rows # {} /\ \A c \in facts \cup newest : SameValue(c, SlotHead(rows))
    <2> DEFINE active == ActiveClaims(sess)
               mine == {c \in {d \in live : d.subj = subj /\ d.pred = pred} : c.turn.sess = sess}
    <2>1. Projection(sess).claims = active
      BY DEF Projection
    <2>2. brain[subj].facts = {c \in active : c.subj = subj}
      BY <1>2, <2>1 DEF Brain
    <2>3. brain[subj].gaps = Preds \ {c.pred : c \in {d \in active : d.subj = subj}}
      BY <1>2, <2>1 DEF Brain
    <2>4. facts = mine
      BY <1>2, <2>2 DEF ActiveClaims
    <2>5. facts # {}
      BY <1>2, <2>2, <2>3, RulesAssumption
    <2>6. live \subseteq claims /\ mine \subseteq live
      BY DEF TypeOK
    <2>7. MostTrusted(mine) \in mine
      BY <2>4, <2>5, <2>6, SlotHeadIs
    <2>8. rows = {c \in {d \in live : d.subj = subj /\ d.pred = pred} :
                      c.turn.ns = MostTrusted(mine).turn.ns}
      BY <1>2, <2>4, <2>5 DEF LiveSlotRows
    <2>9. \A c, d \in facts : c.turn.ns = d.turn.ns
      <3> DEFINE spaces == {c.turn.ns : c \in facts}
                 f == [c \in facts |-> c.turn.ns]
      <3>1. IsFiniteSet(facts)
        BY <2>4, <2>6, FS_Subset DEF Finite
      <3>2. f \in [facts -> spaces] /\ \A s \in spaces : \E c \in facts : f[c] = s
        OBVIOUS
      <3>3. \A c \in facts : c.turn.ns \in spaces
        OBVIOUS
      <3>4. Cardinality(spaces) = 1
        BY <1>2
      <3> HIDE DEF f, spaces
      <3>5. IsFiniteSet(spaces)
        BY <3>1, <3>2, NoSmaller
      <3>6. \E s : spaces = {s}
        BY <3>4, <3>5, FS_Singleton
      <3> QED
        BY <3>3, <3>6
    <2>10. facts \subseteq rows
      BY <2>4, <2>7, <2>8, <2>9
    <2>11. rows \subseteq live /\ rows # {}
      BY <2>5, <2>8, <2>10
    <2>12. SlotHead(rows) \in rows
      BY <2>11, SlotHeadIs
    <2> DEFINE head == SlotHead(rows)
    <2>13. ASSUME NEW c \in facts PROVE SameValue(c, head)
      <3>1. SameSlot(c, head) /\ SameSlot(head, c) /\ c.pred \in SingleValued
        BY <1>2, <2>4, <2>8, <2>10, <2>12 DEF SameSlot
      <3>2. c \in live /\ head \in live /\ head \in SlotOf(c) /\ c \in SlotOf(head)
        BY <1>2, <2>6, <2>10, <2>11, <2>12, <3>1 DEF SlotOf
      <3>3. Uncontested(SlotOf(c)) /\ OneCurrentValue
        BY <1>2
      <3> QED
        BY <3>1, <3>2, <3>3 DEF OneCurrentValue
    <2>14. newest \subseteq facts
      BY <1>2, <2>1, <2>4 DEF NewestOf, Newest, ActiveClaims
    <2> QED
      BY <2>11, <2>13, <2>14
  <1> QED
    BY <1>1, <1>2 DEF OneStory

\* Brain, projection, trace, explanation, evidence, volatility, trust report,
\* statistics and live view tell one story of one store, however many turns,
\* claims, tenants and sessions there are, and whatever was refused, corrected,
\* dismissed or replaced across subjects.
THEOREM ViewsAgreeHolds == ViewSpec => []ViewsAgree
  <1>1. /\ TypeOK /\ StoreInv /\ Finite /\ OnRecord /\ TurnsStored
        /\ HeadIsCurrent /\ ConflictsAgree /\ (nActions = 0 => OneCurrentValue)
        => ViewsAgree
    BY OneStoryIsTold, EvidenceDoesAgree, WatchDoesAgree, LastWordDoesLead, TracesDoAgree,
       StableStaysStable, ReportsDoAddUp DEF ViewsAgree
  <1> QED
    BY <1>1, ViewsAddNothing, TypeCorrect, StoreInvHolds, ClaimsAreFinite, OnRecordHolds,
       TurnsStoredHolds, HeadIsCurrentHolds, ConflictsAgreeHolds, OneValueUntilActions, PTL
=============================================================================
