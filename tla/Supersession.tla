----------------------------- MODULE Supersession -----------------------------
(***************************************************************************)
(* Turns come in, claims are extracted from them one at a time, and each   *)
(* new claim may retire older ones (on_new_turn.run_extraction,            *)
(* supersession.detect_pass1, SemanticSupersession.detect); the user may   *)
(* correct or dismiss a claim (mcp_tools.handle_memory_correct).           *)
(*                                                                         *)
(* One server process: the main thread handles one call at a time, and a   *)
(* text-only store may leave its turn to the extraction worker, which      *)
(* takes turns in FIFO order.  Inserting a claim and settling it against   *)
(* older ones is one step here.                                            *)
(***************************************************************************)
EXTENDS ClaimRules, Sequences, FiniteSets

CONSTANTS
    Semantic,       \* is an embedder configured, so that Pass 2 runs?
    MaxTurns,       \* bound: turns ever stored
    MaxClaims,      \* bound: claims ever asserted
    MaxQueue,       \* bound: turns waiting for the worker (0: all inline)
    MaxUserActions  \* bound: corrections and dismissals

VARIABLES
    nTurns,    \* turns stored so far
    clock,     \* the last stamp now_ns returned
    inline,    \* the turn the main thread is extracting, <<>> when idle
    queue,     \* the turns left to the worker; it is extracting the first
    claims,    \* the claims table
    live,      \* claims whose status is active
    dismissed, \* claims whose status is dismissed; the others are superseded
    edges,     \* the supersession_edges table
    drift,     \* <<old, new>>: the drift_blocked rows of the decisions table
    nActions   \* corrections and dismissals so far

vars == <<nTurns, clock, inline, queue, claims, live, dismissed, edges, drift, nActions>>
store == <<claims, live, dismissed, edges, drift>>

Edge == [old : Claim, new : Claim, type : EdgeTypes, ts : Nat]

superseded == claims \ (live \cup dismissed)

-----------------------------------------------------------------------------
Init ==
    /\ nTurns = 0 /\ clock = 0 /\ nActions = 0
    /\ inline = <<>> /\ queue = <<>>
    /\ claims = {} /\ live = {} /\ dismissed = {}
    /\ edges = {} /\ drift = {}

Idle == inline = <<>>

TurnFrom(ns, sess, src) == [no |-> nTurns + 1, ns |-> ns, sess |-> sess, src |-> src]

\* memory_store with structured claims, or with an extractor that is not
\* deferrable: the main thread goes on to extract this turn.
StoreInline(ns, sess, src) ==
    /\ Idle /\ nTurns < MaxTurns
    /\ nTurns' = nTurns + 1
    /\ inline' = <<TurnFrom(ns, sess, src)>>
    /\ UNCHANGED <<clock, queue, nActions, store>>

\* memory_store of text alone with a deferrable extractor: the turn is left
\* pending for the worker.
StoreDeferred(ns, sess, src) ==
    /\ Idle /\ nTurns < MaxTurns /\ Len(queue) < MaxQueue
    /\ nTurns' = nTurns + 1
    /\ queue' = Append(queue, TurnFrom(ns, sess, src))
    /\ UNCHANGED <<clock, inline, nActions, store>>

FinishInline ==
    /\ ~Idle
    /\ inline' = <<>>
    /\ UNCHANGED <<nTurns, clock, queue, nActions, store>>

FinishDeferred ==
    /\ queue # <<>>
    /\ queue' = Tail(queue)
    /\ UNCHANGED <<nTurns, clock, inline, nActions, store>>

-----------------------------------------------------------------------------
(* What becomes of a claim that has just been inserted. *)

NewClaim(turn, subj, pred, val) ==
    [ts |-> clock + 1, turn |-> turn, pred |-> pred, val |-> val,
     subj |-> IF pred = NL THEN NoSubject ELSE subj]

Pass1Rows(new) == {c \in live : InPass1Scope(new, c)}

Insert(new) ==
    /\ claims' = claims \cup {new}
    /\ clock' = clock + 2

Link(olds, new, type) ==
    edges' = edges \cup {[old |-> o, new |-> new, type |-> type, ts |-> clock + 2] : o \in olds}

Retire(olds, new) == live' = (live \ olds) \cup {new}

\* Nothing matches, or Pass 2 finds nothing close enough: the fact is additive.
Add(new) ==
    /\ Pass1Match(new, Pass1Rows(new)) = {}
    /\ Insert(new) /\ Retire({}, new)
    /\ UNCHANGED <<dismissed, edges, drift>>

\* Pass 1 replaces the matched claim and the copies of its value.
Override(new) ==
    \E old \in Pass1Match(new, Pass1Rows(new)) :
        LET gone == {old} \cup CopiesOf(new, old, Pass1Rows(new))
        IN  /\ ~Blocked(new, old) /\ Classify(new, old) # "contradicts"
            /\ Insert(new) /\ Retire(gone, new)
            /\ Link(gone, new, Classify(new, old))
            /\ UNCHANGED <<dismissed, drift>>

\* The trust guard refuses: both stay, the conflict is recorded and audited.
Refuse(new) ==
    \E old \in Pass1Match(new, Pass1Rows(new)) :
        /\ Blocked(new, old)
        /\ Insert(new) /\ Retire({}, new)
        /\ Link({old}, new, "contradicts")
        /\ drift' = drift \cup {<<old, new>>}
        /\ UNCHANGED dismissed

\* A speaker who is neither user nor assistant may only contradict.
Contradict(new) ==
    \E old \in Pass1Match(new, Pass1Rows(new)) :
        /\ ~Blocked(new, old) /\ Classify(new, old) = "contradicts"
        /\ Insert(new) /\ Retire({}, new)
        /\ Link({old}, new, "contradicts")
        /\ UNCHANGED <<dismissed, drift>>

\* Mutant: Pass 2 retires without an edge.
SemanticUnlinked(new) ==
    LET rows == {c \in live : InPass2Scope(new, c)}
    IN  /\ Semantic
        /\ Pass1Match(new, Pass1Rows(new)) = {}
        /\ ~Restates(new, rows)
        /\ \E old \in rows : ~Blocked(new, old) /\ Insert(new) /\ Retire({old}, new)
        /\ UNCHANGED <<dismissed, edges, drift>>

\* Pass 2 replaces the one claim its embedder ranks closest; which one that is,
\* and whether it clears the threshold, is the embedder's choice.
SemanticReplace(new) ==
    LET rows == {c \in live : InPass2Scope(new, c)}
    IN  /\ Semantic
        /\ Pass1Match(new, Pass1Rows(new)) = {}
        /\ ~Restates(new, rows)
        /\ \E old \in rows :
              /\ ~Blocked(new, old)
              /\ Insert(new) /\ Retire({old}, new)
              /\ Link({old}, new, "semantic_replace")
              /\ UNCHANGED <<dismissed, drift>>

\* One turn of run_extraction's loop.
Extract(new) ==
    /\ Cardinality(claims) < MaxClaims
    /\ \/ Add(new) \/ Override(new) \/ Refuse(new) \/ Contradict(new)
       \/ SemanticReplace(new)
    /\ UNCHANGED <<nTurns, inline, queue, nActions>>

-----------------------------------------------------------------------------
(* The user's own actions on a claim. *)

EdgesFrom(c) == {e \in edges : e.old = c}

\* get_superseded_by: the claim the newest edge out of c leads to
Successor(c) == (CHOOSE e \in EdgesFrom(c) : \A f \in EdgesFrom(c) : f.ts <= e.ts).new

\* _resolve_correction_target follows superseded claims forward; a walk longer
\* than the table has gone in a circle.
CurrentHead(c) ==
    LET walk[n \in Nat] ==
          IF n = 0 THEN c
          ELSE LET d == walk[n - 1]
               IN IF d \in superseded /\ EdgesFrom(d) # {} THEN Successor(d) ELSE d
    IN  walk[Cardinality(claims)]

\* Mutant: the corrected claim is retired without an edge.
CorrectUnlinked(c, val) ==
    LET target == CurrentHead(c)
        turn == TurnFrom(target.turn.ns, target.turn.sess, UserSays)
        new == NewClaim(turn, target.subj, target.pred, val)
    IN  /\ Idle /\ nActions < MaxUserActions
        /\ nTurns < MaxTurns /\ Cardinality(claims) < MaxClaims
        /\ target \in live
        /\ nTurns' = nTurns + 1 /\ nActions' = nActions + 1
        /\ Insert(new) /\ Retire({target}, new)
        /\ UNCHANGED <<inline, queue, dismissed, edges, drift>>

\* memory_correct, action "correct".  The correction is a user turn of its own.
Correct(c, val) ==
    LET target == CurrentHead(c)
        turn == TurnFrom(target.turn.ns, target.turn.sess, UserSays)
        new == NewClaim(turn, target.subj, target.pred, val)
    IN  /\ Idle /\ nActions < MaxUserActions
        /\ nTurns < MaxTurns /\ Cardinality(claims) < MaxClaims
        /\ target \in live
        /\ nTurns' = nTurns + 1 /\ nActions' = nActions + 1
        /\ Insert(new) /\ Retire({target}, new)
        /\ Link({target}, new, "user_correction")
        /\ UNCHANGED <<inline, queue, dismissed, drift>>

\* memory_correct, action "dismiss": whatever the claim's status was.
Dismiss(c) ==
    /\ Idle /\ nActions < MaxUserActions
    /\ nActions' = nActions + 1
    /\ live' = live \ {c}
    /\ dismissed' = dismissed \cup {c}
    /\ UNCHANGED <<nTurns, clock, inline, queue, claims, edges, drift>>

-----------------------------------------------------------------------------
Store ==
    \E ns \in Namespaces, sess \in Sessions, src \in Sources :
        StoreInline(ns, sess, src) \/ StoreDeferred(ns, sess, src)

ExtractNext ==
    \E turn \in {Head(s) : s \in {inline, queue} \ {<<>>}} :
        \E subj \in Subjects, pred \in Preds \cup {NL}, val \in Vals :
            Extract(NewClaim(turn, subj, pred, val))

UserAction == \E c \in claims : Dismiss(c) \/ \E val \in Vals : Correct(c, val)

Next == Store \/ FinishInline \/ FinishDeferred \/ ExtractNext \/ UserAction

Spec == Init /\ [][Next]_vars
-----------------------------------------------------------------------------
(* Properties. *)

TypeOK ==
    /\ nTurns \in Nat /\ clock \in Nat /\ nActions \in Nat
    /\ inline \in Seq(Turn) /\ queue \in Seq(Turn)
    /\ claims \subseteq Claim /\ live \subseteq claims /\ dismissed \subseteq claims
    /\ edges \subseteq Edge
    /\ drift \subseteq claims \X claims

Replaces(e) == e.type # "contradicts"

\* Every edge leads from an older claim to a newer one of the same namespace, so
\* lineages cannot form a circle and no tenant's claim is ever touched by
\* another's, whatever Pass 1, Pass 2 and corrections did in between.
EdgesForward ==
    \A e \in edges : /\ {e.old, e.new} \subseteq claims
                     /\ e.old.ts < e.new.ts
                     /\ e.old.turn.ns = e.new.turn.ns

\* No replacement, direct, of a copy, semantic or by correction, puts a markedly
\* less trusted source in the place of a more trusted one.
TrustGuard == \A e \in edges : Replaces(e) => ~Blocked(e.new, e.old)

\* A claim is superseded exactly when an edge on record replaced it: nothing
\* vanishes without lineage, and nothing replaced is still served.
RetiredForCause ==
    /\ live \cap dismissed = {}
    /\ \A c \in claims \ dismissed :
          c \in superseded <=> \E e \in edges : e.old = c /\ Replaces(e)

\* The newest edge out of a superseded claim is the one that replaced it, never
\* a refused override recorded later: the redirect of a correction stays on the
\* lineage of the value.
RedirectFollowsReplacement ==
    \A c \in superseded : \A e \in EdgesFrom(c) :
        (\A f \in EdgesFrom(c) : f.ts <= e.ts) => Replaces(e)

\* Following a superseded claim forward always reaches a claim that is not
\* superseded, in the same namespace: a correction is refused only when the
\* user dismissed the value, never because the walk got lost.
HeadIsCurrent ==
    \A c \in superseded : /\ CurrentHead(c) \in live \cup dismissed
                          /\ CurrentHead(c).turn.ns = c.turn.ns

\* Once Pass 1 has replaced a value, no older copy of it from another turn is
\* still current, except where the copy's own source was out of reach.
Pass1Types == {"refines", "assistant_confirm", "user_correction"}

NoStaleCopy ==
    \A e \in edges : e.type \in Pass1Types =>
        \A c \in live : (/\ InPass1Scope(e.new, c)
                         /\ SameValue(c, e.old)) => Blocked(e.new, c)

\* The claims of c's slot that speak of the present.
SlotOf(c) == {d \in claims : SameSlot(c, d) /\ d.val \notin Historical}

\* No two turns of unequal standing, no two claims of one turn, and no speaker
\* who may only contradict, met in it.
Uncontested(slot) ==
    \A c, d \in slot : /\ c # d => c.turn # d.turn /\ ~Blocked(c, d)
                       /\ c.turn.src.speaker # "system"

\* A single-valued slot in which every claim came in a turn of its own, from
\* users and assistants within reach of each other, holds one current value.
OneCurrentValue ==
    \A c, d \in live : /\ c.pred \in SingleValued /\ d \in SlotOf(c) /\ c \in SlotOf(d)
                       /\ Uncontested(SlotOf(c))
                       => SameValue(c, d)

\* A single-valued slot holds one current value, and where the guard kept two,
\* an edge sets one against the other.  (Claims one turn states together are
\* additive by design, so slots where a turn stated two values are left out.)
NoSilentSecondValue ==
    \A c, d \in live : /\ c.pred \in SingleValued /\ d \in SlotOf(c) /\ c \in SlotOf(d)
                       /\ \A x, y \in SlotOf(c) : x # y => x.turn # y.turn
                       /\ ~SameValue(c, d)
                       => \E e \in edges :
                             {Norm[e.old.val], Norm[e.new.val]} = {Norm[c.val], Norm[d.val]}

\* A claim the user stated stops being current only on the word of a user: a
\* newer user claim, a correction or a dismissal.
UserWordStands ==
    [][\A c \in live \ live' :
          c.turn.src = UserSays =>
              \/ c \in dismissed'
              \/ \E e \in edges' : /\ e.old = c /\ Replaces(e)
                                   /\ e.new.turn.src = UserSays]_vars

\* The store keeps the promise of ClaimLedger.
Ledger == INSTANCE ClaimLedger WITH
    known <- claims,
    links <- {<<e.old, e.new>> : e \in {f \in edges : Replaces(f)}}

KeepsLedger == Ledger!Spec
=============================================================================
