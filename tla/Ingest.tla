-------------------------------- MODULE Ingest --------------------------------
(***************************************************************************)
(* The same handlers as Supersession, one database statement at a time.    *)
(* Every connection runs in autocommit mode (schema.open_database), so the *)
(* servers, the extraction worker and the CLI that share one database file *)
(* interleave between any two statements, and a process that dies leaves   *)
(* behind whatever it had written.                                         *)
(*                                                                         *)
(* A process handles one job at a time: extracting one claim from a turn   *)
(* of its own (insert_fact, then detect_pass1 and, when that replaced      *)
(* nothing, SemanticSupersession.detect), or correcting a claim.           *)
(***************************************************************************)
EXTENDS ClaimRules, FiniteSets

CONSTANTS
    Procs,          \* the processes (connections) that write
    Semantic,       \* is an embedder configured, so that Pass 2 runs?
    MaxClaims,      \* bound: jobs that insert a claim
    MaxUserActions, \* bound: corrections and dismissals
    MaxMishaps      \* bound: processes killed and restarted, and calls of time_ns
                    \* that read the tick of the call before

VARIABLES
    wall,      \* the wall clock all processes read
    last,      \* last[p]: the last stamp p's now_ns returned
    stalls,    \* calls of time_ns that found the clock where it was
    pc,        \* pc[p]: the statement p executes next
    new,       \* new[p]: the claim p is inserting (a set of at most one)
    old,       \* old[p]: the claim p is replacing (a set of at most one)
    how,       \* how[p]: the type of the edges p is to write, "none" before it is known
    rows,      \* rows[p]: what p's candidate query returned, still to visit
    claims,    \* the claims table
    meta,      \* claims whose claim_metadata row is written
    live,      \* claims whose status is active
    dismissed, \* claims whose status is dismissed; the others are superseded
    closed,    \* claims whose valid_until_ts is set
    edges,     \* the supersession_edges table
    drift,     \* <<old, new>>: the drift_blocked rows of the decisions table
    jobs,      \* jobs started so far: [claims, userActions, crashes]
    byUser     \* the claims inserted by corrections

clock == <<wall, last, stalls>>
locals == <<new, old, how, rows>>
tables == <<claims, meta, live, dismissed, closed, edges, drift>>
vars == <<clock, pc, locals, tables, jobs, byUser>>

Steps == {"idle", "insert", "meta", "match", "guard", "audit", "link", "retire", "close",
          "copies", "look", "embed"}

ASSUME SemanticAssumption == Semantic \in BOOLEAN

superseded == claims \ (live \cup dismissed)

Init ==
    /\ wall = 1 /\ stalls = 0 /\ last = [p \in Procs |-> 0]
    /\ pc = [p \in Procs |-> "idle"] /\ how = [p \in Procs |-> "none"]
    /\ new = [p \in Procs |-> {}] /\ old = new /\ rows = new
    /\ claims = {} /\ meta = {} /\ live = {} /\ dismissed = {} /\ closed = {}
    /\ edges = {} /\ drift = {} /\ byUser = {}
    /\ jobs = [claims |-> 0, userActions |-> 0, crashes |-> 0]

-----------------------------------------------------------------------------
Goto(p, step) == pc' = [pc EXCEPT ![p] = step]
At(p, step) == pc[p] = step

\* p goes on to a step with a target, the type of its edge and rows to visit; a
\* job that ends leaves nothing behind in p.
Resume(p, step, target, type, rest) ==
    /\ Goto(p, step)
    /\ new' = [new EXCEPT ![p] = {n \in @ : step # "idle"}]
    /\ old' = [old EXCEPT ![p] = {o \in target : step # "idle"}]
    /\ how' = [how EXCEPT ![p] = IF step = "idle" THEN "none" ELSE type]
    /\ rows' = [rows EXCEPT ![p] = {c \in rest : step # "idle"}]

Spend(kind, bound) ==
    /\ jobs[kind] < bound
    /\ jobs' = [jobs EXCEPT ![kind] = @ + 1]

\* What now_ns can return in p: the wall clock, or one past p's last stamp when
\* the clock has not moved beyond it.
Ticks == {wall + 1} \cup {t \in {wall} : stalls + jobs.crashes < MaxMishaps}
Stamp(p, tick) == IF tick > last[p] THEN tick ELSE last[p] + 1
Stamped(p, tick) ==
    /\ wall' = tick
    /\ stalls' = IF tick = wall THEN stalls + 1 ELSE stalls
    /\ last' = [last EXCEPT ![p] = Stamp(p, tick)]

Draft(p, tick, turn, subj, pred, val) ==
    [ts |-> Stamp(p, tick), turn |-> turn, subj |-> subj, pred |-> pred, val |-> val]

TurnFrom(ns, sess, src) == [no |-> jobs.claims + 1, ns |-> ns, sess |-> sess, src |-> src]

\* claim_trust: 0.5 while the claim's metadata row is not there.
ReadTrust(c) == IF c \in meta THEN TrustOf(c.turn.src) ELSE 50
ReadBlocked(n, o) == OutOfReach(ReadTrust(n), ReadTrust(o))

\* write_supersession_edge
AddEdge(p, tick) ==
    /\ Stamped(p, tick)
    /\ edges' = edges \cup {[old |-> o, new |-> n, type |-> how[p], ts |-> Stamp(p, tick)] :
                              o \in old[p], n \in new[p]}

-----------------------------------------------------------------------------
(* insert_fact. *)

\* The turn is stored and a claim of it is stamped, before its row is written.
BeginExtract(p, turn, subj, pred, val) ==
    /\ At(p, "idle") /\ Spend("claims", MaxClaims)
    /\ \E tick \in Ticks :
          /\ Stamped(p, tick)
          /\ new' = [new EXCEPT ![p] = {Draft(p, tick, turn, subj, pred, val)}]
    /\ Goto(p, "insert")
    /\ UNCHANGED <<old, how, rows, tables, byUser>>

InsertRow(p) ==
    /\ At(p, "insert") /\ Goto(p, "meta")
    /\ claims' = claims \cup new[p]
    /\ live' = live \cup new[p]
    /\ UNCHANGED <<clock, locals, meta, dismissed, closed, edges, drift, jobs, byUser>>

\* A correction, which has its target, goes straight on to the edge.
InsertMeta(p) ==
    /\ At(p, "meta") /\ Goto(p, IF old[p] = {} THEN "match" ELSE "link")
    /\ meta' = meta \cup new[p]
    /\ UNCHANGED <<clock, locals, claims, live, dismissed, closed, edges, drift, jobs, byUser>>

-----------------------------------------------------------------------------
(* detect_pass1. *)

\* The one SELECT whose rows the rest of the call works from.  Of claims that two
\* processes stamped alike, either may come first.
Match(p) ==
    \E n \in new[p] :
        LET found == {c \in live : InPass1Scope(n, c)}
            matches == Pass1Match(n, found)
        IN  /\ At(p, "match")
            /\ \/ \E o \in matches : Resume(p, "guard", {o}, "none", found \ {o})
               \/ matches = {} /\ Resume(p, IF Semantic THEN "look" ELSE "idle", {}, "none", {})
            /\ UNCHANGED <<clock, tables, jobs, byUser>>

\* Mutant: the old claim is retired before its edge is written.
RetireFirst(p) ==
    \E n \in new[p], o \in old[p] :
        /\ At(p, "guard")
        /\ how' = [how EXCEPT ![p] = IF ReadBlocked(n, o) THEN "contradicts" ELSE Classify(n, o)]
        /\ Goto(p, IF ReadBlocked(n, o) THEN "audit"
                   ELSE IF Classify(n, o) = "contradicts" THEN "link" ELSE "retire")
        /\ rows' = [rows EXCEPT ![p] = {c \in @ : SameValue(c, o)}]
        /\ UNCHANGED <<clock, new, old, tables, jobs, byUser>>

\* What the edge says of the match holds for the copies of its value as well.
Guard(p) ==
    \E n \in new[p], o \in old[p] :
        /\ At(p, "guard")
        /\ how' = [how EXCEPT ![p] = IF ReadBlocked(n, o) THEN "contradicts" ELSE Classify(n, o)]
        /\ Goto(p, IF ReadBlocked(n, o) THEN "audit" ELSE "link")
        /\ rows' = [rows EXCEPT ![p] = {c \in @ : SameValue(c, o)}]
        /\ UNCHANGED <<clock, new, old, tables, jobs, byUser>>

Audit(p) ==
    /\ At(p, "audit") /\ Goto(p, "link")
    /\ drift' = drift \cup (old[p] \X new[p])
    /\ UNCHANGED <<clock, locals, claims, meta, live, dismissed, closed, edges, jobs, byUser>>

\* The edge; a contradiction ends the job there.
Link(p) ==
    /\ At(p, "link")
    /\ IF how[p] = "contradicts" THEN Resume(p, "idle", {}, "none", {})
       ELSE Goto(p, "retire") /\ UNCHANGED locals
    /\ \E tick \in Ticks : AddEdge(p, tick)
    /\ UNCHANGED <<claims, meta, live, dismissed, closed, drift, jobs, byUser>>

\* set_claim_status by claim_id alone: whatever the status has become meanwhile.
Retire(p) ==
    /\ At(p, "retire") /\ Goto(p, "close")
    /\ live' = live \ old[p]
    /\ dismissed' = dismissed \ old[p]
    /\ UNCHANGED <<clock, locals, claims, meta, closed, edges, drift, jobs, byUser>>

\* Mutant: the comparison of the two stamps is turned round.
CloseBackwards(p) ==
    /\ At(p, "close")
    /\ Resume(p, IF rows[p] = {} THEN "idle" ELSE "copies", {}, how[p], rows[p])
    /\ closed' = closed \cup {o \in old[p] : last[p] < o.ts}
    /\ UNCHANGED <<clock, claims, meta, live, dismissed, edges, drift, jobs, byUser>>

Close(p) ==
    /\ At(p, "close")
    /\ Resume(p, IF rows[p] = {} THEN "idle" ELSE "copies", {}, how[p], rows[p])
    /\ closed' = closed \cup {o \in old[p] : o.ts < last[p]}
    /\ UNCHANGED <<clock, claims, meta, live, dismissed, edges, drift, jobs, byUser>>

\* The next copy of the replaced value, newest first; one whose source is out of
\* reach is passed over.
NextCopy(p) ==
    \E n \in new[p], c \in Newest(rows[p]) :
        /\ At(p, "copies")
        /\ IF ReadBlocked(n, c)
           THEN Resume(p, IF rows[p] = {c} THEN "idle" ELSE "copies", {}, how[p], rows[p] \ {c})
           ELSE Resume(p, "link", {c}, how[p], rows[p] \ {c})
        /\ UNCHANGED <<clock, tables, jobs, byUser>>

-----------------------------------------------------------------------------
(* SemanticSupersession.detect: no copies are looked for, and a refusal leaves *)
(* no trace.                                                                   *)

\* Mutant: a claim stated at the same tick takes part.
LookAround(p) ==
    \E n \in new[p] :
        LET found == {c \in live \ {n} : c.turn.ns = n.turn.ns /\ c.pred = n.pred}
        IN  /\ At(p, "look")
            /\ Resume(p, IF found = {} \/ Restates(n, found) THEN "idle" ELSE "embed",
                      {}, "none", found)
            /\ UNCHANGED <<clock, tables, jobs, byUser>>

\* The SELECT; a restatement in it makes Pass 2 stand back.
Look(p) ==
    \E n \in new[p] :
        LET found == {c \in live : InPass2Scope(n, c)}
        IN  /\ At(p, "look")
            /\ Resume(p, IF found = {} \/ Restates(n, found) THEN "idle" ELSE "embed",
                      {}, "none", found)
            /\ UNCHANGED <<clock, tables, jobs, byUser>>

\* The embedder answers, however long after: none of the rows is close enough
\* (or the embedder failed), or one of them is the closest. The status tested on
\* it is the one the SELECT returned; the trust of the two is read now.
Embed(p) ==
    /\ At(p, "embed")
    /\ \/ Resume(p, "idle", {}, "none", {})
       \/ \E n \in new[p], c \in rows[p] :
             ~ReadBlocked(n, c) /\ Resume(p, "link", {c}, "semantic_replace", {})
    /\ UNCHANGED <<clock, tables, jobs, byUser>>

-----------------------------------------------------------------------------
(* The user's actions, and crashes. *)

\* memory_correct with the slot's head for target (Supersession follows the
\* redirect from older claims): the target is read now and replaced later.
BeginCorrect(p, target, val) ==
    /\ At(p, "idle") /\ target \in live
    /\ jobs.claims < MaxClaims /\ jobs.userActions < MaxUserActions
    /\ jobs' = [jobs EXCEPT !.claims = @ + 1, !.userActions = @ + 1]
    /\ \E tick \in Ticks :
          LET turn == TurnFrom(target.turn.ns, target.turn.sess, UserSays)
              n == Draft(p, tick, turn, target.subj, target.pred, val)
          IN  /\ Stamped(p, tick)
              /\ new' = [new EXCEPT ![p] = {n}]
              /\ byUser' = byUser \cup {n}
    /\ old' = [old EXCEPT ![p] = {target}]
    /\ how' = [how EXCEPT ![p] = "user_correction"]
    /\ Goto(p, "insert")
    /\ UNCHANGED <<rows, tables>>

Dismiss(c) ==
    /\ Spend("userActions", MaxUserActions)
    /\ live' = live \ {c}
    /\ dismissed' = dismissed \cup {c}
    /\ UNCHANGED <<clock, pc, locals, claims, meta, closed, edges, drift, byUser>>

\* The process dies between two statements; the one started in its place knows
\* neither the job nor the last stamp.
Crash(p) ==
    /\ ~At(p, "idle") /\ Spend("crashes", MaxMishaps - stalls)
    /\ Resume(p, "idle", {}, "none", {})
    /\ last' = [last EXCEPT ![p] = 0]
    /\ UNCHANGED <<wall, stalls, tables, byUser>>

-----------------------------------------------------------------------------
Step(p) ==
    \/ InsertRow(p) \/ InsertMeta(p)
    \/ Match(p) \/ Guard(p) \/ Audit(p)
    \/ Link(p) \/ Retire(p) \/ Close(p) \/ NextCopy(p)
    \/ Look(p) \/ Embed(p)

Begin(p) ==
    \/ \E ns \in Namespaces, sess \in Sessions, src \in Sources,
          subj \in Subjects, pred \in Preds, val \in Vals :
          BeginExtract(p, TurnFrom(ns, sess, src), subj, pred, val)
    \/ \E target \in claims, val \in Vals : BeginCorrect(p, target, val)

Next ==
    \/ \E p \in Procs : Begin(p) \/ Step(p) \/ Crash(p)
    \/ \E c \in claims : Dismiss(c)

Spec == Init /\ [][Next]_vars
-----------------------------------------------------------------------------
(* Properties. *)

Edge == [old : Claim, new : Claim, type : EdgeTypes, ts : Nat]
Replaces(e) == e.type # "contradicts"
Quiet == \A p \in Procs : At(p, "idle")

TypeOK ==
    /\ wall \in Nat /\ stalls \in Nat /\ last \in [Procs -> Nat] /\ pc \in [Procs -> Steps]
    /\ new \in [Procs -> SUBSET Claim]
    /\ old \in [Procs -> SUBSET claims] /\ rows \in [Procs -> SUBSET claims]
    /\ how \in [Procs -> EdgeTypes \cup {"none"}]
    /\ claims \subseteq Claim /\ meta \subseteq claims
    /\ live \subseteq claims /\ dismissed \subseteq claims /\ closed \subseteq claims
    /\ edges \subseteq Edge /\ drift \subseteq Claim \X Claim
    /\ byUser \subseteq Claim
    /\ jobs \in [{"claims", "userActions", "crashes"} -> Nat]

\* However writers interleave, and even when their clocks coincide, detection
\* only ever replaces a strictly older claim of another turn and the same tenant,
\* Pass 1 inside the slot and Pass 2 across the subjects of a predicate: two
\* near-concurrent writers cannot supersede each other.
LooksBack ==
    \A e \in edges : e.new \notin byUser =>
        /\ e.old.ts < e.new.ts /\ e.old.turn # e.new.turn
        /\ IF e.type = "semantic_replace" THEN InPass2Scope(e.new, e.old)
           ELSE SameSlot(e.old, e.new)

\* Wherever writers are stopped, between any two statements, a claim that is
\* superseded has the edge that replaced it on record.
RetiredWithLineage ==
    \A c \in superseded : \E e \in edges : e.old = c /\ Replaces(e)

\* The as-of views and the current view agree.  A current claim never has a closed
\* validity window; once the writers are done, and none was killed halfway, a
\* claim some edge replaced is no longer current and its window is closed, except
\* where clocks ran so close that the edge's stamp is not past the claim's.
WindowsAgree ==
    /\ live \cap closed = {}
    /\ Quiet /\ jobs.crashes = 0 =>
          \A e \in edges : Replaces(e) =>
              e.old \notin live /\ (e.old.ts < e.ts => e.old \in closed)
=============================================================================
