-------------------------------- MODULE Upkeep --------------------------------
(***************************************************************************)
(* The jobs that reorganise the claims of one slot, a (subject, predicate):*)
(* consolidate_facts, recompute_all_importance, demote_low_utility and     *)
(* backfill_embeddings.  A server runs the first two in the tick of every  *)
(* 25th turn, the command line runs each of them in a process of its own.  *)
(* Connections are in autocommit, so a job takes effect one statement at a *)
(* time; ingest, corrections and forgetting go on between two of them, and *)
(* the process may die there.                                              *)
(*                                                                         *)
(* Claims are numbered by (created_ts, claim_id).  A score is kept as what *)
(* retention needs of it: whether consolidation's floor of 0.9 stands.     *)
(***************************************************************************)
EXTENDS Naturals, FiniteSets, FiniteSetsExt, Sequences

CONSTANTS
    Procs,        \* processes that run jobs
    Kinds,        \* the jobs they run, of "tick", "consolidate", "reindex", "prune", "backfill"
    Endings,      \* how claims are retired, of "superseded", "dismissed", "forgotten"
    Facts,        \* the [ns, session, value] claims that may be stored
    MinSessions,  \* consolidate_facts(min_sessions)
    MaxClaims,    \* bound: claims stored
    MaxBare,      \* bound: claims left without their row while anything else goes on
    MaxRetired,   \* bound: claims superseded, dismissed or forgotten
    MaxJobs       \* bound: jobs started

ASSUME UpkeepBounds == {MinSessions, MaxClaims, MaxBare, MaxRetired, MaxJobs} \subseteq Nat
ASSUME UpkeepEndings == Endings \subseteq {"superseded", "dismissed", "forgotten"}

VARIABLES
    fact,      \* fact[c]: the [ns, session, value] of claim c
    bare,      \* claims without a row in claim_metadata
    status,    \* status[c]: "live", "superseded", "dismissed" or "forgotten" (deleted)
    demoted,   \* claims with claim_metadata.demoted = 1
    sources,   \* sources[c]: consolidated_sources, {} unless consolidated = 1
    floor,     \* claims whose importance_score is at least 0.9
    vec,       \* claims with a row in claim_embeddings
    leaving,   \* superseded claims whose vector is to be deleted next
    job,       \* job[p]: what process p is at
    jobs,      \* how many jobs have begun
    pruned,    \* claims last demoted by retention
    overlap,   \* whether two jobs ever ran at the same time
    calm,      \* nothing but the running job has written since it began
    overtaken, \* claims superseded while a backfill held them
    passedOver \* canonical claims that had no row to be recorded in

store == <<fact, bare, status, demoted, sources, floor, vec, leaving>>
ghosts == <<pruned, overlap, overtaken, passedOver>>
vars == <<store, job, jobs, calm, ghosts>>

Claims == DOMAIN fact
Idle == [at |-> "idle"]
NoneRuns(j) == \A p \in Procs : j[p] = Idle
Live == {c \in Claims : status[c] = "live"}
Stored == {c \in Claims : status[c] # "forgotten"}
Alike(c, d) == fact[c].ns = fact[d].ns /\ fact[c].value = fact[d].value
Copies(c) == {d \in Live : Alike(c, d)}
Sessions(S) == {fact[c].session : c \in S}

Init ==
    /\ fact = <<>> /\ status = <<>> /\ sources = <<>>
    /\ bare = {} /\ demoted = {} /\ floor = {} /\ vec = {} /\ leaving = {}
    /\ job = [p \in Procs |-> Idle] /\ jobs = 0
    /\ pruned = {} /\ overlap = FALSE /\ calm = TRUE
    /\ overtaken = {} /\ passedOver = {}

-----------------------------------------------------------------------------
(* What goes on between the statements of a job                            *)

\* insert_fact, the claim: it is seen before its claim_metadata row is written
Add(f) ==
    /\ Len(fact) < MaxClaims
    /\ fact' = Append(fact, f)
    /\ status' = Append(status, "live")
    /\ sources' = Append(sources, {})
    /\ bare' = bare \cup {Len(fact) + 1}
    /\ calm' = NoneRuns(job)
    /\ UNCHANGED <<demoted, floor, vec, leaving, job, jobs, ghosts>>

\* insert_fact, the row: never for a claim forgotten meanwhile, whose foreign key
\* fails, nor where the process died after the claim
AddRow(c) ==
    /\ c \in bare \cap Stored
    /\ bare' = bare \ {c}
    /\ calm' = NoneRuns(job)
    /\ UNCHANGED <<fact, status, demoted, sources, floor, vec, leaving, job, jobs, ghosts>>

Holding(c) == \E p \in Procs : job[p].at = "embed" /\ c \in job[p].todo

\* a claim is superseded, dismissed or deleted, its vector with it; of a superseded
\* one the vector there is, or that a backfill is about to write, is still to go
Retire(c, s) ==
    /\ c \in Live /\ Cardinality(Claims \ Live) < MaxRetired
    /\ status' = [status EXCEPT ![c] = s]
    /\ vec' = IF s = "forgotten" THEN vec \ {c} ELSE vec
    /\ leaving' = IF s = "superseded" /\ (c \in vec \/ Holding(c)) THEN leaving \cup {c} ELSE leaving
    /\ overtaken' = IF s = "superseded" /\ Holding(c) THEN overtaken \cup {c} ELSE overtaken
    /\ calm' = NoneRuns(job)
    /\ UNCHANGED <<fact, bare, demoted, sources, floor, job, jobs, pruned, overlap, passedOver>>

\* Mutant: the vector of a superseded claim stays.
KeepVector(c) ==
    /\ c \in leaving
    /\ leaving' = leaving \ {c}
    /\ calm' = NoneRuns(job)
    /\ UNCHANGED <<fact, bare, status, demoted, sources, floor, vec, job, jobs, ghosts>>

\* set_claim_status deletes the vector of a superseded claim in a statement of its
\* own, unless the process died before it
DropVector(c) ==
    /\ c \in leaving
    /\ leaving' = leaving \ {c}
    /\ vec' = vec \ {c}
    /\ calm' = NoneRuns(job)
    /\ UNCHANGED <<fact, bare, status, demoted, sources, floor, job, jobs, ghosts>>

-----------------------------------------------------------------------------
(* Consolidation                                                           *)

Goto(p, j) ==
    /\ job' = [job EXCEPT ![p] = j]
    /\ calm' = (calm \/ NoneRuns(job'))

\* a job takes the claims it listed in the order they were stored
AtNext(p, stage, c) == job[p].at = stage /\ job[p].todo # {} /\ c = Min(job[p].todo)

\* the (namespace, value) pairs live in enough sessions, each by its first claim
Groups ==
    {c \in Live : /\ c = Min(Copies(c))
                  /\ Cardinality(Sessions(Copies(c))) >= MinSessions}

\* a job begins with the query that lists its work
Start(p, kind, first) ==
    /\ kind \in Kinds
    /\ job[p] = Idle /\ jobs < MaxJobs
    /\ jobs' = jobs + 1
    /\ job' = [job EXCEPT ![p] = first]
    /\ overlap' = (overlap \/ ~NoneRuns(job))
    /\ calm' = NoneRuns(job)
    /\ UNCHANGED <<store, pruned, overtaken, passedOver>>

\* the tick of ingest, and the commands of cli.py
Tick(p) == Start(p, "tick", [at |-> "groups", todo |-> Groups, rescore |-> TRUE])
ConsolidateCmd(p) ==
    Start(p, "consolidate", [at |-> "groups", todo |-> Groups, rescore |-> FALSE])
ReindexImportanceCmd(p) == Start(p, "reindex", [at |-> "rescore", todo |-> Live])
PruneMemoryCmd(p) == Start(p, "prune", [at |-> "score", todo |-> Live])
ReindexEmbeddingsCmd(p) ==
    \E some \in {Sessions(Claims)} \cup {{s} : s \in Sessions(Claims)} :
        Start(p, "backfill", [at |-> "sessions", todo |-> some])
Begin(p) == \/ Tick(p) \/ ConsolidateCmd(p) \/ ReindexImportanceCmd(p)
            \/ PruneMemoryCmd(p) \/ ReindexEmbeddingsCmd(p)

Contested(c) == \E d \in Live : fact[d].ns = fact[c].ns /\ fact[d].value # fact[c].value

\* Mutant: the members of every tenant.
MembersOfAll(p, g) ==
    /\ job[p].at = "groups" /\ g \in job[p].todo
    /\ LET ids == {d \in Live : fact[d].value = fact[g].value}
           rest == [job[p] EXCEPT !.todo = @ \ {g}]
       IN Goto(p, IF Contested(g) \/ Cardinality(ids) < 2 THEN rest
                  ELSE [at |-> "graduate", ids |-> ids, back |-> rest])
    /\ UNCHANGED <<store, jobs, ghosts>>

\* The contested check and the members query.  They are two statements: what
\* could come between them could as well come before or after both.
Members(p, g) ==
    /\ job[p].at = "groups" /\ g \in job[p].todo
    /\ LET ids == Copies(g)
           rest == [job[p] EXCEPT !.todo = @ \ {g}]
       IN Goto(p, IF Contested(g) \/ Cardinality(ids) < 2 THEN rest
                  ELSE [at |-> "graduate", ids |-> ids, back |-> rest])
    /\ UNCHANGED <<store, jobs, ghosts>>

\* the claims an UPDATE of claim_metadata finds a row of
Recorded == Stored \ bare

\* Mutant: the copies are demoted before the canonical is reinstated.
GraduateLater(p) ==
    /\ job[p].at = "graduate"
    /\ demoted' = demoted \cup (job[p].ids \cap Recorded)
    /\ pruned' = pruned \ job[p].ids
    /\ Goto(p, [job[p] EXCEPT !.at = "demote"])
    /\ UNCHANGED <<fact, bare, status, sources, floor, vec, leaving, jobs, overlap, overtaken,
                   passedOver>>

\* first the canonical is made durable and reinstated; the UPDATE of a claim
\* forgotten meanwhile, or without its row, touches nothing
Graduate(p) ==
    /\ job[p].at = "graduate"
    /\ LET c == Min(job[p].ids) IN
         IF c \in Recorded
         THEN /\ demoted' = demoted \ {c}
              /\ sources' = [sources EXCEPT ![c] = job[p].ids]
              /\ floor' = floor \cup {c}
              /\ pruned' = pruned \ {c}
              /\ passedOver' = passedOver \ {c}
         ELSE /\ passedOver' = passedOver \cup {c}
              /\ UNCHANGED <<demoted, sources, floor, pruned>>
    /\ Goto(p, [job[p] EXCEPT !.at = "demote", !.ids = @ \ {Min(@)}])
    /\ UNCHANGED <<fact, bare, status, vec, leaving, jobs, overlap, overtaken>>

\* then the copies are demoted, as they were read
DemoteCopies(p) ==
    /\ job[p].at = "demote"
    /\ demoted' = demoted \cup (job[p].ids \cap Recorded)
    /\ pruned' = pruned \ job[p].ids
    /\ Goto(p, job[p].back)
    /\ UNCHANGED <<fact, bare, status, sources, floor, vec, leaving, jobs, overlap, overtaken,
                   passedOver>>

\* the tick goes on to recompute every score
EndPass(p) ==
    /\ job[p].at = "groups" /\ job[p].todo = {}
    /\ Goto(p, IF job[p].rescore THEN [at |-> "rescore", todo |-> Live] ELSE Idle)
    /\ UNCHANGED <<store, jobs, ghosts>>

-----------------------------------------------------------------------------
(* Importance, retention and embeddings                                    *)

\* compute_importance overwrites the floor with a score of six signals
Rescore(p, c) ==
    /\ AtNext(p, "rescore", c)
    /\ floor' = floor \ {c}
    /\ Goto(p, [job[p] EXCEPT !.todo = @ \ {c}])
    /\ UNCHANGED <<fact, bare, status, demoted, sources, vec, leaving, jobs, ghosts>>

\* compute_utility: 0.4 * 0.9 alone is above the default threshold; without the
\* floor age, use and confidence decide; a claim forgotten meanwhile scores 0.5
Score(p, c, low) ==
    /\ AtNext(p, "score", c)
    /\ low => c \in Stored \ floor
    /\ LET rest == [job[p] EXCEPT !.todo = @ \ {c}] IN
         Goto(p, IF low THEN [at |-> "prune", claim |-> c, back |-> rest] ELSE rest)
    /\ UNCHANGED <<store, jobs, ghosts>>

Prune(p) ==
    /\ job[p].at = "prune"
    /\ demoted' = demoted \cup ({job[p].claim} \cap Recorded)
    /\ pruned' = pruned \cup ({job[p].claim} \cap Recorded)
    /\ Goto(p, job[p].back)
    /\ UNCHANGED <<fact, bare, status, sources, floor, vec, leaving, jobs, overlap, overtaken,
                   passedOver>>

\* backfill_embeddings of the next session: the claims it lists, or none of them
\* when the embedder fails
ListMissing(p, s) ==
    /\ AtNext(p, "sessions", s)
    /\ \E todo \in {{c \in Live \ vec : fact[c].session = s}, {}} :
         Goto(p, [at |-> "embed", todo |-> todo, back |-> job[p].todo \ {s}])
    /\ UNCHANGED <<store, jobs, ghosts>>

\* after the embedder answered, a row per claim read before; the foreign key of
\* a claim forgotten meanwhile makes the INSERT raise and ends the command
Embed(p, c) ==
    /\ AtNext(p, "embed", c)
    /\ IF c \in Stored
       THEN vec' = vec \cup {c} /\ Goto(p, [job[p] EXCEPT !.todo = @ \ {c}])
       ELSE Goto(p, Idle) /\ UNCHANGED vec
    /\ UNCHANGED <<fact, bare, status, demoted, sources, floor, leaving, jobs, ghosts>>

\* a job, or what it does for one session, is through
End(p) ==
    /\ job[p].at \in {"rescore", "score", "embed", "sessions"} /\ job[p].todo = {}
    /\ Goto(p, IF job[p].at = "embed" THEN [at |-> "sessions", todo |-> job[p].back] ELSE Idle)
    /\ UNCHANGED <<store, jobs, ghosts>>

\* the process dies
Die(p) ==
    /\ job[p] # Idle
    /\ Goto(p, Idle)
    /\ UNCHANGED <<store, jobs, ghosts>>

Next ==
    \/ \E c \in Claims : AddRow(c)
    \/ /\ Cardinality(bare) <= MaxBare
       /\ \/ \E f \in Facts : Add(f)
          \/ \E c \in Claims : DropVector(c) \/ \E s \in Endings : Retire(c, s)
          \/ \E p \in Procs :
               \/ Begin(p)
               \/ \E s \in Sessions(Claims) : ListMissing(p, s)
               \/ \E c \in Claims : \/ Members(p, c) \/ Rescore(p, c) \/ Embed(p, c)
                                    \/ \E low \in BOOLEAN : Score(p, c, low)
               \/ Graduate(p) \/ DemoteCopies(p) \/ EndPass(p) \/ Prune(p) \/ End(p) \/ Die(p)

Spec == Init /\ [][Next]_vars

-----------------------------------------------------------------------------
Stages == {"idle", "groups", "graduate", "demote", "rescore", "score", "prune",
           "sessions", "embed"}

TypeOK ==
    /\ fact \in Seq(Facts) /\ Len(fact) <= MaxClaims
    /\ status \in [Claims -> {"live", "superseded", "dismissed", "forgotten"}]
    /\ sources \in [Claims -> SUBSET Claims]
    /\ bare \cup demoted \cup floor \cup vec \cup leaving \subseteq Claims
    /\ pruned \cup overtaken \cup passedOver \subseteq Claims
    /\ vec \subseteq Stored
    /\ \A p \in Procs : job[p].at \in Stages
    /\ jobs \in 0 .. MaxJobs /\ {overlap, calm} \subseteq BOOLEAN

\* Every live claim that consolidation took out of retrieval was demoted for an
\* earlier claim of its own tenant saying the same, made the canonical one unless
\* it was forgotten or had no row to be made so in, and consolidation has not
\* demoted that claim in its turn.  As long as no two jobs ran at the same time,
\* whatever was retired, pruned, stored or cut short meanwhile, the canonical claim
\* names it among its sources, too.
CopiesAreCovered ==
    \A c \in Live \cap (demoted \ pruned) :
        \E d \in 1 .. c - 1 :
            /\ Alike(c, d)
            /\ \/ status[d] = "forgotten"
               \/ d \in passedOver
               \/ sources[d] # {} /\ (overlap \/ c \in sources[d])
            /\ (overlap \/ d \in Live) => (d \notin demoted \/ d \in pruned)

\* A consolidation pass nothing else wrote into leaves of every uncontested fact
\* recurring in enough sessions its earliest claim in retrieval, and of the others
\* only those without a row to be demoted in; the earliest, if it has a row, has
\* all the claims it stands for recorded.
PassSettles ==
    [][\A p \in Procs :
         EndPass(p) /\ calm =>
             \A c \in Groups : ~Contested(c) /\ Cardinality(Copies(c)) > 1 =>
                 /\ Copies(c) \ demoted = {c} \cup (Copies(c) \cap bare)
                 /\ c \in bare \/ sources[c] = Copies(c)]_vars

\* A superseded claim has an embedding only as long as whoever superseded it has
\* not come to delete it, which is for ever if its process died there, or if it was
\* superseded while a backfill was writing what it had read before.
SupersededHasNoVector ==
    \A c \in vec : status[c] = "superseded" => c \in leaving \cup overtaken
===============================================================================
