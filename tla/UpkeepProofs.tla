----------------------------- MODULE UpkeepProofs -----------------------------
(***************************************************************************)
(* What consolidation, retention and backfill guarantee for every set of   *)
(* processes and facts and however many claims, retirements and jobs there *)
(* are: a demoted copy has an earlier claim it was demoted for, a pass     *)
(* that is left alone settles its facts, and a superseded claim keeps a    *)
(* vector only where its deletion was cut short or a backfill held it.     *)
(* Claims may be without their metadata row, for a moment or for ever.     *)
(***************************************************************************)
EXTENDS Upkeep, FiniteSetTheorems, SequenceTheorems, WellFoundedInduction, TLAPS

-----------------------------------------------------------------------------
(* Types *)

GroupsJobs(C) == [at : {"groups"}, todo : SUBSET C, rescore : BOOLEAN]
ScoreJobs(C) == [at : {"score"}, todo : SUBSET C]

JobsOver(C) ==
    {Idle} \cup GroupsJobs(C) \cup ScoreJobs(C)
    \cup [at : {"graduate"}, ids : (SUBSET C) \ {{}}, back : GroupsJobs(C)]
    \cup [at : {"demote"}, ids : SUBSET C, back : GroupsJobs(C)]
    \cup [at : {"rescore"}, todo : SUBSET C]
    \cup [at : {"prune"}, claim : C, back : ScoreJobs(C)]
    \cup [at : {"sessions"}, todo : SUBSET {f.session : f \in Facts}]
    \cup [at : {"embed"}, todo : SUBSET C, back : SUBSET {f.session : f \in Facts}]

StoreTypes ==
    /\ fact \in Seq(Facts) /\ Len(fact) <= MaxClaims
    /\ status \in Seq({"live", "superseded", "dismissed", "forgotten"})
    /\ Len(status) = Len(fact)
    /\ sources \in Seq(SUBSET Claims) /\ Len(sources) = Len(fact)
    /\ bare \subseteq Claims /\ demoted \subseteq Claims /\ floor \subseteq Claims
    /\ vec \subseteq Stored /\ leaving \subseteq Claims
    /\ pruned \subseteq Claims /\ overtaken \subseteq Claims /\ passedOver \subseteq Claims

JobTypes ==
    /\ job \in [Procs -> JobsOver(Claims)]
    /\ jobs \in 0 .. MaxJobs /\ overlap \in BOOLEAN /\ calm \in BOOLEAN

\* A nonempty set of numbers has a least element, which is its Min.
LEMMA Smallest ==
    ASSUME NEW S, S \subseteq Nat, S # {}
    PROVE  \E x \in S : \A y \in S : x <= y
  <1>1. PICK m \in S : m \in Nat
    OBVIOUS
  <1> DEFINE U == 0 .. m
             Below(x) == {y \in U : y \in S /\ y <= x}
             T == {C \in SUBSET U : \E x \in S : x <= m /\ C = Below(x)}
  <1>2. IsFiniteSet(U)
    BY <1>1, FS_Interval
  <1>3. T \subseteq FiniteSubsetsOf(U) /\ T # {}
    <2>1. Below(m) \in T
      BY <1>1
    <2>2. FiniteSubsetsOf(U) = SUBSET U
      BY <1>2, FS_FiniteSubsetsOfFinite
    <2> QED
      BY <2>1, <2>2
  <1> HIDE DEF T
  <1>4. PICK B \in T : \A C \in T : ~(<<C, B>> \in StrictSubsetOrdering(U))
    BY <1>3, FS_StrictSubsetOrderingWellFounded, WFMin
  <1>5. PICK x \in S : x <= m /\ B = Below(x)
    BY <1>4 DEF T
  <1>6. ASSUME NEW y \in S, y < x PROVE FALSE
    <2>1. Below(y) \in T
      BY <1>1, <1>5, <1>6 DEF T
    <2>2. Below(y) \subseteq B /\ x \in B /\ x \notin Below(y)
      BY <1>1, <1>5, <1>6
    <2>3. <<Below(y), B>> \in StrictSubsetOrdering(U)
      BY <2>1, <2>2, <1>4 DEF StrictSubsetOrdering, T
    <2> QED
      BY <1>4, <2>1, <2>3
  <1> QED
    BY <1>6

LEMMA MinIsLeast ==
    ASSUME NEW S, S \subseteq Nat, S # {}
    PROVE  Min(S) \in S /\ \A x \in S : Min(S) <= x
  BY Smallest DEF Min

LEMMA ClaimsAreNumbers ==
    ASSUME StoreTypes
    PROVE  /\ Claims = 1 .. Len(fact) /\ Claims \subseteq Nat
           /\ DOMAIN status = Claims /\ DOMAIN sources = Claims
  BY DEF StoreTypes, Claims

\* What a job of each stage carries.
LEMMA JobFields ==
    ASSUME JobTypes, NEW p \in Procs
    PROVE  /\ job[p].at = "groups" => job[p] \in GroupsJobs(Claims)
           /\ job[p].at = "score" => job[p] \in ScoreJobs(Claims)
           /\ job[p].at \in {"graduate", "demote"} =>
                job[p] \in [at : {"graduate", "demote"}, ids : SUBSET Claims, back : GroupsJobs(Claims)]
           /\ job[p].at = "graduate" => job[p].ids # {}
           /\ job[p].at = "rescore" => job[p] \in [at : {"rescore"}, todo : SUBSET Claims]
           /\ job[p].at = "prune" => job[p] \in [at : {"prune"}, claim : Claims, back : ScoreJobs(Claims)]
           /\ job[p].at = "sessions" =>
                job[p] \in [at : {"sessions"}, todo : SUBSET {f.session : f \in Facts}]
           /\ job[p].at = "embed" =>
                job[p] \in [at : {"embed"}, todo : SUBSET Claims,
                            back : SUBSET {f.session : f \in Facts}]
  BY DEF JobTypes, JobsOver, GroupsJobs, ScoreJobs, Idle

\* A job over some claims is a job over more.
LEMMA JobsGrow ==
    ASSUME NEW C, NEW D, C \subseteq D
    PROVE  JobsOver(C) \subseteq JobsOver(D)
  BY DEF JobsOver, GroupsJobs, ScoreJobs

-----------------------------------------------------------------------------
(* What each kind of step does *)

LEMMA Adding ==
    ASSUME StoreTypes, NEW f \in Facts, Add(f)
    PROVE  \E n \in Nat :
             /\ Claims' = Claims \cup {n} /\ n \notin Claims /\ \A c \in Claims : c < n
             /\ fact'[n] = f /\ status'[n] = "live" /\ sources'[n] = {}
             /\ \A c \in Claims : /\ fact'[c] = fact[c] /\ status'[c] = status[c]
                                  /\ sources'[c] = sources[c]
             /\ n = Len(fact) + 1
  <1> DEFINE n == Len(fact) + 1
  <1>1. /\ Claims = 1 .. Len(fact) /\ n \in Nat
    BY ClaimsAreNumbers DEF StoreTypes
  <1>2. /\ Len(fact') = n /\ fact'[n] = f /\ \A c \in 1 .. Len(fact) : fact'[c] = fact[c]
        /\ fact' \in Seq(Facts)
    BY AppendProperties, <1>1 DEF StoreTypes, Add
  <1>3. /\ status'[n] = "live" /\ \A c \in 1 .. Len(fact) : status'[c] = status[c]
    BY AppendProperties, <1>1 DEF StoreTypes, Add
  <1>4. /\ sources'[n] = {} /\ \A c \in 1 .. Len(fact) : sources'[c] = sources[c]
    BY AppendProperties, <1>1 DEF StoreTypes, Add
  <1>5. Claims' = 1 .. n
    BY <1>2 DEF Claims
  <1> QED
    BY <1>1, <1>2, <1>3, <1>4, <1>5

LEMMA Retiring ==
    ASSUME StoreTypes, NEW c \in Claims, NEW s \in Endings, Retire(c, s)
    PROVE  /\ Claims' = Claims /\ c \in Live /\ Live' = Live \ {c}
           /\ \A d \in Claims : status'[d] = IF d = c THEN s ELSE status[d]
           /\ UNCHANGED <<fact, bare, sources, demoted, pruned, overlap, passedOver, job>>
  <1>1. DOMAIN status = Claims /\ Claims' = Claims /\ c \in Live
    BY ClaimsAreNumbers DEF Retire, Claims
  <1>2. \A d \in Claims : status'[d] = IF d = c THEN s ELSE status[d]
    BY <1>1 DEF Retire
  <1> QED
    BY <1>1, <1>2, UpkeepEndings DEF Live, Retire

\* The claims a job is given are numbered, so it takes the next one from its list.
LEMMA TakesNext ==
    ASSUME StoreTypes, JobTypes, NEW p \in Procs, NEW c,
           NEW stage \in {"rescore", "score", "embed"}, AtNext(p, stage, c)
    PROVE  c \in job[p].todo /\ c \in Claims /\ job[p].todo \subseteq Claims
  <1>1. job[p].todo \subseteq Claims /\ job[p].todo # {} /\ c = Min(job[p].todo)
    BY JobFields DEF AtNext, ScoreJobs
  <1>2. job[p].todo \subseteq Nat
    BY <1>1, ClaimsAreNumbers
  <1> QED
    BY <1>1, <1>2, MinIsLeast

-----------------------------------------------------------------------------
(* Type correctness *)

LEMMA StoreTypeStep == StoreTypes /\ JobTypes /\ Next => StoreTypes'
  <1> SUFFICES ASSUME StoreTypes, JobTypes, Next PROVE StoreTypes'
    OBVIOUS
  <1> DEFINE Statuses == {"live", "superseded", "dismissed", "forgotten"}
  <1> USE ClaimsAreNumbers
  <1>1. ASSUME NEW f \in Facts, Add(f) PROVE StoreTypes'
    <2>1. PICK n \in Nat : /\ Claims' = Claims \cup {n} /\ n \notin Claims /\ n = Len(fact) + 1
                           /\ status'[n] = "live"
                           /\ \A c \in Claims : status'[c] = status[c]
      BY <1>1, Adding
    <2>2. sources \in Seq(SUBSET (Claims')) /\ {} \in SUBSET (Claims')
      BY <2>1 DEF StoreTypes
    <2>3. /\ fact' \in Seq(Facts) /\ Len(fact') = Len(fact) + 1
          /\ status' \in Seq(Statuses) /\ Len(status') = Len(status) + 1
          /\ sources' \in Seq(SUBSET (Claims')) /\ Len(sources') = Len(sources) + 1
      BY <1>1, <2>2, AppendProperties DEF StoreTypes, Add
    <2>4. Len(fact) + 1 <= MaxClaims
      BY <1>1, UpkeepBounds DEF Add, StoreTypes
    <2>5. vec' \subseteq Stored'
      BY <1>1, <2>1 DEF Add, Stored, StoreTypes
    <2>6. bare' \subseteq Claims'
      BY <1>1, <2>1 DEF Add, StoreTypes
    <2> QED
      BY <1>1, <2>1, <2>3, <2>4, <2>5, <2>6 DEF Add, ghosts, StoreTypes
  <1>2. ASSUME NEW c \in Claims, NEW s \in Endings, Retire(c, s) PROVE StoreTypes'
    <2>1. status' \in Seq(Statuses) /\ Len(status') = Len(status)
      BY <1>2, UpkeepEndings, ExceptSeq DEF Retire, StoreTypes
    <2>2. vec' \subseteq Stored'
      BY <1>2, Retiring DEF Retire, Stored, StoreTypes
    <2>3. /\ vec' \subseteq vec /\ leaving' \subseteq leaving \cup {c}
          /\ overtaken' \subseteq overtaken \cup {c} /\ UNCHANGED passedOver
      BY <1>2 DEF Retire
    <2>4. Claims' = Claims
      BY <1>2, Retiring
    <2> QED
      BY <1>2, <2>1, <2>2, <2>3, <2>4 DEF Retire, StoreTypes
  <1>3. ASSUME UNCHANGED <<fact, status, sources>>,
               bare' \subseteq bare, leaving' \subseteq leaving, UNCHANGED overtaken,
               demoted' \cup floor' \cup pruned' \cup passedOver' \subseteq Claims,
               vec' \subseteq Stored
        PROVE  StoreTypes'
    <2>1. Claims' = Claims /\ Stored' = Stored
      BY <1>3 DEF Claims, Stored
    <2> QED
      BY <1>3, <2>1 DEF StoreTypes
  <1>4. ASSUME NEW p \in Procs, Begin(p) PROVE StoreTypes'
    BY <1>3, <1>4 DEF Begin, Tick, ConsolidateCmd, ReindexImportanceCmd, PruneMemoryCmd,
           ReindexEmbeddingsCmd, Start, store, StoreTypes
  <1>5. ASSUME NEW p \in Procs, NEW c \in Claims,
               Members(p, c) \/ Rescore(p, c) \/ (\E low \in BOOLEAN : Score(p, c, low))
        PROVE  StoreTypes'
    BY <1>3, <1>5 DEF Members, Rescore, Score, store, ghosts, StoreTypes
  <1>6. ASSUME NEW p \in Procs, NEW c \in Claims, Embed(p, c) PROVE StoreTypes'
    BY <1>3, <1>6 DEF Embed, ghosts, StoreTypes
  <1>7. ASSUME NEW p \in Procs, DemoteCopies(p) \/ Prune(p) PROVE StoreTypes'
    BY <1>3, <1>7 DEF DemoteCopies, Prune, Recorded, Stored, StoreTypes
  <1>8. ASSUME NEW p \in Procs, NEW s, ListMissing(p, s) PROVE StoreTypes'
    BY <1>3, <1>8 DEF ListMissing, store, ghosts, StoreTypes
  <1>9. ASSUME NEW p \in Procs, EndPass(p) \/ End(p) \/ Die(p) PROVE StoreTypes'
    BY <1>3, <1>9 DEF EndPass, End, Die, store, ghosts, StoreTypes
  <1>10. ASSUME NEW p \in Procs, Graduate(p) PROVE StoreTypes'
    <2> DEFINE c == Min(job[p].ids)
    <2>1. job[p].ids \subseteq Claims /\ c \in Claims
      BY <1>10, JobFields, MinIsLeast DEF Graduate
    <2>2. CASE c \in Recorded
      <3>1. sources' = [sources EXCEPT ![c] = job[p].ids] /\ c \in Claims
        BY <1>10, <2>1, <2>2 DEF Graduate
      <3>2. sources' \in Seq(SUBSET Claims) /\ Len(sources') = Len(sources)
        BY <2>1, <3>1, ExceptSeq DEF StoreTypes
      <3>3. Claims' = Claims /\ Stored' = Stored
        BY <1>10 DEF Graduate, Claims, Stored
      <3> QED
        BY <1>10, <2>2, <3>1, <3>2, <3>3 DEF Graduate, StoreTypes
    <2>3. CASE c \notin Recorded
      BY <1>3, <1>10, <2>1, <2>3 DEF Graduate, StoreTypes
    <2> QED
      BY <2>2, <2>3
  <1>11. ASSUME NEW c \in Claims, AddRow(c) \/ DropVector(c) PROVE StoreTypes'
    BY <1>3, <1>11 DEF AddRow, DropVector, ghosts, StoreTypes
  <1> QED
    BY <1>1, <1>2, <1>4, <1>5, <1>6, <1>7, <1>8, <1>9, <1>10, <1>11 DEF Next

LEMMA JobTypeStep == StoreTypes /\ JobTypes /\ Next => JobTypes'
  <1> SUFFICES ASSUME StoreTypes, JobTypes, Next PROVE JobTypes'
    OBVIOUS
  <1> USE ClaimsAreNumbers
  <1>1. ASSUME NEW f \in Facts, Add(f) PROVE JobTypes'
    <2>1. Claims \subseteq Claims'
      BY <1>1, Adding
    <2>2. JobsOver(Claims) \subseteq JobsOver(Claims')
      BY <2>1, JobsGrow
    <2> QED
      BY <1>1, <2>2 DEF Add, ghosts, JobTypes, NoneRuns
  <1>2. ASSUME NEW c \in Claims, NEW s \in Endings, Retire(c, s) PROVE JobTypes'
    BY <1>2, Retiring DEF Retire, JobTypes, NoneRuns
  <1>3. ASSUME NEW p \in Procs, NEW j \in JobsOver(Claims), job' = [job EXCEPT ![p] = j],
               UNCHANGED fact, jobs' \in 0 .. MaxJobs,
               overlap' \in BOOLEAN, calm' \in BOOLEAN
        PROVE  JobTypes'
    BY <1>3 DEF JobTypes, Claims
  <1>4. ASSUME NEW p \in Procs, NEW j \in JobsOver(Claims), Goto(p, j),
               UNCHANGED <<fact, jobs, overlap>>
        PROVE  JobTypes'
    BY <1>3, <1>4 DEF Goto, NoneRuns, JobTypes
  <1>5. ASSUME NEW p \in Procs, NEW kind, NEW j \in JobsOver(Claims), Start(p, kind, j)
        PROVE  JobTypes'
    <2>1. jobs' \in 0 .. MaxJobs
      BY <1>5, UpkeepBounds DEF Start, JobTypes
    <2>2. overlap' \in BOOLEAN /\ calm' \in BOOLEAN
      BY <1>5 DEF Start, NoneRuns
    <2> QED
      BY <1>3, <1>5, <2>1, <2>2 DEF Start, store
  <1>6. ASSUME NEW p \in Procs, Begin(p) PROVE JobTypes'
    <2>1. Groups \subseteq Claims /\ Live \subseteq Claims
      BY DEF Groups, Live
    <2>2. ASSUME Tick(p) \/ ConsolidateCmd(p) PROVE JobTypes'
      <3>1. \A r \in BOOLEAN : [at |-> "groups", todo |-> Groups, rescore |-> r] \in JobsOver(Claims)
        BY <2>1 DEF JobsOver, GroupsJobs
      <3> QED
        BY <1>5, <2>2, <3>1 DEF Tick, ConsolidateCmd
    <2>3. ASSUME ReindexImportanceCmd(p) PROVE JobTypes'
      <3>1. [at |-> "rescore", todo |-> Live] \in JobsOver(Claims)
        BY <2>1 DEF JobsOver
      <3> QED
        BY <1>5, <2>3, <3>1 DEF ReindexImportanceCmd
    <2>4. ASSUME PruneMemoryCmd(p) PROVE JobTypes'
      <3>1. [at |-> "score", todo |-> Live] \in JobsOver(Claims)
        BY <2>1 DEF JobsOver, ScoreJobs
      <3> QED
        BY <1>5, <2>4, <3>1 DEF PruneMemoryCmd
    <2>5. ASSUME ReindexEmbeddingsCmd(p) PROVE JobTypes'
      <3>1. PICK some \in {Sessions(Claims)} \cup {{s} : s \in Sessions(Claims)} :
              Start(p, "backfill", [at |-> "sessions", todo |-> some])
        BY <2>5 DEF ReindexEmbeddingsCmd
      <3>2. Sessions(Claims) \subseteq {f.session : f \in Facts}
        BY DEF Sessions, StoreTypes
      <3>3. [at |-> "sessions", todo |-> some] \in JobsOver(Claims)
        BY <3>2 DEF JobsOver
      <3> QED
        BY <1>5, <3>1, <3>3
    <2> QED
      BY <1>6, <2>2, <2>3, <2>4, <2>5 DEF Begin
  <1>7. ASSUME NEW p \in Procs, NEW c \in Claims, Members(p, c) PROVE JobTypes'
    <2> DEFINE ids == Copies(c)
               rest == [job[p] EXCEPT !.todo = @ \ {c}]
    <2>1. rest \in GroupsJobs(Claims) /\ ids \subseteq Claims
      BY <1>7, JobFields DEF Members, GroupsJobs, Copies, Live
    <2>2. rest \in JobsOver(Claims)
      BY <2>1 DEF JobsOver
    <2>3. CASE Contested(c) \/ Cardinality(ids) < 2
      BY <1>4, <1>7, <2>2, <2>3 DEF Members, store, ghosts
    <2>4. CASE ~(Contested(c) \/ Cardinality(ids) < 2)
      <3>1. ids # {}
        BY <2>4, FS_EmptySet
      <3>2. [at |-> "graduate", ids |-> ids, back |-> rest] \in JobsOver(Claims)
        BY <2>1, <3>1 DEF JobsOver
      <3> QED
        BY <1>4, <1>7, <2>4, <3>2 DEF Members, store, ghosts
    <2> QED
      BY <2>3, <2>4
  <1>8. ASSUME NEW p \in Procs, Graduate(p) \/ DemoteCopies(p) PROVE JobTypes'
    <2>1. job[p] \in [at : {"graduate", "demote"}, ids : SUBSET Claims, back : GroupsJobs(Claims)]
      BY <1>8, JobFields DEF Graduate, DemoteCopies
    <2>2. /\ [job[p] EXCEPT !.at = "demote", !.ids = @ \ {Min(@)}] \in JobsOver(Claims)
          /\ job[p].back \in JobsOver(Claims)
      BY <2>1 DEF JobsOver
    <2> QED
      BY <1>4, <1>8, <2>2 DEF Graduate, DemoteCopies
  <1>9. ASSUME NEW p \in Procs, EndPass(p) PROVE JobTypes'
    <2>1. [at |-> "rescore", todo |-> Live] \in JobsOver(Claims) /\ Idle \in JobsOver(Claims)
      BY DEF JobsOver, Live
    <2> QED
      BY <1>4, <1>9, <2>1 DEF EndPass, store, ghosts
  <1>10. ASSUME NEW p \in Procs, NEW c \in Claims, Rescore(p, c) PROVE JobTypes'
    <2>1. [job[p] EXCEPT !.todo = @ \ {c}] \in JobsOver(Claims)
      BY <1>10, JobFields DEF Rescore, AtNext, JobsOver
    <2> QED
      BY <1>4, <1>10, <2>1 DEF Rescore, ghosts
  <1>11. ASSUME NEW p \in Procs, NEW c \in Claims, NEW low \in BOOLEAN, Score(p, c, low)
         PROVE  JobTypes'
    <2> DEFINE rest == [job[p] EXCEPT !.todo = @ \ {c}]
    <2>1. rest \in ScoreJobs(Claims)
      BY <1>11, JobFields DEF Score, AtNext, ScoreJobs
    <2>2. rest \in JobsOver(Claims) /\ [at |-> "prune", claim |-> c, back |-> rest] \in JobsOver(Claims)
      BY <2>1 DEF JobsOver
    <2> QED
      BY <1>4, <1>11, <2>2 DEF Score, store, ghosts
  <1>12. ASSUME NEW p \in Procs, Prune(p) PROVE JobTypes'
    <2>1. job[p].back \in JobsOver(Claims)
      BY <1>12, JobFields DEF Prune, JobsOver
    <2> QED
      BY <1>4, <1>12, <2>1 DEF Prune
  <1>13. ASSUME NEW p \in Procs, NEW s, ListMissing(p, s) PROVE JobTypes'
    <2>1. PICK todo \in {{c \in Live \ vec : fact[c].session = s}, {}} :
            Goto(p, [at |-> "embed", todo |-> todo, back |-> job[p].todo \ {s}])
      BY <1>13 DEF ListMissing
    <2>2. todo \subseteq Claims /\ job[p].todo \subseteq {f.session : f \in Facts}
      BY <1>13, JobFields DEF ListMissing, AtNext, Live
    <2>3. [at |-> "embed", todo |-> todo, back |-> job[p].todo \ {s}] \in JobsOver(Claims)
      BY <2>2 DEF JobsOver
    <2> QED
      BY <1>4, <1>13, <2>1, <2>3 DEF ListMissing, store, ghosts
  <1>14. ASSUME NEW p \in Procs, NEW c \in Claims, Embed(p, c) PROVE JobTypes'
    <2>1. [job[p] EXCEPT !.todo = @ \ {c}] \in JobsOver(Claims) /\ Idle \in JobsOver(Claims)
      BY <1>14, JobFields DEF Embed, AtNext, JobsOver
    <2> QED
      BY <1>4, <1>14, <2>1 DEF Embed, ghosts
  <1>15. ASSUME NEW p \in Procs, End(p) PROVE JobTypes'
    <2>1. CASE job[p].at = "embed"
      <3>1. [at |-> "sessions", todo |-> job[p].back] \in JobsOver(Claims)
        BY <2>1, JobFields DEF JobsOver
      <3> QED
        BY <1>4, <1>15, <2>1, <3>1 DEF End, store, ghosts
    <2>2. CASE job[p].at # "embed"
      BY <1>4, <1>15, <2>2 DEF End, store, ghosts, JobsOver
    <2> QED
      BY <2>1, <2>2
  <1>16. ASSUME NEW p \in Procs, Die(p) PROVE JobTypes'
    BY <1>4, <1>16 DEF Die, store, ghosts, JobsOver
  <1>17. ASSUME NEW c \in Claims, AddRow(c) \/ DropVector(c) PROVE JobTypes'
    BY <1>17 DEF AddRow, DropVector, ghosts, JobTypes, NoneRuns, Claims
  <1> QED
    BY <1>1, <1>2, <1>6, <1>7, <1>8, <1>9, <1>10, <1>11, <1>12, <1>13, <1>14, <1>15, <1>16, <1>17
       DEF Next

LEMMA UpkeepTypesHold == Spec => [](StoreTypes /\ JobTypes)
  <1>1. Init => StoreTypes /\ JobTypes
    <2> SUFFICES ASSUME Init PROVE StoreTypes /\ JobTypes
      OBVIOUS
    <2>1. Claims = {}
      BY DEF Init, Claims
    <2>2. StoreTypes
      BY <2>1, UpkeepBounds DEF Init, StoreTypes
    <2>3. Idle \in JobsOver(Claims)
      BY DEF JobsOver
    <2>4. jobs \in 0 .. MaxJobs
      BY UpkeepBounds DEF Init
    <2>5. JobTypes
      BY <2>3, <2>4 DEF Init, JobTypes
    <2> QED
      BY <2>2, <2>5
  <1>2. StoreTypes /\ JobTypes /\ UNCHANGED vars => (StoreTypes /\ JobTypes)'
    BY DEF vars, store, ghosts, StoreTypes, JobTypes, Claims, Stored
  <1> QED
    BY <1>1, <1>2, StoreTypeStep, JobTypeStep, PTL DEF Spec

\* Every variable keeps its type: whatever is stored, retired or deleted between
\* two statements of a job, only claims that are stored have a vector.
THEOREM UpkeepTypeCorrect == Spec => []TypeOK
  <1>1. StoreTypes /\ JobTypes => TypeOK
    <2> SUFFICES ASSUME StoreTypes, JobTypes PROVE TypeOK
      OBVIOUS
    <2>1. /\ status \in [Claims -> {"live", "superseded", "dismissed", "forgotten"}]
          /\ sources \in [Claims -> SUBSET Claims]
      BY ClaimsAreNumbers DEF StoreTypes
    <2>2. \A p \in Procs : job[p].at \in Stages
      BY DEF JobTypes, JobsOver, GroupsJobs, ScoreJobs, Idle, Stages
    <2> QED
      BY <2>1, <2>2 DEF StoreTypes, JobTypes, TypeOK, Stored
  <1> QED
    BY <1>1, UpkeepTypesHold, PTL

-----------------------------------------------------------------------------
(* The inductive invariant *)

\* A job is alone as long as no two ran at once, and while it is calm.
OneRuns ==
    ~overlap \/ calm =>
        \A p, q \in Procs : job[p] # Idle /\ job[q] # Idle => p = q

\* What may stand for others: a claim made canonical, or one that was to be and
\* was forgotten since or had no row.
Canonical(d) == status[d] = "forgotten" \/ d \in passedOver \/ sources[d] # {}

\* What has no row is not demoted.
BareStays == bare \cap demoted = {}

\* Whatever consolidation demoted, a canonical claim before it says the same.
Anchored ==
    \A c \in demoted \ pruned :
        \E d \in Claims : d < c /\ Alike(c, d) /\ Canonical(d)

\* The canonical claim names it and was not demoted by consolidation.
StandsFor(d, c) ==
    /\ d < c /\ Alike(c, d)
    /\ status[d] = "forgotten" \/ d \in passedOver \/ c \in sources[d]
    /\ d \in Live => d \notin demoted \/ d \in pruned

NamedByOne ==
    ~overlap => \A c \in Live \cap (demoted \ pruned) : \E d \in Claims : StandsFor(d, c)

\* Who is live, says what one of these claims says and was demoted for it is one of
\* them or among the others.
Closed(ids, more) ==
    \A d \in ids : \A c \in Live \cap (demoted \ pruned) : Alike(c, d) => c \in ids \cup more

\* The claims about to be graduated say the same, and are all the live ones that
\* do as far as one was demoted for them.
GraduatesAlike ==
    \A p \in Procs : job[p].at = "graduate" =>
        /\ \A c, d \in job[p].ids : Alike(c, d)
        /\ ~overlap => Closed(job[p].ids, {})

\* An undisturbed canonical claim, d, has what it is to stand for on record.
Vouches(d, ids) ==
    \/ status[d] = "forgotten"
    \/ (d \in passedOver \/ ids \subseteq sources[d]) /\ d \notin demoted

\* The copies about to be demoted have their canonical claim.
DemotesCopies ==
    \A p \in Procs : job[p].at = "demote" =>
        \E d \in Claims :
            /\ \A c \in job[p].ids : d < c /\ Alike(c, d)
            /\ Canonical(d)
            /\ ~overlap => Vouches(d, job[p].ids) /\ Closed(job[p].ids, {d})

CopiesInv ==
    /\ OneRuns /\ BareStays /\ Anchored /\ NamedByOne
    /\ GraduatesAlike /\ DemotesCopies

\* What a backfill holds was not superseded, or is on record as overtaken.
VectorInv ==
    /\ SupersededHasNoVector
    /\ \A p \in Procs : job[p].at = "embed" =>
         \A c \in job[p].todo : status[c] = "superseded" => c \in overtaken

Recurring(c) == c \in Groups /\ ~Contested(c) /\ Cardinality(Copies(c)) > 1
Settled(c) ==
    /\ Copies(c) \ demoted = {c} \cup (Copies(c) \cap bare)
    /\ c \in bare \/ sources[c] = Copies(c)

\* In a pass nothing else writes into, a recurring fact is settled, or in hand, or
\* still on the list.
PassInv ==
    calm => \A p \in Procs :
        /\ job[p].at = "groups" =>
             /\ job[p].todo \subseteq Groups
             /\ \A c \in Claims : Recurring(c) => c \in job[p].todo \/ Settled(c)
        /\ job[p].at \in {"graduate", "demote"} =>
             \E g \in Groups :
                 /\ job[p].back.todo \subseteq Groups
                 /\ \A c \in Claims : Recurring(c) => c \in job[p].back.todo \/ Settled(c) \/ c = g
                 /\ job[p].at = "graduate" => job[p].ids = Copies(g)
                 /\ job[p].at = "demote" =>
                      /\ job[p].ids = Copies(g) \ {g}
                      /\ g \in bare \/ sources[g] = Copies(g)
                      /\ g \notin demoted

-----------------------------------------------------------------------------
(* A job is alone *)

\* Every statement of a job but its first is of a process that runs one.
LEMMA Moving ==
    ASSUME NEW p \in Procs,
           \/ \E s : ListMissing(p, s)
           \/ \E c : Members(p, c) \/ Rescore(p, c) \/ Embed(p, c) \/ \E low : Score(p, c, low)
           \/ Graduate(p) \/ DemoteCopies(p) \/ EndPass(p) \/ Prune(p) \/ End(p) \/ Die(p)
    PROVE  /\ job[p] # Idle /\ UNCHANGED <<fact, status, overlap, jobs>>
           /\ \E j : Goto(p, j)
  <1>1. CASE \E s : ListMissing(p, s)
    BY <1>1 DEF ListMissing, AtNext, Idle, store, ghosts
  <1>2. CASE \E c : Members(p, c) \/ Rescore(p, c) \/ Embed(p, c) \/ \E low : Score(p, c, low)
    BY <1>2 DEF Members, Rescore, Embed, Score, AtNext, Idle, store, ghosts
  <1>3. CASE Graduate(p) \/ DemoteCopies(p) \/ Prune(p)
    BY <1>3 DEF Graduate, DemoteCopies, Prune, Idle
  <1>4. CASE EndPass(p) \/ End(p) \/ Die(p)
    BY <1>4 DEF EndPass, End, Die, Idle, store, ghosts
  <1> QED
    BY <1>1, <1>2, <1>3, <1>4

LEMMA Beginning ==
    ASSUME NEW p \in Procs, Begin(p)
    PROVE  /\ job[p] = Idle /\ UNCHANGED <<store, pruned, overtaken, passedOver>>
           /\ overlap' = (overlap \/ ~NoneRuns(job)) /\ calm' = NoneRuns(job)
           /\ \E j : /\ job' = [job EXCEPT ![p] = j]
                     /\ \/ j.at = "groups" /\ j.todo = Groups
                        \/ j.at \in {"rescore", "score", "sessions"}
  <1>1. PICK kind, j : /\ Start(p, kind, j)
                       /\ \/ j.at = "groups" /\ j.todo = Groups
                          \/ j.at \in {"rescore", "score", "sessions"}
    <2>1. CASE Tick(p) \/ ConsolidateCmd(p)
      BY <2>1 DEF Tick, ConsolidateCmd
    <2>2. CASE ReindexImportanceCmd(p) \/ PruneMemoryCmd(p)
      BY <2>2 DEF ReindexImportanceCmd, PruneMemoryCmd
    <2>3. CASE ReindexEmbeddingsCmd(p)
      BY <2>3 DEF ReindexEmbeddingsCmd
    <2> QED
      BY <2>1, <2>2, <2>3 DEF Begin
  <1> QED
    BY <1>1 DEF Start

LEMMA OneRunsStep == JobTypes /\ OneRuns /\ [Next]_vars => OneRuns'
  <1> SUFFICES ASSUME JobTypes, OneRuns, Next PROVE OneRuns'
    BY DEF OneRuns, vars, ghosts
  <1> USE DEF JobTypes
  <1>1. ASSUME NEW f \in Facts, Add(f) PROVE OneRuns'
    BY <1>1 DEF Add, ghosts, OneRuns, NoneRuns
  <1>2. ASSUME NEW c \in Claims, NEW s \in Endings, Retire(c, s) PROVE OneRuns'
    BY <1>2 DEF Retire, OneRuns, NoneRuns
  <1>5. ASSUME NEW c \in Claims, AddRow(c) \/ DropVector(c) PROVE OneRuns'
    BY <1>5 DEF AddRow, DropVector, ghosts, OneRuns, NoneRuns
  <1>3. ASSUME NEW p \in Procs, Begin(p) PROVE OneRuns'
    BY <1>3, Beginning DEF OneRuns, NoneRuns
  <1>4. ASSUME NEW p \in Procs, NEW j, Goto(p, j), job[p] # Idle, UNCHANGED overlap PROVE OneRuns'
    BY <1>4 DEF Goto, OneRuns, NoneRuns
  <1> QED
    BY <1>1, <1>2, <1>3, <1>4, <1>5, Moving DEF Next

-----------------------------------------------------------------------------
(* Copies and their canonical claims *)

\* Steps that change no claim that has a row and do not begin to graduate any.
LEMMA QuietKeeps ==
    ASSUME StoreTypes, JobTypes, CopiesInv,
           \A q \in Procs : job'[q].at \in {"graduate", "demote"} => job'[q] = job[q],
           UNCHANGED <<fact, status, sources, demoted, pruned, passedOver>>,
           bare' \subseteq bare, overlap => overlap'
    PROVE  BareStays' /\ Anchored' /\ NamedByOne' /\ GraduatesAlike' /\ DemotesCopies'
  <1>1. BareStays' /\ Anchored'
    BY DEF CopiesInv, BareStays, Anchored, Alike, Canonical, Claims
  <1>2. NamedByOne'
    BY DEF CopiesInv, NamedByOne, StandsFor, Live, Alike, Claims
  <1>3. \A c, d : Alike(c, d)' <=> Alike(c, d)
    BY DEF Alike
  <1>4. \A ids, more : Closed(ids, more)' <=> Closed(ids, more)
    BY <1>3 DEF Closed, Live, Claims
  <1>5. GraduatesAlike'
    BY <1>3, <1>4 DEF CopiesInv, GraduatesAlike
  <1>6. \A d, ids : (Vouches(d, ids)' <=> Vouches(d, ids)) /\ (Canonical(d)' <=> Canonical(d))
    BY DEF Vouches, Canonical
  <1>7. Claims' = Claims
    BY DEF Claims
  <1>8. DemotesCopies'
    BY <1>3, <1>4, <1>6, <1>7 DEF CopiesInv, DemotesCopies
  <1> QED
    BY <1>1, <1>2, <1>5, <1>8

LEMMA AddKeeps ==
    ASSUME StoreTypes, JobTypes, CopiesInv, NEW f \in Facts, Add(f)
    PROVE  BareStays' /\ Anchored' /\ NamedByOne' /\ GraduatesAlike' /\ DemotesCopies'
  <1>1. PICK n \in Nat :
          /\ Claims' = Claims \cup {n} /\ n \notin Claims /\ \A c \in Claims : c < n
          /\ fact'[n] = f /\ status'[n] = "live" /\ sources'[n] = {}
          /\ \A c \in Claims : /\ fact'[c] = fact[c] /\ status'[c] = status[c]
                               /\ sources'[c] = sources[c]
          /\ n = Len(fact) + 1
    BY Adding
  <1>2. UNCHANGED <<demoted, pruned, overlap, passedOver, job>> /\ bare' = bare \cup {n}
    BY <1>1 DEF Add, ghosts
  <1>3. /\ demoted \subseteq Claims /\ pruned \subseteq Claims
        /\ \A p \in Procs : job[p].at \in {"graduate", "demote"} => job[p].ids \subseteq Claims
    BY ClaimsAreNumbers, JobFields DEF StoreTypes
  <1>4. \A c, d \in Claims : Alike(c, d)' <=> Alike(c, d)
    BY <1>1 DEF Alike
  <1>5. Live' = Live \cup {n} /\ n \notin Live /\ Live \subseteq Claims
    BY <1>1 DEF Live
  <1>6. BareStays'
    BY <1>1, <1>2, <1>3 DEF CopiesInv, BareStays
  <1>7. Anchored'
    BY <1>1, <1>2, <1>3, <1>4 DEF CopiesInv, Anchored, Canonical
  <1>8. NamedByOne'
    BY <1>1, <1>2, <1>3, <1>4, <1>5 DEF CopiesInv, NamedByOne, StandsFor
  <1>9. \A ids, more : ids \subseteq Claims /\ Closed(ids, more) => Closed(ids, more)'
    BY <1>1, <1>2, <1>3, <1>4, <1>5 DEF Closed
  <1>10. GraduatesAlike'
    BY <1>2, <1>3, <1>4, <1>9 DEF CopiesInv, GraduatesAlike
  <1>11. \A d \in Claims : \A ids : (Vouches(d, ids) => Vouches(d, ids)') /\ (Canonical(d) => Canonical(d)')
    BY <1>1, <1>2 DEF Vouches, Canonical
  <1>12. DemotesCopies'
    <2> SUFFICES ASSUME NEW p \in Procs, job[p].at = "demote", NEW ids, ids = job[p].ids
                 PROVE  \E d \in Claims' :
                          /\ \A c \in ids : d < c /\ Alike(c, d)'
                          /\ Canonical(d)'
                          /\ ~overlap => Vouches(d, ids)' /\ Closed(ids, {d})'
      BY <1>2 DEF DemotesCopies
    <2>1. PICK d \in Claims :
            /\ \A c \in ids : d < c /\ Alike(c, d)
            /\ Canonical(d)
            /\ ~overlap => Vouches(d, ids) /\ Closed(ids, {d})
      BY DEF CopiesInv, DemotesCopies
    <2>2. ids \subseteq Claims
      BY <1>3
    <2>3. d \in Claims' /\ Canonical(d)' /\ \A c \in ids : d < c /\ Alike(c, d)'
      BY <1>1, <1>4, <1>11, <2>1, <2>2
    <2>4. ~overlap => Vouches(d, ids)' /\ Closed(ids, {d})'
      BY <1>9, <1>11, <2>1, <2>2
    <2> QED
      BY <2>3, <2>4
  <1> QED
    BY <1>6, <1>7, <1>8, <1>10, <1>12

LEMMA RetireKeeps ==
    ASSUME StoreTypes, JobTypes, CopiesInv, NEW r \in Claims, NEW s \in Endings, Retire(r, s)
    PROVE  BareStays' /\ Anchored' /\ NamedByOne' /\ GraduatesAlike' /\ DemotesCopies'
  <1>1. /\ Claims' = Claims /\ r \in Live /\ Live' = Live \ {r}
        /\ \A d \in Claims : status'[d] = IF d = r THEN s ELSE status[d]
        /\ UNCHANGED <<fact, bare, sources, demoted, pruned, overlap, passedOver, job>>
    BY Retiring
  <1>2. \A d \in Claims : status[d] = "forgotten" => status'[d] = "forgotten"
    BY <1>1 DEF Live
  <1>3. \A c, d : Alike(c, d)' <=> Alike(c, d)
    BY <1>1 DEF Alike
  <1>4. \A d \in Claims : Canonical(d) => Canonical(d)'
    BY <1>1, <1>2 DEF Canonical
  <1>5. \A ids, more : Closed(ids, more) => Closed(ids, more)'
    BY <1>1, <1>3 DEF Closed
  <1>6. \A d \in Claims : \A ids : Vouches(d, ids) => Vouches(d, ids)'
    BY <1>1, <1>2 DEF Vouches
  <1>7. demoted \subseteq Claims
    BY DEF StoreTypes
  <1>8. BareStays' /\ Anchored'
    BY <1>1, <1>3, <1>4, <1>7 DEF CopiesInv, BareStays, Anchored
  <1>9. NamedByOne'
    BY <1>1, <1>2, <1>3 DEF CopiesInv, NamedByOne, StandsFor
  <1>10. GraduatesAlike'
    BY <1>1, <1>3, <1>5 DEF CopiesInv, GraduatesAlike
  <1>11. DemotesCopies'
    BY <1>1, <1>3, <1>4, <1>5, <1>6 DEF CopiesInv, DemotesCopies
  <1> QED
    BY <1>8, <1>9, <1>10, <1>11

LEMMA PruneKeeps ==
    ASSUME StoreTypes, JobTypes, CopiesInv, NEW p \in Procs, Prune(p)
    PROVE  BareStays' /\ Anchored' /\ NamedByOne' /\ GraduatesAlike' /\ DemotesCopies'
  <1> DEFINE low == {job[p].claim} \cap Recorded
  <1>1. /\ UNCHANGED <<fact, bare, status, sources, overlap, passedOver>>
        /\ Claims' = Claims /\ Live' = Live
        /\ demoted' = demoted \cup low /\ pruned' = pruned \cup low
        /\ job' = [job EXCEPT ![p] = job[p].back] /\ job[p].at = "prune"
    BY DEF Prune, Goto, Claims, Live
  <1>2. job[p].back.at = "score"
    BY <1>1, JobFields DEF ScoreJobs
  <1>3. \A q \in Procs : job'[q].at \in {"graduate", "demote"} => q # p /\ job'[q] = job[q] /\ overlap
    BY <1>1, <1>2 DEF JobTypes, CopiesInv, OneRuns, Idle
  <1>4. \A a, b : Alike(a, b)' <=> Alike(a, b)
    BY <1>1 DEF Alike
  <1>5. \A d : Canonical(d)' <=> Canonical(d)
    BY <1>1 DEF Canonical
  <1>6. BareStays'
    BY <1>1 DEF CopiesInv, BareStays, Recorded
  <1>7. Anchored'
    BY <1>1, <1>4, <1>5 DEF CopiesInv, Anchored
  <1>8. NamedByOne'
    BY <1>1, <1>4 DEF CopiesInv, NamedByOne, StandsFor
  <1>9. GraduatesAlike'
    BY <1>1, <1>3, <1>4 DEF CopiesInv, GraduatesAlike
  <1>10. DemotesCopies'
    BY <1>1, <1>3, <1>4, <1>5 DEF CopiesInv, DemotesCopies
  <1> QED
    BY <1>6, <1>7, <1>8, <1>9, <1>10

LEMMA MembersKeeps ==
    ASSUME StoreTypes, JobTypes, CopiesInv, NEW p \in Procs, NEW g \in Claims, Members(p, g)
    PROVE  BareStays' /\ Anchored' /\ NamedByOne' /\ GraduatesAlike' /\ DemotesCopies'
  <1> DEFINE ids == Copies(g)
             rest == [job[p] EXCEPT !.todo = @ \ {g}]
             first == [at |-> "graduate", ids |-> ids, back |-> rest]
  <1>1. UNCHANGED <<fact, bare, status, sources, demoted, pruned, overlap, passedOver>>
    BY DEF Members, store, ghosts
  <1>2. \/ job' = [job EXCEPT ![p] = rest]
        \/ job' = [job EXCEPT ![p] = first]
    BY DEF Members, Goto
  <1>3. rest.at = "groups"
    BY JobFields DEF Members, GroupsJobs
  <1>4. CASE job' = [job EXCEPT ![p] = rest]
    <2>1. \A q \in Procs : job'[q].at \in {"graduate", "demote"} => job'[q] = job[q]
      BY <1>3, <1>4 DEF JobTypes
    <2> QED
      BY <1>1, <2>1, QuietKeeps
  <1>5. CASE job' = [job EXCEPT ![p] = first]
    <2>1. \A c, d \in ids : Alike(c, d)
      BY DEF Copies, Alike
    <2>2. Closed(ids, {})
      BY DEF Closed, Copies, Alike
    <2>3. job'[p] = first /\ \A q \in Procs \ {p} : job'[q] = job[q]
      BY <1>5 DEF JobTypes
    <2>4. \A c, d : Alike(c, d)' <=> Alike(c, d)
      BY <1>1 DEF Alike
    <2>5. \A some, more : Closed(some, more)' <=> Closed(some, more)
      BY <1>1, <2>4 DEF Closed, Live, Claims
    <2>6. BareStays' /\ Anchored'
      BY <1>1 DEF CopiesInv, BareStays, Anchored, Alike, Canonical, Claims
    <2>7. NamedByOne'
      BY <1>1 DEF CopiesInv, NamedByOne, StandsFor, Live, Alike, Claims
    <2>8. GraduatesAlike'
      BY <1>1, <2>1, <2>2, <2>3, <2>4, <2>5 DEF CopiesInv, GraduatesAlike
    <2>9. \A d, some : (Vouches(d, some)' <=> Vouches(d, some)) /\ (Canonical(d)' <=> Canonical(d))
      BY <1>1 DEF Vouches, Canonical
    <2>10. \A q \in Procs : job'[q].at = "demote" => q # p /\ job'[q] = job[q]
      BY <2>3
    <2>11. Claims' = Claims
      BY <1>1 DEF Claims
    <2>12. DemotesCopies'
      BY <1>1, <2>4, <2>5, <2>9, <2>10, <2>11 DEF CopiesInv, DemotesCopies
    <2> QED
      BY <2>6, <2>7, <2>8, <2>12
  <1> QED
    BY <1>2, <1>4, <1>5

LEMMA GraduateKeeps ==
    ASSUME StoreTypes, JobTypes, CopiesInv, NEW p \in Procs, Graduate(p)
    PROVE  BareStays' /\ Anchored' /\ NamedByOne' /\ GraduatesAlike' /\ DemotesCopies'
  <1>a. PICK ids : ids = job[p].ids
    OBVIOUS
  <1>b. PICK m : m = Min(ids)
    OBVIOUS
  <1>1. /\ ids \subseteq Claims /\ ids # {} /\ \A c, d \in ids : Alike(c, d)
        /\ ~overlap => Closed(ids, {})
    BY <1>a, JobFields DEF Graduate, CopiesInv, GraduatesAlike
  <1>2. m \in ids /\ m \in Claims /\ \A c \in ids \ {m} : m < c
    <2>1. ids \subseteq Nat
      BY <1>1, ClaimsAreNumbers
    <2>2. m \in ids /\ \A c \in ids : m <= c
      BY <1>1, <1>b, <2>1, MinIsLeast
    <2> QED
      BY <1>1, <2>1, <2>2
  <1>3. /\ UNCHANGED <<fact, bare, status, overlap>> /\ Claims' = Claims /\ Live' = Live
        /\ job'[p].at = "demote" /\ job'[p].ids = ids \ {m}
        /\ \A q \in Procs \ {p} : job'[q] = job[q]
    BY <1>a, <1>b, JobFields DEF Graduate, Goto, Claims, Live, JobTypes
  <1>4. \/ /\ demoted' = demoted \ {m} /\ pruned' = pruned \ {m}
           /\ \A d \in Claims : sources'[d] = IF d = m THEN ids ELSE sources[d]
           /\ passedOver' = passedOver \ {m}
        \/ /\ m \notin Recorded /\ UNCHANGED <<demoted, pruned, sources>>
           /\ passedOver' = passedOver \cup {m}
    BY <1>a, <1>b, <1>2, ClaimsAreNumbers DEF Graduate
  <1>5. \A c, d : Alike(c, d)' <=> Alike(c, d)
    BY <1>3 DEF Alike
  <1>6. \A d \in Claims : Canonical(d) => Canonical(d)'
    BY <1>1, <1>3, <1>4 DEF Canonical
  <1>7. Canonical(m)'
    BY <1>1, <1>2, <1>4 DEF Canonical
  <1>8. Vouches(m, ids \ {m})'
    <2>1. m \notin Recorded => status[m] = "forgotten" \/ m \notin demoted
      BY <1>2 DEF Recorded, Stored, CopiesInv, BareStays
    <2> QED
      BY <1>2, <1>3, <1>4, <2>1 DEF Vouches
  <1>9. \A q \in Procs : q # p /\ job[q].at \in {"graduate", "demote"} => overlap
    BY DEF CopiesInv, OneRuns, Graduate, Idle
  <1>10. demoted' \subseteq demoted /\ demoted' \ pruned' \subseteq demoted \ pruned
    BY <1>4
  <1>11. BareStays'
    BY <1>3, <1>10 DEF CopiesInv, BareStays
  <1>12. Anchored'
    BY <1>3, <1>5, <1>6, <1>10 DEF CopiesInv, Anchored
  <1>13. NamedByOne'
    <2> SUFFICES ASSUME ~overlap, NEW c \in Live, c \in demoted' \ pruned'
                 PROVE  \E d \in Claims : StandsFor(d, c)'
      BY <1>3 DEF NamedByOne
    <2>1. c \in demoted \ pruned
      BY <1>10
    <2>2. PICK d \in Claims : StandsFor(d, c)
      BY <2>1 DEF CopiesInv, NamedByOne
    <2>3. CASE d # m
      <3>1. /\ sources'[d] = sources[d] /\ (d \in passedOver => d \in passedOver')
            /\ (d \notin demoted => d \notin demoted') /\ (d \in pruned => d \in pruned')
        BY <1>4, <2>3
      <3> QED
        BY <1>3, <1>5, <2>2, <3>1 DEF StandsFor
    <2>4. CASE d = m
      <3>1. c \in ids /\ c # m
        BY <1>1, <1>2, <2>1, <2>2, <2>4, ClaimsAreNumbers DEF Closed, StandsFor
      <3>2. \/ status[m] = "forgotten"
            \/ (m \in passedOver' \/ c \in sources'[m]) /\ m \notin demoted'
        BY <1>3, <1>8, <3>1 DEF Vouches
      <3> QED
        BY <1>3, <1>5, <2>2, <2>4, <3>2 DEF StandsFor, Live
    <2> QED
      BY <2>3, <2>4
  <1>14. GraduatesAlike'
    BY <1>3, <1>5, <1>9 DEF CopiesInv, GraduatesAlike
  <1>15. ~overlap => Closed(ids \ {m}, {m})'
    BY <1>1, <1>3, <1>5, <1>10 DEF Closed
  <1>16. DemotesCopies'
    <2> SUFFICES ASSUME NEW q \in Procs, job'[q].at = "demote"
                 PROVE  \E d \in Claims :
                          /\ \A c \in job'[q].ids : d < c /\ Alike(c, d)
                          /\ Canonical(d)'
                          /\ ~overlap => Vouches(d, job[q].ids)' /\ Closed(job[q].ids, {d})'
      BY <1>3, <1>5 DEF DemotesCopies
    <2>1. CASE q # p
      BY <1>3, <1>6, <1>9, <2>1 DEF CopiesInv, DemotesCopies
    <2>2. CASE q = p
      <3>1. \A c \in ids \ {m} : m < c /\ Alike(c, m)
        BY <1>1, <1>2
      <3>2. Vouches(m, job[q].ids)'
        BY <1>3, <1>8, <2>2 DEF Vouches
      <3>3. ~overlap => Closed(job[q].ids, {m})'
        BY <1>3, <1>15, <2>2 DEF Closed
      <3> QED
        BY <1>2, <1>3, <1>7, <2>2, <3>1, <3>2, <3>3
    <2> QED
      BY <2>1, <2>2
  <1> QED
    BY <1>11, <1>12, <1>13, <1>14, <1>16

LEMMA DemoteKeeps ==
    ASSUME StoreTypes, JobTypes, CopiesInv, NEW p \in Procs, DemoteCopies(p)
    PROVE  BareStays' /\ Anchored' /\ NamedByOne' /\ GraduatesAlike' /\ DemotesCopies'
  <1> DEFINE ids == job[p].ids
  <1>1. PICK d \in Claims :
          /\ \A c \in ids : d < c /\ Alike(c, d)
          /\ Canonical(d)
          /\ ~overlap => Vouches(d, ids) /\ Closed(ids, {d})
    BY DEF DemoteCopies, CopiesInv, DemotesCopies
  <1>2. ids \subseteq Claims /\ Claims \subseteq Nat
    BY JobFields, ClaimsAreNumbers DEF DemoteCopies
  <1>3. d \notin ids
    BY <1>1, <1>2
  <1>4. /\ UNCHANGED <<fact, bare, status, sources, overlap, passedOver>>
        /\ Claims' = Claims /\ Live' = Live
        /\ demoted' = demoted \cup (ids \cap Recorded) /\ pruned' = pruned \ ids
        /\ job'[p].at = "groups" /\ \A q \in Procs \ {p} : job'[q] = job[q]
    BY JobFields DEF DemoteCopies, Goto, Claims, Live, JobTypes, GroupsJobs
  <1>5. \A a, b : Alike(a, b)' <=> Alike(a, b)
    BY <1>4 DEF Alike
  <1>6. \A a : Canonical(a)' <=> Canonical(a)
    BY <1>4 DEF Canonical
  <1>7. \A q \in Procs : q # p /\ job[q].at \in {"graduate", "demote"} => overlap
    BY DEF CopiesInv, OneRuns, DemoteCopies, Idle
  <1>8. BareStays'
    BY <1>4 DEF CopiesInv, BareStays, Recorded
  <1>9. Anchored'
    <2> SUFFICES ASSUME NEW c \in demoted' \ pruned'
                 PROVE  \E a \in Claims : a < c /\ Alike(c, a) /\ Canonical(a)
      BY <1>4, <1>5, <1>6 DEF Anchored
    <2>1. CASE c \in ids
      BY <1>1, <2>1
    <2>2. CASE c \notin ids
      BY <1>4, <2>2 DEF CopiesInv, Anchored
    <2> QED
      BY <2>1, <2>2
  <1>10. NamedByOne'
    <2> SUFFICES ASSUME ~overlap, NEW c \in Live, c \in demoted' \ pruned'
                 PROVE  \E a \in Claims : StandsFor(a, c)'
      BY <1>4 DEF NamedByOne
    <2>1. d \in Live => d \notin demoted'
      BY <1>1, <1>3, <1>4 DEF Live, Vouches
    <2>2. CASE c \in ids
      <3>1. StandsFor(d, c)'
        BY <1>1, <1>4, <1>5, <2>1, <2>2 DEF StandsFor, Vouches
      <3> QED
        BY <3>1
    <2>3. CASE c \notin ids
      <3>1. c \in demoted \ pruned
        BY <1>4, <2>3
      <3>2. PICK a \in Claims : StandsFor(a, c)
        BY <3>1 DEF CopiesInv, NamedByOne
      <3>3. CASE a \notin ids
        <4>1. StandsFor(a, c)'
          BY <1>4, <1>5, <3>2, <3>3 DEF StandsFor
        <4> QED
          BY <4>1
      <3>4. CASE a \in ids /\ status[a] = "forgotten"
        <4>1. StandsFor(a, c)'
          BY <1>4, <1>5, <3>2, <3>4 DEF StandsFor, Live
        <4> QED
          BY <4>1
      <3>5. CASE a \in ids /\ status[a] # "forgotten"
        <4>1. c = d
          BY <1>1, <2>3, <3>1, <3>2, <3>5 DEF Closed, StandsFor
        <4>2. d \notin demoted'
          BY <2>1, <4>1
        <4> QED
          BY <4>1, <4>2
      <3> QED
        BY <3>3, <3>4, <3>5
    <2> QED
      BY <2>2, <2>3
  <1>11. GraduatesAlike'
    BY <1>4, <1>5, <1>7 DEF CopiesInv, GraduatesAlike
  <1>12. DemotesCopies'
    BY <1>4, <1>5, <1>6, <1>7 DEF CopiesInv, DemotesCopies
  <1> QED
    BY <1>8, <1>9, <1>10, <1>11, <1>12

LEMMA CopiesInvStep == StoreTypes /\ JobTypes /\ CopiesInv /\ [Next]_vars => CopiesInv'
  <1> SUFFICES ASSUME StoreTypes, JobTypes, CopiesInv, [Next]_vars PROVE CopiesInv'
    OBVIOUS
  <1> DEFINE Goal == BareStays' /\ Anchored' /\ NamedByOne' /\ GraduatesAlike' /\ DemotesCopies'
  <1>1. OneRuns'
    BY OneRunsStep DEF CopiesInv
  <1>m. ASSUME NEW p \in Procs, NEW j, job' = [job EXCEPT ![p] = j], j.at \notin {"graduate", "demote"},
               UNCHANGED <<fact, bare, status, sources, demoted, pruned, passedOver>>, overlap => overlap'
        PROVE  Goal
    <2>1. \A q \in Procs : job'[q].at \in {"graduate", "demote"} => job'[q] = job[q]
      BY <1>m DEF JobTypes
    <2> QED
      BY <1>m, <2>1, QuietKeeps
  <1>2. ASSUME NEW p \in Procs, Begin(p) PROVE Goal
    BY <1>2, <1>m, Beginning DEF store
  <1>3. ASSUME NEW p \in Procs, \E s : ListMissing(p, s) PROVE Goal
    <2>1. PICK s : ListMissing(p, s)
      BY <1>3
    <2>2. PICK j : Goto(p, j) /\ j.at = "embed"
      BY <2>1 DEF ListMissing
    <2> QED
      BY <1>m, <2>1, <2>2 DEF ListMissing, store, ghosts, Goto
  <1>4. ASSUME NEW p \in Procs, NEW c \in Claims, Rescore(p, c) PROVE Goal
    <2>1. [job[p] EXCEPT !.todo = @ \ {c}].at = "rescore"
      BY <1>4, JobFields DEF Rescore, AtNext
    <2> QED
      BY <1>4, <1>m, <2>1 DEF Rescore, ghosts, Goto
  <1>5. ASSUME NEW p \in Procs, NEW c \in Claims, Embed(p, c) PROVE Goal
    <2>1. [job[p] EXCEPT !.todo = @ \ {c}].at = "embed" /\ Idle.at = "idle"
      BY <1>5, JobFields DEF Embed, AtNext, Idle
    <2>2. \E j : Goto(p, j) /\ j.at \in {"embed", "idle"}
      BY <1>5, <2>1 DEF Embed
    <2> QED
      BY <1>5, <1>m, <2>2 DEF Embed, ghosts, Goto
  <1>6. ASSUME NEW p \in Procs, NEW c \in Claims, NEW low \in BOOLEAN, Score(p, c, low) PROVE Goal
    <2>1. [job[p] EXCEPT !.todo = @ \ {c}].at = "score"
      BY <1>6, JobFields DEF Score, AtNext, ScoreJobs
    <2>2. PICK j : Goto(p, j) /\ j.at \in {"score", "prune"}
      <3>1. CASE low
        BY <1>6, <3>1 DEF Score
      <3>2. CASE ~low
        BY <1>6, <2>1, <3>2 DEF Score
      <3> QED
        BY <3>1, <3>2
    <2> QED
      BY <1>6, <1>m, <2>2 DEF Score, store, ghosts, Goto
  <1>7. ASSUME NEW p \in Procs, EndPass(p) \/ End(p) \/ Die(p) PROVE Goal
    <2>1. PICK j : Goto(p, j) /\ j.at \in {"idle", "rescore", "sessions"}
      BY <1>7 DEF EndPass, End, Die, Idle
    <2>2. UNCHANGED <<fact, bare, status, sources, demoted, pruned, overlap, passedOver>>
      BY <1>7 DEF EndPass, End, Die, store, ghosts
    <2> QED
      BY <1>m, <2>1, <2>2 DEF Goto
  <1>8. ASSUME \/ \E c \in Claims : AddRow(c) \/ DropVector(c)
               \/ UNCHANGED vars
        PROVE  Goal
    <2>1. /\ UNCHANGED <<fact, status, sources, demoted, pruned, overlap, passedOver, job>>
          /\ bare' \subseteq bare
      BY <1>8 DEF AddRow, DropVector, vars, store, ghosts
    <2> QED
      BY <2>1, QuietKeeps
  <1> QED
    BY <1>1, <1>2, <1>3, <1>4, <1>5, <1>6, <1>7, <1>8, AddKeeps, RetireKeeps, PruneKeeps,
       MembersKeeps, GraduateKeeps, DemoteKeeps
       DEF CopiesInv, Next

\* Whoever consolidated, pruned, stored half a claim or died when, a demoted copy has
\* an earlier claim that was made canonical for it, or was to be and was forgotten
\* or had no row; while no two jobs overlap, that claim names it and is not demoted
\* itself, and what a job is about to demote has such a claim already.
THEOREM CopiesInvHolds == Spec => []CopiesInv
  <1>1. Init => CopiesInv
    BY DEF Init, CopiesInv, OneRuns, BareStays, Anchored, NamedByOne, GraduatesAlike,
           DemotesCopies, Claims, Idle
  <1> QED
    BY <1>1, UpkeepTypesHold, CopiesInvStep, PTL DEF Spec

\* What consolidation demotes, it demotes for an earlier claim saying the same
\* that it keeps; if that claim has a row and nothing disturbs the job, it names
\* what it stands for.
THEOREM CopiesAreCoveredHolds == Spec => []CopiesAreCovered
  <1>1. StoreTypes /\ CopiesInv => CopiesAreCovered
    <2> SUFFICES ASSUME StoreTypes, CopiesInv, NEW c \in Live \cap (demoted \ pruned)
                 PROVE  \E d \in 1 .. c - 1 :
                          /\ Alike(c, d)
                          /\ \/ status[d] = "forgotten"
                             \/ d \in passedOver
                             \/ sources[d] # {} /\ (overlap \/ c \in sources[d])
                          /\ (overlap \/ d \in Live) => (d \notin demoted \/ d \in pruned)
      BY DEF CopiesAreCovered
    <2>1. Claims = 1 .. Len(fact) /\ Len(fact) \in Nat /\ c \in Claims
      BY ClaimsAreNumbers DEF StoreTypes, Live
    <2>2. \A d \in Claims : d < c => d \in 1 .. c - 1
      BY <2>1
    <2>3. CASE ~overlap
      <3>1. PICK d \in Claims : StandsFor(d, c)
        BY <2>3 DEF CopiesInv, NamedByOne
      <3> QED
        BY <2>2, <2>3, <3>1 DEF StandsFor
    <2>4. CASE overlap
      <3> DEFINE S == {d \in Claims : d < c /\ Alike(c, d) /\ Canonical(d)}
      <3>1. S # {} /\ S \subseteq Nat
        BY <2>1 DEF CopiesInv, Anchored
      <3>2. PICK m \in S : \A d \in S : m <= d
        BY <3>1, Smallest
      <3>3. m \notin demoted \ pruned
        <4> SUFFICES ASSUME m \in demoted \ pruned PROVE FALSE
          OBVIOUS
        <4>1. PICK d \in Claims : d < m /\ Alike(m, d) /\ Canonical(d)
          BY DEF CopiesInv, Anchored
        <4>2. d \in S
          BY <2>1, <4>1 DEF Alike
        <4> QED
          BY <2>1, <3>2, <4>1, <4>2
      <3> QED
        BY <2>2, <2>4, <3>2, <3>3 DEF Canonical
    <2> QED
      BY <2>3, <2>4
  <1> QED
    BY <1>1, UpkeepTypesHold, CopiesInvHolds, PTL

-----------------------------------------------------------------------------
(* Vectors *)

LEMMA VectorInvStep == StoreTypes /\ JobTypes /\ VectorInv /\ [Next]_vars => VectorInv'
  <1> SUFFICES ASSUME StoreTypes, JobTypes, VectorInv, [Next]_vars PROVE VectorInv'
    OBVIOUS
  <1>1. ASSUME NEW f \in Facts, Add(f) PROVE VectorInv'
    <2>1. \A c \in Claims : status'[c] = status[c]
      BY <1>1, Adding
    <2>2. vec \subseteq Claims /\ \A p \in Procs : job[p].at = "embed" => job[p].todo \subseteq Claims
      BY JobFields DEF StoreTypes, Stored
    <2> QED
      BY <1>1, <2>1, <2>2 DEF Add, ghosts, VectorInv, SupersededHasNoVector
  <1>2. ASSUME NEW c \in Claims, NEW s \in Endings, Retire(c, s) PROVE VectorInv'
    <2>1. \A d \in Claims : status'[d] = IF d = c THEN s ELSE status[d]
      BY <1>2, Retiring
    <2>2. vec \subseteq Claims /\ \A p \in Procs : job[p].at = "embed" => job[p].todo \subseteq Claims
      BY JobFields DEF StoreTypes, Stored
    <2>3. overtaken \subseteq overtaken' /\ leaving \subseteq leaving' /\ job' = job
      BY <1>2 DEF Retire
    <2>4. SupersededHasNoVector'
      BY <1>2, <2>1, <2>2, <2>3 DEF Retire, VectorInv, SupersededHasNoVector
    <2>5. ASSUME NEW p \in Procs, job[p].at = "embed", NEW d \in job[p].todo,
                 status'[d] = "superseded"
          PROVE  d \in overtaken'
      <3>1. CASE d = c
        <4>1. s = "superseded" /\ Holding(c)
          BY <2>1, <2>5, <3>1 DEF Holding
        <4> QED
          BY <1>2, <3>1, <4>1 DEF Retire
      <3>2. CASE d # c
        BY <2>1, <2>2, <2>3, <2>5, <3>2 DEF VectorInv
      <3> QED
        BY <3>1, <3>2
    <2> QED
      BY <2>3, <2>4, <2>5 DEF VectorInv
  <1>3. ASSUME NEW p \in Procs, NEW j, job' = [job EXCEPT ![p] = j],
               UNCHANGED <<status, leaving, overtaken>>,
               \A c \in vec' : status[c] = "superseded" => c \in leaving \cup overtaken,
               j.at = "embed" => \A c \in j.todo : status[c] = "superseded" => c \in overtaken
        PROVE  VectorInv'
    BY <1>3 DEF VectorInv, SupersededHasNoVector, JobTypes
  <1>4. ASSUME NEW p \in Procs, NEW j, job' = [job EXCEPT ![p] = j],
               UNCHANGED <<status, leaving, overtaken, vec>>, j.at # "embed"
        PROVE  VectorInv'
    BY <1>3, <1>4 DEF VectorInv, SupersededHasNoVector
  <1>5. ASSUME NEW p \in Procs, Begin(p) PROVE VectorInv'
    BY <1>4, <1>5, Beginning DEF store
  <1>6. ASSUME NEW p \in Procs, \E s : ListMissing(p, s) PROVE VectorInv'
    <2>1. PICK s : ListMissing(p, s)
      BY <1>6
    <2>2. PICK todo \in SUBSET Live :
            Goto(p, [at |-> "embed", todo |-> todo, back |-> job[p].todo \ {s}])
      BY <2>1 DEF ListMissing
    <2>3. \A c \in todo : status[c] # "superseded"
      BY <2>2 DEF Live
    <2> QED
      BY <1>3, <2>1, <2>2, <2>3 DEF ListMissing, store, ghosts, Goto, VectorInv, SupersededHasNoVector
  <1>7. ASSUME NEW p \in Procs, NEW c \in Claims, Embed(p, c) PROVE VectorInv'
    <2>1. c \in job[p].todo /\ job[p].at = "embed"
      BY <1>7, TakesNext DEF Embed, AtNext
    <2>2. PICK rest : rest = [job[p] EXCEPT !.todo = @ \ {c}]
      OBVIOUS
    <2>3. rest.todo = job[p].todo \ {c}
      BY <2>1, <2>2, JobFields
    <2>4. CASE c \in Stored
      BY <1>3, <1>7, <2>1, <2>2, <2>3, <2>4 DEF Embed, ghosts, Goto, VectorInv, SupersededHasNoVector
    <2>5. CASE c \notin Stored
      <3>1. Idle.at # "embed"
        BY DEF Idle
      <3> QED
        BY <1>4, <1>7, <2>5, <3>1 DEF Embed, ghosts, Goto
    <2> QED
      BY <2>4, <2>5
  <1>8. ASSUME NEW p \in Procs, NEW c \in Claims, Members(p, c) PROVE VectorInv'
    <2>1. [job[p] EXCEPT !.todo = @ \ {c}].at = "groups"
      BY <1>8, JobFields DEF Members, GroupsJobs
    <2>2. PICK j : Goto(p, j) /\ j.at \in {"groups", "graduate"}
      <3>1. CASE Contested(c) \/ Cardinality(Copies(c)) < 2
        BY <1>8, <2>1, <3>1 DEF Members
      <3>2. CASE ~(Contested(c) \/ Cardinality(Copies(c)) < 2)
        BY <1>8, <3>2 DEF Members
      <3> QED
        BY <3>1, <3>2
    <2> QED
      BY <1>4, <1>8, <2>2 DEF Members, store, ghosts, Goto
  <1>9. ASSUME NEW p \in Procs, NEW c \in Claims, Rescore(p, c) PROVE VectorInv'
    <2>1. [job[p] EXCEPT !.todo = @ \ {c}].at = "rescore"
      BY <1>9, JobFields DEF Rescore, AtNext
    <2> QED
      BY <1>4, <1>9, <2>1 DEF Rescore, ghosts, Goto
  <1>10. ASSUME NEW p \in Procs, NEW c \in Claims, NEW low \in BOOLEAN, Score(p, c, low)
         PROVE  VectorInv'
    <2>1. [job[p] EXCEPT !.todo = @ \ {c}].at = "score"
      BY <1>10, JobFields DEF Score, AtNext, ScoreJobs
    <2>2. PICK j : Goto(p, j) /\ j.at \in {"score", "prune"}
      <3>1. CASE low
        BY <1>10, <3>1 DEF Score
      <3>2. CASE ~low
        BY <1>10, <2>1, <3>2 DEF Score
      <3> QED
        BY <3>1, <3>2
    <2> QED
      BY <1>4, <1>10, <2>2 DEF Score, store, ghosts, Goto
  <1>11. ASSUME NEW p \in Procs, Graduate(p) \/ DemoteCopies(p) \/ Prune(p) PROVE VectorInv'
    <2>1. CASE Graduate(p)
      <3>1. [job[p] EXCEPT !.at = "demote", !.ids = @ \ {Min(@)}].at = "demote"
        BY <2>1, JobFields DEF Graduate
      <3> QED
        BY <1>4, <2>1, <3>1 DEF Graduate, Goto
    <2>2. CASE DemoteCopies(p) \/ Prune(p)
      <3>1. job[p].back.at \in {"groups", "score"}
        BY <2>2, JobFields DEF DemoteCopies, Prune, GroupsJobs, ScoreJobs
      <3> QED
        BY <1>4, <2>2, <3>1 DEF DemoteCopies, Prune, Goto
    <2> QED
      BY <1>11, <2>1, <2>2
  <1>12. ASSUME NEW p \in Procs, EndPass(p) \/ End(p) \/ Die(p) PROVE VectorInv'
    <2>1. PICK j : Goto(p, j) /\ j.at \in {"idle", "rescore", "sessions"}
      BY <1>12 DEF EndPass, End, Die, Idle
    <2>2. UNCHANGED <<status, leaving, overtaken, vec>>
      BY <1>12 DEF EndPass, End, Die, store, ghosts
    <2> QED
      BY <1>4, <2>1, <2>2 DEF Goto
  <1>13. CASE UNCHANGED vars
    BY <1>13 DEF vars, store, ghosts, VectorInv, SupersededHasNoVector
  <1>14. ASSUME NEW c \in Claims, AddRow(c) PROVE VectorInv'
    BY <1>14 DEF AddRow, ghosts, VectorInv, SupersededHasNoVector
  <1>15. ASSUME NEW c \in Claims, DropVector(c) PROVE VectorInv'
    BY <1>15 DEF DropVector, ghosts, VectorInv, SupersededHasNoVector
  <1> QED
    BY <1>1, <1>2, <1>5, <1>6, <1>7, <1>8, <1>9, <1>10, <1>11, <1>12, <1>13, <1>14, <1>15 DEF Next

\* A claim loses its vector after it is superseded, unless its process dies in
\* between, and gets one back only from a backfill that read it before.
THEOREM SupersededHasNoVectorHolds == Spec => []SupersededHasNoVector
  <1>1. Init => VectorInv
    BY DEF Init, VectorInv, SupersededHasNoVector, Idle
  <1>2. VectorInv => SupersededHasNoVector
    BY DEF VectorInv
  <1> QED
    BY <1>1, <1>2, UpkeepTypesHold, VectorInvStep, PTL DEF Spec

-----------------------------------------------------------------------------
(* Undisturbed passes *)

\* Two groups of one pass have no claim in common.
LEMMA GroupsApart ==
    ASSUME NEW c \in Groups, NEW g \in Groups, c # g
    PROVE  Copies(c) \cap Copies(g) = {}
  <1> SUFFICES ASSUME NEW d \in Copies(c) \cap Copies(g) PROVE FALSE
    OBVIOUS
  <1>1. Copies(c) = Copies(g)
    BY DEF Copies, Alike
  <1> QED
    BY <1>1 DEF Groups

LEMMA CopiesCounted ==
    ASSUME StoreTypes, NEW c
    PROVE  Cardinality(Copies(c)) \in Nat
  <1>1. Len(fact) \in Nat /\ Claims = 1 .. Len(fact)
    BY ClaimsAreNumbers DEF StoreTypes
  <1>2. IsFiniteSet(Claims)
    BY <1>1, FS_Interval
  <1>3. Copies(c) \in SUBSET Claims
    BY DEF Copies, Live
  <1> QED
    BY <1>2, <1>3, FS_Subset, FS_CardinalityType

\* What a pass is done with stays settled through the statements of another group.
LEMMA StaysSettled ==
    ASSUME NEW c \in Groups, NEW g \in Groups, c # g, Settled(c),
           UNCHANGED <<fact, bare, status>>, sources'[c] = sources[c],
           \A d : d \notin Copies(g) => (d \in demoted' <=> d \in demoted)
    PROVE  Settled(c)'
  <1>1. Copies(c)' = Copies(c)
    BY DEF Copies, Live, Alike, Claims
  <1>2. \A d \in Copies(c) : d \in demoted' <=> d \in demoted
    BY GroupsApart
  <1> QED
    BY <1>1, <1>2 DEF Settled

LEMMA PassInvStep ==
    StoreTypes /\ JobTypes /\ OneRuns /\ BareStays /\ PassInv /\ [Next]_vars => PassInv'
  <1> SUFFICES ASSUME StoreTypes, JobTypes, OneRuns, BareStays, PassInv, [Next]_vars PROVE PassInv'
    OBVIOUS
  <1>1. ASSUME UNCHANGED job, calm' => NoneRuns(job) PROVE PassInv'
    BY <1>1 DEF PassInv, NoneRuns, Idle
  <1>2. ASSUME UNCHANGED <<fact, status>>
        PROVE  /\ Claims' = Claims /\ Groups' = Groups
               /\ \A c : (Recurring(c)' <=> Recurring(c)) /\ Copies(c)' = Copies(c)
    <2>1. Claims' = Claims /\ Live' = Live
      BY <1>2 DEF Claims, Live
    <2>2. \A c : Copies(c)' = Copies(c) /\ (Contested(c)' <=> Contested(c))
      BY <1>2, <2>1 DEF Copies, Alike, Contested
    <2>3. Groups' = Groups
      BY <1>2, <2>1, <2>2 DEF Groups, Sessions
    <2> QED
      BY <2>1, <2>2, <2>3 DEF Recurring
  <1>3. ASSUME NEW p \in Procs, NEW j, Goto(p, j), job[p] # Idle,
               j.at \notin {"groups", "graduate", "demote"}
        PROVE  PassInv'
    <2> SUFFICES ASSUME calm', NEW q \in Procs PROVE job'[q].at \notin {"groups", "graduate", "demote"}
      BY DEF PassInv
    <2>1. CASE q = p
      BY <1>3, <2>1 DEF Goto, JobTypes
    <2>2. CASE q # p
      <3>1. job'[q] = Idle
        BY <1>3, <2>2 DEF Goto, JobTypes, OneRuns, NoneRuns
      <3> QED
        BY <3>1 DEF Idle
    <2> QED
      BY <2>1, <2>2
  <1>4. ASSUME NEW p \in Procs, NEW j, Goto(p, j), job[p] # Idle, ~calm PROVE PassInv'
    <2> SUFFICES ASSUME calm' PROVE PassInv'
      BY DEF PassInv
    <2>1. \A q \in Procs : job'[q] = Idle
      BY <1>4 DEF Goto, NoneRuns
    <2> QED
      BY <2>1 DEF PassInv, Idle
  <1>5. ASSUME NEW p \in Procs, NEW j, Goto(p, j), job[p] # Idle, calm,
               UNCHANGED <<fact, bare, status>>,
               j.at = "groups" =>
                 /\ j.todo \subseteq Groups
                 /\ \A c \in Claims : Recurring(c) => c \in j.todo \/ Settled(c)',
               j.at \in {"graduate", "demote"} =>
                 \E g \in Groups :
                   /\ j.back.todo \subseteq Groups
                   /\ \A c \in Claims : Recurring(c) => c \in j.back.todo \/ Settled(c)' \/ c = g
                   /\ j.at = "graduate" => j.ids = Copies(g)
                   /\ j.at = "demote" =>
                        /\ j.ids = Copies(g) \ {g}
                        /\ g \in bare \/ sources'[g] = Copies(g)
                        /\ g \notin demoted'
        PROVE  PassInv'
    <2>1. job'[p] = j /\ \A q \in Procs \ {p} : job'[q] = Idle
      BY <1>5 DEF Goto, JobTypes, OneRuns
    <2>2. \A q \in Procs : q # p => job'[q].at \notin {"groups", "graduate", "demote"}
      BY <2>1 DEF Idle
    <2> QED
      BY <1>2, <1>5, <2>1, <2>2 DEF PassInv
  <1>6. ASSUME NEW f \in Facts, Add(f) PROVE PassInv'
    BY <1>1, <1>6 DEF Add
  <1>7. ASSUME NEW c \in Claims,
               AddRow(c) \/ DropVector(c) \/ \E s \in Endings : Retire(c, s)
        PROVE  PassInv'
    BY <1>1, <1>7 DEF Retire, AddRow, DropVector
  <1>8. ASSUME NEW p \in Procs, Begin(p) PROVE PassInv'
    <2>1. PICK j : /\ job' = [job EXCEPT ![p] = j]
                   /\ \/ j.at = "groups" /\ j.todo = Groups
                      \/ j.at \in {"rescore", "score", "sessions"}
      BY <1>8, Beginning
    <2>2. calm' = NoneRuns(job) /\ UNCHANGED <<fact, status>>
      BY <1>8, Beginning DEF store
    <2> SUFFICES ASSUME NoneRuns(job) PROVE PassInv'
      BY <2>2 DEF PassInv
    <2>3. job'[p] = j /\ \A q \in Procs \ {p} : job'[q] = Idle
      BY <2>1 DEF NoneRuns, JobTypes
    <2>4. \A q \in Procs : q # p => job'[q].at \notin {"groups", "graduate", "demote"}
      BY <2>3 DEF Idle
    <2> QED
      BY <1>2, <2>1, <2>2, <2>3, <2>4 DEF PassInv, Recurring
  <1>9. ASSUME NEW p \in Procs, NEW g \in Claims, Members(p, g) PROVE PassInv'
    <2>1. UNCHANGED <<fact, bare, status, sources, demoted>> /\ job[p] # Idle
      BY <1>9, Moving DEF Members, store
    <2>2. \A c : Settled(c)' <=> Settled(c)
      BY <1>2, <2>1 DEF Settled
    <2>3. PICK rest : rest = [job[p] EXCEPT !.todo = @ \ {g}]
      OBVIOUS
    <2>4. rest.at = "groups" /\ rest.todo = job[p].todo \ {g} /\ g \in job[p].todo
      BY <1>9, <2>3, JobFields DEF Members, GroupsJobs
    <2>5. CASE calm
      <3>1. /\ job[p].todo \subseteq Groups
            /\ \A c \in Claims : Recurring(c) => c \in job[p].todo \/ Settled(c)
        BY <1>9, <2>5 DEF PassInv, Members
      <3>2. CASE Contested(g) \/ Cardinality(Copies(g)) < 2
        <4>1. ~Recurring(g)
          BY <3>2, CopiesCounted DEF Recurring
        <4>2. Goto(p, rest)
          BY <1>9, <2>3, <3>2 DEF Members
        <4> QED
          BY <1>5, <2>1, <2>2, <2>4, <2>5, <3>1, <4>1, <4>2
      <3>3. CASE ~(Contested(g) \/ Cardinality(Copies(g)) < 2)
        <4>1. PICK j : j = [at |-> "graduate", ids |-> Copies(g), back |-> rest]
          OBVIOUS
        <4>2. Goto(p, j)
          BY <1>9, <2>3, <3>3, <4>1 DEF Members
        <4>3. j.at = "graduate" /\ j.ids = Copies(g) /\ j.back = rest
          BY <4>1
        <4> QED
          BY <1>5, <2>1, <2>2, <2>4, <2>5, <3>1, <4>2, <4>3
      <3> QED
        BY <3>2, <3>3
    <2>6. CASE ~calm
      BY <1>4, <1>9, <2>1, <2>6, Moving
    <2> QED
      BY <2>5, <2>6
  <1>10. ASSUME NEW p \in Procs, Graduate(p) PROVE PassInv'
    <2>1. job[p] # Idle /\ UNCHANGED <<fact, bare, status>>
      BY <1>10, Moving DEF Graduate
    <2>2. CASE calm
      <3>1. PICK g \in Groups :
              /\ job[p].back.todo \subseteq Groups /\ job[p].ids = Copies(g)
              /\ \A c \in Claims : Recurring(c) => c \in job[p].back.todo \/ Settled(c) \/ c = g
        BY <1>10, <2>2 DEF PassInv, Graduate
      <3>2. Min(job[p].ids) = g /\ g \in Live /\ g \in Stored /\ g \in Claims
        BY <3>1 DEF Groups, Live, Stored
      <3>3. \/ /\ demoted' = demoted \ {g}
               /\ \A c \in Claims : sources'[c] = IF c = g THEN Copies(g) ELSE sources[c]
            \/ g \in bare /\ g \notin demoted /\ UNCHANGED <<demoted, sources>>
        <4>1. CASE g \in Recorded
          BY <1>10, <3>1, <3>2, <4>1, ClaimsAreNumbers DEF Graduate
        <4>2. CASE g \notin Recorded
          BY <1>10, <3>2, <4>2 DEF Graduate, Recorded, BareStays
        <4> QED
          BY <4>1, <4>2
      <3>4. PICK j : j = [job[p] EXCEPT !.at = "demote", !.ids = @ \ {Min(@)}]
        OBVIOUS
      <3>5. j.at = "demote" /\ j.ids = Copies(g) \ {g} /\ j.back = job[p].back
        BY <1>10, <3>1, <3>2, <3>4, JobFields DEF Graduate
      <3>6. g \in Copies(g)
        BY <3>2 DEF Copies, Alike
      <3>7. \A c \in Claims : Recurring(c) => c \in job[p].back.todo \/ Settled(c)' \/ c = g
        <4> SUFFICES ASSUME NEW c \in Claims, c \in Groups, c # g, Settled(c) PROVE Settled(c)'
          BY <3>1 DEF Recurring
        <4>1. sources'[c] = sources[c]
          BY <3>3
        <4>2. \A d : d \notin Copies(g) => (d \in demoted' <=> d \in demoted)
          BY <3>3, <3>6
        <4> QED
          BY <2>1, <4>1, <4>2, StaysSettled
      <3>8. g \notin demoted' /\ (g \in bare \/ sources'[g] = Copies(g))
        BY <3>2, <3>3
      <3> QED
        BY <1>5, <1>10, <2>1, <2>2, <3>1, <3>4, <3>5, <3>7, <3>8 DEF Graduate
    <2>3. CASE ~calm
      BY <1>4, <1>10, <2>1, <2>3, Moving
    <2> QED
      BY <2>2, <2>3
  <1>11. ASSUME NEW p \in Procs, DemoteCopies(p) PROVE PassInv'
    <2>1. job[p] # Idle /\ UNCHANGED <<fact, bare, status, sources>>
      BY <1>11, Moving DEF DemoteCopies
    <2>2. CASE calm
      <3>1. PICK g \in Groups :
              /\ job[p].back.todo \subseteq Groups /\ job[p].ids = Copies(g) \ {g}
              /\ g \in bare \/ sources[g] = Copies(g)
              /\ g \notin demoted
              /\ \A c \in Claims : Recurring(c) => c \in job[p].back.todo \/ Settled(c) \/ c = g
        BY <1>11, <2>2 DEF PassInv, DemoteCopies
      <3>2. g \in Copies(g) /\ Copies(g) \subseteq Stored
        BY DEF Groups, Copies, Alike, Live, Stored
      <3>3. demoted' = demoted \cup ((Copies(g) \ {g}) \ bare)
        BY <1>11, <3>1, <3>2 DEF DemoteCopies, Recorded
      <3>4. Settled(g)'
        <4>1. Copies(g)' = Copies(g)
          BY <1>2, <2>1
        <4>2. bare \cap demoted = {}
          BY DEF BareStays
        <4> QED
          BY <2>1, <3>1, <3>2, <3>3, <4>1, <4>2 DEF Settled
      <3>5. \A c \in Claims : Recurring(c) => c \in job[p].back.todo \/ Settled(c)'
        <4> SUFFICES ASSUME NEW c \in Claims, c \in Groups, c # g, Settled(c) PROVE Settled(c)'
          BY <3>1, <3>4 DEF Recurring
        <4>1. \A d : d \notin Copies(g) => (d \in demoted' <=> d \in demoted)
          BY <3>3
        <4> QED
          BY <2>1, <4>1, StaysSettled
      <3>6. job[p].back.at = "groups"
        BY <1>11, JobFields DEF DemoteCopies, GroupsJobs
      <3> QED
        BY <1>5, <1>11, <2>1, <2>2, <3>1, <3>5, <3>6 DEF DemoteCopies
    <2>3. CASE ~calm
      BY <1>4, <1>11, <2>1, <2>3, Moving
    <2> QED
      BY <2>2, <2>3
  <1>12. ASSUME NEW p \in Procs, Prune(p) PROVE PassInv'
    <2>1. job[p].back.at = "score" /\ job[p] # Idle
      BY <1>12, Moving, JobFields DEF Prune, ScoreJobs
    <2> QED
      BY <1>3, <1>12, <2>1 DEF Prune
  <1>13. ASSUME NEW p \in Procs, \E s : ListMissing(p, s) PROVE PassInv'
    <2>1. PICK j : Goto(p, j) /\ j.at = "embed"
      BY <1>13 DEF ListMissing
    <2> QED
      BY <1>3, <1>13, <2>1, Moving
  <1>14. ASSUME NEW p \in Procs, NEW c \in Claims, Rescore(p, c) \/ Embed(p, c) PROVE PassInv'
    <2>1. [job[p] EXCEPT !.todo = @ \ {c}].at \in {"rescore", "embed"} /\ Idle.at = "idle"
      BY <1>14, JobFields DEF Rescore, Embed, AtNext, Idle
    <2>2. PICK j : Goto(p, j) /\ j.at \in {"rescore", "embed", "idle"}
      BY <1>14, <2>1 DEF Rescore, Embed
    <2> QED
      BY <1>3, <1>14, <2>2, Moving
  <1>15. ASSUME NEW p \in Procs, NEW c \in Claims, NEW low \in BOOLEAN, Score(p, c, low)
         PROVE  PassInv'
    <2>1. [job[p] EXCEPT !.todo = @ \ {c}].at = "score"
      BY <1>15, JobFields DEF Score, AtNext, ScoreJobs
    <2>2. PICK j : Goto(p, j) /\ j.at \in {"score", "prune"}
      <3>1. CASE low
        BY <1>15, <3>1 DEF Score
      <3>2. CASE ~low
        BY <1>15, <2>1, <3>2 DEF Score
      <3> QED
        BY <3>1, <3>2
    <2> QED
      BY <1>3, <1>15, <2>2, Moving
  <1>16. ASSUME NEW p \in Procs, EndPass(p) \/ End(p) \/ Die(p) PROVE PassInv'
    <2>1. PICK j : Goto(p, j) /\ j.at \in {"idle", "rescore", "sessions"}
      BY <1>16 DEF EndPass, End, Die, Idle
    <2> QED
      BY <1>3, <1>16, <2>1, Moving
  <1>17. CASE UNCHANGED vars
    <2>1. UNCHANGED <<fact, bare, status, sources, demoted, job, calm>>
      BY <1>17 DEF vars, store
    <2>2. \A c : Settled(c)' <=> Settled(c)
      BY <1>2, <2>1 DEF Settled
    <2> QED
      BY <1>2, <2>1, <2>2 DEF PassInv
  <1> QED
    BY <1>6, <1>7, <1>8, <1>9, <1>10, <1>11, <1>12, <1>13, <1>14, <1>15, <1>16, <1>17 DEF Next

\* In a pass that nothing else writes into, each recurring fact is on the list, in
\* hand, or settled.
THEOREM PassInvHolds == Spec => []PassInv
  <1>1. Init => PassInv
    BY DEF Init, PassInv, Idle
  <1>2. CopiesInv => OneRuns /\ BareStays
    BY DEF CopiesInv
  <1> QED
    BY <1>1, <1>2, UpkeepTypesHold, CopiesInvHolds, PassInvStep, PTL DEF Spec

\* A pass that was left alone ends with the earliest claim of every uncontested
\* recurring fact in retrieval, beside it only copies that have no row, and with
\* all its sources recorded if it has one.
THEOREM PassSettlesHolds == Spec => PassSettles
  <1> DEFINE Settles ==
        \A p \in Procs :
          EndPass(p) /\ calm =>
            \A c \in Groups : ~Contested(c) /\ Cardinality(Copies(c)) > 1 =>
              /\ Copies(c) \ demoted = {c} \cup (Copies(c) \cap bare)
              /\ c \in bare \/ sources[c] = Copies(c)
  <1>1. PassInv /\ [Next]_vars => [Settles]_vars
    BY DEF PassInv, EndPass, Recurring, Settled, Groups, Live
  <1> QED
    BY <1>1, PassInvHolds, PTL DEF Spec, PassSettles

=============================================================================
