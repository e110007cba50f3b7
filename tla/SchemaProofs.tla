----------------------------- MODULE SchemaProofs -----------------------------
(***************************************************************************)
(* What opening the database guarantees for every number of processes that *)
(* open it at the same time, whatever version left the file behind and     *)
(* whoever dies on the way: a database that was opened is complete, and    *)
(* migrating it deletes nothing.                                           *)
(***************************************************************************)
EXTENDS Schema, FiniteSetTheorems, WellFoundedInduction, TLAPS

\* Where a process is: its place in the script, or the step it is at.
Places ==
    [pc : {"out", "version", "stamp", "open"}]
    \cup [pc : {"script"}, i : DOMAIN Script]
    \cup [pc : {"step", "copy"}, i : DOMAIN Steps]
    \cup [pc : {"begin"}, i : DOMAIN Steps, old : {TRUE}]

AtType == at \in [Procs -> Places]

\* A step is done when what it adds is there, or was given up behind a lock.
Done(j) ==
    /\ Steps[j].adds \in tables \cup hidden
    /\ Steps[j].kind = "rebuild" => rebuilt

\* The table is the new one exactly when it has its column.
RebuiltHasText == rebuilt <=> "text" \in tables

\* The script's tables are there once it was run, up to the statement it is at.
Late == {"version", "step", "begin", "copy", "stamp", "open"}

ScriptRanBy(p) ==
    /\ at[p].pc = "script" => \A k \in DOMAIN Script : k < at[p].i => Script[k] \in tables
    /\ at[p].pc \in Late => \A k \in DOMAIN Script : Script[k] \in tables

\* The file has all that its version calls for.
VersionTells == \A j \in DOMAIN Steps : Steps[j].step <= version => Done(j)

\* The steps before the one a process is at are done, the ones that the version
\* it read did not call for among them.
StepsTakenBy(p) ==
    /\ at[p].pc \in {"step", "begin", "copy"} =>
         \A j \in DOMAIN Steps : j < at[p].i \/ Steps[j].step <= current[p] => Done(j)
    /\ at[p].pc \in {"stamp", "open"} => \A j \in DOMAIN Steps : Done(j)

AtTheRebuild(p) == at[p].pc \in {"begin", "copy"} => Steps[at[p].i].kind = "rebuild"

\* The file changes under a rebuild by nobody else's hand, and a rebuild began
\* on the old table unless one is on record that did not.
OneRebuilds ==
    /\ \A p \in Procs : at[p].pc = "copy" <=> writer = p
    /\ \A p \in Procs : at[p].pc = "copy" /\ rebuilt => outdated

\* The rebuild runs without foreign keys.
RebuildsUnenforced(p) == at[p].pc \in {"begin", "copy"} => p \notin enforced

OwnWordsNeedText == \A c \in Claims : text[c] = "own" => rebuilt

SchemaInv ==
    /\ RebuiltHasText /\ VersionTells /\ OneRebuilds /\ OwnWordsNeedText
    /\ \A p \in Procs : ScriptRanBy(p) /\ StepsTakenBy(p) /\ AtTheRebuild(p) /\ RebuildsUnenforced(p)

-----------------------------------------------------------------------------
(* The script and the steps. *)

LEMMA ScriptFacts ==
    /\ DOMAIN Script = 1 .. 9 /\ Len(Script) = 9
    /\ \A k \in DOMAIN Script : Script[k] \in Needed /\ Script[k] # "text"
  BY DEF Script, Needed, Range

LEMMA StepFacts ==
    /\ DOMAIN Steps = 1 .. 18
    /\ \A j \in DOMAIN Steps :
         /\ Steps[j].kind \in {"column", "table", "rebuild"}
         /\ Steps[j].kind = "rebuild" <=> Steps[j].adds = "text"
         /\ Steps[j].step \in 1 .. SchemaVersion
  <1>1. DOMAIN Steps = 1 .. 18
    BY DEF Steps
  <1>2. ASSUME NEW j \in 1 .. 18
        PROVE  /\ Steps[j].kind \in {"column", "table", "rebuild"}
               /\ Steps[j].kind = "rebuild" <=> Steps[j].adds = "text"
               /\ Steps[j].step \in 1 .. SchemaVersion
    BY DEF Steps, Column, Table, SchemaVersion
  <1> QED
    BY <1>1, <1>2

\* Step 4, the rebuild of the claims table, is the sixth statement.
LEMMA TheRebuild ==
    6 \in DOMAIN Steps /\ Steps[6] = [step |-> 4, kind |-> "rebuild", adds |-> "text"]
  BY StepFacts DEF Steps

\* Every set of naturals that has an element has a smallest one.
LEMMA Smallest ==
    ASSUME NEW S, S \subseteq Nat, S # {}
    PROVE  \E x \in S : \A y \in S : x <= y
  <1>1. PICK m \in S : m \in Nat
    OBVIOUS
  <1> DEFINE U == 0 .. m
             Below(x) == {y \in U : y \in S /\ y <= x}
             T == {C \in SUBSET U : \E x \in S : x <= m /\ C = Below(x)}
  <1>2. IsFiniteSet(U)
    BY <1>1, FS_Interval
  <1>3. T \subseteq FiniteSubsetsOf(U) /\ T # {}
    <2>1. Below(m) \in T
      BY <1>1
    <2>2. FiniteSubsetsOf(U) = SUBSET U
      BY <1>2, FS_FiniteSubsetsOfFinite
    <2> QED
      BY <2>1, <2>2
  <1> HIDE DEF T
  <1>4. PICK B \in T : \A C \in T : ~(<<C, B>> \in StrictSubsetOrdering(U))
    BY <1>3, FS_StrictSubsetOrderingWellFounded, WFMin
  <1>5. PICK x \in S : x <= m /\ B = Below(x)
    BY <1>4 DEF T
  <1>6. ASSUME NEW y \in S, y < x PROVE FALSE
    <2>1. Below(y) \in T
      BY <1>1, <1>5, <1>6 DEF T
    <2>2. Below(y) \subseteq B /\ x \in B /\ x \notin Below(y)
      BY <1>1, <1>5, <1>6
    <2>3. <<Below(y), B>> \in StrictSubsetOrdering(U)
      BY <2>1, <2>2, <1>4 DEF StrictSubsetOrdering, T
    <2> QED
      BY <1>4, <2>1, <2>3
  <1> QED
    BY <1>6

\* The next step is the first one that is due; the ones passed over are not.
LEMMA NextIsFirstDue ==
    ASSUME NEW p \in Procs, NEW i \in Nat, current'[p] \in Nat
    PROVE  \/ /\ NextStep(p, i) = [pc |-> "stamp"]
              /\ \A j \in DOMAIN Steps : j > i => Steps[j].step <= current'[p]
           \/ \E j \in DOMAIN Steps :
                /\ NextStep(p, i) = [pc |-> "step", i |-> j]
                /\ \A k \in DOMAIN Steps : k > i /\ k < j => Steps[k].step <= current'[p]
  <1> DEFINE due == {j \in DOMAIN Steps : j > i /\ Steps[j].step > current'[p]}
  <1>1. \A j \in DOMAIN Steps : j \in Nat /\ Steps[j].step \in Nat
    BY StepFacts
  <1>2. CASE due = {}
    BY <1>1, <1>2 DEF NextStep
  <1>3. CASE due # {}
    <2> DEFINE j == CHOOSE j \in due : \A k \in due : j <= k
    <2>1. j \in due /\ \A k \in due : j <= k
      <3>1. \E x \in due : \A k \in due : x <= k
        BY <1>1, <1>3, Smallest
      <3> QED
        BY <3>1
    <2>2. NextStep(p, i) = [pc |-> "step", i |-> j]
      BY <1>3 DEF NextStep
    <2>3. \A k \in DOMAIN Steps : k > i /\ k < j => Steps[k].step <= current'[p]
      BY <1>1, <2>1
    <2> QED
      BY <2>1, <2>2, <2>3
  <1> QED
    BY <1>2, <1>3

-----------------------------------------------------------------------------
(* Types. *)

LEMMA GoesTo ==
    ASSUME AtType, NEW p \in Procs, NEW place \in Places, Goto(p, place)
    PROVE  AtType' /\ at'[p] = place /\ \A q \in Procs \ {p} : at'[q] = at[q]
  BY DEF AtType, Goto

LEMMA PlaceFacts ==
    ASSUME AtType, NEW p \in Procs
    PROVE  /\ at[p].pc \in {"out", "script", "version", "step", "begin", "copy", "stamp", "open"}
           /\ at[p].pc = "script" => at[p].i \in DOMAIN Script /\ at[p] \in [pc : {"script"}, i : DOMAIN Script]
           /\ at[p].pc \in {"step", "begin", "copy"} => at[p].i \in DOMAIN Steps
           /\ at[p].pc = "begin" => at[p].old = TRUE
  <1>1. at[p] \in Places
    BY DEF AtType
  <1>2. CASE at[p] \in [pc : {"out", "version", "stamp", "open"}]
    BY <1>2
  <1>3. CASE at[p] \in [pc : {"script"}, i : DOMAIN Script]
    BY <1>3
  <1>4. CASE at[p] \in [pc : {"step", "copy"}, i : DOMAIN Steps]
    BY <1>4
  <1>5. CASE at[p] \in [pc : {"begin"}, i : DOMAIN Steps, old : {TRUE}]
    BY <1>5
  <1> QED
    BY <1>1, <1>2, <1>3, <1>4, <1>5 DEF Places

LEMMA PlacesAre ==
    /\ \A pc \in {"out", "version", "stamp", "open"} : [pc |-> pc] \in Places
    /\ \A k \in DOMAIN Script : [pc |-> "script", i |-> k] \in Places
    /\ \A j \in DOMAIN Steps :
         /\ [pc |-> "step", i |-> j] \in Places /\ [pc |-> "copy", i |-> j] \in Places
         /\ [pc |-> "begin", i |-> j, old |-> TRUE] \in Places
  BY DEF Places

LEMMA NextIsAPlace ==
    ASSUME NEW p \in Procs, NEW i \in Nat, current'[p] \in Nat
    PROVE  NextStep(p, i) \in Places
  BY NextIsFirstDue, PlacesAre

\* The types of what is not the place of a process.
StoreType ==
    /\ tables \subseteq Needed /\ hidden \subseteq Needed
    /\ rebuilt \in BOOLEAN /\ outdated \in BOOLEAN
    /\ version \in 0 .. SchemaVersion
    /\ text \in [Claims -> {Absent, "none", "triple", "own"}]
    /\ meta \subseteq Claims
    /\ writer \in Procs \cup {Absent}
    /\ enforced \subseteq Procs
    /\ current \in [Procs -> 0 .. SchemaVersion]

LEMMA NeededHas ==
    /\ \A k \in DOMAIN Script : Script[k] \in Needed /\ Born(Script[k]) \subseteq Needed
    /\ \A j \in DOMAIN Steps : Steps[j].adds \in Needed
    /\ "text" \in Needed
  <1>1. \A k \in DOMAIN Script : Script[k] \in Needed
    BY DEF Needed, Range
  <1>2. \A j \in DOMAIN Steps : Steps[j].adds \in Needed
    BY DEF Needed, Range
  <1>3. Steps[2].adds = "source_type" /\ Steps[3].adds = "source_metadata"
        /\ Steps[4].adds = "extraction_status" /\ Steps[6].adds = "text"
    BY DEF Steps, Column
  <1>4. {"source_type", "source_metadata", "extraction_status", "text"} \subseteq Needed
    BY <1>2, <1>3, StepFacts
  <1>5. ASSUME NEW t PROVE Born(t) \in {{"source_type", "source_metadata", "extraction_status"}, {"text"}, {}}
    BY DEF Born
  <1> QED
    BY <1>1, <1>2, <1>4, <1>5

LEMMA SchemaTypeStep == AtType /\ StoreType /\ [Next]_vars => AtType' /\ StoreType'
  <1> SUFFICES ASSUME AtType, StoreType, [Next]_vars PROVE AtType' /\ StoreType'
    OBVIOUS
  <1> USE DEF file
  <1>0. \A v \in 0 .. SchemaVersion : v \in Nat
    BY DEF SchemaVersion
  <1>a. ASSUME NEW p \in Procs, at[p].pc \in {"step", "copy"}, Advance(p)
        PROVE  AtType' /\ current' = current
    <2>1. at[p].i \in Nat
      <3>1. at[p].i \in DOMAIN Steps
        BY <1>a, PlaceFacts
      <3> QED
        BY <3>1, StepFacts
    <2>2. current' = current /\ Goto(p, NextStep(p, at[p].i))
      BY <1>a DEF Advance
    <2>3. current'[p] \in Nat
      BY <1>0, <2>2 DEF StoreType
    <2> QED
      BY <2>1, <2>2, <2>3, NextIsAPlace, GoesTo
  <1>1. ASSUME NEW p \in Procs, Open(p) PROVE AtType' /\ StoreType'
    <2>1. AtType'
      BY <1>1, ScriptFacts, PlacesAre, GoesTo DEF Open
    <2> QED
      BY <1>1, <2>1 DEF Open, StoreType
  <1>2. ASSUME NEW p \in Procs, ScriptStatement(p) PROVE AtType' /\ StoreType'
    <2>1. at[p].i \in DOMAIN Script /\ at[p] \in [pc : {"script"}, i : DOMAIN Script]
      BY <1>2, PlaceFacts DEF ScriptStatement
    <2>2. at[p].i # Len(Script) => [at[p] EXCEPT !.i = @ + 1] = [pc |-> "script", i |-> at[p].i + 1]
                                   /\ at[p].i + 1 \in DOMAIN Script
      BY <2>1, ScriptFacts
    <2>3. AtType'
      BY <1>2, <2>2, PlacesAre, GoesTo DEF ScriptStatement
    <2>4. tables' \subseteq Needed /\ rebuilt' \in BOOLEAN
      BY <1>2, <2>1, NeededHas DEF ScriptStatement, StoreType
    <2> QED
      BY <1>2, <2>3, <2>4 DEF ScriptStatement, StoreType
  <1>3. ASSUME NEW p \in Procs, ReadVersion(p) PROVE AtType' /\ StoreType'
    <2>1. current'[p] \in Nat /\ current' \in [Procs -> 0 .. SchemaVersion]
      BY <1>0, <1>3 DEF ReadVersion, StoreType
    <2>2. AtType'
      BY <1>3, <2>1, NextIsAPlace, PlacesAre, GoesTo DEF ReadVersion
    <2> QED
      BY <1>3, <2>1, <2>2 DEF ReadVersion, StoreType
  <1>4. ASSUME NEW p \in Procs, Add(p) PROVE AtType' /\ StoreType'
    <2>1. AtType' /\ current' = current /\ Steps[at[p].i].adds \in Needed
      BY <1>a, <1>4, PlaceFacts, NeededHas DEF Add
    <2> QED
      BY <1>4, <2>1 DEF Add, StoreType
  <1>5. ASSUME NEW p \in Procs, Suppress(p) PROVE AtType' /\ StoreType'
    <2>1. AtType' /\ current' = current /\ Steps[at[p].i].adds \in Needed
      BY <1>a, <1>5, PlaceFacts, NeededHas DEF Suppress
    <2> QED
      BY <1>5, <2>1 DEF Suppress, StoreType
  <1>6. ASSUME NEW p \in Procs, Unavailable(p) PROVE AtType' /\ StoreType'
    <2>1. AtType'
      BY <1>6, PlacesAre, GoesTo DEF Unavailable
    <2> QED
      BY <1>6, <2>1 DEF Unavailable, StoreType
  <1>7. ASSUME NEW p \in Procs, Look(p) PROVE AtType' /\ StoreType'
    <2>1. at[p].i \in DOMAIN Steps
      BY <1>7, PlaceFacts DEF Look
    <2>2. AtType' /\ current' = current
      BY <1>a, <1>7, <2>1, PlacesAre, GoesTo DEF Look
    <2> QED
      BY <1>7, <2>2 DEF Look, StoreType
  <1>8. ASSUME NEW p \in Procs, BeginRebuild(p) PROVE AtType' /\ StoreType'
    <2>1. at[p].i \in DOMAIN Steps /\ at[p].old = TRUE
      BY <1>8, PlaceFacts DEF BeginRebuild
    <2>2. AtType'
      BY <1>8, <2>1, PlacesAre, GoesTo DEF BeginRebuild
    <2> QED
      BY <1>8, <2>1, <2>2 DEF BeginRebuild, StoreType
  <1>9. ASSUME NEW p \in Procs, CommitRebuild(p) PROVE AtType' /\ StoreType'
    <2>1. AtType' /\ current' = current
      BY <1>a, <1>9 DEF CommitRebuild
    <2>2. text' \in [Claims -> {Absent, "none", "triple", "own"}]
      BY <1>9 DEF CommitRebuild
    <2>3. tables' \subseteq Needed
      BY <1>9, NeededHas DEF CommitRebuild, StoreType
    <2> QED
      BY <1>9, <2>1, <2>2, <2>3 DEF CommitRebuild, StoreType
  <1>10. ASSUME NEW p \in Procs, Stamp(p) PROVE AtType' /\ StoreType'
    <2>1. AtType'
      BY <1>10, PlacesAre, GoesTo DEF Stamp
    <2>2. SchemaVersion \in 0 .. SchemaVersion
      BY DEF SchemaVersion
    <2> QED
      BY <1>10, <2>1, <2>2 DEF Stamp, StoreType
  <1>11. ASSUME NEW p \in Procs, Exit(p) PROVE AtType' /\ StoreType'
    <2>1. AtType'
      BY <1>11, PlacesAre, GoesTo DEF Exit
    <2> QED
      BY <1>11, <2>1 DEF Exit, StoreType
  <1>12. ASSUME NEW p \in Procs, NEW c \in Claims, Store(p, c) PROVE AtType' /\ StoreType'
    BY <1>12 DEF Store, StoreType, AtType
  <1>13. CASE UNCHANGED vars
    BY <1>13 DEF vars, StoreType, AtType
  <1> QED
    BY <1>1, <1>2, <1>3, <1>4, <1>5, <1>6, <1>7, <1>8, <1>9, <1>10, <1>11, <1>12, <1>13 DEF Next

LEMMA SchemaTypesHold == Spec => [](AtType /\ StoreType)
  <1>1. Init => AtType
    BY PlacesAre DEF Init, AtType
  <1>2. Init => StoreType
    <2> SUFFICES ASSUME Init PROVE StoreType
      OBVIOUS
    <2>1. \A v : LeftBy(v) \subseteq Needed
      <3>1. Script[1] = "turns" /\ Script[2] = "claims" /\ Script[3] = "claim_metadata"
            /\ Script[7] = "session_digests"
        BY DEF Script
      <3>2. {"turns", "claims", "claim_metadata", "session_digests"} \subseteq Needed
        BY <3>1, ScriptFacts, NeededHas
      <3> QED
        BY <3>2 DEF LeftBy, Needed
    <2>2. "importance_score" \in Needed
      <3>1. Steps[1].adds = "importance_score"
        BY DEF Steps, Column
      <3> QED
        BY <3>1, StepFacts, NeededHas
    <2>3. version \in 0 .. SchemaVersion /\ 0 \in 0 .. SchemaVersion
      BY SchemaAssumption DEF Init, SchemaVersion
    <2>4. tables \subseteq Needed
      BY <2>1, <2>2 DEF Init
    <2>5. text \in [Claims -> {Absent, "none", "triple", "own"}]
      BY DEF Init
    <2>6. writer = Absent /\ hidden = {} /\ outdated = FALSE /\ rebuilt \in BOOLEAN
          /\ meta \subseteq Claims /\ enforced = {} /\ current = [p \in Procs |-> 0]
      BY DEF Init
    <2> QED
      BY <2>3, <2>4, <2>5, <2>6 DEF StoreType
  <1> QED
    BY <1>1, <1>2, SchemaTypeStep, PTL DEF Spec

\* Every variable keeps its type, however the openings of several processes
\* interleave and wherever one of them dies.
THEOREM SchemaTypeCorrect == Spec => []TypeOK
  <1>1. AtType /\ StoreType => TypeOK
    BY PlaceFacts DEF StoreType, TypeOK
  <1> QED
    BY <1>1, SchemaTypesHold, PTL

-----------------------------------------------------------------------------
(* A file that only grows. *)

LEMMA FileGrows ==
    ASSUME StoreType, [Next]_vars
    PROVE  /\ tables \subseteq tables' /\ hidden \subseteq hidden'
           /\ rebuilt => rebuilt'
           /\ outdated => outdated'
  <1> USE DEF file
  <1>1. ASSUME NEW p \in Procs, Open(p) \/ ReadVersion(p) \/ Unavailable(p) \/ Look(p) \/ Stamp(p) \/ Exit(p)
        PROVE  UNCHANGED <<tables, hidden, rebuilt, outdated>>
    BY <1>1 DEF Open, ReadVersion, Unavailable, Look, Stamp, Exit
  <1>2. ASSUME NEW p \in Procs, ScriptStatement(p)
        PROVE  tables \subseteq tables' /\ (rebuilt => rebuilt') /\ UNCHANGED <<hidden, outdated>>
    BY <1>2 DEF ScriptStatement
  <1>3. ASSUME NEW p \in Procs, Add(p) \/ Suppress(p)
        PROVE  tables \subseteq tables' /\ hidden \subseteq hidden' /\ UNCHANGED <<rebuilt, outdated>>
    BY <1>3 DEF Add, Suppress
  <1>4. ASSUME NEW p \in Procs, BeginRebuild(p)
        PROVE  UNCHANGED <<tables, hidden, rebuilt>> /\ (outdated => outdated')
    BY <1>4 DEF BeginRebuild
  <1>5. ASSUME NEW p \in Procs, CommitRebuild(p)
        PROVE  tables \subseteq tables' /\ rebuilt' /\ UNCHANGED <<hidden, outdated>>
    BY <1>5 DEF CommitRebuild
  <1>6. ASSUME NEW p \in Procs, NEW c \in Claims, Store(p, c)
        PROVE  UNCHANGED <<tables, hidden, rebuilt, outdated>>
    BY <1>6 DEF Store
  <1>7. CASE UNCHANGED vars
    BY <1>7 DEF vars
  <1> QED
    BY <1>1, <1>2, <1>3, <1>4, <1>5, <1>6, <1>7 DEF Next

\* What is done stays done.
LEMMA DoneStays ==
    ASSUME StoreType, [Next]_vars, NEW j, Done(j)
    PROVE  Done(j)'
  BY FileGrows DEF Done

\* A process that advances from a step that is done to the next one has every
\* step before that one done.
LEMMA AdvanceIsSound ==
    ASSUME AtType, StoreType, [Next]_vars, NEW p \in Procs, NEW i \in Nat,
           current'[p] \in Nat, Goto(p, NextStep(p, i)),
           \A j \in DOMAIN Steps : j <= i \/ Steps[j].step <= current'[p] => Done(j)'
    PROVE  /\ at'[p].pc \in {"step", "stamp"}
           /\ at'[p].pc = "step" =>
                \A j \in DOMAIN Steps : j < at'[p].i \/ Steps[j].step <= current'[p] => Done(j)'
           /\ at'[p].pc = "stamp" => \A j \in DOMAIN Steps : Done(j)'
  <1>0. at'[p] = NextStep(p, i)
    BY NextIsAPlace, GoesTo
  <1>1. \A j \in DOMAIN Steps : j \in Nat
    BY StepFacts
  <1>2. CASE /\ NextStep(p, i) = [pc |-> "stamp"]
             /\ \A j \in DOMAIN Steps : j > i => Steps[j].step <= current'[p]
    BY <1>0, <1>1, <1>2
  <1>3. ASSUME NEW n \in DOMAIN Steps, NextStep(p, i) = [pc |-> "step", i |-> n],
               \A k \in DOMAIN Steps : k > i /\ k < n => Steps[k].step <= current'[p]
        PROVE  /\ at'[p].pc = "step" /\ at'[p].i = n
               /\ \A j \in DOMAIN Steps : j < n \/ Steps[j].step <= current'[p] => Done(j)'
    BY <1>0, <1>1, <1>3
  <1> QED
    BY <1>2, <1>3, NextIsFirstDue

-----------------------------------------------------------------------------
(* The inductive invariant, part by part. *)

Types == AtType /\ StoreType

LEMMA RebuiltHasTextStep == Types /\ RebuiltHasText /\ [Next]_vars => RebuiltHasText'
  <1> SUFFICES ASSUME Types, RebuiltHasText, [Next]_vars PROVE RebuiltHasText'
    OBVIOUS
  <1> USE DEF RebuiltHasText, Types, file
  <1>1. ASSUME NEW p \in Procs, Open(p) \/ ReadVersion(p) \/ Unavailable(p) \/ Look(p) \/ Stamp(p) \/ Exit(p)
                                \/ Suppress(p) \/ BeginRebuild(p) \/ \E c \in Claims : Store(p, c)
        PROVE  RebuiltHasText'
    BY <1>1 DEF Open, ReadVersion, Unavailable, Look, Stamp, Exit, Suppress, BeginRebuild, Store
  <1>2. ASSUME NEW p \in Procs, ScriptStatement(p) PROVE RebuiltHasText'
    <2> DEFINE t == Script[at[p].i]
    <2>1. t # "text"
      BY <1>2, PlaceFacts, ScriptFacts DEF ScriptStatement
    <2>2. "text" \in Born(t) <=> t = "claims"
      BY DEF Born
    <2> QED
      BY <1>2, <2>1, <2>2 DEF ScriptStatement, StoreType
  <1>3. ASSUME NEW p \in Procs, Add(p) PROVE RebuiltHasText'
    <2>1. at[p].i \in DOMAIN Steps /\ Steps[at[p].i].kind # "rebuild"
      BY <1>3, PlaceFacts DEF Add
    <2>2. Steps[at[p].i].adds # "text"
      BY <2>1, StepFacts
    <2> QED
      BY <1>3, <2>2 DEF Add
  <1>4. ASSUME NEW p \in Procs, CommitRebuild(p) PROVE RebuiltHasText'
    BY <1>4 DEF CommitRebuild
  <1>5. CASE UNCHANGED vars
    BY <1>5 DEF vars
  <1> QED
    BY <1>1, <1>2, <1>3, <1>4, <1>5 DEF Next

\* Where the step of process p leads: the others stay where they are.
LEMMA Leads ==
    ASSUME AtType, StoreType, [Next]_vars
    PROVE  \/ UNCHANGED <<at, current>>
           \/ \E p \in Procs :
                /\ \A q \in Procs \ {p} : at'[q] = at[q] /\ current'[q] = current[q]
                /\ \/ at'[p].pc = "out" /\ p \notin enforced'
                   \/ at'[p] = [pc |-> "script", i |-> 1]
                   \/ ScriptStatement(p) \/ ReadVersion(p) \/ Add(p) \/ Suppress(p) \/ Look(p)
                   \/ BeginRebuild(p) \/ CommitRebuild(p) \/ Stamp(p)
  <1> USE DEF file
  <1>1. ASSUME NEW p \in Procs, ReadVersion(p)
        PROVE  \A q \in Procs \ {p} : at'[q] = at[q] /\ current'[q] = current[q]
    BY <1>1 DEF ReadVersion, Goto, AtType, StoreType
  <1>2. ASSUME NEW p \in Procs,
               ScriptStatement(p) \/ Add(p) \/ Suppress(p) \/ Look(p) \/ BeginRebuild(p)
               \/ CommitRebuild(p) \/ Stamp(p)
        PROVE  \A q \in Procs \ {p} : at'[q] = at[q] /\ current'[q] = current[q]
    BY <1>2 DEF ScriptStatement, Add, Suppress, Look, BeginRebuild, CommitRebuild, Stamp, Advance, Goto, AtType
  <1>3. ASSUME NEW p \in Procs, Open(p)
        PROVE  /\ \A q \in Procs \ {p} : at'[q] = at[q] /\ current'[q] = current[q]
               /\ at'[p] = [pc |-> "script", i |-> 1]
    BY <1>3 DEF Open, Goto, AtType
  <1>4. ASSUME NEW p \in Procs, Unavailable(p) \/ Exit(p)
        PROVE  /\ \A q \in Procs \ {p} : at'[q] = at[q] /\ current'[q] = current[q]
               /\ at'[p].pc = "out" /\ p \notin enforced'
    BY <1>4 DEF Unavailable, Exit, Goto, AtType
  <1>5. ASSUME NEW p \in Procs, NEW c \in Claims, Store(p, c) PROVE UNCHANGED <<at, current>>
    BY <1>5 DEF Store
  <1>6. CASE UNCHANGED vars
    BY <1>6 DEF vars
  <1> QED
    BY <1>1, <1>2, <1>3, <1>4, <1>5, <1>6 DEF Next

LEMMA LateStays ==
    ASSUME AtType, StoreType, [Next]_vars, NEW p \in Procs,
           ReadVersion(p) \/ Add(p) \/ Suppress(p) \/ Look(p) \/ BeginRebuild(p) \/ CommitRebuild(p) \/ Stamp(p)
    PROVE  at[p].pc \in Late /\ at'[p].pc \in Late
  <1>0. \A v \in 0 .. SchemaVersion : v \in Nat
    BY DEF SchemaVersion
  <1>1. ASSUME NEW i \in Nat, current'[p] \in Nat, Goto(p, NextStep(p, i)) PROVE at'[p].pc \in Late
    BY <1>1, NextIsFirstDue, NextIsAPlace, GoesTo DEF Late
  <1>2. ASSUME at[p].pc \in {"step", "copy"}, Advance(p) PROVE at'[p].pc \in Late
    <2>1. at[p].i \in Nat
      <3>1. at[p].i \in DOMAIN Steps
        BY <1>2, PlaceFacts
      <3> QED
        BY <3>1, StepFacts
    <2>2. current'[p] \in Nat
      BY <1>0, <1>2 DEF Advance, StoreType
    <2> QED
      BY <1>1, <1>2, <2>1, <2>2 DEF Advance
  <1>3. CASE ReadVersion(p)
    <2>1. current'[p] \in Nat
      BY <1>0, <1>3 DEF ReadVersion, StoreType
    <2>2. CASE version >= SchemaVersion
      BY <1>3, <2>2, PlacesAre, GoesTo DEF ReadVersion, Late
    <2>3. CASE ~(version >= SchemaVersion)
      BY <1>1, <1>3, <2>1, <2>3 DEF ReadVersion, Late
    <2> QED
      BY <2>2, <2>3
  <1>4. CASE Add(p) \/ Suppress(p) \/ CommitRebuild(p)
    BY <1>2, <1>4 DEF Add, Suppress, CommitRebuild, Late
  <1>5. CASE Look(p)
    <2>1. at[p].i \in DOMAIN Steps
      BY <1>5, PlaceFacts DEF Look
    <2>2. CASE rebuilt
      BY <1>2, <1>5, <2>2 DEF Look, Late
    <2>3. CASE ~rebuilt
      <3>1. at'[p] = [pc |-> "begin", i |-> at[p].i, old |-> TRUE]
        BY <1>5, <2>1, <2>3, PlacesAre, GoesTo DEF Look
      <3> QED
        BY <1>5, <3>1 DEF Look, Late
    <2> QED
      BY <2>2, <2>3
  <1>6. CASE BeginRebuild(p)
    <2>1. at[p].i \in DOMAIN Steps
      BY <1>6, PlaceFacts DEF BeginRebuild
    <2>2. at'[p] = [pc |-> "copy", i |-> at[p].i]
      BY <1>6, <2>1, PlacesAre, GoesTo DEF BeginRebuild
    <2> QED
      BY <1>6, <2>2 DEF BeginRebuild, Late
  <1>7. CASE Stamp(p)
    BY <1>7, PlacesAre, GoesTo DEF Stamp, Late
  <1> QED
    BY <1>3, <1>4, <1>5, <1>6, <1>7

LEMMA ScriptRanStep ==
    Types /\ [Next]_vars /\ (\A p \in Procs : ScriptRanBy(p)) => \A p \in Procs : ScriptRanBy(p)'
  <1> SUFFICES ASSUME AtType, StoreType, [Next]_vars, \A p \in Procs : ScriptRanBy(p), NEW q \in Procs
               PROVE  ScriptRanBy(q)'
    BY DEF Types
  <1>1. CASE at'[q] = at[q]
    BY <1>1, FileGrows DEF ScriptRanBy
  <1>2. CASE at'[q].pc = "out"
    BY <1>2 DEF ScriptRanBy, Late
  <1>3. CASE at'[q] = [pc |-> "script", i |-> 1]
    BY <1>3, ScriptFacts DEF ScriptRanBy, Late
  <1>4. CASE ScriptStatement(q)
    <2>1. at[q].pc = "script" /\ at[q].i \in 1 .. 9 /\ at[q] \in [pc : {"script"}, i : DOMAIN Script]
      BY <1>4, PlaceFacts, ScriptFacts DEF ScriptStatement
    <2>2. \A k \in DOMAIN Script : k <= at[q].i => Script[k] \in tables'
      <3>1. Script[at[q].i] \in tables'
        BY <1>4 DEF ScriptStatement
      <3>2. \A k \in DOMAIN Script : k <= at[q].i => k < at[q].i \/ k = at[q].i
        BY <2>1, ScriptFacts
      <3>3. \A k \in DOMAIN Script : k < at[q].i => Script[k] \in tables
        BY <2>1 DEF ScriptRanBy
      <3> QED
        BY <3>1, <3>2, <3>3, FileGrows
    <2>3. CASE at[q].i = Len(Script)
      <3>1. at'[q].pc = "version"
        BY <1>4, <2>3, PlacesAre, GoesTo DEF ScriptStatement
      <3> QED
        BY <2>2, <2>3, <3>1, ScriptFacts DEF ScriptRanBy
    <2>4. CASE at[q].i # Len(Script)
      <3>1. [at[q] EXCEPT !.i = @ + 1] = [pc |-> "script", i |-> at[q].i + 1] /\ at[q].i + 1 \in DOMAIN Script
        BY <2>1, <2>4, ScriptFacts
      <3>2. at'[q] = [pc |-> "script", i |-> at[q].i + 1]
        BY <1>4, <2>4, <3>1, PlacesAre, GoesTo DEF ScriptStatement
      <3>3. \A k \in DOMAIN Script : k < at[q].i + 1 => k <= at[q].i
        BY <2>1, ScriptFacts
      <3> QED
        BY <2>2, <3>2, <3>3 DEF ScriptRanBy, Late
    <2> QED
      BY <2>3, <2>4
  <1>5. CASE \/ ReadVersion(q) \/ Add(q) \/ Suppress(q) \/ Look(q) \/ BeginRebuild(q) \/ CommitRebuild(q)
             \/ Stamp(q)
    BY <1>5, LateStays, FileGrows DEF ScriptRanBy, Late
  <1> QED
    BY <1>1, <1>2, <1>3, <1>4, <1>5, Leads

LEMMA StepsTakenStep ==
    Types /\ SchemaInv /\ [Next]_vars => \A p \in Procs : StepsTakenBy(p)'
  <1> SUFFICES ASSUME AtType, StoreType, SchemaInv, [Next]_vars, NEW q \in Procs
               PROVE  StepsTakenBy(q)'
    BY DEF Types
  <1>0. StepsTakenBy(q) /\ \A j \in DOMAIN Steps : Done(j) => Done(j)'
    BY DoneStays DEF SchemaInv
  <1>b. \A v \in 0 .. SchemaVersion : v \in Nat
    BY DEF SchemaVersion
  <1>a. ASSUME NEW i \in DOMAIN Steps, at[q].i = i, at[q].pc \in {"step", "copy"}, Advance(q), Done(i)'
        PROVE  StepsTakenBy(q)'
    <2>1. current' = current /\ Goto(q, NextStep(q, i))
      BY <1>a DEF Advance
    <2>2. i \in Nat /\ current'[q] \in Nat
      BY <1>b, <2>1, StepFacts DEF StoreType
    <2>3. \A j \in DOMAIN Steps : j <= i \/ Steps[j].step <= current'[q] => Done(j)'
      <3>1. \A j \in DOMAIN Steps : j <= i => j < i \/ j = i
        BY <2>2, StepFacts
      <3>2. \A j \in DOMAIN Steps : j < i \/ Steps[j].step <= current'[q] => Done(j)
        BY <1>0, <1>a, <2>1 DEF StepsTakenBy
      <3> QED
        BY <1>0, <1>a, <3>1, <3>2
    <2>4. /\ at'[q].pc \in {"step", "stamp"}
          /\ at'[q].pc = "step" =>
                \A j \in DOMAIN Steps : j < at'[q].i \/ Steps[j].step <= current'[q] => Done(j)'
          /\ at'[q].pc = "stamp" => \A j \in DOMAIN Steps : Done(j)'
      BY <2>1, <2>2, <2>3, AdvanceIsSound
    <2> QED
      BY <2>4 DEF StepsTakenBy
  <1>1. CASE at'[q] = at[q] /\ current'[q] = current[q]
    BY <1>0, <1>1 DEF StepsTakenBy
  <1>2. CASE at'[q].pc = "out" \/ at'[q] = [pc |-> "script", i |-> 1]
    BY <1>2 DEF StepsTakenBy
  <1>3. CASE ScriptStatement(q)
    <2>1. at[q].i \in 1 .. 9 /\ at[q] \in [pc : {"script"}, i : DOMAIN Script]
      BY <1>3, PlaceFacts, ScriptFacts DEF ScriptStatement
    <2>2. at[q].i # Len(Script) =>
            [at[q] EXCEPT !.i = @ + 1] = [pc |-> "script", i |-> at[q].i + 1] /\ at[q].i + 1 \in DOMAIN Script
      BY <2>1, ScriptFacts
    <2>3. at'[q].pc \in {"script", "version"}
      BY <1>3, <2>2, PlacesAre, GoesTo DEF ScriptStatement
    <2> QED
      BY <2>3 DEF StepsTakenBy
  <1>4. CASE ReadVersion(q)
    <2>1. current'[q] = version /\ version \in 0 .. SchemaVersion /\ version \in Nat
      BY <1>4, <1>b DEF ReadVersion, StoreType
    <2>2. \A j \in DOMAIN Steps : Steps[j].step <= version => Done(j)'
      BY <1>0 DEF SchemaInv, VersionTells
    <2>3. CASE version >= SchemaVersion
      <3>1. at'[q].pc = "open"
        BY <1>4, <2>3, PlacesAre, GoesTo DEF ReadVersion
      <3>2. \A j \in DOMAIN Steps : Steps[j].step <= version
        BY <2>1, <2>3, StepFacts DEF SchemaVersion
      <3> QED
        BY <2>2, <3>1, <3>2 DEF StepsTakenBy
    <2>4. CASE ~(version >= SchemaVersion)
      <3>1. Goto(q, NextStep(q, 0))
        BY <1>4, <2>4 DEF ReadVersion
      <3>2. \A j \in DOMAIN Steps : j <= 0 \/ Steps[j].step <= current'[q] => Done(j)'
        BY <2>1, <2>2, StepFacts
      <3>3. /\ at'[q].pc \in {"step", "stamp"}
            /\ at'[q].pc = "step" =>
                  \A j \in DOMAIN Steps : j < at'[q].i \/ Steps[j].step <= current'[q] => Done(j)'
            /\ at'[q].pc = "stamp" => \A j \in DOMAIN Steps : Done(j)'
        BY <2>1, <3>1, <3>2, AdvanceIsSound
      <3> QED
        BY <3>3 DEF StepsTakenBy
    <2> QED
      BY <2>3, <2>4
  <1>5. CASE Add(q)
    <2>1. PICK i \in DOMAIN Steps : i = at[q].i
      BY <1>5, PlaceFacts DEF Add
    <2>2. Done(i)'
      BY <1>5, <2>1 DEF Add, Done
    <2> QED
      BY <1>5, <1>a, <2>1, <2>2 DEF Add
  <1>6. CASE Suppress(q)
    <2>1. PICK i \in DOMAIN Steps : i = at[q].i
      BY <1>6, PlaceFacts DEF Suppress
    <2>2. Done(i)'
      BY <1>6, <2>1 DEF Suppress, Done
    <2> QED
      BY <1>6, <1>a, <2>1, <2>2 DEF Suppress
  <1>7. CASE Look(q)
    <2>1. PICK i \in DOMAIN Steps : i = at[q].i /\ Steps[i].adds = "text"
      BY <1>7, PlaceFacts, StepFacts DEF Look
    <2>2. CASE rebuilt
      <3>1. Done(i)
        BY <2>1, <2>2 DEF Done, SchemaInv, RebuiltHasText
      <3> QED
        BY <1>0, <1>7, <1>a, <2>1, <2>2, <3>1 DEF Look
    <2>3. CASE ~rebuilt
      <3>1. at'[q] = [pc |-> "begin", i |-> at[q].i, old |-> TRUE] /\ current' = current
        BY <1>7, <2>1, <2>3, PlacesAre, GoesTo DEF Look
      <3> QED
        BY <1>0, <1>7, <3>1 DEF Look, StepsTakenBy
    <2> QED
      BY <2>2, <2>3
  <1>8. CASE BeginRebuild(q)
    <2>1. at[q].i \in DOMAIN Steps
      BY <1>8, PlaceFacts DEF BeginRebuild
    <2>2. at'[q] = [pc |-> "copy", i |-> at[q].i] /\ current' = current
      BY <1>8, <2>1, PlacesAre, GoesTo DEF BeginRebuild
    <2> QED
      BY <1>0, <1>8, <2>2 DEF BeginRebuild, StepsTakenBy
  <1>9. CASE CommitRebuild(q)
    <2>1. PICK i \in DOMAIN Steps : i = at[q].i /\ Steps[i].adds = "text"
      BY <1>9, PlaceFacts, StepFacts DEF CommitRebuild, SchemaInv, AtTheRebuild
    <2>2. Done(i)'
      BY <1>9, <2>1 DEF CommitRebuild, Done
    <2> QED
      BY <1>9, <1>a, <2>1, <2>2 DEF CommitRebuild
  <1>10. CASE Stamp(q)
    <2>1. at'[q].pc = "open"
      BY <1>10, PlacesAre, GoesTo DEF Stamp
    <2> QED
      BY <1>0, <1>10, <2>1 DEF Stamp, StepsTakenBy
  <1> QED
    BY <1>1, <1>2, <1>3, <1>4, <1>5, <1>6, <1>7, <1>8, <1>9, <1>10, Leads

LEMMA VersionTellsStep == Types /\ SchemaInv /\ [Next]_vars => VersionTells'
  <1> SUFFICES ASSUME AtType, StoreType, SchemaInv, [Next]_vars PROVE VersionTells'
    BY DEF Types
  <1> USE DEF file
  <1>0. \A j \in DOMAIN Steps : Done(j) => Done(j)'
    BY DoneStays
  <1>1. CASE version' = version
    BY <1>0, <1>1 DEF SchemaInv, VersionTells
  <1>2. ASSUME NEW p \in Procs, Stamp(p) PROVE VersionTells'
    BY <1>0, <1>2 DEF Stamp, SchemaInv, StepsTakenBy, VersionTells
  <1>3. version' = version \/ \E p \in Procs : Stamp(p)
    BY DEF Next, vars, Open, ScriptStatement, ReadVersion, Add, Suppress, Unavailable, Look, BeginRebuild,
           CommitRebuild, Store, Exit
  <1> QED
    BY <1>1, <1>2, <1>3

LEMMA OneRebuildsStep == Types /\ SchemaInv /\ [Next]_vars => OneRebuilds'
  <1> SUFFICES ASSUME AtType, StoreType, SchemaInv, [Next]_vars PROVE OneRebuilds'
    BY DEF Types
  <1> USE SchemaAssumption DEF file, Free
  <1>0. OneRebuilds
    BY DEF SchemaInv
  <1>a. ASSUME NEW p \in Procs, writer' = writer, at[p].pc # "copy", at'[p].pc # "copy",
               \A q \in Procs \ {p} : at'[q] = at[q],
               rebuilt' = rebuilt \/ writer = Absent
        PROVE  OneRebuilds'
    <2>1. \A q \in Procs : at'[q].pc = "copy" <=> at[q].pc = "copy"
      BY <1>a
    <2>2. \A q \in Procs : at[q].pc = "copy" => rebuilt' = rebuilt
      BY <1>0, <1>a DEF OneRebuilds
    <2> QED
      BY <1>0, <1>a, <2>1, <2>2, FileGrows DEF OneRebuilds
  <1>1. ASSUME NEW p \in Procs, Open(p) \/ Unavailable(p) PROVE OneRebuilds'
    <2>1. at[p].pc # "copy" /\ at'[p].pc # "copy" /\ \A q \in Procs \ {p} : at'[q] = at[q]
      BY <1>1 DEF Open, Unavailable, Goto, AtType
    <2> QED
      BY <1>1, <1>a, <2>1 DEF Open, Unavailable
  <1>2. ASSUME NEW p \in Procs, ScriptStatement(p) PROVE OneRebuilds'
    <2>1. at[p].i \in 1 .. 9 /\ at[p] \in [pc : {"script"}, i : DOMAIN Script]
      BY <1>2, PlaceFacts, ScriptFacts DEF ScriptStatement
    <2>2. at[p].i # Len(Script) =>
            [at[p] EXCEPT !.i = @ + 1] = [pc |-> "script", i |-> at[p].i + 1] /\ at[p].i + 1 \in DOMAIN Script
      BY <2>1, ScriptFacts
    <2>3. at'[p].pc # "copy" /\ \A q \in Procs \ {p} : at'[q] = at[q]
      BY <1>2, <2>2, PlacesAre, GoesTo DEF ScriptStatement
    <2> QED
      BY <1>2, <1>a, <2>3 DEF ScriptStatement
  <1>b. ASSUME NEW p \in Procs, NEW i \in Nat, current'[p] \in Nat, Goto(p, NextStep(p, i))
        PROVE  at'[p].pc \in {"step", "stamp"} /\ \A q \in Procs \ {p} : at'[q] = at[q]
    BY <1>b, NextIsFirstDue, NextIsAPlace, GoesTo
  <1>d. \A v \in 0 .. SchemaVersion : v \in Nat
    BY DEF SchemaVersion
  <1>c. ASSUME NEW p \in Procs, at[p].pc \in {"step", "copy"}, Advance(p)
        PROVE  at'[p].pc \in {"step", "stamp"} /\ \A q \in Procs \ {p} : at'[q] = at[q]
    <2>1. at[p].i \in DOMAIN Steps /\ current' = current /\ Goto(p, NextStep(p, at[p].i))
      BY <1>c, PlaceFacts DEF Advance
    <2>2. at[p].i \in Nat /\ current'[p] \in Nat
      BY <1>d, <2>1, StepFacts DEF StoreType
    <2> QED
      BY <1>b, <2>1, <2>2
  <1>3. ASSUME NEW p \in Procs, ReadVersion(p) PROVE OneRebuilds'
    <2>1. current'[p] \in Nat
      BY <1>3, <1>d DEF ReadVersion, StoreType
    <2>2. at'[p].pc # "copy" /\ \A q \in Procs \ {p} : at'[q] = at[q]
      BY <1>3, <1>b, <2>1, PlacesAre, GoesTo DEF ReadVersion
    <2> QED
      BY <1>3, <1>a, <2>2 DEF ReadVersion
  <1>4. ASSUME NEW p \in Procs, Add(p) \/ Suppress(p) PROVE OneRebuilds'
    <2>1. at[p].pc = "step" /\ Advance(p) /\ UNCHANGED <<writer, rebuilt>>
      BY <1>4 DEF Add, Suppress
    <2> QED
      BY <1>a, <1>c, <2>1
  <1>5. ASSUME NEW p \in Procs, Look(p) PROVE OneRebuilds'
    <2>1. at[p].i \in DOMAIN Steps
      BY <1>5, PlaceFacts DEF Look
    <2>2. at'[p].pc # "copy" /\ \A q \in Procs \ {p} : at'[q] = at[q]
      <3>1. CASE rebuilt
        BY <1>5, <1>c, <3>1 DEF Look
      <3>2. CASE ~rebuilt
        <4>1. at'[p] = [pc |-> "begin", i |-> at[p].i, old |-> TRUE] /\ \A q \in Procs \ {p} : at'[q] = at[q]
          BY <1>5, <2>1, <3>2, PlacesAre, GoesTo DEF Look
        <4> QED
          BY <4>1
      <3> QED
        BY <3>1, <3>2
    <2> QED
      BY <1>5, <1>a, <2>2 DEF Look
  <1>6. ASSUME NEW p \in Procs, BeginRebuild(p) PROVE OneRebuilds'
    <2>1. at[p].i \in DOMAIN Steps /\ at[p].old = TRUE
      BY <1>6, PlaceFacts DEF BeginRebuild
    <2>2. at'[p].pc = "copy" /\ \A q \in Procs \ {p} : at'[q] = at[q] /\ at[q].pc # "copy"
      <3>1. at'[p] = [pc |-> "copy", i |-> at[p].i] /\ \A q \in Procs \ {p} : at'[q] = at[q]
        BY <1>6, <2>1, PlacesAre, GoesTo DEF BeginRebuild
      <3>2. \A q \in Procs : at[q].pc # "copy"
        BY <1>0, <1>6 DEF BeginRebuild, OneRebuilds
      <3> QED
        BY <3>1, <3>2
    <2>3. rebuilt' => outdated'
      BY <1>6, <2>1 DEF BeginRebuild
    <2> QED
      BY <1>6, <2>2, <2>3 DEF BeginRebuild, OneRebuilds
  <1>7. ASSUME NEW p \in Procs, CommitRebuild(p) PROVE OneRebuilds'
    <2>1. at'[p].pc # "copy" /\ \A q \in Procs \ {p} : at'[q] = at[q]
      BY <1>7, <1>c DEF CommitRebuild
    <2>2. \A q \in Procs \ {p} : at[q].pc # "copy"
      BY <1>0, <1>7 DEF CommitRebuild, OneRebuilds
    <2> QED
      BY <1>7, <2>1, <2>2 DEF CommitRebuild, OneRebuilds
  <1>8. ASSUME NEW p \in Procs, Stamp(p) PROVE OneRebuilds'
    <2>1. at'[p].pc # "copy" /\ \A q \in Procs \ {p} : at'[q] = at[q]
      BY <1>8, PlacesAre, GoesTo DEF Stamp
    <2> QED
      BY <1>8, <1>a, <2>1 DEF Stamp
  <1>9. ASSUME NEW p \in Procs, Exit(p) PROVE OneRebuilds'
    <2>1. at'[p].pc # "copy" /\ \A q \in Procs \ {p} : at'[q] = at[q]
      BY <1>9, PlacesAre, GoesTo DEF Exit
    <2> QED
      BY <1>0, <1>9, <2>1, FileGrows DEF Exit, OneRebuilds
  <1>10. ASSUME NEW p \in Procs, NEW c \in Claims, Store(p, c) PROVE OneRebuilds'
    BY <1>0, <1>10 DEF Store, OneRebuilds
  <1>11. CASE UNCHANGED vars
    BY <1>0, <1>11 DEF vars, OneRebuilds
  <1> QED
    BY <1>1, <1>2, <1>3, <1>4, <1>5, <1>6, <1>7, <1>8, <1>9, <1>10, <1>11 DEF Next

\* What is not the rebuild leads nowhere in it, and what is leads on from a
\* table that was the old one when it was looked at.
LEMMA LeadsElsewhere ==
    ASSUME AtType, StoreType, [Next]_vars, NEW p \in Procs,
           ScriptStatement(p) \/ ReadVersion(p) \/ Add(p) \/ Suppress(p) \/ CommitRebuild(p) \/ Stamp(p)
    PROVE  at'[p].pc \notin {"begin", "copy"}
  <1>0. \A v \in 0 .. SchemaVersion : v \in Nat
    BY DEF SchemaVersion
  <1>1. ASSUME NEW i \in Nat, current'[p] \in Nat, Goto(p, NextStep(p, i))
        PROVE  at'[p].pc \notin {"begin", "copy"}
    BY <1>1, NextIsFirstDue, NextIsAPlace, GoesTo
  <1>2. CASE Add(p) \/ Suppress(p) \/ CommitRebuild(p)
    <2>1. at[p].pc \in {"step", "copy"} /\ Advance(p)
      BY <1>2 DEF Add, Suppress, CommitRebuild
    <2>2. at[p].i \in DOMAIN Steps /\ current' = current /\ Goto(p, NextStep(p, at[p].i))
      BY <2>1, PlaceFacts DEF Advance
    <2>3. at[p].i \in Nat /\ current'[p] \in Nat
      BY <1>0, <2>2, StepFacts DEF StoreType
    <2> QED
      BY <1>1, <2>2, <2>3
  <1>3. CASE ReadVersion(p)
    <2>1. current'[p] \in Nat
      BY <1>0, <1>3 DEF ReadVersion, StoreType
    <2> QED
      BY <1>1, <1>3, <2>1, PlacesAre, GoesTo DEF ReadVersion
  <1>4. CASE Stamp(p)
    BY <1>4, PlacesAre, GoesTo DEF Stamp
  <1>5. CASE ScriptStatement(p)
    <2>1. at[p].i \in 1 .. 9 /\ at[p] \in [pc : {"script"}, i : DOMAIN Script]
      BY <1>5, PlaceFacts, ScriptFacts DEF ScriptStatement
    <2>2. at[p].i # Len(Script) =>
            [at[p] EXCEPT !.i = @ + 1] = [pc |-> "script", i |-> at[p].i + 1] /\ at[p].i + 1 \in DOMAIN Script
      BY <2>1, ScriptFacts
    <2> QED
      BY <1>5, <2>2, PlacesAre, GoesTo DEF ScriptStatement
  <1> QED
    BY <1>2, <1>3, <1>4, <1>5

LEMMA LookLeads ==
    ASSUME AtType, StoreType, NEW p \in Procs, Look(p)
    PROVE  /\ at[p].i \in DOMAIN Steps
           /\ rebuilt => at'[p].pc \in {"step", "stamp"}
           /\ ~rebuilt => at'[p] = [pc |-> "begin", i |-> at[p].i, old |-> TRUE]
  <1>1. at[p].i \in DOMAIN Steps
    BY PlaceFacts DEF Look
  <1>2. ASSUME rebuilt PROVE at'[p].pc \in {"step", "stamp"}
    <2>1. current' = current /\ Goto(p, NextStep(p, at[p].i))
      BY <1>2 DEF Look, Advance
    <2>2. at[p].i \in Nat /\ current'[p] \in Nat
      BY <1>1, <2>1, StepFacts DEF StoreType, SchemaVersion
    <2> QED
      BY <2>1, <2>2, NextIsFirstDue, NextIsAPlace, GoesTo
  <1>3. ASSUME ~rebuilt PROVE at'[p] = [pc |-> "begin", i |-> at[p].i, old |-> TRUE]
    BY <1>1, <1>3, PlacesAre, GoesTo DEF Look
  <1> QED
    BY <1>1, <1>2, <1>3

LEMMA BeginLeads ==
    ASSUME AtType, NEW p \in Procs, BeginRebuild(p)
    PROVE  at'[p] = [pc |-> "copy", i |-> at[p].i] /\ enforced' = enforced
  <1>1. at[p].i \in DOMAIN Steps
    BY PlaceFacts DEF BeginRebuild
  <1> QED
    BY <1>1, PlacesAre, GoesTo DEF BeginRebuild

LEMMA AtTheRebuildStep ==
    Types /\ [Next]_vars /\ (\A p \in Procs : AtTheRebuild(p)) => \A p \in Procs : AtTheRebuild(p)'
  <1> SUFFICES ASSUME AtType, StoreType, [Next]_vars, \A p \in Procs : AtTheRebuild(p), NEW q \in Procs
               PROVE  AtTheRebuild(q)'
    BY DEF Types
  <1>1. CASE at'[q] = at[q]
    BY <1>1 DEF AtTheRebuild
  <1>2. CASE at'[q].pc = "out" \/ at'[q] = [pc |-> "script", i |-> 1]
    BY <1>2 DEF AtTheRebuild
  <1>3. CASE ScriptStatement(q) \/ ReadVersion(q) \/ Add(q) \/ Suppress(q) \/ CommitRebuild(q) \/ Stamp(q)
    BY <1>3, LeadsElsewhere DEF AtTheRebuild
  <1>4. CASE Look(q)
    <2>1. PICK i \in DOMAIN Steps : i = at[q].i /\ Steps[i].kind = "rebuild"
      BY <1>4, LookLeads DEF Look
    <2>2. at'[q].pc \in {"step", "stamp"} \/ at'[q] = [pc |-> "begin", i |-> i, old |-> TRUE]
      BY <1>4, <2>1, LookLeads
    <2> QED
      BY <2>1, <2>2 DEF AtTheRebuild
  <1>5. CASE BeginRebuild(q)
    <2>1. PICK i \in DOMAIN Steps : i = at[q].i /\ Steps[i].kind = "rebuild"
      BY <1>5, PlaceFacts DEF BeginRebuild, AtTheRebuild
    <2>2. at'[q] = [pc |-> "copy", i |-> i]
      BY <1>5, <2>1, BeginLeads
    <2> QED
      BY <2>1, <2>2 DEF AtTheRebuild
  <1> QED
    BY <1>1, <1>2, <1>3, <1>4, <1>5, Leads

\* Only who opens the file or has rebuilt the table turns foreign keys on.
LEMMA EnforcedElsewhere ==
    ASSUME AtType, StoreType, [Next]_vars, NEW q \in Procs, q \in enforced'
    PROVE  q \in enforced \/ at'[q].pc \notin {"begin", "copy"}
  <1>1. ASSUME NEW p \in Procs, Open(p) PROVE q \in enforced \/ at'[q].pc \notin {"begin", "copy"}
    BY <1>1, PlacesAre DEF Open, Goto, AtType
  <1>2. ASSUME NEW p \in Procs, CommitRebuild(p) PROVE q \in enforced \/ at'[q].pc \notin {"begin", "copy"}
    <2>1. at'[p].pc \notin {"begin", "copy"}
      BY <1>2, LeadsElsewhere
    <2>2. enforced' = enforced \cup {p}
      BY <1>2 DEF CommitRebuild
    <2> QED
      BY <2>1, <2>2
  <1>3. ASSUME NEW p \in Procs,
               ScriptStatement(p) \/ ReadVersion(p) \/ Add(p) \/ Suppress(p) \/ Unavailable(p) \/ Look(p)
               \/ BeginRebuild(p) \/ Stamp(p) \/ Exit(p) \/ \E c \in Claims : Store(p, c)
        PROVE  q \in enforced
    BY <1>3 DEF ScriptStatement, ReadVersion, Add, Suppress, Unavailable, Look, BeginRebuild, Stamp, Exit, Store
  <1>4. CASE UNCHANGED vars
    BY <1>4 DEF vars
  <1> QED
    BY <1>1, <1>2, <1>3, <1>4 DEF Next

LEMMA RebuildsUnenforcedStep ==
    Types /\ [Next]_vars /\ (\A p \in Procs : RebuildsUnenforced(p)) => \A p \in Procs : RebuildsUnenforced(p)'
  <1> SUFFICES ASSUME AtType, StoreType, [Next]_vars, \A p \in Procs : RebuildsUnenforced(p), NEW q \in Procs
               PROVE  RebuildsUnenforced(q)'
    BY DEF Types
  <1>1. CASE at'[q] = at[q]
    BY <1>1, EnforcedElsewhere DEF RebuildsUnenforced
  <1>2. CASE at'[q].pc = "out" \/ at'[q] = [pc |-> "script", i |-> 1]
    BY <1>2 DEF RebuildsUnenforced
  <1>3. CASE ScriptStatement(q) \/ ReadVersion(q) \/ Add(q) \/ Suppress(q) \/ CommitRebuild(q) \/ Stamp(q)
    BY <1>3, LeadsElsewhere DEF RebuildsUnenforced
  <1>4. CASE Look(q)
    <2>1. ~rebuilt => q \notin enforced'
      BY <1>4 DEF Look
    <2> QED
      BY <1>4, <2>1, LookLeads DEF RebuildsUnenforced
  <1>5. CASE BeginRebuild(q)
    <2>1. q \notin enforced
      BY <1>5 DEF BeginRebuild, RebuildsUnenforced
    <2> QED
      BY <1>5, <2>1, BeginLeads DEF RebuildsUnenforced
  <1> QED
    BY <1>1, <1>2, <1>3, <1>4, <1>5, Leads

\* A process that has the database open has the rebuilt table.
LEMMA OpenIsRebuilt == SchemaInv => \A p \in Procs : at[p].pc = "open" => rebuilt
  <1>1. Steps[6].kind = "rebuild"
    BY TheRebuild
  <1> QED
    BY <1>1, TheRebuild DEF SchemaInv, StepsTakenBy, Done

LEMMA OwnWordsNeedTextStep == Types /\ SchemaInv /\ [Next]_vars => OwnWordsNeedText'
  <1> SUFFICES ASSUME AtType, StoreType, SchemaInv, [Next]_vars PROVE OwnWordsNeedText'
    BY DEF Types
  <1> USE DEF file
  <1>1. rebuilt => rebuilt'
    BY FileGrows
  <1>2. CASE text' = text
    BY <1>1, <1>2 DEF SchemaInv, OwnWordsNeedText
  <1>3. ASSUME NEW p \in Procs, CommitRebuild(p) PROVE OwnWordsNeedText'
    BY <1>3 DEF CommitRebuild, OwnWordsNeedText
  <1>4. ASSUME NEW p \in Procs, NEW c \in Claims, Store(p, c) PROVE OwnWordsNeedText'
    BY <1>1, <1>4, OpenIsRebuilt DEF Store, OwnWordsNeedText
  <1>5. text' = text \/ \E p \in Procs : CommitRebuild(p) \/ \E c \in Claims : Store(p, c)
    BY DEF Next, vars, Open, ScriptStatement, ReadVersion, Add, Suppress, Unavailable, Look, BeginRebuild,
           Stamp, Exit
  <1> QED
    BY <1>2, <1>3, <1>4, <1>5

-----------------------------------------------------------------------------
LEMMA SchemaInvAtFirst == Init => SchemaInv
  <1> SUFFICES ASSUME Init PROVE SchemaInv
    OBVIOUS
  <1> USE SchemaAssumption
  <1>1. RebuiltHasText /\ writer = Absent /\ \A p \in Procs : at[p].pc = "out"
    BY DEF Init, RebuiltHasText
  <1>2. VersionTells
    <2> SUFFICES ASSUME NEW j \in DOMAIN Steps, Steps[j].step <= version PROVE Done(j)
      BY DEF VersionTells
    <2>1. version # 0
      BY StepFacts DEF SchemaVersion
    <2>2. Steps[j] \in {t \in Range(Steps) : t.step <= version}
      BY DEF Range
    <2>3. Steps[j].adds \in LeftBy(version)
      BY <2>2 DEF LeftBy
    <2>4. Steps[j].adds \in tables
      BY <2>1, <2>3 DEF Init
    <2> QED
      BY <1>1, <2>4, StepFacts DEF Done, RebuiltHasText
  <1>3. OwnWordsNeedText
    <2> SUFFICES ASSUME NEW c \in Claims, text[c] = "own" PROVE rebuilt
      BY DEF OwnWordsNeedText
    <2>1. version >= 4
      BY DEF Init
    <2> QED
      BY <1>2, <2>1, TheRebuild DEF VersionTells, Done
  <1>4. OneRebuilds
    BY <1>1 DEF OneRebuilds
  <1>5. \A p \in Procs : ScriptRanBy(p) /\ StepsTakenBy(p) /\ AtTheRebuild(p) /\ RebuildsUnenforced(p)
    BY <1>1 DEF ScriptRanBy, StepsTakenBy, AtTheRebuild, RebuildsUnenforced, Late
  <1> QED
    BY <1>1, <1>2, <1>3, <1>4, <1>5 DEF SchemaInv

\* Whatever version left the file and whoever dies migrating it, the file has
\* what its version calls for, each process has done the steps it is past, and
\* no two rebuild the claims table at a time.
THEOREM SchemaInvHolds == Spec => []SchemaInv
  <1>1. Types /\ SchemaInv /\ [Next]_vars => SchemaInv'
    <2> SUFFICES ASSUME Types, SchemaInv, [Next]_vars PROVE SchemaInv'
      OBVIOUS
    <2>1. RebuiltHasText' /\ VersionTells' /\ OneRebuilds' /\ OwnWordsNeedText'
      BY RebuiltHasTextStep, VersionTellsStep, OneRebuildsStep, OwnWordsNeedTextStep DEF SchemaInv
    <2>2. \A p \in Procs : ScriptRanBy(p)' /\ StepsTakenBy(p)' /\ AtTheRebuild(p)' /\ RebuildsUnenforced(p)'
      BY ScriptRanStep, StepsTakenStep, AtTheRebuildStep, RebuildsUnenforcedStep DEF SchemaInv
    <2> QED
      BY <2>1, <2>2 DEF SchemaInv
  <1> QED
    BY <1>1, SchemaInvAtFirst, SchemaTypesHold, PTL DEF Spec, Types

\* A database that open_database returned has every table and column the code
\* reads, but for columns whose ALTER was given up behind a lock.
THEOREM OpenIsCompleteHolds == Spec => []OpenIsComplete
  <1>1. SchemaInv => OpenIsComplete
    <2> SUFFICES ASSUME SchemaInv, NEW p \in Procs, at[p].pc = "open"
                 PROVE  Needed \ tables \subseteq hidden /\ rebuilt
      BY DEF OpenIsComplete
    <2>1. \A k \in DOMAIN Script : Script[k] \in tables
      BY DEF SchemaInv, ScriptRanBy, Late
    <2>2. \A j \in DOMAIN Steps : Steps[j].adds \in tables \cup hidden
      BY DEF SchemaInv, StepsTakenBy, Done
    <2>3. \A x \in Needed : (\E k \in DOMAIN Script : x = Script[k]) \/ (\E j \in DOMAIN Steps : x = Steps[j].adds)
      BY DEF Needed, Range
    <2> QED
      BY <2>1, <2>2, <2>3, OpenIsRebuilt
  <1> QED
    BY <1>1, SchemaInvHolds, PTL

\* Migrating deletes no claim and no row that refers to one, whoever migrates
\* beside it and whoever dies: a rebuild keeps every row, and drops the table with
\* foreign keys off; a store only adds.
THEOREM MigrationDeletesNothingHolds == Spec => MigrationDeletesNothing
  <1>1. Types /\ SchemaInv /\ [Next]_vars =>
            [meta \subseteq meta' /\ \A c \in Claims : text[c] # Absent => text'[c] # Absent]_vars
    <2> SUFFICES ASSUME Types, SchemaInv, [Next]_vars
                 PROVE  meta \subseteq meta' /\ \A c \in Claims : text[c] # Absent => text'[c] # Absent
      OBVIOUS
    <2> USE SchemaAssumption DEF file
    <2>1. CASE UNCHANGED <<text, meta>>
      BY <2>1
    <2>2. ASSUME NEW p \in Procs, CommitRebuild(p)
          PROVE  meta' = meta /\ \A c \in Claims : text[c] # Absent => text'[c] # Absent
      <3>1. meta' = meta
        BY <2>2 DEF CommitRebuild, SchemaInv, RebuildsUnenforced
      <3>2. \A c \in Claims : text[c] # Absent => text'[c] \in {"triple", "none"}
        BY <2>2 DEF CommitRebuild
      <3> QED
        BY <3>1, <3>2
    <2>3. ASSUME NEW p \in Procs, NEW d \in Claims, Store(p, d)
          PROVE  meta \subseteq meta' /\ \A c \in Claims : text[c] # Absent => text'[c] # Absent
      BY <2>3 DEF Store, Types, StoreType
    <2>4. \/ UNCHANGED <<text, meta>>
          \/ \E p \in Procs : CommitRebuild(p) \/ \E d \in Claims : Store(p, d)
      BY DEF Next, vars, Open, ScriptStatement, ReadVersion, Add, Suppress, Unavailable, Look, BeginRebuild,
             Stamp, Exit
    <2> QED
      BY <2>1, <2>2, <2>3, <2>4
  <1> QED
    BY <1>1, SchemaInvHolds, SchemaTypesHold, PTL DEF Spec, Types, MigrationDeletesNothing

\* Once stored, a fact keeps its words: only a rebuild that began on the new
\* table by mistake rewrites them, and that one is on record.
THEOREM WordsSurviveHolds == Spec => WordsSurvive
  <1>1. Types /\ SchemaInv /\ [Next]_vars => [\A c \in Claims : text[c] = "own" => text'[c] = "own" \/ outdated]_vars
    <2> SUFFICES ASSUME Types, SchemaInv, [Next]_vars, NEW c \in Claims, text[c] = "own"
                 PROVE  text'[c] = "own" \/ outdated
      OBVIOUS
    <2> USE SchemaAssumption DEF file
    <2>1. rebuilt
      BY DEF SchemaInv, OwnWordsNeedText
    <2>2. ASSUME NEW p \in Procs, CommitRebuild(p) PROVE outdated
      BY <2>1, <2>2 DEF CommitRebuild, SchemaInv, OneRebuilds
    <2>3. ASSUME NEW p \in Procs, NEW d \in Claims, Store(p, d) PROVE text'[c] = "own"
      BY <2>3 DEF Store, Types, StoreType
    <2>4. text' = text \/ \E p \in Procs : CommitRebuild(p) \/ \E d \in Claims : Store(p, d)
      BY DEF Next, vars, Open, ScriptStatement, ReadVersion, Add, Suppress, Unavailable, Look, BeginRebuild,
             Stamp, Exit
    <2> QED
      BY <2>2, <2>3, <2>4
  <1> QED
    BY <1>1, SchemaInvHolds, SchemaTypesHold, PTL DEF Spec, Types, WordsSurvive
=============================================================================
