----------------------------- MODULE IngestProofs -----------------------------
(***************************************************************************)
(* The write path, for every number of writers, tenants and turns, however *)
(* they interleave and wherever one of them dies.  Of the claim store that *)
(* processes work on one statement at a time: detection looks back only,   *)
(* nothing is retired without its lineage, and status and validity window  *)
(* agree.  Of the queue that extracts claims in the background: a close    *)
(* leaves no job behind, and a turn's claims come from its own             *)
(* conversation.                                                           *)
(***************************************************************************)
EXTENDS Ingest, Extraction, SequenceTheorems, TLAPS

-----------------------------------------------------------------------------
(* The types, in three groups. *)

ClockType ==
    /\ wall \in Nat /\ stalls \in Nat /\ last \in [Procs -> Nat]
    /\ jobs \in [{"claims", "userActions", "crashes"} -> Nat]

LocalType ==
    /\ pc \in [Procs -> Steps]
    /\ new \in [Procs -> SUBSET Claim]
    /\ old \in [Procs -> SUBSET Claim] /\ rows \in [Procs -> SUBSET Claim]
    /\ how \in [Procs -> EdgeTypes \cup {"none"}]

TableType ==
    /\ claims \subseteq Claim /\ meta \subseteq claims
    /\ live \subseteq claims /\ dismissed \subseteq claims /\ closed \subseteq claims
    /\ edges \subseteq Edge /\ drift \subseteq Claim \X Claim
    /\ byUser \subseteq Claim

\* Once a claim is inserted it is in the table, as are those it is weighed against.
RowsStored(p) ==
    /\ old[p] \cup rows[p] \subseteq claims
    /\ pc[p] \notin {"idle", "insert"} => new[p] \subseteq claims

\* A process has one claim in hand, or none and nothing left over from the last.
OneJob(p) ==
    /\ pc[p] = "idle" => old[p] = {} /\ rows[p] = {}
    /\ pc[p] # "idle" => \E n \in Claim : new[p] = {n}

\* The type of an edge is known before the edge is written; a correction brings it.
HowKnown(p) ==
    /\ pc[p] \in {"audit", "link", "retire", "close", "copies"} => how[p] \in EdgeTypes
    /\ pc[p] \in {"insert", "meta"} /\ old[p] # {} => how[p] \in EdgeTypes

LocalFacts(p) == RowsStored(p) /\ OneJob(p) /\ HowKnown(p)

Types == ClockType /\ LocalType /\ TableType /\ \A p \in Procs : LocalFacts(p)

-----------------------------------------------------------------------------
(* What the operators that the actions are built from return. *)

\* Pass 1 only ever matches one of the rows its query returned.
LEMMA MatchIsARow ==
    ASSUME NEW n, NEW S
    PROVE  Pass1Match(n, S) \subseteq S
  BY DEF Pass1Match, Newest

\* Pass 1 never gives its edges the type of Pass 2.
LEMMA ClassifyType ==
    ASSUME NEW n \in Claim, NEW o
    PROVE  Classify(n, o) \in EdgeTypes \ {"semantic_replace"}
  <1>1. n.turn.src.speaker \in Speakers
    BY RulesAssumption DEF Claim, Turn, UserSays, Speakers
  <1> QED
    BY <1>1 DEF Classify, EdgeTypes, Speakers

LEMMA StampType ==
    ASSUME ClockType, NEW p \in Procs, NEW tick \in Ticks
    PROVE  tick \in Nat /\ Stamp(p, tick) \in Nat
  BY DEF ClockType, Ticks, Stamp

LEMMA StampedIs ==
    ASSUME ClockType, NEW p \in Procs, NEW tick \in Ticks, Stamped(p, tick)
    PROVE  /\ wall' \in Nat /\ stalls' \in Nat /\ last' \in [Procs -> Nat]
           /\ last'[p] = Stamp(p, tick) /\ \A other \in Procs \ {p} : last'[other] = last[other]
  BY StampType DEF ClockType, Stamped

\* A drafted claim bears the number of its turn.
LEMMA DraftType ==
    ASSUME ClockType, NEW p \in Procs, NEW tick \in Ticks, NEW ns \in Namespaces, NEW sess \in Sessions,
           NEW src \in Sources \cup {UserSays}, NEW subj \in Subjects \cup {NoSubject},
           NEW pred \in Preds \cup {NL}, NEW val \in Vals
    PROVE  LET n == Draft(p, tick, TurnFrom(ns, sess, src), subj, pred, val)
           IN n \in Claim /\ n.turn.no = jobs.claims + 1
  <1>1. jobs.claims + 1 \in Nat
    BY DEF ClockType
  <1>2. TurnFrom(ns, sess, src) \in Turn /\ TurnFrom(ns, sess, src).no = jobs.claims + 1
    BY <1>1 DEF TurnFrom, Turn
  <1>3. Stamp(p, tick) \in Nat
    BY StampType
  <1> QED
    BY <1>2, <1>3 DEF Draft, Claim

Stays(other) ==
    /\ pc'[other] = pc[other] /\ new'[other] = new[other] /\ old'[other] = old[other]
    /\ how'[other] = how[other] /\ rows'[other] = rows[other]

LEMMA GoesTo ==
    ASSUME LocalType, NEW p \in Procs, NEW step \in Steps, Goto(p, step)
    PROVE  /\ pc' \in [Procs -> Steps] /\ pc'[p] = step
           /\ \A other \in Procs \ {p} : pc'[other] = pc[other]
  BY DEF LocalType, Goto

LEMMA Resumes ==
    ASSUME LocalType, NEW p \in Procs, NEW step \in Steps, NEW target \in SUBSET Claim,
           NEW type \in EdgeTypes \cup {"none"}, NEW rest \in SUBSET Claim,
           Resume(p, step, target, type, rest)
    PROVE  /\ LocalType' /\ \A other \in Procs \ {p} : Stays(other)
           /\ pc'[p] = step
           /\ step = "idle" => new'[p] = {} /\ old'[p] = {} /\ rows'[p] = {} /\ how'[p] = "none"
           /\ step # "idle" => new'[p] = new[p] /\ old'[p] = target /\ rows'[p] = rest /\ how'[p] = type
  <1>1. /\ pc' \in [Procs -> Steps] /\ pc'[p] = step
        /\ \A other \in Procs \ {p} : pc'[other] = pc[other]
    BY GoesTo DEF Resume
  <1>2. {n \in new[p] : step # "idle"} \in SUBSET Claim
    BY DEF LocalType
  <1>3. new' \in [Procs -> SUBSET Claim] /\ \A other \in Procs \ {p} : new'[other] = new[other]
    BY <1>2 DEF Resume, LocalType
  <1>4. /\ old' \in [Procs -> SUBSET Claim] /\ rows' \in [Procs -> SUBSET Claim]
        /\ \A other \in Procs \ {p} : old'[other] = old[other] /\ rows'[other] = rows[other]
    BY DEF Resume, LocalType
  <1>5. how' \in [Procs -> EdgeTypes \cup {"none"}] /\ \A other \in Procs \ {p} : how'[other] = how[other]
    BY DEF Resume, LocalType
  <1>6. /\ new'[p] = {n \in new[p] : step # "idle"} /\ old'[p] = {o \in target : step # "idle"}
        /\ rows'[p] = {c \in rest : step # "idle"} /\ how'[p] = IF step = "idle" THEN "none" ELSE type
    BY DEF Resume, LocalType
  <1> QED
    BY <1>1, <1>3, <1>4, <1>5, <1>6 DEF LocalType, Stays

\* A job begins with a claim of a turn that nobody has numbered yet: extracted, or
\* a correction of a claim that was current.
Begins(p, n) ==
    /\ pc[p] = "idle" /\ n \in Claim /\ n.turn.no = jobs.claims + 1
    /\ \E tick \in Ticks : Stamped(p, tick)
    /\ pc'[p] = "insert" /\ new'[p] = {n} /\ rows'[p] = rows[p]
    /\ jobs' \in [{"claims", "userActions", "crashes"} -> Nat]
    /\ jobs'.claims = jobs.claims + 1 /\ jobs'.crashes = jobs.crashes
    /\ \/ old'[p] = old[p] /\ how'[p] = how[p] /\ byUser' = byUser
       \/ (\E target \in live : old'[p] = {target}) /\ how'[p] = "user_correction" /\ byUser' = byUser \cup {n}
    /\ UNCHANGED tables

LEMMA BeginIs ==
    ASSUME Types, NEW p \in Procs, Begin(p)
    PROVE  LocalType' /\ (\A other \in Procs \ {p} : Stays(other)) /\ \E n \in Claim : Begins(p, n)
  <1> USE DEF Types
  <1>0. "insert" \in Steps /\ "user_correction" \in EdgeTypes
    BY DEF Steps, EdgeTypes
  <1>1. ASSUME NEW ns \in Namespaces, NEW sess \in Sessions, NEW src \in Sources,
               NEW subj \in Subjects, NEW pred \in Preds, NEW val \in Vals,
               BeginExtract(p, TurnFrom(ns, sess, src), subj, pred, val)
        PROVE  LocalType' /\ (\A other \in Procs \ {p} : Stays(other)) /\ \E n \in Claim : Begins(p, n)
    <2>1. PICK tick \in Ticks :
             /\ Stamped(p, tick)
             /\ new' = [new EXCEPT ![p] = {Draft(p, tick, TurnFrom(ns, sess, src), subj, pred, val)}]
      BY <1>1 DEF BeginExtract
    <2> DEFINE n == Draft(p, tick, TurnFrom(ns, sess, src), subj, pred, val)
    <2>2. n \in Claim /\ n.turn.no = jobs.claims + 1
      BY DraftType
    <2> HIDE DEF n
    <2>3. /\ pc' \in [Procs -> Steps] /\ pc'[p] = "insert"
          /\ \A other \in Procs \ {p} : pc'[other] = pc[other]
      BY <1>0, <1>1, GoesTo DEF BeginExtract
    <2>4. new' = [new EXCEPT ![p] = {n}]
      BY <2>1 DEF n
    <2>5. /\ jobs' \in [{"claims", "userActions", "crashes"} -> Nat]
          /\ jobs'.claims = jobs.claims + 1 /\ jobs'.crashes = jobs.crashes
      BY <1>1 DEF BeginExtract, Spend, ClockType
    <2>6. pc[p] = "idle" /\ UNCHANGED <<old, how, rows, tables, byUser>>
      BY <1>1 DEF BeginExtract, At
    <2>7. LocalType' /\ \A other \in Procs \ {p} : Stays(other)
      BY <2>2, <2>3, <2>4, <2>6 DEF LocalType, Stays
    <2>8. Begins(p, n)
      BY <2>1, <2>2, <2>3, <2>4, <2>5, <2>6 DEF Begins, LocalType
    <2> QED
      BY <2>2, <2>7, <2>8
  <1>2. ASSUME NEW target \in claims, NEW val \in Vals, BeginCorrect(p, target, val)
        PROVE  LocalType' /\ (\A other \in Procs \ {p} : Stays(other)) /\ \E n \in Claim : Begins(p, n)
    <2> DEFINE turn == TurnFrom(target.turn.ns, target.turn.sess, UserSays)
    <2>1. PICK tick \in Ticks :
             /\ Stamped(p, tick)
             /\ new' = [new EXCEPT ![p] = {Draft(p, tick, turn, target.subj, target.pred, val)}]
             /\ byUser' = byUser \cup {Draft(p, tick, turn, target.subj, target.pred, val)}
      BY <1>2 DEF BeginCorrect
    <2> DEFINE n == Draft(p, tick, turn, target.subj, target.pred, val)
    <2>a. target \in Claim
      BY DEF TableType
    <2>2. n \in Claim /\ n.turn.no = jobs.claims + 1
      <3>1. /\ target.turn.ns \in Namespaces /\ target.turn.sess \in Sessions
            /\ target.subj \in Subjects \cup {NoSubject} /\ target.pred \in Preds \cup {NL}
        BY <2>a DEF Claim, Turn
      <3> QED
        BY <3>1, DraftType
    <2> HIDE DEF n, turn
    <2>3. /\ pc' \in [Procs -> Steps] /\ pc'[p] = "insert"
          /\ \A other \in Procs \ {p} : pc'[other] = pc[other]
      BY <1>0, <1>2, GoesTo DEF BeginCorrect
    <2>4. new' = [new EXCEPT ![p] = {n}] /\ byUser' = byUser \cup {n}
      BY <2>1 DEF n
    <2>5. /\ jobs' \in [{"claims", "userActions", "crashes"} -> Nat]
          /\ jobs'.claims = jobs.claims + 1 /\ jobs'.crashes = jobs.crashes
      <3>1. jobs' = [jobs EXCEPT !.claims = @ + 1, !.userActions = @ + 1]
        BY <1>2 DEF BeginCorrect
      <3>2. jobs \in [{"claims", "userActions", "crashes"} -> Nat]
        BY DEF ClockType
      <3> DEFINE counted == [jobs EXCEPT !.claims = @ + 1]
      <3>3. /\ counted \in [{"claims", "userActions", "crashes"} -> Nat]
            /\ counted["claims"] = jobs.claims + 1 /\ counted["crashes"] = jobs.crashes
        BY <3>2
      <3>4. jobs' = [counted EXCEPT !["userActions"] = @ + 1]
        BY <3>1, <3>2
      <3> HIDE DEF counted
      <3>5. jobs' \in [{"claims", "userActions", "crashes"} -> Nat]
        BY <3>3, <3>4
      <3>6. jobs'["claims"] = jobs.claims + 1 /\ jobs'["crashes"] = jobs.crashes
        BY <3>3, <3>4
      <3> QED
        BY <3>5, <3>6
    <2>6. /\ pc[p] = "idle" /\ target \in live /\ UNCHANGED <<rows, tables>>
          /\ old' = [old EXCEPT ![p] = {target}] /\ how' = [how EXCEPT ![p] = "user_correction"]
      BY <1>2 DEF BeginCorrect, At
    <2>7. LocalType' /\ \A other \in Procs \ {p} : Stays(other)
      BY <1>0, <2>a, <2>2, <2>3, <2>4, <2>6 DEF LocalType, Stays
    <2>8. old'[p] = {target} /\ how'[p] = "user_correction" /\ rows'[p] = rows[p] /\ new'[p] = {n}
      BY <2>4, <2>6 DEF LocalType
    <2>9. Begins(p, n)
      BY <2>1, <2>2, <2>3, <2>4, <2>5, <2>6, <2>8 DEF Begins
    <2> QED
      BY <2>2, <2>7, <2>9
  <1> QED
    BY <1>1, <1>2 DEF Begin

\* Where a step leads: the job is at an end, or goes on with the same claim.
Ends(p) == pc'[p] = "idle" /\ new'[p] = {} /\ old'[p] = {} /\ rows'[p] = {}

Goes(p, step, target, type, rest) ==
    /\ pc'[p] = step /\ new'[p] = new[p] /\ old'[p] = target /\ how'[p] = type /\ rows'[p] = rest

Alone(p) == LocalType' /\ \A other \in Procs \ {p} : Stays(other)

LEMMA WalkIs ==
    ASSUME LocalType, NEW p \in Procs, NEW step \in Steps, Goto(p, step), UNCHANGED locals
    PROVE  Alone(p) /\ Goes(p, step, old[p], how[p], rows[p])
  BY GoesTo DEF LocalType, Stays, Alone, Goes, locals

LEMMA ResumeIs ==
    ASSUME LocalType, NEW p \in Procs, NEW step \in Steps, NEW target \in SUBSET Claim,
           NEW type \in EdgeTypes \cup {"none"}, NEW rest \in SUBSET Claim,
           Resume(p, step, target, type, rest)
    PROVE  /\ Alone(p)
           /\ step = "idle" => Ends(p)
           /\ step # "idle" => Goes(p, step, target, type, rest)
  <1>1. /\ LocalType' /\ \A other \in Procs \ {p} : Stays(other)
        /\ pc'[p] = step
        /\ step = "idle" => new'[p] = {} /\ old'[p] = {} /\ rows'[p] = {}
        /\ step # "idle" => new'[p] = new[p] /\ old'[p] = target /\ rows'[p] = rest /\ how'[p] = type
    BY Resumes
  <1> QED
    BY <1>1 DEF Alone, Ends, Goes

LEMMA MatchIs ==
    ASSUME LocalType, TableType, NEW p \in Procs, Match(p)
    PROVE  /\ Alone(p) /\ pc[p] = "match"
           /\ \/ Ends(p)
              \/ Goes(p, "look", {}, "none", {})
              \/ \E n \in new[p] : \E o \in live : \E S \in SUBSET live :
                    /\ \A c \in {o} \cup S : InPass1Scope(n, c)
                    /\ Goes(p, "guard", {o}, "none", S)
  <1>0. {"idle", "look", "guard"} \subseteq Steps /\ live \subseteq Claim
    BY DEF Steps, TableType
  <1>2. PICK m \in new[p] :
          LET found == {c \in live : InPass1Scope(m, c)}
              matches == Pass1Match(m, found)
          IN  /\ At(p, "match")
              /\ \/ \E o \in matches : Resume(p, "guard", {o}, "none", found \ {o})
                 \/ matches = {} /\ Resume(p, IF Semantic THEN "look" ELSE "idle", {}, "none", {})
    BY DEF Match
  <1> DEFINE found == {c \in live : InPass1Scope(m, c)}
             matches == Pass1Match(m, found)
  <1>3. matches \subseteq found
    BY MatchIsARow
  <1>4. ASSUME NEW o \in matches, Resume(p, "guard", {o}, "none", found \ {o})
        PROVE  Alone(p) /\ Goes(p, "guard", {o}, "none", found \ {o})
    <2>1. {o} \in SUBSET Claim /\ found \ {o} \in SUBSET Claim
      BY <1>0, <1>3
    <2> HIDE DEF found, matches
    <2> QED
      BY <1>0, <1>4, <2>1, ResumeIs
  <1>5. ASSUME Resume(p, IF Semantic THEN "look" ELSE "idle", {}, "none", {})
        PROVE  Alone(p) /\ (Ends(p) \/ Goes(p, "look", {}, "none", {}))
    <2>1. CASE Semantic
      BY <1>0, <1>5, <2>1, ResumeIs
    <2>2. CASE ~Semantic
      BY <1>0, <1>5, <2>2, ResumeIs
    <2> QED
      BY <2>1, <2>2
  <1>6. pc[p] = "match"
    BY <1>2 DEF At
  <1>7. CASE \E o \in matches : Resume(p, "guard", {o}, "none", found \ {o})
    <2>1. PICK o \in matches : Resume(p, "guard", {o}, "none", found \ {o})
      BY <1>7
    <2>2. o \in live /\ found \ {o} \in SUBSET live /\ \A c \in {o} \cup (found \ {o}) : InPass1Scope(m, c)
      BY <1>3
    <2>3. Alone(p) /\ Goes(p, "guard", {o}, "none", found \ {o})
      BY <1>4, <2>1
    <2> HIDE DEF found, matches
    <2> QED
      BY <1>6, <2>2, <2>3
  <1> QED
    BY <1>2, <1>5, <1>6, <1>7

LEMMA GuardIs ==
    ASSUME LocalType, NEW p \in Procs, Guard(p)
    PROVE  /\ Alone(p) /\ pc[p] = "guard"
           /\ \E step \in {"audit", "link"}, S \in SUBSET rows[p] :
                 \E type \in EdgeTypes \ {"semantic_replace"} : Goes(p, step, old[p], type, S)
  <1>0. {"audit", "link"} \subseteq Steps /\ "contradicts" \in EdgeTypes \ {"semantic_replace"}
    BY DEF Steps, EdgeTypes
  <1>1. PICK n \in new[p], o \in old[p] :
          /\ how' = [how EXCEPT ![p] = IF ReadBlocked(n, o) THEN "contradicts" ELSE Classify(n, o)]
          /\ Goto(p, IF ReadBlocked(n, o) THEN "audit" ELSE "link")
          /\ rows' = [rows EXCEPT ![p] = {c \in @ : SameValue(c, o)}]
    BY DEF Guard
  <1>2. pc[p] = "guard" /\ UNCHANGED <<new, old>>
    BY DEF Guard, At
  <1> DEFINE type == IF ReadBlocked(n, o) THEN "contradicts" ELSE Classify(n, o)
             step == IF ReadBlocked(n, o) THEN "audit" ELSE "link"
             S == {c \in rows[p] : SameValue(c, o)}
  <1>3. type \in EdgeTypes \ {"semantic_replace"} /\ step \in {"audit", "link"} /\ S \in SUBSET rows[p]
    BY <1>0, ClassifyType DEF LocalType
  <1>4. how' = [how EXCEPT ![p] = type] /\ Goto(p, step) /\ rows' = [rows EXCEPT ![p] = S]
    BY <1>1
  <1> HIDE DEF type, step, S
  <1>5. pc' \in [Procs -> Steps] /\ pc'[p] = step /\ \A other \in Procs \ {p} : pc'[other] = pc[other]
    BY <1>0, <1>3, <1>4, GoesTo
  <1>6. Alone(p) /\ Goes(p, step, old[p], type, S)
    BY <1>2, <1>3, <1>4, <1>5 DEF Alone, Goes, LocalType, Stays
  <1> QED
    BY <1>2, <1>3, <1>6

LEMMA LinkIs ==
    ASSUME LocalType, NEW p \in Procs, Link(p)
    PROVE  /\ Alone(p) /\ pc[p] = "link"
           /\ IF how[p] = "contradicts" THEN Ends(p) ELSE Goes(p, "retire", old[p], how[p], rows[p])
  <1>0. {"idle", "retire"} \subseteq Steps
    BY DEF Steps
  <1>1. CASE how[p] = "contradicts"
    BY <1>0, <1>1, ResumeIs DEF Link, At
  <1>2. CASE how[p] # "contradicts"
    BY <1>0, <1>2, WalkIs DEF Link, At
  <1> QED
    BY <1>1, <1>2

LEMMA CloseIs ==
    ASSUME LocalType, NEW p \in Procs, Close(p)
    PROVE  /\ Alone(p) /\ pc[p] = "close"
           /\ Ends(p) \/ Goes(p, "copies", {}, how[p], rows[p])
  <1>0. {"idle", "copies"} \subseteq Steps
    BY DEF Steps
  <1>1. rows[p] \in SUBSET Claim /\ how[p] \in EdgeTypes \cup {"none"}
    BY DEF LocalType
  <1>2. CASE rows[p] = {}
    BY <1>0, <1>1, <1>2, ResumeIs DEF Close, At
  <1>3. CASE rows[p] # {}
    BY <1>0, <1>1, <1>3, ResumeIs DEF Close, At
  <1> QED
    BY <1>2, <1>3

LEMMA NextCopyIs ==
    ASSUME LocalType, NEW p \in Procs, NextCopy(p)
    PROVE  /\ Alone(p) /\ pc[p] = "copies"
           /\ \/ Ends(p)
              \/ \E S \in SUBSET rows[p] : Goes(p, "copies", {}, how[p], S)
              \/ \E c \in rows[p], S \in SUBSET rows[p] : Goes(p, "link", {c}, how[p], S)
  <1>0. {"idle", "copies", "link"} \subseteq Steps
    BY DEF Steps
  <1>1. PICK n \in new[p], c \in Newest(rows[p]) :
          IF ReadBlocked(n, c)
          THEN Resume(p, IF rows[p] = {c} THEN "idle" ELSE "copies", {}, how[p], rows[p] \ {c})
          ELSE Resume(p, "link", {c}, how[p], rows[p] \ {c})
    BY DEF NextCopy
  <1>2. pc[p] = "copies" /\ c \in rows[p]
    BY DEF NextCopy, At, Newest
  <1>3. {c} \in SUBSET Claim /\ rows[p] \ {c} \in SUBSET Claim /\ how[p] \in EdgeTypes \cup {"none"}
    BY <1>2 DEF LocalType
  <1>4. CASE ~ReadBlocked(n, c)
    <2>1. Alone(p) /\ Goes(p, "link", {c}, how[p], rows[p] \ {c})
      BY <1>0, <1>1, <1>3, <1>4, ResumeIs
    <2> QED
      BY <1>2, <2>1
  <1>5. CASE ReadBlocked(n, c) /\ rows[p] = {c}
    BY <1>0, <1>1, <1>2, <1>3, <1>5, ResumeIs
  <1>6. CASE ReadBlocked(n, c) /\ rows[p] # {c}
    <2>1. Alone(p) /\ Goes(p, "copies", {}, how[p], rows[p] \ {c})
      BY <1>0, <1>1, <1>3, <1>6, ResumeIs
    <2> QED
      BY <1>2, <2>1
  <1> QED
    BY <1>4, <1>5, <1>6

LEMMA LookIs ==
    ASSUME LocalType, TableType, NEW p \in Procs, Look(p)
    PROVE  /\ Alone(p) /\ pc[p] = "look"
           /\ \/ Ends(p)
              \/ \E n \in new[p] : \E S \in SUBSET live :
                    (\A c \in S : InPass2Scope(n, c)) /\ Goes(p, "embed", {}, "none", S)
  <1>0. {"idle", "embed"} \subseteq Steps
    BY DEF Steps
  <1>1. PICK n \in new[p] :
          LET found == {c \in live : InPass2Scope(n, c)}
          IN  Resume(p, IF found = {} \/ Restates(n, found) THEN "idle" ELSE "embed", {}, "none", found)
    BY DEF Look
  <1> DEFINE found == {c \in live : InPass2Scope(n, c)}
  <1>2. pc[p] = "look" /\ found \in SUBSET Claim
    BY DEF Look, At, TableType
  <1>3. found \in SUBSET live /\ \A c \in found : InPass2Scope(n, c)
    OBVIOUS
  <1>4. Resume(p, IF found = {} \/ Restates(n, found) THEN "idle" ELSE "embed", {}, "none", found)
    BY <1>1
  <1> HIDE DEF found
  <1>5. CASE found = {} \/ Restates(n, found)
    BY <1>0, <1>2, <1>4, <1>5, ResumeIs
  <1>6. CASE ~(found = {} \/ Restates(n, found))
    BY <1>0, <1>2, <1>3, <1>4, <1>6, ResumeIs
  <1> QED
    BY <1>5, <1>6

LEMMA EmbedIs ==
    ASSUME LocalType, NEW p \in Procs, Embed(p)
    PROVE  /\ Alone(p) /\ pc[p] = "embed"
           /\ Ends(p) \/ \E c \in rows[p] : Goes(p, "link", {c}, "semantic_replace", {})
  <1>0. {"idle", "link"} \subseteq Steps /\ "semantic_replace" \in EdgeTypes
    BY DEF Steps, EdgeTypes
  <1>1. CASE Resume(p, "idle", {}, "none", {})
    BY <1>0, <1>1, ResumeIs DEF Embed, At
  <1>2. ASSUME NEW c \in rows[p], Resume(p, "link", {c}, "semantic_replace", {})
        PROVE  Alone(p) /\ Goes(p, "link", {c}, "semantic_replace", {})
    <2>1. {c} \in SUBSET Claim
      BY DEF LocalType
    <2> QED
      BY <1>0, <1>2, <2>1, ResumeIs
  <1> QED
    BY <1>1, <1>2 DEF Embed, At

LEMMA WalksAre ==
    ASSUME LocalType, NEW p \in Procs
    PROVE  /\ InsertRow(p) => Alone(p) /\ pc[p] = "insert" /\ Goes(p, "meta", old[p], how[p], rows[p])
           /\ InsertMeta(p) => /\ Alone(p) /\ pc[p] = "meta"
                               /\ IF old[p] = {} THEN Goes(p, "match", old[p], how[p], rows[p])
                                  ELSE Goes(p, "link", old[p], how[p], rows[p])
           /\ Audit(p) => Alone(p) /\ pc[p] = "audit" /\ Goes(p, "link", old[p], how[p], rows[p])
           /\ Retire(p) => Alone(p) /\ pc[p] = "retire" /\ Goes(p, "close", old[p], how[p], rows[p])
           /\ Crash(p) => Alone(p) /\ pc[p] # "idle" /\ Ends(p)
  <1>0. {"idle", "meta", "match", "link", "close"} \subseteq Steps
    BY DEF Steps
  <1>1. ASSUME InsertMeta(p)
        PROVE  /\ Alone(p) /\ pc[p] = "meta"
               /\ IF old[p] = {} THEN Goes(p, "match", old[p], how[p], rows[p])
                  ELSE Goes(p, "link", old[p], how[p], rows[p])
    <2>1. CASE old[p] = {}
      BY <1>0, <1>1, <2>1, WalkIs DEF InsertMeta, At
    <2>2. CASE old[p] # {}
      BY <1>0, <1>1, <2>2, WalkIs DEF InsertMeta, At
    <2> QED
      BY <2>1, <2>2
  <1>2. InsertRow(p) => Alone(p) /\ pc[p] = "insert" /\ Goes(p, "meta", old[p], how[p], rows[p])
    BY <1>0, WalkIs DEF InsertRow, At
  <1>3. Audit(p) => Alone(p) /\ pc[p] = "audit" /\ Goes(p, "link", old[p], how[p], rows[p])
    BY <1>0, WalkIs DEF Audit, At
  <1>4. Retire(p) => Alone(p) /\ pc[p] = "retire" /\ Goes(p, "close", old[p], how[p], rows[p])
    BY <1>0, WalkIs DEF Retire, At
  <1>5. Crash(p) => Alone(p) /\ pc[p] # "idle" /\ Ends(p)
    BY <1>0, ResumeIs DEF Crash, At
  <1> QED
    BY <1>1, <1>2, <1>3, <1>4, <1>5

-----------------------------------------------------------------------------
(* Type correctness. *)

\* The tables each step writes.
LEMMA ClockStep == Types /\ [Next]_vars => ClockType'
  <1> SUFFICES ASSUME Types, [Next]_vars PROVE ClockType'
    OBVIOUS
  <1> USE DEF Types
  <1>1. ASSUME NEW p \in Procs, Begin(p) PROVE ClockType'
    <2>1. PICK n \in Claim : Begins(p, n)
      BY <1>1, BeginIs
    <2> QED
      BY <2>1, StampedIs DEF Begins, ClockType
  <1>2. ASSUME NEW p \in Procs, Link(p) PROVE ClockType'
    <2>1. PICK tick \in Ticks : Stamped(p, tick)
      BY <1>2 DEF Link, AddEdge
    <2>2. UNCHANGED jobs
      BY <1>2 DEF Link
    <2> QED
      BY <2>1, <2>2, StampedIs DEF ClockType
  <1>3. ASSUME NEW p \in Procs, Crash(p) PROVE ClockType'
    BY <1>3 DEF Crash, Spend, ClockType
  <1>4. ASSUME NEW c \in claims, Dismiss(c) PROVE ClockType'
    BY <1>4 DEF Dismiss, Spend, ClockType, clock
  <1>5. ASSUME NEW p \in Procs, Step(p), ~Link(p) PROVE UNCHANGED <<clock, jobs>>
    BY <1>5 DEF Step, InsertRow, InsertMeta, Match, Guard, Audit, Retire, Close, NextCopy, Look, Embed
  <1>6. CASE UNCHANGED <<clock, jobs>>
    BY <1>6 DEF ClockType, clock
  <1> QED
    BY <1>1, <1>2, <1>3, <1>4, <1>5, <1>6 DEF Next, vars

LEMMA AddEdgeType ==
    ASSUME Types, NEW p \in Procs, NEW tick \in Ticks, AddEdge(p, tick), how[p] \in EdgeTypes
    PROVE  edges' \subseteq Edge
  <1>1. Stamp(p, tick) \in Nat /\ new[p] \subseteq Claim /\ old[p] \subseteq Claim
    BY StampType DEF Types, LocalType
  <1>2. \A o \in old[p], n \in new[p] : [old |-> o, new |-> n, type |-> how[p], ts |-> Stamp(p, tick)] \in Edge
    BY <1>1 DEF Edge
  <1> QED
    BY <1>2 DEF AddEdge, Types, TableType

LEMMA TableStep == Types /\ [Next]_vars => TableType' /\ claims \subseteq claims'
  <1> SUFFICES ASSUME Types, [Next]_vars PROVE TableType' /\ claims \subseteq claims'
    OBVIOUS
  <1> USE DEF Types
  <1>1. ASSUME NEW p \in Procs, Begin(p) PROVE TableType' /\ claims' = claims
    <2>1. PICK n \in Claim : Begins(p, n)
      BY <1>1, BeginIs
    <2> QED
      BY <2>1 DEF Begins, TableType, tables
  <1>2. ASSUME NEW p \in Procs, InsertRow(p) PROVE TableType' /\ claims \subseteq claims'
    BY <1>2 DEF InsertRow, TableType, LocalType
  <1>3. ASSUME NEW p \in Procs, InsertMeta(p) PROVE TableType' /\ claims' = claims
    <2>1. new[p] \subseteq claims
      BY <1>3 DEF InsertMeta, At, LocalFacts, RowsStored
    <2> QED
      BY <1>3, <2>1 DEF InsertMeta, TableType
  <1>4. ASSUME NEW p \in Procs, Link(p) PROVE TableType' /\ claims' = claims
    <2>1. PICK tick \in Ticks : AddEdge(p, tick)
      BY <1>4 DEF Link
    <2>2. how[p] \in EdgeTypes
      BY <1>4 DEF Link, At, LocalFacts, HowKnown
    <2>3. edges' \subseteq Edge
      BY <2>1, <2>2, AddEdgeType
    <2> QED
      BY <1>4, <2>3 DEF Link, TableType
  <1>5. ASSUME NEW p \in Procs, Audit(p) PROVE TableType' /\ claims' = claims
    BY <1>5 DEF Audit, TableType, LocalType
  <1>6. ASSUME NEW p \in Procs, Retire(p) \/ Close(p) PROVE TableType' /\ claims' = claims
    <2>1. old[p] \subseteq claims
      BY DEF LocalFacts, RowsStored
    <2> QED
      BY <1>6, <2>1 DEF Retire, Close, TableType
  <1>7. ASSUME NEW p \in Procs, Match(p) \/ Guard(p) \/ NextCopy(p) \/ Look(p) \/ Embed(p) \/ Crash(p)
        PROVE  UNCHANGED <<tables, byUser>>
    BY <1>7 DEF Match, Guard, NextCopy, Look, Embed, Crash, tables
  <1>8. ASSUME NEW c \in claims, Dismiss(c) PROVE TableType' /\ claims' = claims
    BY <1>8 DEF Dismiss, TableType
  <1>9. CASE UNCHANGED <<tables, byUser>>
    BY <1>9 DEF TableType, tables
  <1> QED
    BY <1>1, <1>2, <1>3, <1>4, <1>5, <1>6, <1>7, <1>8, <1>9 DEF Next, Step, vars

\* A step that goes on leaves the processes' own variables in order.
LEMMA GoesKeeps ==
    ASSUME Types, claims \subseteq claims', NEW p \in Procs, Alone(p), NEW step, NEW target, NEW type, NEW rest,
           Goes(p, step, target, type, rest), pc[p] # "idle", step \notin {"idle", "insert"},
           target \cup rest \subseteq claims', new[p] \subseteq claims',
           step \in {"audit", "link", "retire", "close", "copies"} => type \in EdgeTypes,
           step = "meta" /\ target # {} => type \in EdgeTypes
    PROVE  \A other \in Procs : LocalFacts(other)'
  <1>1. LocalFacts(p)'
    <2>1. \E n \in Claim : new[p] = {n}
      BY DEF Types, LocalFacts, OneJob
    <2> QED
      BY <2>1 DEF LocalFacts, RowsStored, OneJob, HowKnown, Goes
  <1>2. ASSUME NEW other \in Procs \ {p} PROVE LocalFacts(other)'
    <2>1. LocalFacts(other) /\ Stays(other)
      BY DEF Types, Alone
    <2> QED
      BY <2>1 DEF LocalFacts, RowsStored, OneJob, HowKnown, Stays
  <1> QED
    BY <1>1, <1>2

LEMMA EndsKeeps ==
    ASSUME Types, claims \subseteq claims', NEW p \in Procs, Alone(p), Ends(p)
    PROVE  \A other \in Procs : LocalFacts(other)'
  <1>1. LocalFacts(p)'
    BY DEF LocalFacts, RowsStored, OneJob, HowKnown, Ends
  <1>2. ASSUME NEW other \in Procs \ {p} PROVE LocalFacts(other)'
    <2>1. LocalFacts(other) /\ Stays(other)
      BY DEF Types, Alone
    <2> QED
      BY <2>1 DEF LocalFacts, RowsStored, OneJob, HowKnown, Stays
  <1> QED
    BY <1>1, <1>2

LEMMA LocalStep == Types /\ [Next]_vars => LocalType' /\ \A other \in Procs : LocalFacts(other)'
  <1> SUFFICES ASSUME Types, [Next]_vars PROVE LocalType' /\ \A other \in Procs : LocalFacts(other)'
    OBVIOUS
  <1>0. LocalType /\ TableType /\ claims \subseteq claims'
    BY TableStep DEF Types
  <1>a. ASSUME NEW p \in Procs
        PROVE  /\ old[p] \cup rows[p] \subseteq claims
               /\ pc[p] \notin {"idle", "insert"} => new[p] \subseteq claims
               /\ pc[p] \in {"audit", "link", "retire", "close", "copies"} => how[p] \in EdgeTypes
               /\ pc[p] \in {"insert", "meta"} /\ old[p] # {} => how[p] \in EdgeTypes
    BY DEF Types, LocalFacts, RowsStored, HowKnown
  <1>1. ASSUME NEW p \in Procs, Begin(p) PROVE LocalType' /\ \A other \in Procs : LocalFacts(other)'
    <2>1. PICK n \in Claim : Begins(p, n)
      BY <1>1, BeginIs
    <2>2. LocalType' /\ \A other \in Procs \ {p} : Stays(other)
      BY <1>1, BeginIs
    <2>3. rows[p] = {} /\ old[p] = {}
      BY <2>1 DEF Begins, Types, LocalFacts, OneJob
    <2>4. old'[p] \subseteq claims' /\ (old'[p] # {} => how'[p] \in EdgeTypes)
      BY <1>0, <2>1, <2>3 DEF Begins, TableType, EdgeTypes
    <2>5. LocalFacts(p)'
      BY <2>1, <2>3, <2>4 DEF Begins, LocalFacts, RowsStored, OneJob, HowKnown
    <2>6. ASSUME NEW other \in Procs \ {p} PROVE LocalFacts(other)'
      <3>1. LocalFacts(other) /\ Stays(other)
        BY <2>2 DEF Types
      <3> QED
        BY <1>0, <3>1 DEF LocalFacts, RowsStored, OneJob, HowKnown, Stays
    <2> QED
      BY <2>2, <2>5, <2>6
  <1>2. ASSUME NEW p \in Procs, InsertRow(p) PROVE Alone(p) /\ \A other \in Procs : LocalFacts(other)'
    <2>1. new[p] \subseteq claims'
      BY <1>2 DEF InsertRow
    <2> QED
      BY <1>0, <1>2, <1>a, <2>1, WalksAre, GoesKeeps
  <1>3. ASSUME NEW p \in Procs, InsertMeta(p) PROVE Alone(p) /\ \A other \in Procs : LocalFacts(other)'
    <2>1. CASE old[p] = {}
      BY <1>0, <1>3, <1>a, <2>1, WalksAre, GoesKeeps
    <2>2. CASE old[p] # {}
      BY <1>0, <1>3, <1>a, <2>2, WalksAre, GoesKeeps
    <2> QED
      BY <2>1, <2>2
  <1>4. ASSUME NEW p \in Procs, Match(p) PROVE Alone(p) /\ \A other \in Procs : LocalFacts(other)'
    <2>1. Alone(p) /\ pc[p] = "match" /\ new[p] \subseteq claims /\ live \subseteq claims
      BY <1>0, <1>4, <1>a, MatchIs DEF TableType
    <2>2. CASE Ends(p)
      BY <1>0, <2>1, <2>2, EndsKeeps
    <2>3. CASE Goes(p, "look", {}, "none", {})
      BY <1>0, <2>1, <2>3, GoesKeeps
    <2>4. ASSUME NEW o \in live, NEW S \in SUBSET live, Goes(p, "guard", {o}, "none", S)
          PROVE  \A other \in Procs : LocalFacts(other)'
      <3>1. {o} \cup S \subseteq claims'
        BY <1>0, <2>1
      <3> QED
        BY <1>0, <2>1, <2>4, <3>1, GoesKeeps
    <2> QED
      BY <1>0, <1>4, <2>1, <2>2, <2>3, <2>4, MatchIs
  <1>5. ASSUME NEW p \in Procs, Guard(p) PROVE Alone(p) /\ \A other \in Procs : LocalFacts(other)'
    <2>1. PICK step \in {"audit", "link"}, S \in SUBSET rows[p] :
             \E type \in EdgeTypes \ {"semantic_replace"} : Goes(p, step, old[p], type, S)
      BY <1>0, <1>5, GuardIs
    <2>2. PICK type \in EdgeTypes : Goes(p, step, old[p], type, S)
      BY <2>1
    <2>3. Alone(p) /\ pc[p] = "guard" /\ new[p] \subseteq claims' /\ old[p] \cup S \subseteq claims'
      BY <1>0, <1>5, <1>a, GuardIs
    <2> QED
      BY <1>0, <2>2, <2>3, GoesKeeps
  <1>6. ASSUME NEW p \in Procs, Audit(p) \/ Retire(p) PROVE Alone(p) /\ \A other \in Procs : LocalFacts(other)'
    BY <1>0, <1>6, <1>a, WalksAre, GoesKeeps
  <1>7. ASSUME NEW p \in Procs, Link(p) PROVE Alone(p) /\ \A other \in Procs : LocalFacts(other)'
    <2>1. CASE how[p] = "contradicts"
      BY <1>0, <1>7, <2>1, LinkIs, EndsKeeps
    <2>2. CASE how[p] # "contradicts"
      BY <1>0, <1>7, <1>a, <2>2, LinkIs, GoesKeeps
    <2> QED
      BY <2>1, <2>2
  <1>8. ASSUME NEW p \in Procs, Close(p) PROVE Alone(p) /\ \A other \in Procs : LocalFacts(other)'
    <2>1. CASE Ends(p)
      BY <1>0, <1>8, <2>1, CloseIs, EndsKeeps
    <2>2. CASE Goes(p, "copies", {}, how[p], rows[p])
      <3>1. {} \cup rows[p] \subseteq claims'
        BY <1>0, <1>a
      <3> QED
        BY <1>0, <1>8, <1>a, <2>2, <3>1, CloseIs, GoesKeeps
    <2> QED
      BY <1>0, <1>8, <2>1, <2>2, CloseIs
  <1>9. ASSUME NEW p \in Procs, NextCopy(p) PROVE Alone(p) /\ \A other \in Procs : LocalFacts(other)'
    <2>1. Alone(p) /\ pc[p] = "copies" /\ new[p] \subseteq claims' /\ rows[p] \subseteq claims' /\ how[p] \in EdgeTypes
      BY <1>0, <1>9, <1>a, NextCopyIs
    <2>2. CASE Ends(p)
      BY <1>0, <2>1, <2>2, EndsKeeps
    <2>3. ASSUME NEW S \in SUBSET rows[p], Goes(p, "copies", {}, how[p], S)
          PROVE  \A other \in Procs : LocalFacts(other)'
      BY <1>0, <2>1, <2>3, GoesKeeps
    <2>4. ASSUME NEW c \in rows[p], NEW S \in SUBSET rows[p], Goes(p, "link", {c}, how[p], S)
          PROVE  \A other \in Procs : LocalFacts(other)'
      <3>1. {c} \cup S \subseteq claims'
        BY <2>1
      <3> QED
        BY <1>0, <2>1, <2>4, <3>1, GoesKeeps
    <2> QED
      BY <1>0, <1>9, <2>1, <2>2, <2>3, <2>4, NextCopyIs
  <1>10. ASSUME NEW p \in Procs, Look(p) PROVE Alone(p) /\ \A other \in Procs : LocalFacts(other)'
    <2>1. Alone(p) /\ pc[p] = "look" /\ new[p] \subseteq claims' /\ live \subseteq claims'
      BY <1>0, <1>10, <1>a, LookIs DEF TableType
    <2>2. CASE Ends(p)
      BY <1>0, <2>1, <2>2, EndsKeeps
    <2>3. ASSUME NEW S \in SUBSET live, Goes(p, "embed", {}, "none", S)
          PROVE  \A other \in Procs : LocalFacts(other)'
      <3>1. {} \cup S \subseteq claims'
        BY <2>1
      <3> QED
        BY <1>0, <2>1, <2>3, <3>1, GoesKeeps
    <2> QED
      BY <1>0, <1>10, <2>1, <2>2, <2>3, LookIs
  <1>11. ASSUME NEW p \in Procs, Embed(p) PROVE Alone(p) /\ \A other \in Procs : LocalFacts(other)'
    <2>1. Alone(p) /\ pc[p] = "embed" /\ new[p] \subseteq claims' /\ rows[p] \subseteq claims'
      BY <1>0, <1>11, <1>a, EmbedIs
    <2>2. CASE Ends(p)
      BY <1>0, <2>1, <2>2, EndsKeeps
    <2>3. ASSUME NEW c \in rows[p], Goes(p, "link", {c}, "semantic_replace", {})
          PROVE  \A other \in Procs : LocalFacts(other)'
      <3>1. {c} \cup {} \subseteq claims' /\ "semantic_replace" \in EdgeTypes
        BY <2>1 DEF EdgeTypes
      <3> QED
        BY <1>0, <2>1, <2>3, <3>1, GoesKeeps
    <2> QED
      BY <1>0, <1>11, <2>1, <2>2, <2>3, EmbedIs
  <1>12. ASSUME NEW p \in Procs, Crash(p) PROVE Alone(p) /\ \A other \in Procs : LocalFacts(other)'
    BY <1>0, <1>12, WalksAre, EndsKeeps
  <1>13. ASSUME UNCHANGED <<pc, locals>> PROVE LocalType' /\ \A other \in Procs : LocalFacts(other)'
    <2>1. LocalType'
      BY <1>0, <1>13 DEF LocalType, locals
    <2>2. ASSUME NEW other \in Procs PROVE LocalFacts(other)'
      <3>1. LocalFacts(other)
        BY DEF Types
      <3> QED
        BY <1>0, <1>13, <3>1 DEF LocalFacts, RowsStored, OneJob, HowKnown, locals
    <2> QED
      BY <2>1, <2>2
  <1>14. \/ UNCHANGED <<pc, locals>>
         \/ \E p \in Procs : \/ Begin(p) \/ Crash(p) \/ InsertRow(p) \/ InsertMeta(p) \/ Match(p) \/ Guard(p)
                             \/ Audit(p) \/ Link(p) \/ Retire(p) \/ Close(p) \/ NextCopy(p) \/ Look(p) \/ Embed(p)
    BY DEF Next, Step, Dismiss, vars, locals
  <1> QED
    BY <1>1, <1>2, <1>3, <1>4, <1>5, <1>6, <1>7, <1>8, <1>9, <1>10, <1>11, <1>12, <1>13, <1>14 DEF Alone

LEMMA TypesHold == Spec => []Types
  <1>1. Init => Types
    <2> SUFFICES ASSUME Init PROVE Types
      OBVIOUS
    <2>1. ClockType
      BY DEF Init, ClockType
    <2>2. LocalType
      BY DEF Init, LocalType, Steps
    <2>3. TableType
      BY DEF Init, TableType
    <2>4. \A p \in Procs : LocalFacts(p)
      BY DEF Init, LocalFacts, RowsStored, OneJob, HowKnown
    <2> QED
      BY <2>1, <2>2, <2>3, <2>4 DEF Types
  <1>2. Types /\ [Next]_vars => Types'
    <2> SUFFICES ASSUME Types, [Next]_vars PROVE Types'
      OBVIOUS
    <2>1. ClockType' /\ TableType' /\ LocalType' /\ \A p \in Procs : LocalFacts(p)'
      BY ClockStep, TableStep, LocalStep
    <2> QED
      BY <2>1 DEF Types
  <1> QED
    BY <1>1, <1>2, PTL DEF Spec

\* Every variable keeps its type, and what a process holds to replace stays in the
\* table of claims, whoever writes between two of its statements.
THEOREM IngestTypeCorrect == Spec => []TypeOK
  <1>1. Types => TypeOK
    <2> SUFFICES ASSUME Types PROVE TypeOK
      OBVIOUS
    <2>1. old \in [Procs -> SUBSET claims] /\ rows \in [Procs -> SUBSET claims]
      BY DEF Types, LocalType, LocalFacts, RowsStored
    <2> QED
      BY <2>1 DEF Types, ClockType, LocalType, TableType, TypeOK
  <1> QED
    BY <1>1, TypesHold, PTL

-----------------------------------------------------------------------------
(* The inductive invariant, part by part. *)

\* No two claims are the same: each has a turn of its own, numbered as jobs begin.
Fresh ==
    /\ \A c \in claims : c.turn.no <= jobs.claims
    /\ \A p \in Procs : \A n \in new[p] : n.turn.no <= jobs.claims
    /\ \A p, other \in Procs : p # other => new[p] \cap new[other] = {}
    /\ \A p \in Procs : pc[p] = "insert" => new[p] \cap claims = {}

\* What a process is about to replace was in the scope of the pass that found it.
Scoped(p) ==
    /\ pc[p] = "guard" => how[p] = "none"
    /\ \A n \in new[p] \ byUser : \A o \in old[p] \cup rows[p] :
          IF how[p] = "semantic_replace" \/ pc[p] = "embed" THEN InPass2Scope(n, o)
          ELSE InPass1Scope(n, o)

\* The edge is there before its claim is retired ...
Linked(p) == pc[p] = "retire" => \A o \in old[p] : \E e \in edges : e.old = o /\ Replaces(e)

\* ... and the claim is retired before its window is closed.
Retired(p) == pc[p] = "close" => old[p] \cap live = {}

\* What an edge calls for and is not there yet, some process is about to do.
Settling ==
    jobs.crashes = 0 => \A e \in edges : Replaces(e) =>
        /\ e.old \in live => \E p \in Procs : pc[p] = "retire" /\ e.old \in old[p]
        /\ e.old.ts < e.ts /\ e.old \notin closed =>
              \E p \in Procs : pc[p] \in {"retire", "close"} /\ e.old \in old[p] /\ e.ts <= last[p]

LineageStored == \A e \in edges : e.old \in claims
CurrentIsOpen == live \cap closed = {}

IngestInv ==
    /\ Fresh /\ LineageStored /\ CurrentIsOpen /\ Settling
    /\ LooksBack /\ RetiredWithLineage
    /\ \A p \in Procs : Scoped(p) /\ Linked(p) /\ Retired(p)

-----------------------------------------------------------------------------
Acts(p) ==
    \/ Begin(p) \/ Crash(p) \/ InsertRow(p) \/ InsertMeta(p) \/ Match(p) \/ Guard(p) \/ Audit(p)
    \/ Link(p) \/ Retire(p) \/ Close(p) \/ NextCopy(p) \/ Look(p) \/ Embed(p)

Rests(p) == Stays(p) /\ last'[p] = last[p]

\* One process acts at a time.
LEMMA OneActs ==
    ASSUME Types, [Next]_vars
    PROVE  \/ (\A other \in Procs : Rests(other)) /\ (UNCHANGED vars \/ \E c \in claims : Dismiss(c))
           \/ \E p \in Procs : Acts(p) /\ \A other \in Procs \ {p} : Rests(other)
  <1> USE DEF Types
  <1>1. ASSUME NEW p \in Procs, Begin(p) PROVE \A other \in Procs \ {p} : Rests(other)
    BY <1>1, BeginIs, StampedIs DEF Begins, Rests
  <1>2. ASSUME NEW p \in Procs, Link(p) PROVE \A other \in Procs \ {p} : Rests(other)
    <2>1. PICK tick \in Ticks : Stamped(p, tick)
      BY <1>2 DEF Link, AddEdge
    <2> QED
      BY <1>2, <2>1, LinkIs, StampedIs DEF Alone, Rests
  <1>3. ASSUME NEW p \in Procs, Crash(p) PROVE \A other \in Procs \ {p} : Rests(other)
    <2>1. \A other \in Procs \ {p} : last'[other] = last[other]
      BY <1>3 DEF Crash, ClockType
    <2> QED
      BY <1>3, <2>1, WalksAre DEF Alone, Rests
  <1>4. ASSUME NEW p \in Procs, Acts(p), ~Begin(p), ~Link(p), ~Crash(p)
        PROVE  \A other \in Procs \ {p} : Rests(other)
    <2>1. last' = last
      BY <1>4 DEF Acts, InsertRow, InsertMeta, Match, Guard, Audit, Retire, Close, NextCopy, Look, Embed, clock
    <2>2. Alone(p)
      BY <1>4, WalksAre, MatchIs, GuardIs, CloseIs, NextCopyIs, LookIs, EmbedIs DEF Acts
    <2> QED
      BY <2>1, <2>2 DEF Alone, Rests
  <1>5. ASSUME UNCHANGED <<clock, pc, locals>> PROVE \A other \in Procs : Rests(other)
    BY <1>5 DEF Rests, Stays, clock, locals
  <1>6. UNCHANGED vars \/ (\E c \in claims : Dismiss(c)) \/ \E p \in Procs : Acts(p)
    BY DEF Next, Step, Acts
  <1>7. UNCHANGED vars \/ (\E c \in claims : Dismiss(c)) => UNCHANGED <<clock, pc, locals>>
    BY DEF vars, Dismiss
  <1> QED
    BY <1>1, <1>2, <1>3, <1>4, <1>5, <1>6, <1>7

\* What becomes of the tables.
LEMMA TablesMove ==
    ASSUME Types, [Next]_vars
    PROVE  /\ edges \subseteq edges' /\ byUser \subseteq byUser' /\ claims \subseteq claims'
           /\ \/ edges' = edges
              \/ \E p \in Procs : \E ts \in Nat :
                    /\ Link(p) /\ last'[p] = ts
                    /\ edges' = edges \cup {[old |-> o, new |-> n, type |-> how[p], ts |-> ts] :
                                              o \in old[p], n \in new[p]}
           /\ \/ claims' = claims /\ live' \subseteq live
              \/ \E p \in Procs : /\ InsertRow(p) /\ claims' = claims \cup new[p]
                                  /\ live' = live \cup new[p] /\ dismissed' = dismissed
           /\ \/ closed' = closed
              \/ \E p \in Procs : Close(p) /\ closed' = closed \cup {o \in old[p] : o.ts < last[p]}
  <1> USE DEF Types
  <1>1. ASSUME NEW p \in Procs, Begin(p) PROVE UNCHANGED tables /\ byUser \subseteq byUser'
    BY <1>1, BeginIs DEF Begins
  <1>2. ASSUME NEW p \in Procs, Link(p)
        PROVE  /\ UNCHANGED <<claims, live, closed, byUser>>
               /\ \E ts \in Nat :
                    /\ last'[p] = ts
                    /\ edges' = edges \cup {[old |-> o, new |-> n, type |-> how[p], ts |-> ts] :
                                              o \in old[p], n \in new[p]}
    <2>1. PICK tick \in Ticks : AddEdge(p, tick)
      BY <1>2 DEF Link
    <2> QED
      BY <1>2, <2>1, StampType, StampedIs DEF Link, AddEdge
  <1>3. ASSUME NEW p \in Procs, InsertRow(p)
        PROVE  /\ UNCHANGED <<edges, closed, dismissed, byUser>>
               /\ claims' = claims \cup new[p] /\ live' = live \cup new[p]
    BY <1>3 DEF InsertRow
  <1>4. ASSUME NEW p \in Procs, Close(p)
        PROVE  /\ UNCHANGED <<claims, live, edges, byUser>>
               /\ closed' = closed \cup {o \in old[p] : o.ts < last[p]}
    BY <1>4 DEF Close
  <1>5. ASSUME NEW p \in Procs, Crash(p) \/ InsertMeta(p) \/ Match(p) \/ Guard(p) \/ Audit(p) \/ Retire(p)
                                \/ NextCopy(p) \/ Look(p) \/ Embed(p)
        PROVE  UNCHANGED <<claims, edges, closed, byUser>> /\ live' \subseteq live
    BY <1>5 DEF Crash, InsertMeta, Match, Guard, Audit, Retire, NextCopy, Look, Embed, tables
  <1>6. ASSUME NEW c \in claims, Dismiss(c)
        PROVE  UNCHANGED <<claims, edges, closed, byUser>> /\ live' \subseteq live
    BY <1>6 DEF Dismiss
  <1>7. CASE UNCHANGED vars
    BY <1>7 DEF vars, tables
  <1>8. \/ UNCHANGED vars \/ \E c \in claims : Dismiss(c)
        \/ \E p \in Procs : Acts(p)
    BY DEF Next, Step, Acts
  <1> QED
    BY <1>1, <1>2, <1>3, <1>4, <1>5, <1>6, <1>7, <1>8 DEF Acts, tables

LEMMA FreshStep == Types /\ Fresh /\ [Next]_vars => Fresh'
  <1> SUFFICES ASSUME Types, Fresh, [Next]_vars PROVE Fresh'
    OBVIOUS
  <1>0. /\ jobs.claims \in Nat /\ claims \subseteq Claim /\ \A p \in Procs : new[p] \subseteq Claim
        /\ \A c \in Claim : c.turn.no \in Nat
    BY DEF Types, ClockType, TableType, LocalType, Claim, Turn
  <1>1. ASSUME NEW p \in Procs, NEW n \in Claim, Begins(p, n), \A other \in Procs \ {p} : Stays(other) PROVE Fresh'
    <2>1. /\ claims' = claims /\ jobs'.claims = jobs.claims + 1 /\ n.turn.no = jobs.claims + 1
          /\ new'[p] = {n} /\ \A other \in Procs \ {p} : new'[other] = new[other] /\ pc'[other] = pc[other]
      BY <1>1 DEF Begins, Stays, tables
    <2>2. (\A c \in claims : n # c) /\ \A other \in Procs : \A m \in new[other] : n # m
      BY <1>0, <2>1 DEF Fresh
    <2>3. \A k \in Nat : k <= jobs.claims => k <= jobs.claims + 1
      BY <1>0
    <2>4. \A c \in claims' : c.turn.no <= jobs'.claims
      BY <1>0, <2>1, <2>3 DEF Fresh
    <2>5. \A other \in Procs : \A m \in new'[other] : m.turn.no <= jobs'.claims
      BY <1>0, <2>1, <2>3 DEF Fresh
    <2>6. \A other, r \in Procs : other # r => new'[other] \cap new'[r] = {}
      BY <2>1, <2>2 DEF Fresh
    <2>7. \A other \in Procs : pc'[other] = "insert" => new'[other] \cap claims' = {}
      BY <2>1, <2>2 DEF Fresh
    <2> QED
      BY <2>4, <2>5, <2>6, <2>7 DEF Fresh
  <1>2. ASSUME jobs'.claims = jobs.claims, \A other \in Procs : new'[other] \subseteq new[other],
               claims' = claims, \A other \in Procs : pc'[other] = "insert" => pc[other] = "insert"
        PROVE  Fresh'
    BY <1>2 DEF Fresh
  <1>3. ASSUME NEW p \in Procs, InsertRow(p), \A other \in Procs \ {p} : Stays(other) PROVE Fresh'
    <2>1. /\ jobs' = jobs /\ claims' = claims \cup new[p] /\ new' = new /\ pc'[p] = "meta"
          /\ \A other \in Procs \ {p} : pc'[other] = pc[other]
      BY <1>3, WalksAre DEF InsertRow, Types, locals, Stays, Goes
    <2> QED
      BY <2>1 DEF Fresh
  <1>4. ASSUME NEW p \in Procs, Acts(p), ~Begin(p), ~InsertRow(p)
        PROVE  new'[p] \subseteq new[p] /\ pc'[p] # "insert" /\ UNCHANGED claims /\ jobs'.claims = jobs.claims
    <2>1. UNCHANGED claims /\ jobs'.claims = jobs.claims
      BY <1>4 DEF Acts, Crash, Spend, InsertMeta, Match, Guard, Audit, Link, Retire, Close, NextCopy, Look, Embed,
                  tables, Types, ClockType
    <2>2. \/ Ends(p)
          \/ \E step \in Steps \ {"insert"} : \E target, type, rest : Goes(p, step, target, type, rest)
      BY <1>4, WalksAre, MatchIs, GuardIs, LinkIs, CloseIs, NextCopyIs, LookIs, EmbedIs DEF Acts, Types, Steps
    <2> QED
      BY <2>1, <2>2 DEF Ends, Goes
  <1>5. ASSUME \A other \in Procs : Rests(other), UNCHANGED vars \/ \E c \in claims : Dismiss(c) PROVE Fresh'
    <2>1. UNCHANGED claims /\ jobs'.claims = jobs.claims
      BY <1>5 DEF Dismiss, Spend, vars, tables, Types, ClockType
    <2> QED
      BY <1>2, <1>5, <2>1 DEF Rests, Stays
  <1>6. ASSUME NEW p \in Procs, Acts(p), ~Begin(p), ~InsertRow(p), \A other \in Procs \ {p} : Rests(other) PROVE Fresh'
    BY <1>2, <1>4, <1>6 DEF Rests, Stays
  <1> QED
    BY <1>1, <1>3, <1>5, <1>6, OneActs, BeginIs DEF Rests

\* Only a step at a statement is that statement, or the end of its process.
LEMMA ActsAt ==
    ASSUME NEW p \in Procs, Acts(p)
    PROVE  /\ pc[p] = "retire" => Retire(p) \/ Crash(p)
           /\ pc[p] = "close" => Close(p) \/ Crash(p)
           /\ pc[p] = "link" => Link(p) \/ Crash(p)
  BY DEF Acts, Begin, BeginExtract, BeginCorrect, InsertRow, InsertMeta, Match, Guard, Audit, Link, Retire, Close,
         NextCopy, Look, Embed, At

LEMMA ScopedStep == Types /\ IngestInv /\ [Next]_vars => \A other \in Procs : Scoped(other)'
  <1> SUFFICES ASSUME Types, IngestInv, [Next]_vars, NEW other \in Procs PROVE Scoped(other)'
    OBVIOUS
  <1>0. Scoped(other) /\ byUser \subseteq byUser' /\ LocalType /\ TableType /\ OneJob(other)
    BY TablesMove DEF IngestInv, Types, LocalFacts
  <1>1. CASE Rests(other)
    BY <1>0, <1>1 DEF Scoped, Rests, Stays
  <1>a. CASE Ends(other)
    BY <1>a DEF Ends, Scoped
  <1>b. ASSUME NEW step, NEW S \in SUBSET rows[other], NEW T \in SUBSET (old[other] \cup rows[other]), Goes(other, step, T, how[other], S),
               pc[other] # "embed", step \notin {"embed", "guard"}
        PROVE  Scoped(other)'
    BY <1>0, <1>b DEF Scoped, Goes
  <1>2. CASE Begin(other)
    <2>1. PICK n \in Claim : Begins(other, n)
      BY <1>2, BeginIs
    <2>2. old[other] = {} /\ rows[other] = {}
      BY <1>0, <2>1 DEF OneJob, Begins
    <2> QED
      BY <2>1, <2>2 DEF Scoped, Begins
  <1>3. CASE InsertRow(other) \/ InsertMeta(other) \/ Audit(other) \/ Retire(other)
    <2>1. \E step \in {"meta", "match", "link", "close"} : Goes(other, step, old[other], how[other], rows[other])
      BY <1>0, <1>3, WalksAre
    <2>2. pc[other] # "embed"
      BY <1>0, <1>3, WalksAre
    <2> QED
      BY <1>b, <2>1, <2>2
  <1>4. CASE Match(other)
    <2>1. \A n, m \in new[other] : n = m
      BY <1>0, <1>4, MatchIs DEF OneJob
    <2>2. ASSUME NEW n \in new[other], NEW o \in live, NEW S \in SUBSET live, \A c \in {o} \cup S : InPass1Scope(n, c),
                 Goes(other, "guard", {o}, "none", S)
          PROVE  Scoped(other)'
      BY <2>1, <2>2 DEF Scoped, Goes
    <2>3. CASE Goes(other, "look", {}, "none", {})
      BY <2>3 DEF Scoped, Goes
    <2> QED
      BY <1>0, <1>4, <1>a, <2>2, <2>3, MatchIs
  <1>5. CASE Guard(other)
    <2>1. PICK step \in {"audit", "link"}, S \in SUBSET rows[other], type \in EdgeTypes \ {"semantic_replace"} :
             Goes(other, step, old[other], type, S)
      BY <1>0, <1>5, GuardIs
    <2>2. pc[other] = "guard"
      BY <1>0, <1>5, GuardIs
    <2> QED
      BY <1>0, <2>1, <2>2 DEF Scoped, Goes
  <1>6. CASE Link(other)
    <2>1. CASE how[other] = "contradicts"
      BY <1>0, <1>6, <1>a, <2>1, LinkIs
    <2>2. CASE how[other] # "contradicts"
      BY <1>0, <1>6, <1>b, <2>2, LinkIs
    <2> QED
      BY <2>1, <2>2
  <1>7. CASE Close(other)
    BY <1>0, <1>7, <1>a, <1>b, CloseIs
  <1>8. CASE NextCopy(other)
    <2>1. ASSUME NEW S \in SUBSET rows[other], Goes(other, "copies", {}, how[other], S) PROVE Scoped(other)'
      BY <1>0, <1>8, <1>b, <2>1, NextCopyIs
    <2>2. ASSUME NEW c \in rows[other], NEW S \in SUBSET rows[other], Goes(other, "link", {c}, how[other], S) PROVE Scoped(other)'
      <3>1. {c} \in SUBSET (old[other] \cup rows[other])
        OBVIOUS
      <3> QED
        BY <1>0, <1>8, <1>b, <2>2, <3>1, NextCopyIs
    <2> QED
      BY <1>0, <1>8, <1>a, <2>1, <2>2, NextCopyIs
  <1>9. CASE Look(other)
    <2>1. \A n, m \in new[other] : n = m
      BY <1>0, <1>9, LookIs DEF OneJob
    <2>2. ASSUME NEW n \in new[other], NEW S \in SUBSET live, \A c \in S : InPass2Scope(n, c),
                 Goes(other, "embed", {}, "none", S)
          PROVE  Scoped(other)'
      BY <2>1, <2>2 DEF Scoped, Goes
    <2> QED
      BY <1>0, <1>9, <1>a, <2>2, LookIs
  <1>10. CASE Embed(other)
    <2>1. ASSUME NEW c \in rows[other], Goes(other, "link", {c}, "semantic_replace", {}) PROVE Scoped(other)'
      <3>1. pc[other] = "embed"
        BY <1>0, <1>10, EmbedIs
      <3> QED
        BY <1>0, <2>1, <3>1 DEF Scoped, Goes
    <2> QED
      BY <1>0, <1>10, <1>a, <2>1, EmbedIs
  <1>11. CASE Crash(other)
    BY <1>0, <1>11, <1>a, WalksAre
  <1>12. Rests(other) \/ Acts(other)
    BY OneActs
  <1> QED
    BY <1>1, <1>2, <1>3, <1>4, <1>5, <1>6, <1>7, <1>8, <1>9, <1>10, <1>11, <1>12 DEF Acts

\* Where a process gets to when it acts, seen from there.
LEMMA LeadsTo ==
    ASSUME Types, NEW p \in Procs, Acts(p)
    PROVE  /\ pc'[p] = "retire" => Link(p) /\ old'[p] = old[p] /\ how[p] # "contradicts"
           /\ pc'[p] = "close" => Retire(p) /\ old'[p] = old[p]
  <1>0. LocalType /\ TableType
    BY DEF Types
  <1>1. CASE Begin(p)
    BY <1>1, BeginIs DEF Begins
  <1>2. CASE InsertRow(p) \/ InsertMeta(p) \/ Audit(p) \/ Retire(p) \/ Crash(p)
    BY <1>0, <1>2, WalksAre DEF Goes, Ends
  <1>3. CASE Match(p) \/ Look(p) \/ Embed(p)
    BY <1>0, <1>3, MatchIs, LookIs, EmbedIs DEF Goes, Ends
  <1>4. CASE Guard(p)
    BY <1>0, <1>4, GuardIs DEF Goes
  <1>5. CASE Link(p)
    BY <1>0, <1>5, LinkIs DEF Goes, Ends
  <1>6. CASE Close(p) \/ NextCopy(p)
    BY <1>0, <1>6, CloseIs, NextCopyIs DEF Goes, Ends
  <1> QED
    BY <1>1, <1>2, <1>3, <1>4, <1>5, <1>6 DEF Acts

\* What process p writes when it links.
LEMMA LinkWrites ==
    ASSUME Types, [Next]_vars, NEW p \in Procs, Link(p)
    PROVE  \E ts \in Nat : /\ last'[p] = ts
                           /\ edges' = edges \cup {[old |-> o, new |-> n, type |-> how[p], ts |-> ts] :
                                                     o \in old[p], n \in new[p]}
  <1>1. PICK tick \in Ticks : AddEdge(p, tick)
    BY DEF Link
  <1> QED
    BY <1>1, StampType, StampedIs DEF AddEdge, Types

LEMMA LinkedStep == Types /\ IngestInv /\ [Next]_vars => \A other \in Procs : Linked(other)'
  <1> SUFFICES ASSUME Types, IngestInv, [Next]_vars, NEW other \in Procs, pc'[other] = "retire", NEW o \in old'[other]
               PROVE  \E e \in edges' : e.old = o /\ Replaces(e)
    BY DEF Linked, Replaces
  <1>1. CASE Rests(other)
    BY <1>1, TablesMove DEF IngestInv, Linked, Rests, Stays
  <1>2. CASE Acts(other)
    <2>1. Link(other) /\ o \in old[other] /\ how[other] # "contradicts"
      BY <1>2, LeadsTo
    <2>2. pc[other] = "link"
      BY <2>1 DEF Link, At
    <2>3. PICK n : new[other] = {n}
      BY <2>2 DEF Types, LocalFacts, OneJob
    <2>4. PICK ts \in Nat : edges' = edges \cup {[old |-> x, new |-> y, type |-> how[other], ts |-> ts] :
                                                   x \in old[other], y \in new[other]}
      BY <2>1, LinkWrites
    <2>5. [old |-> o, new |-> n, type |-> how[other], ts |-> ts] \in edges'
      BY <2>1, <2>3, <2>4
    <2> QED
      BY <2>1, <2>5 DEF Replaces
  <1> QED
    BY <1>1, <1>2, OneActs

\* A claim inserted now is none of those in the tables.
LEMMA InsertsNew ==
    ASSUME Types, Fresh, NEW p \in Procs, InsertRow(p)
    PROVE  new[p] \cap claims = {}
  BY DEF Fresh, InsertRow, At

LEMMA LiveMoves ==
    ASSUME Types, Fresh, [Next]_vars, NEW c \in claims, c \in live'
    PROVE  c \in live
  BY TablesMove, InsertsNew

LEMMA RetiredStep == Types /\ IngestInv /\ [Next]_vars => \A other \in Procs : Retired(other)'
  <1> SUFFICES ASSUME Types, IngestInv, [Next]_vars, NEW other \in Procs, pc'[other] = "close", NEW o \in old'[other]
               PROVE  o \notin live'
    BY DEF Retired
  <1>1. CASE Rests(other)
    <2>1. pc[other] = "close" /\ o \in old[other]
      BY <1>1 DEF Rests, Stays
    <2>2. o \in claims /\ o \notin live
      BY <2>1 DEF IngestInv, Retired, Types, LocalFacts, RowsStored
    <2> QED
      BY <2>2, LiveMoves DEF IngestInv
  <1>2. CASE Acts(other)
    BY <1>2, LeadsTo DEF Retire
  <1> QED
    BY <1>1, <1>2, OneActs

LEMMA CurrentIsOpenStep == Types /\ IngestInv /\ [Next]_vars => CurrentIsOpen'
  <1> SUFFICES ASSUME Types, IngestInv, [Next]_vars, NEW c \in live', c \in closed' PROVE FALSE
    BY DEF CurrentIsOpen
  <1>1. closed \subseteq claims /\ Fresh /\ CurrentIsOpen
    BY DEF IngestInv, Types, TableType
  <1>2. CASE c \in closed
    BY <1>1, <1>2, LiveMoves DEF CurrentIsOpen
  <1>3. CASE c \notin closed
    <2>1. PICK p \in Procs : Close(p) /\ c \in old[p]
      BY <1>3, TablesMove
    <2>2. live' = live /\ pc[p] = "close"
      BY <2>1 DEF Close, At
    <2> QED
      BY <2>1, <2>2 DEF IngestInv, Retired
  <1> QED
    BY <1>2, <1>3

LEMMA LineageStoredStep == Types /\ IngestInv /\ [Next]_vars => LineageStored'
  <1> SUFFICES ASSUME Types, IngestInv, [Next]_vars, NEW e \in edges' PROVE e.old \in claims'
    BY DEF LineageStored
  <1>1. CASE e \in edges
    BY <1>1, TablesMove DEF IngestInv, LineageStored
  <1>2. CASE e \notin edges
    <2>1. PICK p \in Procs : e.old \in old[p]
      BY <1>2, TablesMove
    <2> QED
      BY <2>1, TablesMove DEF Types, LocalFacts, RowsStored
  <1> QED
    BY <1>1, <1>2

LEMMA LooksBackStep == Types /\ IngestInv /\ [Next]_vars => LooksBack'
  <1> DEFINE Back(e) == /\ e.old.ts < e.new.ts /\ e.old.turn # e.new.turn
                        /\ IF e.type = "semantic_replace" THEN InPass2Scope(e.new, e.old)
                           ELSE SameSlot(e.old, e.new)
  <1> SUFFICES ASSUME Types, IngestInv, [Next]_vars, NEW e \in edges', e.new \notin byUser'
               PROVE  Back(e)
    BY DEF LooksBack
  <1>0. e.new \notin byUser
    BY TablesMove
  <1>1. CASE e \in edges
    BY <1>0, <1>1 DEF IngestInv, LooksBack
  <1>2. CASE e \notin edges
    <2>1. PICK p \in Procs, ts \in Nat :
             /\ Link(p)
             /\ edges' = edges \cup {[old |-> o, new |-> n, type |-> how[p], ts |-> ts] : o \in old[p], n \in new[p]}
      BY <1>2, TablesMove
    <2>2. PICK o \in old[p], n \in new[p] : e = [old |-> o, new |-> n, type |-> how[p], ts |-> ts]
      BY <1>2, <2>1
    <2>3. pc[p] = "link" /\ n \notin byUser
      BY <1>0, <2>1, <2>2 DEF Link, At
    <2>4. IF how[p] = "semantic_replace" THEN InPass2Scope(n, o) ELSE InPass1Scope(n, o)
      BY <2>3 DEF IngestInv, Scoped
    <2>5. /\ o.ts < n.ts /\ o.turn # n.turn
          /\ how[p] # "semantic_replace" => SameSlot(o, n)
      BY <2>4 DEF InPass1Scope, InPass2Scope
    <2> QED
      BY <2>2, <2>4, <2>5
  <1> QED
    BY <1>1, <1>2

LEMMA RetiredWithLineageStep == Types /\ IngestInv /\ [Next]_vars => RetiredWithLineage'
  <1> SUFFICES ASSUME Types, IngestInv, [Next]_vars, NEW c \in superseded'
               PROVE  \E e \in edges' : e.old = c /\ Replaces(e)
    BY DEF RetiredWithLineage, Replaces
  <1>1. CASE c \in superseded
    BY <1>1, TablesMove DEF IngestInv, RetiredWithLineage
  <1>2. CASE c \notin superseded
    <2>1. c \in claims' /\ c \notin live' /\ c \notin dismissed'
      BY DEF superseded
    <2>2. PICK p \in Procs : Retire(p) /\ c \in old[p]
      <3>1. ASSUME NEW p \in Procs, InsertRow(p) PROVE FALSE
        BY <1>2, <2>1, <3>1 DEF InsertRow, superseded
      <3>2. ASSUME NEW d \in claims, Dismiss(d) PROVE FALSE
        BY <1>2, <2>1, <3>2 DEF Dismiss, superseded
      <3>3. ASSUME NEW p \in Procs, Begin(p) PROVE FALSE
        <4>1. UNCHANGED tables
          BY <3>3, BeginIs DEF Begins
        <4> QED
          BY <1>2, <2>1, <4>1 DEF tables, superseded
      <3>4. ASSUME NEW p \in Procs,
                   Crash(p) \/ InsertMeta(p) \/ Match(p) \/ Guard(p) \/ Audit(p) \/ Link(p) \/ Close(p)
                   \/ NextCopy(p) \/ Look(p) \/ Embed(p)
            PROVE  FALSE
        BY <1>2, <2>1, <3>4 DEF Crash, InsertMeta, Match, Guard, Audit, Link, Close, NextCopy, Look, Embed, tables,
                                superseded
      <3>5. ASSUME NEW p \in Procs, Retire(p) PROVE c \in old[p]
        BY <1>2, <2>1, <3>5 DEF Retire, superseded
      <3>6. ~UNCHANGED vars
        BY <1>2, <2>1 DEF vars, tables, superseded
      <3> QED
        BY <3>1, <3>2, <3>3, <3>4, <3>5, <3>6 DEF Next, Step
    <2>3. pc[p] = "retire" /\ edges' = edges
      BY <2>2 DEF Retire, At
    <2> QED
      BY <2>2, <2>3 DEF IngestInv, Linked
  <1> QED
    BY <1>1, <1>2

LEMMA CrashesStay ==
    ASSUME Types, [Next]_vars, jobs'.crashes = 0
    PROVE  jobs.crashes = 0 /\ \A p \in Procs : ~Crash(p)
  <1> USE DEF Types, ClockType
  <1>1. ASSUME NEW p \in Procs, Crash(p) PROVE FALSE
    BY <1>1 DEF Crash, Spend
  <1>2. ASSUME NEW p \in Procs, Begin(p) PROVE jobs'.crashes = jobs.crashes
    BY <1>2, BeginIs DEF Begins
  <1>3. ASSUME NEW c \in claims, Dismiss(c) PROVE jobs'.crashes = jobs.crashes
    BY <1>3 DEF Dismiss, Spend
  <1>4. ASSUME NEW p \in Procs, Step(p) PROVE jobs' = jobs
    BY <1>4 DEF Step, InsertRow, InsertMeta, Match, Guard, Audit, Link, Retire, Close, NextCopy, Look, Embed
  <1> QED
    BY <1>1, <1>2, <1>3, <1>4 DEF Next, vars

LEMMA SettlingStep == Types /\ IngestInv /\ [Next]_vars => Settling'
  <1> SUFFICES ASSUME Types, IngestInv, [Next]_vars, jobs'.crashes = 0, NEW e \in edges', Replaces(e)
               PROVE  /\ e.old \in live' => \E p \in Procs : pc'[p] = "retire" /\ e.old \in old'[p]
                      /\ e.old.ts < e.ts /\ e.old \notin closed' =>
                            \E p \in Procs : /\ pc'[p] \in {"retire", "close"} /\ e.old \in old'[p]
                                             /\ e.ts <= last'[p]
    BY DEF Settling, Replaces
  <1>0. jobs.crashes = 0 /\ (\A p \in Procs : ~Crash(p)) /\ Fresh /\ LineageStored /\ Settling
    BY CrashesStay DEF IngestInv
  <1>a. \A p \in Procs : Acts(p) \/ Rests(p)
    BY OneActs
  <1>1. CASE e \in edges
    <2>1. ASSUME e.old \in live' PROVE \E p \in Procs : pc'[p] = "retire" /\ e.old \in old'[p]
      <3>1. e.old \in live
        BY <1>0, <1>1, <2>1, LiveMoves DEF LineageStored
      <3>2. PICK p \in Procs : pc[p] = "retire" /\ e.old \in old[p]
        BY <1>0, <1>1, <3>1 DEF Settling
      <3>3. ~Retire(p)
        BY <2>1, <3>2 DEF Retire
      <3>4. Rests(p)
        BY <1>0, <1>a, <3>2, <3>3, ActsAt
      <3> QED
        BY <3>2, <3>4 DEF Rests, Stays
    <2>2. ASSUME e.old.ts < e.ts, e.old \notin closed'
          PROVE  \E p \in Procs : pc'[p] \in {"retire", "close"} /\ e.old \in old'[p] /\ e.ts <= last'[p]
      <3>1. e.old \notin closed
        BY <2>2, TablesMove
      <3>2. PICK p \in Procs : pc[p] \in {"retire", "close"} /\ e.old \in old[p] /\ e.ts <= last[p]
        BY <1>0, <1>1, <2>2, <3>1 DEF Settling
      <3>3. e.old.ts \in Nat /\ e.ts \in Nat /\ last[p] \in Nat
        BY <1>1, <3>2 DEF Types, TableType, ClockType, Edge, Claim
      <3>4. ~Close(p)
        BY <2>2, <3>2, <3>3 DEF Close
      <3>5. CASE Retire(p)
        <4>1. Goes(p, "close", old[p], how[p], rows[p]) /\ last' = last
          BY <3>5, WalksAre DEF Types, Retire, clock
        <4> QED
          BY <3>2, <4>1 DEF Goes
      <3>6. CASE Rests(p)
        BY <3>2, <3>6 DEF Rests, Stays
      <3> QED
        BY <1>0, <1>a, <3>2, <3>4, <3>5, <3>6, ActsAt
    <2> QED
      BY <2>1, <2>2
  <1>2. CASE e \notin edges
    <2>1. PICK p \in Procs, ts \in Nat :
             /\ Link(p) /\ last'[p] = ts
             /\ edges' = edges \cup {[old |-> o, new |-> n, type |-> how[p], ts |-> ts] : o \in old[p], n \in new[p]}
      BY <1>2, TablesMove
    <2>2. e.old \in old[p] /\ e.type = how[p] /\ e.ts = ts
      BY <1>2, <2>1
    <2>3. Goes(p, "retire", old[p], how[p], rows[p])
      BY <2>1, <2>2, LinkIs DEF Types, Replaces
    <2> QED
      BY <2>1, <2>2, <2>3 DEF Goes
  <1> QED
    BY <1>1, <1>2

\* Every claim a writer retires has its lineage first, every window is closed after
\* that, and what detection replaces was older and in its scope, at every moment.
THEOREM IngestInvHolds == Spec => []IngestInv
  <1>1. Init => IngestInv
    <2> SUFFICES ASSUME Init PROVE IngestInv
      OBVIOUS
    <2>1. Fresh
      BY DEF Init, Fresh
    <2>2. LineageStored /\ CurrentIsOpen /\ Settling /\ LooksBack /\ RetiredWithLineage
      BY DEF Init, LineageStored, CurrentIsOpen, Settling, LooksBack, RetiredWithLineage, superseded
    <2>3. \A p \in Procs : Scoped(p) /\ Linked(p) /\ Retired(p)
      BY DEF Init, Scoped, Linked, Retired
    <2> QED
      BY <2>1, <2>2, <2>3 DEF IngestInv
  <1>2. Types /\ IngestInv /\ [Next]_vars => IngestInv'
    <2> SUFFICES ASSUME Types, IngestInv, [Next]_vars PROVE IngestInv'
      OBVIOUS
    <2>1. Fresh' /\ LineageStored' /\ CurrentIsOpen' /\ Settling' /\ LooksBack' /\ RetiredWithLineage'
      BY FreshStep, LineageStoredStep, CurrentIsOpenStep, SettlingStep, LooksBackStep, RetiredWithLineageStep
         DEF IngestInv
    <2>2. \A p \in Procs : Scoped(p)' /\ Linked(p)' /\ Retired(p)'
      BY ScopedStep, LinkedStep, RetiredStep
    <2> QED
      BY <2>1, <2>2 DEF IngestInv
  <1> QED
    BY <1>1, <1>2, TypesHold, PTL DEF Spec

\* Detection only ever replaces a strictly older claim of another turn and the same
\* tenant, in the scope of its pass: two writers cannot supersede each other.
THEOREM LooksBackHolds == Spec => []LooksBack
  <1>1. IngestInv => LooksBack
    BY DEF IngestInv
  <1> QED
    BY <1>1, IngestInvHolds, PTL

\* Wherever writers are stopped, a superseded claim has the edge that replaced it.
THEOREM RetiredWithLineageHolds == Spec => []RetiredWithLineage
  <1>1. IngestInv => RetiredWithLineage
    BY DEF IngestInv
  <1> QED
    BY <1>1, IngestInvHolds, PTL

\* The window of a current claim is open, and once the writers are done and none
\* was killed, a replaced claim is not current and its window is closed.
THEOREM WindowsAgreeHolds == Spec => []WindowsAgree
  <1>1. IngestInv => WindowsAgree
    BY DEF IngestInv, CurrentIsOpen, Settling, WindowsAgree, Quiet, At
  <1> QED
    BY <1>1, IngestInvHolds, PTL

-----------------------------------------------------------------------------
(* The queue and its worker. *)

Heard == 1 .. stored
ClosingSteps == {"closing", "exited"}

\* the job being worked on
InHand == IF worker \in {"extracting", "wrote"} THEN taken ELSE <<>>

QueueTypes ==
    /\ stored \in 0 .. MaxTurns /\ facts \subseteq Heard
    /\ status \in [Turns -> {"none", "pending", "done", "structured", "skipped"}]
    /\ main \in MainSteps /\ worker \in WorkerSteps
    /\ q \in Seq(Heard \cup {Shutdown}) /\ taken \in Seq(Heard \cup {Shutdown})
    /\ put \in Seq(Heard) /\ tried \in Seq(Heard)
    /\ spent \in [{"failures", "opens", "crashes"} -> Nat]

\* The worker holds an item while it works on one, and the shutdown only when
\* nothing is left behind it.
WorkerInv ==
    /\ worker \in {"none", "opening", "getting", "dead"} => taken = <<>>
    /\ worker \in {"extracting", "wrote"} => \E t \in Heard : taken = <<t>>
    /\ worker = "task_done" => \E item \in Heard \cup {Shutdown} : taken = <<item>>
    /\ taken = <<Shutdown>> => q = <<>> /\ main \in ClosingSteps
    /\ worker = "none" => q = <<>> /\ put = <<>> /\ tried = <<>>
    /\ worker = "dead" => spent.opens > 0 \/ (q = <<>> /\ main \in ClosingSteps)

\* The main thread stores before it enqueues, and waits for the worker's end.
MainInv ==
    /\ main \in {"enqueue", "inline"} => stored > 0
    /\ main = "enqueue" => worker # "none"
    /\ main = "exited" => worker \in {"none", "dead"}

\* What was enqueued is what was tried, the job in hand and what waits, in
\* this order; the shutdown comes after all of it.
BacklogIs(rest) ==
    /\ put = tried \o (InHand \o rest)
    /\ \/ q = rest
       \/ q = Append(rest, Shutdown) /\ main \in ClosingSteps

QueueInv ==
    /\ QueueTypes /\ WorkerInv /\ MainInv
    /\ unfinished = Len(q) + Len(taken)
    /\ \E rest \in Seq(Heard) : BacklogIs(rest)

LEMMA QueueInvInit == QueueInit => QueueInv
  <1> SUFFICES ASSUME QueueInit PROVE QueueInv
    OBVIOUS
  <1> USE DEF QueueInit
  <1>1. QueueTypes
    BY BoundsAssumption DEF QueueTypes, Turns, MainSteps, WorkerSteps
  <1>2. WorkerInv /\ MainInv
    BY DEF WorkerInv, MainInv
  <1>3. unfinished = Len(q) + Len(taken)
    OBVIOUS
  <1>4. <<>> \in Seq(Heard) /\ BacklogIs(<<>>)
    BY DEF BacklogIs, InHand
  <1> QED
    BY <1>1, <1>2, <1>3, <1>4 DEF QueueInv

\* Joined sequences stay as they are when an item moves from the beginning of the
\* second to the end of the first.
LEMMA MovedAcross ==
    ASSUME NEW X, NEW s \in Seq(X), NEW r \in Seq(X), NEW x \in X
    PROVE  Append(s, x) \o r = s \o (<<x>> \o r)
  <1>1. <<x>> \in Seq(X)
    OBVIOUS
  <1>2. Append(s, x) = s \o <<x>>
    BY AppendIsConcat
  <1> QED
    BY <1>1, <1>2, ConcatAssociative

\* A sequence is its first item and the rest.
LEMMA FirstAndRest ==
    ASSUME NEW X, NEW s \in Seq(X), s # <<>>
    PROVE  s = <<Head(s)>> \o Tail(s) /\ Head(s) \in X /\ Tail(s) \in Seq(X)
  <1> DEFINE h == <<Head(s)>>
             c == h \o Tail(s)
  <1>1. Head(s) \in X /\ Tail(s) \in Seq(X) /\ Len(Tail(s)) = Len(s) - 1
        /\ (\A i \in 1 .. Len(Tail(s)) : Tail(s)[i] = s[i + 1])
    BY HeadTailProperties
  <1>2. h \in Seq(X) /\ Len(h) = 1 /\ h[1] = s[1]
    BY <1>1
  <1> HIDE DEF h
  <1>3. c \in Seq(X) /\ Len(c) = Len(h) + Len(Tail(s))
        /\ (\A i \in 1 .. Len(h) + Len(Tail(s)) :
               c[i] = IF i <= Len(h) THEN h[i] ELSE Tail(s)[i - Len(h)])
    <2>1. Tail(s) \in Seq(X)
      BY <1>1
    <2> QED
      BY <2>1, <1>2, ConcatProperties, Zenon
  <1>4. Len(s) \in Nat \ {0}
    BY EmptySeq
  <1> HIDE DEF c
  <1>5. Len(c) = Len(s)
    BY <1>1, <1>2, <1>3, <1>4
  <1>6. ASSUME NEW i \in 1 .. Len(s) PROVE s[i] = c[i]
    <2>1. CASE i = 1
      BY <2>1, <1>1, <1>2, <1>3, <1>4
    <2>2. CASE i # 1
      <3>1. i - 1 \in 1 .. Len(Tail(s)) /\ (i - 1) + 1 = i
        BY <2>2, <1>1, <1>4
      <3>2. c[i] = Tail(s)[i - 1]
        BY <3>1, <1>1, <1>2, <1>3, <1>4
      <3> QED
        BY <3>1, <3>2, <1>1
    <2> QED
      BY <2>1, <2>2
  <1>7. s = c
    BY <1>3, <1>5, <1>6, SeqEqual
  <1> QED
    BY <1>1, <1>7 DEF c, h

QueueStep ==
    \/ StoreTurn \/ StoreInline \/ MainNext \/ \E t \in Turns, written \in BOOLEAN : ExtractInline(t, written)
    \/ Open \/ OpenFails \/ Get \/ WriteFacts \/ Finish \/ ExtractionFails \/ TaskDone
    \/ ProcessDies \/ UNCHANGED queueVars

\* Every step of the extraction does one of these to the queue, or nothing.
LEMMA ExtractionStepsQueue == [ExtractionNext]_allvars => QueueStep
  BY DEF ExtractionNext, JobNext, ExtractorNext, InlineNext, StoreText, StoreClaims, ReadContext,
         FromCache, Throttled, ModelFails, ModelAnswers, WriteClaims, Conclude, JobFails,
         CrashAndForget, QueueStep, allvars

\* A turn that is heard stays heard.
LEMMA HeardGrows ==
    ASSUME QueueTypes, stored' \in {stored, stored + 1}, stored' <= MaxTurns
    PROVE  /\ Heard \subseteq Heard' /\ stored' \in 0 .. MaxTurns
           /\ \A s \in Seq(Heard) : s \in Seq(Heard')
           /\ \A s \in Seq(Heard \cup {Shutdown}) : s \in Seq(Heard' \cup {Shutdown})
           /\ facts \subseteq Heard'
  <1>1. stored \in Nat /\ MaxTurns \in Nat /\ stored' \in 0 .. MaxTurns
    BY BoundsAssumption DEF QueueTypes
  <1>2. Heard \subseteq Heard'
    BY <1>1 DEF Heard
  <1>3. Heard \cup {Shutdown} \subseteq Heard' \cup {Shutdown}
    BY <1>2
  <1> QED
    BY <1>1, <1>2, <1>3, SeqMonotonic DEF QueueTypes

\* A step that leaves the queue and the job in hand alone keeps the backlog.
LEMMA SameBacklog ==
    ASSUME QueueInv, UNCHANGED <<q, put, tried>>, InHand' = InHand,
           main \in ClosingSteps => main' \in ClosingSteps,
           stored' \in {stored, stored + 1}, stored' <= MaxTurns
    PROVE  \E rest \in Seq(Heard') : BacklogIs(rest)'
  <1>1. PICK rest \in Seq(Heard) : BacklogIs(rest)
    BY DEF QueueInv
  <1>2. rest \in Seq(Heard')
    BY HeardGrows DEF QueueInv
  <1>3. BacklogIs(rest)'
    BY <1>1 DEF BacklogIs
  <1> QED
    BY <1>2, <1>3

\* The main thread's steps that neither store nor enqueue.
MainStep == Drain \/ Drained \/ Exit \/ \E t \in Turns, written \in BOOLEAN : ExtractInline(t, written)

LEMMA MainStepKeepsQueue == QueueInv /\ MainStep => QueueInv'
  <1> SUFFICES ASSUME QueueInv, MainStep PROVE QueueInv'
    OBVIOUS
  <1>0. QueueTypes /\ WorkerInv /\ MainInv /\ unfinished = Len(q) + Len(taken)
    BY DEF QueueInv
  <1>1. /\ UNCHANGED <<stored, worker, q, taken, unfinished, put, tried>>
        /\ Heard' = Heard
    BY DEF MainStep, Drain, Drained, Exit, ExtractInline, history, table, Heard
  <1>2. /\ main \notin ClosingSteps \/ main' = "exited"
        /\ main' \in {"draining", "serving", "exited"}
        /\ main' = "exited" => worker \in {"none", "dead"}
    BY DEF MainStep, Drain, Drained, Exit, ExtractInline, ClosingSteps
  <1> DEFINE Rest ==
            /\ facts' \subseteq Heard
            /\ status' \in [Turns -> {"none", "pending", "done", "structured", "skipped"}]
            /\ spent' \in [{"failures", "opens", "crashes"} -> Nat]
            /\ spent'.opens = spent.opens
  <1>3. Rest
    <2>1. CASE Drain \/ Drained \/ Exit
      BY <2>1, <1>0 DEF Drain, Drained, Exit, table, QueueTypes
    <2>2. ASSUME NEW t \in Turns, NEW written \in BOOLEAN, ExtractInline(t, written)
          PROVE  Rest
      <3>1. t \in Heard
        BY <2>2, <1>0 DEF ExtractInline, Turns, Heard
      <3>2. facts' \subseteq Heard
        BY <3>1, <2>2, <1>0 DEF ExtractInline, QueueTypes
      <3>3. status' \in [Turns -> {"none", "pending", "done", "structured", "skipped"}]
        BY <2>2, <1>0 DEF ExtractInline, QueueTypes
      <3>4. spent' \in [{"failures", "opens", "crashes"} -> Nat] /\ spent'.opens = spent.opens
        BY <2>2, <1>0 DEF ExtractInline, Happens, QueueTypes
      <3> QED
        BY <3>2, <3>3, <3>4
    <2> QED
      BY <2>1, <2>2 DEF MainStep
  <1>4. QueueTypes'
    BY <1>0, <1>1, <1>2, <1>3 DEF QueueTypes, MainSteps
  <1>5. WorkerInv' /\ MainInv'
    BY <1>0, <1>1, <1>2, <1>3 DEF WorkerInv, MainInv, ClosingSteps
  <1>6. \E rest \in Seq(Heard') : BacklogIs(rest)'
    <2>1. InHand' = InHand /\ (main \in ClosingSteps => main' \in ClosingSteps)
      BY <1>1, <1>2 DEF InHand, ClosingSteps
    <2> QED
      BY <1>0, <1>1, <2>1, SameBacklog DEF QueueTypes
  <1> QED
    BY <1>0, <1>1, <1>4, <1>5, <1>6 DEF QueueInv

LEMMA StoreKeepsQueue == QueueInv /\ (StoreTurn \/ StoreInline) => QueueInv'
  <1> SUFFICES ASSUME QueueInv, StoreTurn \/ StoreInline PROVE QueueInv'
    OBVIOUS
  <1>0. QueueTypes /\ WorkerInv /\ MainInv /\ unfinished = Len(q) + Len(taken)
    BY DEF QueueInv
  <1>1. /\ UNCHANGED <<facts, q, taken, unfinished, put, tried, spent>>
        /\ main = "serving" /\ stored < MaxTurns /\ stored' = stored + 1
        /\ status' = [status EXCEPT ![stored + 1] = "pending"]
        /\ main' \in {"enqueue", "inline"} /\ (main' = "enqueue" => worker' # "none")
        /\ worker' = worker \/ (worker = "none" /\ worker' = "opening")
    BY DEF StoreTurn, StoreInline, StartQueue, history
  <1>2. stored' \in {stored, stored + 1} /\ stored' <= MaxTurns /\ stored \in Nat
    BY <1>0, <1>1, BoundsAssumption DEF QueueTypes
  <1>3. /\ Heard \subseteq Heard' /\ stored' \in 0 .. MaxTurns
        /\ \A s \in Seq(Heard) : s \in Seq(Heard')
        /\ \A s \in Seq(Heard \cup {Shutdown}) : s \in Seq(Heard' \cup {Shutdown})
        /\ facts \subseteq Heard'
    BY <1>0, <1>2, HeardGrows
  <1>4. QueueTypes'
    <2>1. status' \in [Turns -> {"none", "pending", "done", "structured", "skipped"}]
      BY <1>0, <1>1 DEF QueueTypes
    <2> QED
      BY <2>1, <1>0, <1>1, <1>3 DEF QueueTypes, MainSteps, WorkerSteps
  <1>5. WorkerInv'
    BY <1>0, <1>1, <1>3 DEF WorkerInv, ClosingSteps
  <1>6. MainInv'
    BY <1>1, <1>2 DEF MainInv
  <1>7. \E rest \in Seq(Heard') : BacklogIs(rest)'
    <2>1. InHand' = InHand /\ (main \in ClosingSteps => main' \in ClosingSteps)
      BY <1>1 DEF InHand, ClosingSteps
    <2> QED
      BY <1>1, <1>2, <2>1, SameBacklog
  <1> QED
    BY <1>0, <1>1, <1>4, <1>5, <1>6, <1>7 DEF QueueInv

LEMMA EnqueueKeepsQueue == QueueInv /\ Enqueue => QueueInv'
  <1> SUFFICES ASSUME QueueInv, Enqueue PROVE QueueInv'
    OBVIOUS
  <1>0. QueueTypes /\ WorkerInv /\ MainInv /\ unfinished = Len(q) + Len(taken)
    BY DEF QueueInv
  <1>1. /\ UNCHANGED <<stored, status, facts, worker, taken, tried, spent>>
        /\ main = "enqueue" /\ main' = "serving" /\ Heard' = Heard
        /\ q' = Append(q, stored) /\ put' = Append(put, stored) /\ unfinished' = unfinished + 1
    BY DEF Enqueue, Enqueued, table, Heard
  <1>2. stored \in Heard /\ stored \in Heard \cup {Shutdown}
    BY <1>0, <1>1 DEF MainInv, QueueTypes, Heard
  <1>3. /\ q' \in Seq(Heard \cup {Shutdown}) /\ Len(q') = Len(q) + 1
        /\ put' \in Seq(Heard) /\ Len(q) \in Nat /\ Len(taken) \in Nat
    <2>1. q \in Seq(Heard \cup {Shutdown}) /\ taken \in Seq(Heard \cup {Shutdown})
      BY <1>0 DEF QueueTypes
    <2>2. put \in Seq(Heard)
      BY <1>0 DEF QueueTypes
    <2>3. q' \in Seq(Heard \cup {Shutdown}) /\ Len(q') = Len(q) + 1
      BY <2>1, <1>1, <1>2, AppendProperties, Zenon
    <2>4. put' \in Seq(Heard)
      BY <2>2, <1>1, <1>2, AppendProperties, Zenon
    <2> QED
      BY <2>1, <2>3, <2>4, LenProperties
  <1>4. QueueTypes'
    BY <1>0, <1>1, <1>3 DEF QueueTypes, MainSteps
  <1>5. /\ WorkerInv' /\ MainInv'
    BY <1>0, <1>1 DEF WorkerInv, MainInv, ClosingSteps
  <1>6. PICK rest \in Seq(Heard) : BacklogIs(rest)
    BY DEF QueueInv
  <1>7. q = rest /\ put = tried \o (InHand \o rest) /\ tried \in Seq(Heard) /\ InHand \in Seq(Heard)
    BY <1>0, <1>1, <1>6 DEF BacklogIs, ClosingSteps, InHand, WorkerInv, QueueTypes
  <1>8. put' = tried \o (InHand \o Append(rest, stored)) /\ Append(rest, stored) \in Seq(Heard)
    <2>0. <<stored>> \in Seq(Heard)
      BY <1>2
    <2>1. PICK x \in Seq(Heard) : x = <<stored>>
      BY <2>0
    <2>2. InHand \o rest \in Seq(Heard) /\ Append(rest, stored) = rest \o x
          /\ Append(rest, stored) \in Seq(Heard)
      BY <2>1, <1>2, <1>6, <1>7, ConcatProperties, AppendProperties, AppendIsConcat
    <2>3. put' = (tried \o (InHand \o rest)) \o x
      BY <2>1, <1>0, <1>1, <1>2, <1>7, AppendIsConcat DEF QueueTypes
    <2>4. (tried \o (InHand \o rest)) \o x = tried \o ((InHand \o rest) \o x)
      BY <2>1, <2>2, <1>7, ConcatAssociative
    <2>5. (InHand \o rest) \o x = InHand \o (rest \o x)
      BY <2>1, <1>6, <1>7, ConcatAssociative
    <2> QED
      BY <2>2, <2>3, <2>4, <2>5
  <1>9. PICK more \in Seq(Heard) : more = Append(rest, stored)
    BY <1>8
  <1>10. BacklogIs(more)'
    <2>1. InHand' = InHand
      BY <1>1 DEF InHand
    <2> QED
      BY <2>1, <1>1, <1>7, <1>8, <1>9 DEF BacklogIs
  <1>11. \E r \in Seq(Heard') : BacklogIs(r)'
    BY <1>1, <1>9, <1>10
  <1> QED
    BY <1>0, <1>1, <1>3, <1>4, <1>5, <1>11 DEF QueueInv

LEMMA CloseKeepsQueue == QueueInv /\ CloseQueue => QueueInv'
  <1> SUFFICES ASSUME QueueInv, CloseQueue PROVE QueueInv'
    OBVIOUS
  <1>0. QueueTypes /\ WorkerInv /\ MainInv /\ unfinished = Len(q) + Len(taken)
    BY DEF QueueInv
  <1>1. /\ UNCHANGED <<stored, status, facts, worker, taken, put, tried, spent>>
        /\ main = "serving" /\ worker # "none" /\ main' = "closing" /\ Heard' = Heard
        /\ q' = Append(q, Shutdown) /\ unfinished' = unfinished + 1
    BY DEF CloseQueue, Enqueued, table, history, Heard
  <1>2. /\ q' \in Seq(Heard \cup {Shutdown}) /\ Len(q') = Len(q) + 1
        /\ Len(q) \in Nat /\ Len(taken) \in Nat
    <2>1. q \in Seq(Heard \cup {Shutdown}) /\ taken \in Seq(Heard \cup {Shutdown})
          /\ Shutdown \in Heard \cup {Shutdown}
      BY <1>0 DEF QueueTypes
    <2>2. q' \in Seq(Heard \cup {Shutdown}) /\ Len(q') = Len(q) + 1
      BY <2>1, <1>1, AppendProperties, Zenon
    <2> QED
      BY <2>1, <2>2, LenProperties
  <1>3. QueueTypes'
    BY <1>0, <1>1, <1>2 DEF QueueTypes, MainSteps
  <1>4. WorkerInv' /\ MainInv'
    BY <1>0, <1>1 DEF WorkerInv, MainInv, ClosingSteps
  <1>5. PICK rest \in Seq(Heard) : BacklogIs(rest)
    BY DEF QueueInv
  <1>6. BacklogIs(rest)'
    BY <1>1, <1>5 DEF BacklogIs, ClosingSteps, InHand
  <1> QED
    BY <1>0, <1>1, <1>2, <1>3, <1>4, <1>5, <1>6 DEF QueueInv

\* The steps at which the worker neither takes an item nor lays one down.
LEMMA WorkingKeepsQueue == QueueInv /\ (Open \/ OpenFails \/ WriteFacts) => QueueInv'
  <1> SUFFICES ASSUME QueueInv, Open \/ OpenFails \/ WriteFacts PROVE QueueInv'
    OBVIOUS
  <1>0. QueueTypes /\ WorkerInv /\ MainInv /\ unfinished = Len(q) + Len(taken)
    BY DEF QueueInv
  <1>1. /\ UNCHANGED <<stored, status, main, q, taken, unfinished, put, tried>> /\ Heard' = Heard
        /\ <<worker, worker'>> \in {<<"opening", "getting">>, <<"opening", "dead">>, <<"extracting", "wrote">>}
    BY DEF Open, OpenFails, WriteFacts, Worker, table, history, Heard
  <1>2. /\ spent' \in [{"failures", "opens", "crashes"} -> Nat]
        /\ worker' = "dead" => spent'.opens > 0
    BY <1>0 DEF Open, OpenFails, WriteFacts, Worker, Happens, QueueTypes
  <1>3. facts' \subseteq Heard
    <2>1. CASE WriteFacts
      <3>1. PICK t \in Heard : taken = <<t>>
        BY <2>1, <1>0 DEF WriteFacts, Worker, WorkerInv
      <3> QED
        BY <3>1, <2>1, <1>0 DEF WriteFacts, QueueTypes
    <2>2. CASE Open \/ OpenFails
      BY <2>2, <1>0 DEF Open, OpenFails, table, QueueTypes
    <2> QED
      BY <2>1, <2>2
  <1>4. QueueTypes'
    BY <1>0, <1>1, <1>2, <1>3 DEF QueueTypes, WorkerSteps
  <1>5. WorkerInv' /\ MainInv'
    BY <1>0, <1>1, <1>2 DEF WorkerInv, MainInv, ClosingSteps
  <1>6. \E rest \in Seq(Heard') : BacklogIs(rest)'
    <2>1. InHand' = InHand
      BY <1>0, <1>1 DEF InHand, WorkerInv
    <2> QED
      BY <1>0, <1>1, <2>1, SameBacklog, BoundsAssumption DEF QueueTypes
  <1> QED
    BY <1>0, <1>1, <1>4, <1>5, <1>6 DEF QueueInv

LEMMA GetKeepsQueue == QueueInv /\ Get => QueueInv'
  <1> SUFFICES ASSUME QueueInv, Get PROVE QueueInv'
    OBVIOUS
  <1>0. QueueTypes /\ WorkerInv /\ MainInv /\ unfinished = Len(q) + Len(taken)
    BY DEF QueueInv
  <1>1. /\ UNCHANGED <<stored, status, facts, main, unfinished, put, tried, spent>> /\ Heard' = Heard
        /\ q # <<>> /\ taken' = <<Head(q)>> /\ q' = Tail(q)
        /\ worker = "getting" /\ worker' = IF Head(q) = Shutdown THEN "task_done" ELSE "extracting"
    BY DEF Get, Worker, table, history, Heard
  <1>2. /\ Head(q) \in Heard \cup {Shutdown} /\ q' \in Seq(Heard \cup {Shutdown})
        /\ Len(q') = Len(q) - 1 /\ Len(q) \in Nat
    <2>1. q \in Seq(Heard \cup {Shutdown})
      BY <1>0 DEF QueueTypes
    <2> QED
      BY <2>1, <1>1, HeadTailProperties, LenProperties, Zenon
  <1>3. PICK rest \in Seq(Heard) : BacklogIs(rest)
    BY DEF QueueInv
  <1>4. taken = <<>> /\ InHand = <<>> /\ put = tried \o rest
    BY <1>0, <1>1, <1>3, ConcatEmptySeq DEF WorkerInv, InHand, BacklogIs
  <1>5. unfinished' = Len(q') + Len(taken')
    BY <1>0, <1>1, <1>2, <1>4
  <1>6. QueueTypes'
    BY <1>0, <1>1, <1>2 DEF QueueTypes, WorkerSteps
  <1>7. MainInv'
    BY <1>0, <1>1 DEF MainInv
  <1>8. CASE rest = <<>>
    <2>1. q = <<Shutdown>> /\ main \in ClosingSteps
      BY <1>8, <1>1, <1>3 DEF BacklogIs
    <2>2. q' = <<>> /\ Head(q) = Shutdown
      BY <2>1, <1>1
    <2>3. worker' = "task_done" /\ taken' = <<Shutdown>> /\ InHand' = <<>>
      BY <2>2, <1>1 DEF InHand
    <2>4. WorkerInv'
      BY <2>1, <2>2, <2>3, <1>1 DEF WorkerInv
    <2>5. BacklogIs(rest)'
      BY <2>2, <2>3, <1>1, <1>4, <1>8, ConcatEmptySeq DEF BacklogIs
    <2> QED
      BY <2>4, <2>5, <1>1, <1>3, <1>5, <1>6, <1>7 DEF QueueInv
  <1>9. CASE rest # <<>>
    <2>1. rest = <<Head(rest)>> \o Tail(rest) /\ Head(rest) \in Heard /\ Tail(rest) \in Seq(Heard)
      BY <1>9, <1>3, FirstAndRest
    <2>2. /\ Head(q) = Head(rest)
          /\ \/ q' = Tail(rest)
             \/ q' = Append(Tail(rest), Shutdown) /\ main \in ClosingSteps
      BY <1>9, <1>1, <1>3, HeadTailAppend DEF BacklogIs
    <2>3. Head(rest) # Shutdown
      BY <2>1, <1>0 DEF Heard, Shutdown, QueueTypes
    <2>4. worker' = "extracting" /\ taken' = <<Head(rest)>> /\ InHand' = <<Head(rest)>>
      BY <2>2, <2>3, <1>1 DEF InHand
    <2>5. WorkerInv'
      BY <2>1, <2>3, <2>4, <1>1 DEF WorkerInv
    <2>6. PICK r \in Seq(Heard) : r = Tail(rest)
      BY <2>1
    <2>7. BacklogIs(r)'
      BY <2>1, <2>2, <2>4, <2>6, <1>1, <1>4 DEF BacklogIs
    <2> QED
      BY <2>5, <2>6, <2>7, <1>1, <1>5, <1>6, <1>7 DEF QueueInv
  <1> QED
    BY <1>8, <1>9

\* A job in hand is laid down as tried, and its item stays with the worker
\* until it is marked as done.
LEMMA JobEndKeepsQueue == QueueInv /\ (Finish \/ ExtractionFails) => QueueInv'
  <1> SUFFICES ASSUME QueueInv, Finish \/ ExtractionFails PROVE QueueInv'
    OBVIOUS
  <1>0. QueueTypes /\ WorkerInv /\ MainInv /\ unfinished = Len(q) + Len(taken)
    BY DEF QueueInv
  <1>1. /\ UNCHANGED <<stored, facts, main, q, taken, unfinished, put>> /\ Heard' = Heard
        /\ worker \in {"extracting", "wrote"} /\ worker' = "task_done"
        /\ tried' = Append(tried, taken[1])
    BY DEF Finish, ExtractionFails, Worker, table, Heard
  <1>2. PICK t \in Heard : taken = <<t>>
    BY <1>0, <1>1 DEF WorkerInv
  <1>3. /\ spent' \in [{"failures", "opens", "crashes"} -> Nat]
        /\ status' \in [Turns -> {"none", "pending", "done", "structured", "skipped"}]
    BY <1>0 DEF Finish, ExtractionFails, Happens, table, QueueTypes
  <1>4. tried' = Append(tried, t) /\ tried' \in Seq(Heard)
    BY <1>0, <1>1, <1>2, AppendProperties DEF QueueTypes
  <1>5. QueueTypes'
    BY <1>0, <1>1, <1>3, <1>4 DEF QueueTypes, WorkerSteps
  <1>6. t # Shutdown
    BY <1>0 DEF Heard, Shutdown, QueueTypes
  <1>7. WorkerInv' /\ MainInv'
    BY <1>0, <1>1, <1>2, <1>6 DEF WorkerInv, MainInv
  <1>8. PICK rest \in Seq(Heard) : BacklogIs(rest)
    BY DEF QueueInv
  <1>9. InHand = <<t>> /\ InHand' = <<>> /\ put = tried \o (<<t>> \o rest)
    BY <1>1, <1>2, <1>8 DEF InHand, BacklogIs
  <1>10. put = tried' \o rest /\ <<>> \o rest = rest
    <2>1. \A s, r \in Seq(Heard), x \in Heard : Append(s, x) \o r = s \o (<<x>> \o r)
      BY MovedAcross
    <2>2. tried \in Seq(Heard)
      BY <1>0 DEF QueueTypes
    <2>3. put = tried' \o rest
      BY <2>1, <2>2, <1>2, <1>4, <1>8, <1>9, Zenon
    <2> QED
      BY <2>3, <1>8, ConcatEmptySeq
  <1>11. BacklogIs(rest)'
    BY <1>1, <1>8, <1>9, <1>10 DEF BacklogIs
  <1> QED
    BY <1>0, <1>1, <1>5, <1>7, <1>8, <1>11 DEF QueueInv

LEMMA TaskDoneKeepsQueue == QueueInv /\ TaskDone => QueueInv'
  <1> SUFFICES ASSUME QueueInv, TaskDone PROVE QueueInv'
    OBVIOUS
  <1>0. QueueTypes /\ WorkerInv /\ MainInv /\ unfinished = Len(q) + Len(taken)
    BY DEF QueueInv
  <1>1. /\ UNCHANGED <<stored, status, facts, main, q, put, tried, spent>> /\ Heard' = Heard
        /\ worker = "task_done" /\ taken' = <<>> /\ unfinished' = unfinished - 1
        /\ worker' = IF taken[1] = Shutdown THEN "dead" ELSE "getting"
    BY DEF TaskDone, Worker, table, history, Heard
  <1>2. PICK item \in Heard \cup {Shutdown} : taken = <<item>>
    BY <1>0, <1>1 DEF WorkerInv
  <1>3. QueueTypes'
    BY <1>0, <1>1 DEF QueueTypes, WorkerSteps
  <1>4. worker' \in {"dead", "getting"} /\ (worker' = "dead" => taken = <<Shutdown>>)
    BY <1>1, <1>2
  <1>5. WorkerInv'
    BY <1>0, <1>1, <1>4 DEF WorkerInv
  <1>6. MainInv'
    BY <1>0, <1>1, <1>4 DEF MainInv
  <1>7. unfinished' = Len(q') + Len(taken')
    BY <1>0, <1>1, <1>2 DEF QueueTypes
  <1>8. \E rest \in Seq(Heard') : BacklogIs(rest)'
    <2>1. InHand' = InHand
      BY <1>1, <1>4 DEF InHand
    <2> QED
      BY <1>0, <1>1, <2>1, SameBacklog, BoundsAssumption DEF QueueTypes
  <1> QED
    BY <1>3, <1>5, <1>6, <1>7, <1>8 DEF QueueInv

LEMMA DeathKeepsQueue == QueueInv /\ ProcessDies => QueueInv'
  <1> SUFFICES ASSUME QueueInv, ProcessDies PROVE QueueInv'
    OBVIOUS
  <1>1. /\ UNCHANGED <<stored, status, facts>> /\ Heard' = Heard
        /\ main' = "serving" /\ worker' = "none" /\ q' = <<>> /\ taken' = <<>>
        /\ unfinished' = 0 /\ put' = <<>> /\ tried' = <<>>
    BY DEF ProcessDies, table, Heard
  <1>2. spent' \in [{"failures", "opens", "crashes"} -> Nat]
    BY DEF QueueInv, QueueTypes, ProcessDies, Happens
  <1>3. QueueTypes'
    BY <1>1, <1>2 DEF QueueInv, QueueTypes, MainSteps, WorkerSteps
  <1>4. WorkerInv' /\ MainInv'
    BY <1>1 DEF WorkerInv, MainInv
  <1>5. \E rest \in Seq(Heard') : BacklogIs(rest)'
    <2>0. <<>> \in Seq(Heard')
      BY EmptySeq
    <2>1. PICK rest \in Seq(Heard') : rest = <<>>
      BY <2>0
    <2>2. BacklogIs(rest)'
      BY <2>1, <1>1 DEF BacklogIs, InHand
    <2> QED
      BY <2>2
  <1>6. unfinished' = Len(q') + Len(taken')
    BY <1>1
  <1> QED
    BY <1>3, <1>4, <1>5, <1>6 DEF QueueInv

LEMMA QueueInvStep == QueueInv /\ QueueStep => QueueInv'
  <1> SUFFICES ASSUME QueueInv, QueueStep PROVE QueueInv'
    OBVIOUS
  <1>1. CASE UNCHANGED queueVars
    <2>1. UNCHANGED <<stored, status, facts, main, worker, q, taken, unfinished, put, tried, spent>>
      BY <1>1 DEF queueVars
    <2>2. QueueTypes' /\ WorkerInv' /\ MainInv' /\ unfinished' = Len(q') + Len(taken')
      BY <2>1 DEF QueueInv, QueueTypes, WorkerInv, MainInv, Heard
    <2>3. \E rest \in Seq(Heard') : BacklogIs(rest)'
      BY <2>1 DEF QueueInv, BacklogIs, InHand, Heard
    <2> QED
      BY <2>2, <2>3 DEF QueueInv
  <1> QED
    BY <1>1, StoreKeepsQueue, EnqueueKeepsQueue, CloseKeepsQueue, MainStepKeepsQueue,
       WorkingKeepsQueue, GetKeepsQueue, JobEndKeepsQueue, TaskDoneKeepsQueue, DeathKeepsQueue
    DEF QueueStep, MainNext, MainStep

\* ExtractionQueue: what was enqueued is what the worker tried, has in hand or
\* still finds in the queue, in the order it was enqueued.
THEOREM QueueInvHolds == ExtractionSpec => []QueueInv
  <1>1. ExtractionInit => QueueInv
    BY QueueInvInit DEF ExtractionInit
  <1>2. QueueInv /\ [ExtractionNext]_allvars => QueueInv'
    BY QueueInvStep, ExtractionStepsQueue
  <1> QED
    BY <1>1, <1>2, PTL DEF ExtractionSpec

\* ThreadedQueue.close: an exit through it leaves no job behind, however the
\* two threads interleave, unless the worker never started.
THEOREM CloseWorksOffBacklogHolds == ExtractionSpec => []CloseWorksOffBacklog
  <1>1. QueueInv => CloseWorksOffBacklog
    <2> SUFFICES ASSUME QueueInv, main = "exited", spent.opens = 0 PROVE tried = put
      BY DEF CloseWorksOffBacklog
    <2>1. CASE worker = "none"
      BY <2>1 DEF QueueInv, WorkerInv
    <2>2. CASE worker = "dead"
      <3>1. q = <<>> /\ InHand = <<>>
        BY <2>2 DEF QueueInv, QueueTypes, WorkerInv, InHand
      <3>2. PICK rest \in Seq(Heard) : BacklogIs(rest)
        BY DEF QueueInv
      <3>3. rest = <<>>
        BY <3>1, <3>2, AppendProperties DEF BacklogIs
      <3> QED
        BY <3>1, <3>2, <3>3, ConcatEmptySeq DEF BacklogIs, QueueInv, QueueTypes
    <2> QED
      BY <2>1, <2>2 DEF QueueInv, MainInv
  <1> QED
    BY <1>1, QueueInvHolds, PTL

-----------------------------------------------------------------------------
(* The extractor's questions and answers. *)

Questions == {Question(t, Prior(t)) : t \in Turns}

\* The call under way is about the turn in hand, and nothing but what was said
\* before it in its own conversation.
AskInv ==
    \/ asking = NotAsking
    \/ /\ worker \in {"extracting", "wrote"}
       /\ \/ asking \in [at : {"ask"}, attempt : Nat, question : Questions]
          \/ asking \in [at : {"answered"}, question : Questions, claims : BOOLEAN]
       /\ asking.question = Question(taken[1], Prior(taken[1]))

CacheInv == DOMAIN cache \subseteq Questions /\ \A k \in DOMAIN cache : cache[k] \in BOOLEAN

\* What is asked of a turn: with its context, or by itself.
AskedOf(t) == {Question(t, Prior(t)), Question(t, {})}
Asked == UNION {AskedOf(t) : t \in Turns}

SourceInv ==
    /\ source \in [Turns -> Asked \cup {NoQuestion}]
    /\ \A t \in Turns : t \in facts <=> source[t] # NoQuestion
    /\ \A t \in facts : source[t] \in AskedOf(t)

ExtractionInv ==
    /\ QueueInv /\ AskInv /\ CacheInv /\ SourceInv
    /\ chosen \in {"none", "llm", "simple"}

LEMMA QuestionsAreAsked ==
    ASSUME NEW t, NEW prior
    PROVE  /\ Question(t, prior) # NoQuestion
           /\ Question(t, prior).turn = TextOf[t] /\ Question(t, prior).shown = prior
  BY DEF Question, NoQuestion

LEMMA ExtractionInvInit == ExtractionInit => ExtractionInv
  <1> SUFFICES ASSUME ExtractionInit PROVE ExtractionInv
    OBVIOUS
  <1>1. QueueInv
    BY QueueInvInit DEF ExtractionInit
  <1>2. AskInv /\ CacheInv /\ chosen \in {"none", "llm", "simple"}
    BY DEF ExtractionInit, AskInv, CacheInv
  <1>3. SourceInv
    <2>1. source = [t \in Turns |-> NoQuestion] /\ facts = {}
      BY DEF ExtractionInit, QueueInit
    <2>2. \A t \in Turns : source[t] = NoQuestion
      BY <2>1
    <2>3. source \in [Turns -> Asked \cup {NoQuestion}]
      BY <2>1
    <2> QED
      BY <2>1, <2>2, <2>3 DEF SourceInv
  <1> QED
    BY <1>1, <1>2, <1>3 DEF ExtractionInv

\* A step that leaves the turn in hand, the claims and the extractor alone.
LEMMA SameExtraction ==
    ASSUME AskInv, CacheInv, SourceInv, UNCHANGED <<asking, cache, source, facts>>,
           asking = NotAsking \/ UNCHANGED <<worker, taken>>
    PROVE  AskInv' /\ CacheInv' /\ SourceInv'
  <1>1. CacheInv' /\ SourceInv'
    BY DEF CacheInv, SourceInv
  <1>2. AskInv'
    BY DEF AskInv
  <1> QED
    BY <1>1, <1>2

\* The steps of a call: nothing but asking and cache change.
LEMMA CallKeepsExtraction == ExtractionInv /\ ExtractorNext => AskInv' /\ CacheInv' /\ SourceInv'
  <1> SUFFICES ASSUME ExtractionInv, ExtractorNext PROVE AskInv' /\ CacheInv' /\ SourceInv'
    OBVIOUS
  <1>0. QueueTypes /\ WorkerInv /\ AskInv /\ CacheInv /\ SourceInv
    BY DEF ExtractionInv, QueueInv
  <1>1. UNCHANGED <<queueVars, source>> /\ UNCHANGED <<stored, facts, worker, taken>>
    BY DEF ExtractorNext, ReadContext, FromCache, Throttled, ModelFails, ModelAnswers, queueVars
  <1>2. SourceInv'
    BY <1>0, <1>1 DEF SourceInv
  <1>3. CASE ReadContext
    <2>1. PICK t \in Heard : taken = <<t>>
      BY <1>0, <1>3 DEF ReadContext, WorkerInv
    <2>2. t \in Turns
      BY <2>1, <1>0, BoundsAssumption DEF Heard, Turns, QueueTypes
    <2>3. /\ asking' = [at |-> "ask", attempt |-> 0, question |-> Question(t, Prior(t))]
          /\ worker = "extracting" /\ cache' = cache
      BY <2>1, <1>3 DEF ReadContext
    <2>4. Question(t, Prior(t)) \in Questions
      BY <2>2 DEF Questions
    <2>5. AskInv'
      BY <2>1, <2>3, <2>4, <1>1 DEF AskInv
    <2> QED
      BY <2>3, <2>5, <1>0, <1>2 DEF CacheInv
  <1>4. CASE asking.at = "ask" /\ ~ReadContext
    <2>1. /\ asking \in [at : {"ask"}, attempt : Nat, question : Questions]
          /\ worker \in {"extracting", "wrote"}
          /\ asking.question = Question(taken[1], Prior(taken[1]))
      BY <1>0, <1>4 DEF AskInv, NotAsking
    <2>2. ASSUME NEW found \in BOOLEAN, Answered(found) PROVE AskInv'
      BY <2>1, <2>2, <1>1 DEF Answered, AskInv
    <2>3. CASE FromCache
      <3>1. cache[asking.question] \in BOOLEAN /\ Answered(cache[asking.question]) /\ cache' = cache
        BY <2>3, <1>0 DEF FromCache, CacheInv
      <3> QED
        BY <3>1, <2>2, <1>0, <1>2 DEF CacheInv
    <2>4. CASE Throttled
      <3>1. cache' = cache
        BY <2>4 DEF Throttled
      <3>2. CASE asking' = [asking EXCEPT !.attempt = @ + 1]
        BY <3>1, <3>2, <2>1, <1>0, <1>1, <1>2 DEF AskInv, CacheInv
      <3>3. CASE Answered(FALSE)
        BY <3>1, <3>3, <2>2, <1>0, <1>2 DEF CacheInv
      <3> QED
        BY <3>2, <3>3, <2>4 DEF Throttled
    <2>5. CASE ModelFails
      BY <2>5, <2>2, <1>0, <1>2 DEF ModelFails, CacheInv
    <2>6. ASSUME NEW answer \in BOOLEAN, ModelAnswers(answer) PROVE AskInv' /\ CacheInv'
      <3>1. /\ Answered(answer)
            /\ cache' = [k \in DOMAIN cache \cup {asking.question} |->
                            IF k = asking.question THEN answer ELSE cache[k]]
        BY <2>6 DEF ModelAnswers
      <3>2. CacheInv'
        BY <3>1, <2>1, <1>0 DEF CacheInv
      <3> QED
        BY <3>1, <3>2, <2>2
    <2> QED
      BY <2>3, <2>4, <2>5, <2>6, <1>2, <1>4 DEF ExtractorNext
  <1> QED
    BY <1>3, <1>4 DEF ExtractorNext, FromCache, Throttled, ModelFails, ModelAnswers, Asks

\* A claim's source is what was asked of its turn.
LEMMA WriteKeepsExtraction == ExtractionInv /\ WriteClaims => AskInv' /\ CacheInv' /\ SourceInv'
  <1> SUFFICES ASSUME ExtractionInv, WriteClaims PROVE AskInv' /\ CacheInv' /\ SourceInv'
    OBVIOUS
  <1>0. QueueTypes /\ WorkerInv /\ AskInv /\ CacheInv /\ SourceInv
    BY DEF ExtractionInv, QueueInv
  <1>1. /\ UNCHANGED <<asking, cache, taken>> /\ asking.at = "answered"
        /\ worker = "extracting" /\ worker' = "wrote" /\ facts' = facts \cup {taken[1]}
        /\ source' = [source EXCEPT ![taken[1]] = asking.question]
    BY DEF WriteClaims, WriteFacts, Worker
  <1>2. PICK t \in Heard : taken = <<t>>
    BY <1>0, <1>1 DEF WorkerInv
  <1>3. t \in Turns /\ taken[1] = t
    BY <1>2, <1>0, BoundsAssumption DEF Heard, Turns, QueueTypes
  <1>4. asking.question = Question(t, Prior(t)) /\ asking.question \in AskedOf(t)
        /\ asking.question # NoQuestion
    BY <1>0, <1>1, <1>3, QuestionsAreAsked DEF AskInv, NotAsking, AskedOf
  <1>5. AskInv' /\ CacheInv'
    BY <1>0, <1>1 DEF AskInv, CacheInv
  <1>6. SourceInv'
    <2>1. source' \in [Turns -> Asked \cup {NoQuestion}]
      <3>1. asking.question \in Asked
        BY <1>3, <1>4 DEF Asked
      <3> QED
        BY <3>1, <1>0, <1>1, <1>3 DEF SourceInv
    <2>2. \A u \in Turns : source'[u] = IF u = t THEN asking.question ELSE source[u]
      BY <1>0, <1>1, <1>3 DEF SourceInv
    <2>3. \A u \in Turns : u \in facts' <=> source'[u] # NoQuestion
      BY <2>2, <1>0, <1>1, <1>3, <1>4 DEF SourceInv
    <2>4. \A u \in facts' : u \in Turns /\ source'[u] \in AskedOf(u)
      <3>1. facts \subseteq Turns
        BY <1>0, BoundsAssumption DEF QueueTypes, Heard, Turns
      <3> QED
        BY <3>1, <2>2, <1>0, <1>1, <1>3, <1>4 DEF SourceInv
    <2> QED
      BY <2>1, <2>3, <2>4 DEF SourceInv
  <1> QED
    BY <1>5, <1>6

LEMMA InlineKeepsExtraction == ExtractionInv /\ InlineNext => AskInv' /\ CacheInv' /\ SourceInv'
  <1> SUFFICES ASSUME ExtractionInv, NEW t \in Turns, NEW written \in BOOLEAN, ExtractInline(t, written)
               PROVE  AskInv' /\ CacheInv' /\ SourceInv'
    BY DEF InlineNext
  <1>0. QueueTypes /\ AskInv /\ CacheInv /\ SourceInv
    BY DEF ExtractionInv, QueueInv
  <1>1. UNCHANGED <<asking, cache, worker, taken>>
    BY DEF ExtractInline
  <1>2. AskInv' /\ CacheInv'
    BY <1>0, <1>1 DEF AskInv, CacheInv
  <1>3. CASE UNCHANGED <<facts, source>>
    BY <1>0, <1>2, <1>3 DEF SourceInv
  <1>4. CASE facts' = facts \cup {t} /\ source' = [source EXCEPT ![t] = Question(t, {})]
    <2>1. Question(t, {}) \in AskedOf(t) /\ Question(t, {}) # NoQuestion
      BY QuestionsAreAsked DEF AskedOf
    <2>2. source' \in [Turns -> Asked \cup {NoQuestion}]
      <3>1. Question(t, {}) \in Asked
        BY <2>1 DEF Asked
      <3> QED
        BY <3>1, <1>0, <1>4 DEF SourceInv
    <2>3. \A u \in Turns : source'[u] = IF u = t THEN Question(t, {}) ELSE source[u]
      BY <1>0, <1>4 DEF SourceInv
    <2>4. \A u \in Turns : u \in facts' <=> source'[u] # NoQuestion
      BY <2>1, <2>3, <1>0, <1>4 DEF SourceInv
    <2>5. facts \subseteq Turns
      BY <1>0, BoundsAssumption DEF QueueTypes, Heard, Turns
    <2>6. \A u \in facts' : source'[u] \in AskedOf(u)
      BY <2>1, <2>3, <2>5, <1>0, <1>4 DEF SourceInv
    <2> QED
      BY <1>2, <2>2, <2>4, <2>6 DEF SourceInv
  <1> QED
    BY <1>3, <1>4 DEF ExtractInline

\* The steps after which no call is under way.
LEMMA EndKeepsExtraction ==
    ExtractionInv /\ (Conclude \/ JobFails \/ CrashAndForget) => AskInv' /\ CacheInv' /\ SourceInv'
  <1> SUFFICES ASSUME ExtractionInv, Conclude \/ JobFails \/ CrashAndForget
               PROVE  AskInv' /\ CacheInv' /\ SourceInv'
    OBVIOUS
  <1>1. asking' = NotAsking /\ UNCHANGED <<source, facts>> /\ (cache' = cache \/ cache' = <<>>)
    BY DEF Conclude, JobFails, CrashAndForget, Finish, ExtractionFails, ProcessDies, table
  <1>2. AskInv' /\ SourceInv'
    BY <1>1 DEF ExtractionInv, AskInv, SourceInv
  <1>3. CacheInv'
    <2>1. CASE cache' = cache
      BY <2>1 DEF ExtractionInv, CacheInv
    <2>2. CASE cache' = <<>>
      BY <2>2 DEF CacheInv
    <2> QED
      BY <1>1, <2>1, <2>2
  <1> QED
    BY <1>2, <1>3

\* The steps of the two threads that do not concern the extractor.
LEMMA OthersKeepExtraction ==
    /\ ExtractionInv
    /\ \/ MainNext /\ UNCHANGED <<extractor, chosen>>
       \/ StoreText \/ StoreClaims
       \/ (Open \/ OpenFails \/ Get \/ TaskDone) /\ UNCHANGED <<extractor, chosen>>
       \/ UNCHANGED allvars
    => AskInv' /\ CacheInv' /\ SourceInv'
  <1> SUFFICES ASSUME ExtractionInv,
                      \/ MainNext /\ UNCHANGED <<extractor, chosen>>
                      \/ StoreText \/ StoreClaims
                      \/ (Open \/ OpenFails \/ Get \/ TaskDone) /\ UNCHANGED <<extractor, chosen>>
                      \/ UNCHANGED allvars
               PROVE  AskInv' /\ CacheInv' /\ SourceInv'
    OBVIOUS
  <1>0. AskInv /\ CacheInv /\ SourceInv
    BY DEF ExtractionInv
  <1>1. UNCHANGED <<asking, cache, source, facts>>
    BY DEF MainNext, Enqueue, Drain, Drained, CloseQueue, Exit, StoreText, StoreClaims, StoreTurn, StoreInline,
           Open, OpenFails, Get, TaskDone, extractor, allvars, queueVars, table
  <1>2. asking = NotAsking \/ UNCHANGED <<worker, taken>>
    <2>1. CASE UNCHANGED allvars \/ MainNext
      BY <2>1 DEF allvars, queueVars, MainNext, Enqueue, Drain, Drained, CloseQueue, Exit
    <2>2. CASE StoreText \/ StoreClaims
      <3>1. taken' = taken /\ (worker' = worker \/ worker = "none")
        BY <2>2 DEF StoreText, StoreClaims, StoreTurn, StoreInline, StartQueue
      <3> QED
        BY <3>1, <1>0 DEF AskInv
    <2>3. CASE Open \/ OpenFails \/ Get \/ TaskDone
      BY <2>3, <1>0 DEF Open, OpenFails, Get, TaskDone, Worker, AskInv
    <2> QED
      BY <2>1, <2>2, <2>3
  <1> QED
    BY <1>0, <1>1, <1>2, SameExtraction

LEMMA ExtractionInvStep == ExtractionInv /\ [ExtractionNext]_allvars => ExtractionInv'
  <1> SUFFICES ASSUME ExtractionInv, [ExtractionNext]_allvars PROVE ExtractionInv'
    OBVIOUS
  <1>1. QueueInv'
    BY QueueInvStep, ExtractionStepsQueue DEF ExtractionInv
  <1>2. chosen' \in {"none", "llm", "simple"}
    BY DEF ExtractionInv, ExtractionNext, JobNext, ExtractorNext, InlineNext, StoreText, StoreClaims, Uses,
           ReadContext, FromCache, Throttled, ModelFails, ModelAnswers, WriteClaims, Conclude, JobFails,
           CrashAndForget, ExtractInline, allvars
  <1>3. AskInv' /\ CacheInv' /\ SourceInv'
    BY CallKeepsExtraction, WriteKeepsExtraction, InlineKeepsExtraction, EndKeepsExtraction, OthersKeepExtraction
    DEF ExtractionNext, JobNext
  <1> QED
    BY <1>1, <1>2, <1>3 DEF ExtractionInv

\* Extraction: the model is asked about the turn in hand and nothing else, and
\* every claim's source is what was asked of its own turn.
THEOREM ExtractionInvHolds == ExtractionSpec => []ExtractionInv
  BY ExtractionInvInit, ExtractionInvStep, PTL DEF ExtractionSpec

\* The queue, its worker and the extractor keep their types; the task of no item
\* is marked done twice, which queue.Queue would refuse.
THEOREM ExtractionTypeCorrect == ExtractionSpec => []ExtractionTypeOK
  <1>1. ExtractionInv => ExtractionTypeOK
    <2> SUFFICES ASSUME ExtractionInv PROVE ExtractionTypeOK
      OBVIOUS
    <2>0. QueueInv /\ QueueTypes /\ WorkerInv /\ AskInv /\ CacheInv /\ SourceInv
      BY DEF ExtractionInv, QueueInv
    <2>1. Heard \subseteq Turns /\ Heard \cup {Shutdown} \subseteq Turns \cup {Shutdown}
      BY <2>0, BoundsAssumption DEF QueueTypes, Heard, Turns
    <2>2. /\ q \in Seq(Turns \cup {Shutdown}) /\ taken \in Seq(Turns \cup {Shutdown})
          /\ put \in Seq(Turns) /\ tried \in Seq(Turns)
      BY <2>0, <2>1, SeqMonotonic DEF QueueTypes
    <2>3. Len(taken) <= 1
      <3>1. taken = <<>> \/ \E item : taken = <<item>>
        BY <2>0 DEF WorkerInv, QueueTypes, WorkerSteps
      <3>2. CASE taken = <<>>
        BY <3>2
      <3>3. ASSUME NEW item, taken = <<item>> PROVE Len(taken) <= 1
        BY <3>3
      <3> QED
        BY <3>1, <3>2, <3>3
    <2>4. unfinished \in Nat
      BY <2>0, <2>2, LenProperties DEF QueueInv
    <2>5. QueueTypeOK
      BY <2>0, <2>2, <2>3, <2>4 DEF QueueTypes, QueueTypeOK, Heard
    <2>6. /\ asking.at \in {"none", "ask", "answered"}
          /\ asking.at # "none" => worker \in {"extracting", "wrote"}
      BY <2>0 DEF AskInv, NotAsking
    <2> QED
      BY <2>0, <2>5, <2>6 DEF ExtractionTypeOK, ExtractionInv, CacheInv, SourceInv
  <1> QED
    BY <1>1, ExtractionInvHolds, PTL

\* run_extraction and LLMExtractor: for every number of tenants and turns,
\* whatever is in the cache, no turn's claims come from another conversation's
\* words.
THEOREM OwnWordsOnlyHolds == ExtractionSpec => []OwnWordsOnly
  <1>1. ExtractionInv => OwnWordsOnly
    <2> SUFFICES ASSUME ExtractionInv, NEW t \in facts
                 PROVE  LET own == {TextOf[u] : u \in {v \in 1 .. t : SessOf[v] = SessOf[t] /\ NsOf[v] = NsOf[t]}}
                        IN /\ \A said \in source[t].shown : said[2] \in own
                           /\ source[t].turn = TextOf[t]
      BY DEF OwnWordsOnly
    <2>1. source[t] \in AskedOf(t) /\ t \in Nat
      BY BoundsAssumption DEF ExtractionInv, SourceInv, QueueInv, QueueTypes, Heard
    <2>2. source[t].turn = TextOf[t] /\ source[t].shown \in {Prior(t), {}}
      BY <2>1, QuestionsAreAsked DEF AskedOf
    <2>3. ASSUME NEW said \in Prior(t)
          PROVE  \E u \in 1 .. t : SessOf[u] = SessOf[t] /\ NsOf[u] = NsOf[t] /\ said[2] = TextOf[u]
      <3>1. PICK u \in 1 .. t - 1 : /\ SessOf[u] = SessOf[t] /\ NsOf[u] = NsOf[t]
                                   /\ \E back : said = <<back, TextOf[u]>>
        BY <2>3 DEF Prior
      <3>2. u \in 1 .. t /\ said[2] = TextOf[u]
        BY <3>1, <2>1
      <3> QED
        BY <3>1, <3>2
    <2> QED
      BY <2>2, <2>3
  <1> QED
    BY <1>1, ExtractionInvHolds, PTL
=============================================================================
