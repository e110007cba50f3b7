-------------------------- MODULE ForgettingProofs --------------------------
(***************************************************************************)
(* What forget() achieves when nothing else writes while it runs, for all  *)
(* claims, turns and bounds: when Concurrent, a claim inserted between the  *)
(* count of a turn's claims and the delete of the turn goes with it.       *)
(***************************************************************************)
EXTENDS Forgetting, TLAPS

\* Nobody else is between reading and writing while a forget is under way.
Alone == f.pc # "idle" => held = NoRow /\ embedding = {}

\* The targets that are still there are in the snapshot, and the turns to look
\* at are theirs.
Taken ==
    /\ f.targets \subseteq seen
    /\ f.targets \intersect claims \subseteq f.snap
    /\ f.snap \subseteq f.targets \intersect audited
    /\ f.tids \union f.cur \subseteq {TurnOf[c] : c \in f.snap}

\* The turn of a claim no longer tells of it.
Clean(c) == TurnOf[c] \in turns => text[TurnOf[c]] \intersect Words(c) = {}

\* A vector, written or about to be, was made of nothing its turn does not say.
Embedded ==
    \A v \in vectors \union embedding :
        v.turn \in turns /\ v.said \subseteq text[v.turn]

\* How far the forget has come: what it deleted, mapped and redacted.
Progress ==
    /\ f.pc \in Stages \ {"idle", "count"} => f.snap \subseteq claims
    /\ f.pc = "delete" => \A c \in f.snap : Words(c) \subseteq f.words[TurnOf[c]]
    /\ f.pc = "count" =>
        /\ f.targets \intersect claims = {}
        /\ \A c \in f.snap : Words(c) \subseteq f.words[TurnOf[c]] \/ Clean(c)
    /\ f.pc # "count" => f.cur = {}
    /\ \A t \in f.cur : ClaimsOf(t) = {}

\* The tables the strip has passed do not cite a target.
PastTables ==
    [digest |-> {"event", "frame", "sentence", "map", "delete"},
     frame |-> {"sentence", "map", "delete"},
     sentence |-> {"map", "delete"}]
StrippedSoFar ==
    \A r \in rows : r.kind \in DOMAIN PastTables /\ f.pc \in PastTables[r.kind] =>
        r.ids \intersect f.targets = {}

\* A row about to be written cites only claims that are there; a profile is of
\* its subject's claims and of events of its subject, and so are these.
Derived ==
    /\ \A r \in held.new : r.ids \union r.before \subseteq claims
    /\ \A r \in rows \union held.new :
        r.kind \in {"event", "profile"} =>
            \A c \in r.ids \union r.copied : SubjOf[c] = r.key

\* Of the forgotten, events tell only of those that outlived the forget, and so
\* do the profiles that copy events.
Repeated ==
    /\ \A r \in rows : r.kind = "event" => r.ids \intersect forgotten \subseteq outlived
    /\ \A r \in rows \union held.new :
        r.kind = "profile" => r.copied \intersect forgotten \subseteq outlived

\* What was ever extracted came from a turn that was stored.
History ==
    /\ \A c \in seen \intersect Claims : TurnOf[c] \in seen
    /\ forgotten \subseteq seen

-----------------------------------------------------------------------------
(* Type correctness *)

LEMMA WordsType == \A c \in Claims : Words(c) \subseteq Strings /\ TurnOf[c] \in Turns
  BY ForgettingAssumption DEF Strings

\* What builders see to: rows cite only claims that are there, events and profiles
\* those of their subject, and what a profile copies some event of its subject tells.
BuiltRow(r) ==
    /\ r.ids \union r.before \subseteq claims
    /\ r.kind \in {"event", "profile"} => \A c \in r.ids : SubjOf[c] = r.key
    /\ r.kind = "event" => r.copied = {}
    /\ r.kind = "profile" => \A c \in r.copied :
            \E e \in rows : e.kind = "event" /\ e.key = r.key /\ c \in e.ids

\* Builders make rows of the right type that cite only active claims.
LEMMA BuiltType ==
    ASSUME TypeOK, NEW k \in Keys,
           NEW new \in Digests(k) \union Frames(k) \union Sentences(k)
                        \union LifeEvents(k) \union Profiles(k)
    PROVE  /\ new \subseteq DerivedRow
           /\ \A r \in new : BuiltRow(r)
  <1>1. active \subseteq claims /\ claims \subseteq Claims /\ rows \subseteq DerivedRow
    BY DEF TypeOK
  <1>2. \A kind \in Kinds, key \in Keys, ids \in SUBSET Claims :
            /\ Row(kind, key, ids) \in DerivedRow
            /\ Row(kind, key, ids).ids = ids
            /\ Row(kind, key, ids).kind = kind
            /\ Row(kind, key, ids).key = key
            /\ Row(kind, key, ids).before = {}
            /\ Row(kind, key, ids).copied = {}
    BY DEF Row, DerivedRow
  <1>3. CASE new \in Digests(k)
    <2>1. PICK D \in SUBSET InSession(active, k) : new = {Row("digest", k, D)}
      BY <1>3 DEF Digests
    <2>2. D \subseteq claims
      BY <2>1, <1>1 DEF InSession
    <2> QED
      BY <2>1, <2>2, <1>1, <1>2 DEF Kinds, BuiltRow
  <1>4. CASE new \in Frames(k)
    <2>1. PICK F \in SUBSET SUBSET InSession(active, k) :
              new = {Row("frame", k, G) : G \in F}
      BY <1>4 DEF Frames, Groupings
    <2>2. \A G \in F : G \subseteq claims
      BY <2>1, <1>1 DEF InSession
    <2> QED
      BY <2>1, <2>2, <1>1, <1>2 DEF Kinds, BuiltRow
  <1>5. CASE new \in Sentences(k)
    <2>1. PICK D \in SUBSET claims : new = {Row("sentence", k, D)}
      BY <1>5 DEF Sentences
    <2> QED
      BY <2>1, <1>1, <1>2 DEF Kinds, BuiltRow
  <1>6. CASE new \in LifeEvents(k)
    <2>1. PICK F \in SUBSET SUBSET About(active, k) :
              new = {Row("event", k, G) : G \in F}
      BY <1>6 DEF LifeEvents, Groupings
    <2>2. \A G \in F : G \subseteq claims /\ \A c \in G : SubjOf[c] = k
      BY <2>1, <1>1 DEF About
    <2> QED
      BY <2>1, <2>2, <1>1, <1>2 DEF Kinds, BuiltRow
  <1>7. CASE new \in Profiles(k)
    <2>1. PICK D \in SUBSET About(active, k), P \in SUBSET (claims \ active),
               E \in SUBSET At("event", k) :
              new = {Profile(k, D, P, E)}
      BY <1>7 DEF Profiles
    <2>2. D \subseteq claims /\ P \subseteq claims /\ \A c \in D : SubjOf[c] = k
      BY <2>1, <1>1 DEF About
    <2>3. UNION {e.ids : e \in E} \subseteq Claims
      BY <2>1, <1>1 DEF DerivedRow, At
    <2>4. /\ Profile(k, D, P, E) \in DerivedRow
          /\ Profile(k, D, P, E).ids = D
          /\ Profile(k, D, P, E).kind = "profile"
          /\ Profile(k, D, P, E).key = k
          /\ Profile(k, D, P, E).before = P
          /\ Profile(k, D, P, E).copied = UNION {e.ids : e \in E}
      BY <2>2, <2>3, <1>1 DEF DerivedRow, Kinds, Profile
    <2>5. \A c \in UNION {e.ids : e \in E} :
              \E e \in rows : e.kind = "event" /\ e.key = k /\ c \in e.ids
      BY <2>1 DEF At
    <2>6. BuiltRow(Profile(k, D, P, E))
      BY <2>2, <2>4, <2>5 DEF BuiltRow
    <2> QED
      BY <2>1, <2>4, <2>6
  <1> QED
    BY <1>3, <1>4, <1>5, <1>6, <1>7

\* The reading half of a rebuild may clear rows, and holds rows of one kind.
LEMMA BuildStep ==
    ASSUME TypeOK, BeginBuild
    PROVE  \E kind \in Kinds, k \in Keys, new \in SUBSET DerivedRow :
              /\ held' = [kind |-> kind, key |-> k, new |-> new]
              /\ rows' \subseteq rows
              /\ \A r \in new : BuiltRow(r)
  <1>1. CASE \E s \in Sessions : MemoryDigest(s) \/ MemoryEvents(s) \/ OutputProvenance(s)
    <2>1. PICK s \in Sessions : MemoryDigest(s) \/ MemoryEvents(s) \/ OutputProvenance(s)
      BY <1>1
    <2>2. PICK kind \in Kinds,
               new \in Digests(s) \union Frames(s) \union Sentences(s) :
              /\ held' = [kind |-> kind, key |-> s, new |-> new]
              /\ rows' \subseteq rows
      BY <2>1 DEF MemoryDigest, MemoryEvents, OutputProvenance, Begin, Kinds
    <2> QED
      BY <2>2, BuiltType DEF Keys
  <1>2. CASE \E u \in Subjects : MemoryLifeEvents(u) \/ MemoryProfile(u) \/ Enrich(u)
    <2>1. PICK u \in Subjects : MemoryLifeEvents(u) \/ MemoryProfile(u) \/ Enrich(u)
      BY <1>2
    <2>2. PICK kind \in Kinds, new \in LifeEvents(u) \union Profiles(u) :
              /\ held' = [kind |-> kind, key |-> u, new |-> new]
              /\ rows' \subseteq rows
      BY <2>1 DEF MemoryLifeEvents, MemoryProfile, Enrich, Begin, Kinds
    <2> QED
      BY <2>2, BuiltType DEF Keys
  <1> QED
    BY <1>1, <1>2 DEF BeginBuild

\* Types alone are not inductive: what a forget completes must be audited.
TypeInv == TypeOK /\ f.snap \subseteq audited

LEMMA TypeStep == TypeInv /\ [Next]_vars => TypeInv'
  <1> SUFFICES ASSUME TypeInv, [Next]_vars PROVE TypeInv'
    OBVIOUS
  <1> USE DEF TypeInv
  <1>1. CASE UNCHANGED vars
    BY <1>1 DEF vars, TypeOK
  <1>2. ASSUME NEW t \in Turns, StoreTurn(t) PROVE TypeInv'
    <2>1. UNION {Words(c) : c \in {d \in Claims : TurnOf[d] = t}} \subseteq Strings
      BY WordsType
    <2>2. text' \in [Turns -> SUBSET Strings]
      BY <2>1, <1>2 DEF StoreTurn, TypeOK
    <2> QED
      BY <2>2, <1>2, ForgettingAssumption DEF StoreTurn, TypeOK
  <1>3. ASSUME NEW c \in Claims, Insert(c) PROVE TypeInv'
    BY <1>3, ForgettingAssumption DEF Insert, TypeOK
  <1>4. CASE BeginBuild
    <2>1. PICK kind \in Kinds, key \in Keys, new \in SUBSET DerivedRow :
              /\ held' = [kind |-> kind, key |-> key, new |-> new]
              /\ rows' \subseteq rows
      BY <1>4, BuildStep
    <2>2. /\ rows' \subseteq DerivedRow
          /\ held' \in [kind : Kinds \union {"none"}, key : Keys \union {"none"},
                        new : SUBSET DerivedRow]
      BY <2>1 DEF TypeOK
    <2> QED
      BY <2>2, <1>4 DEF BeginBuild, TypeOK
  <1>5. CASE FinishBuild
    <2>1. rows' \subseteq rows \union held.new /\ held' = NoRow
      BY <1>5 DEF FinishBuild, StoreDigest, StoreProfile, StoreLifeEvents,
         PersistFrames, InsertSentence
    <2>2. /\ rows' \subseteq DerivedRow
          /\ held' \in [kind : Kinds \union {"none"}, key : Keys \union {"none"},
                        new : SUBSET DerivedRow]
      BY <2>1 DEF TypeOK, NoRow
    <2> QED
      BY <2>2, <1>5 DEF FinishBuild, TypeOK
  <1>6. CASE Forget
    <2>1. PICK T \in Targets \ {{}} :
            /\ f' = [Idle EXCEPT !.pc = "digest", !.targets = T,
                        !.snap = T \intersect claims,
                        !.tids = {TurnOf[c] : c \in T \intersect claims}]
            /\ audited' = audited \union (T \intersect claims)
      BY <1>6 DEF Forget
    <2>2. T \subseteq Claims /\ claims \subseteq Claims
      BY <2>1 DEF Targets, About, InSession, TypeOK
    <2>3. {TurnOf[c] : c \in T \intersect claims} \subseteq Turns
      BY <2>2, WordsType
    <2>4. f' \in [pc : Stages, targets : SUBSET Claims, snap : SUBSET Claims,
                 tids : SUBSET Turns, cur : SUBSET Turns,
                 words : [Turns -> SUBSET Strings]]
      BY <2>1, <2>2, <2>3 DEF Idle, Stages
    <2>5. /\ f'.snap \subseteq audited' /\ audited' \subseteq Claims
          /\ audited \subseteq audited'
      BY <2>1, <2>2 DEF Idle, TypeOK
    <2>6. /\ UNCHANGED <<turns, text, vectors, embedding, claims, active, rows, held,
                         seen, forgotten, outlived>>
          /\ spent' = [spent EXCEPT !.forgets = @ + 1]
      BY <1>6 DEF Forget
    <2> QED
      BY <2>4, <2>5, <2>6 DEF TypeOK
  <1>7. CASE Strip
    <2>1. \A r \in rows : Stripped(r) \subseteq DerivedRow
      BY DEF Stripped, TypeOK, DerivedRow
    <2>2. rows' \subseteq DerivedRow
      BY <2>1, <1>7 DEF Strip, TypeOK
    <2>3. f'.snap = f.snap /\ f' \in [pc : Stages, targets : SUBSET Claims,
              snap : SUBSET Claims, tids : SUBSET Turns, cur : SUBSET Turns,
              words : [Turns -> SUBSET Strings]]
      BY <1>7 DEF Strip, TypeOK, Stages, NextTable
    <2> QED
      BY <2>2, <2>3, <1>7 DEF Strip, TypeOK
  <1>8. CASE MapRedactions
    <2>1. \A t \in Turns :
            UNION {Words(c) : c \in ClaimsOf(t) \intersect f.targets} \subseteq Strings
      BY WordsType DEF ClaimsOf, TypeOK
    <2>2. f'.snap = f.snap /\ f' \in [pc : Stages, targets : SUBSET Claims,
              snap : SUBSET Claims, tids : SUBSET Turns, cur : SUBSET Turns,
              words : [Turns -> SUBSET Strings]]
      BY <2>1, <1>8 DEF MapRedactions, TypeOK, Stages
    <2> QED
      BY <2>2, <1>8 DEF MapRedactions, TypeOK
  <1>9. CASE DeleteClaims
    BY <1>9 DEF DeleteClaims, TypeOK, Stages
  <1>10. CASE CountClaims
    <2>1. PICK t \in f.tids :
            f' = [f EXCEPT !.tids = @ \ {t},
                           !.cur = IF ClaimsOf(t) = {} THEN {t} ELSE {}]
      BY <1>10 DEF CountClaims
    <2>2. f'.snap = f.snap /\ f' \in [pc : Stages, targets : SUBSET Claims,
              snap : SUBSET Claims, tids : SUBSET Turns, cur : SUBSET Turns,
              words : [Turns -> SUBSET Strings]]
      BY <2>1 DEF TypeOK
    <2> QED
      BY <2>2, <1>10 DEF CountClaims, TypeOK
  <1>11. CASE DropTurn
    BY <1>11 DEF DropTurn, TypeOK
  <1>12. CASE Redact
    <2>1. PICK t \in Turns :
            /\ f' = [f EXCEPT !.words[t] = {}]
            /\ IF t \in turns
               THEN /\ text' = [text EXCEPT ![t] = @ \ f.words[t]]
                    /\ vectors' = {v \in vectors : v.turn # t}
               ELSE UNCHANGED <<text, vectors>>
      BY <1>12 DEF Redact
    <2>2. text' \in [Turns -> SUBSET Strings] /\ vectors' \subseteq vectors
      BY <2>1 DEF TypeOK
    <2>3. f'.snap = f.snap /\ f' \in [pc : Stages, targets : SUBSET Claims,
              snap : SUBSET Claims, tids : SUBSET Turns, cur : SUBSET Turns,
              words : [Turns -> SUBSET Strings]]
      BY <2>1 DEF TypeOK
    <2> QED
      BY <2>2, <2>3, <1>12 DEF Redact, TypeOK
  <1>13. CASE DropProfiles
    BY <1>13 DEF DropProfiles, TypeOK, Idle, Stages
  <1>14. CASE Crash
    BY <1>14 DEF Crash, TypeOK, Idle, NoRow, Stages
  <1>15. ASSUME NEW T \in SUBSET turns, Read(T) PROVE TypeInv'
    <2>1. embedding' \subseteq Vector
      BY <1>15 DEF Read, TypeOK, Vector
    <2> QED
      BY <2>1, <1>15 DEF Read, TypeOK
  <1>16. ASSUME NEW v \in embedding, WriteVector(v) PROVE TypeInv'
    <2>1. /\ vectors' \union embedding' \subseteq vectors \union embedding
          /\ \A w \in vectors' : w \in vectors \/ w.turn \in turns
      BY <1>16 DEF WriteVector
    <2> QED
      BY <2>1, <1>16 DEF WriteVector, TypeOK
  <1> QED
    BY <1>1, <1>2, <1>3, <1>4, <1>5, <1>6, <1>7, <1>8, <1>9, <1>10, <1>11,
       <1>12, <1>13, <1>14, <1>15, <1>16
       DEF Next, EmbedEpisode, BackfillEpisodes, Unembedded

\* Every reachable state is well typed and respects the foreign keys, whoever
\* writes while a forget is under way.
THEOREM ForgettingTypeCorrect == Spec => []TypeOK
  <1>1. Init => TypeInv
    BY DEF Init, TypeInv, TypeOK, Idle, NoRow, Stages
  <1> QED
    BY <1>1, TypeStep, PTL DEF Spec, TypeInv

-----------------------------------------------------------------------------
(* What a forget leaves, when nobody else writes meanwhile.  One lemma for   *)
(* the steps of the others, which find no forget under way, and one for each *)
(* stage of the forget itself.                                               *)

\* What the stages share: everything but the types.
Rest ==
    /\ Alone /\ Embedded /\ Taken /\ Progress /\ StrippedSoFar /\ Derived /\ Repeated /\ History
    /\ DeletedIsAudited /\ OnlyOrphansGo /\ NothingCitesTheGone /\ ForgottenForGood

LEMMA StoreStep ==
    ASSUME TypeOK, Rest, ~Concurrent, NEW t \in Turns, StoreTurn(t)
    PROVE  Rest'
  <1>1. /\ f.pc = "idle" /\ t \notin seen /\ seen' = seen \union {t}
        /\ turns' = turns \union {t} /\ t \notin turns
        /\ \A u \in Turns \ {t} : text'[u] = text[u]
        /\ UNCHANGED <<vectors, embedding, claims, active, rows, audited, f, held,
                       forgotten, outlived, spent>>
    BY DEF StoreTurn, Free, TypeOK
  <1>2. seen' \intersect Claims = seen \intersect Claims
    BY <1>1, ForgettingAssumption
  <1>3. Alone' /\ StrippedSoFar' /\ NothingCitesTheGone' /\ Derived' /\ Repeated'
    BY <1>1 DEF Rest, Alone, StrippedSoFar, NothingCitesTheGone, Derived, Repeated
  <1>4. Taken' /\ Progress'
    BY <1>1 DEF Rest, Taken, Progress, ClaimsOf
  <1>5. History' /\ DeletedIsAudited'
    BY <1>1, <1>2 DEF Rest, History, DeletedIsAudited
  <1>6. OnlyOrphansGo'
    BY <1>1, <1>2 DEF Rest, OnlyOrphansGo
  <1>7. ForgottenForGood'
    <2> SUFFICES ASSUME NEW c \in forgotten
                 PROVE  /\ c \notin claims
                        /\ \A r \in rows : r.kind = "profile" =>
                                /\ c \notin r.ids
                                /\ c \in r.before => SubjOf[c] # r.key
                                /\ c \in r.copied => c \in outlived
                        /\ TurnOf[c] \in turns' => text'[TurnOf[c]] \intersect Words(c) = {}
                        /\ \A v \in vectors : v.turn = TurnOf[c] =>
                                v.said \intersect Words(c) = {}
      BY <1>1 DEF ForgottenForGood
    <2>1. c \in seen /\ c \in Claims
      BY DEF Rest, History, TypeOK
    <2>2. TurnOf[c] \in Turns /\ TurnOf[c] # t
      BY <2>1, <1>1, WordsType DEF Rest, History
    <2> QED
      BY <2>2, <1>1 DEF Rest, ForgottenForGood
  <1>8. Embedded'
    BY <1>1 DEF Rest, Embedded, TypeOK
  <1> QED
    BY <1>3, <1>4, <1>5, <1>6, <1>7, <1>8 DEF Rest

LEMMA ReadStep ==
    ASSUME TypeOK, Rest, ~Concurrent, NEW T \in SUBSET turns, Read(T)
    PROVE  Rest'
  <1>1. /\ f.pc = "idle" /\ embedding' = {[turn |-> t, said |-> text[t]] : t \in T}
        /\ UNCHANGED <<turns, text, vectors, claims, active, rows, audited, f, held, seen,
                       forgotten, outlived, spent>>
    BY DEF Read, Free
  <1>2. Alone' /\ Embedded'
    BY <1>1 DEF Rest, Alone, Embedded
  <1>3. Taken' /\ Progress' /\ StrippedSoFar' /\ Derived' /\ Repeated' /\ History'
    BY <1>1 DEF Rest, Taken, Progress, ClaimsOf, Clean, StrippedSoFar, Derived, Repeated, History
  <1>4. DeletedIsAudited' /\ OnlyOrphansGo' /\ NothingCitesTheGone' /\ ForgottenForGood'
    BY <1>1 DEF Rest, DeletedIsAudited, OnlyOrphansGo, NothingCitesTheGone, ForgottenForGood
  <1> QED
    BY <1>2, <1>3, <1>4 DEF Rest

\* What is written was read of a text nobody has redacted since.
LEMMA WriteVectorStep ==
    ASSUME TypeOK, Rest, NEW v \in embedding, WriteVector(v)
    PROVE  Rest'
  <1>1. /\ vectors' \union embedding' \subseteq vectors \union embedding
        /\ UNCHANGED <<turns, text, claims, active, rows, audited, f, held, seen,
                       forgotten, outlived, spent>>
    BY DEF WriteVector
  <1>2. f.pc = "idle"
    BY DEF Rest, Alone
  <1>3. Alone' /\ Embedded'
    BY <1>1, <1>2 DEF Rest, Alone, Embedded
  <1>4. Taken' /\ Progress' /\ StrippedSoFar' /\ Derived' /\ Repeated' /\ History'
    BY <1>1 DEF Rest, Taken, Progress, ClaimsOf, Clean, StrippedSoFar, Derived, Repeated, History
  <1>5. DeletedIsAudited' /\ OnlyOrphansGo' /\ NothingCitesTheGone'
    BY <1>1 DEF Rest, DeletedIsAudited, OnlyOrphansGo, NothingCitesTheGone
  <1>6. ForgottenForGood'
    <2>1. \A c \in forgotten, w \in vectors' :
              w.turn = TurnOf[c] => w.said \intersect Words(c) = {}
      BY <1>1 DEF Rest, Embedded, ForgottenForGood
    <2> QED
      BY <2>1, <1>1 DEF Rest, ForgottenForGood
  <1> QED
    BY <1>3, <1>4, <1>5, <1>6 DEF Rest

LEMMA InsertStep ==
    ASSUME TypeOK, Rest, ~Concurrent, NEW c \in Claims, Insert(c)
    PROVE  Rest'
  <1>1. /\ f.pc = "idle" /\ c \notin seen /\ seen' = seen \union {c}
        /\ claims' = claims \union {c} /\ TurnOf[c] \in turns
        /\ UNCHANGED <<turns, text, vectors, embedding, rows, audited, f, held,
                       forgotten, outlived, spent>>
    BY DEF Insert, Free
  <1>2. Alone' /\ StrippedSoFar' /\ NothingCitesTheGone' /\ Derived' /\ Repeated'
    BY <1>1 DEF Rest, Alone, StrippedSoFar, NothingCitesTheGone, Derived, Repeated
  <1>3. Taken' /\ Progress'
    BY <1>1 DEF Rest, Taken, Progress, Stages
  <1>4. History' /\ DeletedIsAudited'
    BY <1>1 DEF Rest, History, DeletedIsAudited, TypeOK
  <1>5. OnlyOrphansGo'
    <2>1. \A t \in (seen' \intersect Turns) \ turns' :
            /\ t \in (seen \intersect Turns) \ turns
            /\ {d \in seen' \intersect Claims : TurnOf[d] = t}
                = {d \in seen \intersect Claims : TurnOf[d] = t}
      BY <1>1, ForgettingAssumption
    <2> QED
      BY <2>1, <1>1 DEF Rest, OnlyOrphansGo
  <1>6. ForgottenForGood'
    BY <1>1 DEF Rest, ForgottenForGood, History
  <1>7. Embedded'
    BY <1>1 DEF Rest, Embedded
  <1> QED
    BY <1>2, <1>3, <1>4, <1>5, <1>6, <1>7 DEF Rest

LEMMA BeginBuildStep ==
    ASSUME TypeOK, Rest, ~Concurrent, BeginBuild
    PROVE  Rest'
  <1>1. PICK kind \in Kinds, k \in Keys, new \in SUBSET DerivedRow :
            /\ held' = [kind |-> kind, key |-> k, new |-> new]
            /\ rows' \subseteq rows
            /\ \A r \in new : BuiltRow(r)
    BY BuildStep
  <1>2. /\ f.pc = "idle" /\ held'.new = new /\ rows' \subseteq rows
        /\ UNCHANGED <<turns, text, vectors, embedding, claims, active, audited, f,
                       seen, forgotten, outlived>>
    BY <1>1 DEF BeginBuild, Free
  <1>3. Alone' /\ Embedded' /\ Taken' /\ Progress' /\ History' /\ DeletedIsAudited'
    BY <1>2 DEF Rest, Alone, Embedded, Taken, Progress, ClaimsOf, Clean, History, DeletedIsAudited
  <1>4. StrippedSoFar' /\ OnlyOrphansGo' /\ NothingCitesTheGone' /\ ForgottenForGood'
    BY <1>2 DEF Rest, StrippedSoFar, OnlyOrphansGo, NothingCitesTheGone, ForgottenForGood
  <1>5. Derived'
    <2>1. \A r \in new : r.ids \union r.before \subseteq claims
      BY <1>1 DEF BuiltRow
    <2>2. ASSUME NEW r \in new, r.kind \in {"event", "profile"},
                 NEW c \in r.ids \union r.copied
          PROVE  SubjOf[c] = r.key
      <3>1. BuiltRow(r)
        BY <1>1
      <3>2. CASE c \in r.ids
        BY <3>1, <3>2, <2>2 DEF BuiltRow
      <3>3. CASE c \in r.copied
        <4>1. PICK e \in rows : e.kind = "event" /\ e.key = r.key /\ c \in e.ids
          BY <3>1, <3>3, <2>2 DEF BuiltRow
        <4> QED
          BY <4>1 DEF Rest, Derived
      <3> QED
        BY <3>2, <3>3
    <2> QED
      BY <1>2, <2>1, <2>2 DEF Rest, Derived
  <1>6. Repeated'
    <2>1. ASSUME NEW r \in new, r.kind = "profile", NEW c \in r.copied \intersect forgotten
          PROVE  c \in outlived
      <3>1. PICK e \in rows : e.kind = "event" /\ c \in e.ids
        BY <1>1, <2>1 DEF BuiltRow
      <3> QED
        BY <3>1 DEF Rest, Repeated
    <2> QED
      BY <1>2, <2>1 DEF Rest, Repeated
  <1> QED
    BY <1>3, <1>4, <1>5, <1>6 DEF Rest

LEMMA FinishBuildStep ==
    ASSUME TypeOK, Rest, FinishBuild
    PROVE  Rest'
  <1>1. /\ f.pc = "idle" /\ held' = NoRow /\ rows' \subseteq rows \union held.new
        /\ UNCHANGED <<turns, text, vectors, embedding, claims, active, audited, f, seen,
                       forgotten, outlived, spent>>
    BY DEF FinishBuild, StoreDigest, StoreProfile, StoreLifeEvents, PersistFrames,
       InsertSentence, Rest, Alone
  <1>2. held'.new = {}
    BY <1>1 DEF NoRow
  <1>3. Alone' /\ Embedded' /\ Taken' /\ Progress' /\ History' /\ DeletedIsAudited'
    BY <1>1 DEF Rest, Alone, Embedded, Taken, Progress, ClaimsOf, Clean, History, DeletedIsAudited
  <1>4. StrippedSoFar' /\ OnlyOrphansGo'
    BY <1>1 DEF Rest, StrippedSoFar, OnlyOrphansGo, PastTables
  <1>5. NothingCitesTheGone' /\ Derived'
    BY <1>1, <1>2 DEF Rest, NothingCitesTheGone, Derived
  <1>6. ForgottenForGood'
    BY <1>1 DEF Rest, ForgottenForGood, Derived, Repeated
  <1>7. Repeated'
    BY <1>1, <1>2 DEF Rest, Repeated, Derived, ForgottenForGood
  <1> QED
    BY <1>3, <1>4, <1>5, <1>6, <1>7 DEF Rest

LEMMA ForgetStep ==
    ASSUME TypeOK, Rest, ~Concurrent, Forget
    PROVE  Rest'
  <1>1. PICK T \in Targets \ {{}} :
            /\ f' = [Idle EXCEPT !.pc = "digest", !.targets = T,
                        !.snap = T \intersect claims,
                        !.tids = {TurnOf[c] : c \in T \intersect claims}]
            /\ audited' = audited \union (T \intersect claims)
    BY DEF Forget
  <1>2. /\ f'.pc = "digest" /\ f'.targets = T /\ f'.snap = T \intersect claims
        /\ f'.tids = {TurnOf[c] : c \in f'.snap} /\ f'.cur = {}
    BY <1>1 DEF Idle
  <1>3. T \subseteq seen
    BY DEF Targets, About, InSession, TypeOK
  <1>4. /\ held = NoRow /\ embedding = {} /\ audited \subseteq audited'
        /\ UNCHANGED <<turns, text, vectors, embedding, claims, active, rows, held,
                       seen, forgotten, outlived>>
    BY <1>1 DEF Forget
  <1>5. Alone' /\ Embedded' /\ History' /\ Derived' /\ Repeated' /\ StrippedSoFar'
    BY <1>2, <1>4 DEF Rest, Alone, Embedded, History, Derived, Repeated, StrippedSoFar, PastTables
  <1>6. Taken' /\ Progress'
    BY <1>1, <1>2, <1>3, <1>4 DEF Taken, Progress, Stages
  <1>7. DeletedIsAudited' /\ OnlyOrphansGo' /\ NothingCitesTheGone' /\ ForgottenForGood'
    BY <1>4 DEF Rest, DeletedIsAudited, OnlyOrphansGo, NothingCitesTheGone, ForgottenForGood
  <1> QED
    BY <1>5, <1>6, <1>7 DEF Rest

LEMMA StripStep ==
    ASSUME TypeOK, Rest, Strip
    PROVE  Rest'
  <1>1. /\ f.pc \in {"digest", "event", "frame", "sentence"}
        /\ f'.pc = NextTable[f.pc] /\ f'.targets = f.targets /\ f'.snap = f.snap
        /\ f'.tids = f.tids /\ f'.cur = f.cur /\ f'.words = f.words
        /\ rows' = UNION {IF r.kind = f.pc THEN Stripped(r) ELSE {r} : r \in rows}
        /\ UNCHANGED <<turns, text, vectors, embedding, claims, active, audited, held, seen,
                       forgotten, outlived, spent>>
    BY DEF Strip, NextTable, TypeOK
  <1>2. held.new = {}
    BY <1>1 DEF Rest, Alone, Embedded, NoRow
  <1>3. \A r \in rows' : \E q \in rows :
            /\ r.kind = q.kind /\ r.key = q.key /\ r.ids \subseteq q.ids
            /\ r.before = q.before /\ r.copied = q.copied
            /\ r.kind = f.pc /\ r.kind # "event" => r.ids \intersect f.targets = {}
            /\ r.kind # f.pc => r = q
    <2>1. ASSUME NEW q \in rows, q.kind = f.pc, NEW r \in Stripped(q)
          PROVE  /\ r.kind = q.kind /\ r.key = q.key /\ r.ids \subseteq q.ids
                 /\ r.before = q.before /\ r.copied = q.copied
                 /\ r.kind # "event" => r.ids \intersect f.targets = {}
      BY <2>1 DEF Stripped, Cited, TypeOK, DerivedRow
    <2> QED
      BY <1>1, <2>1
  <1>4. Alone' /\ Embedded' /\ Taken' /\ History' /\ DeletedIsAudited' /\ OnlyOrphansGo'
    BY <1>1 DEF Rest, Alone, Embedded, Taken, History, DeletedIsAudited, OnlyOrphansGo, NextTable
  <1>5. Progress'
    BY <1>1 DEF Rest, Progress, NextTable, Stages, ClaimsOf
  <1>6. StrippedSoFar'
    BY <1>1, <1>3 DEF Rest, StrippedSoFar, PastTables, NextTable
  <1>7. Derived' /\ Repeated' /\ NothingCitesTheGone' /\ ForgottenForGood'
    BY <1>1, <1>2, <1>3 DEF Rest, Derived, Repeated, NothingCitesTheGone, ForgottenForGood
  <1> QED
    BY <1>4, <1>5, <1>6, <1>7 DEF Rest

LEMMA MapStep ==
    ASSUME TypeOK, Rest, MapRedactions
    PROVE  Rest'
  <1>1. /\ f.pc = "map" /\ f'.pc = "delete" /\ f'.targets = f.targets
        /\ f'.snap = f.snap /\ f'.tids = f.tids /\ f'.cur = f.cur
        /\ f'.words = [t \in Turns |->
                UNION {Words(c) : c \in ClaimsOf(t) \intersect f.targets}]
        /\ UNCHANGED <<turns, text, vectors, embedding, claims, active, rows, audited, held,
                       seen, forgotten, outlived, spent>>
    BY DEF MapRedactions, TypeOK
  <1>2. \A c \in f.snap : Words(c) \subseteq f'.words[TurnOf[c]]
    <2> SUFFICES ASSUME NEW c \in f.snap
                 PROVE  Words(c) \subseteq f'.words[TurnOf[c]]
      OBVIOUS
    <2>1. c \in claims /\ c \in f.targets /\ c \in Claims
      BY <1>1 DEF Rest, Progress, Taken, Stages, TypeOK
    <2>2. c \in ClaimsOf(TurnOf[c]) \intersect f.targets /\ TurnOf[c] \in Turns
      BY <2>1, WordsType DEF ClaimsOf
    <2> QED
      BY <2>2, <1>1
  <1>3. Progress'
    BY <1>1, <1>2 DEF Rest, Progress, Stages, ClaimsOf
  <1>4. Alone' /\ Embedded' /\ Taken' /\ History' /\ Derived' /\ Repeated' /\ StrippedSoFar'
    BY <1>1 DEF Rest, Alone, Embedded, Taken, History, Derived, Repeated, StrippedSoFar, PastTables
  <1>5. DeletedIsAudited' /\ OnlyOrphansGo' /\ NothingCitesTheGone' /\ ForgottenForGood'
    BY <1>1 DEF Rest, DeletedIsAudited, OnlyOrphansGo, NothingCitesTheGone, ForgottenForGood
  <1> QED
    BY <1>3, <1>4, <1>5 DEF Rest

LEMMA DeleteStep ==
    ASSUME TypeOK, Rest, DeleteClaims
    PROVE  Rest'
  <1>1. /\ f.pc = "delete" /\ f'.pc = "count" /\ f'.targets = f.targets
        /\ f'.snap = f.snap /\ f'.tids = f.tids /\ f'.cur = f.cur /\ f'.words = f.words
        /\ claims' = claims \ f.targets
        /\ UNCHANGED <<turns, text, vectors, embedding, rows, audited, held, seen,
                       forgotten, outlived, spent>>
    BY DEF DeleteClaims, TypeOK
  <1>2. held.new = {}
    BY <1>1 DEF Rest, Alone, Embedded, NoRow
  <1>3. Alone' /\ Embedded' /\ Taken' /\ History' /\ Derived' /\ Repeated' /\ StrippedSoFar'
    BY <1>1, <1>2 DEF Rest, Alone, Embedded, Taken, History, Derived, Repeated, StrippedSoFar, PastTables
  <1>4. Progress'
    BY <1>1 DEF Rest, Progress, Stages
  <1>5. DeletedIsAudited' /\ OnlyOrphansGo' /\ ForgottenForGood'
    BY <1>1 DEF Rest, Taken, DeletedIsAudited, OnlyOrphansGo, ForgottenForGood
  <1>6. NothingCitesTheGone'
    BY <1>1 DEF Rest, StrippedSoFar, PastTables, NothingCitesTheGone
  <1> QED
    BY <1>3, <1>4, <1>5, <1>6 DEF Rest

LEMMA CountStep ==
    ASSUME TypeOK, Rest, CountClaims
    PROVE  Rest'
  <1>1. PICK t \in f.tids :
            f' = [f EXCEPT !.tids = @ \ {t},
                           !.cur = IF ClaimsOf(t) = {} THEN {t} ELSE {}]
    BY DEF CountClaims
  <1>2. /\ f.pc = "count" /\ f'.pc = "count" /\ f'.targets = f.targets
        /\ f'.snap = f.snap /\ f'.tids \subseteq f.tids /\ f'.words = f.words
        /\ f'.cur \subseteq {t} /\ \A u \in f'.cur : ClaimsOf(u) = {}
        /\ UNCHANGED <<turns, text, vectors, embedding, claims, active, rows, audited, held,
                       seen, forgotten, outlived, spent>>
    BY <1>1 DEF CountClaims, TypeOK
  <1>3. Taken' /\ Progress'
    BY <1>2 DEF Rest, Taken, Progress, ClaimsOf, Clean, Stages
  <1>4. Alone' /\ Embedded' /\ History' /\ Derived' /\ Repeated' /\ StrippedSoFar'
    BY <1>2 DEF Rest, Alone, Embedded, History, Derived, Repeated, StrippedSoFar
  <1>5. DeletedIsAudited' /\ OnlyOrphansGo' /\ NothingCitesTheGone' /\ ForgottenForGood'
    BY <1>2 DEF Rest, DeletedIsAudited, OnlyOrphansGo, NothingCitesTheGone, ForgottenForGood
  <1> QED
    BY <1>3, <1>4, <1>5 DEF Rest

\* The count was of a moment ago, but nobody has inserted a claim since.
LEMMA DropTurnStep ==
    ASSUME TypeOK, Rest, DropTurn
    PROVE  Rest'
  <1>1. /\ f.pc = "count" /\ f'.pc = "count" /\ f'.targets = f.targets
        /\ f'.snap = f.snap /\ f'.tids = f.tids /\ f'.words = f.words /\ f'.cur = {}
        /\ turns' = turns \ f.cur /\ vectors' = {v \in vectors : v.turn \notin f.cur}
        /\ UNCHANGED <<text, embedding, rows, audited, held, seen, forgotten, outlived, spent>>
    BY DEF DropTurn, TypeOK
  <1>2. \A t \in f.cur : ClaimsOf(t) = {}
    BY DEF Rest, Progress
  <1>3. claims' = claims
    BY <1>2 DEF DropTurn, ClaimsOf
  <1>4. Taken' /\ Progress'
    BY <1>1, <1>3 DEF Rest, Taken, Progress, Clean, Stages
  <1>5. Alone' /\ Embedded' /\ History' /\ Derived' /\ Repeated' /\ StrippedSoFar'
    BY <1>1, <1>3 DEF Rest, Alone, Embedded, History, Derived, Repeated, StrippedSoFar
  <1>6. DeletedIsAudited' /\ NothingCitesTheGone' /\ ForgottenForGood'
    BY <1>1, <1>3 DEF Rest, DeletedIsAudited, NothingCitesTheGone, ForgottenForGood
  <1>7. OnlyOrphansGo'
    <2> SUFFICES ASSUME NEW t \in (seen \intersect Turns) \ turns'
                 PROVE  LET mine == {c \in seen \intersect Claims : TurnOf[c] = t}
                        IN  mine # {} /\ mine \subseteq audited
      BY <1>1 DEF OnlyOrphansGo
    <2>1. CASE t \notin turns
      BY <2>1 DEF Rest, OnlyOrphansGo
    <2>2. CASE t \in f.cur
      <3>1. PICK c \in f.snap : t = TurnOf[c]
        BY <2>2 DEF Rest, Taken
      <3>2. c \in seen \intersect Claims
        BY <3>1 DEF Rest, Taken, TypeOK
      <3>3. \A d \in seen \intersect Claims : TurnOf[d] = t => d \in audited
        BY <2>2, <1>2 DEF Rest, DeletedIsAudited, ClaimsOf
      <3> QED
        BY <3>1, <3>2, <3>3
    <2> QED
      BY <2>1, <2>2, <1>1
  <1> QED
    BY <1>4, <1>5, <1>6, <1>7 DEF Rest

LEMMA RedactStep ==
    ASSUME TypeOK, Rest, Redact
    PROVE  Rest'
  <1>1. PICK t \in Turns :
            /\ f' = [f EXCEPT !.words[t] = {}]
            /\ IF t \in turns
               THEN /\ text' = [text EXCEPT ![t] = @ \ f.words[t]]
                    /\ vectors' = {v \in vectors : v.turn # t}
               ELSE UNCHANGED <<text, vectors>>
    BY DEF Redact
  <1>2. /\ f.pc = "count" /\ f'.pc = "count" /\ f'.targets = f.targets
        /\ f'.snap = f.snap /\ f'.tids = f.tids /\ f'.cur = f.cur
        /\ \A u \in Turns \ {t} : f'.words[u] = f.words[u]
        /\ UNCHANGED <<turns, embedding, claims, active, rows, audited, held, seen,
                       forgotten, outlived, spent>>
    BY <1>1 DEF Redact, TypeOK
  <1>3. /\ \A u \in Turns : text'[u] \subseteq text[u]
        /\ t \in turns => text'[t] = text[t] \ f.words[t]
        /\ t \in turns => vectors' = {v \in vectors : v.turn # t}
        /\ t \notin turns => UNCHANGED <<text, vectors>>
    BY <1>1 DEF TypeOK
  <1>4. ASSUME NEW c \in f.snap
        PROVE  Words(c) \subseteq f'.words[TurnOf[c]] \/ Clean(c)'
    <2>1. TurnOf[c] \in Turns /\ (Words(c) \subseteq f.words[TurnOf[c]] \/ Clean(c))
      BY <1>2, WordsType DEF Rest, Progress, TypeOK
    <2>2. Clean(c) => Clean(c)'
      BY <2>1, <1>2, <1>3 DEF Clean
    <2>3. CASE TurnOf[c] = t /\ Words(c) \subseteq f.words[t]
      BY <2>3, <1>2, <1>3 DEF Clean
    <2> QED
      BY <2>1, <2>2, <2>3, <1>2
  <1>5. Progress'
    BY <1>2, <1>4 DEF Rest, Progress, ClaimsOf, Stages
  <1>6. Alone' /\ Taken' /\ History' /\ Derived' /\ Repeated' /\ StrippedSoFar'
    BY <1>2 DEF Rest, Alone, Taken, History, Derived, Repeated, StrippedSoFar
  <1>9. Embedded'
    <2>1. embedding' = {}
      BY <1>2 DEF Rest, Alone
    <2>2. \A v \in vectors : v.turn \in turns /\ v.said \subseteq text[v.turn]
      BY DEF Rest, Embedded
    <2>3. CASE t \in turns
      <3>1. \A u \in Turns : u # t => text'[u] = text[u]
        BY <2>3, <1>1 DEF TypeOK
      <3> QED
        BY <2>1, <2>2, <2>3, <3>1, <1>2, <1>3 DEF Embedded, TypeOK
    <2> QED
      BY <2>1, <2>2, <2>3, <1>2, <1>3 DEF Embedded
  <1>7. DeletedIsAudited' /\ OnlyOrphansGo' /\ NothingCitesTheGone'
    BY <1>2 DEF Rest, DeletedIsAudited, OnlyOrphansGo, NothingCitesTheGone
  <1>8. ForgottenForGood'
    <2>1. \A c \in forgotten : TurnOf[c] \in Turns
      BY WordsType DEF TypeOK
    <2> QED
      BY <2>1, <1>2, <1>3 DEF Rest, ForgottenForGood
  <1> QED
    BY <1>5, <1>6, <1>7, <1>8, <1>9 DEF Rest

\* When every turn is done with, each claim of the snapshot is redacted.
LEMMA DropProfilesStep ==
    ASSUME TypeOK, Rest, DropProfiles
    PROVE  Rest'
  <1>1. /\ f.pc = "count" /\ \A t \in Turns : f.words[t] = {}
        /\ rows' = {r \in rows :
                ~(r.kind = "profile" /\ r.key \in {SubjOf[c] : c \in f.snap})}
        /\ forgotten' = forgotten \union f.snap /\ f' = Idle
        /\ outlived' = outlived \union
                {c \in f.snap : \E r \in rows : r.kind = "event" /\ c \in r.ids}
        /\ UNCHANGED <<turns, text, vectors, embedding, claims, active, audited, held,
                       seen, spent>>
    BY DEF DropProfiles
  <1>2. f'.pc = "idle" /\ f'.targets = {} /\ f'.snap = {} /\ f'.tids = {} /\ f'.cur = {}
    BY <1>1 DEF Idle
  <1>3. Alone' /\ Embedded' /\ Taken' /\ Progress' /\ StrippedSoFar'
    BY <1>1, <1>2 DEF Rest, Alone, Embedded, Taken, Progress, StrippedSoFar, PastTables
  <1>4. History' /\ Derived'
    BY <1>1 DEF Rest, Taken, History, Derived
  <1>8. held.new = {}
    BY <1>1 DEF Rest, Alone, NoRow
  <1>9. Repeated'
    <2>1. \A r \in rows' : r.kind = "profile" => r.copied \intersect f.snap = {}
      BY <1>1 DEF Rest, Derived
    <2> QED
      BY <1>1, <1>8, <2>1 DEF Rest, Repeated
  <1>5. DeletedIsAudited' /\ OnlyOrphansGo' /\ NothingCitesTheGone'
    BY <1>1 DEF Rest, DeletedIsAudited, OnlyOrphansGo, NothingCitesTheGone
  <1>6. ASSUME NEW c \in f.snap
        PROVE  /\ c \notin claims
               /\ \A r \in rows' : r.kind = "profile" =>
                        c \notin r.ids /\ c \notin r.copied /\ SubjOf[c] # r.key
               /\ Clean(c)
    <2>1. c \notin claims
      BY <1>1 DEF Rest, Taken, Progress
    <2>2. \A r \in rows' : r.kind = "profile" =>
              c \notin r.ids /\ c \notin r.copied /\ SubjOf[c] # r.key
      BY <1>1 DEF Rest, Derived
    <2>3. Clean(c)
      BY <1>1, WordsType DEF Rest, Progress, Words, TypeOK
    <2> QED
      BY <2>1, <2>2, <2>3
  <1>7. ForgottenForGood'
    <2>1. \A c \in f.snap, v \in vectors :
              v.turn = TurnOf[c] => v.said \intersect Words(c) = {}
      BY <1>6 DEF Rest, Embedded, Clean
    <2> QED
      BY <2>1, <1>1, <1>6 DEF Rest, ForgottenForGood, Clean
  <1> QED
    BY <1>3, <1>4, <1>5, <1>7, <1>9 DEF Rest

LEMMA CrashStep ==
    ASSUME TypeOK, Rest, Crash
    PROVE  Rest'
  <1>1. /\ f' = Idle /\ held' = NoRow /\ embedding' = {}
        /\ UNCHANGED <<turns, text, vectors, claims, active, rows, audited, seen,
                       forgotten, outlived>>
    BY DEF Crash
  <1>2. /\ f'.pc = "idle" /\ f'.targets = {} /\ f'.snap = {} /\ f'.tids = {}
        /\ f'.cur = {} /\ held'.new = {}
    BY <1>1 DEF Idle, NoRow
  <1>3. Alone' /\ Embedded' /\ Taken' /\ Progress' /\ StrippedSoFar'
    BY <1>1, <1>2 DEF Rest, Alone, Embedded, Taken, Progress, StrippedSoFar, PastTables
  <1>4. History' /\ Derived' /\ Repeated'
    BY <1>1, <1>2 DEF Rest, History, Derived, Repeated
  <1>5. DeletedIsAudited' /\ OnlyOrphansGo' /\ NothingCitesTheGone' /\ ForgottenForGood'
    BY <1>1 DEF Rest, DeletedIsAudited, OnlyOrphansGo, NothingCitesTheGone, ForgottenForGood
  <1> QED
    BY <1>3, <1>4, <1>5 DEF Rest

\* The inductive invariant holds of every forget that nobody writes beside.
THEOREM ForgetInvHolds ==
    ASSUME ~Concurrent
    PROVE  Spec => [](TypeOK /\ Rest)
  <1>1. Init => Rest
    <2> SUFFICES ASSUME Init PROVE Rest
      OBVIOUS
    <2>1. /\ f.pc = "idle" /\ f.targets = {} /\ f.snap = {} /\ f.tids = {}
          /\ f.cur = {} /\ held.new = {} /\ vectors \union embedding = {}
      BY DEF Init, Idle, NoRow
    <2> QED
      BY <2>1 DEF Init, Rest, Alone, Embedded, Taken, Progress, StrippedSoFar, PastTables,
         Derived, Repeated, History, DeletedIsAudited, OnlyOrphansGo, NothingCitesTheGone,
         ForgottenForGood
  <1>2. TypeOK /\ Rest /\ [Next]_vars => Rest'
    <2> SUFFICES ASSUME TypeOK, Rest, [Next]_vars PROVE Rest'
      OBVIOUS
    <2>1. CASE UNCHANGED vars
      BY <2>1 DEF vars, Rest, Alone, Embedded, Taken, Progress, StrippedSoFar, Derived, Repeated,
         History, DeletedIsAudited, OnlyOrphansGo, NothingCitesTheGone,
         ForgottenForGood, ClaimsOf, Clean
    <2> QED
      BY <2>1, StoreStep, ReadStep, WriteVectorStep, InsertStep, BeginBuildStep,
         FinishBuildStep, ForgetStep, StripStep, MapStep, DeleteStep, CountStep, DropTurnStep, RedactStep,
         DropProfilesStep, CrashStep
         DEF Next, EmbedEpisode, BackfillEpisodes, Unembedded
  <1> QED
    BY <1>1, <1>2, ForgettingTypeCorrect, PTL DEF Spec

\* No claim is deleted that a forget decision does not list.
THEOREM DeletedIsAuditedHolds ==
    ASSUME ~Concurrent
    PROVE  Spec => []DeletedIsAudited
  BY ForgetInvHolds, PTL DEF Rest

\* Only turns whose every claim was to be forgotten are deleted.
THEOREM OnlyOrphansGoHolds ==
    ASSUME ~Concurrent
    PROVE  Spec => []OnlyOrphansGo
  BY ForgetInvHolds, PTL DEF Rest

\* No digest, frame or sentence ever cites a claim that is gone, crashes included.
THEOREM NothingCitesTheGoneHolds ==
    ASSUME ~Concurrent
    PROVE  Spec => []NothingCitesTheGone
  BY ForgetInvHolds, PTL DEF Rest

\* A forget that returned is for good.
THEOREM ForgottenForGoodHolds ==
    ASSUME ~Concurrent
    PROVE  Spec => []ForgottenForGood
  BY ForgetInvHolds, PTL DEF Rest
=============================================================================
