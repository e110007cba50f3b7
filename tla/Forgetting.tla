----------------------------- MODULE Forgetting -----------------------------
(***************************************************************************)
(* forget() of forgetting.py, which deletes claims for good, against the   *)
(* rows other components derive from them.  One action per SQL statement,  *)
(* or per run of statements nothing can tell apart: the connection is in   *)
(* autocommit mode, so a crash may fall between any two of them and, when  *)
(* Concurrent, the extraction worker may write between any two of them.    *)
(* A claim's columns never change, so they are constants; its status does  *)
(* and matters here only as what the builders of derived rows read.        *)
(***************************************************************************)
EXTENDS Naturals, FiniteSets

CONSTANTS
    Claims,             \* the claims that may ever be extracted
    Turns,
    TurnOf, SubjOf, PredOf, ValOf,  \* columns of a claim
    SessOf,             \* session of a turn
    TopFacts,           \* key facts in a digest (3 in the code)
    MinPredicates,      \* predicates that make a life event (3 in the code)
    Concurrent,         \* may the worker write while a forget is under way?
    MaxForgets, MaxBuilds, MaxCrashes

ASSUME ForgettingAssumption ==
    /\ Claims \intersect Turns = {}
    /\ TurnOf \in [Claims -> Turns]
    /\ Concurrent \in BOOLEAN

VARIABLES
    turns,      \* rows of turns
    text,       \* text of a turn, as the subjects and values legible in it
    vectors,    \* rows of turn_embeddings: the turn, and the text that was embedded
    embedding,  \* episodes read for an embedder, their vectors not yet written
    claims,     \* rows of claims
    active,     \* those whose status is active
    rows,       \* rows of the derived tables
    audited,    \* claims in the snapshot of some 'forget' decision
    f,          \* the forget under way: its program counter and locals
    held,       \* a derived row that was read for and is not yet written
    seen,       \* history: the turns and claims that were ever stored
    forgotten,  \* history: claims whose forget ran to its end
    outlived,   \* history: those a life event still told of when it did
    spent       \* what is used up of the bounds

vars == <<turns, text, vectors, embedding, claims, active, rows, audited, f, held, seen,
          forgotten, outlived, spent>>

-----------------------------------------------------------------------------
Words(c) == {SubjOf[c], ValOf[c]}
ClaimsOf(t) == {c \in claims : TurnOf[c] = t}
InSession(S, s) == {c \in S : SessOf[TurnOf[c]] = s}
About(S, u) == {c \in S : SubjOf[c] = u}
Sessions == {SessOf[t] : t \in Turns}
Subjects == {SubjOf[c] : c \in Claims}
Strings == UNION {Words(c) : c \in Claims}

\* A row of session_digests, life_events, event_frames, output_sentences or
\* profiles: key is the session or subject they are rebuilt for, ids the
\* claims its lines are of, before those a profile's line names as the previous
\* value, copied those whose text a profile repeats from life events.
Row(kind, key, ids) ==
    [kind |-> kind, key |-> key, ids |-> ids, before |-> {}, copied |-> {}]
Kinds == {"digest", "event", "frame", "sentence", "profile"}
Keys == Sessions \union Subjects
DerivedRow == [kind : Kinds, key : Keys, ids : SUBSET Claims, before : SUBSET Claims,
               copied : SUBSET Claims]
At(kind, key) == {r \in rows : r.kind = kind /\ r.key = key}

Stages == {"idle", "digest", "event", "frame", "sentence", "map", "delete", "count"}
Idle == [pc |-> "idle", targets |-> {}, snap |-> {}, tids |-> {}, cur |-> {},
         words |-> [t \in Turns |-> {}]]
NoRow == [kind |-> "none", key |-> "none", new |-> {}]
Free == Concurrent \/ f.pc = "idle"

-----------------------------------------------------------------------------
(* The rest of the program, which goes on storing and deriving. *)

\* insert_turn
StoreTurn(t) ==
    /\ Free
    /\ t \notin seen
    /\ turns' = turns \union {t}
    /\ text' = [text EXCEPT ![t] =
                    UNION {Words(c) : c \in {d \in Claims : TurnOf[d] = t}}]
    /\ seen' = seen \union {t}
    /\ UNCHANGED <<vectors, embedding, claims, active, rows, audited, f, held, forgotten,
                   outlived, spent>>

Vector == [turn : Turns, said : SUBSET Strings]
Unembedded == {t \in turns : \A v \in vectors : v.turn # t}

\* The text of some episodes goes to the embedder; what fails there leaves no trace.
Read(T) ==
    /\ Free
    /\ embedding = {} /\ T # {}
    /\ embedding' = {[turn |-> t, said |-> text[t]] : t \in T}
    /\ UNCHANGED <<turns, text, vectors, claims, active, rows, audited, f, held, seen,
                   forgotten, outlived, spent>>

\* the turn just stored, or all a session has without a vector
EmbedEpisode(t) == Read(Unembedded \intersect {t})
BackfillEpisodes(s) == Read({t \in Unembedded : SessOf[t] = s})

\* INSERT OR REPLACE, a row per episode; the foreign key of a turn that is gone
\* makes it raise
WriteVector(v) ==
    /\ v \in embedding
    /\ IF v.turn \in turns
       THEN /\ vectors' = {w \in vectors : w.turn # v.turn} \union {v}
            /\ embedding' = embedding \ {v}
       ELSE embedding' = {} /\ UNCHANGED vectors
    /\ UNCHANGED <<turns, text, claims, active, rows, audited, f, held, seen, forgotten,
                   outlived, spent>>

\* insert_claim, whose foreign key fails when the turn is gone, and the claims
\* that supersession then retires, whichever they are: Pass 2 looks at a
\* predicate, not at a subject.
Insert(c) ==
    /\ Free
    /\ c \notin seen
    /\ TurnOf[c] \in turns
    /\ claims' = claims \union {c}
    /\ \E old \in SUBSET active : active' = (active \ old) \union {c}
    /\ seen' = seen \union {c}
    /\ UNCHANGED <<turns, text, vectors, embedding, rows, audited, f, held, forgotten,
                   outlived, spent>>

\* The top facts of a session, and any others that are the new side of an edge.
Digests(s) ==
    LET S == InSession(active, s)
    IN  { {Row("digest", s, D)} : D \in {X \in SUBSET S :
            Cardinality(X) >= TopFacts \/ X = S} }

\* Ways to pick out groups of claims, none of them in two groups.
Groupings(S) ==
    {F \in SUBSET ((SUBSET S) \ {{}}) : \A G, H \in F : G = H \/ G \intersect H = {}}

\* Groups of a session's claims that look like one event.
Frames(s) ==
    { {Row("frame", s, G) : G \in F} : F \in Groupings(InSession(active, s)) }

\* Bursts of claims about one subject with enough distinct predicates.
LifeEvents(u) ==
    { {Row("event", u, G) : G \in F} : F \in {E \in Groupings(About(active, u)) :
        \A G \in E : Cardinality({PredOf[c] : c \in G}) >= MinPredicates} }

\* Lines for some of a subject's facts, each with the value before it if it has
\* one, and for some of its life events; without facts the profile is empty.
Profile(u, D, P, E) ==
    [kind |-> "profile", key |-> u, ids |-> D, before |-> P,
     copied |-> UNION {e.ids : e \in E}]
Profiles(u) ==
    IF About(active, u) = {} THEN { {Profile(u, {}, {}, {})} }
    ELSE { {Profile(u, L.of, L.before, E)} :
                L \in {M \in [of : SUBSET About(active, u),
                               before : SUBSET (claims \ active)] : M.of = {} => M.before = {}},
                E \in SUBSET At("event", u) }

\* A sentence may cite any claims there are; it has a key of its own.
Sentences(s) == { {Row("sentence", s, D)} : D \in (SUBSET claims) \ {{}} }

\* The reading half of a rebuild, which may clear rows first.
Begin(kind, key, new, cleared) ==
    /\ held' = [kind |-> kind, key |-> key, new |-> new]
    /\ rows' = rows \ cleared

\* The tools that build, one for each kind of row.  A profile that is there is
\* served as it is, frames are cleared before they are read for.
MemoryDigest(s) == \E new \in Digests(s) : Begin("digest", s, new, {})
MemoryEvents(s) == \E new \in Frames(s) : Begin("frame", s, new, At("frame", s))
MemoryLifeEvents(u) == \E new \in LifeEvents(u) : Begin("event", u, new, {})
LoadProfile(u) == At("profile", u)
MemoryProfile(u) == LoadProfile(u) = {} /\ \E new \in Profiles(u) : Begin("profile", u, new, {})
OutputProvenance(s) == \E new \in Sentences(s) : Begin("sentence", s, new, {})

\* Every tenth turn of a session does what memory_digest and memory_events do, and
\* rebuilds the profile and the life events of its user whatever is there.
Enrich(u) ==
    \/ \E new \in Profiles(u) : Begin("profile", u, new, {})
    \/ \E new \in LifeEvents(u) : Begin("event", u, new, At("event", u))

BeginBuild ==
    /\ Free
    /\ held = NoRow
    /\ spent.builds < MaxBuilds
    /\ \/ \E s \in Sessions : MemoryDigest(s) \/ MemoryEvents(s) \/ OutputProvenance(s)
       \/ \E u \in Subjects : MemoryLifeEvents(u) \/ MemoryProfile(u) \/ Enrich(u)
    /\ spent' = [spent EXCEPT !.builds = @ + 1]
    /\ UNCHANGED <<turns, text, vectors, embedding, claims, active, audited, f, seen,
                   forgotten, outlived>>

\* The writing half: a digest and a profile replace the one with their key, life
\* events those of their subject, unless none was detected.
StoreDigest(key, new) == rows' = (rows \ At("digest", key)) \union new
StoreProfile(key, new) == rows' = (rows \ At("profile", key)) \union new
StoreLifeEvents(key, new) ==
    rows' = IF new = {} THEN rows ELSE (rows \ At("event", key)) \union new
PersistFrames(new) == rows' = rows \union new
InsertSentence(new) == rows' = rows \union new

FinishBuild ==
    /\ held # NoRow
    /\ \/ held.kind = "digest" /\ StoreDigest(held.key, held.new)
       \/ held.kind = "profile" /\ StoreProfile(held.key, held.new)
       \/ held.kind = "event" /\ StoreLifeEvents(held.key, held.new)
       \/ held.kind = "frame" /\ PersistFrames(held.new)
       \/ held.kind = "sentence" /\ InsertSentence(held.new)
    /\ held' = NoRow
    /\ UNCHANGED <<turns, text, vectors, embedding, claims, active, audited, f, seen,
                   forgotten, outlived, spent>>

-----------------------------------------------------------------------------
(* forget(), from the call to its return. *)

\* What a call may name: a claim, whether it is still there or not, a subject,
\* a session or a predicate; claims of every status are taken.
Targets ==
    {{c} : c \in seen \intersect Claims}
        \union {About(claims, u) : u \in Subjects}
        \union {InSession(claims, s) : s \in Sessions}
        \union {{c \in claims : PredOf[c] = p} : p \in {PredOf[c] : c \in Claims}}

\* Find the targets, take their snapshot and the turns they came from, and
\* write the decision row before anything is deleted.
Forget ==
    /\ f.pc = "idle"
    /\ Concurrent \/ (held = NoRow /\ embedding = {})
    /\ spent.forgets < MaxForgets
    /\ \E T \in Targets \ {{}} :
        /\ f' = [Idle EXCEPT !.pc = "digest", !.targets = T,
                    !.snap = T \intersect claims,
                    !.tids = {TurnOf[c] : c \in T \intersect claims}]
        /\ audited' = audited \union (T \intersect claims)
    /\ spent' = [spent EXCEPT !.forgets = @ + 1]
    /\ UNCHANGED <<turns, text, vectors, embedding, claims, active, rows, held, seen,
                   forgotten, outlived>>

\* The claim ids the strip finds in a row.  life_events joins its ids with
\* commas, which does not parse as JSON, and what does not parse cites nothing.
Cited(r) == IF r.kind = "event" THEN {} ELSE r.ids

\* Mutant: a summary goes only when all it cites is forgotten.
StrippedWhenAllGone(r) ==
    CASE Cited(r) = {} \/ ~(Cited(r) \subseteq f.targets) ->
            {[r EXCEPT !.ids = IF r.kind = "sentence" THEN @ \ f.targets ELSE @]}
      [] OTHER -> {}

\* What stripping leaves of a row: a summary goes when it cites a target, a
\* sentence loses the targets and goes when nothing is left.
Stripped(r) ==
    CASE Cited(r) \intersect f.targets = {}  -> {r}
      [] r.kind = "sentence" /\ ~(r.ids \subseteq f.targets) ->
            {[r EXCEPT !.ids = @ \ f.targets]}
      [] OTHER -> {}

NextTable == [digest |-> "event", event |-> "frame", frame |-> "sentence",
              sentence |-> "map"]

\* Strip the next of the tables of its rows that cite a target.
Strip ==
    /\ f.pc \in DOMAIN NextTable
    /\ rows' = UNION {IF r.kind = f.pc THEN Stripped(r) ELSE {r} : r \in rows}
    /\ f' = [f EXCEPT !.pc = NextTable[f.pc]]
    /\ UNCHANGED <<turns, text, vectors, embedding, claims, active, audited, held, seen,
                   forgotten, outlived, spent>>

\* Mutant: only the values are redacted.
MapValuesOnly ==
    /\ f.pc = "map"
    /\ f' = [f EXCEPT !.pc = "delete", !.words = [t \in Turns |->
                {ValOf[c] : c \in ClaimsOf(t) \intersect f.targets}]]
    /\ UNCHANGED <<turns, text, vectors, embedding, claims, active, rows, audited, held,
                   seen, forgotten, outlived, spent>>

\* Which subjects and values to redact in which turn, read from the claims.
MapRedactions ==
    /\ f.pc = "map"
    /\ f' = [f EXCEPT !.pc = "delete", !.words = [t \in Turns |->
                UNION {Words(c) : c \in ClaimsOf(t) \intersect f.targets}]]
    /\ UNCHANGED <<turns, text, vectors, embedding, claims, active, rows, audited, held,
                   seen, forgotten, outlived, spent>>

DeleteClaims ==
    /\ f.pc = "delete"
    /\ claims' = claims \ f.targets
    /\ active' = active \ f.targets
    /\ f' = [f EXCEPT !.pc = "count"]
    /\ UNCHANGED <<turns, text, vectors, embedding, rows, audited, held, seen, forgotten,
                   outlived, spent>>

\* Mutant: the turn of a forgotten claim goes whatever else it says.
CountNothing ==
    /\ f.pc = "count" /\ f.cur = {} /\ f.tids # {}
    /\ \E t \in f.tids : f' = [f EXCEPT !.tids = @ \ {t}, !.cur = {t}]
    /\ UNCHANGED <<turns, text, vectors, embedding, claims, active, rows, audited, held,
                   seen, forgotten, outlived, spent>>

\* Count a turn's claims: only a turn with none is up for deletion.
CountClaims ==
    /\ f.pc = "count" /\ f.cur = {} /\ f.tids # {}
    /\ \E t \in f.tids :
        f' = [f EXCEPT !.tids = @ \ {t},
                       !.cur = IF ClaimsOf(t) = {} THEN {t} ELSE {}]
    /\ UNCHANGED <<turns, text, vectors, embedding, claims, active, rows, audited, held,
                   seen, forgotten, outlived, spent>>

\* Delete the turn; foreign keys delete its embedding and its claims.
DropTurn ==
    /\ f.pc = "count" /\ f.cur # {}
    /\ turns' = turns \ f.cur
    /\ vectors' = {v \in vectors : v.turn \notin f.cur}
    /\ claims' = {c \in claims : TurnOf[c] \notin f.cur}
    /\ active' = {c \in active : TurnOf[c] \notin f.cur}
    /\ f' = [f EXCEPT !.cur = {}]
    /\ UNCHANGED <<text, embedding, rows, audited, held, seen, forgotten, outlived, spent>>

\* Redact one surviving turn and drop the embedding of its old text.
Redact ==
    /\ f.pc = "count" /\ f.cur = {} /\ f.tids = {}
    /\ \E t \in {u \in Turns : f.words[u] # {}} :
        /\ f' = [f EXCEPT !.words[t] = {}]
        /\ IF t \in turns
           THEN /\ text' = [text EXCEPT ![t] = @ \ f.words[t]]
                /\ vectors' = {v \in vectors : v.turn # t}
           ELSE UNCHANGED <<text, vectors>>
    /\ UNCHANGED <<turns, embedding, claims, active, rows, audited, held, seen,
                   forgotten, outlived, spent>>

\* Delete the profiles of the subjects in the snapshot, and return.
DropProfiles ==
    /\ f.pc = "count" /\ f.cur = {} /\ f.tids = {}
    /\ \A t \in Turns : f.words[t] = {}
    /\ rows' = {r \in rows :
                    ~(r.kind = "profile" /\ r.key \in {SubjOf[c] : c \in f.snap})}
    /\ forgotten' = forgotten \union f.snap
    /\ outlived' = outlived \union
            {c \in f.snap : \E r \in rows : r.kind = "event" /\ c \in r.ids}
    /\ f' = Idle
    /\ UNCHANGED <<turns, text, vectors, embedding, claims, active, audited, held, seen,
                   spent>>

\* The process dies: its locals are gone and nothing resumes the forget.
Crash ==
    /\ spent.crashes < MaxCrashes
    /\ f.pc # "idle" \/ held # NoRow \/ embedding # {}
    /\ f' = Idle
    /\ held' = NoRow /\ embedding' = {}
    /\ spent' = [spent EXCEPT !.crashes = @ + 1]
    /\ UNCHANGED <<turns, text, vectors, claims, active, rows, audited, seen, forgotten,
                   outlived>>

-----------------------------------------------------------------------------
Init ==
    /\ turns = {} /\ vectors = {} /\ embedding = {} /\ claims = {} /\ active = {} /\ rows = {}
    /\ text = [t \in Turns |-> {}]
    /\ audited = {} /\ seen = {} /\ forgotten = {} /\ outlived = {}
    /\ f = Idle /\ held = NoRow
    /\ spent = [forgets |-> 0, builds |-> 0, crashes |-> 0]

Next ==
    \/ \E t \in Turns : StoreTurn(t)
    \/ \E t \in Turns : EmbedEpisode(t)
    \/ \E s \in Sessions : BackfillEpisodes(s)
    \/ \E v \in embedding : WriteVector(v)
    \/ \E c \in Claims : Insert(c)
    \/ BeginBuild \/ FinishBuild
    \/ Forget \/ Strip \/ MapRedactions \/ DeleteClaims
    \/ CountClaims \/ DropTurn \/ Redact \/ DropProfiles
    \/ Crash

Spec == Init /\ [][Next]_vars

-----------------------------------------------------------------------------
\* Types, and what the foreign keys keep true.
TypeOK ==
    /\ seen \subseteq Turns \union Claims
    /\ turns \subseteq seen \intersect Turns
    /\ claims \subseteq seen \intersect Claims
    /\ vectors \union embedding \subseteq Vector
    /\ \A v \in vectors : v.turn \in turns
    /\ active \subseteq claims
    /\ \A c \in claims : TurnOf[c] \in turns
    /\ text \in [Turns -> SUBSET Strings]
    /\ audited \subseteq Claims /\ forgotten \subseteq audited /\ outlived \subseteq forgotten
    /\ rows \subseteq DerivedRow
    /\ held \in [kind : Kinds \union {"none"}, key : Keys \union {"none"},
                 new : SUBSET DerivedRow]
    /\ f \in [pc : Stages, targets : SUBSET Claims, snap : SUBSET Claims,
              tids : SUBSET Turns, cur : SUBSET Turns,
              words : [Turns -> SUBSET Strings]]
    /\ spent \in [forgets : Nat, builds : Nat, crashes : Nat]

\* A claim that is gone is in the snapshot of a forget decision: "every forget
\* writes a verifiable audit row first".  The claims a foreign key deletes with
\* a turn would escape it, and the count in front of the delete is to stop that.
DeletedIsAudited == (seen \intersect Claims) \ claims \subseteq audited

\* A turn is deleted only when claims were extracted from it and every one of
\* them was to be forgotten: turns nobody asked about, and turns that other
\* claims rest on, stay.
OnlyOrphansGo ==
    \A t \in (seen \intersect Turns) \ turns :
        LET mine == {c \in seen \intersect Claims : TurnOf[c] = t}
        IN  mine # {} /\ mine \subseteq audited

\* No digest, frame or sentence cites a claim that is gone, at any moment, even
\* when a crash cut a forget short: rows are stripped before the claims vanish,
\* and a rebuild reads only claims that are there.
NothingCitesTheGone ==
    \A r \in rows : r.kind \in {"digest", "frame", "sentence"} => r.ids \subseteq claims

\* Once a forget has returned, and for ever after, its claims are gone and neither
\* their turn's text nor an embedding, one made since included, tells of them.
\* A profile has no line of theirs and does not name one of its own subject as
\* a previous value.  What profiles may still tell: a previous value of another
\* subject, which Pass 2 replaced, and what they copy from a life event, only
\* that such an event had escaped the forget itself (EventsForget below).
ForgottenForGood ==
    \A c \in forgotten :
        /\ c \notin claims
        /\ \A r \in rows : r.kind = "profile" =>
                /\ c \notin r.ids
                /\ c \in r.before => SubjOf[c] # r.key
                /\ c \in r.copied => c \in outlived
        /\ TurnOf[c] \in turns => text[TurnOf[c]] \intersect Words(c) = {}
        /\ \A v \in vectors : v.turn = TurnOf[c] => v.said \intersect Words(c) = {}

\* "Any row referencing a forgotten claim is deleted", said of life_events.
\* The ids there cannot be read back, so the events and their text stay.
EventsForget ==
    \A r \in rows : r.kind = "event" => r.ids \intersect forgotten = {}
=============================================================================
