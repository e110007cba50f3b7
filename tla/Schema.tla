-------------------------------- MODULE Schema --------------------------------
(***************************************************************************)
(* Opening the database: open_database and _migrate of schema.py.  Every   *)
(* statement is a transaction of its own, but for the rebuild of the       *)
(* claims table, which is one transaction.  The version is read once,      *)
(* before the steps, and written once, after them; processes that open the *)
(* same old file at the same time run the same steps.  A write waits for   *)
(* another process's rebuild up to busy_timeout.  Columns, tables and      *)
(* claims are what the schema is made of here; indexes are left out.       *)
(***************************************************************************)
EXTENDS Integers, Sequences, SequencesExt, FiniteSets

CONSTANTS
    Procs,
    Claims,
    Structured,     \* the claims with a subject, predicate and value
    Absent,         \* no row
    Versions,       \* the versions of the code that may have left the file behind
    MaxOpens,       \* bound: calls of open_database
    MaxCrashes      \* bound: processes that die

ASSUME SchemaAssumption ==
    /\ Structured \subseteq Claims /\ Versions \subseteq 0 .. 13
    /\ Absent \notin Procs \cup {"none", "triple", "own"}

VARIABLES
    tables,    \* tables and added columns the file has
    rebuilt,   \* whether the claims table has a text column and takes facts without a triple
    version,   \* PRAGMA user_version
    text,      \* claims: text[c], what its row says in plain words
    meta,      \* claims with a row in the tables that refer to claims
    writer,    \* the process in a transaction, or Absent
    at,        \* at[p]: where p is in open_database
    current,   \* current[p]: the version p has read
    enforced,  \* processes whose connection has foreign_keys=ON
    hidden,    \* columns not added because the lock timed out, and the error was suppressed
    outdated,  \* whether a rebuild began on a table rebuilt since it was looked at
    spent      \* what is used up of the bounds

vars == <<tables, rebuilt, version, text, meta, writer, at, current, enforced, hidden, outdated,
          spent>>
file == <<tables, rebuilt, version, text, meta>>

SchemaVersion == 13

\* CREATE TABLE IF NOT EXISTS, in the order of _SCHEMA_SQL; tables no step is about as one
Script == <<"turns", "claims", "claim_metadata", "principals", "serve_events",
            "turn_embeddings", "session_digests", "tool_schemas", "tool_embeddings">>

Column(step, name) == [step |-> step, kind |-> "column", adds |-> name]
Table(step, name) == [step |-> step, kind |-> "table", adds |-> name]

\* The statements of _migrate in order.
Steps == <<
    Column(1, "importance_score"),
    Column(3, "source_type"), Column(3, "source_metadata"), Column(3, "extraction_status"),
    Table(3, "turn_embeddings"),
    [step |-> 4, kind |-> "rebuild", adds |-> "text"],
    Column(5, "access_count"), Column(5, "last_accessed_ts"),
    Column(6, "demoted"),
    Column(7, "consolidated"), Column(7, "consolidated_sources"),
    Column(8, "source_claim_ids"),
    Column(9, "source_trust"),
    Column(10, "namespace"),
    Table(11, "principals"),
    Table(12, "tool_schemas"), Table(12, "tool_embeddings"),
    Table(13, "serve_events")>>

\* columns that a fresh file gets from _SCHEMA_SQL, in the table it creates
Born(table) == CASE table = "turns" -> {"source_type", "source_metadata", "extraction_status"}
                 [] table = "claims" -> {"text"}
                 [] OTHER -> {}

Needed == Range(Script) \cup {s.adds : s \in Range(Steps)}

\* what the code of version v left in a file
LeftBy(v) == {"turns", "claims", "claim_metadata", "session_digests"}
             \cup {s.adds : s \in {t \in Range(Steps) : t.step <= v}}

\* a new file, or one of an older version with its claims; an unversioned one
\* may have had its importance_score added ad hoc
Init ==
    /\ version \in Versions
    /\ \E fresh \in {f \in BOOLEAN : f => version = 0} :
       \E adhoc \in SUBSET {"importance_score"} :
         /\ tables = IF fresh THEN {} ELSE LeftBy(version) \cup adhoc
         /\ text \in [Claims -> {Absent, "none", "own"}]
         /\ \A c \in Claims :
              /\ text[c] # Absent => ~fresh
              /\ text[c] = "none" => version < 4 /\ c \in Structured
              /\ text[c] = "own" => version >= 4
    /\ rebuilt = ("text" \in tables)
    /\ meta \in SUBSET {c \in Claims : text[c] # Absent}
    /\ writer = Absent /\ hidden = {} /\ outdated = FALSE
    /\ at = [p \in Procs |-> [pc |-> "out"]]
    /\ current = [p \in Procs |-> 0]
    /\ enforced = {}
    /\ spent = [opens |-> 0, crashes |-> 0]

Goto(p, to) == at' = [at EXCEPT ![p] = to]
Free == writer = Absent

\* the statement of Steps after the i-th that the version read calls for
NextStep(p, i) ==
    LET due == {j \in DOMAIN Steps : j > i /\ Steps[j].step > current'[p]}
    IN IF due = {} THEN [pc |-> "stamp"]
       ELSE [pc |-> "step", i |-> CHOOSE j \in due : \A k \in due : j <= k]

Advance(p) == UNCHANGED current /\ Goto(p, NextStep(p, at[p].i))

-----------------------------------------------------------------------------
(* open_database                                                           *)

Open(p) ==
    /\ at[p].pc = "out" /\ spent.opens < MaxOpens
    /\ spent' = [spent EXCEPT !.opens = @ + 1]
    /\ enforced' = enforced \cup {p}
    /\ Goto(p, [pc |-> "script", i |-> 1])
    /\ UNCHANGED <<file, writer, current, hidden, outdated>>

ScriptStatement(p) ==
    /\ at[p].pc = "script" /\ Free
    /\ LET t == Script[at[p].i]
       IN /\ tables' = IF t \in tables THEN tables ELSE tables \cup {t} \cup Born(t)
          /\ rebuilt' = (rebuilt \/ (t = "claims" /\ t \notin tables))
    /\ Goto(p, IF at[p].i = Len(Script) THEN [pc |-> "version"]
               ELSE [at[p] EXCEPT !.i = @ + 1])
    /\ UNCHANGED <<version, text, meta, writer, current, enforced, hidden, outdated, spent>>

\* Mutant: the version is written before the steps are taken.
ReadVersionAndStamp(p) ==
    /\ at[p].pc = "version" /\ Free
    /\ current' = [current EXCEPT ![p] = version]
    /\ version' = SchemaVersion
    /\ Goto(p, IF version >= SchemaVersion THEN [pc |-> "open"] ELSE NextStep(p, 0))
    /\ UNCHANGED <<tables, rebuilt, text, meta, writer, enforced, hidden, outdated, spent>>

ReadVersion(p) ==
    /\ at[p].pc = "version"
    /\ current' = [current EXCEPT ![p] = version]
    /\ Goto(p, IF version >= SchemaVersion THEN [pc |-> "open"] ELSE NextStep(p, 0))
    /\ UNCHANGED <<file, writer, enforced, hidden, outdated, spent>>

\* ALTER TABLE ADD COLUMN, an error for a column that is there suppressed, and
\* CREATE TABLE IF NOT EXISTS
Add(p) ==
    /\ at[p].pc = "step" /\ Steps[at[p].i].kind \in {"column", "table"} /\ Free
    /\ tables' = tables \cup {Steps[at[p].i].adds}
    /\ Advance(p)
    /\ UNCHANGED <<rebuilt, version, text, meta, writer, enforced, hidden, outdated, spent>>

\* A rebuild elsewhere outlasts busy_timeout: for a column the error "database
\* is locked" is suppressed with the other, ...
Suppress(p) ==
    /\ at[p].pc = "step" /\ Steps[at[p].i].kind = "column" /\ ~Free
    /\ hidden' = hidden \cup {Steps[at[p].i].adds}
    /\ Advance(p)
    /\ UNCHANGED <<file, writer, enforced, outdated, spent>>

\* ... for any other statement it ends the call (DatabaseUnavailableError).
Unavailable(p) ==
    /\ ~Free /\ writer # p
    /\ \/ at[p].pc \in {"script", "begin", "stamp"}
       \/ at[p].pc = "step" /\ Steps[at[p].i].kind = "table"
    /\ enforced' = enforced \ {p}
    /\ Goto(p, [pc |-> "out"])
    /\ UNCHANGED <<file, writer, current, hidden, outdated, spent>>

\* Mutant: the step rebuilds the table whatever it looks like.
LookAway(p) ==
    /\ at[p].pc = "step" /\ Steps[at[p].i].kind = "rebuild"
    /\ enforced' = enforced \ {p}
    /\ Goto(p, [pc |-> "begin", i |-> at[p].i, old |-> ~rebuilt])
    /\ UNCHANGED <<file, writer, current, hidden, outdated, spent>>

\* step 4: table_info says whether the claims table is the old one; if so,
\* PRAGMA foreign_keys=OFF
Look(p) ==
    /\ at[p].pc = "step" /\ Steps[at[p].i].kind = "rebuild"
    /\ IF rebuilt
       THEN Advance(p) /\ UNCHANGED enforced
       ELSE /\ enforced' = enforced \ {p}
            /\ Goto(p, [pc |-> "begin", i |-> at[p].i, old |-> TRUE])
            /\ UNCHANGED current
    /\ UNCHANGED <<file, writer, hidden, outdated, spent>>

\* BEGIN and the first write; nobody else writes until it commits or dies
BeginRebuild(p) ==
    /\ at[p].pc = "begin" /\ Free
    /\ writer' = p
    /\ outdated' = (outdated \/ (at[p].old /\ rebuilt))
    /\ Goto(p, [pc |-> "copy", i |-> at[p].i])
    /\ UNCHANGED <<file, current, enforced, hidden, spent>>

\* Mutant: only facts with a triple, which gives their text, are copied.
CommitStructured(p) ==
    /\ at[p].pc = "copy"
    /\ text' = [c \in Claims |-> IF text[c] # Absent /\ c \in Structured THEN "triple" ELSE Absent]
    /\ meta' = IF p \in enforced THEN {} ELSE meta
    /\ rebuilt' = TRUE /\ tables' = tables \cup {"text"}
    /\ writer' = Absent
    /\ enforced' = enforced \cup {p}
    /\ Advance(p)
    /\ UNCHANGED <<version, hidden, outdated, spent>>

\* Rows are copied with the triple for text, which is NULL without a triple.
\* DROP TABLE deletes the rows of the old table, and by cascade what refers to
\* them if foreign keys are enforced.  RENAME, COMMIT, foreign_keys=ON.
CommitRebuild(p) ==
    /\ at[p].pc = "copy"
    /\ text' = [c \in Claims |->
          IF text[c] = Absent THEN Absent ELSE IF c \in Structured THEN "triple" ELSE "none"]
    /\ meta' = IF p \in enforced THEN {} ELSE meta
    /\ rebuilt' = TRUE /\ tables' = tables \cup {"text"}
    /\ writer' = Absent
    /\ enforced' = enforced \cup {p}
    /\ Advance(p)
    /\ UNCHANGED <<version, hidden, outdated, spent>>

Stamp(p) ==
    /\ at[p].pc = "stamp" /\ Free
    /\ version' = SchemaVersion
    /\ Goto(p, [pc |-> "open"])
    /\ UNCHANGED <<tables, rebuilt, text, meta, writer, current, enforced, hidden, outdated, spent>>

-----------------------------------------------------------------------------
\* a process with the database open stores a fact in words of its own, and in a
\* later statement the rows that refer to it
Store(p, c) ==
    /\ at[p].pc = "open" /\ Free
    /\ \/ text[c] = Absent /\ text' = [text EXCEPT ![c] = "own"] /\ UNCHANGED meta
       \/ text[c] # Absent /\ c \notin meta /\ meta' = meta \cup {c} /\ UNCHANGED text
    /\ UNCHANGED <<tables, rebuilt, version, writer, at, current, enforced, hidden, outdated, spent>>

\* the process exits or dies; a transaction under way is rolled back
Exit(p) ==
    /\ at[p].pc # "out"
    /\ at[p].pc # "open" => spent.crashes < MaxCrashes
    /\ spent' = [spent EXCEPT !.crashes = IF at[p].pc = "open" THEN @ ELSE @ + 1]
    /\ writer' = IF writer = p THEN Absent ELSE writer
    /\ enforced' = enforced \ {p}
    /\ Goto(p, [pc |-> "out"])
    /\ UNCHANGED <<file, current, hidden, outdated>>

Next ==
    \E p \in Procs :
        \/ Open(p) \/ ScriptStatement(p) \/ ReadVersion(p) \/ Add(p) \/ Suppress(p)
        \/ Unavailable(p) \/ Look(p) \/ BeginRebuild(p) \/ CommitRebuild(p) \/ Stamp(p)
        \/ Exit(p) \/ \E c \in Claims : Store(p, c)

Spec == Init /\ [][Next]_vars

-----------------------------------------------------------------------------
TypeOK ==
    /\ tables \subseteq Needed
    /\ rebuilt \in BOOLEAN /\ outdated \in BOOLEAN
    /\ version \in 0 .. SchemaVersion
    /\ text \in [Claims -> {Absent, "none", "triple", "own"}]
    /\ meta \subseteq Claims
    /\ writer \in Procs \cup {Absent}
    /\ \A p \in Procs : at[p].pc \in {"out", "script", "version", "step", "begin", "copy", "stamp",
                                      "open"}
    /\ current \in [Procs -> 0 .. SchemaVersion]
    /\ enforced \subseteq Procs
    /\ hidden \subseteq Needed

\* A database that open_database returned has every table and column the code
\* reads, whatever version left it and whoever died migrating it, but for
\* columns whose ALTER was given up while another process held the lock.
OpenIsComplete ==
    \A p \in Procs : at[p].pc = "open" => Needed \ tables \subseteq hidden /\ rebuilt

\* Migrating deletes no claim and none of the rows that refer to claims: what the
\* file holds of either before a step, of the old file or stored since, it holds
\* after it, even when the claims table is dropped, by a process that dies on the
\* way, or by one that rebuilds the rebuilt table.
MigrationDeletesNothing ==
    [][/\ meta \subseteq meta'
       /\ \A c \in Claims : text[c] # Absent => text'[c] # Absent]_vars

\* Once stored, a fact keeps its words through every later opening, even one
\* that finds a half migrated file, unless a process that had looked at the
\* old table rebuilds the new one.
WordsSurvive ==
    [][\A c \in Claims : text[c] = "own" => text'[c] = "own" \/ outdated]_vars
===============================================================================
