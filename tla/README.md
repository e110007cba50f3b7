# memcontext: TLA+ models and proofs

`memcontext` is a memory server for agents. Turns of conversation are stored,
claims are extracted from them, newer claims supersede older ones, and every
retired claim keeps a lineage of typed edges to what replaced it. This
directory holds TLA+ modules of the system, TLC configurations that check them
on small instances, and proofs checked by TLAPS. `PROJECT.json` lists the runs,
the mutant each property catches, the source lines every definition stands for,
the findings, the hazards and the theorems.

## The system

| part (`src/memcontext/`) | state it keeps | operations | what makes it correct |
|---|---|---|---|
| `on_new_turn.py`, `mcp_tools.handle_memory_store` | `turns`, their `extraction_status` | store a turn; extract inline or leave it to the queue; enrichment every tenth, consolidation every 25th turn | every admitted turn is tried once, inline or by the worker |
| `claims.py` | `claims`, `claim_metadata`, the process's last stamp | insert a claim, set a status, follow edges, list | stamps increase; only status and window are ever rewritten |
| `schema.py` | tables, columns, `user_version` | open and migrate the database | what is returned is complete; nothing is lost on the way |
| `supersession.py` (Pass 1) | `supersession_edges`, `decisions` | match, guard by trust, link, retire, retire copies, audit | one current value per single-valued slot; trust; lineage |
| `supersession_semantic.py` (Pass 2) | the same tables | replace the claim an embedder ranks closest | a replacement is linked, by the statements of Pass 1 |
| `mcp_tools.handle_memory_correct` | the same tables | correct (redirected to the current head), dismiss | a correction reaches the head of the lineage |
| `conflicts.py`, `chains.py`, `provenance.py`, `brain.py`, `projections.py`, `memories.py`, `trace_view.py`, `trust_report.py`, `volatility.py`, `watch.py` | none | brain, trace, contradictions, trust report, profile tiers, live view | all tell one story of one store |
| `extraction_queue.py`, `mcp_server._StoreBackend` | a FIFO in memory, a worker thread | enqueue, drain, close | no job lost while the process lives; waits end |
| `extractors.py` | a cache of model answers | ask, ask again when throttled, answer from the cache | claims come from the turn's own conversation |
| `forgetting.py` | deletes from all tables | forget by claim, subject, session, predicate | nothing derived from a forgotten claim survives |
| `profiles.py`, `digests.py`, `event_frames.py`, `life_events.py` | derived tables | rebuild during ingest or by a tool | they cite claims that exist |
| `consolidate.py`, `importance.py`, `retention.py` | flags and scores in `claim_metadata` | graduate recurring facts, demote copies, recompute, prune | a live fact stays reachable |
| `retrieval.py`, `working_context.py` | `claim_embeddings`, `turn_embeddings` | embed, backfill, rank, fuse, cut | current claims are served and no slot is wasted |
| `serving.py` | `serve_events` | record and verify what was served | what an answer showed verifies |
| `http_server.py`, `authz.py` | one connection behind a lock, `principals` | query, store, trace, three hooks, mounted tools, grants | a token reads and writes in its scope only |
| `tool_registry.py`, `tool_retrieval.py`, `tool_activation.py` | `tool_schemas`, `tool_embeddings` | ingest, reindex, discover | the better match is ranked first |
| `relay.py` | routing table, pending requests, sockets | register, forward, time out, reconnect, stop | an answer reaches the call it answers; calls end |
| `mcp_oauth.py` | clients, logins, codes, tokens, a SQLite sidecar | register, authorise, exchange, refresh, revoke | what was answered lasts, what was replaced is dead |

The parts meet in the database. `schema.open_database` opens every connection
in autocommit mode (WAL), so each SQL statement is a transaction of its own, and
the stdio server, the HTTP server, the CLI and the extraction worker may
interleave between any two of them. Inside one server the MCP handlers are
synchronous functions called from one event loop, so one call runs at a time;
the HTTP handlers share a connection under a lock; the extraction worker is a
thread with its own connection. The relay and the OAuth provider share nothing
with the claim store.

Hard behaviours: long sequences of stores, refusals, restatements, corrections
and dismissals on one slot; a worker that extracts turns out of conversation
order; several writers, maintenance jobs and readers between two statements of
each other; processes that die halfway, with little that repairs on restart;
connections whose two ends learn of their loss at different times; time-outs
that race late answers. The full list, with lines, is `hazards` in
`PROJECT.json`.

## The modules

| module | models | kind |
|---|---|---|
| `ClaimRules` | source trust, Pass 1 matching, Pass 2 scope | constants and operators |
| `ClaimLedger` | what the claim store promises its readers | abstract specification |
| `Supersession` | stores, extraction, Pass 1, Pass 2, corrections, dismissals, one claim at a time | state machine |
| `Reads` (extends `Supersession`) | slot heads, lineages, conflicts | operators |
| `Views` (extends `Reads`) | the reports made of the store, and the turns table they also read | operators, one more variable |
| `Ingest` | the handlers of `Supersession` one SQL statement at a time, several processes, crashes | state machine |
| `ExtractionQueue` | write path, queue, worker, shutdown, crashes | state machine |
| `Extraction` (extends `ExtractionQueue`) | what the worker does with a job: the model, its cache, throttling | state machine |
| `Forgetting` | `forget()` against derived rows, turns, embeddings, profiles, the worker, crashes | state machine |
| `Upkeep` | consolidation, importance, retention, backfill, two processes | state machine |
| `Retrieval` | fusion, slots, budgets | constants and operators |
| `Serving` (extends `Retrieval`) | query, working context, prompt hook, and the ledger | state machine |
| `Tools` (extends `Serving`) | tool catalogue and `tool_discover` | state machine |
| `HttpServer` (extends `Tools`) | who calls, in which scope, through which path | state machine |
| `RelayPromise` | what a web client is promised | abstract specification |
| `Relay` | relay server, connector and the network between | state machine |
| `OAuth` | the OAuth provider and its sidecar | state machine |
| `Schema` | `open_database` and `_migrate` | state machine |
| `SupersessionProofs`, `IngestProofs`, `ForgettingProofs`, `UpkeepProofs`, `RelayProofs`, `OAuthProofs`, `SchemaProofs` | theorems about the module each is named after (`SupersessionProofs` also about `Reads` and `Views`, `IngestProofs` also about `ExtractionQueue` and `Extraction`) | proofs |
| `ServingProofs` | theorems about `HttpServer`, which runs `Serving`, `Retrieval` and `Tools` | proofs |
| `MCSupersession`, `MCViews`, `MCIngest`, `MCExtraction`, `MCForgetting`, `MCUpkeep`, `MCServing`, `MCOAuth`, `MCSchema` | values for the constants | model checking |

`Supersession` and `Ingest` both use `ClaimRules`. `Supersession` implements
`ClaimLedger` and `Relay` implements `RelayPromise` (both checked and proved).
`HttpServer` is the composition of the reading side: its calls run `Serving`,
`Tools`, traces and stores under the scope of a token. `Forgetting` deletes what
the ledger keeps, and takes supersession as a choice of which active claims an
insert retires.

### How state corresponds to the code

**Claims.** In `ClaimRules`, `Supersession`, `Reads`, `Views` and `Ingest` a
claim is a record of its immutable columns: `ts` is `created_ts`, `turn` the
source turn with namespace, session and source, `subj`, `pred`, `val` the
triple. Status is membership: `live` is `active`, `dismissed` is `dismissed`,
what is in neither is `superseded`. No code path sets `confirmed`, `audited` or
`draft`. `edges` is `supersession_edges`, `drift` the `drift_blocked` rows of
`decisions`, `closed` the claims with a `valid_until_ts`, `meta` those whose
`claim_metadata` row exists.

Text is abstracted to what the rules tell apart. A value is a token; constants
give its normal form (`Norm`), whether it speaks of the past (`Historical`), the
life attribute it names (`Attr`), and its relation to another value: the same
but for a number (`Quantity`), the rank of their overlap when it clears the bar
(`Overlap`), a strict subset of its words (`Narrower`). The theorems hold for
every way text could be read. An embedder is a choice: Pass 2 may replace any
candidate in its scope or none. Trust is counted in hundredths; the guard's sum
at the boundary (50 + 20 against 70) is not below it, as in the code's floats.

**`Ingest`** has a `pc` per process and an action per statement: `InsertRow`,
`InsertMeta`, `Match` (the candidate query), `Guard` (reads trust from
`claim_metadata`, 0.5 while the row is missing), `Audit`, `Link`, `Retire`,
`Close`, `NextCopy`, and for Pass 2 `Look`, `Embed`. `how[p]` is the type of the
edge, decided once for the match and kept for its copies; of several matches of
one stamp the code takes one row, any of them. A crash forgets the process's local state and its last stamp; an exception that
ends a handler halfway leaves the same tables behind as a crash.

**`Reads` and `Views`** translate each report's own queries over the same
tables. They compare values by a form of their own (`Plain`, `_norm_value` of
`conflicts.py`), which keeps the closing punctuation Pass 1 drops (`Norm`). A
stored turn that yielded nothing still shows in the reports, so `Views` adds
`turns` to the state. What fits the screen, wording, and
everything measured in wall time are left out.

**`ExtractionQueue` and `Extraction`.** The tables survive a crash, the queue,
the chosen extractor and the cache do not. `put` and `tried` are history
variables of the current process. A question to the model is what it is keyed
by: the conversation shown and the turn, where the turns shown are a set of texts,
each with the number of turns of its own conversation since; its answer is
whether it has claims,
and `source` remembers whose answer a turn's claims came from.

**`Forgetting`.** A claim's columns are constants, a turn's `text` the set of
subjects and values legible in it, an embedding of a turn what was legible when
it was computed. A derived row is the claims it cites; a profile also has the
previous values its lines name (`before`) and what it copies from life events
(`copied`). What a builder ranks or groups is a choice, and so is what an insert
retires, of any subject, as Pass 2 looks at a predicate only. A rebuild and a backfill read in one step and write
in another. The forget goes through the tables of the strip, the redaction map,
the delete, then the orphan count, redaction and profiles. Redaction is by the
claim's subject and value, as in the code: a claim worded differently from its
turn is redacted nowhere.

**`Upkeep`.** The claims of one slot, numbered by `(created_ts, claim_id)`. A
claim is `bare` from its own INSERT to that of its `claim_metadata` row, or for
ever if its process died between the two; the updates of a job find only claims
that have the row. A superseded claim is `leaving` from the update of its status to
the deletion of its vector, which a crash may likewise cut off. A score is kept as what retention needs of it, whether consolidation's floor of
0.9 stands; below the floor retention may decide either way.

**`Serving`.** Turns and claims are numbered by creation, and relevance is any
order: `rank` enumerates them, so no property depends on a score. A request
reads, annotates and records in separate statements, with other processes
storing turns and claims, superseding, dismissing or forgetting between two of
them. `CheckShared` decides whether the "resolved view" is withheld because two
tenants use the session's id; `BuildView` then reads the views it is made of one
by one. `shown`, `overtaken` and `req.known` are history.

**`HttpServer`.** A token resolves to scopes once, when the call arrives; a
grant changes the principals at any time. `ShowWrite` is the answer of the hook
after a memory tool, which looks up claims by ids out of the request (with
`MEMCONTEXT_HOOK_VISIBLE`); `call.unchecked` are the turns of an answer the code
checks no namespace for.

**`Tools`.** A score is a number out of a small set; what matters is which tools
it prefers and which it cannot tell apart. A fused score is the exact fraction
the code adds up in floats. Embedding models differ in dimension.

**`Relay`.** Connections are numbered in the order they are dialed. `fut` is the
future a request awaits and what it was resolved with; the two ends of a
connection notice its loss in steps of their own.

**`OAuth`.** No handler awaits between its first and last step, so `job` is the
one handler in progress, stopped between two of its sidecar commits. A pair `k`
stands for the access and the refresh token minted together.

**`Schema`.** `Steps` is the list of statements of `_migrate`, and `at[p]` the
next one. `text[c]` is what a claim's row says in words, `meta` the claims that
have rows in the tables that refer to them, which are written after the claim's.
`hidden` are columns
left out because a lock time-out was taken for "already there"; `outdated`
remembers a rebuild begun on a stale look at the table.

## The runs

| run | bounds | shows |
|---|---|---|
| `slots` | one session, users and assistants, a single-valued and an open-ended predicate, 6 phrases, two of which differ in a full stop, 3 turns and claims, one waiting for the worker | one current value (`OneCurrentValue`), no stale copy (`NoStaleCopy`), a trace shows the whole past unless a restatement differs from the head in closing punctuation (`LineageComplete`), copies obey the trust guard (`TrustGuard`), conflicts show from both sides (`ConflictsAgree`) |
| `lineages` | 2 tenants, 2 session ids shared between them, 2 subjects, 2 values, Pass 2, 3 turns and claims, 2 corrections or dismissals | `HeadIsCurrent`, `UserWordStands`, the refinement `KeepsLedger`, and `ViewsAgree`: brain, projection, trace, explanation, evidence, profile, trust report, statistics and live view tell one story |
| `writers` | 2 processes, 3 claims, 1 user action, 1 mishap (a crash or a coinciding tick), Pass 2 | nobody supersedes what is newer (`LooksBack`), nothing is retired without lineage (`RetiredWithLineage`), status and window agree where nobody was cut short (`WindowsAgree`) |
| `queue` | 4 turns, 1 failing job, 1 worker that cannot open the database, 1 crash, a window of 1 prior turn, 2 attempts | `CloseWorksOffBacklog`, `OwnWordsOnly`; with fairness `EveryJobTried`, `CallsReturn` |
| `forget` | 3 claims of 2 turns, 2 forgets, 2 rebuilds or backfills, 1 crash | `DeletedIsAudited`, `NothingCitesTheGone`, `ForgottenForGood` |
| `upkeep` | 2 processes, 5 kinds of job, 3 claims of 2 tenants, 1 without its metadata row, 1 retired, 2 jobs | no live fact hidden but behind an earlier copy that stands for it, or had no row to be made to (`CopiesAreCovered`), no vector of a superseded claim unless its deletion is due or was cut off or a backfill held it (`SupersededHasNoVector`), a pass with nobody beside it leaves nothing to do (`PassSettles`) |
| `serving` | 6 turns, 4 claims, 2 tenants that share a session id, 2 tokens, 8 paths, 3 tools, 1 turn stored or claim retired, forgotten or granted on beside 1 request | `ShownVerifies`, `AnsweredInScope`, `StoredInScope`, `CurrentUnlessOvertaken`, `NoSlotWasted`, `EverySessionHeard`, `BetterToolFirst` |
| `relay` | 2 calls, 2 connections | `LatestIsRouted`, the refinement `KeepsPromise`; with fairness `EveryCallEnds`, `BrainComesBack`, `StopEndsServing` |
| `oauth` | 2 clients, 1 login, 3 token pairs, 1 restart, 1 failed write | `AnsweredIsDurable`, `ReplacedStaysOut`, `OneSessionPerLogin` |
| `migrate` | 2 processes, files of versions 0, 2, 3 and 12, 3 opens, 1 process killed, 2 claims | what `open_database` returns is complete (`OpenIsComplete`), no claim and no row that refers to one is deleted (`MigrationDeletesNothing`), no fact reworded (`WordsSurvive`) |
| `two_current_values`, `forget_events` | | findings, below |

Why the bounds suffice. Three claims of one slot are needed for a replacement
that has a copy to retire, for a refusal followed by a replacement, and for a
lineage of two edges. The races of `writers`, `upkeep` and `migrate` are between
pairs of statements of two processes. Three token pairs are the pair of a
login, its heir and the heir's heir; two connections are the one lost late and
its successor. In `serving` one write can fall between any two statements of a
request, and four claims fill a window of three slots with a shared slot to
spare. `forget` has `Concurrent` false: the worker is idle while a forget runs.
Its digests name one key fact (three in the code) and its life events need two
predicates (three in the code), so that three claims leave some uncited and
still make an event.

`OneCurrentValue` is stated for slots in which no two claims came in one turn
(these are additive by design), no source is out of reach of another, and
nobody spoke as `system` (whose claims may only contradict; the store tool
cannot produce one). `slots` explores histories without corrections by hand:
these leave the other copies of a value in place (below), and `lineages` has
them.

Two runs have a `CONSTRAINT`. `Fruitful` (`slots`) leaves out turns that yielded
no claim, which leave the store as it was. `Telling` (`upkeep`) has at most one
claim of a contesting value or of the other tenant, and has the fact stated in
session 1 first; the jobs do not tell sessions apart. `MaxBare` is one: while two
claims are without their row nothing else happens until one gets it.

Distinct states: `slots` 3.1 million, `lineages` 1.6, `forget` 5.4, `upkeep` 2.8,
`serving` 0.5, `migrate` 3.5 million.

`SYMMETRY`: namespaces, sessions, subjects and values in `lineages`; processes,
subjects and values in `writers`; clients in `oauth`; processes in `upkeep`. The
constants given for them (identity as normal form, no pair of values related)
and the properties are invariant under these permutations, and none of these
runs checks liveness. `CHECK_DEADLOCK FALSE` is set everywhere: a server with no
more calls to make, or one that has exited, rightly stops.

Type invariants are not among the runs' properties: they were checked while the
modules were written, and those of every module with a proof module are proved.
The inductive invariants of the proofs were checked on the same instances first.

### Fairness

`ExtractionSpec`: the worker takes a step when it can, and the main thread
finishes the enqueue, drain or exit it is in. The operating system runs both
threads, `Queue.get` wakes a waiting worker, and a request to the model ends: the
clients of two providers have a time-out, the Gemini call (`extractors.py:725`) has
none of its own, so there the liveness of `queue` rests on the provider to answer
or to close the connection. Nothing forces the main thread to store, drain or
close. The properties speak of a process that stays up and whose worker could
open its database; where it could not, the code really does leave jobs untried
and a drain waiting for ever.

`Relay!FairSpec`: every step an event loop owes is taken (dialing after the
back-off, saying hello, noticing a lost socket, registering, tearing down,
reading a body or failing to, sending or failing to, waking on an answer or
expiring on the time-out, returning an answer). Nothing forces connections to
break, clients to call, the relay to restart or `stop()` to be called.

All other runs check safety and assume none.

## Where code and words disagree

Each is a run that ends in a violation; `findings` quotes the lines.

| run | property | what happens |
|---|---|---|
| `two_current_values` | `NoSilentSecondValue` | user `pg`, assistant `dyn` (refused), user `redis`: the newest differing claim `dyn` is retired, `pg` and `redis` stay current and unlinked |
| `forget_events` | `EventsForget` | life events join their claim ids with commas, the strip parses JSON: the events of a forgotten claim stay |

Four more are stated around, in the comments of the properties that pass:

- `conflicts.py:120-122` says the head of a slot is "the original assertion, which
  carries the supersession lineage". It compares values with their closing
  punctuation, Pass 1 without: user `pg`, `redis`, `redis.`, and the third claim,
  a restatement to Pass 1, is the head and has no lineage (`LineageComplete`
  leaves such slots out).
- `http_server.py:423-425` says of the hooks that "both reads and writes are
  confined to the caller's namespace". The hook after `memory_store` or
  `memory_correct` answers with claims of any namespace, by the ids in the
  request, and with the values they replaced (`AnsweredInScope` excepts them as
  `unchecked`).
- `mcp_oauth.py:9-11` says "tokens live in memory (a restart invalidates them)".
  The class (`:71-76`) says and does the opposite with its sidecar, and
  `AnsweredIsDurable` is about what it does.
- `forgetting.py:169-170` says profiles are dropped for every forgotten subject as
  they "would otherwise retain forgotten content". A profile of another subject
  may name the forgotten value as its previous one, and a rebuilt profile copies
  the life events that escaped the forget (`ForgottenForGood` excepts both).

## The proofs

`SupersessionProofs` proves, for all values of the constants:

- `TypeCorrect`: `Spec => []TypeOK`.
- `StoreInvHolds`, and from it `EdgesForwardHolds` (edges lead from older to
  newer claims of one namespace), `TrustGuardHolds`, `RetiredForCauseHolds` (a
  claim is superseded exactly when an edge replaced it) and `RedirectHolds` (the
  newest edge out of a superseded claim is the one that replaced it).
- `UserWordHolds`: the action property `UserWordStands`.
- `NoStaleCopyHolds`, `OneCurrentValueHolds`: the properties of those names, for
  behaviours in which nobody corrects a claim by hand (`[][Uncorrected]_vars`);
  claims may be dismissed.
- `ConflictsAgreeHolds`, about `Reads`.
- `HeadIsCurrentHolds`: `Spec => []HeadIsCurrent`, however long the lineage.
- `LineageInvHolds` and from it `LineageCompleteHolds`, for behaviours in which
  claims come from stores alone (`[][StoresAlone]_vars`), without Pass 2, and
  where values of one normal form are all of the past or all of the present
  (`NormKeepsTime`); the reports' own form of a value is any that tells apart no
  less than Pass 1's (`ReadsAssumption`). The code's normal form drops case, repeated blanks and
  closing punctuation, and its markers of the past look for neither, except that
  a marker of two words is not recognised with two blanks between them.
- `ViewsAgreeHolds`: `ViewSpec => []ViewsAgree`, about `Views`, from `OnRecordHolds`.
- `Refinement`: `Spec => KeepsLedger`.

The argument: `StepKinds` shows that every step settles one new claim against
some live ones (`Settles`), dismisses one (`Dismisses`), or leaves the store
alone, so each invariant is proved for two kinds of step instead of ten
actions. `StoreInv` is inductive where its parts are not: edges run forward
because stamps are bounded by the clock (`Stamped`); the redirect follows the
replacement because edges are only written for live claims and a live claim has
none that replaced it, so the replacing edge is the newest and stays so.

`OneCurrentValue` and `ConflictsAgree` look at what Pass 1 decides. In a slot
nobody is out of reach in, the match is the newest claim that differs, all that
differ have its value by induction, and so all go (`ExtractLeavesOneValue`). A
refused override is written between two claims of one slot and different values
(`Disputes`).

The walks along edges are recursive functions, so nothing about them is found by
expanding them: `Iterates` gives each walk its first and its next element. A
forward walk passes ever newer claims (`WalkForward`), a backward one ever older
ones; if it had not ended within the size of the table it would have passed more
claims than there are (`WalksEnd`, `MeetsInTime`). That a trace is whole needs
more, because the code follows one edge back where a replacement retired several
copies: each claim that replaced others is where a trace starts, or is itself
the oldest copy of what a newer claim replaced, so the newest edge into that
newer claim leads to it (`LineageInv`, `TraceIsWhole`). Every step either leaves
a tidy slot alone, restates its value, or replaces all of it by the new claim
(`TidyStep`).

The reports are compared by what each reads. Counts of edges and of claims are
related one to one (`NoLarger`, `NoSmaller`), which needs that an edge replaces a
claim once and that the audit has exactly what the guard refused; that a memory
wholly of the past was replaced by another memory needs that no edge replaces a
claim of its own turn, hence that turns are numbered before they are extracted
or a correction is made (`OnRecord`, `Numbered`). A user's last word leads its slot because only
a user reaches what a user said, so what replaced it without Pass 2 would be a
later word of a user on the same slot.

`ForgettingProofs` proves, for all claims, turns and bounds:

- `ForgettingTypeCorrect`: types and foreign keys, whoever writes meanwhile.
- Assuming `~Concurrent`, and with crashes anywhere: `DeletedIsAuditedHolds`,
  `OnlyOrphansGoHolds` (a turn is deleted only when each of its claims was to
  be), `NothingCitesTheGoneHolds`, `ForgottenForGoodHolds`.

The argument follows the forget through its stages (`Progress`): the snapshot's
claims are there until the delete, mapped before it, and from then on each is in
the redaction map or clean; tables behind the strip cite no target
(`StrippedSoFar`); the count is still true when the turn is dropped, because
nobody inserts; rows about to be written cite only claims that are there, and copy only from
life events that are (`Derived`), because no forget runs between reading and
writing (`Alone`); an
embedding shows no more than its turn (`Embedded`), and what a backfill holds
no more than was legible when nobody was forgetting (`Taken`); what an earlier
forget removed is never written again (`History`).

`IngestProofs` proves, for any number of processes, claims, crashes and clock
ticks that coincide:

- `IngestTypeCorrect`, and `IngestInvHolds`, the inductive invariant.
- `LooksBackHolds`, `RetiredWithLineageHolds`, `WindowsAgreeHolds`: the three
  safety properties of `writers`.

Each action has a lemma that says what it does to the acting process alone
(`Goes`, `Ends`, `Alone`, `Stays`), so that every conjunct is proved against
four kinds of step. The invariant says, of each process at each `pc`, what its
earlier statements have made true: the claim it is about to retire has the edge
that replaced it, the claim whose window it is about to close is retired, and
what it matched is older than its own claim, of another turn, and in the scope
of the pass. None of this can be undone by another process, because edges are
only ever added, stamps never change, and no status becomes `active` again.

Of `ExtractionSpec` (queue, worker and extractor) it proves, for any number of
turns, tenants, failures and crashes, any window of prior turns and any number of
attempts:

- `QueueInvHolds` and from it `CloseWorksOffBacklogHolds`.
- `ExtractionInvHolds` and from it `ExtractionTypeCorrect`, `OwnWordsOnlyHolds`.

That a closed queue leaves no job behind is not inductive by itself: the
shutdown mark must be the last item, and a job may be in the worker's hand when
it is put. `BacklogIs` says it whole: what was put is what was tried, then what is
in hand, then what waits in the queue before a shutdown mark, which is there only
once the server is closing; and `unfinished` counts exactly the queue and the
hand, which is what `Drain` waits for. For the extractor, the cache is shared by
all tenants and keyed by the question, so `AskInv` and `CacheInv` say that the
call under way is about the turn in hand and that every question ever answered
is the question of some turn; two turns with one question were shown the same
words, so an answer from the cache is an answer to the turn's own conversation.

`RelayProofs` proves, for any number of calls and connections:

- `RelayTypeCorrect` (with the types of futures), `LatestIsRoutedHolds`.
- `PromiseInvHolds` and `KeepsPromiseHolds`: `Spec => KeepsPromise`, every step
  of relay, network and connector is a step of `RelayPromise` or a stutter.

The invariant: a pending entry's future belongs to its call, a call is framed to
one connection at most once, and a response on its way was computed for the call
whose id it carries.

`OAuthProofs` proves, for any number of clients, logins, pairs, crashes and
failed writes: `OAuthTypeCorrect`, `OAuthInvHolds`, `AnsweredIsDurableHolds`,
`ReplacedStaysOutHolds`, `OneSessionPerLoginHolds`. The invariant says what the
handler in progress has committed by each step (`JobInv`), that an offered token
is out of the cache and a replaced one out of the sidecar, and that of the pairs
of a login all but one have been replaced (`OneLine`).

`SchemaProofs` proves, for any number of processes, openings and claims, and
files left by any version: `SchemaTypeCorrect`, `SchemaInvHolds`,
`OpenIsCompleteHolds`, and the action properties `MigrationDeletesNothingHolds`
and `WordsSurviveHolds`. The invariant: a process is past the statements before the
one it is at, so their effect is in the file or on record as given up
(`StepsTakenBy`); a stamped file lacks nothing else; one process rebuilds at a
time, with foreign keys off.

`UpkeepProofs` proves, for any number of processes, jobs, claims and sessions and
any threshold: `UpkeepTypeCorrect`, `CopiesInvHolds`, `CopiesAreCoveredHolds`,
`SupersededHasNoVectorHolds`, and the action property `PassSettlesHolds` from
`PassInvHolds`. The invariant has two layers. Whatever overlaps, a demoted claim
has an earlier one saying the same that was made canonical, was forgotten, or had
no metadata row to be made canonical in (`Anchored`); of the claims that qualify, consolidation has not demoted the
earliest, or that one would have an earlier one in its turn. While jobs run one
at a time, the canonical claim also names it (`NamedByOne`), because the claims
a pass is about to graduate include every live claim one of them names
(`Closed`): a graduation overwrites the sources of an earlier one without
losing a live copy.

`ServingProofs` proves, for any set of claims, turns and tokens, any ranking,
budget and limit, and however many requests, writes and grants there are:

- `ServingTypeCorrect`, `ServingInvHolds`, the inductive invariant of requests,
  and from it `ShownVerifiesHolds`, `CurrentUnlessOvertakenHolds` and the action
  properties `NoSlotWastedHolds`, `EverySessionHeardHolds`.
- `ScopeInvHolds`, the inductive invariant of calls, and from it
  `AnsweredInScopeHolds` and the action property `StoredInScopeHolds`.
- `BetterToolFirstHolds`, about `tool_discover`, from `FoundInv`.

The argument has three layers for requests and calls, and one more for tools. The first is about the operators of `Retrieval`,
whatever the ranking: a selection that leaves a slot unused has left no memory
out (`SlotsAreFilled`), and so has a merge of several sessions, which keeps each
session's reserved hits while their cap allows (`MergingSessions`,
`ReservingTheBest`); the packing of a working context keeps its budget and
leaves out nothing that would still fit (`Packing`). The second follows a request through its stages
(`ReqsOf`): each stage holds claims that were readable for the caller at some
moment since the request began (`Rankable`, `ReadClaims`), which is what makes
`CurrentUnlessOvertaken` inductive; the hook's entries follow the order of its
candidates until a conflict line puts two together (`Entered`); all of an answer
is recorded, still to be recorded, or forgotten (`Recording`). `ServingStep`
shows that every step of the server bears on a request in one of a few ways, so
that the many paths of `HttpServer` are looked at once. The third is about
scopes: until a call is admitted, what its token gives access to now is among
what it gave access to while the call lasted (`Asking`), because a grant made
between the two reads of the principals adds to `had`; from then on it keeps
that scope, and so does all it asks of the memory (`Admitted`, `AsksInScope`).
The resolved view stays inside because it is withheld when another tenant uses
the session's id, so that what it tells of another tenant came after that was
checked (`Checked`). The fourth is about ranks: a better score
ranks before (`RanksBetter`), a fused score is a fraction of products of ranks
(`ScoresAreFractions`), the order of these with the ids to break ties is strict
and total (`NotExceeded`, `ExceedsOneWay`), and a sequence in such an order,
cut anywhere, lists nothing before what precedes it (`InItsPlace`,
`FuseRanks`). Fusion counts positions, and a better score gains a position in
each channel only because the channels rank the same candidates; the lists a
discovery holds from one statement to the next are such (`Candidates`).

Assumptions: `ForgettingAssumption` (claims and turns are distinct, each claim
has a turn); `RulesAssumption` and `NLAssumption` in `ClaimRules` (types of the
constants; the marker of a natural-language match is not a predicate);
`ReadsAssumption` (values the reports take for one are one to Pass 1);
`ViewsAssumption` (some episodes stand in for missing facts);
`UpkeepEndings` (how claims are retired);
`SchemaAssumption` (the mark of what is absent is neither a process nor a
wording); `RetrievalAssumption` and `ServingAssumption` (finitely many claims and
turns, whose initial statuses are those the code writes; limits, budgets and
token costs are numbers; being alike is symmetric); `HttpAssumption` (a call
carries one of the tokens); `ToolsAssumption` (finitely many tools in the order
of their ids; scores are numbers); `BoundsAssumption` (the bounds of the queue are
numbers). TLC evaluates them in every run.

Every safety invariant and action property the passing runs check is the
statement of a theorem, for the behaviours named with it above. Only model-checked is the liveness under fairness of
`queue` (`EveryJobTried`, `CallsReturn`) and of `relay` (`EveryCallEnds`,
`BrainComesBack`, `StopEndsServing`): the prover has no rules for fairness. The
two runs that end in a violation show what is not so, and need no proof. The sums and packings of `Retrieval` and the walks of `Supersession`,
`Reads` and `Views` are recursive functions; what is proved of them comes from the existence
and uniqueness of running sums (`SumsExist`, `SumsAgree`) and of iterations
(`Iterates`). Where a
proof needs the least element of a set of numbers, it gets it from the
well-foundedness of strict inclusion on finite sets, which the library states
without an operator parameter (`Smallest` in `SupersessionProofs`,
`SchemaProofs`, `UpkeepProofs` and `ServingProofs`).

## What the models show beside the properties

Behaviours the models reach, or that reading the code for them brought up, which
no document denies. The properties are stated around them.

*Supersession.* A correction by hand retires one copy of a restated value and
leaves the others, so the brain may show the old value beside the new one. Two
overlapping corrections of one claim both stay current. A match that falls
between a claim's row and its metadata row reads the default trust, so
`TrustGuard` holds of handlers as atomic steps only.

*Reports.* The backward walk follows refusals too, so `explain_claim` and
`format_chain` may list a refused value that is still current as superseded.
Tracing a superseded claim by id labels it active; tracing a slot whose newest
claim is a record of the past shows no lineage. The forward walk leaves a live
head along the edge of an override it refused. `claims_grouped_by_subject_predicate`
takes the newest claim where the trusted head is another. The profile counts an
edge twice when both ends are in the slot, and every count includes refusals and
copies; `watch` lists refused overrides among changes, and a claim dismissed
after it was replaced drops out of "replaced n". Brain and projection read by
session id, whatever the tenant. A slot whose newest value was restated with
another closing punctuation loses its lineage, and reports the restatement as a
conflict.

*Forgetting.* Beside a worker (`Concurrent` true) a claim inserted between the
orphan count and the turn's deletion goes unaudited, and a row may be rebuilt
from claims about to vanish. A backfill that overlaps a forget writes the vector
of text that was redacted; a crash between a turn's redaction and the deletion
of its vector leaves the vector. The on-disk cache of vectors and the cached
model answers outlive a forget. Detecting no life events leaves the old ones in
place. A stored profile lags behind corrections.

*Extraction.* An error of the model is taken for "no claims", so the turn is
marked skipped for good; a malformed answer is cached like any other. A crash
loses the queue and nothing queues the pending turns again.

*Upkeep.* A process killed between the INSERT of a claim and that of its
metadata row leaves a claim nothing repairs; if it is the earliest of a recurring
fact, a pass demotes its copies behind it and records their sources nowhere. One
killed between superseding a claim and deleting its vector leaves the vector, and
no backfill looks for it. When the canonical claim is forgotten between the query for its copies
and the updates, copies are demoted with nothing to stand for them; overlapping
passes lose sources to each other. The recomputation in the same tick wipes the
floor of 0.9, so a later prune may hide the canonical claim itself. Backfill
reports as resolved what it did not write when the embedder fails. Dismissing a
claim leaves its vector. `embed_and_store` has no caller.

*Serving.* The hook's ledger lists the claims it ranked, while its conflict
lines show values of claims it does not list; working context, resolved view
and the pre-tool hook record nothing. The hook does not exclude demoted claims.
Working context reads a session whatever its tenant. Slots served may exceed the budget when an
episode vanishes mid-request; the budget across sessions counts hits. Two values
may each be of one kind with a third and not with each other
(`same_decision_kind`). That a session is shared is read before the resolved view
is, so a turn another tenant stores in between is told of.

*HTTP.* A scope is the one the token had when the call arrived. The message of
`_memory_write_message` and the anomaly check look beyond the namespace; the first
is modelled (`ShowWrite`), the second is not. `memory_store` and `memory_correct`
among the tools mounted at `/mcp`, which only a caller without a namespace reaches
(`MayEnter`), store in the default namespace; they are not modelled there, and
`StoredInScope` is about the API and the hooks.

*Tools.* Ranks break ties by position, so with three tools a channel in which all
score alike can reorder what the query decided. Vectors of mixed dimension make
`build_tool_index` raise. `tools reindex` never re-embeds, so a re-ingested tool
keeps the vector of its old text.

*Relay.* `stop()` between two sockets finds nothing to close and the connector
serves the next one. Hellos read out of order route the brain to its older
connection until that one closes. A send that fails leaves its entry in the
pending map; a send has no time-out.

*OAuth.* A crash between the deletion of a refresh token and the storing of its
heir ends the session. The old access token stays valid after a refresh, and
`revoke_token` has no caller in the package.

*Schema.* A lock time-out while a column is added is suppressed like "duplicate
column", so a stamped file may lack it (`hidden`). A second process that looked
at the table before the first one rebuilt it rebuilds again and may blank the
words of facts stored in between (`outdated`).

## Not modelled

- Text: classification, admission, anomaly scores, entities, tokens, formatting,
  prompts and the parsing of answers. A turn that is not admitted changes
  nothing; which claims an answer yields is a choice.
- Numbers: relevance, importance and volatility scores but for the thresholds
  and orders the properties tell apart. Ties of floats are ignored.
- Wall time: staleness, life spans, recency decay. The clock of `Ingest` never
  runs backwards.
- The login page and its back-off: logging in succeeds or does not happen.
- The command line's file and terminal I/O, client configuration, the event bus
  (nothing in the package subscribes to change state), the status endpoint, the
  activity log, access counts (`bump_access`).
- Event-frame embeddings and the on-disk cache of vectors.
- Validation of malformed triples, which raises before anything is written.
- Library entry points nothing in the package calls: `record_user_dismissal`,
  `retrieve_with_fallback`, `retrieve_expanded`, `build_context_briefing`,
  explicit validity windows, `InlineQueue`.

## What is left

Everything planned is done but one composition: `Forgetting` with
`Supersession`. `Forgetting` takes supersession as a choice of what an insert
retires and cascades edges with their claims, so that a lineage may lose its
head, which is among the hazards without a property. The others without one are
a correction whose target is replaced between its statements (`Ingest` has the
interleaving; no document says which of the two should win) and the pending
turns a crash leaves (`Extraction` has the crash; nothing in the code queues them
again, so no property holds of them).
