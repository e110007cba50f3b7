-------------------------------- MODULE Views --------------------------------
(***************************************************************************)
(* The reports memcontext makes of one and the same store: the brain and   *)
(* the projection of a session, the trace and the explanation of a claim,  *)
(* the volatility of a slot as three modules count it, the trust report,   *)
(* the statistics and the live view of `memcontext watch`.  None writes;   *)
(* each has queries of its own, and the properties say how far they tell   *)
(* one story.                                                              *)
(***************************************************************************)
EXTENDS Reads

CONSTANT FallbackEpisodes   \* episode_fallback_k
ASSUME ViewsAssumption == FallbackEpisodes \in Nat \ {0}

VARIABLE turns   \* the turns table

ViewInit == Init /\ turns = {}

Extracting == {inline[i] : i \in DOMAIN inline} \cup {queue[i] : i \in DOMAIN queue}

\* every turn is stored before anything is extracted from it
Stored == turns' = turns \cup Extracting' \cup {c.turn : c \in claims'}

ViewNext ==
    \/ Store /\ Stored
    \/ (ExtractNext \/ FinishInline \/ FinishDeferred) /\ Stored
    \/ UserAction /\ Stored

ViewSpec == ViewInit /\ [][ViewNext]_<<vars, turns>>

-----------------------------------------------------------------------------
(* A session: brain.py, projections.py                                     *)

\* Mutant: what was superseded is listed too.
ActiveOrSuperseded(sess) == {c \in claims \ dismissed : c.turn.sess = sess}

\* list_active_claims: whatever the tenant
ActiveClaims(sess) == {c \in live : c.turn.sess = sess}

MostRecent(S) == {t \in S : Cardinality({u \in S : u.no > t.no}) < FallbackEpisodes}

\* rebuild_active_projection: without facts, the latest episodes
Projection(sess) ==
    LET active == ActiveClaims(sess)
    IN [claims |-> active,
        episodes |-> IF active # {} THEN {} ELSE MostRecent({t \in turns : t.sess = sess})]

\* claims_grouped_by_subject_predicate: the newest of each slot, whatever its trust
NewestOf(S, subj, pred) == Newest({c \in S : c.subj = subj /\ c.pred = pred})

\* brain: a session's facts by subject, and the predicates a subject has none for
Brain(sess) ==
    LET facts == Projection(sess).claims
        of(subj) == {c \in facts : c.subj = subj}
    IN [subj \in {c.subj : c \in facts} |->
           [facts |-> of(subj), gaps |-> Preds \ {c.pred : c \in of(subj)}]]

-----------------------------------------------------------------------------
(* The evidence: memories.py                                               *)

\* Memory.state: what became of the claims derived from a turn
State(now, past) ==
    CASE now # {} /\ past # {} -> "mixed"
      [] now # {} /\ past = {} -> "current"
      [] now = {} /\ past # {} -> "historical"
      [] OTHER -> "no_claims"

\* get_memories, which query and prompt hook quote from
Memory(t) ==
    LET derived == {c \in claims : c.turn = t}
    IN [claims |-> derived, state |-> State(derived \cap live, derived \ live)]

-----------------------------------------------------------------------------
(* A claim: handle_memory_trace, chains.py, trace_view.py, provenance.py   *)

\* build_chain: a row per claim with the edge that led away from it
BuildChain(c) ==
    {[claim |-> c, edge |-> "active"]} \cup {[claim |-> e.old, edge |-> e.type] : e \in Chain(c)}

\* render_trace_table goes by the status of the row's claim, format_chain by its edge
TableLabel(row) ==
    IF row.claim \in live \/ row.edge = "active" THEN "ACTIVE" ELSE "SUPERSEDED"
TextLabel(row) == IF row.edge = "active" THEN "ACTIVE" ELSE "SUPERSEDED"

\* the forward walk of memory_trace: the newest edge, whatever its type
Forward(c) ==
    LET walk[n \in Nat] ==
          IF n = 0 THEN {c}
          ELSE walk[n - 1] \cup {Successor(d) : d \in {x \in walk[n - 1] : EdgesFrom(x) # {}}}
    IN walk[Cardinality(claims)]

\* what memory_trace tells of a claim
TraceOf(c) ==
    [lineage |-> BuildChain(c), chain |-> Forward(c), conflicts |-> SlotConflicts(c)]

\* explain_claim: what a value is said to have superseded, and by what edge
Explanation(c) == {<<e.old, e.type>> : e \in Chain(c)}

-----------------------------------------------------------------------------
(* A slot, a (subject, predicate) of any tenant: volatility.py, profiles.py,*)
(* trust_report.py                                                         *)

In(c, subj, pred) == c.subj = subj /\ c.pred = pred

\* _volatility_label
Tier(n) == IF n = 0 THEN "stable" ELSE IF n <= 2 THEN "evolving" ELSE "volatile"

\* classify_predicate counts the edges that stay inside the slot, refusals included
Volatility(subj, pred) ==
    Tier(Cardinality({e \in edges : In(e.old, subj, pred) /\ In(e.new, subj, pred)}))

\* _get_volatility_map joins an edge with each of its ends that is in the slot
ProfileVolatility(subj, pred) ==
    Tier(Cardinality({e \in edges : In(e.old, subj, pred)})
         + Cardinality({e \in edges : In(e.new, subj, pred)}))

\* trust_status counts the edges into the slot
TrustVolatility(subj, pred) == Tier(Cardinality({e \in edges : In(e.new, subj, pred)}))

-----------------------------------------------------------------------------
(* The store: trust_status and handle_memory_stats.  What has gone stale,  *)
(* which is a matter of wall time, is left out.                            *)

Quarantine == 40   \* QUARANTINE_THRESHOLD

TrustReport ==
    [active |-> Cardinality(live),
     superseded |-> Cardinality(superseded),
     trusted |-> Cardinality({c \in claims : Trust(c) >= 70}),
     neutral |-> Cardinality({c \in claims : Quarantine <= Trust(c) /\ Trust(c) < 70}),
     quarantined |-> Cardinality({c \in claims : Trust(c) < Quarantine}),
     edges |-> Cardinality(edges),
     contradictions |-> Cardinality({e \in edges : e.type = "contradicts"}),
     drift_blocked |-> Cardinality(drift),
     namespaces |-> [ns \in {t.ns : t \in turns} |->
                        Cardinality({t.sess : t \in {u \in turns : u.ns = ns}})]]

Stats ==
    [active_claims |-> Cardinality(live),
     superseded_claims |-> Cardinality(superseded),
     turns |-> Cardinality(turns)]

-----------------------------------------------------------------------------
(* memcontext watch (watch.py), each section in full: what fits the screen *)
(* is the newest rows of it.  What was served is in Serving.               *)

Captured == {[src |-> t.src, turn |-> t] : t \in turns}

\* a current fact and how many versions of its slot were replaced, whoever's
Decisions ==
    {[claim |-> c, replaced |-> Cardinality({o \in superseded : In(o, c.subj, c.pred)})] :
        c \in {d \in live : d.subj # NoSubject}}

\* was, now and why: a refused override is listed like a change that was made
Changes == {[was |-> e.old, now |-> e.new, why |-> e.type] : e \in edges}

MemoryView ==
    IF turns = {} THEN [captured |-> {}, decisions |-> {}, changes |-> {}]
    ELSE [captured |-> Captured, decisions |-> Decisions, changes |-> Changes]

-----------------------------------------------------------------------------
(* Properties. *)

\* In a slot that holds one present value the brain of every session, the newest
\* claim of its projection and the trace lead with that value, as far as the
\* session belongs to one tenant and nothing was corrected, which leaves the
\* copies of a value in place; and no session is shown empty that has turns.
OneStory ==
    \A sess \in Sessions :
        LET view == Projection(sess)
            brain == Brain(sess)
        IN /\ {t \in turns : t.sess = sess} # {} => view.claims \cup view.episodes # {}
           /\ nActions = 0 => \A subj \in DOMAIN brain \cap Subjects : \A pred \in SingleValued \ brain[subj].gaps :
                LET facts == {c \in brain[subj].facts : c.pred = pred}
                    newest == NewestOf(view.claims, subj, pred)
                    rows == LiveSlotRows(subj, pred, sess)
                IN (/\ Cardinality({c.turn.ns : c \in facts}) = 1
                    /\ \A c \in facts \cup rows : c.val \notin Historical /\ Uncontested(SlotOf(c)))
                   => /\ rows # {}
                      /\ \A c \in facts \cup newest : SameValue(c, SlotHead(rows))

\* The trace of a slot leads with what the user said last about it, however many
\* refused overrides, copies and corrections came before or after, unless the user
\* dismissed it or the embedder took a fact under another subject for its successor.
LastWordLeads ==
    \A subj \in Subjects, pred \in SingleValued, sess \in Sessions :
        LET rows == LiveSlotRows(subj, pred, sess)
            head == SlotHead(rows)
            said == {c \in claims : SameSlot(c, head) /\ c.turn.src = UserSays}
        IN rows # {} => \A u \in Newest(said) :
               \/ u \in dismissed
               \/ \E e \in EdgesFrom(u) : e.type = "semantic_replace"
               \/ SameValue(u, head)

\* The two renderings of a lineage agree on what is current, wherever no refused
\* override lies on it, and so does the explanation: what it says was superseded
\* no longer is current.  The forward walk from a superseded claim passes the
\* claim that took its place.  Where a refused override left two current values,
\* tracing either claim names the other's value.
TracesAgree ==
    /\ \A c \in live :
          (\A e \in Chain(c) : Replaces(e)) =>
              /\ \A row \in TraceOf(c).lineage : TableLabel(row) = TextLabel(row)
              /\ \A why \in Explanation(c) : why[1] \notin live
    /\ \A c \in superseded : TraceOf(c).chain \cap (live \cup dismissed) # {}
    /\ \A e \in Contradictions : SameSlot(e.old, e.new) =>
            /\ Plain[e.new.val] \in TraceOf(e.old).conflicts
            /\ Plain[e.old.val] \in TraceOf(e.new).conflicts

\* A slot the profile calls stable is stable to the others too, and none of its
\* claims was superseded.
StableIsStable ==
    \A subj \in Subjects, pred \in Preds :
        ProfileVolatility(subj, pred) = "stable" =>
            /\ Volatility(subj, pred) = "stable" /\ TrustVolatility(subj, pred) = "stable"
            /\ \A c \in superseded : ~In(c, subj, pred)

\* The trust report counts as blocked the overrides whose edges the guard made
\* contradictions, and no more claims superseded than edges that replaced one.
ReportsAddUp ==
    LET report == TrustReport
    IN /\ report.drift_blocked = Cardinality({e \in edges : Blocked(e.new, e.old)})
       /\ report.superseded <= report.edges - report.contradictions
       /\ report.trusted + report.neutral + report.quarantined
            = Stats.active_claims + Stats.superseded_claims + Cardinality(dismissed)

\* A memory passes for current, in part or in whole, just when the brain of its
\* session shows a fact of it, and what is wholly of the past was dismissed or
\* replaced by a claim of another memory.
EvidenceAgrees ==
    \A t \in turns :
        LET m == Memory(t)
            brain == Brain(t.sess)
            facts == UNION {brain[subj].facts : subj \in DOMAIN brain}
        IN /\ m.state \in {"current", "mixed"} <=> facts \cap m.claims # {}
           /\ m.state = "historical" =>
                \A c \in m.claims \ dismissed : \E d \in TraceOf(c).chain : d.turn # t

\* A decision on the screen is said to have replaced at least the versions of its
\* slot that its trace shows replaced, one by one, bar those dismissed since.  But
\* for refused overrides, what a change replaced is on the screen as a decision no
\* more, and what replaced it is there unless something became of it too.
WatchAgrees ==
    LET screen == MemoryView
        current == {row.claim : row \in screen.decisions}
    IN /\ \A row \in screen.decisions :
             row.replaced >= Cardinality({r \in TraceOf(row.claim).lineage :
                 /\ r.edge \notin {"active", "contradicts"} /\ r.claim \notin dismissed
                 /\ In(r.claim, row.claim.subj, row.claim.pred)})
       /\ \A row \in screen.changes : row.why # "contradicts" =>
             /\ row.was \notin current
             /\ row.now.subj # NoSubject =>
                    row.now \in current \/ row.now \in dismissed
                    \/ \E next \in screen.changes : next.was = row.now /\ next.why # "contradicts"

\* Stated of an idle server: what a store looks like halfway through an extraction
\* it also looks like when the extraction finds no more, so no case is lost.
ViewsAgree ==
    Idle => /\ OneStory /\ EvidenceAgrees /\ WatchAgrees
            /\ LastWordLeads /\ TracesAgree
            /\ StableIsStable /\ ReportsAddUp
=============================================================================
