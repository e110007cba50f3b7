------------------------------- MODULE Serving -------------------------------
(***************************************************************************)
(* The doors memory leaves by, memory_query and memory_working_context of  *)
(* mcp_tools.py and the prompt hook of http_server.py, and the ledger that *)
(* says what the first and the last gave out (serve_events, read by        *)
(* memory_verify).  A request reads and writes in many autocommitted       *)
(* statements.  One request runs at a time: requests disturb each other    *)
(* only through the ledger, which they only add to.  Between two           *)
(* statements other processes store turns and claims of them, and          *)
(* supersede, dismiss or forget claims.                                    *)
(* Turns and claims are numbered by creation; relevance, a number in the   *)
(* code, is any order.  HttpServer says who makes the requests.            *)
(***************************************************************************)
EXTENDS Retrieval

CONSTANTS
    Turns,
    OldTurns,       \* turns that are there at first and yielded no claim
    SessOf, NsOf,   \* session and namespace of a turn; two tenants may use one session id
    Requests,       \* [door, session, ns, history] of "query", "context", "hook" requests
    None,           \* the session_id or namespace not given
    Alike,          \* same_decision_kind: pairs of single-valued claims, in both orders
    LineOf,         \* the line the hook shows for a claim; restatements share theirs
    MaxNested,      \* MAX_NESTED_CLAIMS
    MaxLines,       \* _PROMPT_CONTEXT_MAX_LINES
    MaxValues,      \* _CONFLICT_MAX_VALUES
    InitialStatus,  \* the statuses claims may have at first
    Demotable,      \* the claims that may be demoted at first
    MaxWrites,      \* bound: turns stored, claims superseded, dismissed or forgotten
    MaxRequests     \* bound: requests made

VARIABLES
    turns,     \* rows of turns
    status,    \* status[c]: "unsaid" (not stored yet), "live", "superseded", "dismissed"
               \* or "forgotten" (deleted)
    demoted,   \* claims with claim_metadata.demoted = 1
    ledger,    \* <<request session, claim>> of the rows of serve_events
    req,       \* the request under way
    shown,     \* <<how, request session, claim>> of all that was ever answered
    overtaken, \* claims retired, and turns deleted, since the request began
    spent      \* what is used up of the bounds

vars == <<turns, status, demoted, ledger, req, shown, overtaken, spent>>
store == <<turns, status, demoted>>

Claims == DOMAIN TurnOf
ASSUME ServingAssumption ==
    /\ TurnOf \in [Claims -> Turns] /\ OldTurns \subseteq Turns /\ Claims \subseteq Nat /\ Turns \subseteq Nat
    /\ Demotable \subseteq Claims
    /\ InitialStatus \subseteq [Claims -> {"unsaid", "live", "superseded", "dismissed"}]
    /\ SessOf \in [Turns -> Nat \ {0}]
    /\ \A p \in Alike : <<p[2], p[1]>> \in Alike
    /\ IsFiniteSet(Claims) /\ IsFiniteSet(Turns)
    /\ {MaxNested, MaxLines, MaxValues} \subseteq Nat
    /\ Toks.fact \in [Claims -> Nat] /\ Toks.episode \in [Turns -> Nat]

Idle == [at |-> "idle"]
Stored == {c \in Claims : status[c] \notin {"unsaid", "forgotten"}}
Historical == {c \in Claims : status[c] \in {"superseded", "dismissed"}}
Live == {c \in Claims : status[c] = "live"}
InNs(t, ns) == ns = None \/ NsOf[t] = ns
NewestFirst(S) == InOrder(S, >)

Init ==
    /\ status \in InitialStatus
    /\ turns = {TurnOf[c] : c \in Stored} \cup OldTurns
    /\ demoted \in SUBSET (Demotable \cap Stored)
    /\ ledger = {} /\ shown = {} /\ req = Idle /\ overtaken = {}
    /\ spent = [writes |-> 0, requests |-> 0]

-----------------------------------------------------------------------------
(* The other processes                                                     *)

Write == spent.writes < MaxWrites /\ spent' = [spent EXCEPT !.writes = @ + 1]

\* a turn that was never stored
Fresh(t) == t \in Turns \ turns /\ \A c \in Claims : TurnOf[c] = t => status[c] = "unsaid"

\* a turn is stored, of any tenant and session
OtherTurn(t) ==
    /\ Write /\ Fresh(t)
    /\ turns' = turns \cup {t}
    /\ UNCHANGED <<status, demoted, ledger, req, shown, overtaken>>

\* a claim is extracted from a stored turn
Learn(c) ==
    /\ status[c] = "unsaid" /\ TurnOf[c] \in turns
    /\ status' = [status EXCEPT ![c] = "live"]
    /\ UNCHANGED <<turns, demoted, ledger, req, shown, overtaken, spent>>

\* a claim is superseded or dismissed
Retire(c, s) ==
    /\ Write /\ c \in Live
    /\ status' = [status EXCEPT ![c] = s]
    /\ overtaken' = overtaken \cup {<<"claim", c>>}
    /\ UNCHANGED <<turns, demoted, ledger, req, shown>>

\* a claim is deleted, and by cascade its metadata and serve events
Forget(c) ==
    /\ Write /\ c \in Stored
    /\ status' = [status EXCEPT ![c] = "forgotten"]
    /\ demoted' = demoted \ {c}
    /\ ledger' = {e \in ledger : e[2] # c}
    /\ overtaken' = overtaken \cup {<<"claim", c>>}
    /\ UNCHANGED <<turns, req, shown>>

\* then its turn, when no claim is left of it
DropTurn(t) ==
    /\ t \in turns
    /\ {c \in Claims : TurnOf[c] = t} # {}
    /\ \A c \in Claims : TurnOf[c] = t => status[c] = "forgotten"
    /\ turns' = turns \ {t}
    /\ overtaken' = overtaken \cup {<<"turn", t>>}
    /\ UNCHANGED <<status, demoted, ledger, req, shown, spent>>

-----------------------------------------------------------------------------
(* memory_query: rank every session in reach, facts before episodes        *)

Open(q) ==
    /\ req = Idle /\ q \in Requests
    /\ overtaken' = {}
    /\ UNCHANGED <<store, ledger, shown, spent>>

\* The sessions to search: none when the caller's tenant has no turn in its session.
\* A working context is queried by the session's last turns, whatever their tenant.
Begin(q) ==
    /\ q.door \in {"query", "context"} /\ Open(q)
    /\ LET reach == {SessOf[t] : t \in {u \in turns : InNs(u, q.ns)}}
           todo == IF q.session = None THEN reach ELSE reach \cap {q.session}
       IN req' = IF todo = {} THEN Idle
                 ELSE [at |-> "facts", q |-> q, todo |-> todo, pools |-> <<>>]

\* Mutant: a question about the present ranks superseded facts.
FactsOfAllTimes(q, s) ==
    {c \in Stored \ demoted :
        /\ SessOf[TurnOf[c]] = s /\ InNs(TurnOf[c], q.ns)
        /\ status[c] \in {"live", "superseded"}}

\* what retrieve_hybrid may rank: current facts, for a question about the past
\* superseded ones too
RankableFacts(q, s) ==
    {c \in Stored \ demoted :
        /\ SessOf[TurnOf[c]] = s /\ InNs(TurnOf[c], q.ns)
        /\ status[c] = "live" \/ (q.history /\ status[c] = "superseded")}

RankFacts ==
    /\ req.at = "facts"
    /\ \E order \in SetToSeqs(RankableFacts(req.q, Min(req.todo))) :
         req' = [at |-> "episodes", q |-> req.q, todo |-> req.todo, pools |-> req.pools,
                 facts |-> Cut(order, TopK)]
    /\ UNCHANGED <<store, ledger, shown, overtaken, spent>>

RankEpisodes ==
    /\ req.at = "episodes"
    /\ LET s == Min(req.todo)
           rest == req.todo \ {s}
       IN \E order \in SetToSeqs({t \in turns : SessOf[t] = s /\ InNs(t, req.q.ns)}) :
            req' = [at |-> IF rest = {} THEN "select" ELSE "facts", q |-> req.q, todo |-> rest,
                    pools |-> Append(req.pools,
                        [facts |-> req.facts, episodes |-> Cut(order, TopK)])]
    /\ UNCHANGED <<store, ledger, shown, overtaken, spent>>

\* the working context is what a token budget has room for, and is not recorded
PackContext ==
    /\ req.at = "select" /\ req.q.door = "context"
    /\ LET hits == FuseMemory(req.pools[1])
       IN req' = [at |-> "packed", q |-> req.q, hits |-> hits, facts |-> Packed(hits)]
    /\ UNCHANGED <<store, ledger, shown, overtaken, spent>>

WorkingContext ==
    /\ req.at = "packed"
    /\ req' = Idle
    /\ UNCHANGED <<store, ledger, shown, overtaken, spent>>

Select ==
    /\ req.at = "select" /\ req.q.door = "query"
    /\ req' = [at |-> "fetch", q |-> req.q, claims |-> <<>>, episodes |-> <<>>,
               hits |-> IF req.q.session = None THEN Across(req.pools)
                        ELSE FuseMemory(req.pools[1]),
               budget |-> IF req.q.session = None THEN AcrossBudget(req.pools) ELSE TopK]
    /\ UNCHANGED <<store, ledger, shown, overtaken, spent>>

\* each hit is read again; one that vanished is passed over, one retired
\* meanwhile is served with its new status
Fetch ==
    /\ req.at = "fetch" /\ req.hits # <<>>
    /\ LET h == Head(req.hits)
           on == [req EXCEPT !.hits = Tail(@)]
       IN req' = CASE h.kind = "fact" /\ h.id \in Stored ->
                        [on EXCEPT !.claims = Append(@, <<h.id, status[h.id]>>)]
                   [] h.kind = "episode" /\ h.id \in turns ->
                        [on EXCEPT !.episodes = Append(@, h.id)]
                   [] OTHER -> on
    /\ UNCHANGED <<store, ledger, shown, overtaken, spent>>

Ids(claims) == [i \in DOMAIN claims |-> claims[i][1]]

Nested(t, top) == Cut(NewestFirst({c \in Historical \ top : TurnOf[c] = t}), MaxNested)

\* Mutant: only what was ranked goes to the ledger.
AnnotateUnlisted ==
    /\ req.at = "fetch" /\ req.hits = <<>>
    /\ LET top == Ids(req.claims)
           served == Taken(req.episodes, {i \in DOMAIN req.episodes : req.episodes[i] \in turns})
           nested == FlattenSeq([i \in DOMAIN served |-> Nested(served[i], Range(top))])
       IN req' = [at |-> "record", q |-> req.q, claims |-> req.claims, episodes |-> served,
                  budget |-> req.budget, answer |-> Range(top \o nested), todo |-> top]
    /\ UNCHANGED <<store, ledger, shown, overtaken, spent>>

\* annotate_served_evidence reads the turns and their claims, then every claim
\* of the answer is to be recorded.  bump_access, just before, counts a use of
\* the ranked claims: it bears on nothing but later rankings.
Annotate ==
    /\ req.at = "fetch" /\ req.hits = <<>>
    /\ LET top == Ids(req.claims)
           served == Taken(req.episodes, {i \in DOMAIN req.episodes : req.episodes[i] \in turns})
           nested == FlattenSeq([i \in DOMAIN served |-> Nested(served[i], Range(top))])
       IN req' = [at |-> "record", q |-> req.q, claims |-> req.claims, episodes |-> served,
                  budget |-> req.budget, answer |-> Range(top \o nested),
                  todo |-> top \o nested]
    /\ UNCHANGED <<store, ledger, shown, overtaken, spent>>

\* request_session_id, 0 standing for "__cross_session__"
Asker(q) == IF q.session = None THEN 0 ELSE q.session

\* a row per claim; the foreign key of one forgotten meanwhile makes the INSERT
\* raise and the request fail, with the rows before it committed
Record ==
    /\ req.at = "record" /\ req.todo # <<>>
    /\ LET c == Head(req.todo)
       IN IF c \in Stored
          THEN /\ ledger' = ledger \cup {<<Asker(req.q), c>>}
               /\ req' = [req EXCEPT !.todo = Tail(@)]
          ELSE req' = Idle /\ UNCHANGED ledger
    /\ UNCHANGED <<store, shown, overtaken, spent>>

\* an answer of the query, of the hook, or of the hook with values put together
How(r) == CASE r.q.door = "query" -> "query"
            [] r.q.door = "hook" -> IF r.plain THEN "hook" ELSE "grouped"

-----------------------------------------------------------------------------
(* The resolved view that comes with a query of one session.  It is made   *)
(* of views built one after the other, and is not recorded in the ledger.  *)

\* Mutant: no session is taken for shared.
NeverShared(q) == FALSE

\* the session id is also used in another namespace
SharedSession(q) ==
    q.ns # None /\ \E t \in turns : SessOf[t] = q.session /\ NsOf[t] # q.ns

\* the entity links go with the events
Views == <<"world_state", "briefing", "events", "life_events", "contradictions">>

\* The views go by session id, so they are withheld from a tenant whose session id
\* another one uses.  Whether it does is read before they are: known, the turns
\* there then, is for the property.
CheckShared ==
    /\ req.at = "record" /\ req.todo = <<>> /\ req.q.door = "query"
    /\ req' = [at |-> "views", q |-> req.q, answer |-> req.answer, episodes |-> req.episodes,
               told |-> {}, known |-> turns,
               left |-> IF req.q.session = None \/ SharedSession(req.q) THEN <<>> ELSE Views]
    /\ UNCHANGED <<store, ledger, shown, overtaken, spent>>

\* the claims a view may tell of: the session's current facts, what the tenant's
\* facts of every session say of the user, and events put together from either
ToldBy(view, q) ==
    LET session == {c \in Stored : SessOf[TurnOf[c]] = q.session}
        tenant == {c \in Live : InNs(TurnOf[c], q.ns)}
    IN CASE view \in {"world_state", "contradictions"} -> session \cap Live
         [] view = "briefing"    -> tenant
         [] view = "events"      -> session
         [] view = "life_events" -> IF q.ns = None THEN Stored ELSE tenant

BuildView ==
    /\ req.at = "views" /\ req.left # <<>>
    /\ req' = [req EXCEPT !.left = Tail(@), !.told = @ \cup ToldBy(Head(req.left), req.q)]
    /\ UNCHANGED <<store, ledger, shown, overtaken, spent>>

-----------------------------------------------------------------------------
\* both doors answer once everything is recorded, a query with its views
Answer ==
    /\ \/ req.at = "record" /\ req.todo = <<>> /\ req.q.door = "hook"
       \/ req.at = "views" /\ req.left = <<>>
    /\ shown' = shown \cup ({How(req)} \X {Asker(req.q)} \X req.answer)
    /\ req' = Idle
    /\ UNCHANGED <<store, ledger, overtaken, spent>>

-----------------------------------------------------------------------------
(* The prompt hook: current facts that share words with the prompt         *)

HookReach(ns) == {c \in Live : InNs(TurnOf[c], ns)}

\* any of them may match, in any order; demoted claims match too
HookRank(q) ==
    /\ q.door = "hook" /\ Open(q)
    /\ \E matching \in (SUBSET HookReach(q.ns)) \ {{}} : \E order \in SetToSeqs(matching) :
         LET candidates == Cut(order, 2 * MaxLines)
         IN req' = [at |-> "entries", q |-> q, candidates |-> candidates, left |-> candidates,
                    consumed |-> {}, entries |-> <<>>, repeats |-> FALSE]

\* live_same_kind
LiveAlike(c, ns) == {d \in Live : <<c, d>> \in Alike /\ InNs(TurnOf[d], ns)}

\* _with_conflicts, a query per candidate: its own line, unless the same line is
\* there, or one entry for all the current values of the same decision
HookEntry ==
    /\ req.at = "entries" /\ req.left # <<>>
    /\ LET c == Head(req.left)
           group == LiveAlike(c, req.q.ns)
           said == UNION {{LineOf[d] : d \in e.shows} : e \in {x \in Range(req.entries) : ~x.conflict}}
           entry == IF Cardinality(group) >= 2
                    THEN [conflict |-> TRUE, shows |-> Range(Cut(NewestFirst(group), MaxValues))]
                    ELSE [conflict |-> FALSE, shows |-> {c}]
           on == [req EXCEPT !.left = Tail(@)]
       IN req' = CASE c \in req.consumed -> on
                   [] c \notin req.consumed /\ ~entry.conflict /\ LineOf[c] \in said ->
                        [on EXCEPT !.repeats = TRUE]
                   [] OTHER -> [on EXCEPT
                        !.consumed = IF entry.conflict THEN @ \cup group ELSE @,
                        !.entries = Append(@, entry)]
    /\ UNCHANGED <<store, ledger, shown, overtaken, spent>>

\* The first candidates are recorded, the first entries rendered, as many of
\* them as _CONTEXT_MAX_CHARS has room for.
HookRender(n) ==
    /\ req.at = "entries" /\ req.left = <<>>
    /\ n \in 1 .. Min({MaxLines, Len(req.entries)})
    /\ LET lines == Cut(req.entries, n)
       IN req' = [at |-> "record", q |-> req.q, answer |-> UNION {e.shows : e \in Range(lines)},
                  plain |-> ~req.repeats /\ \A e \in Range(lines) : ~e.conflict,
                  todo |-> Cut(req.candidates, MaxLines)]
    /\ UNCHANGED <<store, ledger, shown, overtaken, spent>>

-----------------------------------------------------------------------------
\* what other processes do
OtherProcesses ==
    \/ \E c \in Claims : Learn(c) \/ Forget(c) \/ \E s \in {"superseded", "dismissed"} : Retire(c, s)
    \/ \E t \in Turns : OtherTurn(t) \/ DropTurn(t)

\* what either door does before it knows its answer
RequestStep ==
    \/ RankFacts \/ RankEpisodes \/ PackContext \/ Select \/ Fetch \/ Annotate
    \/ CheckShared \/ BuildView \/ HookEntry

-----------------------------------------------------------------------------
Stages == {"idle", "facts", "episodes", "select", "packed", "fetch", "record", "views", "entries"}
Sessions == {SessOf[t] : t \in Turns}
Served == {Asker(q) : q \in Requests} \X Claims

TypeOK ==
    /\ turns \subseteq Turns
    /\ status \in [Claims -> {"unsaid", "live", "superseded", "dismissed", "forgotten"}]
    /\ demoted \subseteq Stored
    /\ ledger \subseteq Served
    /\ shown \subseteq {<<h, e[1], e[2]>> : h \in {"query", "hook", "grouped"}, e \in Served}
    /\ \A e \in ledger : e[2] \in Stored
    /\ \A c \in Stored : TurnOf[c] \in turns
    /\ req.at \in Stages
    /\ overtaken \subseteq ({"claim"} \X Claims) \cup ({"turn"} \X Turns)

\* memory_verify
Verified(session, ids) == ids # {} /\ \A c \in ids : <<session, c>> \in ledger

\* Whatever a query answered, ranked or nested under an episode, memory_verify
\* confirms in the session that asked for as long as the claim exists, whatever
\* became of it since.  So it does for the prompt hook, as long as no entry put
\* several values together and no candidate was left out for repeating a line: then
\* what is rendered reaches further than what is recorded.
ShownVerifies ==
    \A e \in shown : e[1] # "grouped" /\ e[3] \in Stored => Verified(e[2], {e[3]})

\* Unless it asks about the past, a query is ranked only claims that were current
\* at some time since it began; nor does a working context hold others.
CurrentUnlessOvertaken ==
    /\ req.at = "record" /\ req.q.door = "query" /\ ~req.q.history =>
        \A i \in DOMAIN req.claims :
            req.claims[i][2] = "live" \/ <<"claim", req.claims[i][1]>> \in overtaken
    /\ req.at = "packed" /\ ~req.q.history =>
        \A h \in Range(req.facts) :
            h.kind = "fact" => h.id \in Live \/ <<"claim", h.id>> \in overtaken

\* No slot stays empty while a memory that was ranked, or for a query of all
\* sessions one that its session selected, is not represented.  A working context
\* keeps to its tokens and has not enough left for anything it leaves out.
NoSlotWasted ==
    [][/\ Select /\ Slots(req'.hits) < req'.budget =>
            \A p \in Range(req.pools) :
                Memories(IF req.q.session = None THEN FuseMemory(p) ELSE Fused(p))
                    \subseteq Memories(req'.hits)
       /\ PackContext =>
            /\ TokensUsed(req'.facts) <= TokenBudget
            /\ \A h \in Range(req'.hits) \ Range(req'.facts) :
                   TokensUsed(req'.facts) + Toks[h.kind][h.id] > TokenBudget]_vars

\* A query of all sessions serves the best per_session_k hits of each of them,
\* unless that reaches the ceiling.
EverySessionHeard ==
    [][Select => \/ req.q.session # None
                 \/ Cardinality(Kept(req.pools)) > MaxAcrossHits
                 \/ \A p \in Range(req.pools) :
                        Range(Cut(Fused(p), Min({TopK, PerSessionK}))) \subseteq Range(req'.hits)]_vars
===============================================================================
