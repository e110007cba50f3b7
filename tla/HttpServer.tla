------------------------------ MODULE HttpServer ------------------------------
(***************************************************************************)
(* The HTTP server of http_server.py: whose bearer token a call carries    *)
(* (authz.py), and what that lets it read and store: the memory API, the   *)
(* three hooks, and the MCP tools mounted at /mcp.  Handlers run one at a  *)
(* time, under the lock of the shared connection; the command line grants  *)
(* principals their scope, and other processes change the claims, at any   *)
(* time.  A stored turn yields its claims later (Learn), as Ingest says.   *)
(***************************************************************************)
EXTENDS Tools

CONSTANTS
    Tokens, OwnToken, \* OwnToken: the server's own token
    Calls,          \* [token, path] of the calls that may arrive
    FirstGrants,    \* the principals there may be at first
    Grants,         \* <<token, scope>> the command line may grant
    Default         \* the namespace of what is stored without one

VARIABLES
    principals, \* principals[k]: [ns, write] of the principal of a token, None without one
    call        \* the call under way or answered

allvars == <<vars, toolvars, principals, call>>

ASSUME HttpAssumption == \A c \in Calls : c.token \in Tokens

Whole == [ns |-> None, write |-> TRUE]
Registered(p) == {k \in Tokens : p[k] # None}

\* what a token gives access to
ScopesOf(k, p) ==
    IF Registered(p) = {} THEN (IF k = OwnToken THEN {Whole} ELSE {})
    ELSE {p[k]} \ {None}

\* the turns an answer quotes or tells a claim of
Sources(r) ==
    IF r.q.door = "query"
    THEN {TurnOf[c] : c \in r.answer \cup r.told} \cup Range(r.episodes)
    ELSE {TurnOf[c] : c \in r.answer}

\* those the views tell of that came after it was read whether the session is shared
Late(r) == IF r.q.door = "query" THEN {TurnOf[c] : c \in r.told} \ r.known ELSE {}

\* unchecked: the turns of an answer that no check of the namespace was made for
NoCall == [at |-> "done", had |-> {}, answer |-> {}, unchecked |-> {}]
DoneBut(answer, unchecked) ==
    [at |-> "done", had |-> call.had, answer |-> answer, unchecked |-> unchecked]
Done(answer) == DoneBut(answer, {})

HttpInit == Init /\ ToolsInit /\ principals \in FirstGrants /\ call = NoCall

-----------------------------------------------------------------------------
(* Who is calling                                                          *)

\* `memcontext grant`
Grant(k, s) ==
    /\ Write /\ principals' = [principals EXCEPT ![k] = s]
    /\ call' = IF call.at = "done" THEN call
               ELSE [call EXCEPT !.had = @ \cup ScopesOf(call.token, principals')]
    /\ UNCHANGED <<store, ledger, shown, req, overtaken, toolvars>>

\* had: every scope the call's token has while the call lasts
Arrive(c) ==
    /\ call.at = "done" /\ req = Idle
    /\ spent.requests < MaxRequests /\ spent' = [spent EXCEPT !.requests = @ + 1]
    /\ call' = [at |-> "arrived", token |-> c.token, path |-> c.path, claim |-> 0,
                had |-> ScopesOf(c.token, principals), answer |-> {}]
    /\ UNCHANGED <<store, ledger, shown, req, overtaken, toolvars, principals>>

Storing == {"store", "post_tool", "prompt"}

\* Mutant: the prompt hook is taken for a read.
MayEnterPrompt(path, s) ==
    (path \in {"mcp", "discover"} => s.ns = None) /\ (path \in {"store", "post_tool"} => s.write)

\* the tools at /mcp know no namespace, and what stores a turn is not for readers
MayEnter(path, s) ==
    (path \in {"mcp", "discover"} => s.ns = None) /\ (path \in Storing => s.write)

Enter(s) == call' = IF MayEnter(call.path, s)
                    THEN [at |-> "admitted", path |-> call.path, scope |-> s, token |-> call.token,
                          had |-> call.had, answer |-> {}, claim |-> 0]
                    ELSE Done({})

\* any_principals: the server's own token counts until someone is registered
AnyPrincipals ==
    /\ call.at = "arrived"
    /\ IF Registered(principals) # {} THEN call' = [call EXCEPT !.at = "resolve"]
       ELSE IF call.token = OwnToken THEN Enter(Whole)
       ELSE call' = Done({})
    /\ UNCHANGED <<vars, toolvars, principals>>

ResolvePrincipal ==
    /\ call.at = "resolve"
    /\ IF principals[call.token] = None THEN call' = Done({})
       ELSE Enter(principals[call.token])
    /\ UNCHANGED <<vars, toolvars, principals>>

-----------------------------------------------------------------------------
(* Reading: /api/memory/query and /trace, and the hooks before a tool or   *)
(* at a prompt                                                             *)

At(paths) == call.at = "admitted" /\ call.path \in paths

CallQuery(q) ==
    /\ At({"query", "mcp"}) /\ q.ns = (IF call.path = "mcp" THEN None ELSE call.scope.ns)
    /\ q.door = "context" => call.path = "mcp"
    /\ Begin(q)
    /\ call' = IF req' = Idle THEN Done({}) ELSE [call EXCEPT !.at = "serving"]
    /\ UNCHANGED <<toolvars, principals>>

\* a prompt or tool input no current claim shares a word with; the text of a
\* prompt that is not admitted is neither looked up nor stored
CallHook(q) ==
    /\ At({"prompt", "pre_tool"}) /\ q.ns = call.scope.ns
    /\ HookRank(q) /\ call' = [call EXCEPT !.at = "serving"]
    /\ UNCHANGED <<toolvars, principals>>

HookFindsNothing ==
    /\ At({"prompt", "pre_tool"})
    /\ call' \in {Done({})} \cup IF call.path = "prompt" THEN {[call EXCEPT !.at = "storing"]} ELSE {}
    /\ UNCHANGED <<vars, toolvars, principals>>

\* a prompt is stored after the answer to it is made, an answer that fails
\* leaves it unstored
Serve ==
    /\ call.at = "serving" /\ UNCHANGED <<toolvars, principals>>
    /\ \/ RequestStep /\ UNCHANGED call
       \/ \E n \in 1 .. MaxLines : call.path = "prompt" /\ HookRender(n) /\ UNCHANGED call
       \/ WorkingContext /\ call' = Done({h.turn : h \in Range(req.facts)})
       \/ Record /\ call' = IF req' = Idle THEN Done({}) ELSE call
       \/ Answer /\ call' = IF call.path = "prompt"
                            THEN [call EXCEPT !.at = "storing", !.answer = Sources(req)]
                            ELSE DoneBut(Sources(req), Late(req))

\* _tool_context shows the first entries and records nothing
ToolRender(n) ==
    /\ call.at = "serving" /\ call.path = "pre_tool"
    /\ req.at = "entries" /\ req.left = <<>> /\ n \in 1 .. Min({MaxLines, Len(req.entries)})
    /\ call' = Done({TurnOf[c] : c \in UNION {e.shows : e \in Range(Cut(req.entries, n))}})
    /\ req' = Idle
    /\ UNCHANGED <<store, ledger, shown, overtaken, spent, toolvars, principals>>

\* _claim_in_namespace, which a scoped caller's trace asks first
TraceAllowed(c) ==
    /\ At({"trace"})
    /\ call' = IF call.scope.ns = None \/ (c \in Stored /\ NsOf[TurnOf[c]] = call.scope.ns)
               THEN [call EXCEPT !.at = "tracing", !.claim = c] ELSE Done({})
    /\ UNCHANGED <<vars, toolvars, principals>>

Trace ==
    /\ call.at = "tracing"
    /\ call' = Done({TurnOf[c] : c \in {call.claim} \cap Stored})
    /\ UNCHANGED <<vars, toolvars, principals>>

-----------------------------------------------------------------------------
(* tool_discover at /mcp                                                   *)

Discover ==
    /\ At({"discover"}) /\ LoadCandidates
    /\ call' = [call EXCEPT !.at = "discovering"]
    /\ UNCHANGED <<vars, principals>>

DiscoverStep ==
    /\ call.at = "discovering" /\ UNCHANGED <<vars, principals>>
    /\ \/ \E s \in Sessions \cup {None} : Instruct(s) /\ UNCHANGED call
       \/ RankTools /\ call' = Done({TurnOf[c] : c \in found.memory})
       \/ found.at = "listed" /\ call' = Done({}) /\ UNCHANGED toolvars

-----------------------------------------------------------------------------
(* Storing: /api/memory/store, and the hooks after a tool and at a prompt  *)

\* a turn in the caller's namespace; text that is not admitted, and tools that
\* change nothing, are not kept
StoreTurn(t) ==
    /\ At({"store", "post_tool"}) \/ call.at = "storing"
    /\ Fresh(t)
    /\ NsOf[t] = IF call.scope.ns = None THEN Default ELSE call.scope.ns
    /\ turns' = turns \cup {t}
    /\ call' = Done(call.answer)
    /\ UNCHANGED <<status, demoted, ledger, req, shown, overtaken, spent, toolvars, principals>>

StoreNothing ==
    /\ At({"store", "post_tool"})
    /\ call' = Done({})
    /\ UNCHANGED <<vars, toolvars, principals>>

\* With MEMCONTEXT_HOOK_VISIBLE the hook after a call of memory_store or
\* memory_correct shows the claims the call is said to have made, by their ids, and
\* those they replaced, whatever their namespace.
ShowWrite(C) ==
    /\ At({"post_tool"}) /\ C \subseteq Stored
    /\ LET told == {TurnOf[c] : c \in C} IN call' = DoneBut(told, told)
    /\ UNCHANGED <<vars, toolvars, principals>>

-----------------------------------------------------------------------------
HttpNext ==
    \/ \E c \in Calls : Arrive(c)
    \/ AnyPrincipals \/ ResolvePrincipal
    \/ \E q \in Requests : CallQuery(q) \/ CallHook(q)
    \/ HookFindsNothing \/ Serve \/ \E n \in 1 .. MaxLines : ToolRender(n)
    \/ \E c \in Claims : TraceAllowed(c)
    \/ Trace \/ Discover \/ DiscoverStep
    \/ \E t \in Turns : StoreTurn(t)
    \/ StoreNothing \/ \E C \in SUBSET Stored : ShowWrite(C)
    \/ \E g \in Grants : Grant(g[1], g[2])
    \/ OtherProcesses /\ UNCHANGED <<toolvars, principals, call>>
    \/ ToolCommands /\ UNCHANGED <<principals, call>>

HttpSpec == HttpInit /\ [][HttpNext]_allvars

-----------------------------------------------------------------------------
HttpTypeOK ==
    /\ TypeOK /\ ToolsTypeOK
    /\ \A k \in Tokens : principals[k] = None \/ principals[k].write \in BOOLEAN
    /\ call.at \in {"done", "arrived", "resolve", "admitted", "serving", "tracing",
                    "discovering", "storing"}
    /\ call.answer \subseteq Turns

\* Every turn an answer quotes, or tells a claim of, lies in a scope the call's
\* token had at some time while the call lasted, bar those of which the code makes
\* no check: a turn that comes to the session after it was read that no other
\* tenant uses it, and what the hook after a memory tool shows, although "both reads
\* and writes are confined to the caller's namespace" (http_server.py:424).
AnsweredInScope ==
    call.answer # {} =>
        \E s \in call.had : \A t \in call.answer :
            InNs(t, s.ns) \/ (call.at = "done" /\ t \in call.unchecked)

\* A call stores a turn only for a token that was allowed to write while the
\* call lasted, in the namespace it was allowed to write to.
StoredInScope ==
    [][call' # call => \A t \in turns' \ turns :
          \E s \in call.had : s.write /\ NsOf[t] = IF s.ns = None THEN Default ELSE s.ns]_allvars
===============================================================================
