-------------------------------- MODULE Tools --------------------------------
(***************************************************************************)
(* The tool registry (tool_registry.py), filled and embedded from the      *)
(* command line, and tool_discover (tool_activation.py, tool_retrieval.py),*)
(* which ranks the registered tools for a query.  Tools are numbered in    *)
(* the order of their ids; a score is any number, what the property needs  *)
(* of it being which tools it prefers and which it cannot tell apart.      *)
(***************************************************************************)
EXTENDS Serving

CONSTANTS
    Tools,
    Texts,          \* what a tool's document may say
    Models,         \* embedding models, no two of one dimension
    Lexical,        \* BM25 scores
    Cosines,        \* cosines of a tool's vector and the query's
    ToolTopK,       \* top_k of tool_discover
    InitialTools    \* the registry at first: its rows and vectors

VARIABLES
    schemas,    \* schemas[t]: the document of the tool's row, None without one
    embedded,   \* embedded[t]: the text and model of its vector, None without one
    indexing,   \* the `tools reindex` under way
    found       \* the discovery under way or done

toolvars == <<schemas, embedded, indexing, found>>
registry == <<schemas, embedded, indexing>>
claimvars == <<store, ledger, req, shown, overtaken>>

ASSUME ToolsAssumption ==
    /\ Tools \subseteq Nat /\ IsFiniteSet(Tools)
    /\ Lexical \subseteq Nat /\ Cosines \subseteq Int /\ ToolTopK \in Nat \ {0}

NotIndexing == [at |-> "off"]
NothingFound == [at |-> "none"]

ToolsInit ==
    /\ \E r \in InitialTools : schemas = r.schemas /\ embedded = r.embedded
    /\ indexing = NotIndexing /\ found = NothingFound

-----------------------------------------------------------------------------
(* The command line: tools ingest, tools reindex                           *)

\* upsert_tools: a row per id, its text replaced, its vector left as it is
UpsertTool(t, text) ==
    /\ Write /\ schemas' = [schemas EXCEPT ![t] = text]
    /\ UNCHANGED <<embedded, indexing, found, claimvars>>

\* embed_tools as `tools reindex` calls it: the tools that have no vector
StartIndexing ==
    /\ Write /\ indexing = NotIndexing
    /\ indexing' = [at |-> "embed",
                    batch |-> {<<t, schemas[t]>> : t \in {u \in Tools : schemas[u] # None /\ embedded[u] = None}}]
    /\ UNCHANGED <<schemas, embedded, found, claimvars>>

\* one call embeds the batch, or raises with nothing written
EmbedBatch(m) ==
    /\ indexing.at = "embed"
    /\ \/ indexing' = [at |-> "write", batch |-> indexing.batch, model |-> m]
       \/ indexing' = NotIndexing
    /\ UNCHANGED <<schemas, embedded, found, vars>>

WriteVector ==
    /\ indexing.at = "write"
    /\ IF indexing.batch = {} THEN indexing' = NotIndexing /\ UNCHANGED embedded
       ELSE LET b == CHOOSE x \in indexing.batch : \A y \in indexing.batch : x[1] <= y[1]
            IN /\ embedded' = [embedded EXCEPT ![b[1]] = [text |-> b[2], model |-> indexing.model]]
               /\ indexing' = [indexing EXCEPT !.batch = @ \ {b}]
    /\ UNCHANGED <<schemas, found, vars>>

ToolCommands ==
    \/ \E t \in Tools, x \in Texts : UpsertTool(t, x)
    \/ StartIndexing \/ WriteVector \/ \E m \in Models : EmbedBatch(m)

-----------------------------------------------------------------------------
(* Ranking: reciprocal rank fusion of the channels                         *)

\* rrf_ranks: equal scores rank in the order of the candidates
Rank(cands, score, t) ==
    1 + Cardinality({u \in cands : score[u] > score[t] \/ (score[u] = score[t] /\ u < t)})

\* channels: [weight, score] of either; the sum of weight / (RRF_K + rank)
FusedScore(cands, channels, t) ==
    LET a == RrfK + Rank(cands, channels.bm25.score, t)
        b == RrfK + Rank(cands, channels.semantic.score, t)
    IN [num |-> channels.bm25.weight * b + channels.semantic.weight * a, den |-> a * b]

Exceeds(x, y) == x.num * y.den > y.num * x.den

\* fuse_channels: the best score first, then the smaller id
Fuse(cands, channels) ==
    LET points == [t \in cands |-> FusedScore(cands, channels, t)]
    IN Cut(InOrder(cands, LAMBDA t, u : \/ Exceeds(points[t], points[u])
                                        \/ ~Exceeds(points[u], points[t]) /\ t < u), ToolTopK)

\* Mutant: a semantic channel that says nothing keeps its weight.
BothChannels(cands, lexical, semantic) ==
    [bm25 |-> [weight |-> 5, score |-> lexical],
     semantic |-> [weight |-> 5, score |-> semantic]]

\* retrieve_tools with the query channels: the semantic one has no weight when
\* every cosine is zero
QueryChannels(cands, lexical, semantic) ==
    [bm25 |-> [weight |-> 5, score |-> lexical],
     semantic |-> [weight |-> IF \A t \in cands : semantic[t] = 0 THEN 0 ELSE 5,
                   score |-> semantic]]

-----------------------------------------------------------------------------
(* discover_tools, in the statements tool_discover makes                   *)

\* load_candidates joins tools and vectors in one query; build_tool_index
\* raises when vectors differ in dimension
LoadCandidates ==
    LET cands == {t \in Tools : schemas[t] # None}
        models == {embedded[t].model : t \in {u \in cands : embedded[u] # None}}
    IN /\ found' = IF cands = {} \/ Cardinality(models) > 1
                   THEN [at |-> "listed", tools |-> <<>>]
                   ELSE [at |-> "memory", cands |-> cands, models |-> models,
                         vectors |-> {t \in cands : embedded[t] # None}]
       /\ UNCHANGED registry

\* build_memory_instruction: the current claims of the first session given go
\* before the query, and the tools are ranked as for a query that says all that
Instruct(session) ==
    /\ found.at = "memory"
    /\ found' = [at |-> "rank", cands |-> found.cands, vectors |-> found.vectors,
                 models |-> found.models,
                 memory |-> {c \in Live : SessOf[TurnOf[c]] = session}]
    /\ UNCHANGED registry

\* without an embedder, or without any vector, there is no semantic score; with
\* another model than the vectors' the product of matrix and query raises
RankTools ==
    /\ found.at = "rank"
    /\ \E m \in Models \cup {None}, lexical \in [found.cands -> Lexical],
          cosines \in [found.vectors -> Cosines] :
         LET semantic == [t \in found.cands |->
                 IF m # None /\ t \in found.vectors THEN cosines[t] ELSE 0]
         IN found' = IF m # None /\ found.models \ {m} # {}
                     THEN [at |-> "listed", tools |-> <<>>]
                     ELSE [at |-> "listed", used |-> found.memory # {},
                           tools |-> Fuse(found.cands,
                                          QueryChannels(found.cands, lexical, semantic)),
                           lexical |-> lexical, semantic |-> semantic]
    /\ UNCHANGED registry

-----------------------------------------------------------------------------
ToolsTypeOK ==
    /\ schemas \in [Tools -> Texts \cup {None}]
    /\ embedded \in [Tools -> [text : Texts, model : Models] \cup {None}]
    /\ \A t \in Tools : embedded[t] # None => schemas[t] # None
    /\ indexing.at \in {"off", "embed", "write"}
    /\ found.at \in {"none", "memory", "rank", "listed"}

\* A tool whose document fits the query better than another's, and whose vector
\* does so too unless no vector says anything, is never listed after it nor
\* left out for it, however the tools are numbered.
BetterToolFirst ==
    found.at = "listed" /\ found.tools # <<>> =>
        LET says == \E t \in DOMAIN found.semantic : found.semantic[t] # 0
            place(t) == Cardinality({i \in DOMAIN found.tools :
                                        \A j \in 1 .. i : found.tools[j] # t})
        IN \A t, u \in DOMAIN found.lexical :
             /\ found.lexical[t] > found.lexical[u]
             /\ says => found.semantic[t] > found.semantic[u]
             => place(t) < place(u) \/ place(u) = Len(found.tools)
===============================================================================
