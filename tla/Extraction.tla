------------------------------ MODULE Extraction ------------------------------
(***************************************************************************)
(* What the worker of ExtractionQueue does with a job: it reads the turns  *)
(* said before, asks a language model (extractors.LLMExtractor), again     *)
(* when it is throttled, keeps the answer for the same question, and       *)
(* writes the claims.  The extractor and its answers live in memory.       *)
(***************************************************************************)
EXTENDS ExtractionQueue, FiniteSets

CONSTANTS
    TextOf,         \* what is said in a turn, and by whom
    SessOf, NsOf,   \* its session and namespace; tenants may use one session id
    Window,         \* MEMCONTEXT_CONTEXT_WINDOW: prior turns shown to the model
    MaxAttempts     \* requests made before a throttled call gives up

VARIABLES
    chosen,     \* _StoreBackend: "none" yet, the "llm" or the "simple" extractor
    asking,     \* the call of the extractor under way
    cache,      \* _response_cache: whether the answer to a question has claims
    source      \* source[t]: the question whose answer t's claims come from

extractor == <<asking, cache, source>>
allvars == <<queueVars, extractor, chosen>>

ASSUME ExtractionAssumption ==
    /\ DOMAIN TextOf = Turns /\ DOMAIN SessOf = Turns /\ DOMAIN NsOf = Turns
    /\ Window \in Nat /\ MaxAttempts \in Nat \ {0}

\* what the model is asked about: the prior turns shown to it, and the turn
Question(t, prior) == [shown |-> prior, turn |-> TextOf[t]]

NotAsking == [at |-> "none"]
NoQuestion == [shown |-> {}]

ExtractionInit ==
    /\ QueueInit /\ chosen = "none"
    /\ asking = NotAsking /\ cache = <<>> /\ source = [t \in Turns |-> NoQuestion]

-----------------------------------------------------------------------------
(* The main thread: memory_store                                           *)

\* auto_extractor probes for a model once, when first needed
Uses(e) == chosen \in {"none", e} /\ chosen' = e

\* without claims: left to the queue's model, or to SimpleExtractor's patterns at once
StoreText ==
    /\ UNCHANGED extractor
    /\ \/ Uses("llm") /\ StoreTurn
       \/ Uses("simple") /\ StoreInline

StoreClaims == StoreInline /\ UNCHANGED <<extractor, chosen>>

\* run_extraction at once; it may raise halfway
ExtractInline(t, written) ==
    /\ main = "inline" /\ t = stored /\ main' = "serving"
    /\ facts' = IF written THEN facts \cup {t} ELSE facts
    /\ source' = IF written THEN [source EXCEPT ![t] = Question(t, {})] ELSE source
    /\ \/ status' = [status EXCEPT ![t] = IF written THEN "structured" ELSE "skipped"] /\ UNCHANGED spent
       \/ Happens("failures", MaxFailures) /\ UNCHANGED status
    /\ UNCHANGED <<stored, worker, q, taken, unfinished, history, asking, cache, chosen>>

-----------------------------------------------------------------------------
(* The worker: LLMExtractor                                                *)

\* the latest turns of the same session and tenant before it, each with how
\* many of them are as recent: what the lines of the context say, in their order
Prior(t) ==
    LET own == {u \in 1 .. t - 1 : SessOf[u] = SessOf[t] /\ NsOf[u] = NsOf[t]}
        back(u) == Cardinality({v \in own : v >= u})
    IN {<<back(u), TextOf[u]>> : u \in {v \in own : back(v) <= Window}}

\* set_context, then the user_content made of it: the question, and its key
ReadContext ==
    /\ worker = "extracting" /\ asking.at = "none"
    /\ asking' = [at |-> "ask", attempt |-> 0, question |-> Question(taken[1], Prior(taken[1]))]
    /\ UNCHANGED <<queueVars, chosen, cache, source>>

\* claims: whether the answer, as far as it can be parsed, has any
Answered(claims) ==
    asking' = [at |-> "answered", question |-> asking.question, claims |-> claims]

\* Mutant: answers are kept by the text of the turn alone.
FromCacheByText ==
    /\ asking.at = "ask"
    /\ \E k \in DOMAIN cache :
         /\ k.turn = asking.question.turn
         /\ asking' = [at |-> "answered", question |-> k, claims |-> cache[k]]
    /\ UNCHANGED <<queueVars, chosen, cache, source>>

FromCache ==
    /\ asking.at = "ask" /\ asking.question \in DOMAIN cache
    /\ Answered(cache[asking.question])
    /\ UNCHANGED <<queueVars, chosen, cache, source>>

Asks == asking.at = "ask" /\ asking.question \notin DOMAIN cache

\* an answer is kept, malformed or not
ModelAnswers(claims) ==
    /\ Asks /\ Answered(claims)
    /\ cache' = [k \in DOMAIN cache \cup {asking.question} |->
                    IF k = asking.question THEN claims ELSE cache[k]]
    /\ UNCHANGED <<queueVars, chosen, source>>

\* Mutant: a throttled request is repeated until it is answered.
ThrottledForever ==
    /\ Asks /\ UNCHANGED <<queueVars, chosen, cache, source>>
    /\ asking' = [asking EXCEPT !.attempt = (@ + 1) % MaxAttempts]

\* 429, or 503 from Gemini: wait and ask again, a limited number of times
Throttled ==
    /\ Asks /\ UNCHANGED <<queueVars, chosen, cache, source>>
    /\ IF asking.attempt + 1 < MaxAttempts
       THEN asking' = [asking EXCEPT !.attempt = @ + 1]
       ELSE Answered(FALSE)

\* any other error is logged and taken for an answer without claims
ModelFails ==
    /\ Asks /\ Answered(FALSE)
    /\ UNCHANGED <<queueVars, chosen, cache, source>>

\* insert_claim may refuse all of them
WriteClaims ==
    /\ asking.at = "answered" /\ asking.claims /\ WriteFacts
    /\ source' = [source EXCEPT ![taken[1]] = asking.question]
    /\ UNCHANGED <<asking, cache, chosen>>

Conclude ==
    /\ asking.at = "answered" /\ Finish
    /\ asking' = NotAsking /\ UNCHANGED <<cache, source, chosen>>

\* a database error while reading the context or writing the claims
JobFails ==
    /\ asking.at \in {"none", "answered"} /\ ExtractionFails
    /\ asking' = NotAsking /\ UNCHANGED <<cache, source, chosen>>

\* the answers kept die with the process, the claims do not
CrashAndForget ==
    /\ ProcessDies /\ asking' = NotAsking /\ cache' = <<>> /\ chosen' = "none" /\ UNCHANGED source

ExtractorNext ==
    \/ ReadContext \/ FromCache \/ Throttled \/ ModelFails
    \/ \E claims \in BOOLEAN : ModelAnswers(claims)

JobNext ==
    \/ ExtractorNext \/ WriteClaims \/ Conclude \/ JobFails
    \/ (Open \/ OpenFails \/ Get \/ TaskDone) /\ UNCHANGED <<extractor, chosen>>

InlineNext == \E t \in Turns, written \in BOOLEAN : ExtractInline(t, written)

ExtractionNext ==
    \/ JobNext \/ CrashAndForget
    \/ MainNext /\ UNCHANGED <<extractor, chosen>>
    \/ StoreText \/ StoreClaims \/ InlineNext

\* Both threads run whenever they can, and a request to the model ends, in an
\* answer or a time-out; nothing makes the main thread store, drain or close.
ExtractionSpec ==
    /\ ExtractionInit /\ [][ExtractionNext]_allvars
    /\ WF_allvars(JobNext)
    /\ WF_allvars((Enqueue \/ Drained \/ Exit) /\ UNCHANGED <<extractor, chosen>>)

-----------------------------------------------------------------------------
ExtractionTypeOK ==
    /\ QueueTypeOK /\ chosen \in {"none", "llm", "simple"}
    /\ asking.at \in {"none", "ask", "answered"}
    /\ asking.at # "none" => worker \in {"extracting", "wrote"}
    /\ \A k \in DOMAIN cache : cache[k] \in BOOLEAN
    /\ \A t \in Turns : t \in facts <=> source[t] # NoQuestion

\* Whatever the model was asked before, for whichever tenant, a turn's claims
\* come from an answer to nothing but what was said in its own conversation up
\* to it.
OwnWordsOnly ==
    \A t \in facts :
        LET own == {TextOf[u] : u \in {v \in 1 .. t : SessOf[v] = SessOf[t] /\ NsOf[v] = NsOf[t]}}
        IN /\ \A said \in source[t].shown : said[2] \in own
           /\ source[t].turn = TextOf[t]
===============================================================================
