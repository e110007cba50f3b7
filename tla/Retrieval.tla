------------------------------ MODULE Retrieval ------------------------------
(***************************************************************************)
(* How retrieval.py merges rankings into the hits of one answer: facts and *)
(* episodes of a session by reciprocal rank, sessions by rank within each, *)
(* and the cut to a budget of slots, one per memory (a turn together with  *)
(* the claims extracted from it).                                          *)
(***************************************************************************)
EXTENDS Naturals, FiniteSets, FiniteSetsExt, Sequences, SequencesExt

CONSTANTS
    TurnOf,         \* source turn of a claim
    RrfK,           \* RRF_K
    TopK,           \* top_k of the request
    PerSessionK,    \* per_session_k
    MaxAcrossHits,  \* MAX_ACROSS_HITS
    Toks,           \* _toks of the text of a hit
    TokenBudget     \* token_budget of build_working_context

ASSUME RetrievalAssumption ==
    /\ {RrfK, MaxAcrossHits} \subseteq Nat
    /\ {TopK, PerSessionK} \subseteq Nat \ {0}
    /\ TokenBudget \in Nat

Fact(c, r) == [kind |-> "fact", id |-> c, turn |-> TurnOf[c], rank |-> r]
Episode(t, r) == [kind |-> "episode", id |-> t, turn |-> t, rank |-> r]

\* a hit scores w / (RRF_K + rank), w being 1.0 for facts and 0.9 for episodes
Weight(h) == IF h.kind = "fact" THEN 10 ELSE 9

\* -score, then facts before episodes, then id
Before(g, h) ==
    LET a == Weight(g) * (RrfK + h.rank)
        b == Weight(h) * (RrfK + g.rank)
    IN \/ a > b
       \/ a = b /\ g.kind # h.kind /\ g.kind = "fact"
       \/ a = b /\ g.kind = h.kind /\ g.id < h.id

\* SetToSortSeq, whose definition tries every order
InOrder(S, precedes(_, _)) ==
    [i \in 1 .. Cardinality(S) |->
        CHOOSE x \in S : Cardinality({y \in S : precedes(y, x)}) = i - 1]

Sorted(S) == InOrder(S, Before)
Cut(s, n) == SubSeq(s, 1, IF Len(s) < n THEN Len(s) ELSE n)

\* what a sequence holds at some positions, in its order
Taken(s, positions) ==
    LET at == InOrder(positions, <)
    IN [i \in DOMAIN at |-> s[at[i]]]

Memories(hits) == {h.turn : h \in Range(hits)}
Episodes(hits) == {h.id : h \in {g \in Range(hits) : g.kind = "episode"}}
Shared(hits) == {h \in Range(hits) : h.kind = "fact" /\ h.turn \in Episodes(hits)}

\* one slot per hit, a fact sharing the slot of its episode
Slots(hits) == Len(hits) - Cardinality(Shared(hits))

\* Mutant: a slot freed by a shared memory is not given away.
JustCut(ranked, budget) == Cut(ranked, budget)

\* the best hits up to the budget; what facts sharing their episode's slot free
\* goes to the best later hits of memories not represented yet
SelectByMemory(ranked, budget) ==
    LET window == Cut(ranked, budget)
        fresh == {i \in Len(window) + 1 .. Len(ranked) :
                     \A j \in 1 .. i - 1 : ranked[j].turn # ranked[i].turn}
    IN window \o Cut(Taken(ranked, fresh), Cardinality(Shared(window)))

\* pool: the facts and the episodes of a session, each in ranked order
Fused(pool) ==
    Sorted({Fact(pool.facts[r], r) : r \in DOMAIN pool.facts}
           \cup {Episode(pool.episodes[r], r) : r \in DOMAIN pool.episodes})
FuseMemory(pool) == SelectByMemory(Fused(pool), TopK)

Kept(pools) == UNION {Range(SelectByMemory(FuseMemory(p), PerSessionK)) : p \in Range(pools)}
Others(pools) == (UNION {Range(FuseMemory(p)) : p \in Range(pools)}) \ Kept(pools)

\* Mutant: many sessions share a budget of top_k.
FixedBudget(pools) == Min({TopK, MaxAcrossHits})

\* never cut below what the sessions reserved, never above the ceiling
AcrossBudget(pools) == Min({Max({TopK, Cardinality(Kept(pools))}), MaxAcrossHits})

\* build_working_context packs what fits the tokens left, passing over what does not
TokensUsed(hits) ==
    LET upTo[n \in 0 .. Len(hits)] ==
            IF n = 0 THEN 0 ELSE upTo[n - 1] + Toks[hits[n].kind][hits[n].id]
    IN upTo[Len(hits)]
Packed(hits) ==
    LET upTo[n \in 0 .. Len(hits)] ==
            IF n = 0 THEN <<>>
            ELSE IF TokensUsed(Append(upTo[n - 1], hits[n])) > TokenBudget THEN upTo[n - 1]
                 ELSE Append(upTo[n - 1], hits[n])
    IN upTo[Len(hits)]

Across(pools) ==
    SelectByMemory(Sorted(Kept(pools)) \o Sorted(Others(pools)), AcrossBudget(pools))
==============================================================================
