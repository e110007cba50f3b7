----------------------------- MODULE ServingProofs -----------------------------
(***************************************************************************)
(* What the doors memory leaves by guarantee for every set of claims and   *)
(* turns, however many requests, writes and grants there are: an answer is *)
(* recorded before it is given, holds what was current while it was made,  *)
(* leaves no slot to waste, and stays within what the caller may see; a    *)
(* turn is stored only for a caller that may write; and the better of two  *)
(* tools is never listed after the other.                                  *)
(***************************************************************************)
EXTENDS HttpServer, FiniteSetTheorems, SequenceTheorems, WellFoundedInduction, TLAPS

-----------------------------------------------------------------------------
(* Numbers, and sequences of a set in order                               *)

\* A nonempty set of numbers has a least element, which is its Min.
LEMMA Smallest ==
    ASSUME NEW S, S \subseteq Nat, S # {}
    PROVE  \E x \in S : \A y \in S : x <= y
  <1>1. PICK m \in S : m \in Nat
    OBVIOUS
  <1> DEFINE U == 0 .. m
             Below(x) == {y \in U : y \in S /\ y <= x}
             T == {C \in SUBSET U : \E x \in S : x <= m /\ C = Below(x)}
  <1>2. IsFiniteSet(U)
    BY <1>1, FS_Interval
  <1>3. T \subseteq FiniteSubsetsOf(U) /\ T # {}
    <2>1. Below(m) \in T
      BY <1>1
    <2>2. FiniteSubsetsOf(U) = SUBSET U
      BY <1>2, FS_FiniteSubsetsOfFinite
    <2> QED
      BY <2>1, <2>2
  <1> HIDE DEF T
  <1>4. PICK B \in T : \A C \in T : ~(<<C, B>> \in StrictSubsetOrdering(U))
    BY <1>3, FS_StrictSubsetOrderingWellFounded, WFMin
  <1>5. PICK x \in S : x <= m /\ B = Below(x)
    BY <1>4 DEF T
  <1>6. ASSUME NEW y \in S, y < x PROVE FALSE
    <2>1. Below(y) \in T
      BY <1>1, <1>5, <1>6 DEF T
    <2>2. Below(y) \subseteq B /\ x \in B /\ x \notin Below(y)
      BY <1>1, <1>5, <1>6
    <2>3. <<Below(y), B>> \in StrictSubsetOrdering(U)
      BY <2>1, <2>2, <1>4 DEF StrictSubsetOrdering, T
    <2> QED
      BY <1>4, <2>1, <2>3
  <1> QED
    BY <1>6

\* The least element of a set of numbers is what Min picks.
LEMMA MinIsLeast ==
    ASSUME NEW S, S \subseteq Nat, S # {}
    PROVE  Min(S) \in S /\ \A x \in S : Min(S) <= x
  BY Smallest DEF Min

\* R orders S strictly and totally.
Ordered(S, R) ==
    /\ \A x \in S : <<x, x>> \notin R
    /\ \A x, y, z \in S : <<x, y>> \in R /\ <<y, z>> \in R => <<x, z>> \in R
    /\ \A x, y \in S : x = y \/ <<x, y>> \in R \/ <<y, x>> \in R

Below(S, R, x) == {y \in S : <<y, x>> \in R}

\* Each element of s has the rank of its place.
Ranked(S, R, s) == \A i \in 1 .. Cardinality(S) : Cardinality(Below(S, R, s[i])) = i - 1

\* In a finite ordered set every element has a rank of its own, so that a
\* sequence of the elements by rank holds each of them once.
LEMMA ByRank ==
    ASSUME NEW S, IsFiniteSet(S), NEW R, Ordered(S, R),
           NEW s, s = [i \in 1 .. Cardinality(S) |-> s[i]],
           \A i \in 1 .. Cardinality(S) :
               (\E x \in S : Cardinality(Below(S, R, x)) = i - 1)
               => s[i] \in S /\ Cardinality(Below(S, R, s[i])) = i - 1
    PROVE  /\ s \in Seq(S) /\ Len(s) = Cardinality(S)
           /\ Range(s) = S
           /\ Ranked(S, R, s)
  <1> DEFINE n == Cardinality(S)
             rank == [x \in S |-> Cardinality(Below(S, R, x)) + 1]
  <1>1. n \in Nat /\ IsFiniteSet(1 .. n) /\ Cardinality(1 .. n) = n
    <2>1. n \in Nat
      BY FS_CardinalityType
    <2> QED
      BY <2>1, FS_Interval
  <1>2. \A x \in S : /\ IsFiniteSet(Below(S, R, x)) /\ Cardinality(Below(S, R, x)) \in Nat
                     /\ Cardinality(Below(S, R, x)) < n
    <2> TAKE x \in S
    <2>1. Below(S, R, x) \in SUBSET S /\ x \notin Below(S, R, x)
      BY DEF Below, Ordered
    <2> QED
      BY <2>1, FS_Subset, FS_CardinalityType, <1>1
  <1>3. \A x, y \in S : <<x, y>> \in R => Cardinality(Below(S, R, x)) < Cardinality(Below(S, R, y))
    <2> SUFFICES ASSUME NEW x \in S, NEW y \in S, <<x, y>> \in R
                 PROVE  Cardinality(Below(S, R, x)) < Cardinality(Below(S, R, y))
      OBVIOUS
    <2>1. /\ Below(S, R, x) \in SUBSET Below(S, R, y)
          /\ x \in Below(S, R, y) /\ x \notin Below(S, R, x)
      BY DEF Below, Ordered
    <2> QED
      BY <2>1, <1>2, FS_Subset
  <1>s. \A x, y \in S : Cardinality(Below(S, R, x)) = Cardinality(Below(S, R, y)) => x = y
    <2> SUFFICES ASSUME NEW x \in S, NEW y \in S,
                        Cardinality(Below(S, R, x)) = Cardinality(Below(S, R, y)), x # y
                 PROVE  FALSE
      OBVIOUS
    <2>1. <<x, y>> \in R \/ <<y, x>> \in R
      BY DEF Ordered
    <2> HIDE DEF n
    <2> QED
      BY <2>1, <1>2, <1>3
  <1>4. rank \in [S -> 1 .. n]
    BY <1>1, <1>2
  <1>5. rank \in Injection(S, 1 .. n)
    <2>1. ASSUME NEW x \in S, NEW y \in S, rank[x] = rank[y] PROVE x = y
      <3>1. Cardinality(Below(S, R, x)) = Cardinality(Below(S, R, y))
        BY <1>2, <2>1
      <3> QED
        BY <3>1, <1>s
    <2> HIDE DEF rank
    <2> QED
      BY <1>4, <2>1 DEF Injection, IsInjective
  <1>6. rank \in Surjection(S, 1 .. n)
    BY <1>1, <1>5, FS_Injection
  <1>7. \A i \in 1 .. n : \E x \in S : Cardinality(Below(S, R, x)) = i - 1
    <2> TAKE i \in 1 .. n
    <2>1. PICK x \in S : rank[x] = i
      BY <1>6 DEF Surjection
    <2>2. Cardinality(Below(S, R, x)) + 1 = i
      BY <2>1
    <2> HIDE DEF n
    <2> QED
      BY <2>2, <1>1, <1>2
  <1>8. \A i \in 1 .. n : s[i] \in S /\ Cardinality(Below(S, R, s[i])) = i - 1
    BY <1>7
  <1>9. s \in [1 .. n -> S]
    BY <1>8
  <1>10. \A x \in S : \E i \in 1 .. n : s[i] = x
    <2> TAKE x \in S
    <2>1. rank[x] \in 1 .. n /\ Cardinality(Below(S, R, s[rank[x]])) = Cardinality(Below(S, R, x))
      BY <1>1, <1>2, <1>4, <1>8
    <2>2. s[rank[x]] \in S
      BY <2>1, <1>8
    <2>3. s[rank[x]] = x
      BY <2>1, <2>2, <1>s
    <2> QED
      BY <2>1, <2>3
  <1>11. s \in Seq(S) /\ Len(s) = n
    BY <1>1, <1>9
  <1> HIDE DEF n, rank
  <1> QED
    BY <1>8, <1>9, <1>10, <1>11 DEF Range, Ranked, n

\* A sequence of the elements by rank holds an element only after all that
\* precede it.
LEMMA InItsPlace ==
    ASSUME NEW S, IsFiniteSet(S), NEW R, Ordered(S, R),
           NEW s \in Seq(S), Range(s) = S, Len(s) = Cardinality(S),
           Ranked(S, R, s),
           NEW x \in S, NEW y \in S, <<x, y>> \in R,
           NEW i \in 1 .. Len(s), s[i] = y
    PROVE  \E k \in 1 .. i - 1 : s[k] = x
  <1>1. PICK k \in 1 .. Len(s) : s[k] = x
    BY DEF Range
  <1>2. Cardinality(Below(S, R, x)) = k - 1 /\ Cardinality(Below(S, R, y)) = i - 1
    BY <1>1 DEF Ranked
  <1>3. /\ Below(S, R, x) \in SUBSET Below(S, R, y)
        /\ x \in Below(S, R, y) /\ x \notin Below(S, R, x)
    BY DEF Below, Ordered
  <1>4. IsFiniteSet(Below(S, R, y))
    <2>1. Below(S, R, y) \in SUBSET S
      BY DEF Below
    <2> QED
      BY <2>1, FS_Subset
  <1>5. Cardinality(Below(S, R, x)) < Cardinality(Below(S, R, y))
    <2> DEFINE b == Below(S, R, x)
               c == Below(S, R, y)
    <2> HIDE DEF b, c
    <2>1. Cardinality(b) <= Cardinality(c) /\ (Cardinality(b) = Cardinality(c) => b = c)
      BY <1>3, <1>4, FS_Subset DEF b, c
    <2>2. b # c
      BY <1>3 DEF b, c
    <2>3. Cardinality(b) \in Int /\ Cardinality(c) \in Int
      BY <1>2 DEF b, c
    <2> QED
      BY <2>1, <2>2, <2>3 DEF b, c
  <1>6. k < i
    BY <1>2, <1>5
  <1> QED
    BY <1>1, <1>6

\* The ranking of a set of numbers.
LEMMA Ascending ==
    ASSUME NEW S, S \subseteq Nat, IsFiniteSet(S)
    PROVE  /\ InOrder(S, <) \in Seq(S) /\ Len(InOrder(S, <)) = Cardinality(S)
           /\ Range(InOrder(S, <)) = S
  <1> DEFINE R == {p \in Nat \X Nat : p[1] < p[2]}
             s == [i \in 1 .. Cardinality(S) |-> CHOOSE x \in S : Cardinality({y \in S : y < x}) = i - 1]
  <1>1. Ordered(S, R)
    BY DEF Ordered
  <1>2. \A x \in S : Below(S, R, x) = {y \in S : y < x}
    BY DEF Below
  <1>3. s = [i \in 1 .. Cardinality(S) |-> s[i]]
    <2> DEFINE e(i) == CHOOSE x \in S : Cardinality({y \in S : y < x}) = i - 1
    <2>1. s = [i \in 1 .. Cardinality(S) |-> e(i)]
      OBVIOUS
    <2> HIDE DEF e, s
    <2> QED
      BY <2>1
  <1>4. ASSUME NEW i \in 1 .. Cardinality(S), NEW x \in S, Cardinality(Below(S, R, x)) = i - 1
        PROVE  s[i] \in S /\ Cardinality(Below(S, R, s[i])) = i - 1
    <2>1. s[i] = CHOOSE z \in S : Cardinality({y \in S : y < z}) = i - 1
      OBVIOUS
    <2>2. Cardinality({y \in S : y < x}) = i - 1
      BY <1>2, <1>4
    <2>3. s[i] \in S /\ Cardinality({y \in S : y < s[i]}) = i - 1
      BY <2>1, <2>2
    <2> QED
      BY <2>3, <1>2
  <1>5. InOrder(S, <) = s
    BY DEF InOrder
  <1> HIDE DEF R, s
  <1>6. s \in Seq(S) /\ Len(s) = Cardinality(S) /\ Range(s) = S
    BY <1>1, <1>3, <1>4, ByRank
  <1> QED
    BY <1>5, <1>6

\* The newest first: the same set in falling order, each element once.
LEMMA Descending ==
    ASSUME NEW S, S \subseteq Nat, IsFiniteSet(S)
    PROVE  /\ NewestFirst(S) \in Seq(S) /\ Len(NewestFirst(S)) = Cardinality(S)
           /\ Range(NewestFirst(S)) = S
  <1> DEFINE R == {p \in Nat \X Nat : p[1] > p[2]}
             s == NewestFirst(S)
  <1>1. Ordered(S, R)
    BY DEF Ordered
  <1>2. \A x \in S : Below(S, R, x) = {y \in S : y > x}
    BY DEF Below
  <1>3. s = [i \in 1 .. Cardinality(S) |-> s[i]]
    <2> DEFINE e(i) == CHOOSE x \in S : Cardinality({y \in S : y > x}) = i - 1
    <2>1. s = [i \in 1 .. Cardinality(S) |-> e(i)]
      BY DEF InOrder, NewestFirst
    <2> HIDE DEF e, s
    <2> QED
      BY <2>1
  <1>4. ASSUME NEW i \in 1 .. Cardinality(S), NEW x \in S, Cardinality(Below(S, R, x)) = i - 1
        PROVE  s[i] \in S /\ Cardinality(Below(S, R, s[i])) = i - 1
    <2>1. s[i] = CHOOSE z \in S : Cardinality({y \in S : y > z}) = i - 1
      BY DEF InOrder, NewestFirst
    <2>2. Cardinality({y \in S : y > x}) = i - 1
      BY <1>2, <1>4
    <2>3. s[i] \in S /\ Cardinality({y \in S : y > s[i]}) = i - 1
      BY <2>1, <2>2
    <2> QED
      BY <2>3, <1>2
  <1> HIDE DEF R, s
  <1>5. s \in Seq(S) /\ Len(s) = Cardinality(S) /\ Range(s) = S
    BY <1>1, <1>3, <1>4, ByRank
  <1> QED
    BY <1>5 DEF s

Hits == {h \in [kind : {"fact"}, id : Claims, turn : Turns, rank : Nat \ {0}] : h.turn = TurnOf[h.id]}
        \cup {h \in [kind : {"episode"}, id : Turns, turn : Turns, rank : Nat \ {0}] : h.turn = h.id}

\* The score orders the hits strictly and totally, whatever their ranks.
LEMMA BeforeOrders ==
    /\ \A g \in Hits : ~Before(g, g)
    /\ \A f, g, h \in Hits : Before(f, g) /\ Before(g, h) => Before(f, h)
    /\ \A g, h \in Hits : g = h \/ Before(g, h) \/ Before(h, g)
  <1> DEFINE K == RrfK
  <1>0. K \in Nat /\ Claims \subseteq Nat /\ Turns \subseteq Nat
    BY RetrievalAssumption, ServingAssumption
  <1> DEFINE Score(g, h) == Weight(g) * (K + h.rank)
  <1>1. \A g \in Hits : /\ g.kind \in {"fact", "episode"} /\ g.rank \in Nat \ {0} /\ g.id \in Nat
                        /\ g.kind = "fact" => Weight(g) = 10
                        /\ g.kind = "episode" => Weight(g) = 9
    BY <1>0 DEF Hits, Weight
  <1>2. \A g, h \in Hits : g.kind = h.kind /\ g.id = h.id /\ g.rank = h.rank => g = h
    <2> SUFFICES ASSUME NEW g \in Hits, NEW h \in Hits, g.kind = h.kind, g.id = h.id, g.rank = h.rank
                 PROVE  g = h
      OBVIOUS
    <2>1. g.turn = h.turn
      BY DEF Hits
    <2>2. g = [kind |-> g.kind, id |-> g.id, turn |-> g.turn, rank |-> g.rank]
      BY DEF Hits
    <2>3. h = [kind |-> h.kind, id |-> h.id, turn |-> h.turn, rank |-> h.rank]
      BY DEF Hits
    <2> QED
      BY <2>1, <2>2, <2>3
  <1>3. \A g, h \in Hits : Before(g, h) <=>
            LET a == IF g.kind = "fact" THEN 10 * (K + h.rank) ELSE 9 * (K + h.rank)
                b == IF h.kind = "fact" THEN 10 * (K + g.rank) ELSE 9 * (K + g.rank)
            IN \/ a > b
               \/ a = b /\ g.kind # h.kind /\ g.kind = "fact"
               \/ a = b /\ g.kind = h.kind /\ g.id < h.id
    BY <1>0, <1>1 DEF Before, Weight
  <1> HIDE DEF K
  <1>4. ASSUME NEW g \in Hits PROVE ~Before(g, g)
    BY <1>0, <1>1, <1>3
  <1>5. ASSUME NEW f \in Hits, NEW g \in Hits, NEW h \in Hits, Before(f, g), Before(g, h)
        PROVE  Before(f, h)
    <2> DEFINE a == f.kind = "fact"
               b == g.kind = "fact"
               c == h.kind = "fact"
    <2>0. /\ f.kind \in {"fact", "episode"} /\ f.rank \in Nat /\ f.id \in Nat
          /\ g.kind \in {"fact", "episode"} /\ g.rank \in Nat /\ g.id \in Nat
          /\ h.kind \in {"fact", "episode"} /\ h.rank \in Nat /\ h.id \in Nat
      BY <1>1
    <2>1. CASE a /\ b /\ c
      BY <1>0, <2>0, <1>3, <1>5, <2>1
    <2>2. CASE a /\ b /\ ~c
      BY <1>0, <2>0, <1>3, <1>5, <2>2
    <2>3. CASE a /\ ~b /\ c
      BY <1>0, <2>0, <1>3, <1>5, <2>3
    <2>4. CASE a /\ ~b /\ ~c
      BY <1>0, <2>0, <1>3, <1>5, <2>4
    <2>5. CASE ~a /\ b /\ c
      BY <1>0, <2>0, <1>3, <1>5, <2>5
    <2>6. CASE ~a /\ b /\ ~c
      BY <1>0, <2>0, <1>3, <1>5, <2>6
    <2>7. CASE ~a /\ ~b /\ c
      BY <1>0, <2>0, <1>3, <1>5, <2>7
    <2>8. CASE ~a /\ ~b /\ ~c
      BY <1>0, <2>0, <1>3, <1>5, <2>8
    <2> QED
      BY <2>1, <2>2, <2>3, <2>4, <2>5, <2>6, <2>7, <2>8
  <1>6. ASSUME NEW g \in Hits, NEW h \in Hits, ~Before(g, h), ~Before(h, g)
        PROVE  g = h
    <2>0. /\ g.kind \in {"fact", "episode"} /\ g.rank \in Nat /\ g.id \in Nat
          /\ h.kind \in {"fact", "episode"} /\ h.rank \in Nat /\ h.id \in Nat
      BY <1>1
    <2>1. g.kind = h.kind
      BY <1>0, <2>0, <1>3, <1>6
    <2>2. g.rank = h.rank /\ g.id = h.id
      BY <1>0, <2>0, <2>1, <1>3, <1>6
    <2> QED
      BY <2>1, <2>2, <1>2
  <1> QED
    BY <1>4, <1>5, <1>6

\* Sorting a finite set of hits keeps each of them, once.
LEMMA SortedHits ==
    ASSUME NEW S, S \subseteq Hits, IsFiniteSet(S)
    PROVE  /\ Sorted(S) \in Seq(S) /\ Len(Sorted(S)) = Cardinality(S)
           /\ Range(Sorted(S)) = S
  <1> DEFINE R == {p \in Hits \X Hits : Before(p[1], p[2])}
             s == Sorted(S)
  <1>1. Ordered(S, R)
    BY BeforeOrders DEF Ordered
  <1>2. \A x \in S : Below(S, R, x) = {y \in S : Before(y, x)}
    BY DEF Below
  <1>3. s = [i \in 1 .. Cardinality(S) |-> s[i]]
    <2> DEFINE e(i) == CHOOSE x \in S : Cardinality({y \in S : Before(y, x)}) = i - 1
    <2>1. s = [i \in 1 .. Cardinality(S) |-> e(i)]
      BY DEF InOrder, Sorted
    <2> HIDE DEF e, s
    <2> QED
      BY <2>1
  <1>4. ASSUME NEW i \in 1 .. Cardinality(S), NEW x \in S, Cardinality(Below(S, R, x)) = i - 1
        PROVE  s[i] \in S /\ Cardinality(Below(S, R, s[i])) = i - 1
    <2>1. s[i] = CHOOSE z \in S : Cardinality({y \in S : Before(y, z)}) = i - 1
      BY DEF InOrder, Sorted
    <2>2. Cardinality({y \in S : Before(y, x)}) = i - 1
      BY <1>2, <1>4
    <2>3. s[i] \in S /\ Cardinality({y \in S : Before(y, s[i])}) = i - 1
      BY <2>1, <2>2
    <2> QED
      BY <2>3, <1>2
  <1> HIDE DEF R, s
  <1>5. s \in Seq(S) /\ Len(s) = Cardinality(S) /\ Range(s) = S
    BY <1>1, <1>3, <1>4, ByRank
  <1> QED
    BY <1>5 DEF s

-----------------------------------------------------------------------------
(* Sequences                                                              *)

\* What a sequence holds is a finite set, no larger than the sequence is long.
LEMMA RangeIsFinite ==
    ASSUME NEW X, NEW s \in Seq(X)
    PROVE  /\ IsFiniteSet(Range(s)) /\ Cardinality(Range(s)) <= Len(s)
           /\ Range(s) \subseteq X /\ Range(s) = {s[i] : i \in 1 .. Len(s)}
  <1>1. s \in Surjection(1 .. Len(s), Range(s))
    BY DEF Range, Surjection
  <1>2. Len(s) \in Nat /\ DOMAIN s = 1 .. Len(s)
    OBVIOUS
  <1>3. IsFiniteSet(1 .. Len(s)) /\ Cardinality(1 .. Len(s)) = Len(s)
    BY <1>2, FS_Interval
  <1> QED
    BY <1>1, <1>2, <1>3, FS_Surjection DEF Range

\* Cut keeps a beginning of the sequence.
LEMMA Cutting ==
    ASSUME NEW X, NEW s \in Seq(X), NEW n \in Nat
    PROVE  /\ Cut(s, n) \in Seq(X)
           /\ Len(Cut(s, n)) = IF Len(s) < n THEN Len(s) ELSE n
           /\ \A i \in 1 .. Len(Cut(s, n)) : Cut(s, n)[i] = s[i]
           /\ Range(Cut(s, n)) \subseteq Range(s)
           /\ n >= Len(s) => Cut(s, n) = s
  <1> DEFINE m == IF Len(s) < n THEN Len(s) ELSE n
             c == Cut(s, n)
  <1>1. m \in Nat /\ m <= Len(s) /\ m <= n /\ Len(s) \in Nat
    OBVIOUS
  <1>2. c = SubSeq(s, 1, m)
    BY DEF Cut
  <1>3. \A i \in 1 .. m : s[i] \in X
    BY <1>1
  <1> HIDE DEF c, m
  <1>4. /\ c \in Seq(X) /\ Len(c) = m
        /\ \A i \in 1 .. m : c[i] = s[i]
    BY <1>1, <1>2, <1>3, SubSeqProperties
  <1>5. Range(c) \subseteq Range(s)
    BY <1>1, <1>4 DEF Range
  <1>6. n >= Len(s) => c = s
    <2> SUFFICES ASSUME n >= Len(s) PROVE c = s
      OBVIOUS
    <2>1. m = Len(s)
      BY <1>1 DEF m
    <2> QED
      BY <2>1, <1>4, SeqEqual
  <1> QED
    BY <1>4, <1>5, <1>6 DEF c, m

\* Taken holds what stands at the positions, and nothing else.
LEMMA Taking ==
    ASSUME NEW X, NEW s \in Seq(X), NEW P, P \subseteq DOMAIN s
    PROVE  /\ Taken(s, P) \in Seq(X) /\ Len(Taken(s, P)) = Cardinality(P)
           /\ Range(Taken(s, P)) = {s[i] : i \in P}
           /\ IsFiniteSet(P)
  <1>1. P \subseteq Nat /\ IsFiniteSet(P)
    <2>1. Len(s) \in Nat /\ DOMAIN s = 1 .. Len(s)
      OBVIOUS
    <2>2. IsFiniteSet(1 .. Len(s))
      BY <2>1, FS_Interval
    <2> QED
      BY <2>1, <2>2, FS_Subset
  <1> DEFINE at == InOrder(P, <)
  <1>2. at \in Seq(P) /\ Len(at) = Cardinality(P) /\ Range(at) = P
    BY <1>1, Ascending
  <1>3. Taken(s, P) = [i \in DOMAIN at |-> s[at[i]]]
    BY DEF Taken
  <1> HIDE DEF at
  <1>4. /\ Taken(s, P) \in Seq(X) /\ Len(Taken(s, P)) = Cardinality(P)
        /\ DOMAIN Taken(s, P) = DOMAIN at
    <2>1. Len(at) \in Nat /\ DOMAIN at = 1 .. Len(at) /\ \A i \in DOMAIN at : at[i] \in P
      BY <1>2
    <2>2. \A i \in 1 .. Len(at) : s[at[i]] \in X
      BY <2>1
    <2>3. Taken(s, P) \in [1 .. Len(at) -> X]
      BY <1>3, <2>1, <2>2
    <2> QED
      BY <2>1, <2>3, <1>2
  <1>5. Range(Taken(s, P)) = {s[i] : i \in P}
    BY <1>2, <1>3, <1>4 DEF Range
  <1> QED
    BY <1>1, <1>4, <1>5

\* What two sequences hold together.
LEMMA Joining ==
    ASSUME NEW X, NEW s \in Seq(X), NEW t \in Seq(X)
    PROVE  /\ s \o t \in Seq(X) /\ Len(s \o t) = Len(s) + Len(t)
           /\ Range(s \o t) = Range(s) \cup Range(t)
           /\ \A i \in 1 .. Len(s) : (s \o t)[i] = s[i]
  <1>1. /\ s \o t \in Seq(X) /\ Len(s \o t) = Len(s) + Len(t)
        /\ \A i \in 1 .. Len(s) + Len(t) : (s \o t)[i] = IF i <= Len(s) THEN s[i] ELSE t[i - Len(s)]
        /\ Len(s) \in Nat /\ Len(t) \in Nat
    BY ConcatProperties
  <1> DEFINE u == s \o t
  <1>2. /\ u \in Seq(X) /\ Len(u) = Len(s) + Len(t) /\ DOMAIN u = 1 .. Len(s) + Len(t)
        /\ DOMAIN s = 1 .. Len(s) /\ DOMAIN t = 1 .. Len(t)
        /\ \A i \in 1 .. Len(s) : u[i] = s[i]
        /\ \A i \in 1 .. Len(t) : u[Len(s) + i] = t[i]
        /\ \A i \in Len(s) + 1 .. Len(s) + Len(t) : u[i] = t[i - Len(s)] /\ i - Len(s) \in 1 .. Len(t)
    BY <1>1
  <1> HIDE DEF u
  <1>3. Range(s) \subseteq Range(u)
    BY <1>1, <1>2 DEF Range
  <1>4. Range(t) \subseteq Range(u)
    <2>1. \A i \in 1 .. Len(t) : Len(s) + i \in DOMAIN u
      BY <1>1, <1>2
    <2> QED
      BY <1>2, <2>1 DEF Range
  <1>5. Range(u) \subseteq Range(s) \cup Range(t)
    <2> SUFFICES ASSUME NEW i \in DOMAIN u PROVE u[i] \in Range(s) \cup Range(t)
      BY DEF Range
    <2>1. CASE i \in 1 .. Len(s)
      BY <1>2, <2>1 DEF Range
    <2>2. CASE i \in Len(s) + 1 .. Len(s) + Len(t)
      BY <1>2, <2>2 DEF Range
    <2> QED
      BY <1>1, <1>2, <2>1, <2>2
  <1> QED
    BY <1>2, <1>3, <1>4, <1>5 DEF u

-----------------------------------------------------------------------------
(* select_by_memory: the slots of an answer                               *)

\* The episode hits among some hits tell their turn by their id as well.
LEMMA SharedHits ==
    ASSUME NEW s \in Seq(Hits)
    PROVE  /\ IsFiniteSet(Shared(s)) /\ Cardinality(Shared(s)) \in Nat
           /\ Shared(s) = {h \in Range(s) : h.kind = "fact" /\
                              \E g \in Range(s) : g.kind = "episode" /\ g.turn = h.turn}
  <1>1. IsFiniteSet(Range(s)) /\ Range(s) \subseteq Hits
    BY RangeIsFinite
  <1>2. \A g \in Range(s) : g.kind = "episode" => g.turn = g.id
    BY <1>1 DEF Hits
  <1>3. Shared(s) = {h \in Range(s) : h.kind = "fact" /\
                              \E g \in Range(s) : g.kind = "episode" /\ g.turn = h.turn}
    BY <1>2 DEF Shared, Episodes
  <1>4. Shared(s) \in SUBSET Range(s)
    BY <1>3
  <1> QED
    BY <1>1, <1>3, <1>4, FS_Subset, FS_CardinalityType

FreshFrom(ranked, n) ==
    {i \in n + 1 .. Len(ranked) : \A j \in 1 .. i - 1 : ranked[j].turn # ranked[i].turn}

\* What a selection holds: the best hits up to the budget, then hits of turns
\* no better hit is of.
LEMMA Selecting ==
    ASSUME NEW s \in Seq(Hits), NEW n \in Nat
    PROVE  LET w == Cut(s, n)
               later == Taken(s, FreshFrom(s, Len(w)))
               r == SelectByMemory(s, n)
           IN /\ w \in Seq(Hits) /\ later \in Seq(Hits) /\ r \in Seq(Hits)
              /\ Range(later) = {s[i] : i \in FreshFrom(s, Len(w))}
              /\ IsFiniteSet(FreshFrom(s, Len(w))) /\ Len(later) = Cardinality(FreshFrom(s, Len(w)))
              /\ Cut(later, Cardinality(Shared(w))) \in Seq(Hits)
              /\ r = w \o Cut(later, Cardinality(Shared(w)))
              /\ Range(w) \subseteq Range(r) /\ Range(r) \subseteq Range(s)
              /\ Range(r) = Range(w) \cup Range(Cut(later, Cardinality(Shared(w))))
              /\ Len(r) = Len(w) + Len(Cut(later, Cardinality(Shared(w))))
              /\ \A i \in 1 .. Len(w) : r[i] = s[i]
  <1> DEFINE w == Cut(s, n)
             fresh == FreshFrom(s, Len(w))
             later == Taken(s, fresh)
             k == Cardinality(Shared(w))
             more == Cut(later, k)
             r == SelectByMemory(s, n)
  <1>1. /\ w \in Seq(Hits) /\ Range(w) \subseteq Range(s) /\ Len(w) \in Nat
        /\ \A i \in 1 .. Len(w) : w[i] = s[i]
    BY Cutting
  <1>2. fresh \subseteq DOMAIN s
    BY <1>1 DEF FreshFrom
  <1>3. r = w \o more
    BY DEF SelectByMemory, FreshFrom
  <1> HIDE DEF w, fresh, r
  <1>4. /\ later \in Seq(Hits) /\ Len(later) = Cardinality(fresh)
        /\ Range(later) = {s[i] : i \in fresh} /\ IsFiniteSet(fresh)
    BY <1>2, Taking
  <1>5. k \in Nat
    BY <1>1, SharedHits
  <1> HIDE DEF k, later
  <1>6. more \in Seq(Hits) /\ Range(more) \subseteq Range(later)
    BY <1>4, <1>5, Cutting
  <1>7. Range(later) \subseteq Range(s)
    BY <1>2, <1>4 DEF Range
  <1> HIDE DEF more
  <1>8. /\ r \in Seq(Hits) /\ Range(r) = Range(w) \cup Range(more)
        /\ Len(r) = Len(w) + Len(more) /\ \A i \in 1 .. Len(w) : r[i] = w[i]
    BY <1>1, <1>3, <1>6, Joining
  <1> QED
    BY <1>1, <1>2, <1>3, <1>4, <1>6, <1>7, <1>8 DEF w, fresh, k, more, later, r

\* A selection leaves a slot empty only when every memory that was ranked is in it.
LEMMA SlotsAreFilled ==
    ASSUME NEW s \in Seq(Hits), NEW n \in Nat, Slots(SelectByMemory(s, n)) < n
    PROVE  Memories(s) \subseteq Memories(SelectByMemory(s, n))
  <1> DEFINE w == Cut(s, n)
             fresh == FreshFrom(s, Len(w))
             later == Taken(s, fresh)
             k == Cardinality(Shared(w))
             more == Cut(later, k)
             r == SelectByMemory(s, n)
  <1>1. /\ w \in Seq(Hits) /\ later \in Seq(Hits) /\ r \in Seq(Hits) /\ more \in Seq(Hits)
        /\ Range(later) = {s[i] : i \in fresh} /\ Len(later) = Cardinality(fresh)
        /\ Range(r) = Range(w) \cup Range(more) /\ Range(r) \subseteq Range(s)
        /\ Len(r) = Len(w) + Len(more)
    BY Selecting
  <1>2. k \in Nat
    BY <1>1, SharedHits
  <1>3. /\ Len(w) = IF Len(s) < n THEN Len(s) ELSE n
        /\ \A i \in 1 .. Len(w) : w[i] = s[i]
        /\ n >= Len(s) => w = s
    BY Cutting
  <1>4. /\ Len(more) = IF Len(later) < k THEN Len(later) ELSE k
        /\ k >= Len(later) => more = later
        /\ Range(more) \subseteq Range(later)
    BY <1>1, <1>2, Cutting
  <1>5. \A i \in fresh : /\ i \in Len(w) + 1 .. Len(s)
                         /\ \A j \in 1 .. i - 1 : s[j].turn # s[i].turn
    BY DEF FreshFrom
  <1>b. Len(w) \in Nat /\ Len(more) \in Nat /\ Len(later) \in Nat /\ Len(s) \in Nat
        /\ Cardinality(Shared(r)) \in Nat /\ DOMAIN s = 1 .. Len(s)
    BY <1>1, SharedHits
  <1> HIDE DEF w, fresh, later, k, more, r
  <1>6. Slots(r) = Len(w) + Len(more) - Cardinality(Shared(r))
    <2>1. Slots(r) = Len(r) - Cardinality(Shared(r))
      BY Zenon DEF Slots
    <2>2. Len(r) = Len(w) + Len(more)
      BY <1>1
    <2> QED
      BY <2>1, <2>2, <1>b
  <1>a. Range(w) = {s[i] : i \in 1 .. Len(w)} /\ Len(w) <= Len(s) /\ (n < Len(s) => Len(w) = n)
    <2>1. Range(w) = {w[i] : i \in 1 .. Len(w)}
      BY <1>1, RangeIsFinite
    <2>2. {w[i] : i \in 1 .. Len(w)} = {s[i] : i \in 1 .. Len(w)}
      BY <1>3
    <2>3. Len(w) <= Len(s) /\ (n < Len(s) => Len(w) = n)
      <3>1. Len(w) = IF Len(s) < n THEN Len(s) ELSE n
        BY <1>3
      <3>2. Len(s) \in Nat
        OBVIOUS
      <3> QED
        BY <3>1, <3>2
    <2> QED
      BY <2>1, <2>2, <2>3
  <1>c. \A g \in Range(r) : \E i \in DOMAIN s : g = s[i] /\ (i \in 1 .. Len(w) \/ i \in fresh)
    <2> TAKE g \in Range(r)
    <2>1. CASE g \in Range(w)
      BY <2>1, <1>a, <1>b
    <2>2. CASE g \in Range(more)
      <3>1. PICK i \in fresh : g = s[i]
        BY <2>2, <1>1, <1>4
      <3> QED
        BY <3>1, <1>5, <1>a, <1>b
    <2> QED
      BY <2>1, <2>2, <1>1
  <1>7. Shared(r) = Shared(w)
    <2>1. \A g, h \in Range(r) : g.kind = "episode" /\ h.kind = "fact" /\ g.turn = h.turn
                                  => g \in Range(w) /\ h \in Range(w)
      <3> SUFFICES ASSUME NEW g \in Range(r), NEW h \in Range(r),
                          g.kind = "episode", h.kind = "fact", g.turn = h.turn,
                          ~(g \in Range(w) /\ h \in Range(w))
                   PROVE  FALSE
        OBVIOUS
      <3>1. PICK i \in DOMAIN s : g = s[i] /\ (i \in 1 .. Len(w) \/ i \in fresh)
        BY <1>c
      <3>2. PICK j \in DOMAIN s : h = s[j] /\ (j \in 1 .. Len(w) \/ j \in fresh)
        BY <1>c
      <3>3. i # j
        BY <3>1, <3>2
      <3>4. i \in fresh \/ j \in fresh
        BY <3>1, <3>2, <1>a
      <3>5. CASE i < j
        <4>1. j \in fresh
          BY <1>5, <1>b, <3>1, <3>2, <3>4, <3>5
        <4> QED
          BY <1>5, <1>b, <4>1, <3>1, <3>2, <3>5
      <3>6. CASE j < i
        <4>1. i \in fresh
          BY <1>5, <1>b, <3>1, <3>2, <3>4, <3>6
        <4> QED
          BY <1>5, <1>b, <4>1, <3>1, <3>2, <3>6
      <3> QED
        BY <1>b, <3>3, <3>5, <3>6
    <2>2. Range(w) \subseteq Range(r)
      BY <1>1
    <2>3. /\ Shared(r) = {h \in Range(r) : h.kind = "fact" /\
                              \E g \in Range(r) : g.kind = "episode" /\ g.turn = h.turn}
          /\ Shared(w) = {h \in Range(w) : h.kind = "fact" /\
                              \E g \in Range(w) : g.kind = "episode" /\ g.turn = h.turn}
      BY <1>1, SharedHits
    <2> QED
      BY <2>1, <2>2, <2>3
  <1>8. CASE Len(s) <= n
    <2>1. Range(s) \subseteq Range(r)
      BY <1>1, <1>3, <1>8, <1>b
    <2> QED
      BY <2>1 DEF Memories, r
  <1>9. CASE n < Len(s)
    <2>1. Len(w) = n
      BY <1>a, <1>9
    <2>2. Len(more) < k
      BY <1>6, <1>7, <1>b, <1>2, <2>1 DEF k, r
    <2>3. Range(later) \subseteq Range(r)
      BY <2>2, <1>b, <1>2, <1>4, <1>1
    <2> SUFFICES ASSUME NEW i \in DOMAIN s PROVE s[i].turn \in Memories(r)
      BY DEF Memories, Range, r
    <2> DEFINE I == {j \in DOMAIN s : s[j].turn = s[i].turn}
    <2>4. I \subseteq Nat /\ I # {}
      BY <1>b
    <2>5. PICK j \in I : \A m \in I : j <= m
      BY <2>4, Smallest
    <2>6. s[j] \in Range(r)
      <3>1. CASE j <= Len(w)
        BY <3>1, <1>1, <1>a, <1>b
      <3>2. CASE j > Len(w)
        <4>1. j \in fresh
          BY <3>2, <2>5, <1>b DEF fresh, FreshFrom
        <4> QED
          BY <4>1, <2>3, <1>1
      <3> QED
        BY <3>1, <3>2, <1>b
    <2> QED
      BY <2>5, <2>6 DEF Memories
  <1> QED
    BY <1>8, <1>9, <1>b

-----------------------------------------------------------------------------
(* The hits of a session, and of several                                  *)

PoolsOf(C, T) == [facts : Seq(C), episodes : Seq(T)]
HitsOf(C, T) == {h \in Hits : (h.kind = "fact" => h.id \in C) /\ (h.kind = "episode" => h.id \in T)}

\* A sequence over one set, whose elements lie in another, is one over the other.
LEMMA Within ==
    ASSUME NEW X, NEW Y, NEW s \in Seq(X), Range(s) \subseteq Y
    PROVE  s \in Seq(Y)
  <1>1. s \in [1 .. Len(s) -> Y] /\ Len(s) \in Nat
    BY DEF Range
  <1> QED
    BY <1>1

\* select_by_memory selects among the hits it is given.
LEMMA SelectingOf ==
    ASSUME NEW C, NEW T, NEW s \in Seq(HitsOf(C, T)), NEW n \in Nat
    PROVE  SelectByMemory(s, n) \in Seq(HitsOf(C, T))
  <1>1. s \in Seq(Hits) /\ Range(s) \subseteq HitsOf(C, T)
    <2>1. Range(s) \subseteq HitsOf(C, T)
      BY RangeIsFinite
    <2> QED
      BY <2>1, Within DEF HitsOf
  <1>2. SelectByMemory(s, n) \in Seq(Hits) /\ Range(SelectByMemory(s, n)) \subseteq HitsOf(C, T)
    BY <1>1, Selecting
  <1> QED
    BY <1>2, Within

\* The hits of a session are its facts and its episodes.
LEMMA Fusing ==
    ASSUME NEW C, C \subseteq Claims, NEW T, T \subseteq Turns, NEW p \in PoolsOf(C, T)
    PROVE  /\ Fused(p) \in Seq(HitsOf(C, T)) /\ Fused(p) \in Seq(Hits)
           /\ FuseMemory(p) \in Seq(HitsOf(C, T)) /\ FuseMemory(p) \in Seq(Hits)
  <1> DEFINE f == [r \in 1 .. Len(p.facts) |-> Fact(p.facts[r], r)]
             e == [r \in 1 .. Len(p.episodes) |-> Episode(p.episodes[r], r)]
             S == Range(f) \cup Range(e)
  <1>1. /\ p.facts \in Seq(C) /\ p.episodes \in Seq(T)
        /\ Len(p.facts) \in Nat /\ Len(p.episodes) \in Nat
        /\ DOMAIN p.facts = 1 .. Len(p.facts) /\ DOMAIN p.episodes = 1 .. Len(p.episodes)
    BY DEF PoolsOf
  <1>2. f \in Seq(HitsOf(C, T))
    <2>1. ASSUME NEW r \in 1 .. Len(p.facts) PROVE Fact(p.facts[r], r) \in HitsOf(C, T)
      <3>1. p.facts[r] \in C /\ p.facts[r] \in Claims /\ r \in Nat \ {0}
        BY <1>1
      <3>2. TurnOf[p.facts[r]] \in Turns
        BY <3>1, ServingAssumption
      <3> QED
        BY <3>1, <3>2 DEF Fact, HitsOf, Hits
    <2>2. f \in [1 .. Len(p.facts) -> HitsOf(C, T)]
      BY <2>1
    <2> QED
      BY <2>2, <1>1
  <1>3. e \in Seq(HitsOf(C, T))
    <2>1. ASSUME NEW r \in 1 .. Len(p.episodes) PROVE Episode(p.episodes[r], r) \in HitsOf(C, T)
      <3>1. p.episodes[r] \in T /\ p.episodes[r] \in Turns /\ r \in Nat \ {0}
        BY <1>1
      <3> QED
        BY <3>1 DEF Episode, HitsOf, Hits
    <2>2. e \in [1 .. Len(p.episodes) -> HitsOf(C, T)]
      BY <2>1
    <2> QED
      BY <2>2, <1>1
  <1>4. S = {Fact(p.facts[r], r) : r \in DOMAIN p.facts}
            \cup {Episode(p.episodes[r], r) : r \in DOMAIN p.episodes}
    BY <1>1 DEF Range
  <1> HIDE DEF f, e
  <1>5. IsFiniteSet(S) /\ S \subseteq HitsOf(C, T)
    <2>1. /\ IsFiniteSet(Range(f)) /\ IsFiniteSet(Range(e))
          /\ Range(f) \subseteq HitsOf(C, T) /\ Range(e) \subseteq HitsOf(C, T)
      BY <1>2, <1>3, RangeIsFinite
    <2> QED
      BY <2>1, FS_Union
  <1>6. Fused(p) = Sorted(S)
    BY <1>4 DEF Fused
  <1> HIDE DEF S
  <1>7. S \subseteq Hits
    BY <1>5 DEF HitsOf
  <1>8. Fused(p) \in Seq(S)
    BY <1>5, <1>6, <1>7, SortedHits
  <1>9. Fused(p) \in Seq(HitsOf(C, T)) /\ Fused(p) \in Seq(Hits)
    BY <1>5, <1>7, <1>8, SeqMonotonic
  <1>10. FuseMemory(p) \in Seq(HitsOf(C, T))
    BY <1>9, SelectingOf, RetrievalAssumption DEF FuseMemory
  <1>11. HitsOf(C, T) \subseteq Hits
    BY DEF HitsOf
  <1>12. FuseMemory(p) \in Seq(Hits)
    BY <1>10, <1>11, SeqMonotonic
  <1> QED
    BY <1>9, <1>10, <1>12

KeptOf(p) == Range(SelectByMemory(FuseMemory(p), PerSessionK))

\* What each session reserves and what is left are hits of the pools.
LEMMA KeepingHits ==
    ASSUME NEW C, C \subseteq Claims, NEW T, T \subseteq Turns, NEW ps \in Seq(PoolsOf(C, T))
    PROVE  /\ Kept(ps) \subseteq HitsOf(C, T) /\ IsFiniteSet(Kept(ps))
           /\ Others(ps) \subseteq HitsOf(C, T) /\ IsFiniteSet(Others(ps))
           /\ \A p \in Range(ps) : /\ KeptOf(p) \subseteq Kept(ps)
                                   /\ Range(FuseMemory(p)) \subseteq Kept(ps) \cup Others(ps)
  <1> DEFINE K == [i \in 1 .. Len(ps) |-> KeptOf(ps[i])]
             F == [i \in 1 .. Len(ps) |-> Range(FuseMemory(ps[i]))]
  <1>1. /\ Len(ps) \in Nat /\ DOMAIN ps = 1 .. Len(ps)
        /\ \A i \in 1 .. Len(ps) : ps[i] \in PoolsOf(C, T)
    OBVIOUS
  <1>2. ASSUME NEW p \in PoolsOf(C, T)
        PROVE  /\ KeptOf(p) \subseteq HitsOf(C, T) /\ IsFiniteSet(KeptOf(p))
               /\ Range(FuseMemory(p)) \subseteq HitsOf(C, T) /\ IsFiniteSet(Range(FuseMemory(p)))
    <2>1. FuseMemory(p) \in Seq(HitsOf(C, T))
      BY Fusing
    <2>2. SelectByMemory(FuseMemory(p), PerSessionK) \in Seq(HitsOf(C, T))
      BY <2>1, SelectingOf, RetrievalAssumption
    <2> QED
      BY <2>1, <2>2, RangeIsFinite DEF KeptOf
  <1>3. K \in Seq({H \in SUBSET HitsOf(C, T) : IsFiniteSet(H)})
        /\ F \in Seq({H \in SUBSET HitsOf(C, T) : IsFiniteSet(H)})
    <2>1. /\ K \in [1 .. Len(ps) -> {H \in SUBSET HitsOf(C, T) : IsFiniteSet(H)}]
          /\ F \in [1 .. Len(ps) -> {H \in SUBSET HitsOf(C, T) : IsFiniteSet(H)}]
      BY <1>1, <1>2
    <2> QED
      BY <1>1, <2>1
  <1>a. Kept(ps) = UNION {KeptOf(p) : p \in Range(ps)}
    BY DEF Kept, KeptOf
  <1>b. Others(ps) = (UNION {Range(FuseMemory(p)) : p \in Range(ps)}) \ Kept(ps)
    BY DEF Others
  <1>c. Range(ps) = {ps[i] : i \in 1 .. Len(ps)}
    BY RangeIsFinite
  <1>4. {KeptOf(p) : p \in Range(ps)} = Range(K)
    <2>1. Range(K) = {KeptOf(ps[i]) : i \in 1 .. Len(ps)}
      BY DEF Range
    <2> QED
      BY <2>1, <1>c
  <1>5. {Range(FuseMemory(p)) : p \in Range(ps)} = Range(F)
    <2>1. Range(F) = {Range(FuseMemory(ps[i])) : i \in 1 .. Len(ps)}
      BY DEF Range
    <2> QED
      BY <2>1, <1>c
  <1> HIDE DEF K, F
  <1>6. /\ IsFiniteSet(Range(K)) /\ Range(K) \subseteq {H \in SUBSET HitsOf(C, T) : IsFiniteSet(H)}
        /\ IsFiniteSet(Range(F)) /\ Range(F) \subseteq {H \in SUBSET HitsOf(C, T) : IsFiniteSet(H)}
    BY <1>3, RangeIsFinite
  <1>7. /\ IsFiniteSet(UNION Range(K)) /\ UNION Range(K) \subseteq HitsOf(C, T)
        /\ IsFiniteSet(UNION Range(F)) /\ UNION Range(F) \subseteq HitsOf(C, T)
    BY <1>6, FS_UNION
  <1>8. Others(ps) = (UNION Range(F)) \ Kept(ps)
    BY <1>5, <1>b
  <1>9. IsFiniteSet(Others(ps))
    BY <1>7, <1>8, FS_Difference
  <1>10. \A p \in Range(ps) : /\ KeptOf(p) \subseteq Kept(ps)
                              /\ Range(FuseMemory(p)) \subseteq Kept(ps) \cup Others(ps)
    BY <1>a, <1>b
  <1> QED
    BY <1>4, <1>a, <1>7, <1>8, <1>9, <1>10

\* Min and Max of two numbers.
LEMMA Pairs ==
    ASSUME NEW a \in Nat, NEW b \in Nat
    PROVE  /\ Min({a, b}) = IF a <= b THEN a ELSE b
           /\ Max({a, b}) = IF a <= b THEN b ELSE a
  <1>1. \E x \in {a, b} : \A y \in {a, b} : x <= y
    OBVIOUS
  <1>2. \E x \in {a, b} : \A y \in {a, b} : x >= y
    OBVIOUS
  <1>3. Min({a, b}) \in {a, b} /\ \A y \in {a, b} : Min({a, b}) <= y
    BY <1>1 DEF Min
  <1>4. Max({a, b}) \in {a, b} /\ \A y \in {a, b} : Max({a, b}) >= y
    BY <1>2 DEF Max
  <1> QED
    BY <1>3, <1>4

\* A query of all sessions holds hits of the sessions, fills its slots, and
\* below the ceiling keeps what each session reserves.
LEMMA MergingSessions ==
    ASSUME NEW C, C \subseteq Claims, NEW T, T \subseteq Turns, NEW ps \in Seq(PoolsOf(C, T))
    PROVE  /\ Across(ps) \in Seq(HitsOf(C, T)) /\ AcrossBudget(ps) \in Nat
           /\ Slots(Across(ps)) < AcrossBudget(ps) =>
                \A p \in Range(ps) : Memories(FuseMemory(p)) \subseteq Memories(Across(ps))
           /\ Cardinality(Kept(ps)) <= MaxAcrossHits => Kept(ps) \subseteq Range(Across(ps))
  <1> DEFINE H == HitsOf(C, T)
             k == Sorted(Kept(ps))
             o == Sorted(Others(ps))
             n == AcrossBudget(ps)
             r == Across(ps)
  <1>1. /\ Kept(ps) \subseteq H /\ IsFiniteSet(Kept(ps)) /\ Others(ps) \subseteq H /\ IsFiniteSet(Others(ps))
        /\ H \subseteq Hits
    BY KeepingHits DEF HitsOf
  <1>2. Cardinality(Kept(ps)) \in Nat
    BY <1>1, FS_CardinalityType
  <1>3. /\ n \in Nat
        /\ Cardinality(Kept(ps)) <= MaxAcrossHits => Cardinality(Kept(ps)) <= n
    <2>1. TopK \in Nat /\ MaxAcrossHits \in Nat
      BY RetrievalAssumption
    <2> DEFINE m == Max({TopK, Cardinality(Kept(ps))})
    <2>2. m \in Nat /\ m >= Cardinality(Kept(ps))
      <3>1. m = IF TopK <= Cardinality(Kept(ps)) THEN Cardinality(Kept(ps)) ELSE TopK
        BY <1>2, <2>1, Pairs
      <3> HIDE DEF m
      <3> QED
        BY <1>2, <2>1, <3>1
    <2>3. n = Min({m, MaxAcrossHits})
      BY DEF AcrossBudget
    <2> HIDE DEF m, n
    <2>4. n = IF m <= MaxAcrossHits THEN m ELSE MaxAcrossHits
      BY <2>1, <2>2, <2>3, Pairs
    <2> QED
      BY <1>2, <2>1, <2>2, <2>4
  <1>4. /\ k \in Seq(Kept(ps)) /\ Len(k) = Cardinality(Kept(ps)) /\ Range(k) = Kept(ps)
        /\ o \in Seq(Others(ps)) /\ Range(o) = Others(ps)
    <2>1. Kept(ps) \subseteq Hits /\ Others(ps) \subseteq Hits
      BY <1>1
    <2> QED
      BY <1>1, <2>1, SortedHits
  <1>5. k \in Seq(H) /\ o \in Seq(H)
    BY <1>1, <1>4, SeqMonotonic
  <1>6. r = SelectByMemory(k \o o, n)
    BY DEF Across
  <1> HIDE DEF H, k, o, n, r
  <1>7. /\ k \o o \in Seq(H) /\ Range(k \o o) = Kept(ps) \cup Others(ps)
        /\ \A i \in 1 .. Len(k) : (k \o o)[i] = k[i]
        /\ Len(k \o o) = Len(k) + Len(o) /\ Len(o) \in Nat /\ Len(k) \in Nat
    BY <1>4, <1>5, Joining, LenProperties
  <1>8. k \o o \in Seq(Hits)
    BY <1>1, <1>7, SeqMonotonic
  <1>9. r \in Seq(H)
    BY <1>3, <1>6, <1>7, SelectingOf DEF H
  <1>10. ASSUME Slots(r) < n, NEW p \in Range(ps) PROVE Memories(FuseMemory(p)) \subseteq Memories(r)
    <2>1. Memories(k \o o) \subseteq Memories(r)
      BY <1>3, <1>6, <1>8, <1>10, SlotsAreFilled
    <2>2. Range(FuseMemory(p)) \subseteq Range(k \o o)
      BY <1>7, <1>10, KeepingHits
    <2> QED
      BY <2>1, <2>2 DEF Memories
  <1>11. ASSUME Cardinality(Kept(ps)) <= MaxAcrossHits PROVE Kept(ps) \subseteq Range(r)
    <2> DEFINE w == Cut(k \o o, n)
    <2>1. Range(w) \subseteq Range(r)
      BY <1>3, <1>6, <1>8, Selecting
    <2>2. /\ w \in Seq(Hits) /\ Len(w) = (IF Len(k \o o) < n THEN Len(k \o o) ELSE n)
          /\ \A i \in 1 .. Len(w) : w[i] = (k \o o)[i]
      BY <1>3, <1>8, Cutting
    <2> HIDE DEF w
    <2>3. Len(k) <= Len(w)
      BY <1>2, <1>3, <1>4, <1>7, <1>11, <2>2
    <2>4. Range(k) = {k[i] : i \in 1 .. Len(k)} /\ Range(w) = {w[i] : i \in 1 .. Len(w)}
      BY <1>5, <2>2, RangeIsFinite
    <2>5. Range(k) \subseteq Range(w)
      BY <1>7, <2>2, <2>3, <2>4
    <2> QED
      BY <2>1, <2>5, <1>4
  <1> QED
    BY <1>3, <1>9, <1>10, <1>11 DEF r, n, H

\* A session's best hits are among those it reserves.
LEMMA ReservingTheBest ==
    ASSUME NEW C, C \subseteq Claims, NEW T, T \subseteq Turns, NEW p \in PoolsOf(C, T)
    PROVE  Range(Cut(Fused(p), Min({TopK, PerSessionK}))) \subseteq KeptOf(p)
  <1> DEFINE f == Fused(p)
             g == FuseMemory(p)
             m == Min({TopK, PerSessionK})
             v == Cut(f, TopK)
             w == Cut(g, PerSessionK)
             c == Cut(f, m)
  <1>1. TopK \in Nat /\ PerSessionK \in Nat
    BY RetrievalAssumption
  <1>2. m \in Nat /\ m <= TopK /\ m <= PerSessionK
    BY <1>1, Pairs
  <1>3. f \in Seq(Hits) /\ g \in Seq(Hits) /\ g = SelectByMemory(f, TopK)
    BY Fusing DEF FuseMemory
  <1>4. KeptOf(p) = Range(SelectByMemory(g, PerSessionK))
    BY DEF KeptOf
  <1> HIDE DEF f, g, m
  <1>5. /\ v \in Seq(Hits) /\ Len(v) = (IF Len(f) < TopK THEN Len(f) ELSE TopK)
        /\ \A i \in 1 .. Len(v) : g[i] = f[i]
        /\ Len(g) = Len(v) + Len(Cut(Taken(f, FreshFrom(f, Len(v))), Cardinality(Shared(v))))
        /\ Cut(Taken(f, FreshFrom(f, Len(v))), Cardinality(Shared(v))) \in Seq(Hits)
    BY <1>1, <1>3, Selecting, Cutting
  <1>6. Len(v) <= Len(g) /\ Len(g) \in Nat /\ Len(f) \in Nat
    BY <1>3, <1>5, LenProperties
  <1>7. /\ w \in Seq(Hits) /\ Len(w) = (IF Len(g) < PerSessionK THEN Len(g) ELSE PerSessionK)
        /\ \A i \in 1 .. Len(w) : w[i] = g[i]
        /\ Range(w) \subseteq KeptOf(p)
    BY <1>1, <1>3, <1>4, Selecting, Cutting
  <1>8. /\ c \in Seq(Hits) /\ Len(c) = (IF Len(f) < m THEN Len(f) ELSE m)
        /\ \A i \in 1 .. Len(c) : c[i] = f[i]
    BY <1>2, <1>3, Cutting
  <1> HIDE DEF v, w, c
  <1>9. \A i \in 1 .. Len(c) : i \in 1 .. Len(w) /\ c[i] = w[i]
    <2>1. Len(c) <= Len(v) /\ Len(c) <= Len(w) /\ Len(c) \in Nat /\ Len(v) \in Nat /\ Len(w) \in Nat
      <3>1. Len(c) <= Len(f) /\ Len(c) <= m /\ Len(c) \in Nat
        BY <1>2, <1>6, <1>8
      <3>2. Len(c) <= Len(v) /\ Len(v) \in Nat
        BY <3>1, <1>1, <1>2, <1>5, <1>6
      <3>3. Len(c) <= Len(w) /\ Len(w) \in Nat
        BY <3>1, <3>2, <1>1, <1>2, <1>6, <1>7
      <3> QED
        BY <3>1, <3>2, <3>3
    <2> TAKE i \in 1 .. Len(c)
    <2>2. i \in 1 .. Len(v) /\ i \in 1 .. Len(w)
      BY <2>1
    <2> QED
      BY <2>2, <1>5, <1>7, <1>8
  <1>10. Range(c) = {c[i] : i \in 1 .. Len(c)} /\ Range(w) = {w[i] : i \in 1 .. Len(w)}
    BY <1>7, <1>8, RangeIsFinite
  <1>11. Range(c) \subseteq KeptOf(p)
    BY <1>7, <1>9, <1>10
  <1> QED
    BY <1>11 DEF c, f, m

-----------------------------------------------------------------------------
(* What a working context costs                                           *)

TokensOf(h) == Toks[h.kind][h.id]

\* f adds up the tokens of the first n hits.
Adds(f, s, n) ==
    /\ f \in [0 .. n -> Nat] /\ f[0] = 0
    /\ \A i \in 1 .. n : f[i] = f[i - 1] + TokensOf(s[i])

\* A hit costs a number of tokens.
LEMMA TokensAreNumbers == \A h \in Hits : TokensOf(h) \in Nat
  BY ServingAssumption DEF Hits, TokensOf

\* The running sums TokensUsed describes exist for every sequence of hits.
LEMMA SumsExist ==
    ASSUME NEW s \in Seq(Hits)
    PROVE  \A n \in 0 .. Len(s) : \E f : Adds(f, s, n)
  <1> DEFINE Bad == {n \in 0 .. Len(s) : ~\E f : Adds(f, s, n)}
  <1> SUFFICES ASSUME Bad # {} PROVE FALSE
    OBVIOUS
  <1>1. Len(s) \in Nat /\ Bad \subseteq Nat
    OBVIOUS
  <1>2. PICK n \in Bad : \A m \in Bad : n <= m
    BY <1>1, Smallest
  <1>3. CASE n = 0
    <2>1. Adds([i \in 0 .. 0 |-> 0], s, 0)
      BY DEF Adds
    <2> QED
      BY <1>2, <1>3, <2>1
  <1>4. CASE n > 0
    <2>1. n \in Nat /\ n - 1 \in 0 .. Len(s) /\ n - 1 \notin Bad /\ n \in 1 .. Len(s)
      BY <1>1, <1>2, <1>4
    <2>2. PICK f : Adds(f, s, n - 1)
      BY <2>1
    <2> DEFINE g == [i \in 0 .. n |-> IF i < n THEN f[i] ELSE f[n - 1] + TokensOf(s[n])]
    <2>3. TokensOf(s[n]) \in Nat
      BY <2>1, TokensAreNumbers
    <2>4. f \in [0 .. n - 1 -> Nat] /\ f[0] = 0 /\ \A i \in 1 .. n - 1 : f[i] = f[i - 1] + TokensOf(s[i])
      BY <2>2 DEF Adds
    <2>5. g \in [0 .. n -> Nat]
      BY <2>1, <2>3, <2>4
    <2>6. g[0] = 0 /\ \A i \in 1 .. n : g[i] = g[i - 1] + TokensOf(s[i])
      BY <2>1, <2>4
    <2> HIDE DEF g
    <2>7. Adds(g, s, n)
      BY <2>5, <2>6 DEF Adds
    <2> QED
      BY <1>2, <2>7
  <1> QED
    BY <1>1, <1>2, <1>3, <1>4

\* Sequences that begin alike have the same running sums.
LEMMA SumsAgree ==
    ASSUME NEW s, NEW t, NEW n \in Nat, \A i \in 1 .. n : s[i] = t[i],
           NEW f, Adds(f, s, n), NEW g, Adds(g, t, n)
    PROVE  f[n] = g[n]
  <1> DEFINE Bad == {i \in 0 .. n : f[i] # g[i]}
  <1> SUFFICES ASSUME Bad # {} PROVE FALSE
    OBVIOUS
  <1>1. Bad \subseteq Nat
    OBVIOUS
  <1>2. PICK i \in Bad : \A m \in Bad : i <= m
    BY <1>1, Smallest
  <1>3. i # 0
    BY <1>2 DEF Adds
  <1>4. i \in 1 .. n /\ i - 1 \in 0 .. n /\ i - 1 \notin Bad
    BY <1>2, <1>3
  <1>5. f[i - 1] = g[i - 1] /\ s[i] = t[i]
    BY <1>4
  <1> QED
    BY <1>2, <1>4, <1>5 DEF Adds

\* TokensUsed is the last of the running sums.
LEMMA AddingUp ==
    ASSUME NEW s \in Seq(Hits)
    PROVE  \E f : Adds(f, s, Len(s)) /\ TokensUsed(s) = f[Len(s)]
  <1> DEFINE IsSum(f) == f = [n \in 0 .. Len(s) |->
                                 IF n = 0 THEN 0 ELSE f[n - 1] + Toks[s[n].kind][s[n].id]]
             up == CHOOSE f : IsSum(f)
  <1>1. Len(s) \in Nat
    OBVIOUS
  <1>2. TokensUsed(s) = up[Len(s)]
    BY DEF TokensUsed
  <1>3. PICK f : Adds(f, s, Len(s))
    BY <1>1, SumsExist
  <1>4. f = [n \in 0 .. Len(s) |-> f[n]]
    BY <1>3 DEF Adds
  <1>5. \A n \in 0 .. Len(s) : f[n] = IF n = 0 THEN 0 ELSE f[n - 1] + Toks[s[n].kind][s[n].id]
    BY <1>1, <1>3 DEF Adds, TokensOf
  <1>6. IsSum(f)
    BY <1>4, <1>5
  <1>7. IsSum(up)
    BY <1>6
  <1> HIDE DEF up
  <1>8. /\ DOMAIN up = 0 .. Len(s)
        /\ up[0] = 0
        /\ \A n \in 1 .. Len(s) : up[n] = up[n - 1] + TokensOf(s[n])
    BY <1>1, <1>7 DEF TokensOf
  <1>9. \A n \in 1 .. Len(s) : TokensOf(s[n]) \in Nat
    BY TokensAreNumbers
  <1>10. \A n \in 0 .. Len(s) : up[n] \in Nat
    <2> DEFINE Bad == {n \in 0 .. Len(s) : up[n] \notin Nat}
    <2> SUFFICES ASSUME Bad # {} PROVE FALSE
      OBVIOUS
    <2>1. Bad \subseteq Nat
      BY <1>1
    <2>2. PICK i \in Bad : \A m \in Bad : i <= m
      BY <2>1, Smallest
    <2>3. i # 0
      BY <2>2, <1>8
    <2>4. i \in 1 .. Len(s) /\ i - 1 \in 0 .. Len(s) /\ i - 1 \notin Bad
      BY <1>1, <2>2, <2>3
    <2>5. up[i - 1] \in Nat
      BY <2>4
    <2> QED
      BY <2>2, <2>4, <2>5, <1>8, <1>9
  <1>11. up = [n \in 0 .. Len(s) |-> up[n]]
    <2>1. \E h : up = [n \in 0 .. Len(s) |-> h[n]]
      <3> DEFINE e(n) == IF n = 0 THEN 0 ELSE up[n - 1] + Toks[s[n].kind][s[n].id]
      <3>1. up = [n \in 0 .. Len(s) |-> e(n)]
        BY <1>7
      <3> HIDE DEF e
      <3>2. up = [n \in 0 .. Len(s) |-> up[n]]
        BY <3>1
      <3> QED
        BY <3>2
    <2> QED
      BY <2>1
  <1>12. Adds(up, s, Len(s))
    BY <1>8, <1>10, <1>11 DEF Adds
  <1> QED
    BY <1>2, <1>12

\* The tokens of a text are those of its parts.
LEMMA TokensAddUp ==
    /\ TokensUsed(<<>>) = 0
    /\ \A s \in Seq(Hits) : TokensUsed(s) \in Nat
    /\ \A s \in Seq(Hits), h \in Hits : TokensUsed(Append(s, h)) = TokensUsed(s) + TokensOf(h)
  <1>1. TokensUsed(<<>>) = 0
    <2>1. <<>> \in Seq(Hits) /\ Len(<<>>) = 0
      OBVIOUS
    <2>2. PICK f : Adds(f, <<>>, 0) /\ TokensUsed(<<>>) = f[0]
      BY <2>1, AddingUp
    <2> QED
      BY <2>2 DEF Adds
  <1>2. ASSUME NEW s \in Seq(Hits) PROVE TokensUsed(s) \in Nat
    <2>1. PICK f : Adds(f, s, Len(s)) /\ TokensUsed(s) = f[Len(s)]
      BY AddingUp
    <2>2. Len(s) \in 0 .. Len(s)
      OBVIOUS
    <2> QED
      BY <2>1, <2>2 DEF Adds
  <1>3. ASSUME NEW s \in Seq(Hits), NEW h \in Hits
        PROVE  TokensUsed(Append(s, h)) = TokensUsed(s) + TokensOf(h)
    <2> DEFINE t == Append(s, h)
               n == Len(s)
    <2>1. /\ t \in Seq(Hits) /\ Len(t) = n + 1 /\ n \in Nat
          /\ \A i \in 1 .. n : t[i] = s[i]
          /\ t[n + 1] = h
      BY AppendProperties
    <2>2. PICK f : Adds(f, s, n) /\ TokensUsed(s) = f[n]
      BY AddingUp
    <2> HIDE DEF t, n
    <2>3. PICK g : Adds(g, t, n + 1) /\ TokensUsed(t) = g[n + 1]
      BY <2>1, AddingUp
    <2> DEFINE k == [i \in 0 .. n |-> g[i]]
    <2>4. Adds(k, t, n)
      <3>1. g \in [0 .. n + 1 -> Nat] /\ g[0] = 0 /\ \A i \in 1 .. n + 1 : g[i] = g[i - 1] + TokensOf(t[i])
        BY <2>3 DEF Adds
      <3>2. k \in [0 .. n -> Nat] /\ k[0] = 0 /\ \A i \in 1 .. n : k[i] = k[i - 1] + TokensOf(t[i])
        BY <3>1, <2>1
      <3> HIDE DEF k
      <3> QED
        BY <3>2 DEF Adds
    <2>5. k[n] = f[n]
      <3> HIDE DEF k
      <3> QED
        BY <2>1, <2>2, <2>4, SumsAgree
    <2>6. g[n] = f[n]
      BY <2>1, <2>5
    <2>7. g[n + 1] = g[n] + TokensOf(t[n + 1])
      <3>1. \A i \in 1 .. n + 1 : g[i] = g[i - 1] + TokensOf(t[i])
        BY <2>3 DEF Adds
      <3>2. PICK i \in 1 .. n + 1 : i = n + 1
        BY <2>1
      <3>3. g[i] = g[i - 1] + TokensOf(t[i]) /\ i - 1 = n
        BY <2>1, <3>1, <3>2
      <3> QED
        BY <3>2, <3>3
    <2> QED
      BY <2>1, <2>2, <2>3, <2>6, <2>7 DEF t
  <1> QED
    BY <1>1, <1>2, <1>3

-----------------------------------------------------------------------------
(* Packing a working context                                              *)

\* f packs the first n hits.
Packs(f, s, n) ==
    /\ f \in [0 .. n -> Seq(Hits)] /\ f[0] = <<>>
    /\ \A i \in 1 .. n : f[i] = IF TokensUsed(Append(f[i - 1], s[i])) > TokenBudget THEN f[i - 1]
                                ELSE Append(f[i - 1], s[i])

\* The packings Packed describes exist for every sequence of hits.
LEMMA PackingsExist ==
    ASSUME NEW s \in Seq(Hits)
    PROVE  \A n \in 0 .. Len(s) : \E f : Packs(f, s, n)
  <1> DEFINE Bad == {n \in 0 .. Len(s) : ~\E f : Packs(f, s, n)}
  <1> SUFFICES ASSUME Bad # {} PROVE FALSE
    OBVIOUS
  <1>1. Len(s) \in Nat /\ Bad \subseteq Nat
    OBVIOUS
  <1>2. PICK n \in Bad : \A m \in Bad : n <= m
    BY <1>1, Smallest
  <1>3. CASE n = 0
    <2>1. Packs([i \in 0 .. 0 |-> <<>>], s, 0)
      BY DEF Packs
    <2> QED
      BY <1>2, <1>3, <2>1
  <1>4. CASE n > 0
    <2>1. n \in Nat /\ n - 1 \in 0 .. Len(s) /\ n - 1 \notin Bad /\ n \in 1 .. Len(s)
      BY <1>1, <1>2, <1>4
    <2>2. PICK f : Packs(f, s, n - 1)
      BY <2>1
    <2> DEFINE last == IF TokensUsed(Append(f[n - 1], s[n])) > TokenBudget THEN f[n - 1]
                       ELSE Append(f[n - 1], s[n])
               g == [i \in 0 .. n |-> IF i < n THEN f[i] ELSE last]
    <2>4. /\ f \in [0 .. n - 1 -> Seq(Hits)] /\ f[0] = <<>>
          /\ \A i \in 1 .. n - 1 : f[i] = IF TokensUsed(Append(f[i - 1], s[i])) > TokenBudget THEN f[i - 1]
                                          ELSE Append(f[i - 1], s[i])
      BY <2>2 DEF Packs
    <2>3. last \in Seq(Hits)
      <3>1. f[n - 1] \in Seq(Hits) /\ s[n] \in Hits
        BY <2>1, <2>4
      <3>2. Append(f[n - 1], s[n]) \in Seq(Hits)
        BY <3>1, AppendProperties
      <3> QED
        BY <3>1, <3>2
    <2>a. last = IF TokensUsed(Append(f[n - 1], s[n])) > TokenBudget THEN f[n - 1]
                       ELSE Append(f[n - 1], s[n])
      OBVIOUS
    <2> HIDE DEF last
    <2>5. g \in [0 .. n -> Seq(Hits)]
      BY <2>1, <2>3, <2>4
    <2>b. /\ \A i \in 0 .. n - 1 : g[i] = f[i]
          /\ g[n] = last
      BY <2>1
    <2> HIDE DEF g
    <2>6. g[0] = <<>> /\ \A i \in 1 .. n : g[i] = IF TokensUsed(Append(g[i - 1], s[i])) > TokenBudget THEN g[i - 1]
                                                   ELSE Append(g[i - 1], s[i])
      <3>1. g[0] = <<>>
        BY <2>1, <2>4, <2>b
      <3>2. ASSUME NEW i \in 1 .. n
            PROVE  g[i] = IF TokensUsed(Append(g[i - 1], s[i])) > TokenBudget THEN g[i - 1]
                          ELSE Append(g[i - 1], s[i])
        <4>1. g[i - 1] = f[i - 1] /\ i - 1 \in 0 .. n - 1
          BY <2>1, <2>b
        <4>2. CASE i = n
          BY <4>1, <4>2, <2>a, <2>b
        <4>3. CASE i < n
          <5>1. i \in 1 .. n - 1 /\ i \in 0 .. n - 1
            BY <4>3, <2>1
          <5>2. g[i] = f[i]
            BY <5>1, <2>b
          <5> QED
            BY <4>1, <5>1, <5>2, <2>4
        <4> QED
          BY <4>2, <4>3, <2>1
      <3> QED
        BY <3>1, <3>2
    <2>7. Packs(g, s, n)
      BY <2>5, <2>6 DEF Packs
    <2> QED
      BY <1>2, <2>7
  <1> QED
    BY <1>1, <1>2, <1>3, <1>4

\* Packed is the last of the packings.
LEMMA PackingIs ==
    ASSUME NEW s \in Seq(Hits)
    PROVE  \E f : Packs(f, s, Len(s)) /\ Packed(s) = f[Len(s)]
  <1> DEFINE Step(t, h) == IF TokensUsed(Append(t, h)) > TokenBudget THEN t ELSE Append(t, h)
             IsPacking(f) == f = [n \in 0 .. Len(s) |->
                                 IF n = 0 THEN <<>>
                                 ELSE IF TokensUsed(Append(f[n - 1], s[n])) > TokenBudget THEN f[n - 1]
                                      ELSE Append(f[n - 1], s[n])]
             up == CHOOSE f : IsPacking(f)
  <1>1. Len(s) \in Nat
    OBVIOUS
  <1>2. Packed(s) = up[Len(s)]
    BY DEF Packed
  <1>3. PICK f : Packs(f, s, Len(s))
    BY <1>1, PackingsExist
  <1>4. f = [n \in 0 .. Len(s) |-> f[n]]
    BY <1>3 DEF Packs
  <1>5. \A n \in 0 .. Len(s) : f[n] = IF n = 0 THEN <<>>
                                      ELSE IF TokensUsed(Append(f[n - 1], s[n])) > TokenBudget THEN f[n - 1]
                                           ELSE Append(f[n - 1], s[n])
    <2> TAKE n \in 0 .. Len(s)
    <2>1. CASE n = 0
      BY <2>1, <1>3 DEF Packs
    <2>2. CASE n # 0
      <3>1. n \in 1 .. Len(s)
        BY <2>2, <1>1
      <3> QED
        BY <3>1, <2>2, <1>3 DEF Packs
    <2> QED
      BY <2>1, <2>2
  <1>6. IsPacking(f)
    BY <1>4, <1>5
  <1>7. IsPacking(up)
    BY <1>6
  <1> HIDE DEF up
  <1>8. /\ DOMAIN up = 0 .. Len(s)
        /\ up[0] = <<>>
        /\ \A n \in 1 .. Len(s) : up[n] = IF TokensUsed(Append(up[n - 1], s[n])) > TokenBudget THEN up[n - 1]
                                          ELSE Append(up[n - 1], s[n])
    <2> DEFINE e(n) == IF n = 0 THEN <<>>
                       ELSE IF TokensUsed(Append(up[n - 1], s[n])) > TokenBudget THEN up[n - 1]
                            ELSE Append(up[n - 1], s[n])
    <2>1. up = [n \in 0 .. Len(s) |-> e(n)]
      BY <1>7
    <2>2. \A n \in 1 .. Len(s) : e(n) = IF TokensUsed(Append(up[n - 1], s[n])) > TokenBudget THEN up[n - 1]
                                         ELSE Append(up[n - 1], s[n])
      OBVIOUS
    <2>3. e(0) = <<>>
      OBVIOUS
    <2> HIDE DEF e
    <2>4. DOMAIN up = 0 .. Len(s) /\ \A n \in 0 .. Len(s) : up[n] = e(n)
      BY <2>1
    <2>5. 0 \in 0 .. Len(s) /\ 1 .. Len(s) \subseteq 0 .. Len(s)
      BY <1>1
    <2>6. \A n \in 1 .. Len(s) : up[n] = e(n)
      BY <2>4, <2>5
    <2> QED
      BY <2>2, <2>3, <2>4, <2>5, <2>6
  <1>10. \A n \in 0 .. Len(s) : up[n] \in Seq(Hits)
    <2> DEFINE Bad == {n \in 0 .. Len(s) : up[n] \notin Seq(Hits)}
    <2> SUFFICES ASSUME Bad # {} PROVE FALSE
      OBVIOUS
    <2>1. Bad \subseteq Nat
      BY <1>1
    <2>2. PICK i \in Bad : \A m \in Bad : i <= m
      BY <2>1, Smallest
    <2>3. i # 0
      <3>1. up[0] \in Seq(Hits)
        BY <1>8
      <3> QED
        BY <2>2, <3>1
    <2>4. i \in 1 .. Len(s) /\ i - 1 \in 0 .. Len(s) /\ i - 1 \notin Bad
      BY <1>1, <2>2, <2>3
    <2>5. up[i - 1] \in Seq(Hits) /\ s[i] \in Hits
      BY <2>4
    <2>6. Append(up[i - 1], s[i]) \in Seq(Hits)
      BY <2>5, AppendProperties
    <2> QED
      BY <2>2, <2>4, <2>5, <2>6, <1>8
  <1>11. up = [n \in 0 .. Len(s) |-> up[n]]
    <2> DEFINE e(n) == IF n = 0 THEN <<>>
                       ELSE IF TokensUsed(Append(up[n - 1], s[n])) > TokenBudget THEN up[n - 1]
                            ELSE Append(up[n - 1], s[n])
    <2>1. up = [n \in 0 .. Len(s) |-> e(n)]
      BY <1>7
    <2> HIDE DEF e
    <2> QED
      BY <2>1
  <1>12. Packs(up, s, Len(s))
    BY <1>8, <1>10, <1>11 DEF Packs
  <1> QED
    BY <1>2, <1>12

\* A working context holds hits, no more of them than it has tokens for, and
\* has not enough tokens left for any other.
LEMMA Packing ==
    ASSUME NEW s \in Seq(Hits)
    PROVE  /\ Packed(s) \in Seq(Hits) /\ Range(Packed(s)) \subseteq Range(s)
           /\ TokensUsed(Packed(s)) <= TokenBudget
           /\ \A h \in Range(s) \ Range(Packed(s)) : TokensUsed(Packed(s)) + TokensOf(h) > TokenBudget
  <1>1. PICK f : Packs(f, s, Len(s)) /\ Packed(s) = f[Len(s)]
    BY PackingIs
  <1>2. Len(s) \in Nat /\ TokenBudget \in Nat
    BY RetrievalAssumption
  <1> DEFINE Good(n) == /\ Range(f[n]) \subseteq {s[j] : j \in 1 .. n}
                        /\ TokensUsed(f[n]) <= TokenBudget
                        /\ \A j \in 1 .. n : s[j] \in Range(f[n]) \/ TokensUsed(f[n]) + TokensOf(s[j]) > TokenBudget
             Bad == {n \in 0 .. Len(s) : ~Good(n)}
  <1>3. /\ \A n \in 0 .. Len(s) : f[n] \in Seq(Hits)
        /\ f[0] = <<>>
        /\ \A i \in 1 .. Len(s) : f[i] = IF TokensUsed(Append(f[i - 1], s[i])) > TokenBudget THEN f[i - 1]
                                          ELSE Append(f[i - 1], s[i])
    BY <1>1 DEF Packs
  <1>4. Good(0)
    <2>1. Range(<<>>) = {}
      BY DEF Range
    <2> QED
      BY <1>2, <1>3, <2>1, TokensAddUp
  <1>5. ASSUME NEW n \in 1 .. Len(s), Good(n - 1) PROVE Good(n)
    <2>1. /\ f[n - 1] \in Seq(Hits) /\ s[n] \in Hits /\ n - 1 \in 0 .. Len(s)
      BY <1>2, <1>3
    <2> DEFINE t == f[n - 1]
               h == s[n]
    <2>2. /\ TokensUsed(t) \in Nat /\ TokensOf(h) \in Nat
          /\ TokensUsed(Append(t, h)) = TokensUsed(t) + TokensOf(h)
      BY <2>1, TokensAddUp, TokensAreNumbers
    <2>3. \A j \in 1 .. n : j = n \/ j \in 1 .. n - 1
      BY <1>2
    <2>g. /\ Range(t) \subseteq {s[j] : j \in 1 .. n - 1}
          /\ TokensUsed(t) <= TokenBudget
          /\ \A j \in 1 .. n - 1 : s[j] \in Range(t) \/ TokensUsed(t) + TokensOf(s[j]) > TokenBudget
      BY <1>5
    <2>d. f[n] = IF TokensUsed(Append(t, h)) > TokenBudget THEN t ELSE Append(t, h)
      BY <1>3
    <2>n. {s[j] : j \in 1 .. n} = {s[j] : j \in 1 .. n - 1} \cup {h} /\ 1 .. n - 1 \subseteq 1 .. n
      BY <1>2, <2>3
    <2>4. CASE TokensUsed(Append(t, h)) > TokenBudget
      <3>1. f[n] = t
        BY <2>4, <2>d
      <3> HIDE DEF t
      <3>2. \A j \in 1 .. n : s[j] \in Range(t) \/ TokensUsed(t) + TokensOf(s[j]) > TokenBudget
        BY <2>2, <2>3, <2>4, <2>g
      <3> QED
        BY <3>1, <3>2, <2>n, <2>g
    <2>5. CASE ~(TokensUsed(Append(t, h)) > TokenBudget)
      <3>1. f[n] = Append(t, h)
        BY <2>5, <2>d
      <3>2. Range(Append(t, h)) = Range(t) \cup {h}
        <4>1. <<h>> \in Seq(Hits) /\ Append(t, h) = t \o <<h>>
          BY <2>1, AppendIsConcat
        <4>2. Range(<<h>>) = {h}
          BY DEF Range
        <4> HIDE DEF t, h
        <4>3. t \in Seq(Hits)
          BY <2>1 DEF t
        <4>4. Range(t \o <<h>>) = Range(t) \cup Range(<<h>>)
          BY <4>1, <4>3, Joining
        <4> QED
          BY <4>1, <4>2, <4>4
      <3>3. TokensUsed(Append(t, h)) <= TokenBudget
        BY <1>2, <2>2, <2>5
      <3> DEFINE u == Append(t, h)
      <3> HIDE DEF t, u, h
      <3>4. \A j \in 1 .. n - 1 : s[j] \in Range(u) \/ TokensUsed(u) + TokensOf(s[j]) > TokenBudget
        <4> TAKE j \in 1 .. n - 1
        <4>1. TokensOf(s[j]) \in Nat
          <5>1. j \in 1 .. Len(s)
            BY <1>2
          <5> QED
            BY <5>1, TokensAreNumbers
        <4>2. s[j] \in Range(t) \/ TokensUsed(t) + TokensOf(s[j]) > TokenBudget
          BY <2>g
        <4> QED
          BY <4>1, <4>2, <3>2, <2>2, <1>2 DEF u
      <3>5. \A j \in 1 .. n : s[j] \in Range(u) \/ TokensUsed(u) + TokensOf(s[j]) > TokenBudget
        BY <3>2, <3>4, <2>3 DEF u, h
      <3>6. Range(u) \subseteq {s[j] : j \in 1 .. n}
        BY <3>2, <2>n, <2>g DEF u
      <3> QED
        BY <3>1, <3>3, <3>5, <3>6 DEF u
    <2> QED
      BY <2>4, <2>5
  <1> HIDE DEF Good
  <1>6. Bad = {}
    <2> SUFFICES ASSUME Bad # {} PROVE FALSE
      OBVIOUS
    <2>1. Bad \subseteq Nat
      BY <1>2
    <2>2. PICK i \in Bad : \A m \in Bad : i <= m
      BY <2>1, Smallest
    <2>3. i \in 1 .. Len(s) /\ i - 1 \in 0 .. Len(s) /\ i - 1 \notin Bad
      BY <1>2, <1>4, <2>2
    <2>4. Good(i - 1) /\ ~Good(i)
      BY <2>2, <2>3
    <2> QED
      BY <2>3, <2>4, <1>5
  <1>7. Good(Len(s))
    <2>1. Len(s) \in 0 .. Len(s)
      BY <1>2
    <2> QED
      BY <2>1, <1>6
  <1>8. Range(s) = {s[i] : i \in 1 .. Len(s)} /\ Packed(s) \in Seq(Hits)
    <2>1. Len(s) \in 0 .. Len(s)
      BY <1>2
    <2> QED
      BY <2>1, RangeIsFinite, <1>1, <1>3
  <1> QED
    BY <1>1, <1>7, <1>8 DEF Good

\* A flattened sequence of sequences holds what they hold.
LEMMA Flattening ==
    ASSUME NEW X, NEW s \in Seq(Seq(X))
    PROVE  FlattenSeq(s) \in Seq(X)
  <1>1. Len(s) \in Nat
    OBVIOUS
  <1>2. CASE Len(s) = 0
    <2>1. FlattenSeq(s) = s /\ s = <<>>
      BY <1>2 DEF FlattenSeq
    <2> QED
      BY <2>1
  <1>3. CASE Len(s) # 0
    <2> DEFINE IsFlat(f, n) == f = [i \in 1 .. n |-> IF i = 1 THEN s[i] ELSE f[i - 1] \o s[i]]
               flat == CHOOSE f : IsFlat(f, Len(s))
               Bad == {n \in 1 .. Len(s) : ~\E f : IsFlat(f, n)}
    <2>1. FlattenSeq(s) = flat[Len(s)]
      BY <1>3 DEF FlattenSeq
    <2> HIDE DEF IsFlat
    <2>2. Bad = {}
      <3> SUFFICES ASSUME Bad # {} PROVE FALSE
        OBVIOUS
      <3>1. Bad \subseteq Nat
        BY <1>1
      <3>2. PICK n \in Bad : \A m \in Bad : n <= m
        BY <3>1, Smallest
      <3>3. CASE n = 1
        <4>1. IsFlat([i \in 1 .. 1 |-> s[1]], 1)
          BY DEF IsFlat
        <4> QED
          BY <3>2, <3>3, <4>1
      <3>4. CASE n > 1
        <4>n. n \in 1 .. Len(s)
          BY <3>2
        <4>b. n - 1 \notin Bad
          <5> HIDE DEF Bad
          <5> QED
            BY <1>1, <4>n, <3>2
        <4>1. n \in Nat /\ n - 1 \in 1 .. Len(s) /\ n - 1 \notin Bad
          BY <1>1, <4>n, <4>b, <3>4
        <4>2. PICK f : IsFlat(f, n - 1)
          BY <4>1
        <4>a. \A i \in 1 .. n - 1 : f[i] = IF i = 1 THEN s[i] ELSE f[i - 1] \o s[i]
          BY <4>2 DEF IsFlat
        <4> DEFINE g == [i \in 1 .. n |-> IF i < n THEN f[i] ELSE f[n - 1] \o s[n]]
        <4>3. \A i \in 1 .. n : g[i] = IF i = 1 THEN s[i] ELSE g[i - 1] \o s[i]
          <5> TAKE i \in 1 .. n
          <5>1. CASE i < n
            BY <4>1, <4>a, <5>1
          <5>2. CASE i = n
            BY <4>1, <3>4, <5>2
          <5> QED
            BY <4>1, <5>1, <5>2
        <4>4. g = [i \in 1 .. n |-> g[i]]
          OBVIOUS
        <4> HIDE DEF g
        <4>5. IsFlat(g, n)
          BY <4>3, <4>4 DEF IsFlat
        <4> QED
          BY <3>2, <4>5
      <3> QED
        BY <3>2, <3>3, <3>4, <1>1
    <2>3. IsFlat(flat, Len(s))
      <3>1. \E f : IsFlat(f, Len(s))
        <4>1. Len(s) \in 1 .. Len(s)
          BY <1>1, <1>3
        <4> QED
          BY <4>1, <2>2
      <3> QED
        BY <3>1
    <2> HIDE DEF flat
    <2> USE DEF IsFlat
    <2>4. \A i \in 1 .. Len(s) : flat[i] = IF i = 1 THEN s[i] ELSE flat[i - 1] \o s[i]
      BY <2>3
    <2> DEFINE Worse == {i \in 1 .. Len(s) : flat[i] \notin Seq(X)}
    <2>5. Worse = {}
      <3> SUFFICES ASSUME Worse # {} PROVE FALSE
        OBVIOUS
      <3>1. Worse \subseteq Nat
        BY <1>1
      <3>2. PICK i \in Worse : \A m \in Worse : i <= m
        BY <3>1, Smallest
      <3>3. i # 1
        <4>1. s[i] \in Seq(X)
          BY <3>2
        <4> QED
          BY <3>2, <4>1, <2>4
      <3>4. i - 1 \in 1 .. Len(s) /\ i - 1 \notin Worse /\ i \in 1 .. Len(s)
        BY <1>1, <3>2, <3>3
      <3>5. flat[i - 1] \in Seq(X) /\ s[i] \in Seq(X)
        BY <3>4
      <3>6. flat[i - 1] \o s[i] \in Seq(X)
        BY <3>5, ConcatProperties
      <3> QED
        BY <3>2, <3>3, <3>4, <3>6, <2>4
    <2>6. Len(s) \in 1 .. Len(s)
      BY <1>1, <1>3
    <2> QED
      BY <2>1, <2>5, <2>6
  <1> QED
    BY <1>2, <1>3

-----------------------------------------------------------------------------
(* What a request holds at each stage                                     *)

Statuses == {"unsaid", "live", "superseded", "dismissed", "forgotten"}
InScope(q) == {c \in Claims : InNs(TurnOf[c], q.ns)}
TurnsFor(q) == {t \in Turns : InNs(t, q.ns)}

\* what a request may rank: unless it asks about the past, what was current
\* at some time since it began
Overtaken == {c \in Claims : <<"claim", c>> \in overtaken}
Rankable(q) == {c \in InScope(q) : q.history \/ c \in Live \/ c \in Overtaken}
ReadClaims(q) == {x \in InScope(q) \X Statuses : q.history \/ x[2] = "live" \/ x[1] \in Overtaken}

\* The requests of each stage: C is what may be ranked, R what may be read again.
RankingReq(q, C) ==
    [at : {"facts", "select"}, q : {q}, todo : SUBSET Sessions, pools : Seq(PoolsOf(C, TurnsFor(q)))]
EpisodesReq(q, C) ==
    [at : {"episodes"}, q : {q}, todo : SUBSET Sessions, pools : Seq(PoolsOf(C, TurnsFor(q))), facts : Seq(C)]
PackedReq(q, C) ==
    [at : {"packed"}, q : {q}, hits : Seq(HitsOf(C, TurnsFor(q))), facts : Seq(HitsOf(C, TurnsFor(q)))]
FetchReq(q, C, R) ==
    [at : {"fetch"}, q : {q}, claims : Seq(R), episodes : Seq(TurnsFor(q)),
     hits : Seq(HitsOf(C, TurnsFor(q))), budget : Nat]
QueryRecordReq(q, R) ==
    [at : {"record"}, q : {q}, claims : Seq(R), episodes : Seq(TurnsFor(q)), budget : Nat,
     answer : SUBSET InScope(q), todo : Seq(InScope(q))]
EntriesReq(q) ==
    [at : {"entries"}, q : {q}, candidates : Seq(InScope(q)), left : Seq(InScope(q)),
     consumed : SUBSET InScope(q),
     entries : Seq([conflict : BOOLEAN, shows : SUBSET InScope(q)]), repeats : BOOLEAN]
HookRecordReq(q) ==
    [at : {"record"}, q : {q}, answer : SUBSET InScope(q), plain : BOOLEAN, todo : Seq(InScope(q))]
ViewsReq(q) ==
    [at : {"views"}, q : {q}, answer : SUBSET InScope(q), episodes : Seq(TurnsFor(q)),
     told : SUBSET Claims, known : SUBSET Turns,
     left : Seq({"world_state", "briefing", "events", "life_events", "contradictions"})]

ReqsOf(q, C, R) ==
    (IF q.door \in {"query", "context"} THEN RankingReq(q, C) \cup EpisodesReq(q, C) ELSE {})
    \cup (IF q.door = "context" THEN PackedReq(q, C) ELSE {})
    \cup (IF q.door = "query" THEN FetchReq(q, C, R) \cup QueryRecordReq(q, R) \cup ViewsReq(q) ELSE {})
    \cup (IF q.door = "hook" THEN EntriesReq(q) \cup HookRecordReq(q) ELSE {})

\* A session given is the only one that is searched.
Searching ==
    /\ req.at \in {"facts", "episodes"} =>
         /\ req.todo # {}
         /\ req.q.session # None => req.todo = {req.q.session} /\ req.pools = <<>>
    /\ req.at = "select" => /\ req.pools # <<>>
                            /\ req.q.session # None => Len(req.pools) = 1

StoreTypes ==
    /\ turns \subseteq Turns
    /\ status \in [Claims -> Statuses]
    /\ demoted \subseteq Stored
    /\ ledger \subseteq Served
    /\ shown \subseteq {<<h, e[1], e[2]>> : h \in {"query", "hook", "grouped"}, e \in Served}
    /\ \A e \in ledger : e[2] \in Stored
    /\ \A c \in Stored : TurnOf[c] \in turns
    /\ overtaken \subseteq ({"claim"} \X Claims) \cup ({"turn"} \X Turns)

ReqTypes ==
    /\ req = Idle \/ \E q \in Requests : req \in ReqsOf(q, Rankable(q), ReadClaims(q))
    /\ Searching

ServingTypes == StoreTypes /\ ReqTypes

\* What a request holds of each stage.
LEMMA ReqFields ==
    ASSUME ReqTypes
    PROVE  /\ req = Idle \/ req.q \in Requests
           /\ req.at \in {"facts", "episodes", "select"} => req.q.door \in {"query", "context"}
           /\ req.at \in {"facts", "select"} => req \in RankingReq(req.q, Rankable(req.q))
           /\ req.at = "episodes" => req \in EpisodesReq(req.q, Rankable(req.q))
           /\ req.at = "packed" => req \in PackedReq(req.q, Rankable(req.q)) /\ req.q.door = "context"
           /\ req.at = "fetch" => req \in FetchReq(req.q, Rankable(req.q), ReadClaims(req.q)) /\ req.q.door = "query"
           /\ req.at = "record" => \/ req \in QueryRecordReq(req.q, ReadClaims(req.q)) /\ req.q.door = "query"
                                   \/ req \in HookRecordReq(req.q) /\ req.q.door = "hook"
           /\ req.at = "entries" => req \in EntriesReq(req.q) /\ req.q.door = "hook"
           /\ req.at = "views" => req \in ViewsReq(req.q) /\ req.q.door = "query"
           /\ req.at \in Stages
           /\ req.at # "idle" <=> req # Idle
  <1>1. CASE req = Idle
    BY <1>1 DEF Idle, Stages
  <1>2. ASSUME NEW q \in Requests, req \in ReqsOf(q, Rankable(q), ReadClaims(q))
        PROVE  /\ req.q = q
               /\ req.at \in {"facts", "episodes", "select"} => q.door \in {"query", "context"}
               /\ req.at \in {"facts", "select"} => req \in RankingReq(q, Rankable(q))
               /\ req.at = "episodes" => req \in EpisodesReq(q, Rankable(q))
               /\ req.at = "packed" => req \in PackedReq(q, Rankable(q)) /\ q.door = "context"
               /\ req.at = "fetch" => req \in FetchReq(q, Rankable(q), ReadClaims(q)) /\ q.door = "query"
               /\ req.at = "record" => \/ req \in QueryRecordReq(q, ReadClaims(q)) /\ q.door = "query"
                                       \/ req \in HookRecordReq(q) /\ q.door = "hook"
               /\ req.at = "entries" => req \in EntriesReq(q) /\ q.door = "hook"
               /\ req.at = "views" => req \in ViewsReq(q) /\ q.door = "query"
               /\ req.at \in Stages \ {"idle"}
    <2>1. CASE req \in RankingReq(q, Rankable(q)) /\ q.door \in {"query", "context"}
      <3>1. req.at \in {"facts", "select"} /\ req.q = q
        BY <2>1 DEF RankingReq
      <3> QED
        BY <2>1, <3>1 DEF Stages
    <2>2. CASE req \in EpisodesReq(q, Rankable(q)) /\ q.door \in {"query", "context"}
      <3>1. req.at = "episodes" /\ req.q = q
        BY <2>2 DEF EpisodesReq
      <3> QED
        BY <2>2, <3>1 DEF Stages
    <2>3. CASE req \in PackedReq(q, Rankable(q)) /\ q.door = "context"
      <3>1. req.at = "packed" /\ req.q = q
        BY <2>3 DEF PackedReq
      <3> QED
        BY <2>3, <3>1 DEF Stages
    <2>4. CASE req \in FetchReq(q, Rankable(q), ReadClaims(q)) /\ q.door = "query"
      <3>1. req.at = "fetch" /\ req.q = q
        BY <2>4 DEF FetchReq
      <3> QED
        BY <2>4, <3>1 DEF Stages
    <2>5. CASE req \in QueryRecordReq(q, ReadClaims(q)) /\ q.door = "query"
      <3>1. req.at = "record" /\ req.q = q
        BY <2>5 DEF QueryRecordReq
      <3> QED
        BY <2>5, <3>1 DEF Stages
    <2>6. CASE req \in EntriesReq(q) /\ q.door = "hook"
      <3>1. req.at = "entries" /\ req.q = q
        BY <2>6 DEF EntriesReq
      <3> QED
        BY <2>6, <3>1 DEF Stages
    <2>7. CASE req \in HookRecordReq(q) /\ q.door = "hook"
      <3>1. req.at = "record" /\ req.q = q
        BY <2>7 DEF HookRecordReq
      <3> QED
        BY <2>7, <3>1 DEF Stages
    <2>8. CASE req \in ViewsReq(q) /\ q.door = "query"
      <3>1. req.at = "views" /\ req.q = q
        BY <2>8 DEF ViewsReq
      <3> QED
        BY <2>8, <3>1 DEF Stages
    <2> QED
      BY <1>2, <2>1, <2>2, <2>3, <2>4, <2>5, <2>6, <2>7, <2>8 DEF ReqsOf
  <1>3. ASSUME NEW q \in Requests, req \in ReqsOf(q, Rankable(q), ReadClaims(q))
        PROVE  req.at # "idle" /\ req # Idle /\ req.at \in Stages
    BY <1>2, <1>3 DEF Idle
  <1> QED
    BY <1>1, <1>2, <1>3 DEF ReqTypes

\* What may be ranked and read again only grows while a request lasts.
LEMMA ReqsGrow ==
    ASSUME NEW q, NEW C, NEW D, C \subseteq D, NEW R, NEW S, R \subseteq S
    PROVE  ReqsOf(q, C, R) \subseteq ReqsOf(q, D, S)
  <1>1. PoolsOf(C, TurnsFor(q)) \subseteq PoolsOf(D, TurnsFor(q))
    BY SeqMonotonic DEF PoolsOf
  <1>2. HitsOf(C, TurnsFor(q)) \subseteq HitsOf(D, TurnsFor(q))
    BY DEF HitsOf
  <1>3. /\ Seq(PoolsOf(C, TurnsFor(q))) \subseteq Seq(PoolsOf(D, TurnsFor(q)))
        /\ Seq(HitsOf(C, TurnsFor(q))) \subseteq Seq(HitsOf(D, TurnsFor(q)))
        /\ Seq(C) \subseteq Seq(D) /\ Seq(R) \subseteq Seq(S)
    BY <1>1, <1>2, SeqMonotonic
  <1>4. RankingReq(q, C) \subseteq RankingReq(q, D)
    BY <1>3 DEF RankingReq
  <1>5. EpisodesReq(q, C) \subseteq EpisodesReq(q, D)
    BY <1>3 DEF EpisodesReq
  <1>6. PackedReq(q, C) \subseteq PackedReq(q, D)
    BY <1>3 DEF PackedReq
  <1>7. FetchReq(q, C, R) \subseteq FetchReq(q, D, S)
    BY <1>3 DEF FetchReq
  <1>8. QueryRecordReq(q, R) \subseteq QueryRecordReq(q, S)
    BY <1>3 DEF QueryRecordReq
  <1> QED
    BY <1>4, <1>5, <1>6, <1>7, <1>8 DEF ReqsOf

-----------------------------------------------------------------------------
(* The steps of the server, as a request meets them                       *)

\* The ways a step may bear on the requests.
Quiet == UNCHANGED <<store, ledger, shown, req, overtaken>>
Ends == req' = Idle /\ UNCHANGED <<store, ledger, shown, overtaken>>
Keeps(t) ==
    /\ t \in Turns /\ turns' = turns \cup {t}
    /\ UNCHANGED <<status, demoted, ledger, shown, req, overtaken>>

ServingStep ==
    \/ Quiet \/ Ends
    \/ \E q \in Requests : Begin(q) \/ HookRank(q)
    \/ RequestStep \/ \E n \in 1 .. MaxLines : HookRender(n)
    \/ Record \/ Answer
    \/ \E t \in Turns : Keeps(t)
    \/ OtherProcesses

\* Every step of the server bears on the requests in one of those ways.
LEMMA HttpStepsServe == [HttpNext]_allvars => ServingStep
  <1> SUFFICES ASSUME [HttpNext]_allvars PROVE ServingStep
    OBVIOUS
  <1>1. CASE UNCHANGED allvars
    BY <1>1 DEF allvars, vars, ServingStep, Quiet, store
  <1>2. ASSUME NEW c \in Calls, Arrive(c) PROVE ServingStep
    BY <1>2 DEF Arrive, ServingStep, Quiet
  <1>3. CASE AnyPrincipals \/ ResolvePrincipal
    BY <1>3 DEF AnyPrincipals, ResolvePrincipal, vars, ServingStep, Quiet, store
  <1>4. ASSUME NEW q \in Requests, CallQuery(q) \/ CallHook(q) PROVE ServingStep
    BY <1>4 DEF CallQuery, CallHook, ServingStep
  <1>5. CASE HookFindsNothing
    BY <1>5 DEF HookFindsNothing, vars, ServingStep, Quiet, store
  <1>6. CASE Serve
    <2>1. CASE RequestStep
      BY <2>1 DEF ServingStep
    <2>2. CASE \E n \in 1 .. MaxLines : HookRender(n)
      BY <2>2 DEF ServingStep
    <2>3. CASE WorkingContext
      BY <2>3 DEF ServingStep, WorkingContext, Ends
    <2>4. CASE Record \/ Answer
      BY <2>4 DEF ServingStep
    <2> QED
      BY <1>6, <2>1, <2>2, <2>3, <2>4 DEF Serve
  <1>7. ASSUME NEW n \in 1 .. MaxLines, ToolRender(n) PROVE ServingStep
    BY <1>7 DEF ToolRender, ServingStep, Ends
  <1>8. ASSUME NEW c \in Claims, TraceAllowed(c) PROVE ServingStep
    BY <1>8 DEF TraceAllowed, vars, ServingStep, Quiet, store
  <1>9. CASE Trace \/ StoreNothing \/ \E C \in SUBSET Stored : ShowWrite(C)
    BY <1>9 DEF Trace, StoreNothing, ShowWrite, vars, ServingStep, Quiet, store
  <1>10. CASE Discover \/ DiscoverStep
    BY <1>10 DEF Discover, DiscoverStep, vars, ServingStep, Quiet, store
  <1>11. ASSUME NEW t \in Turns, StoreTurn(t) PROVE ServingStep
    BY <1>11 DEF StoreTurn, ServingStep, Keeps
  <1>12. ASSUME NEW g \in Grants, Grant(g[1], g[2]) PROVE ServingStep
    BY <1>12 DEF Grant, ServingStep, Quiet
  <1>13. CASE OtherProcesses
    BY <1>13 DEF ServingStep
  <1>14. CASE ToolCommands
    <2>1. Quiet
      BY <1>14 DEF ToolCommands, UpsertTool, StartIndexing, EmbedBatch, WriteVector, claimvars, vars, Quiet, store
    <2> QED
      BY <2>1 DEF ServingStep
  <1> QED
    BY <1>1, <1>2, <1>3, <1>4, <1>5, <1>6, <1>7, <1>8, <1>9, <1>10, <1>11, <1>12, <1>13, <1>14
       DEF HttpNext

\* A claim that is forgotten is never there again; one that was never said may be.
Remembered == {c \in Claims : status[c] # "forgotten"}

\* What the other processes do to the claims, the ledger and the turns.
Disturbs ==
    /\ StoreTypes' /\ UNCHANGED <<shown, req>>
    /\ Live \ Live' \subseteq Overtaken' /\ Overtaken \subseteq Overtaken'
    /\ Remembered' \subseteq Remembered
    /\ \A e \in ledger : e[2] \in Remembered' => e \in ledger'

\* What the other processes change, and what they do not.
LEMMA OthersChange ==
    ASSUME StoreTypes, OtherProcesses
    PROVE  Disturbs
  <1>1. ASSUME NEW c \in Claims, NEW s \in {"superseded", "dismissed"}, Retire(c, s)
        PROVE  Disturbs
    <2>1. /\ UNCHANGED <<turns, demoted, ledger, req, shown>> /\ c \in Live
          /\ status' = [status EXCEPT ![c] = s]
          /\ overtaken' = overtaken \cup {<<"claim", c>>}
      BY <1>1 DEF Retire
    <2>2. status \in [Claims -> Statuses]
      BY DEF StoreTypes
    <2>3. status' \in [Claims -> Statuses] /\ \A d \in Claims : status'[d] = IF d = c THEN s ELSE status[d]
      BY <2>1, <2>2 DEF Statuses
    <2>4. Stored' = Stored /\ Live' = Live \ {c} /\ Remembered' = Remembered
      BY <2>1, <2>3 DEF Stored, Live, Remembered
    <2>5. Overtaken' = Overtaken \cup {c}
      BY <2>1 DEF Overtaken, Live
    <2>6. overtaken' \subseteq ({"claim"} \X Claims) \cup ({"turn"} \X Turns)
      BY <2>1 DEF StoreTypes
    <2>7. StoreTypes'
      BY <2>1, <2>3, <2>4, <2>6 DEF StoreTypes
    <2> QED
      BY <2>1, <2>4, <2>5, <2>7 DEF Disturbs
  <1>2. ASSUME NEW c \in Claims, Forget(c)
        PROVE  Disturbs
    <2>1. /\ UNCHANGED <<turns, req, shown>> /\ c \in Stored
          /\ status' = [status EXCEPT ![c] = "forgotten"]
          /\ demoted' = demoted \ {c}
          /\ ledger' = {e \in ledger : e[2] # c}
          /\ overtaken' = overtaken \cup {<<"claim", c>>}
      BY <1>2 DEF Forget
    <2>2. status \in [Claims -> Statuses]
      BY DEF StoreTypes
    <2>3. /\ status' \in [Claims -> Statuses]
          /\ \A d \in Claims : status'[d] = IF d = c THEN "forgotten" ELSE status[d]
      BY <2>1, <2>2 DEF Statuses
    <2>4. Stored' = Stored \ {c} /\ Live' = Live \ {c} /\ Remembered' = Remembered \ {c}
      BY <2>1, <2>3 DEF Stored, Live, Remembered
    <2>5. Overtaken' = Overtaken \cup {c}
      BY <2>1 DEF Overtaken
    <2>6. overtaken' \subseteq ({"claim"} \X Claims) \cup ({"turn"} \X Turns)
      BY <2>1 DEF StoreTypes
    <2>8. StoreTypes'
      BY <2>1, <2>3, <2>4, <2>6 DEF StoreTypes
    <2>9. \A e \in ledger : e[2] \in Remembered' => e \in ledger'
      BY <2>1, <2>4
    <2> QED
      BY <2>1, <2>4, <2>5, <2>8, <2>9 DEF Disturbs
  <1>3. ASSUME NEW t \in Turns, DropTurn(t)
        PROVE  Disturbs
    <2>1. /\ UNCHANGED <<status, demoted, ledger, req, shown>>
          /\ \A c \in Claims : TurnOf[c] = t => status[c] = "forgotten"
          /\ turns' = turns \ {t}
          /\ overtaken' = overtaken \cup {<<"turn", t>>}
      BY <1>3 DEF DropTurn
    <2>2. Stored' = Stored /\ Live' = Live /\ Remembered' = Remembered
      BY <2>1 DEF Stored, Live, Remembered
    <2>3. Overtaken' = Overtaken
      BY <2>1 DEF Overtaken
    <2>4. \A c \in Stored : TurnOf[c] # t
      BY <2>1 DEF Stored
    <2>5. overtaken' \subseteq ({"claim"} \X Claims) \cup ({"turn"} \X Turns)
      BY <2>1 DEF StoreTypes
    <2>6. StoreTypes'
      BY <2>1, <2>2, <2>4, <2>5 DEF StoreTypes
    <2> QED
      BY <2>1, <2>2, <2>3, <2>6 DEF Disturbs
  <1>4. ASSUME NEW t \in Turns, OtherTurn(t)
        PROVE  Disturbs
    <2>1. /\ UNCHANGED <<status, demoted, ledger, req, shown, overtaken>> /\ turns' = turns \cup {t}
      BY <1>4 DEF OtherTurn
    <2>2. Stored' = Stored /\ Live' = Live /\ Remembered' = Remembered /\ Overtaken' = Overtaken
      BY <2>1 DEF Stored, Live, Remembered, Overtaken
    <2>3. StoreTypes'
      BY <2>1, <2>2 DEF StoreTypes
    <2> QED
      BY <2>1, <2>2, <2>3 DEF Disturbs
  <1>5. ASSUME NEW c \in Claims, Learn(c)
        PROVE  Disturbs
    <2>1. /\ UNCHANGED <<turns, demoted, ledger, req, shown, overtaken>>
          /\ status[c] = "unsaid" /\ TurnOf[c] \in turns
          /\ status' = [status EXCEPT ![c] = "live"]
      BY <1>5 DEF Learn
    <2>2. status \in [Claims -> Statuses]
      BY DEF StoreTypes
    <2>3. /\ status' \in [Claims -> Statuses]
          /\ \A d \in Claims : status'[d] = IF d = c THEN "live" ELSE status[d]
      BY <2>1, <2>2 DEF Statuses
    <2>4. Stored' = Stored \cup {c} /\ Live' = Live \cup {c} /\ Remembered' = Remembered
      BY <2>1, <2>3 DEF Stored, Live, Remembered
    <2>5. Overtaken' = Overtaken
      BY <2>1 DEF Overtaken
    <2>6. StoreTypes'
      BY <2>1, <2>3, <2>4 DEF StoreTypes
    <2> QED
      BY <2>1, <2>4, <2>5, <2>6 DEF Disturbs
  <1> QED
    BY <1>1, <1>2, <1>3, <1>4, <1>5 DEF OtherProcesses

\* The types outlast what the other processes do.
LEMMA OthersServing == ServingTypes /\ OtherProcesses => ServingTypes'
  <1> SUFFICES ASSUME ServingTypes, OtherProcesses PROVE ServingTypes'
    OBVIOUS
  <1>1. /\ StoreTypes' /\ req' = req
        /\ Live \ Live' \subseteq Overtaken' /\ Overtaken \subseteq Overtaken'
    BY OthersChange DEF ServingTypes, Disturbs
  <1>2. ASSUME NEW q \in Requests, req \in ReqsOf(q, Rankable(q), ReadClaims(q))
        PROVE  req \in ReqsOf(q, Rankable(q)', ReadClaims(q)')
    <2>1. Rankable(q) \subseteq Rankable(q)' /\ ReadClaims(q) \subseteq ReadClaims(q)'
      BY <1>1 DEF Rankable, ReadClaims, InScope
    <2> QED
      BY <1>2, <2>1, ReqsGrow
  <1>a. ASSUME NEW q \in Requests, req \in ReqsOf(q, Rankable(q), ReadClaims(q))
        PROVE  (req \in ReqsOf(q, Rankable(q), ReadClaims(q)))'
    <2>1. req' \in ReqsOf(q, Rankable(q)', ReadClaims(q)')
      BY <1>1, <1>2, <1>a
    <2> QED
      BY <2>1 DEF ReqsOf, RankingReq, EpisodesReq, PackedReq, FetchReq,
                  QueryRecordReq, EntriesReq, HookRecordReq, ViewsReq
  <1>3. (req = Idle \/ \E q \in Requests : req \in ReqsOf(q, Rankable(q), ReadClaims(q)))'
    BY <1>1, <1>a DEF ServingTypes, ReqTypes, Idle
  <1>4. Searching'
    BY <1>1 DEF ServingTypes, ReqTypes, Searching
  <1> QED
    BY <1>1, <1>3, <1>4 DEF ServingTypes, ReqTypes

-----------------------------------------------------------------------------
(* Ranking and selecting keep the types                                   *)

\* A request of a stage's form fits, whatever its stage.
LEMMA ReqFits ==
    ASSUME NEW q \in Requests, NEW C, NEW R, NEW r,
           \/ q.door \in {"query", "context"} /\ r \in RankingReq(q, C) \cup EpisodesReq(q, C)
           \/ q.door = "context" /\ r \in PackedReq(q, C)
           \/ q.door = "query" /\ r \in FetchReq(q, C, R) \cup QueryRecordReq(q, R) \cup ViewsReq(q)
           \/ q.door = "hook" /\ r \in EntriesReq(q) \cup HookRecordReq(q)
    PROVE  r \in ReqsOf(q, C, R)
  BY DEF ReqsOf

\* A step that leaves the claims alone leaves what may be ranked alone.
LEMMA SameClaims ==
    ASSUME UNCHANGED <<store, overtaken>>
    PROVE  /\ \A q : Rankable(q)' = Rankable(q) /\ ReadClaims(q)' = ReadClaims(q)
           /\ Stored' = Stored /\ Live' = Live /\ Historical' = Historical
           /\ UNCHANGED <<turns, status, demoted>>
  BY DEF store, Rankable, ReadClaims, Overtaken, Stored, Live, Historical, InScope

\* The rest of a step that changes nothing but the request.
LEMMA OnlyReq ==
    ASSUME StoreTypes, UNCHANGED <<store, ledger, shown, overtaken>>
    PROVE  StoreTypes'
  BY SameClaims DEF StoreTypes

\* An order of a finite set is a sequence of its elements.
LEMMA Arranged ==
    ASSUME NEW S, IsFiniteSet(S), NEW f \in SetToSeqs(S)
    PROVE  f \in Seq(S)
  <1>1. Cardinality(S) \in Nat
    BY FS_CardinalityType
  <1>2. f \in [1 .. Cardinality(S) -> S]
    BY DEF SetToSeqs
  <1> QED
    BY <1>1, <1>2

\* Whatever is ranked, grouped or nested is finite.
LEMMA FiniteScopes ==
    /\ \A S \in SUBSET Claims : IsFiniteSet(S)
    /\ \A S \in SUBSET Turns : IsFiniteSet(S)
  BY ServingAssumption, FS_Subset

\* What the assumptions say of the bounds and of the claims.
LEMMA TopKIsNumber ==
    /\ TopK \in Nat /\ PerSessionK \in Nat
    /\ MaxNested \in Nat /\ MaxLines \in Nat /\ MaxValues \in Nat
    /\ Claims \subseteq Nat /\ Turns \subseteq Nat
    /\ \A t \in Turns : SessOf[t] \in Nat /\ SessOf[t] # 0
    /\ \A c \in Claims : TurnOf[c] \in Turns
  BY RetrievalAssumption, ServingAssumption

\* The hook takes its candidates from the current claims in its tenant's reach.
LEMMA Matching ==
    ASSUME NEW q \in Requests, HookRank(q)
    PROVE  \E candidates \in Seq(InScope(q)) :
               req' = [at |-> "entries", q |-> q, candidates |-> candidates, left |-> candidates,
                       consumed |-> {}, entries |-> <<>>, repeats |-> FALSE]
  <1>1. PICK matching \in (SUBSET HookReach(q.ns)) \ {{}} : \E order \in SetToSeqs(matching) :
          LET candidates == Cut(order, 2 * MaxLines)
          IN req' = [at |-> "entries", q |-> q, candidates |-> candidates, left |-> candidates,
                     consumed |-> {}, entries |-> <<>>, repeats |-> FALSE]
    BY DEF HookRank
  <1>2. PICK order \in SetToSeqs(matching) :
          req' = [at |-> "entries", q |-> q, candidates |-> Cut(order, 2 * MaxLines),
                  left |-> Cut(order, 2 * MaxLines),
                  consumed |-> {}, entries |-> <<>>, repeats |-> FALSE]
    BY <1>1
  <1>3. matching \subseteq InScope(q) /\ InScope(q) \subseteq Claims
    BY <1>1 DEF HookReach, Live, InScope
  <1>4. order \in Seq(matching)
    BY <1>2, <1>3, Arranged, FiniteScopes
  <1>5. order \in Seq(InScope(q))
    BY <1>3, <1>4, SeqMonotonic
  <1>6. Cut(order, 2 * MaxLines) \in Seq(InScope(q))
    <2>1. 2 * MaxLines \in Nat
      BY TopKIsNumber
    <2> QED
      BY <1>5, <2>1, Cutting
  <1> QED
    BY <1>2, <1>6

\* A request begins well typed, with nothing overtaken.
LEMMA OpenTypes ==
    ASSUME ServingTypes, NEW q \in Requests, Begin(q) \/ HookRank(q)
    PROVE  ServingTypes'
  <1>1. /\ UNCHANGED <<store, ledger, shown>> /\ overtaken' = {}
    BY DEF Begin, HookRank, Open
  <1>2. StoreTypes'
    <2>1. UNCHANGED <<turns, status, demoted>> /\ Stored' = Stored
      BY <1>1 DEF store, Stored
    <2> QED
      BY <1>1, <2>1 DEF ServingTypes, StoreTypes
  <1>3. CASE Begin(q)
    <2> DEFINE reach == {SessOf[t] : t \in {u \in turns : InNs(u, q.ns)}}
               todo == IF q.session = None THEN reach ELSE reach \cap {q.session}
    <2>1. /\ q.door \in {"query", "context"}
          /\ req' = IF todo = {} THEN Idle
                    ELSE [at |-> "facts", q |-> q, todo |-> todo, pools |-> <<>>]
      BY <1>3 DEF Begin
    <2>2. todo \subseteq Sessions
      BY DEF ServingTypes, StoreTypes, Sessions
    <2>3. todo # {} /\ q.session # None => todo = {q.session}
      OBVIOUS
    <2> HIDE DEF todo
    <2>4. CASE todo = {}
      BY <1>2, <2>1, <2>4 DEF ServingTypes, ReqTypes, Searching, Idle
    <2>5. CASE todo # {}
      <3>1. req' = [at |-> "facts", q |-> q, todo |-> todo, pools |-> <<>>]
        BY <2>1, <2>5
      <3>2. ASSUME NEW C PROVE req' \in RankingReq(q, C)
        BY <2>2, <3>1 DEF RankingReq
      <3>3. req' \in ReqsOf(q, Rankable(q)', ReadClaims(q)')
        BY <2>1, <3>2, ReqFits
      <3>4. \E p \in Requests : (req \in ReqsOf(p, Rankable(p), ReadClaims(p)))'
        BY <3>3 DEF ReqsOf, RankingReq, EpisodesReq, PackedReq, FetchReq,
                    QueryRecordReq, EntriesReq, HookRecordReq, ViewsReq
      <3>5. Searching'
        BY <2>3, <2>5, <3>1 DEF Searching
      <3> QED
        BY <1>2, <3>4, <3>5 DEF ServingTypes, ReqTypes
    <2> QED
      BY <2>4, <2>5
  <1>4. CASE HookRank(q)
    <2>1. PICK candidates \in Seq(InScope(q)) :
            req' = [at |-> "entries", q |-> q, candidates |-> candidates, left |-> candidates,
                    consumed |-> {}, entries |-> <<>>, repeats |-> FALSE]
      BY <1>4, Matching
    <2>7. req' \in EntriesReq(q)
      BY <2>1 DEF EntriesReq
    <2>8. q.door = "hook"
      BY <1>4 DEF HookRank
    <2>9. req' \in ReqsOf(q, Rankable(q)', ReadClaims(q)')
      BY <2>7, <2>8, ReqFits
    <2>10. \E p \in Requests : (req \in ReqsOf(p, Rankable(p), ReadClaims(p)))'
      BY <2>9 DEF ReqsOf, RankingReq, EpisodesReq, PackedReq, FetchReq,
                  QueryRecordReq, EntriesReq, HookRecordReq, ViewsReq
    <2>11. Searching'
      BY <2>1 DEF Searching
    <2> QED
      BY <1>2, <2>10, <2>11 DEF ServingTypes, ReqTypes
  <1> QED
    BY <1>3, <1>4

\* Where a step leaves the claims alone, the new request is of the old one's
\* question, and what it may hold is what the old one might.
LEMMA NextReq ==
    ASSUME ServingTypes, UNCHANGED <<store, ledger, shown, overtaken>>,
           NEW q \in Requests, req' \in ReqsOf(q, Rankable(q), ReadClaims(q)), Searching'
    PROVE  ServingTypes'
  <1>1. StoreTypes'
    BY OnlyReq DEF ServingTypes
  <1>2. Rankable(q)' = Rankable(q) /\ ReadClaims(q)' = ReadClaims(q)
    BY SameClaims
  <1>3. (req \in ReqsOf(q, Rankable(q), ReadClaims(q)))'
    BY <1>2 DEF ReqsOf, RankingReq, EpisodesReq, PackedReq, FetchReq,
                QueryRecordReq, EntriesReq, HookRecordReq, ViewsReq
  <1> QED
    BY <1>1, <1>3 DEF ServingTypes, ReqTypes

\* Only what may be ranked is: retrieve_hybrid takes current facts.
LEMMA RankFactsTypes == ServingTypes /\ RankFacts => ServingTypes'
  <1> SUFFICES ASSUME ServingTypes, RankFacts PROVE ServingTypes'
    OBVIOUS
  <1> DEFINE q == req.q
             S == RankableFacts(req.q, Min(req.todo))
  <1>1. PICK order \in SetToSeqs(S) :
             req' = [at |-> "episodes", q |-> req.q, todo |-> req.todo, pools |-> req.pools,
                     facts |-> Cut(order, TopK)]
    BY DEF RankFacts
  <1>2. /\ req.at = "facts" /\ q \in Requests /\ q.door \in {"query", "context"}
        /\ req \in RankingReq(q, Rankable(q))
    BY ReqFields DEF RankFacts, ServingTypes, Idle
  <1>3. S \subseteq Rankable(q) /\ S \subseteq Claims
    BY DEF RankableFacts, Stored, Rankable, Live, InScope
  <1>4. order \in Seq(Rankable(q))
    <2>1. order \in Seq(S)
      BY <1>3, Arranged, FiniteScopes
    <2> QED
      BY <2>1, <1>3, SeqMonotonic
  <1>5. Cut(order, TopK) \in Seq(Rankable(q))
    BY <1>4, TopKIsNumber, Cutting
  <1>6. req' \in EpisodesReq(q, Rankable(q))
    BY <1>1, <1>2, <1>5 DEF RankingReq, EpisodesReq
  <1>7. req' \in ReqsOf(q, Rankable(q), ReadClaims(q))
    BY <1>2, <1>6, ReqFits
  <1>8. Searching'
    BY <1>1, <1>2 DEF ServingTypes, ReqTypes, Searching
  <1> QED
    BY <1>2, <1>7, <1>8, NextReq DEF RankFacts

\* The episodes join the facts of their session, and the session is done with.
LEMMA RankEpisodesTypes == ServingTypes /\ RankEpisodes => ServingTypes'
  <1> SUFFICES ASSUME ServingTypes, RankEpisodes PROVE ServingTypes'
    OBVIOUS
  <1> DEFINE q == req.q
             s == Min(req.todo)
             rest == req.todo \ {s}
             E == {t \in turns : SessOf[t] = s /\ InNs(t, req.q.ns)}
  <1>1. PICK order \in SetToSeqs(E) :
            req' = [at |-> IF rest = {} THEN "select" ELSE "facts", q |-> req.q, todo |-> rest,
                    pools |-> Append(req.pools,
                        [facts |-> req.facts, episodes |-> Cut(order, TopK)])]
    BY DEF RankEpisodes
  <1>2. /\ req.at = "episodes" /\ q \in Requests /\ q.door \in {"query", "context"}
        /\ req \in EpisodesReq(q, Rankable(q))
    BY ReqFields DEF RankEpisodes, ServingTypes, Idle
  <1>3. E \subseteq TurnsFor(q) /\ E \subseteq Turns
    BY DEF ServingTypes, StoreTypes, TurnsFor
  <1>4. order \in Seq(TurnsFor(q))
    <2>1. order \in Seq(E)
      BY <1>3, Arranged, FiniteScopes
    <2> QED
      BY <2>1, <1>3, SeqMonotonic
  <1>5. Cut(order, TopK) \in Seq(TurnsFor(q))
    BY <1>4, TopKIsNumber, Cutting
  <1> DEFINE p == [facts |-> req.facts, episodes |-> Cut(order, TopK)]
  <1>6. p \in PoolsOf(Rankable(q), TurnsFor(q))
    BY <1>2, <1>5 DEF EpisodesReq, PoolsOf
  <1>7. req.pools \in Seq(PoolsOf(Rankable(q), TurnsFor(q))) /\ req.todo \in SUBSET Sessions
    BY <1>2 DEF EpisodesReq
  <1> HIDE DEF p, rest
  <1>8. /\ Append(req.pools, p) \in Seq(PoolsOf(Rankable(q), TurnsFor(q)))
        /\ Append(req.pools, p) # <<>> /\ Len(Append(req.pools, p)) = Len(req.pools) + 1
    BY <1>6, <1>7, AppendProperties
  <1>9. req' = [at |-> IF rest = {} THEN "select" ELSE "facts", q |-> q, todo |-> rest,
                pools |-> Append(req.pools, p)]
    BY <1>1 DEF p
  <1>10. rest \subseteq Sessions
    BY <1>7 DEF rest
  <1>11. req' \in RankingReq(q, Rankable(q))
    BY <1>8, <1>9, <1>10 DEF RankingReq
  <1>12. req' \in ReqsOf(q, Rankable(q), ReadClaims(q))
    BY <1>2, <1>11, ReqFits
  <1>13. q.session # None => rest = {} /\ Len(Append(req.pools, p)) = 1
    <2> SUFFICES ASSUME q.session # None PROVE rest = {} /\ Len(Append(req.pools, p)) = 1
      OBVIOUS
    <2>1. req.todo = {q.session} /\ req.pools = <<>>
      BY <1>2 DEF ServingTypes, ReqTypes, Searching
    <2>2. req.todo \subseteq Nat
      BY <1>7, TopKIsNumber DEF Sessions
    <2>3. s \in req.todo
      BY <2>1, <2>2, MinIsLeast
    <2>4. Len(req.pools) = 0
      BY <2>1
    <2> QED
      BY <2>1, <2>3, <2>4, <1>8 DEF rest
  <1>14. Searching'
    BY <1>8, <1>9, <1>13 DEF Searching
  <1> QED
    BY <1>2, <1>12, <1>14, NextReq DEF RankEpisodes

\* the pools a question is selected from
LEMMA SelectFrom ==
    ASSUME ServingTypes, req.at = "select"
    PROVE  /\ req.q \in Requests /\ req.q.door \in {"query", "context"}
           /\ Rankable(req.q) \subseteq Claims /\ TurnsFor(req.q) \subseteq Turns
           /\ req.pools \in Seq(PoolsOf(Rankable(req.q), TurnsFor(req.q)))
           /\ req.pools[1] \in PoolsOf(Rankable(req.q), TurnsFor(req.q))
           /\ req.pools[1] \in Range(req.pools)
           /\ req.q.session # None => Range(req.pools) = {req.pools[1]}
  <1>1. /\ req.q \in Requests /\ req.q.door \in {"query", "context"}
        /\ req \in RankingReq(req.q, Rankable(req.q))
    BY ReqFields DEF ServingTypes, Idle
  <1>2. /\ req.pools \in Seq(PoolsOf(Rankable(req.q), TurnsFor(req.q))) /\ req.pools # <<>>
        /\ req.q.session # None => Len(req.pools) = 1
    BY <1>1 DEF RankingReq, ServingTypes, ReqTypes, Searching
  <1>3. Len(req.pools) \in Nat \ {0}
    BY <1>2, EmptySeq
  <1>4. 1 \in 1 .. Len(req.pools) /\ Range(req.pools) = {req.pools[i] : i \in 1 .. Len(req.pools)}
    BY <1>2, <1>3, RangeIsFinite
  <1>5. req.q.session # None => 1 .. Len(req.pools) = {1}
    <2> SUFFICES ASSUME req.q.session # None PROVE 1 .. Len(req.pools) = {1}
      OBVIOUS
    <2>1. Len(req.pools) = 1
      BY <1>2
    <2>2. 1 .. 1 = {1}
      OBVIOUS
    <2> QED
      BY <2>1, <2>2
  <1> QED
    BY <1>1, <1>2, <1>4, <1>5 DEF Rankable, InScope, TurnsFor

\* A working context holds hits of its session.
LEMMA PackContextTypes == ServingTypes /\ PackContext => ServingTypes'
  <1> SUFFICES ASSUME ServingTypes, PackContext PROVE ServingTypes'
    OBVIOUS
  <1> DEFINE q == req.q
             hits == FuseMemory(req.pools[1])
             H == HitsOf(Rankable(q), TurnsFor(q))
  <1>1. /\ req.at = "select" /\ q.door = "context"
        /\ req' = [at |-> "packed", q |-> q, hits |-> hits, facts |-> Packed(hits)]
    BY DEF PackContext
  <1>2. hits \in Seq(H) /\ hits \in Seq(Hits)
    BY <1>1, SelectFrom, Fusing
  <1>3. Packed(hits) \in Seq(H)
    <2>1. Packed(hits) \in Seq(Hits) /\ Range(Packed(hits)) \subseteq Range(hits)
      BY <1>2, Packing
    <2>2. Range(hits) \subseteq H
      BY <1>2, RangeIsFinite
    <2> HIDE DEF hits, H
    <2> QED
      BY <2>1, <2>2, Within
  <1>4. q \in Requests
    BY <1>1, SelectFrom
  <1> HIDE DEF hits, q
  <1>5. req' \in PackedReq(q, Rankable(q))
    BY <1>1, <1>2, <1>3 DEF PackedReq
  <1>6. req' \in ReqsOf(q, Rankable(q), ReadClaims(q))
    BY <1>1, <1>4, <1>5, ReqFits
  <1>7. Searching'
    BY <1>1 DEF Searching
  <1> QED
    BY <1>4, <1>6, <1>7, NextReq DEF PackContext

\* A query goes on with hits of its sessions, across them or of one.
LEMMA SelectTypes == ServingTypes /\ Select => ServingTypes'
  <1> SUFFICES ASSUME ServingTypes, Select PROVE ServingTypes'
    OBVIOUS
  <1> DEFINE q == req.q
             hits == IF req.q.session = None THEN Across(req.pools) ELSE FuseMemory(req.pools[1])
             budget == IF req.q.session = None THEN AcrossBudget(req.pools) ELSE TopK
             H == HitsOf(Rankable(q), TurnsFor(q))
  <1>1. /\ req.at = "select" /\ q.door = "query"
        /\ req' = [at |-> "fetch", q |-> q, claims |-> <<>>, episodes |-> <<>>,
                   hits |-> hits, budget |-> budget]
    BY DEF Select
  <1>2. hits \in Seq(H) /\ budget \in Nat
    BY <1>1, SelectFrom, Fusing, MergingSessions, TopKIsNumber
  <1>4. q \in Requests
    BY <1>1, SelectFrom
  <1> HIDE DEF hits, budget, q
  <1>5. req' \in FetchReq(q, Rankable(q), ReadClaims(q))
    BY <1>1, <1>2 DEF FetchReq
  <1>6. req' \in ReqsOf(q, Rankable(q), ReadClaims(q))
    BY <1>1, <1>4, <1>5, ReqFits
  <1>7. Searching'
    BY <1>1 DEF Searching
  <1> QED
    BY <1>4, <1>6, <1>7, NextReq DEF Select

-----------------------------------------------------------------------------
(* Reading again, annotating and entering keep the types                  *)

\* A hit read again is what was ranked, with the status it has by then.
LEMMA FetchTypes == ServingTypes /\ Fetch => ServingTypes'
  <1> SUFFICES ASSUME ServingTypes, Fetch PROVE ServingTypes'
    OBVIOUS
  <1> DEFINE q == req.q
             H == HitsOf(Rankable(q), TurnsFor(q))
             R == ReadClaims(q)
             h == Head(req.hits)
             on == [req EXCEPT !.hits = Tail(@)]
  <1>1. /\ req.at = "fetch" /\ q \in Requests /\ q.door = "query"
        /\ req \in FetchReq(q, Rankable(q), R) /\ req.hits # <<>>
    BY ReqFields DEF Fetch, ServingTypes, Idle
  <1>2. /\ req.hits \in Seq(H) /\ req.claims \in Seq(R) /\ req.episodes \in Seq(TurnsFor(q))
    BY <1>1 DEF FetchReq
  <1>3. h \in H /\ Tail(req.hits) \in Seq(H)
    BY <1>1, <1>2, HeadTailProperties
  <1>4. on \in FetchReq(q, Rankable(q), R) /\ on.claims = req.claims /\ on.episodes = req.episodes
    BY <1>1, <1>3 DEF FetchReq
  <1>5. req' \in FetchReq(q, Rankable(q), R)
    <2>1. CASE h.kind = "fact" /\ h.id \in Stored
      <3>1. h.id \in Rankable(q)
        BY <1>3, <2>1 DEF HitsOf
      <3>2. status[h.id] \in Statuses /\ (status[h.id] = "live" <=> h.id \in Live)
        BY <3>1 DEF ServingTypes, StoreTypes, Rankable, InScope, Live
      <3>3. <<h.id, status[h.id]>> \in R
        BY <3>1, <3>2 DEF Rankable, ReadClaims
      <3>4. Append(req.claims, <<h.id, status[h.id]>>) \in Seq(R)
        BY <3>3, <1>2, AppendProperties
      <3>5. req' = [on EXCEPT !.claims = Append(@, <<h.id, status[h.id]>>)]
        BY <2>1 DEF Fetch
      <3>6. req' = [on EXCEPT !.claims = Append(req.claims, <<h.id, status[h.id]>>)]
        BY <3>5, <1>4
      <3> HIDE DEF on, h, R
      <3> QED
        BY <1>4, <3>4, <3>6 DEF FetchReq
    <2>2. CASE h.kind = "episode" /\ h.id \in turns
      <3>1. h.id \in TurnsFor(q)
        BY <1>3, <2>2 DEF HitsOf
      <3>2. Append(req.episodes, h.id) \in Seq(TurnsFor(q))
        BY <3>1, <1>2, AppendProperties
      <3>3. req' = [on EXCEPT !.episodes = Append(@, h.id)]
        BY <2>2 DEF Fetch
      <3>4. req' = [on EXCEPT !.episodes = Append(req.episodes, h.id)]
        BY <3>3, <1>4
      <3> HIDE DEF on, h, R
      <3> QED
        BY <1>4, <3>2, <3>4 DEF FetchReq
    <2>3. CASE ~(h.kind = "fact" /\ h.id \in Stored) /\ ~(h.kind = "episode" /\ h.id \in turns)
      <3>1. req' = on
        BY <2>3 DEF Fetch
      <3> QED
        BY <3>1, <1>4
    <2> QED
      BY <2>1, <2>2, <2>3
  <1>6. req' \in ReqsOf(q, Rankable(q), R)
    BY <1>1, <1>5, ReqFits
  <1>7. Searching'
    <2>1. req'.at = "fetch"
      BY <1>5 DEF FetchReq
    <2> QED
      BY <2>1 DEF Searching
  <1> QED
    BY <1>1, <1>6, <1>7, NextReq DEF Fetch

\* What an answer to a query names: the claims that were ranked, and those
\* nested under the episodes that are still there.
LEMMA Annotating ==
    ASSUME ServingTypes, Annotate
    PROVE  \E todo \in Seq(InScope(req.q)), served \in Seq(TurnsFor(req.q)) :
               req' = [at |-> "record", q |-> req.q, claims |-> req.claims, episodes |-> served,
                       budget |-> req.budget, answer |-> Range(todo), todo |-> todo]
  <1> DEFINE q == req.q
             R == ReadClaims(q)
             top == Ids(req.claims)
             there == {i \in DOMAIN req.episodes : req.episodes[i] \in turns}
             served == Taken(req.episodes, there)
             nests == [i \in DOMAIN served |-> Nested(served[i], Range(top))]
             nested == FlattenSeq(nests)
  <1>1. /\ req.at = "fetch" /\ q \in Requests /\ q.door = "query"
        /\ req \in FetchReq(q, Rankable(q), R)
    BY ReqFields DEF Annotate, ServingTypes, Idle
  <1>2. /\ req.claims \in Seq(R) /\ req.episodes \in Seq(TurnsFor(q))
    BY <1>1 DEF FetchReq
  <1>3. top \in Seq(InScope(q))
    <2>1. /\ Len(req.claims) \in Nat /\ DOMAIN req.claims = 1 .. Len(req.claims)
          /\ \A i \in 1 .. Len(req.claims) : req.claims[i] \in R
      BY <1>2
    <2>2. \A i \in 1 .. Len(req.claims) : req.claims[i][1] \in InScope(q)
      BY <2>1 DEF ReadClaims
    <2>3. Ids(req.claims) \in [1 .. Len(req.claims) -> InScope(q)]
      BY <2>1, <2>2 DEF Ids
    <2> QED
      BY <2>1, <2>3
  <1>4. served \in Seq(TurnsFor(q))
    BY <1>2, Taking
  <1> HIDE DEF top, served
  <1>5. \A t \in TurnsFor(q) : Nested(t, Range(top)) \in Seq(InScope(q))
    <2> TAKE t \in TurnsFor(q)
    <2> DEFINE S == {c \in Historical \ Range(top) : TurnOf[c] = t}
    <2>1. S \subseteq InScope(q) /\ S \subseteq Claims
      BY DEF Historical, InScope, TurnsFor
    <2>2. S \subseteq Nat /\ IsFiniteSet(S)
      BY <2>1, FiniteScopes, TopKIsNumber
    <2>3. NewestFirst(S) \in Seq(S)
      BY <2>2, Descending
    <2>4. NewestFirst(S) \in Seq(InScope(q))
      BY <2>1, <2>3, SeqMonotonic
    <2>5. Cut(NewestFirst(S), MaxNested) \in Seq(InScope(q))
      BY <2>4, TopKIsNumber, Cutting
    <2> QED
      BY <2>5 DEF Nested
  <1>6. nests \in Seq(Seq(InScope(q)))
    <2>1. Len(served) \in Nat /\ DOMAIN served = 1 .. Len(served)
          /\ \A i \in 1 .. Len(served) : served[i] \in TurnsFor(q)
      BY <1>4
    <2>2. nests \in [1 .. Len(served) -> Seq(InScope(q))]
      BY <2>1, <1>5
    <2> QED
      BY <2>1, <2>2
  <1> HIDE DEF nests
  <1>7. nested \in Seq(InScope(q))
    BY <1>6, Flattening
  <1> HIDE DEF nested
  <1>8. top \o nested \in Seq(InScope(q))
    BY <1>3, <1>7, ConcatProperties
  <1>9. req' = [at |-> "record", q |-> req.q, claims |-> req.claims, episodes |-> served,
                budget |-> req.budget, answer |-> Range(top \o nested), todo |-> top \o nested]
    BY DEF Annotate, nested, nests, served, top
  <1> QED
    BY <1>4, <1>8, <1>9

\* An answer names claims and turns within the reach of the query.
LEMMA AnnotateTypes == ServingTypes /\ Annotate => ServingTypes'
  <1> SUFFICES ASSUME ServingTypes, Annotate PROVE ServingTypes'
    OBVIOUS
  <1> DEFINE q == req.q
             R == ReadClaims(q)
  <1>1. /\ req.at = "fetch" /\ q \in Requests /\ q.door = "query"
        /\ req \in FetchReq(q, Rankable(q), R)
    BY ReqFields DEF Annotate, ServingTypes, Idle
  <1>2. PICK todo \in Seq(InScope(q)), served \in Seq(TurnsFor(q)) :
               req' = [at |-> "record", q |-> q, claims |-> req.claims, episodes |-> served,
                       budget |-> req.budget, answer |-> Range(todo), todo |-> todo]
    BY Annotating
  <1>3. Range(todo) \subseteq InScope(q)
    BY RangeIsFinite
  <1>4. req' \in QueryRecordReq(q, R)
    BY <1>1, <1>2, <1>3 DEF FetchReq, QueryRecordReq
  <1>5. req' \in ReqsOf(q, Rankable(q), R)
    BY <1>1, <1>4, ReqFits
  <1>6. Searching'
    BY <1>2 DEF Searching
  <1> QED
    BY <1>1, <1>5, <1>6, NextReq DEF Annotate

\* What the hook makes of its next candidate.
LEMMA HookEntering ==
    ASSUME ServingTypes, HookEntry
    PROVE  LET c == Head(req.left)
               group == LiveAlike(c, req.q.ns)
           IN /\ c \in InScope(req.q) /\ Tail(req.left) \in Seq(InScope(req.q))
              /\ \/ req' = [req EXCEPT !.left = Tail(req.left)] /\ c \in req.consumed
                 \/ req' = [req EXCEPT !.left = Tail(req.left), !.repeats = TRUE]
                 \/ /\ c \notin req.consumed
                    /\ req' = [req EXCEPT !.left = Tail(req.left),
                                          !.entries = Append(req.entries, [conflict |-> FALSE, shows |-> {c}])]
                 \/ \E S \in SUBSET InScope(req.q) :
                        /\ c \notin req.consumed /\ group \subseteq InScope(req.q)
                        /\ req' = [req EXCEPT !.left = Tail(req.left),
                                              !.consumed = req.consumed \cup group,
                                              !.entries = Append(req.entries, [conflict |-> TRUE, shows |-> S])]
  <1> DEFINE q == req.q
             c == Head(req.left)
             group == LiveAlike(c, req.q.ns)
             said == UNION {{LineOf[d] : d \in e.shows} : e \in {x \in Range(req.entries) : ~x.conflict}}
             many == Cardinality(group) >= 2
             S == Range(Cut(NewestFirst(group), MaxValues))
             entry == IF many THEN [conflict |-> TRUE, shows |-> S] ELSE [conflict |-> FALSE, shows |-> {c}]
             on == [req EXCEPT !.left = Tail(@)]
  <1>1. /\ req.at = "entries" /\ q \in Requests /\ q.door = "hook"
        /\ req \in EntriesReq(q) /\ req.left # <<>>
    BY ReqFields DEF HookEntry, ServingTypes, Idle
  <1>2. /\ req.left \in Seq(InScope(q))
        /\ DOMAIN req = {"at", "q", "candidates", "left", "consumed", "entries", "repeats"}
    BY <1>1 DEF EntriesReq
  <1>3. c \in InScope(q) /\ Tail(req.left) \in Seq(InScope(q))
    BY <1>1, <1>2, HeadTailProperties
  <1>4. group \subseteq InScope(q) /\ group \subseteq Claims
    BY DEF LiveAlike, Live, InScope
  <1>5. S \subseteq InScope(q)
    <2>1. IsFiniteSet(group) /\ group \subseteq Nat
      BY <1>4, FiniteScopes, TopKIsNumber
    <2>2. NewestFirst(group) \in Seq(group)
      BY <2>1, Descending
    <2>3. NewestFirst(group) \in Seq(InScope(q))
      BY <1>4, <2>2, SeqMonotonic
    <2>4. Cut(NewestFirst(group), MaxValues) \in Seq(InScope(q))
      BY <2>3, TopKIsNumber, Cutting
    <2> QED
      BY <2>4, RangeIsFinite
  <1>6. req' = CASE c \in req.consumed -> on
                 [] c \notin req.consumed /\ ~entry.conflict /\ LineOf[c] \in said ->
                        [on EXCEPT !.repeats = TRUE]
                 [] OTHER -> [on EXCEPT
                        !.consumed = IF entry.conflict THEN @ \cup group ELSE @,
                        !.entries = Append(@, entry)]
    BY DEF HookEntry
  <1>7. CASE c \in req.consumed
    <2>1. req' = on
      BY <1>6, <1>7
    <2> QED
      BY <1>3, <1>7, <2>1
  <1>8. CASE c \notin req.consumed /\ ~entry.conflict /\ LineOf[c] \in said
    <2>1. req' = [on EXCEPT !.repeats = TRUE]
      BY <1>6, <1>8
    <2>2. req' = [req EXCEPT !.left = Tail(req.left), !.repeats = TRUE]
      BY <2>1
    <2> QED
      BY <1>3, <2>2
  <1>9. CASE c \notin req.consumed /\ ~(~entry.conflict /\ LineOf[c] \in said)
    <2>1. req' = [on EXCEPT !.consumed = IF entry.conflict THEN @ \cup group ELSE @,
                            !.entries = Append(@, entry)]
      BY <1>6, <1>9
    <2>2. CASE many
      <3>1. entry = [conflict |-> TRUE, shows |-> S]
        BY <2>2
      <3>2. req' = [req EXCEPT !.left = Tail(req.left), !.consumed = req.consumed \cup group,
                               !.entries = Append(req.entries, [conflict |-> TRUE, shows |-> S])]
        BY <1>2, <2>1, <3>1
      <3>3. \E T \in SUBSET InScope(q) :
                /\ c \notin req.consumed /\ group \subseteq InScope(q)
                /\ req' = [req EXCEPT !.left = Tail(req.left), !.consumed = req.consumed \cup group,
                                      !.entries = Append(req.entries, [conflict |-> TRUE, shows |-> T])]
        <4> HIDE DEF S, group, c
        <4> QED
          BY <1>4, <1>5, <1>9, <3>2
      <3> QED
        BY Zenon, <1>3, <3>3
    <2>3. CASE ~many
      <3>1. entry = [conflict |-> FALSE, shows |-> {c}]
        BY <2>3
      <3>2. req' = [req EXCEPT !.left = Tail(req.left),
                               !.entries = Append(req.entries, [conflict |-> FALSE, shows |-> {c}])]
        BY <1>2, <2>1, <3>1
      <3> QED
        BY Zenon, <1>3, <1>9, <3>2
    <2> QED
      BY <2>2, <2>3
  <1> QED
    BY <1>7, <1>8, <1>9

\* An entry shows claims within the reach of the hook.
LEMMA HookEntryTypes == ServingTypes /\ HookEntry => ServingTypes'
  <1> SUFFICES ASSUME ServingTypes, HookEntry PROVE ServingTypes'
    OBVIOUS
  <1> DEFINE q == req.q
             E == [conflict : BOOLEAN, shows : SUBSET InScope(q)]
             c == Head(req.left)
  <1>1. /\ req.at = "entries" /\ q \in Requests /\ q.door = "hook"
        /\ req \in EntriesReq(q)
    BY ReqFields DEF HookEntry, ServingTypes, Idle
  <1>2. req.entries \in Seq(E) /\ req.consumed \subseteq InScope(q)
    BY <1>1 DEF EntriesReq
  <1>3. c \in InScope(q) /\ Tail(req.left) \in Seq(InScope(q))
    BY HookEntering
  <1>4. Append(req.entries, [conflict |-> FALSE, shows |-> {c}]) \in Seq(E)
    BY <1>2, <1>3, AppendProperties
  <1>5. \A S \in SUBSET InScope(q) : Append(req.entries, [conflict |-> TRUE, shows |-> S]) \in Seq(E)
    BY <1>2, AppendProperties
  <1>6. req' \in EntriesReq(q)
    <2>1. CASE req' = [req EXCEPT !.left = Tail(req.left)]
      BY <2>1, <1>1, <1>3 DEF EntriesReq
    <2>2. CASE req' = [req EXCEPT !.left = Tail(req.left), !.repeats = TRUE]
      BY <2>2, <1>1, <1>3 DEF EntriesReq
    <2>3. CASE req' = [req EXCEPT !.left = Tail(req.left),
                                  !.entries = Append(req.entries, [conflict |-> FALSE, shows |-> {c}])]
      BY <2>3, <1>1, <1>3, <1>4 DEF EntriesReq
    <2>4. ASSUME NEW S \in SUBSET InScope(q), LiveAlike(c, q.ns) \subseteq InScope(q),
                 req' = [req EXCEPT !.left = Tail(req.left),
                                    !.consumed = req.consumed \cup LiveAlike(c, q.ns),
                                    !.entries = Append(req.entries, [conflict |-> TRUE, shows |-> S])]
          PROVE  req' \in EntriesReq(q)
      <3>1. req.consumed \cup LiveAlike(c, q.ns) \subseteq InScope(q)
        BY <1>2, <2>4
      <3> HIDE DEF c
      <3> QED
        BY <2>4, <3>1, <1>1, <1>3, <1>5 DEF EntriesReq
    <2> QED
      BY <2>1, <2>2, <2>3, <2>4, HookEntering
  <1>7. req' \in ReqsOf(q, Rankable(q), ReadClaims(q))
    BY <1>1, <1>6, ReqFits
  <1>8. Searching'
    <2>1. req'.at = "entries"
      BY <1>6 DEF EntriesReq
    <2> QED
      BY <2>1 DEF Searching
  <1> QED
    BY <1>1, <1>7, <1>8, NextReq DEF HookEntry

-----------------------------------------------------------------------------
(* Rendering and recording keep the types                                 *)

\* What the hook renders, and what of it goes to the ledger.
LEMMA Rendering ==
    ASSUME ServingTypes, NEW n \in 1 .. MaxLines, HookRender(n)
    PROVE  LET E == [conflict : BOOLEAN, shows : SUBSET InScope(req.q)]
               lines == Cut(req.entries, n)
           IN /\ req.entries \in Seq(E) /\ n \in Nat /\ n <= Len(req.entries) /\ n <= MaxLines
              /\ lines \in Seq(E) /\ Len(lines) = n /\ \A i \in 1 .. n : lines[i] = req.entries[i]
              /\ Range(lines) = {req.entries[i] : i \in 1 .. n}
              /\ Cut(req.candidates, MaxLines) \in Seq(InScope(req.q))
              /\ UNION {e.shows : e \in Range(lines)} \subseteq InScope(req.q)
              /\ req' = [at |-> "record", q |-> req.q,
                         answer |-> UNION {e.shows : e \in Range(lines)},
                         plain |-> ~req.repeats /\ \A e \in Range(lines) : ~e.conflict,
                         todo |-> Cut(req.candidates, MaxLines)]
  <1> DEFINE q == req.q
             E == [conflict : BOOLEAN, shows : SUBSET InScope(q)]
             lines == Cut(req.entries, n)
  <1>1. /\ req.at = "entries" /\ q \in Requests /\ q.door = "hook"
        /\ req \in EntriesReq(q)
    BY ReqFields DEF HookRender, ServingTypes, Idle
  <1>2. req.entries \in Seq(E) /\ req.candidates \in Seq(InScope(q))
    BY <1>1 DEF EntriesReq
  <1>3. n \in Nat /\ n <= Len(req.entries) /\ n <= MaxLines
    <2>1. n \in 1 .. Min({MaxLines, Len(req.entries)})
      BY DEF HookRender
    <2>2. MaxLines \in Nat /\ Len(req.entries) \in Nat
      BY <1>2, TopKIsNumber
    <2>3. Min({MaxLines, Len(req.entries)}) = IF MaxLines <= Len(req.entries) THEN MaxLines ELSE Len(req.entries)
      BY <2>2, Pairs
    <2> QED
      BY <2>1, <2>2, <2>3
  <1>4. /\ lines \in Seq(E) /\ Len(lines) = n /\ \A i \in 1 .. n : lines[i] = req.entries[i]
    <2>1. /\ lines \in Seq(E) /\ Len(lines) = (IF Len(req.entries) < n THEN Len(req.entries) ELSE n)
          /\ \A i \in 1 .. Len(lines) : lines[i] = req.entries[i]
      BY <1>2, <1>3, Cutting
    <2>2. Len(req.entries) \in Nat
      BY <1>2
    <2>3. Len(lines) = n
      BY <1>3, <2>1, <2>2
    <2> QED
      BY <2>1, <2>3
  <1> HIDE DEF lines
  <1>5. Range(lines) = {req.entries[i] : i \in 1 .. n} /\ Range(lines) \subseteq E
    <2>1. Range(lines) = {lines[i] : i \in 1 .. Len(lines)} /\ Range(lines) \subseteq E
      <3> HIDE DEF E
      <3> QED
        BY <1>4, RangeIsFinite
    <2>2. {lines[i] : i \in 1 .. n} = {req.entries[i] : i \in 1 .. n}
      BY <1>4
    <2> QED
      BY <1>4, <2>1, <2>2
  <1>6. UNION {e.shows : e \in Range(lines)} \subseteq InScope(q)
    BY <1>5
  <1>7. Cut(req.candidates, MaxLines) \in Seq(InScope(q))
    BY <1>2, TopKIsNumber, Cutting
  <1>8. req' = [at |-> "record", q |-> req.q,
                answer |-> UNION {e.shows : e \in Range(lines)},
                plain |-> ~req.repeats /\ \A e \in Range(lines) : ~e.conflict,
                todo |-> Cut(req.candidates, MaxLines)]
    BY DEF HookRender, lines
  <1> QED
    BY <1>2, <1>3, <1>4, <1>5, <1>6, <1>7, <1>8 DEF lines

\* What the hook renders, and records, lies within its reach.
LEMMA HookRenderTypes ==
    ASSUME ServingTypes, NEW n \in 1 .. MaxLines, HookRender(n)
    PROVE  ServingTypes'
  <1> DEFINE q == req.q
  <1>1. /\ req.at = "entries" /\ q \in Requests /\ q.door = "hook"
    BY ReqFields DEF HookRender, ServingTypes, Idle
  <1>2. PICK answer \in SUBSET InScope(q), plain \in BOOLEAN, todo \in Seq(InScope(q)) :
          req' = [at |-> "record", q |-> q, answer |-> answer, plain |-> plain, todo |-> todo]
    BY Rendering
  <1>3. req' \in HookRecordReq(q)
    BY <1>2 DEF HookRecordReq
  <1>4. req' \in ReqsOf(q, Rankable(q), ReadClaims(q))
    BY <1>1, <1>3, ReqFits
  <1>5. Searching'
    BY <1>2 DEF Searching
  <1> QED
    BY <1>1, <1>4, <1>5, NextReq DEF HookRender

\* What a request that records still has to record, and whom it answers.
LEMMA RecordFields ==
    ASSUME ServingTypes, req.at = "record"
    PROVE  /\ req.q \in Requests /\ req.todo \in Seq(InScope(req.q)) /\ req.answer \subseteq InScope(req.q)
           /\ InScope(req.q) \subseteq Claims /\ req.q.door \in {"query", "hook"}
           /\ How(req) \in {"query", "hook", "grouped"}
           /\ req.q.door = "query" => req.episodes \in Seq(TurnsFor(req.q))
  <1>1. /\ req.q \in Requests
        /\ \/ req \in QueryRecordReq(req.q, ReadClaims(req.q)) /\ req.q.door = "query"
           \/ req \in HookRecordReq(req.q) /\ req.q.door = "hook"
    BY ReqFields DEF ServingTypes, Idle
  <1> QED
    BY <1>1 DEF QueryRecordReq, HookRecordReq, InScope, How

\* A row of the ledger names a claim that exists, or the request ends.
LEMMA RecordTypes == ServingTypes /\ Record => ServingTypes'
  <1> SUFFICES ASSUME ServingTypes, Record PROVE ServingTypes'
    OBVIOUS
  <1> DEFINE c == Head(req.todo)
  <1>1. PICK q \in Requests :
          /\ req.q = q
          /\ \/ req \in QueryRecordReq(q, ReadClaims(q)) /\ q.door = "query"
             \/ req \in HookRecordReq(q) /\ q.door = "hook"
    BY ReqFields DEF ServingTypes, Idle, Record
  <1>2. UNCHANGED <<turns, status, demoted, shown, overtaken>> /\ Stored' = Stored
    BY SameClaims DEF Record
  <1>3. c \in Claims /\ Tail(req.todo) \in Seq(InScope(q))
    <2>1. req.todo \in Seq(InScope(q)) /\ req.todo # <<>> /\ InScope(q) \subseteq Claims
      BY <1>1, RecordFields DEF Record
    <2> QED
      BY <2>1, HeadTailProperties
  <1>4. CASE c \notin Stored
    <2>1. req' = Idle /\ UNCHANGED ledger
      BY <1>4 DEF Record
    <2>2. StoreTypes'
      BY <1>2, <2>1, OnlyReq DEF ServingTypes, Record
    <2> QED
      BY <2>1, <2>2 DEF ServingTypes, ReqTypes, Searching, Idle
  <1>5. CASE c \in Stored
    <2>1. ledger' = ledger \cup {<<Asker(q), c>>} /\ req' = [req EXCEPT !.todo = Tail(@)]
      BY <1>1, <1>5 DEF Record
    <2>2. <<Asker(q), c>> \in Served
      BY <1>1, <1>3 DEF Served
    <2>3. StoreTypes'
      BY <1>2, <1>5, <2>1, <2>2 DEF ServingTypes, StoreTypes
    <2>4. /\ req \in QueryRecordReq(q, ReadClaims(q)) => req' \in QueryRecordReq(q, ReadClaims(q))
          /\ req \in HookRecordReq(q) => req' \in HookRecordReq(q)
      BY <2>1, <1>3 DEF QueryRecordReq, HookRecordReq
    <2>5. req' \in ReqsOf(q, Rankable(q), ReadClaims(q))
      BY <1>1, <2>4, ReqFits
    <2>6. Rankable(q)' = Rankable(q) /\ ReadClaims(q)' = ReadClaims(q)
      <3>1. UNCHANGED <<store, overtaken>>
        BY DEF Record
      <3> QED
        BY <3>1, SameClaims
    <2>7. (req \in ReqsOf(q, Rankable(q), ReadClaims(q)))'
      BY <2>5, <2>6 DEF ReqsOf, RankingReq, EpisodesReq, PackedReq, FetchReq,
                        QueryRecordReq, EntriesReq, HookRecordReq, ViewsReq
    <2>8. Searching'
      <3>1. req'.at = "record"
        BY <1>1, <2>4 DEF QueryRecordReq, HookRecordReq
      <3> QED
        BY <3>1 DEF Searching
    <2>9. (\E p \in Requests : req \in ReqsOf(p, Rankable(p), ReadClaims(p)))'
      BY <1>1, <2>7
    <2> QED
      BY <2>3, <2>8, <2>9 DEF ServingTypes, ReqTypes
  <1> QED
    BY <1>4, <1>5

\* What a request that answers holds.
LEMMA AnswerFields ==
    ASSUME ServingTypes, Answer
    PROVE  /\ req.q \in Requests /\ req.answer \subseteq InScope(req.q) /\ req.answer \subseteq Claims
           /\ How(req) \in {"query", "hook", "grouped"}
           /\ \/ req.at = "record" /\ req.todo = <<>> /\ req.q.door = "hook"
              \/ req.at = "views" /\ req.left = <<>> /\ req.q.door = "query"
  <1>1. CASE req.at = "record" /\ req.todo = <<>> /\ req.q.door = "hook"
    <2>1. /\ req.q \in Requests /\ req.answer \subseteq InScope(req.q) /\ InScope(req.q) \subseteq Claims
          /\ How(req) \in {"query", "hook", "grouped"}
      BY <1>1, RecordFields
    <2> QED
      BY <1>1, <2>1
  <1>2. CASE req.at = "views" /\ req.left = <<>>
    <2>1. req.q \in Requests /\ req \in ViewsReq(req.q) /\ req.q.door = "query"
      BY <1>2, ReqFields DEF ServingTypes, Idle
    <2>2. req.answer \subseteq InScope(req.q) /\ InScope(req.q) \subseteq Claims
      BY <2>1 DEF ViewsReq, InScope
    <2> QED
      BY <1>2, <2>1, <2>2 DEF How
  <1> QED
    BY <1>1, <1>2 DEF Answer

\* What is shown was asked for by a request there is.
LEMMA AnswerTypes == ServingTypes /\ Answer => ServingTypes'
  <1> SUFFICES ASSUME ServingTypes, Answer PROVE ServingTypes'
    OBVIOUS
  <1>1. UNCHANGED <<turns, status, demoted, ledger, overtaken>> /\ Stored' = Stored
    BY SameClaims DEF Answer
  <1>2. /\ req' = Idle
        /\ shown' = shown \cup ({How(req)} \X {Asker(req.q)} \X req.answer)
    BY DEF Answer
  <1>3. /\ How(req) \in {"query", "hook", "grouped"}
        /\ req.answer \subseteq Claims /\ req.q \in Requests
    BY AnswerFields
  <1>4. \A c \in req.answer : <<Asker(req.q), c>> \in Served
    BY <1>3 DEF Served
  <1>5. shown' \subseteq {<<h, e[1], e[2]>> : h \in {"query", "hook", "grouped"}, e \in Served}
    <2> SUFFICES ASSUME NEW c \in req.answer
                 PROVE  <<How(req), Asker(req.q), c>> \in
                            {<<h, e[1], e[2]>> : h \in {"query", "hook", "grouped"}, e \in Served}
      BY <1>2 DEF ServingTypes, StoreTypes
    <2> DEFINE e == <<Asker(req.q), c>>
    <2>1. e \in Served /\ e[1] = Asker(req.q) /\ e[2] = c
      BY <1>4
    <2> HIDE DEF e
    <2> QED
      BY <1>3, <2>1
  <1>6. StoreTypes'
    BY <1>1, <1>5 DEF ServingTypes, StoreTypes
  <1> QED
    BY <1>2, <1>6 DEF ServingTypes, ReqTypes, Searching, Idle

\* The views of an answer are to be built, none where the session is shared.
LEMMA CheckSharedTypes == ServingTypes /\ CheckShared => ServingTypes'
  <1> SUFFICES ASSUME ServingTypes, CheckShared PROVE ServingTypes'
    OBVIOUS
  <1> DEFINE q == req.q
             left == IF req.q.session = None \/ SharedSession(req.q) THEN <<>> ELSE Views
  <1>1. /\ req.at = "record" /\ q.door = "query"
        /\ req' = [at |-> "views", q |-> q, answer |-> req.answer, episodes |-> req.episodes,
                   told |-> {}, known |-> turns, left |-> left]
    BY DEF CheckShared
  <1>2. /\ q \in Requests /\ req.answer \subseteq InScope(q) /\ req.episodes \in Seq(TurnsFor(q))
    BY <1>1, RecordFields
  <1>3. left \in Seq({"world_state", "briefing", "events", "life_events", "contradictions"})
    <2>1. Views \in Seq({"world_state", "briefing", "events", "life_events", "contradictions"})
      BY DEF Views
    <2> DEFINE shared == SharedSession(req.q)
    <2> HIDE DEF shared
    <2> QED
      BY <2>1 DEF shared
  <1>4. turns \subseteq Turns
    BY DEF ServingTypes, StoreTypes
  <1> HIDE DEF left, q
  <1>5. req' \in ViewsReq(q)
    BY <1>1, <1>2, <1>3, <1>4 DEF ViewsReq
  <1>6. req' \in ReqsOf(q, Rankable(q), ReadClaims(q))
    BY <1>1, <1>2, <1>5, ReqFits
  <1>7. Searching'
    BY <1>1 DEF Searching
  <1> QED
    BY <1>2, <1>6, <1>7, NextReq DEF CheckShared

\* The next view is built.
LEMMA BuildingView ==
    ASSUME ServingTypes, BuildView
    PROVE  LET v == Head(req.left)
           IN /\ req.at = "views" /\ req.q \in Requests /\ req.q.door = "query" /\ req \in ViewsReq(req.q)
              /\ v \in {"world_state", "briefing", "events", "life_events", "contradictions"}
              /\ ToldBy(v, req.q) \subseteq Stored /\ ToldBy(v, req.q) \subseteq Claims
              /\ req' = [at |-> "views", q |-> req.q, answer |-> req.answer, episodes |-> req.episodes,
                         told |-> req.told \cup ToldBy(v, req.q), known |-> req.known,
                         left |-> Tail(req.left)]
              /\ req' \in ViewsReq(req.q)
  <1> DEFINE v == Head(req.left)
             told == ToldBy(v, req.q)
  <1>1. /\ req.at = "views" /\ req.left # <<>>
        /\ req' = [req EXCEPT !.left = Tail(@), !.told = @ \cup told]
    BY DEF BuildView
  <1>2. req.q \in Requests /\ req.q.door = "query" /\ req \in ViewsReq(req.q)
    BY <1>1, ReqFields DEF ServingTypes, Idle
  <1>3. /\ req.left \in Seq({"world_state", "briefing", "events", "life_events", "contradictions"})
        /\ req.told \subseteq Claims
        /\ req = [at |-> "views", q |-> req.q, answer |-> req.answer, episodes |-> req.episodes,
                  told |-> req.told, known |-> req.known, left |-> req.left]
    BY <1>2 DEF ViewsReq
  <1>4. /\ v \in {"world_state", "briefing", "events", "life_events", "contradictions"}
        /\ Tail(req.left) \in Seq({"world_state", "briefing", "events", "life_events", "contradictions"})
    BY <1>1, <1>3, HeadTailProperties
  <1>5. told \subseteq Stored /\ told \subseteq Claims
    BY <1>4 DEF ToldBy, Live, Stored
  <1> HIDE DEF told, v
  <1>6. req' = [at |-> "views", q |-> req.q, answer |-> req.answer, episodes |-> req.episodes,
                told |-> req.told \cup told, known |-> req.known, left |-> Tail(req.left)]
    BY <1>1, <1>3
  <1>7. req.told \cup told \subseteq Claims
    BY <1>3, <1>5
  <1>8. req' \in ViewsReq(req.q)
    BY <1>2, <1>4, <1>6, <1>7 DEF ViewsReq
  <1> QED
    BY <1>1, <1>2, <1>4, <1>5, <1>6, <1>8 DEF told, v

\* A view tells of claims there are.
LEMMA BuildViewTypes == ServingTypes /\ BuildView => ServingTypes'
  <1> SUFFICES ASSUME ServingTypes, BuildView PROVE ServingTypes'
    OBVIOUS
  <1> DEFINE q == req.q
  <1>1. q \in Requests /\ q.door = "query" /\ req' \in ViewsReq(q)
    BY BuildingView
  <1>2. req' \in ReqsOf(q, Rankable(q), ReadClaims(q))
    BY <1>1, ReqFits
  <1>3. Searching'
    <2>1. req'.at = "views"
      BY <1>1 DEF ViewsReq
    <2> QED
      BY <2>1 DEF Searching
  <1> QED
    BY <1>1, <1>2, <1>3, NextReq DEF BuildView

\* A turn stored meanwhile changes nothing of the request under way.
LEMMA KeepTypes ==
    ASSUME ServingTypes, NEW t \in Turns, Keeps(t)
    PROVE  ServingTypes'
  <1>1. /\ UNCHANGED <<status, demoted, ledger, shown, req, overtaken>> /\ turns' = turns \cup {t}
        /\ Stored' = Stored /\ Live' = Live /\ Overtaken' = Overtaken
    BY DEF Keeps, Stored, Live, Overtaken
  <1>2. StoreTypes'
    BY <1>1 DEF ServingTypes, StoreTypes
  <1>3. \A q : Rankable(q)' = Rankable(q) /\ ReadClaims(q)' = ReadClaims(q)
    BY <1>1 DEF Rankable, ReadClaims, InScope
  <1>4. ASSUME NEW q \in Requests, req \in ReqsOf(q, Rankable(q), ReadClaims(q))
        PROVE  (req \in ReqsOf(q, Rankable(q), ReadClaims(q)))'
    BY <1>1, <1>3, <1>4 DEF ReqsOf, RankingReq, EpisodesReq, PackedReq, FetchReq,
                           QueryRecordReq, EntriesReq, HookRecordReq, ViewsReq
  <1>5. ReqTypes'
    BY <1>1, <1>4 DEF ServingTypes, ReqTypes, Searching, Idle
  <1> QED
    BY <1>2, <1>5 DEF ServingTypes

\* Nor does a step that ends the request or leaves all of it alone.
LEMMA EndTypes == ServingTypes /\ (Ends \/ Quiet) => ServingTypes'
  <1> SUFFICES ASSUME ServingTypes, Ends \/ Quiet PROVE ServingTypes'
    OBVIOUS
  <1>1. StoreTypes'
    BY OnlyReq DEF ServingTypes, Ends, Quiet
  <1>2. CASE Ends
    BY <1>1, <1>2 DEF Ends, ServingTypes, ReqTypes, Searching, Idle
  <1>3. CASE Quiet
    <2>1. /\ req' = req /\ \A q : Rankable(q)' = Rankable(q) /\ ReadClaims(q)' = ReadClaims(q)
      BY <1>3, SameClaims DEF Quiet
    <2>2. ASSUME NEW q \in Requests, req \in ReqsOf(q, Rankable(q), ReadClaims(q))
          PROVE  (req \in ReqsOf(q, Rankable(q), ReadClaims(q)))'
      BY <2>1, <2>2 DEF ReqsOf, RankingReq, EpisodesReq, PackedReq, FetchReq,
                        QueryRecordReq, EntriesReq, HookRecordReq, ViewsReq
    <2>3. ReqTypes'
      BY <2>1, <2>2 DEF ServingTypes, ReqTypes, Searching, Idle
    <2> QED
      BY <1>1, <2>3 DEF ServingTypes
  <1> QED
    BY <1>2, <1>3

\* The types hold at first.
LEMMA ServingTypesHold == Init => ServingTypes
  <1> SUFFICES ASSUME Init PROVE ServingTypes
    OBVIOUS
  <1>1. StoreTypes
    BY ServingAssumption DEF Init, StoreTypes, Statuses, Stored, Claims
  <1>2. ReqTypes
    BY DEF Init, ReqTypes, Searching, Idle
  <1> QED
    BY <1>1, <1>2 DEF ServingTypes

\* The types outlast every step.
LEMMA ServingTypeStep == ServingTypes /\ ServingStep => ServingTypes'
  BY EndTypes, OpenTypes, RankFactsTypes, RankEpisodesTypes, PackContextTypes, SelectTypes, FetchTypes,
     AnnotateTypes, HookEntryTypes, HookRenderTypes, RecordTypes, CheckSharedTypes, BuildViewTypes,
     AnswerTypes, KeepTypes, OthersServing
     DEF ServingStep, RequestStep

-----------------------------------------------------------------------------
(* What is shown is in the ledger                                         *)

\* The hook's candidates are taken in their order.  Until an entry puts values
\* together or a line is left out, each one taken is an entry that shows it alone.
Entered ==
    req.at = "entries" =>
      LET done == Len(req.candidates) - Len(req.left)
      IN /\ done \in Nat
         /\ \A i \in 1 .. Len(req.left) : req.left[i] = req.candidates[done + i]
         /\ ~req.repeats =>
              /\ (\A i \in 1 .. Len(req.entries) : ~req.entries[i].conflict) =>
                     Len(req.entries) = done /\ req.consumed = {}
              /\ \A j \in 1 .. Len(req.entries) :
                     (\A i \in 1 .. j : ~req.entries[i].conflict) =>
                         j <= Len(req.candidates) /\ req.entries[j].shows = {req.candidates[j]}

\* Whatever is to be answered is recorded, still to be recorded, or gone.
Recording ==
    req.at = "record" /\ How(req) # "grouped" =>
        \A c \in req.answer :
            c \in Remembered => c \in Range(req.todo) \/ <<Asker(req.q), c>> \in ledger

\* Once a query builds its views, nothing is left to be recorded.
Recorded ==
    req.at = "views" =>
        \A c \in req.answer : c \in Remembered => <<Asker(req.q), c>> \in ledger

\* What was answered is in the ledger until it is forgotten.  That it exists is not
\* asked: a claim that was never said cannot be in the ledger, so none was shown.
ShownRecorded ==
    \A e \in shown : e[1] # "grouped" /\ e[3] \in Remembered => <<e[2], e[3]>> \in ledger

\* Views are built only if the session was the tenant's own when that was checked,
\* so that what they tell of a turn there was then is the tenant's.
Checked ==
    req.at = "views" =>
        /\ req.left # <<>> /\ req.q.ns # None =>
               \A t \in req.known : SessOf[t] = req.q.session => NsOf[t] = req.q.ns
        /\ \A c \in req.told : TurnOf[c] \in req.known => InNs(TurnOf[c], req.q.ns)

ServingInv == ServingTypes /\ Entered /\ Recording /\ Recorded /\ ShownRecorded /\ Checked

\* What is recorded is what memory_verify confirms.
LEMMA RecordedVerifies == ShownRecorded => ShownVerifies
  BY DEF ShownRecorded, ShownVerifies, Verified, Remembered, Stored

\* What a sequence holds is its head or in its tail.
LEMMA HeadOrTail ==
    ASSUME NEW X, NEW s \in Seq(X), s # <<>>
    PROVE  \A d \in Range(s) : d = Head(s) \/ d \in Range(Tail(s))
  <1>1. /\ Tail(s) \in Seq(X) /\ Len(s) \in Nat /\ Head(s) = s[1]
        /\ Len(Tail(s)) = Len(s) - 1 /\ \A i \in 1 .. Len(Tail(s)) : Tail(s)[i] = s[i + 1]
    BY HeadTailProperties
  <1>2. /\ Range(s) = {s[i] : i \in 1 .. Len(s)}
        /\ Range(Tail(s)) = {Tail(s)[i] : i \in 1 .. Len(Tail(s))}
    BY <1>1, RangeIsFinite
  <1> SUFFICES ASSUME NEW i \in 1 .. Len(s), i # 1 PROVE s[i] \in Range(Tail(s))
    BY <1>1, <1>2
  <1>3. i - 1 \in 1 .. Len(Tail(s)) /\ Tail(s)[i - 1] = s[i]
    BY <1>1
  <1> QED
    BY <1>2, <1>3

\* What was shown stays recorded while the rows of the claims not forgotten stay.
LEMMA ShownKept ==
    ASSUME ShownRecorded, shown' = shown, Remembered' \subseteq Remembered,
           \A e \in ledger : e[2] \in Remembered' => e \in ledger'
    PROVE  ShownRecorded'
  BY DEF ShownRecorded

\* The same claims are remembered where no status changes.
LEMMA SameRemembered == UNCHANGED status => Remembered' = Remembered
  BY DEF Remembered

\* Forgetting a claim takes its rows along, and only then are they gone.
LEMMA OthersKeepInv == ServingInv /\ OtherProcesses => ServingInv'
  <1> SUFFICES ASSUME ServingInv, OtherProcesses PROVE ServingInv'
    OBVIOUS
  <1>1. /\ UNCHANGED <<shown, req>> /\ Remembered' \subseteq Remembered
        /\ \A e \in ledger : e[2] \in Remembered' => e \in ledger'
    BY OthersChange DEF ServingInv, ServingTypes, Disturbs
  <1>2. ServingTypes'
    BY OthersServing DEF ServingInv
  <1>3. ShownRecorded'
    BY <1>1, ShownKept DEF ServingInv
  <1>4. Entered' /\ Checked'
    BY <1>1 DEF ServingInv, Entered, Checked, InNs
  <1>5. Recording' /\ Recorded'
    BY <1>1 DEF ServingInv, Recording, Recorded, How
  <1> QED
    BY <1>2, <1>3, <1>4, <1>5 DEF ServingInv

\* A step to another stage than the hook's, the record's and the views', that adds
\* nothing to what was shown.
LEMMA ElsewhereKept ==
    ASSUME ServingInv, ServingTypes', UNCHANGED <<store, ledger, shown>>,
           req'.at \notin {"entries", "record", "views"}
    PROVE  ServingInv'
  <1>1. Remembered' = Remembered
    BY SameRemembered DEF store
  <1>2. ShownRecorded'
    BY <1>1, ShownKept DEF ServingInv
  <1>3. Entered' /\ Recording' /\ Recorded' /\ Checked'
    BY DEF Entered, Recording, Recorded, Checked
  <1> QED
    BY <1>2, <1>3 DEF ServingInv

\* A step that leaves the claims, the ledger and the request alone.
LEMMA QuietKeepsInv ==
    ASSUME ServingInv, ServingTypes', UNCHANGED <<status, ledger, shown, req>>
    PROVE  ServingInv'
  <1>1. Remembered' = Remembered
    BY SameRemembered
  <1>2. ShownRecorded'
    BY <1>1, ShownKept DEF ServingInv
  <1>3. Entered' /\ Recording' /\ Recorded' /\ Checked'
    BY <1>1 DEF ServingInv, Entered, Recording, Recorded, Checked, How, InNs
  <1> QED
    BY <1>2, <1>3 DEF ServingInv

\* At first every candidate is left.
LEMMA HookRankKeepsInv ==
    ASSUME ServingInv, NEW q \in Requests, HookRank(q), ServingTypes'
    PROVE  ServingInv'
  <1>1. UNCHANGED <<store, ledger, shown>>
    BY DEF HookRank, Open
  <1>2. PICK candidates \in Seq(InScope(q)) :
          req' = [at |-> "entries", q |-> q, candidates |-> candidates, left |-> candidates,
                  consumed |-> {}, entries |-> <<>>, repeats |-> FALSE]
    BY Matching
  <1>4. Len(candidates) \in Nat /\ Len(candidates) - Len(candidates) = 0
    OBVIOUS
  <1>5. Entered'
    BY <1>2, <1>4 DEF Entered
  <1>6. Recording' /\ Recorded' /\ Checked'
    BY <1>2 DEF Recording, Recorded, Checked
  <1>7. Remembered' = Remembered
    BY <1>1, SameRemembered DEF store
  <1>8. ShownRecorded'
    BY <1>1, <1>7, ShownKept DEF ServingInv
  <1> QED
    BY <1>5, <1>6, <1>8 DEF ServingInv

\* Every claim a query answers is to be recorded.
LEMMA AnnotateKeepsInv == ServingInv /\ Annotate => ServingInv'
  <1> SUFFICES ASSUME ServingInv, Annotate PROVE ServingInv'
    OBVIOUS
  <1>1. PICK todo \in Seq(InScope(req.q)), served \in Seq(TurnsFor(req.q)) :
               req' = [at |-> "record", q |-> req.q, claims |-> req.claims, episodes |-> served,
                       budget |-> req.budget, answer |-> Range(todo), todo |-> todo]
    BY Annotating DEF ServingInv
  <1>2. Recording'
    BY <1>1 DEF Recording, Range
  <1>3. Entered' /\ Recorded' /\ Checked'
    BY <1>1 DEF Entered, Recorded, Checked
  <1>4. UNCHANGED <<ledger, shown>> /\ Remembered' = Remembered
    BY SameRemembered DEF Annotate, store
  <1>5. ShownRecorded'
    BY <1>4, ShownKept DEF ServingInv
  <1> QED
    BY <1>2, <1>3, <1>5, AnnotateTypes DEF ServingInv

\* A claim leaves the list as its row enters the ledger, or the request fails.
LEMMA RecordKeepsInv == ServingInv /\ Record => ServingInv'
  <1> SUFFICES ASSUME ServingInv, Record PROVE ServingInv'
    OBVIOUS
  <1> DEFINE c == Head(req.todo)
  <1>1. req.at = "record" /\ req.todo # <<>> /\ req.todo \in Seq(InScope(req.q)) /\ req.q \in Requests
    BY RecordFields DEF ServingInv, Record
  <1>2. shown' = shown /\ Remembered' = Remembered /\ ledger \subseteq ledger'
    BY SameRemembered DEF Record, store
  <1>3. ServingTypes'
    BY RecordTypes DEF ServingInv
  <1>4. ShownRecorded'
    BY <1>2, ShownKept DEF ServingInv
  <1>5. CASE c \notin Stored
    <2>1. req' = Idle
      BY <1>5 DEF Record
    <2> QED
      BY <1>3, <1>4, <2>1 DEF ServingInv, Entered, Recording, Recorded, Checked, Idle
  <1>6. CASE c \in Stored
    <2>1. ledger' = ledger \cup {<<Asker(req.q), c>>} /\ req' = [req EXCEPT !.todo = Tail(req.todo)]
      BY <1>6 DEF Record
    <2>2. \A d \in Range(req.todo) : d = c \/ d \in Range(Tail(req.todo))
      BY <1>1, HeadOrTail
    <2>3. /\ req'.at = req.at /\ req'.q = req.q /\ How(req') = How(req)
          /\ req'.answer = req.answer /\ req'.todo = Tail(req.todo)
      <3>1. \/ req \in QueryRecordReq(req.q, ReadClaims(req.q)) /\ req.q.door = "query"
            \/ req \in HookRecordReq(req.q)
        BY <1>1, ReqFields DEF ServingInv, ServingTypes, Idle
      <3>2. CASE req \in QueryRecordReq(req.q, ReadClaims(req.q)) /\ req.q.door = "query"
        <4>1. /\ req'.at = req.at /\ req'.q = req.q /\ req'.answer = req.answer /\ req'.todo = Tail(req.todo)
          BY <2>1, <3>2 DEF QueryRecordReq
        <4> QED
          BY <3>2, <4>1 DEF How
      <3>3. CASE req \in HookRecordReq(req.q)
        <4>1. /\ req'.at = req.at /\ req'.q = req.q /\ req'.answer = req.answer /\ req'.todo = Tail(req.todo)
              /\ req'.plain = req.plain
          BY <2>1, <3>3 DEF HookRecordReq
        <4> QED
          BY <4>1 DEF How
      <3> QED
        BY <3>1, <3>2, <3>3
    <2>4. Recording'
      <3> SUFFICES ASSUME How(req) # "grouped", NEW d \in req.answer, d \in Remembered
                   PROVE  d \in Range(req'.todo) \/ <<Asker(req.q), d>> \in ledger'
        BY <1>2, <2>3 DEF Recording, How
      <3>1. d \in Range(req.todo) \/ <<Asker(req.q), d>> \in ledger
        BY <1>1 DEF ServingInv, Recording
      <3> QED
        BY <1>2, <2>1, <2>2, <2>3, <3>1
    <2>5. Entered' /\ Recorded' /\ Checked'
      BY <1>1, <2>3 DEF Entered, Recorded, Checked
    <2> QED
      BY <1>3, <1>4, <2>4, <2>5 DEF ServingInv
  <1> QED
    BY <1>5, <1>6

\* Views are built of an answer all of which is recorded, and of a session that is
\* the tenant's own.
LEMMA CheckSharedKeepsInv == ServingInv /\ CheckShared => ServingInv'
  <1> SUFFICES ASSUME ServingInv, CheckShared PROVE ServingInv'
    OBVIOUS
  <1> DEFINE left == IF req.q.session = None \/ SharedSession(req.q) THEN <<>> ELSE Views
  <1>1. /\ req.at = "record" /\ req.todo = <<>> /\ req.q.door = "query"
        /\ req' = [at |-> "views", q |-> req.q, answer |-> req.answer, episodes |-> req.episodes,
                   told |-> {}, known |-> turns, left |-> left]
        /\ UNCHANGED <<ledger, shown, status>>
    BY DEF CheckShared, store
  <1>2. left # <<>> => ~SharedSession(req.q)
    OBVIOUS
  <1> HIDE DEF left
  <1>3. Remembered' = Remembered
    BY <1>1, SameRemembered
  <1>4. ShownRecorded'
    BY <1>1, <1>3, ShownKept DEF ServingInv
  <1>5. Entered' /\ Recording'
    BY <1>1 DEF Entered, Recording
  <1>6. Recorded'
    <2>1. How(req) # "grouped" /\ Range(req.todo) = {}
      BY <1>1 DEF How, Range
    <2> QED
      BY <1>1, <1>3, <2>1 DEF ServingInv, Recording, Recorded
  <1>7. Checked'
    BY <1>1, <1>2 DEF Checked, SharedSession
  <1> QED
    BY <1>4, <1>5, <1>6, <1>7, CheckSharedTypes DEF ServingInv

\* A view goes by the session, or by the tenant.
LEMMA BuildViewKeepsInv == ServingInv /\ BuildView => ServingInv'
  <1> SUFFICES ASSUME ServingInv, BuildView PROVE ServingInv'
    OBVIOUS
  <1> DEFINE v == Head(req.left)
             told == ToldBy(v, req.q)
  <1>1. /\ req.at = "views" /\ v \in {"world_state", "briefing", "events", "life_events", "contradictions"}
        /\ told \subseteq Claims
        /\ req' = [at |-> "views", q |-> req.q, answer |-> req.answer, episodes |-> req.episodes,
                   told |-> req.told \cup told, known |-> req.known, left |-> Tail(req.left)]
    BY BuildingView DEF ServingInv
  <1>2. req.left # <<>> /\ UNCHANGED <<ledger, shown, status>>
    BY DEF BuildView, store
  <1>3. req.q.ns # None => \A t \in req.known : SessOf[t] = req.q.session => NsOf[t] = req.q.ns
    BY <1>1, <1>2 DEF ServingInv, Checked
  <1>4. \A c \in told : SessOf[TurnOf[c]] = req.q.session \/ InNs(TurnOf[c], req.q.ns)
    BY <1>1 DEF ToldBy, InNs
  <1> HIDE DEF told, v
  <1>5. \A c \in told : TurnOf[c] \in req.known => InNs(TurnOf[c], req.q.ns)
    BY <1>3, <1>4 DEF InNs
  <1>6. Checked'
    BY <1>1, <1>3, <1>5 DEF ServingInv, Checked, InNs
  <1>7. Remembered' = Remembered
    BY <1>2, SameRemembered
  <1>8. ShownRecorded' /\ Recorded'
    BY <1>1, <1>2, <1>7, ShownKept DEF ServingInv, Recorded
  <1>9. Entered' /\ Recording'
    BY <1>1 DEF Entered, Recording
  <1> QED
    BY <1>6, <1>8, <1>9, BuildViewTypes DEF ServingInv

\* Nothing is answered before everything is recorded.
LEMMA AnswerKeepsInv == ServingInv /\ Answer => ServingInv'
  <1> SUFFICES ASSUME ServingInv, Answer PROVE ServingInv'
    OBVIOUS
  <1>1. /\ req' = Idle /\ ledger' = ledger /\ Remembered' = Remembered
        /\ shown' = shown \cup ({How(req)} \X {Asker(req.q)} \X req.answer)
    BY SameRemembered DEF Answer, store
  <1>2. ASSUME How(req) # "grouped", NEW c \in req.answer, c \in Remembered
        PROVE  <<Asker(req.q), c>> \in ledger
    <2>1. CASE req.at = "record" /\ req.todo = <<>>
      BY <1>2, <2>1 DEF ServingInv, Recording, Range
    <2>2. CASE req.at = "views"
      BY <1>2, <2>2 DEF ServingInv, Recorded
    <2> QED
      BY <2>1, <2>2, AnswerFields DEF ServingInv
  <1>3. \A e \in {How(req)} \X {Asker(req.q)} \X req.answer :
            e[1] # "grouped" /\ e[3] \in Remembered => <<e[2], e[3]>> \in ledger
    BY <1>2
  <1>4. \A e \in shown : e[1] # "grouped" /\ e[3] \in Remembered => <<e[2], e[3]>> \in ledger
    BY DEF ServingInv, ShownRecorded
  <1>5. ShownRecorded'
    BY <1>1, <1>3, <1>4 DEF ShownRecorded
  <1> QED
    BY <1>1, <1>5, AnswerTypes DEF ServingInv, Entered, Recording, Recorded, Checked, Idle

\* Of a plain answer the lines shown are of the first candidates, which are recorded.
LEMMA HookRenderKeepsInv ==
    ASSUME ServingInv, NEW n \in 1 .. MaxLines, HookRender(n)
    PROVE  ServingInv'
  <1> DEFINE E == [conflict : BOOLEAN, shows : SUBSET InScope(req.q)]
             lines == Cut(req.entries, n)
             todo == Cut(req.candidates, MaxLines)
  <1>1. /\ req.entries \in Seq(E) /\ n <= Len(req.entries) /\ n <= MaxLines
        /\ Range(lines) = {req.entries[i] : i \in 1 .. n}
        /\ todo \in Seq(InScope(req.q))
        /\ req' = [at |-> "record", q |-> req.q, answer |-> UNION {e.shows : e \in Range(lines)},
                   plain |-> ~req.repeats /\ \A e \in Range(lines) : ~e.conflict, todo |-> todo]
    BY Rendering DEF ServingInv
  <1>2. /\ req.at = "entries" /\ req.candidates \in Seq(InScope(req.q)) /\ req.q.door = "hook"
        /\ UNCHANGED <<ledger, shown>> /\ Remembered' = Remembered
    <2>1. req.at = "entries" /\ UNCHANGED <<ledger, shown>> /\ Remembered' = Remembered
      BY SameRemembered DEF HookRender, store
    <2>2. req \in EntriesReq(req.q) /\ req.q.door = "hook"
      BY <2>1, ReqFields DEF ServingInv, ServingTypes, Idle
    <2> QED
      BY <2>1, <2>2 DEF EntriesReq
  <1> HIDE DEF lines, todo, E
  <1>3. How(req') # "grouped" => ~req.repeats /\ \A e \in Range(lines) : ~e.conflict
    BY <1>1, <1>2 DEF How
  <1>4. ASSUME ~req.repeats, \A e \in Range(lines) : ~e.conflict, NEW c \in req'.answer
        PROVE  c \in Range(todo)
    <2>1. PICK j \in 1 .. n : c \in req.entries[j].shows
      BY <1>1
    <2>2. \A i \in 1 .. j : ~req.entries[i].conflict
      BY <1>1, <1>4
    <2>3. j \in 1 .. Len(req.entries)
      BY <1>1
    <2>4. j <= Len(req.candidates) /\ req.entries[j].shows = {req.candidates[j]}
      BY <1>2, <1>4, <2>2, <2>3 DEF ServingInv, Entered
    <2>5. c = req.candidates[j]
      BY <2>1, <2>4
    <2>6. /\ Len(todo) = (IF Len(req.candidates) < MaxLines THEN Len(req.candidates) ELSE MaxLines)
          /\ \A i \in 1 .. Len(todo) : todo[i] = req.candidates[i]
      BY <1>2, Cutting, TopKIsNumber DEF todo
    <2>7. j \in 1 .. Len(todo)
      <3>1. Len(req.candidates) \in Nat /\ MaxLines \in Nat /\ j \in Nat /\ j <= MaxLines /\ j >= 1
        BY <1>1, <1>2, TopKIsNumber
      <3> QED
        BY <2>4, <2>6, <3>1
    <2>8. Range(todo) = {todo[i] : i \in 1 .. Len(todo)}
      BY <1>1, RangeIsFinite
    <2> QED
      BY <2>5, <2>6, <2>7, <2>8
  <1>5. Recording'
    <2>1. req'.todo = todo
      BY <1>1
    <2> QED
      BY <1>3, <1>4, <2>1 DEF Recording, How
  <1>6. Entered' /\ Recorded' /\ Checked'
    BY <1>1 DEF Entered, Recorded, Checked
  <1>7. ShownRecorded'
    BY <1>2, ShownKept DEF ServingInv
  <1> QED
    BY <1>5, <1>6, <1>7, HookRenderTypes DEF ServingInv

\* Taking the next of the candidates that are left.
LEMMA NextLeft ==
    ASSUME NEW X, NEW all \in Seq(X), NEW left \in Seq(X), left # <<>>,
           Len(all) - Len(left) \in Nat,
           \A i \in 1 .. Len(left) : left[i] = all[(Len(all) - Len(left)) + i]
    PROVE  LET done == Len(all) - Len(left)
           IN /\ Len(all) - Len(Tail(left)) = done + 1 /\ done + 1 \in 1 .. Len(all)
              /\ Head(left) = all[done + 1]
              /\ \A i \in 1 .. Len(Tail(left)) : Tail(left)[i] = all[(done + 1) + i]
  <1>1. /\ Tail(left) \in Seq(X) /\ Len(left) \in Nat /\ Head(left) = left[1] /\ Len(all) \in Nat
        /\ Len(Tail(left)) = Len(left) - 1 /\ \A i \in 1 .. Len(Tail(left)) : Tail(left)[i] = left[i + 1]
    BY HeadTailProperties
  <1>2. Len(left) >= 1
    BY <1>1
  <1>3. \A i \in 1 .. Len(Tail(left)) : i + 1 \in 1 .. Len(left)
    BY <1>1
  <1>4. \A i \in 1 .. Len(Tail(left)) : Tail(left)[i] = all[(Len(all) - Len(left)) + (i + 1)]
    BY <1>1, <1>3
  <1> QED
    BY <1>1, <1>2, <1>4

\* The next candidate is the next entry, unless it is passed over.
LEMMA HookEntryKeepsInv == ServingInv /\ HookEntry => ServingInv'
  <1> SUFFICES ASSUME ServingInv, HookEntry PROVE ServingInv'
    OBVIOUS
  <1> DEFINE E == [conflict : BOOLEAN, shows : SUBSET InScope(req.q)]
             c == Head(req.left)
             all == req.candidates
             left == Tail(req.left)
             done == Len(all) - Len(req.left)
             es == req.entries
  <1>1. /\ req.at = "entries" /\ req.left # <<>> /\ req \in EntriesReq(req.q)
        /\ UNCHANGED <<ledger, shown>> /\ Remembered' = Remembered
    <2>1. req.at = "entries" /\ req.left # <<>> /\ UNCHANGED <<ledger, shown>> /\ Remembered' = Remembered
      BY SameRemembered DEF HookEntry, store
    <2>2. req \in EntriesReq(req.q)
      BY <2>1, ReqFields DEF ServingInv, ServingTypes, Idle
    <2> QED
      BY <2>1, <2>2
  <1>2. /\ all \in Seq(InScope(req.q)) /\ req.left \in Seq(InScope(req.q)) /\ es \in Seq(E)
        /\ req.consumed \subseteq InScope(req.q)
    BY <1>1 DEF EntriesReq
  <1>3. /\ done \in Nat /\ \A i \in 1 .. Len(req.left) : req.left[i] = all[done + i]
        /\ ~req.repeats =>
              /\ (\A i \in 1 .. Len(es) : ~es[i].conflict) => Len(es) = done /\ req.consumed = {}
              /\ \A j \in 1 .. Len(es) : (\A i \in 1 .. j : ~es[i].conflict) =>
                     j <= Len(all) /\ es[j].shows = {all[j]}
    BY <1>1 DEF ServingInv, Entered
  <1>4. /\ Len(all) - Len(left) = done + 1 /\ done + 1 \in 1 .. Len(all) /\ c = all[done + 1]
        /\ \A i \in 1 .. Len(left) : left[i] = all[(done + 1) + i]
    <2> DEFINE l == req.left
    <2>1. l # <<>> /\ l \in Seq(InScope(req.q)) /\ left = Tail(l) /\ c = Head(l) /\ done = Len(all) - Len(l)
          /\ \A i \in 1 .. Len(l) : l[i] = all[(Len(all) - Len(l)) + i]
      BY <1>1, <1>2, <1>3
    <2> HIDE DEF l, left, c, all, done
    <2> QED
      BY <1>2, <1>3, <2>1, NextLeft
  <1>5. done + 1 \in Nat /\ Len(es) \in Nat /\ Len(all) \in Nat
    BY <1>2, <1>3
  <1>6. ASSUME NEW consumed, NEW entries, NEW repeats,
               req' = [req EXCEPT !.left = left, !.consumed = consumed, !.entries = entries, !.repeats = repeats],
               ~repeats =>
                 /\ (\A i \in 1 .. Len(entries) : ~entries[i].conflict) => Len(entries) = done + 1 /\ consumed = {}
                 /\ \A j \in 1 .. Len(entries) : (\A i \in 1 .. j : ~entries[i].conflict) =>
                        j <= Len(all) /\ entries[j].shows = {all[j]}
        PROVE  Entered'
    <2>1. /\ req'.candidates = all /\ req'.left = left /\ req'.consumed = consumed
          /\ req'.entries = entries /\ req'.repeats = repeats
      BY <1>1, <1>6 DEF EntriesReq
    <2> HIDE DEF all, left, done
    <2>2. Len(req'.candidates) - Len(req'.left) = done + 1
      BY <1>4, <2>1
    <2> QED
      BY <1>4, <1>5, <1>6, <2>1, <2>2 DEF Entered
  <1>7. ASSUME NEW e \in E
        PROVE  /\ Append(es, e) \in Seq(E) /\ Len(Append(es, e)) = Len(es) + 1
               /\ \A i \in 1 .. Len(es) : Append(es, e)[i] = es[i]
               /\ Append(es, e)[Len(es) + 1] = e
    BY <1>2, AppendProperties
  <1>8. Entered'
    <2>1. CASE req' = [req EXCEPT !.left = left] /\ c \in req.consumed
      <3>1. req' = [req EXCEPT !.left = left, !.consumed = req.consumed, !.entries = es, !.repeats = req.repeats]
        BY <1>1, <2>1 DEF EntriesReq
      <3>2. ~req.repeats => ~\A i \in 1 .. Len(es) : ~es[i].conflict
        BY <1>3, <2>1
      <3> HIDE DEF all, left, done, es, c
      <3> QED
        BY <1>3, <1>6, <3>1, <3>2
    <2>2. CASE req' = [req EXCEPT !.left = left, !.repeats = TRUE]
      <3>1. req' = [req EXCEPT !.left = left, !.consumed = req.consumed, !.entries = es, !.repeats = TRUE]
        BY <1>1, <2>2 DEF EntriesReq
      <3> HIDE DEF all, left, done, es, c
      <3> QED
        BY <1>6, <3>1
    <2>3. CASE /\ c \notin req.consumed
               /\ req' = [req EXCEPT !.left = left, !.entries = Append(es, [conflict |-> FALSE, shows |-> {c}])]
      <3> DEFINE e == [conflict |-> FALSE, shows |-> {c}]
                 more == Append(es, e)
      <3>1. e \in E /\ ~e.conflict /\ e.shows = {c}
        <4>1. c \in InScope(req.q)
          BY <1>1, <1>2, HeadTailProperties
        <4> QED
          BY <4>1
      <3>2. req' = [req EXCEPT !.left = left, !.consumed = req.consumed, !.entries = more, !.repeats = req.repeats]
        BY <1>1, <2>3 DEF EntriesReq
      <3> HIDE DEF all, left, done, es, c, e, E
      <3>3. /\ Len(more) = Len(es) + 1 /\ \A i \in 1 .. Len(es) : more[i] = es[i]
            /\ more[Len(es) + 1] = e
        BY <1>7, <3>1
      <3> HIDE DEF more
      <3>4. ASSUME ~req.repeats, NEW j \in 1 .. Len(more), \A i \in 1 .. j : ~more[i].conflict
            PROVE  /\ j <= Len(all) /\ more[j].shows = {all[j]}
                   /\ j = Len(more) => Len(more) = done + 1 /\ req.consumed = {}
        <4>1. CASE j <= Len(es)
          <5>1. \A i \in 1 .. j : ~es[i].conflict
            BY <1>5, <3>3, <3>4, <4>1
          <5> QED
            BY <1>3, <1>5, <3>3, <3>4, <4>1, <5>1
        <4>2. CASE j = Len(es) + 1
          <5>1. \A i \in 1 .. Len(es) : ~es[i].conflict
            BY <1>5, <3>3, <3>4, <4>2
          <5>2. Len(es) = done /\ req.consumed = {}
            BY <1>3, <3>4, <5>1
          <5>3. more[j].shows = {c} /\ j = done + 1
            BY <3>1, <3>3, <4>2, <5>2
          <5> QED
            BY <1>4, <3>3, <5>2, <5>3
        <4> QED
          BY <1>5, <3>3, <4>1, <4>2
      <3>5. Len(more) \in 1 .. Len(more)
        BY <1>5, <3>3
      <3>6. ~req.repeats =>
               /\ (\A i \in 1 .. Len(more) : ~more[i].conflict) => Len(more) = done + 1 /\ req.consumed = {}
               /\ \A j \in 1 .. Len(more) : (\A i \in 1 .. j : ~more[i].conflict) =>
                      j <= Len(all) /\ more[j].shows = {all[j]}
        BY <3>4, <3>5
      <3> QED
        BY <1>6, <3>2, <3>6
    <2>4. ASSUME NEW S \in SUBSET InScope(req.q),
                 req' = [req EXCEPT !.left = left,
                                    !.consumed = req.consumed \cup LiveAlike(c, req.q.ns),
                                    !.entries = Append(es, [conflict |-> TRUE, shows |-> S])]
          PROVE  Entered'
      <3> DEFINE e == [conflict |-> TRUE, shows |-> S]
                 more == Append(es, e)
                 consumed == req.consumed \cup LiveAlike(c, req.q.ns)
      <3>1. e \in E /\ e.conflict
        OBVIOUS
      <3> HIDE DEF consumed
      <3>2. req' = [req EXCEPT !.left = left, !.consumed = consumed, !.entries = more, !.repeats = req.repeats]
        BY <1>1, <2>4 DEF EntriesReq, consumed
      <3> HIDE DEF all, left, done, es, c, e, E
      <3>3. /\ Len(more) = Len(es) + 1 /\ \A i \in 1 .. Len(es) : more[i] = es[i]
            /\ more[Len(es) + 1] = e
        BY <1>7, <3>1
      <3> HIDE DEF more
      <3>4. ASSUME ~req.repeats, NEW j \in 1 .. Len(more), \A i \in 1 .. j : ~more[i].conflict
            PROVE  j # Len(more) /\ j <= Len(all) /\ more[j].shows = {all[j]}
        <4>1. j \in 1 .. Len(es) /\ j # Len(more)
          BY <1>5, <3>1, <3>3, <3>4
        <4>2. \A i \in 1 .. j : ~es[i].conflict
          BY <1>5, <3>3, <3>4, <4>1
        <4> QED
          BY <1>3, <3>3, <3>4, <4>1, <4>2
      <3>5. Len(more) \in 1 .. Len(more)
        BY <1>5, <3>3
      <3>6. ~req.repeats =>
               /\ (\A i \in 1 .. Len(more) : ~more[i].conflict) => Len(more) = done + 1 /\ consumed = {}
               /\ \A j \in 1 .. Len(more) : (\A i \in 1 .. j : ~more[i].conflict) =>
                      j <= Len(all) /\ more[j].shows = {all[j]}
        BY <3>4, <3>5
      <3> QED
        BY <1>6, <3>2, <3>6
    <2> QED
      BY <2>1, <2>2, <2>3, <2>4, HookEntering DEF ServingInv
  <1>9. req'.at = "entries"
    <2>1. (req \in EntriesReq(req.q))' \/ req'.at = "entries"
      BY <1>1, HookEntering DEF ServingInv, EntriesReq
    <2> QED
      BY <2>1 DEF EntriesReq
  <1>10. Recording' /\ Recorded' /\ Checked'
    BY <1>9 DEF Recording, Recorded, Checked
  <1>11. ShownRecorded'
    BY <1>1, ShownKept DEF ServingInv
  <1> QED
    BY <1>8, <1>10, <1>11, HookEntryTypes DEF ServingInv

\* The invariant outlasts every step.
LEMMA ServingInvStep == ServingInv /\ ServingStep => ServingInv'
  <1> SUFFICES ASSUME ServingInv, ServingStep PROVE ServingInv'
    OBVIOUS
  <1>1. ServingTypes'
    BY ServingTypeStep DEF ServingInv
  <1>2. CASE Quiet
    <2>1. UNCHANGED <<status, ledger, shown, req>>
      BY <1>2 DEF Quiet, store
    <2> QED
      BY <1>1, <2>1, QuietKeepsInv
  <1>3. CASE Ends
    <2>1. UNCHANGED <<store, ledger, shown>> /\ req'.at \notin {"entries", "record", "views"}
      BY <1>3 DEF Ends, Idle
    <2> QED
      BY <1>1, <2>1, ElsewhereKept
  <1>4. ASSUME NEW q \in Requests, Begin(q) PROVE ServingInv'
    <2>1. UNCHANGED <<store, ledger, shown>> /\ req'.at \notin {"entries", "record", "views"}
      BY <1>4 DEF Begin, Open, Idle
    <2> QED
      BY <1>1, <2>1, ElsewhereKept
  <1>5. ASSUME NEW q \in Requests, HookRank(q) PROVE ServingInv'
    BY <1>1, <1>5, HookRankKeepsInv
  <1>6. CASE RankFacts
    <2>1. UNCHANGED <<store, ledger, shown>> /\ req'.at \notin {"entries", "record", "views"}
      BY <1>6 DEF RankFacts
    <2> QED
      BY <1>1, <2>1, ElsewhereKept
  <1>7. CASE RankEpisodes
    <2>1. UNCHANGED <<store, ledger, shown>> /\ req'.at \notin {"entries", "record", "views"}
      BY <1>7 DEF RankEpisodes
    <2> QED
      BY <1>1, <2>1, ElsewhereKept
  <1>8. CASE PackContext
    <2>1. UNCHANGED <<store, ledger, shown>> /\ req'.at \notin {"entries", "record", "views"}
      BY <1>8 DEF PackContext
    <2> QED
      BY <1>1, <2>1, ElsewhereKept
  <1>9. CASE Select
    <2>1. UNCHANGED <<store, ledger, shown>> /\ req'.at \notin {"entries", "record", "views"}
      BY <1>9 DEF Select
    <2> QED
      BY <1>1, <2>1, ElsewhereKept
  <1>10. CASE Fetch
    <2>1. UNCHANGED <<store, ledger, shown>>
      BY <1>10 DEF Fetch
    <2>2. req'.at = "fetch"
      <3>1. req.at = "fetch" /\ req \in FetchReq(req.q, Rankable(req.q), ReadClaims(req.q))
        BY <1>10, ReqFields DEF Fetch, ServingInv, ServingTypes, Idle
      <3> QED
        BY <1>10, <3>1 DEF Fetch, FetchReq
    <2> QED
      BY <1>1, <2>1, <2>2, ElsewhereKept
  <1>11. ASSUME NEW n \in 1 .. MaxLines, HookRender(n) PROVE ServingInv'
    BY <1>11, HookRenderKeepsInv
  <1>12. ASSUME NEW t \in Turns, Keeps(t) PROVE ServingInv'
    <2>1. UNCHANGED <<status, ledger, shown, req>>
      BY <1>12 DEF Keeps
    <2> QED
      BY <1>1, <2>1, QuietKeepsInv
  <1> QED
    BY <1>2, <1>3, <1>4, <1>5, <1>6, <1>7, <1>8, <1>9, <1>10, <1>11, <1>12,
       AnnotateKeepsInv, HookEntryKeepsInv, RecordKeepsInv, CheckSharedKeepsInv, BuildViewKeepsInv,
       AnswerKeepsInv, OthersKeepInv
       DEF ServingStep, RequestStep

\* The invariant holds at first.
LEMMA ServingInvInit == Init => ServingInv
  <1> SUFFICES ASSUME Init PROVE ServingInv
    OBVIOUS
  <1>1. ServingTypes
    BY ServingTypesHold
  <1> QED
    BY <1>1 DEF Init, ServingInv, Entered, Recording, Recorded, ShownRecorded, Checked, Idle

-----------------------------------------------------------------------------
(* What the requests guarantee                                            *)

\* At every moment what is to be answered is recorded, still to be recorded or
\* forgotten, and the hook's entries follow the order of its candidates.
THEOREM ServingInvHolds == HttpSpec => []ServingInv
  <1>1. HttpInit => ServingInv
    BY ServingInvInit DEF HttpInit
  <1>2. ServingInv /\ [HttpNext]_allvars => ServingInv'
    BY ServingInvStep, HttpStepsServe
  <1> QED
    BY <1>1, <1>2, PTL DEF HttpSpec

\* The types of the store, the ledger and the request under way, whoever calls.
THEOREM ServingTypeCorrect == HttpSpec => []TypeOK
  <1>1. ServingInv => TypeOK
    <2> SUFFICES ASSUME ServingInv PROVE TypeOK
      OBVIOUS
    <2>1. req.at \in Stages
      BY ReqFields DEF ServingInv, ServingTypes
    <2> QED
      BY <2>1 DEF ServingInv, ServingTypes, StoreTypes, TypeOK, Statuses
  <1> QED
    BY <1>1, ServingInvHolds, PTL

\* Whatever memory_query or the prompt hook ever answered, memory_verify confirms
\* while the claim exists: the rows of serve_events are written before the answer.
THEOREM ShownVerifiesHolds == HttpSpec => []ShownVerifies
  <1>1. ServingInv => ShownVerifies
    BY RecordedVerifies DEF ServingInv
  <1> QED
    BY <1>1, ServingInvHolds, PTL

\* A question about the present is answered, and a working context packed, with
\* facts that were current at some time since it began, however the statements of
\* memory_query and those of another process interleave.
THEOREM CurrentUnlessOvertakenHolds == HttpSpec => []CurrentUnlessOvertaken
  <1>1. ServingInv => CurrentUnlessOvertaken
    <2> SUFFICES ASSUME ServingInv PROVE CurrentUnlessOvertaken
      OBVIOUS
    <2>1. ASSUME req.at = "record", req.q.door = "query", ~req.q.history, NEW i \in DOMAIN req.claims
          PROVE  req.claims[i][2] = "live" \/ <<"claim", req.claims[i][1]>> \in overtaken
      <3>1. req \in QueryRecordReq(req.q, ReadClaims(req.q))
        BY <2>1, ReqFields DEF ServingInv, ServingTypes, Idle
      <3>2. req.claims \in Seq(ReadClaims(req.q))
        BY <3>1 DEF QueryRecordReq
      <3>3. req.claims[i] \in ReadClaims(req.q)
        BY <2>1, <3>2
      <3> QED
        BY <2>1, <3>3 DEF ReadClaims, Overtaken
    <2>2. ASSUME req.at = "packed", ~req.q.history, NEW h \in Range(req.facts), h.kind = "fact"
          PROVE  h.id \in Live \/ <<"claim", h.id>> \in overtaken
      <3>1. req.facts \in Seq(HitsOf(Rankable(req.q), TurnsFor(req.q)))
        BY <2>2, ReqFields DEF ServingInv, ServingTypes, PackedReq
      <3>2. h \in HitsOf(Rankable(req.q), TurnsFor(req.q))
        BY <2>2, <3>1, RangeIsFinite
      <3>3. h.id \in Rankable(req.q)
        BY <2>2, <3>2 DEF HitsOf
      <3> QED
        BY <2>2, <3>3 DEF Rankable, Overtaken
    <2> QED
      BY <2>1, <2>2 DEF CurrentUnlessOvertaken
  <1> QED
    BY <1>1, ServingInvHolds, PTL

\* select_by_memory within one session, or across those a query searches.
LEMMA SelectWastesNoSlot ==
    ASSUME ServingTypes, Select, Slots(req'.hits) < req'.budget, NEW p \in Range(req.pools)
    PROVE  Memories(IF req.q.session = None THEN FuseMemory(p) ELSE Fused(p)) \subseteq Memories(req'.hits)
  <1> DEFINE C == Rankable(req.q)
             T == TurnsFor(req.q)
  <1>1. /\ req.at = "select"
        /\ req'.hits = IF req.q.session = None THEN Across(req.pools) ELSE FuseMemory(req.pools[1])
        /\ req'.budget = IF req.q.session = None THEN AcrossBudget(req.pools) ELSE TopK
    BY DEF Select
  <1>2. /\ C \subseteq Claims /\ T \subseteq Turns /\ req.pools \in Seq(PoolsOf(C, T))
        /\ req.pools[1] \in PoolsOf(C, T)
        /\ req.q.session # None => Range(req.pools) = {req.pools[1]}
    BY <1>1, SelectFrom
  <1> HIDE DEF C, T
  <1>3. CASE req.q.session = None
    BY <1>1, <1>2, <1>3, MergingSessions
  <1>4. CASE req.q.session # None
    <2>1. p = req.pools[1] /\ Fused(p) \in Seq(Hits)
      BY <1>2, <1>4, Fusing
    <2>2. req'.hits = SelectByMemory(Fused(p), TopK) /\ req'.budget = TopK /\ TopK \in Nat
      BY <1>1, <1>4, <2>1, TopKIsNumber DEF FuseMemory
    <2> QED
      BY <1>4, <2>1, <2>2, SlotsAreFilled
  <1> QED
    BY <1>3, <1>4

\* build_working_context passes over only what its budget has no room for.
LEMMA ContextKeepsBudget ==
    ASSUME ServingTypes, PackContext
    PROVE  /\ TokensUsed(req'.facts) <= TokenBudget
           /\ \A h \in Range(req'.hits) \ Range(req'.facts) :
                  TokensUsed(req'.facts) + Toks[h.kind][h.id] > TokenBudget
  <1> DEFINE hits == FuseMemory(req.pools[1])
  <1>1. req.at = "select" /\ req'.hits = hits /\ req'.facts = Packed(hits)
    BY DEF PackContext
  <1>2. hits \in Seq(Hits)
    BY <1>1, SelectFrom, Fusing
  <1> HIDE DEF hits
  <1> QED
    BY <1>1, <1>2, Packing DEF TokensOf

\* No selection leaves a slot empty that a memory could take, and no working
\* context exceeds its tokens or leaves out what it had room for.
THEOREM NoSlotWastedHolds == HttpSpec => NoSlotWasted
  <1>1. ServingInv =>
          /\ Select /\ Slots(req'.hits) < req'.budget =>
               \A p \in Range(req.pools) :
                   Memories(IF req.q.session = None THEN FuseMemory(p) ELSE Fused(p))
                       \subseteq Memories(req'.hits)
          /\ PackContext =>
               /\ TokensUsed(req'.facts) <= TokenBudget
               /\ \A h \in Range(req'.hits) \ Range(req'.facts) :
                      TokensUsed(req'.facts) + Toks[h.kind][h.id] > TokenBudget
    BY SelectWastesNoSlot, ContextKeepsBudget DEF ServingInv
  <1> QED
    BY <1>1, ServingInvHolds, PTL DEF NoSlotWasted

\* retrieve_across_sessions serves the best hits of every session, unless the
\* ceiling cuts them.
THEOREM EverySessionHeardHolds == HttpSpec => EverySessionHeard
  <1>1. ServingInv => (Select => \/ req.q.session # None
                                 \/ Cardinality(Kept(req.pools)) > MaxAcrossHits
                                 \/ \A p \in Range(req.pools) :
                                      Range(Cut(Fused(p), Min({TopK, PerSessionK}))) \subseteq Range(req'.hits))
    <2> SUFFICES ASSUME ServingInv, Select, req.q.session = None,
                        ~(Cardinality(Kept(req.pools)) > MaxAcrossHits), NEW p \in Range(req.pools)
                 PROVE  Range(Cut(Fused(p), Min({TopK, PerSessionK}))) \subseteq Range(req'.hits)
      OBVIOUS
    <2> DEFINE C == Rankable(req.q)
               T == TurnsFor(req.q)
    <2>1. req.at = "select" /\ req'.hits = Across(req.pools)
      BY DEF Select
    <2>2. C \subseteq Claims /\ T \subseteq Turns /\ req.pools \in Seq(PoolsOf(C, T))
      BY <2>1, SelectFrom DEF ServingInv
    <2> HIDE DEF C, T
    <2>3. p \in PoolsOf(C, T)
      BY <2>2, RangeIsFinite
    <2>4. KeptOf(p) \subseteq Kept(req.pools)
      BY <2>2, KeepingHits
    <2>5. Cardinality(Kept(req.pools)) <= MaxAcrossHits
      <3>1. Cardinality(Kept(req.pools)) \in Nat
        BY <2>2, KeepingHits, FS_CardinalityType
      <3> QED
        BY <3>1, RetrievalAssumption
    <2>6. Kept(req.pools) \subseteq Range(req'.hits)
      BY <2>1, <2>2, <2>5, MergingSessions
    <2>7. Range(Cut(Fused(p), Min({TopK, PerSessionK}))) \subseteq KeptOf(p)
      BY <2>2, <2>3, ReservingTheBest
    <2> QED
      BY <2>4, <2>6, <2>7
  <1> QED
    BY <1>1, ServingInvHolds, PTL DEF EverySessionHeard

-----------------------------------------------------------------------------
(* Who may see what                                                       *)

Inside == {"admitted", "serving", "tracing", "discovering", "storing"}

\* Until a call is admitted, what its token gives access to now is among what
\* it gave access to while the call lasted.
Asking ==
    call.at \in {"arrived", "resolve"} =>
        /\ call = [at |-> call.at, token |-> call.token, path |-> call.path, claim |-> call.claim,
                   had |-> call.had, answer |-> {}]
        /\ call.token \in Tokens
        /\ ScopesOf(call.token, principals) \subseteq call.had

\* An admitted call keeps to a scope its token had, whatever is granted since.
Admitted ==
    call.at \in Inside =>
        /\ call = [at |-> call.at, path |-> call.path, scope |-> call.scope, token |-> call.token,
                   had |-> call.had, answer |-> call.answer, claim |-> call.claim]
        /\ call.scope \in call.had /\ MayEnter(call.path, call.scope)
        /\ \A t \in call.answer : InNs(t, call.scope.ns)

\* What it asks of the memory keeps to the same scope.
AsksInScope ==
    /\ call.at = "serving" => /\ req.q.ns = call.scope.ns
                              /\ req.q.door = "context" => call.path = "mcp"
                              /\ call.path = "prompt" => req.q.door = "hook"
    /\ call.at = "tracing" => InNs(TurnOf[call.claim], call.scope.ns)
    /\ call.at = "discovering" => call.path = "discover"
    /\ call.at = "storing" => call.path \in Storing

ScopeInv ==
    /\ call.at \in {"done", "arrived", "resolve"} \cup Inside
    /\ call.at = "done" => call = [at |-> "done", had |-> call.had, answer |-> call.answer,
                                   unchecked |-> call.unchecked]
    /\ Asking /\ Admitted /\ AsksInScope /\ AnsweredInScope

\* At first no call is under way.
LEMMA ScopeInvInit == HttpInit => ScopeInv
  BY DEF HttpInit, NoCall, ScopeInv, Asking, Admitted, AsksInScope, AnsweredInScope, Inside

\* A call that ends says nothing, or what lies in the scope it was admitted with,
\* but for what no check is made of.
LEMMA EndKeepsScope ==
    ASSUME ScopeInv, NEW answer, NEW unchecked, call' = DoneBut(answer, unchecked),
           \/ answer = {}
           \/ call.at \in Inside /\ \A t \in answer : InNs(t, call.scope.ns) \/ t \in unchecked
    PROVE  ScopeInv'
  <1>1. call' = [at |-> "done", had |-> call.had, answer |-> answer, unchecked |-> unchecked]
    BY DEF DoneBut
  <1>2. AnsweredInScope'
    <2>1. CASE answer = {}
      BY <1>1, <2>1 DEF AnsweredInScope
    <2>2. CASE call.at \in Inside /\ \A t \in answer : InNs(t, call.scope.ns) \/ t \in unchecked
      <3>1. call.scope \in call.had
        BY <2>2 DEF ScopeInv, Admitted
      <3> QED
        BY <1>1, <2>2, <3>1 DEF AnsweredInScope, InNs
    <2> QED
      BY <2>1, <2>2
  <1> QED
    BY <1>1, <1>2 DEF ScopeInv, Asking, Admitted, AsksInScope, Inside

\* Where a check is made of all it says, all of it lies in the scope.
LEMMA DoneKeepsScope ==
    ASSUME ScopeInv, NEW answer, call' = Done(answer),
           \/ answer = {}
           \/ call.at \in Inside /\ \A t \in answer : InNs(t, call.scope.ns)
    PROVE  ScopeInv'
  <1>1. call' = DoneBut(answer, {})
    BY DEF Done
  <1> QED
    BY <1>1, EndKeepsScope

\* A step that leaves the call and the principals alone.
LEMMA CallKeepsScope ==
    ASSUME ScopeInv, UNCHANGED <<principals, call>>,
           call.at = "serving" => req'.q = req.q
    PROVE  ScopeInv'
  <1>1. Asking' /\ Admitted' /\ AnsweredInScope'
    BY DEF ScopeInv, Asking, Admitted, AnsweredInScope, InNs, MayEnter, ScopesOf, Registered
  <1>2. AsksInScope'
    BY DEF ScopeInv, AsksInScope, InNs
  <1> QED
    BY <1>1, <1>2 DEF ScopeInv

\* A step that moves an admitted call on to its next stage.
LEMMA MovingOn ==
    ASSUME ScopeInv, call.at \in Inside, NEW at \in Inside, NEW answer, NEW claim,
           call' = [call EXCEPT !.at = at, !.answer = answer, !.claim = claim],
           \A t \in answer : InNs(t, call.scope.ns),
           AsksInScope'
    PROVE  ScopeInv'
  <1>1. /\ call = [at |-> call.at, path |-> call.path, scope |-> call.scope, token |-> call.token,
                   had |-> call.had, answer |-> call.answer, claim |-> call.claim]
        /\ call.scope \in call.had /\ MayEnter(call.path, call.scope)
    BY DEF ScopeInv, Admitted
  <1>2. call' = [at |-> at, path |-> call.path, scope |-> call.scope, token |-> call.token,
                 had |-> call.had, answer |-> answer, claim |-> claim]
    BY <1>1
  <1>3. /\ call'.at = at /\ call'.path = call.path /\ call'.scope = call.scope /\ call'.token = call.token
        /\ call'.had = call.had /\ call'.answer = answer /\ call'.claim = claim
    BY <1>2
  <1>4. Admitted'
    BY <1>1, <1>2, <1>3 DEF Admitted, MayEnter, InNs
  <1>5. AnsweredInScope'
    BY <1>1, <1>3 DEF AnsweredInScope, InNs
  <1>6. at \notin {"done", "arrived", "resolve"}
    BY DEF Inside
  <1>7. Asking'
    BY <1>3, <1>6 DEF Asking
  <1> QED
    BY <1>3, <1>4, <1>5, <1>6, <1>7 DEF ScopeInv, Inside

\* A call enters with a scope its token has.
LEMMA EnterKeepsScope ==
    ASSUME ScopeInv, call.at \in {"arrived", "resolve"}, NEW s \in call.had, Enter(s)
    PROVE  ScopeInv'
  <1>1. CASE MayEnter(call.path, s)
    <2>1. call' = [at |-> "admitted", path |-> call.path, scope |-> s, token |-> call.token,
                   had |-> call.had, answer |-> {}, claim |-> 0]
      BY <1>1 DEF Enter
    <2>2. /\ call'.at = "admitted" /\ call'.path = call.path /\ call'.scope = s /\ call'.token = call.token
          /\ call'.had = call.had /\ call'.answer = {} /\ call'.claim = 0
      BY <2>1
    <2>3. Admitted'
      BY <1>1, <2>1, <2>2 DEF Admitted, MayEnter
    <2> QED
      BY <2>2, <2>3 DEF ScopeInv, Asking, AsksInScope, AnsweredInScope, Inside
  <1>2. CASE ~MayEnter(call.path, s)
    BY <1>2, DoneKeepsScope DEF Enter
  <1> QED
    BY <1>1, <1>2

-----------------------------------------------------------------------------
(* The steps of a call                                                    *)

\* Changing only the stage of an admitted call.
LEMMA NextStage ==
    ASSUME ScopeInv, call.at \in Inside, NEW at \in Inside, call' = [call EXCEPT !.at = at], AsksInScope'
    PROVE  ScopeInv'
  <1>1. /\ call = [at |-> call.at, path |-> call.path, scope |-> call.scope, token |-> call.token,
                   had |-> call.had, answer |-> call.answer, claim |-> call.claim]
        /\ \A t \in call.answer : InNs(t, call.scope.ns)
    BY DEF ScopeInv, Admitted
  <1> DEFINE answer == call.answer
             claim == call.claim
  <1>2. call' = [call EXCEPT !.at = at, !.answer = answer, !.claim = claim]
    BY <1>1
  <1>3. \A t \in answer : InNs(t, call.scope.ns)
    BY <1>1
  <1> HIDE DEF answer, claim
  <1> QED
    BY <1>2, <1>3, MovingOn

\* What the stage of an admitted call leaves of it.
LEMMA CallFields ==
    ASSUME ScopeInv, call.at \in Inside, NEW at, call' = [call EXCEPT !.at = at]
    PROVE  /\ call'.at = at /\ call'.path = call.path /\ call'.scope = call.scope /\ call'.claim = call.claim
           /\ call'.had = call.had /\ call'.answer = call.answer
  <1>1. call = [at |-> call.at, path |-> call.path, scope |-> call.scope, token |-> call.token,
                had |-> call.had, answer |-> call.answer, claim |-> call.claim]
    BY DEF ScopeInv, Admitted
  <1> QED
    BY <1>1

\* A call arrives with what its token gives access to then.
LEMMA ArriveKeepsScope ==
    ASSUME ScopeInv, NEW c \in Calls, Arrive(c)
    PROVE  ScopeInv'
  <1>1. /\ call' = [at |-> "arrived", token |-> c.token, path |-> c.path, claim |-> 0,
                    had |-> ScopesOf(c.token, principals), answer |-> {}]
        /\ principals' = principals /\ c.token \in Tokens
    BY HttpAssumption DEF Arrive
  <1>2. /\ call'.at = "arrived" /\ call'.token = c.token /\ call'.path = c.path /\ call'.claim = 0
        /\ call'.had = ScopesOf(c.token, principals) /\ call'.answer = {}
    BY <1>1
  <1>3. Asking'
    BY <1>1, <1>2 DEF Asking
  <1> QED
    BY <1>2, <1>3 DEF ScopeInv, Admitted, AsksInScope, AnsweredInScope, Inside

\* any_principals and the principal are read in two statements, between which
\* the token may be granted another scope: it is one the call had.
LEMMA ResolvingKeepsScope == ScopeInv /\ (AnyPrincipals \/ ResolvePrincipal) => ScopeInv'
  <1>1. ASSUME ScopeInv, AnyPrincipals PROVE ScopeInv'
    <2>1. /\ call.at = "arrived" /\ principals' = principals
          /\ call = [at |-> call.at, token |-> call.token, path |-> call.path, claim |-> call.claim,
                     had |-> call.had, answer |-> {}]
          /\ call.token \in Tokens /\ ScopesOf(call.token, principals) \subseteq call.had
      BY <1>1 DEF AnyPrincipals, ScopeInv, Asking
    <2>2. CASE Registered(principals) # {}
      <3>1. call' = [call EXCEPT !.at = "resolve"]
        BY <1>1, <2>2 DEF AnyPrincipals
      <3>2. call' = [at |-> "resolve", token |-> call.token, path |-> call.path, claim |-> call.claim,
                     had |-> call.had, answer |-> {}]
        BY <2>1, <3>1
      <3>3. /\ call'.at = "resolve" /\ call'.token = call.token /\ call'.path = call.path
            /\ call'.claim = call.claim /\ call'.had = call.had /\ call'.answer = {}
        BY <3>2
      <3>4. Asking'
        BY <2>1, <3>2, <3>3 DEF Asking
      <3> QED
        BY <3>3, <3>4 DEF ScopeInv, Admitted, AsksInScope, AnsweredInScope, Inside
    <2>3. CASE Registered(principals) = {} /\ call.token = OwnToken
      <3>1. Whole \in call.had
        BY <2>1, <2>3 DEF ScopesOf
      <3>2. Enter(Whole)
        BY <1>1, <2>3 DEF AnyPrincipals
      <3> QED
        BY <1>1, <2>1, <3>1, <3>2, EnterKeepsScope
    <2>4. CASE Registered(principals) = {} /\ call.token # OwnToken
      <3>1. call' = Done({})
        BY <1>1, <2>4 DEF AnyPrincipals
      <3> QED
        BY <1>1, <3>1, DoneKeepsScope
    <2> QED
      BY <2>2, <2>3, <2>4
  <1>2. ASSUME ScopeInv, ResolvePrincipal PROVE ScopeInv'
    <2>1. /\ call.at = "resolve" /\ call.token \in Tokens /\ ScopesOf(call.token, principals) \subseteq call.had
      BY <1>2 DEF ResolvePrincipal, ScopeInv, Asking
    <2>2. CASE principals[call.token] = None
      <3>1. call' = Done({})
        BY <1>2, <2>2 DEF ResolvePrincipal
      <3> QED
        BY <1>2, <3>1, DoneKeepsScope
    <2>3. CASE principals[call.token] # None
      <3>1. principals[call.token] \in call.had
        BY <2>1, <2>3 DEF ScopesOf, Registered
      <3>2. Enter(principals[call.token])
        BY <1>2, <2>3 DEF ResolvePrincipal
      <3> QED
        BY <1>2, <2>1, <3>1, <3>2, EnterKeepsScope
    <2> QED
      BY <2>2, <2>3
  <1> QED
    BY <1>1, <1>2

\* A grant adds to what the call under way had.
LEMMA GrantKeepsScope ==
    ASSUME ScopeInv, NEW k, NEW s, Grant(k, s)
    PROVE  ScopeInv'
  <1>1. /\ call' = IF call.at = "done" THEN call
                   ELSE [call EXCEPT !.had = @ \cup ScopesOf(call.token, principals')]
        /\ UNCHANGED req /\ Stored' = Stored
    BY DEF Grant, store, Stored
  <1>2. CASE call.at = "done"
    BY <1>1, <1>2 DEF ScopeInv, Asking, Admitted, AsksInScope, AnsweredInScope, InNs, Inside
  <1>3. CASE call.at # "done"
    <2> DEFINE had == call.had \cup ScopesOf(call.token, principals')
    <2>1. call' = [call EXCEPT !.had = had]
      <3>1. call' = [call EXCEPT !.had = @ \cup ScopesOf(call.token, principals')]
        BY <1>1, <1>3
      <3> QED
        BY <3>1
    <2>2. ScopesOf(call.token, principals') \subseteq had /\ call.had \subseteq had
      OBVIOUS
    <2> HIDE DEF had
    <2>3. CASE call.at \in {"arrived", "resolve"}
      <3>1. /\ call = [at |-> call.at, token |-> call.token, path |-> call.path, claim |-> call.claim,
                       had |-> call.had, answer |-> {}]
            /\ call.token \in Tokens
        BY <2>3 DEF ScopeInv, Asking
      <3>2. call' = [at |-> call.at, token |-> call.token, path |-> call.path, claim |-> call.claim,
                     had |-> had, answer |-> {}]
        BY <2>1, <3>1
      <3>3. /\ call'.at = call.at /\ call'.token = call.token /\ call'.path = call.path
            /\ call'.claim = call.claim /\ call'.had = had /\ call'.answer = {}
        BY <3>2
      <3>4. Asking'
        BY <2>2, <3>1, <3>2, <3>3 DEF Asking
      <3> QED
        BY <2>3, <3>3, <3>4 DEF ScopeInv, Admitted, AsksInScope, AnsweredInScope, Inside
    <2>4. CASE call.at \in Inside
      <3>1. /\ call = [at |-> call.at, path |-> call.path, scope |-> call.scope, token |-> call.token,
                       had |-> call.had, answer |-> call.answer, claim |-> call.claim]
            /\ call.scope \in call.had /\ MayEnter(call.path, call.scope)
            /\ \A t \in call.answer : InNs(t, call.scope.ns)
        BY <2>4 DEF ScopeInv, Admitted
      <3>2. call' = [at |-> call.at, path |-> call.path, scope |-> call.scope, token |-> call.token,
                     had |-> had, answer |-> call.answer, claim |-> call.claim]
        BY <2>1, <3>1
      <3>3. /\ call'.at = call.at /\ call'.path = call.path /\ call'.scope = call.scope
            /\ call'.token = call.token /\ call'.had = had /\ call'.answer = call.answer
            /\ call'.claim = call.claim
        BY <3>2
      <3>4. Admitted'
        BY <2>2, <3>1, <3>2, <3>3 DEF Admitted, MayEnter, InNs
      <3>5. AsksInScope'
        BY <1>1, <3>3 DEF ScopeInv, AsksInScope, InNs
      <3>6. AnsweredInScope'
        BY <2>2, <3>1, <3>3 DEF AnsweredInScope, InNs
      <3>7. Asking'
        BY <2>4, <3>3 DEF Asking, Inside
      <3> QED
        BY <2>4, <3>3, <3>4, <3>5, <3>6, <3>7 DEF ScopeInv, Inside
    <2> QED
      BY <1>3, <2>3, <2>4 DEF ScopeInv
  <1> QED
    BY <1>2, <1>3

\* A question is put in the namespace of the scope the call was admitted with.
LEMMA CallsKeepScope ==
    ASSUME ServingInv, ScopeInv, NEW q \in Requests, CallQuery(q) \/ CallHook(q)
    PROVE  ScopeInv'
  <1>1. ASSUME CallQuery(q) PROVE ScopeInv'
    <2>1. /\ call.at = "admitted" /\ call.path \in {"query", "mcp"}
          /\ q.ns = (IF call.path = "mcp" THEN None ELSE call.scope.ns)
          /\ q.door = "context" => call.path = "mcp"
          /\ call' = IF req' = Idle THEN Done({}) ELSE [call EXCEPT !.at = "serving"]
          /\ MayEnter(call.path, call.scope)
      BY <1>1 DEF CallQuery, At, ScopeInv, Admitted, Inside
    <2>2. q.ns = call.scope.ns
      BY <2>1 DEF MayEnter
    <2>3. CASE req' = Idle
      <3>1. call' = Done({})
        BY <2>1, <2>3
      <3> QED
        BY <3>1, DoneKeepsScope
    <2>4. CASE req' # Idle
      <3>1. req'.q = q
        BY <1>1, <2>4 DEF CallQuery, Begin
      <3>2. call' = [call EXCEPT !.at = "serving"]
        BY <2>1, <2>4
      <3>3. AsksInScope'
        BY <2>1, <2>2, <3>1, <3>2, CallFields DEF AsksInScope, Inside
      <3> QED
        BY <2>1, <3>2, <3>3, NextStage DEF Inside
    <2> QED
      BY <2>3, <2>4
  <1>2. ASSUME CallHook(q) PROVE ScopeInv'
    <2>1. /\ call.at = "admitted" /\ q.ns = call.scope.ns /\ q.door = "hook" /\ req'.q = q
          /\ call' = [call EXCEPT !.at = "serving"]
      BY <1>2 DEF CallHook, At, HookRank
    <2>2. AsksInScope'
      BY <2>1, CallFields DEF AsksInScope, Inside
    <2> QED
      BY <2>1, <2>2, NextStage DEF Inside
  <1> QED
    BY <1>1, <1>2

\* A hook that finds nothing says nothing.
LEMMA NothingFoundKeepsScope == ScopeInv /\ HookFindsNothing => ScopeInv'
  <1> SUFFICES ASSUME ScopeInv, HookFindsNothing PROVE ScopeInv'
    OBVIOUS
  <1>1. call.at = "admitted"
    BY DEF HookFindsNothing, At
  <1>2. CASE call' = Done({})
    BY <1>2, DoneKeepsScope
  <1>3. CASE call.path = "prompt" /\ call' = [call EXCEPT !.at = "storing"]
    <2>1. AsksInScope'
      BY <1>1, <1>3, CallFields DEF AsksInScope, Inside, Storing
    <2> QED
      BY <1>1, <1>3, <2>1, NextStage DEF Inside
  <1> QED
    BY <1>2, <1>3 DEF HookFindsNothing

\* A scoped trace tells only of a claim in its namespace.
LEMMA TracesKeepScope ==
    ASSUME ScopeInv, (\E c \in Claims : TraceAllowed(c)) \/ Trace
    PROVE  ScopeInv'
  <1>1. ASSUME NEW c \in Claims, TraceAllowed(c) PROVE ScopeInv'
    <2>1. call.at = "admitted" /\ Stored' = Stored
      BY <1>1 DEF TraceAllowed, At, vars, Stored
    <2>2. CASE call' = Done({})
      BY <2>2, DoneKeepsScope
    <2>3. CASE /\ call.scope.ns = None \/ (c \in Stored /\ NsOf[TurnOf[c]] = call.scope.ns)
               /\ call' = [call EXCEPT !.at = "tracing", !.claim = c]
      <3>1. call = [at |-> call.at, path |-> call.path, scope |-> call.scope, token |-> call.token,
                    had |-> call.had, answer |-> call.answer, claim |-> call.claim]
            /\ \A t \in call.answer : InNs(t, call.scope.ns)
        BY <2>1 DEF ScopeInv, Admitted, Inside
      <3>2. call' = [call EXCEPT !.at = "tracing", !.answer = call.answer, !.claim = c]
        BY <2>3, <3>1
      <3>3. call'.at = "tracing" /\ call'.claim = c /\ call'.scope = call.scope
        BY <3>1, <3>2
      <3>4. AsksInScope'
        BY <2>3, <3>3 DEF AsksInScope, InNs
      <3> QED
        BY <2>1, <3>1, <3>2, <3>4, MovingOn DEF Inside
    <2> QED
      BY <1>1, <2>2, <2>3 DEF TraceAllowed
  <1>2. ASSUME Trace PROVE ScopeInv'
    <2> DEFINE answer == {TurnOf[c] : c \in {call.claim} \cap Stored}
    <2>1. call.at \in Inside /\ call' = Done(answer)
      BY <1>2 DEF Trace, Inside
    <2>2. \A t \in answer : InNs(t, call.scope.ns)
      BY <1>2 DEF Trace, ScopeInv, AsksInScope
    <2> HIDE DEF answer
    <2> QED
      BY <2>1, <2>2, DoneKeepsScope
  <1> QED
    BY <1>1, <1>2

\* tool_discover is open to callers without a namespace only.
LEMMA DiscoveryKeepsScope == ScopeInv /\ (Discover \/ DiscoverStep) => ScopeInv'
  <1>1. ASSUME ScopeInv, Discover PROVE ScopeInv'
    <2>1. call.at = "admitted" /\ call.path = "discover" /\ call' = [call EXCEPT !.at = "discovering"]
      BY <1>1 DEF Discover, At
    <2>2. AsksInScope'
      BY <1>1, <2>1, CallFields DEF AsksInScope, Inside
    <2> QED
      BY <1>1, <2>1, <2>2, NextStage DEF Inside
  <1>2. ASSUME ScopeInv, DiscoverStep PROVE ScopeInv'
    <2>1. /\ call.at = "discovering" /\ call.at \in Inside /\ call.scope.ns = None
          /\ UNCHANGED <<principals, req>> /\ Stored' = Stored
      BY <1>2 DEF DiscoverStep, ScopeInv, Admitted, AsksInScope, MayEnter, Inside, vars, Stored
    <2>2. \A t : InNs(t, call.scope.ns)
      BY <2>1 DEF InNs
    <2>3. CASE UNCHANGED call
      BY <1>2, <2>1, <2>3, CallKeepsScope
    <2>4. CASE \E answer : call' = Done(answer)
      BY <1>2, <2>1, <2>2, <2>4, DoneKeepsScope
    <2> QED
      BY <1>2, <2>3, <2>4 DEF DiscoverStep
  <1> QED
    BY <1>1, <1>2

\* Storing a turn tells the caller no more than it was told before; what the hook
\* after a memory tool shows is told unchecked.
LEMMA StoresKeepScope ==
    ASSUME ScopeInv, (\E t \in Turns : StoreTurn(t)) \/ StoreNothing \/ \E C \in SUBSET Stored : ShowWrite(C)
    PROVE  ScopeInv'
  <1>1. ASSUME NEW t \in Turns, StoreTurn(t) PROVE ScopeInv'
    <2>1. call.at \in Inside /\ call' = Done(call.answer)
      BY <1>1 DEF StoreTurn, At, Inside
    <2> QED
      BY <2>1, DoneKeepsScope DEF ScopeInv, Admitted
  <1>2. ASSUME StoreNothing PROVE ScopeInv'
    BY <1>2, DoneKeepsScope DEF StoreNothing
  <1>3. ASSUME NEW C \in SUBSET Stored, ShowWrite(C) PROVE ScopeInv'
    <2> DEFINE told == {TurnOf[c] : c \in C}
    <2>1. call.at \in Inside /\ call' = DoneBut(told, told)
      BY <1>3 DEF ShowWrite, At, Inside
    <2>2. \A t \in told : InNs(t, call.scope.ns) \/ t \in told
      OBVIOUS
    <2> HIDE DEF told
    <2> QED
      BY <2>1, <2>2, EndKeepsScope
  <1> QED
    BY <1>1, <1>2, <1>3

-----------------------------------------------------------------------------
(* What the server guarantees                                             *)

\* A request keeps its question.
LEMMA SameQuestion ==
    ASSUME ServingTypes,
           \/ RequestStep
           \/ \E n \in 1 .. MaxLines : HookRender(n)
           \/ Record /\ req' # Idle
    PROVE  req'.q = req.q
  <1>1. CASE RankFacts
    BY <1>1 DEF RankFacts
  <1>2. CASE RankEpisodes
    BY <1>2 DEF RankEpisodes
  <1>3. CASE PackContext
    BY <1>3 DEF PackContext
  <1>4. CASE Select
    BY <1>4 DEF Select
  <1>5. CASE Fetch
    <2>1. req.at = "fetch" /\ req \in FetchReq(req.q, Rankable(req.q), ReadClaims(req.q))
      BY <1>5, ReqFields DEF Fetch, ServingTypes, Idle
    <2> QED
      BY <1>5, <2>1 DEF Fetch, FetchReq
  <1>6. CASE Annotate
    BY <1>6 DEF Annotate
  <1>7. CASE HookEntry
    <2>1. req.at = "entries" /\ req \in EntriesReq(req.q)
      BY <1>7, ReqFields DEF HookEntry, ServingTypes, Idle
    <2>2. DOMAIN req = {"at", "q", "candidates", "left", "consumed", "entries", "repeats"}
      BY <2>1 DEF EntriesReq
    <2> QED
      BY <1>7, <2>2, HookEntering
  <1>8. ASSUME NEW n \in 1 .. MaxLines, HookRender(n) PROVE req'.q = req.q
    BY <1>8 DEF HookRender
  <1>9. CASE Record /\ req' # Idle
    <2>1. \/ req \in QueryRecordReq(req.q, ReadClaims(req.q))
          \/ req \in HookRecordReq(req.q)
      BY <1>9, ReqFields DEF Record, ServingTypes, Idle
    <2>2. req' = [req EXCEPT !.todo = Tail(@)]
      BY <1>9 DEF Record
    <2> QED
      BY <2>1, <2>2 DEF QueryRecordReq, HookRecordReq
  <1>10. CASE CheckShared
    BY <1>10 DEF CheckShared
  <1>11. CASE BuildView
    BY <1>11, BuildingView
  <1> QED
    BY <1>1, <1>2, <1>3, <1>4, <1>5, <1>6, <1>7, <1>8, <1>9, <1>10, <1>11 DEF RequestStep

\* Whatever an answer tells or quotes lies within the reach of its question, but
\* for the turns that came after it was read that the session is not shared.
LEMMA SourcesInScope ==
    ASSUME ServingInv, Answer
    PROVE  \A t \in Sources(req) : InNs(t, req.q.ns) \/ t \in Late(req)
  <1>1. /\ req.answer \subseteq InScope(req.q)
        /\ \/ req.q.door = "hook"
           \/ req.at = "views" /\ req.q.door = "query"
    BY AnswerFields DEF ServingInv
  <1>2. CASE req.q.door = "hook"
    BY <1>1, <1>2 DEF Sources, InScope
  <1>3. CASE req.at = "views" /\ req.q.door = "query"
    <2>1. req \in ViewsReq(req.q)
      BY <1>3, ReqFields DEF ServingInv, ServingTypes
    <2>2. Range(req.episodes) \subseteq TurnsFor(req.q)
      <3>1. req.episodes \in Seq(TurnsFor(req.q))
        BY <2>1 DEF ViewsReq
      <3> QED
        BY <3>1, RangeIsFinite
    <2>3. \A c \in req.told : TurnOf[c] \in req.known => InNs(TurnOf[c], req.q.ns)
      BY <1>3 DEF ServingInv, Checked
    <2>4. \A c \in req.told : InNs(TurnOf[c], req.q.ns) \/ TurnOf[c] \in Late(req)
      BY <1>3, <2>3 DEF Late
    <2>5. \A c \in req.answer : InNs(TurnOf[c], req.q.ns)
      BY <1>1 DEF InScope
    <2>6. \A t \in Range(req.episodes) : InNs(t, req.q.ns)
      BY <2>2 DEF TurnsFor
    <2> QED
      BY <1>3, <2>4, <2>5, <2>6 DEF Sources
  <1> QED
    BY <1>1, <1>2, <1>3

\* What a request answers lies in the scope its call was admitted with.
LEMMA ServeKeepsScope == ServingInv /\ ScopeInv /\ Serve => ScopeInv'
  <1> SUFFICES ASSUME ServingInv, ScopeInv, Serve PROVE ScopeInv'
    OBVIOUS
  <1>1. /\ call.at = "serving" /\ call.at \in Inside /\ principals' = principals
        /\ req.q.ns = call.scope.ns
        /\ req.q.door = "context" => call.path = "mcp"
        /\ call.path = "prompt" => req.q.door = "hook"
        /\ MayEnter(call.path, call.scope) /\ ServingTypes
    BY DEF Serve, ScopeInv, Admitted, AsksInScope, Inside, ServingInv
  <1>2. CASE (RequestStep \/ \E n \in 1 .. MaxLines : HookRender(n)) /\ UNCHANGED call
    <2>1. req'.q = req.q
      BY <1>1, <1>2, SameQuestion
    <2> QED
      BY <1>1, <1>2, <2>1, CallKeepsScope
  <1>3. CASE WorkingContext /\ call' = Done({h.turn : h \in Range(req.facts)})
    <2>1. req.at = "packed"
      BY <1>3 DEF WorkingContext
    <2>2. req.q.door = "context"
      BY <1>1, <2>1, ReqFields DEF ServingTypes
    <2>3. call.scope.ns = None
      BY <1>1, <2>2 DEF MayEnter
    <2> DEFINE answer == {h.turn : h \in Range(req.facts)}
    <2>4. \A t \in answer : InNs(t, call.scope.ns)
      BY <2>3 DEF InNs
    <2>5. call' = Done(answer)
      BY <1>3
    <2> HIDE DEF answer
    <2> QED
      BY <1>1, <2>4, <2>5, DoneKeepsScope
  <1>4. CASE Record /\ call' = IF req' = Idle THEN Done({}) ELSE call
    <2>1. CASE req' = Idle
      <3>1. call' = Done({})
        BY <1>4, <2>1
      <3> QED
        BY <3>1, DoneKeepsScope
    <2>2. CASE req' # Idle
      <3>1. call' = call
        BY <1>4, <2>2
      <3>2. req'.q = req.q
        BY <1>1, <1>4, <2>2, SameQuestion
      <3> QED
        BY <1>1, <3>1, <3>2, CallKeepsScope
    <2> QED
      BY <2>1, <2>2
  <1>5. CASE Answer /\ call' = IF call.path = "prompt"
                               THEN [call EXCEPT !.at = "storing", !.answer = Sources(req)]
                               ELSE DoneBut(Sources(req), Late(req))
    <2>1. \A t \in Sources(req) : InNs(t, call.scope.ns) \/ t \in Late(req)
      BY <1>1, <1>5, SourcesInScope
    <2>2. CASE call.path = "prompt"
      <3>1. call = [at |-> call.at, path |-> call.path, scope |-> call.scope, token |-> call.token,
                    had |-> call.had, answer |-> call.answer, claim |-> call.claim]
        BY <1>1 DEF ScopeInv, Admitted
      <3> DEFINE answer == Sources(req)
                 claim == call.claim
      <3>2. call' = [call EXCEPT !.at = "storing", !.answer = answer, !.claim = claim]
        <4>1. call' = [call EXCEPT !.at = "storing", !.answer = answer]
          BY <1>5, <2>2
        <4> HIDE DEF answer
        <4> QED
          BY <3>1, <4>1
      <3>3. \A t \in answer : InNs(t, call.scope.ns)
        BY <1>1, <2>1, <2>2 DEF Late
      <3> HIDE DEF answer, claim
      <3>4. call'.at = "storing" /\ call'.path = call.path
        BY <3>1, <3>2
      <3>5. AsksInScope'
        BY <2>2, <3>4 DEF AsksInScope, Storing
      <3> QED
        BY <1>1, <3>2, <3>3, <3>5, MovingOn DEF Inside
    <2>3. CASE call.path # "prompt"
      <3> DEFINE answer == Sources(req)
                 late == Late(req)
      <3>1. call' = DoneBut(answer, late)
        BY <1>5, <2>3
      <3>2. \A t \in answer : InNs(t, call.scope.ns) \/ t \in late
        BY <2>1
      <3> HIDE DEF answer, late
      <3> QED
        BY <1>1, <3>1, <3>2, EndKeepsScope
    <2> QED
      BY <2>2, <2>3
  <1> QED
    BY <1>2, <1>3, <1>4, <1>5 DEF Serve

\* So do the entries shown before a tool runs.
LEMMA ToolRenderKeepsScope ==
    ASSUME ServingInv, ScopeInv, NEW n \in 1 .. MaxLines, ToolRender(n)
    PROVE  ScopeInv'
  <1> DEFINE E == [conflict : BOOLEAN, shows : SUBSET InScope(req.q)]
             lines == Cut(req.entries, n)
             answer == {TurnOf[c] : c \in UNION {e.shows : e \in Range(lines)}}
  <1>1. /\ call.at \in Inside /\ req.at = "entries" /\ call' = Done(answer) /\ req.q.ns = call.scope.ns
    BY DEF ToolRender, ScopeInv, AsksInScope, Inside
  <1>2. req.entries \in Seq(E)
    <2>1. req \in EntriesReq(req.q)
      BY <1>1, ReqFields DEF ServingInv, ServingTypes, Idle
    <2> QED
      BY <2>1 DEF EntriesReq
  <1>3. n \in Nat
    OBVIOUS
  <1>4. Range(lines) \subseteq E
    <2> HIDE DEF E
    <2>1. lines \in Seq(E)
      BY <1>2, <1>3, Cutting
    <2> HIDE DEF lines
    <2> QED
      BY <2>1, RangeIsFinite
  <1> HIDE DEF lines
  <1>5. \A t \in answer : InNs(t, call.scope.ns)
    BY <1>1, <1>4 DEF InScope
  <1> HIDE DEF answer
  <1> QED
    BY <1>1, <1>5, DoneKeepsScope

\* The scope of a call outlasts every step.
LEMMA ScopeStep == ServingInv /\ ScopeInv /\ [HttpNext]_allvars => ScopeInv'
  <1> SUFFICES ASSUME ServingInv, ScopeInv, [HttpNext]_allvars PROVE ScopeInv'
    OBVIOUS
  <1>1. CASE UNCHANGED allvars
    <2>1. UNCHANGED <<principals, call, req>>
      BY <1>1 DEF allvars, vars
    <2> QED
      BY <2>1, CallKeepsScope
  <1>2. CASE OtherProcesses /\ UNCHANGED <<toolvars, principals, call>>
    <2>1. UNCHANGED req
      BY <1>2, OthersChange DEF ServingInv, ServingTypes, Disturbs
    <2> QED
      BY <1>2, <2>1, CallKeepsScope
  <1>3. CASE ToolCommands /\ UNCHANGED <<principals, call>>
    <2>1. UNCHANGED req
      BY <1>3 DEF ToolCommands, UpsertTool, StartIndexing, EmbedBatch, WriteVector, claimvars, vars
    <2> QED
      BY <1>3, <2>1, CallKeepsScope
  <1>4. ASSUME NEW g \in Grants, Grant(g[1], g[2]) PROVE ScopeInv'
    BY <1>4, GrantKeepsScope
  <1>5. ASSUME NEW q \in Requests, CallQuery(q) \/ CallHook(q) PROVE ScopeInv'
    BY <1>5, CallsKeepScope
  <1>6. ASSUME NEW c \in Calls, Arrive(c) PROVE ScopeInv'
    BY <1>6, ArriveKeepsScope
  <1>7. ASSUME NEW n \in 1 .. MaxLines, ToolRender(n) PROVE ScopeInv'
    BY <1>7, ToolRenderKeepsScope
  <1> QED
    BY <1>1, <1>2, <1>3, <1>4, <1>5, <1>6, <1>7, ResolvingKeepsScope, NothingFoundKeepsScope, ServeKeepsScope,
       TracesKeepScope, DiscoveryKeepsScope, StoresKeepScope DEF HttpNext

\* An admitted call keeps to a scope its token had while the call lasted, and so
\* does all it asks.
THEOREM ScopeInvHolds == HttpSpec => []ScopeInv
  <1>1. ServingInv /\ ScopeInv /\ [HttpNext]_allvars => ScopeInv'
    BY ScopeStep
  <1> QED
    BY <1>1, ScopeInvInit, ServingInvHolds, PTL DEF HttpSpec

\* Every answer of the server quotes turns, and tells claims of turns, of a scope
\* the caller had while the call lasted, but for what the code makes no check of.
THEOREM AnsweredInScopeHolds == HttpSpec => []AnsweredInScope
  <1>1. ScopeInv => AnsweredInScope
    BY DEF ScopeInv
  <1> QED
    BY <1>1, ScopeInvHolds, PTL

\* What admits a call that stores a turn.
LEMMA StoreTurnInScope ==
    ASSUME ScopeInv, NEW t \in Turns, StoreTurn(t)
    PROVE  \A u \in turns' \ turns :
               \E s \in call.had : s.write /\ NsOf[u] = IF s.ns = None THEN Default ELSE s.ns
  <1>1. call.at \in Inside /\ call.path \in Storing
    BY DEF StoreTurn, At, ScopeInv, AsksInScope, Storing, Inside
  <1>2. call.scope \in call.had /\ call.scope.write
    BY <1>1 DEF ScopeInv, Admitted, MayEnter
  <1>3. turns' = turns \cup {t} /\ NsOf[t] = IF call.scope.ns = None THEN Default ELSE call.scope.ns
    BY DEF StoreTurn
  <1> QED
    BY <1>2, <1>3

\* Nothing that a call does but to store a turn adds to the turns.
LEMMA OnlyStoringAdds ==
    ASSUME [HttpNext]_allvars
    PROVE  turns' \subseteq turns \/ call' = call \/ \E t \in Turns : StoreTurn(t)
  <1>1. CASE UNCHANGED allvars
    BY <1>1 DEF allvars, vars
  <1>2. ASSUME NEW c \in Calls, Arrive(c) PROVE turns' \subseteq turns
    BY <1>2 DEF Arrive, store
  <1>3. CASE \/ AnyPrincipals \/ ResolvePrincipal \/ HookFindsNothing \/ Trace \/ StoreNothing
            \/ Discover \/ DiscoverStep \/ \E C \in SUBSET Stored : ShowWrite(C)
    BY <1>3 DEF AnyPrincipals, ResolvePrincipal, HookFindsNothing, Trace, StoreNothing, ShowWrite,
                Discover, DiscoverStep, vars
  <1>4. ASSUME NEW q \in Requests, CallQuery(q) \/ CallHook(q) PROVE turns' \subseteq turns
    BY <1>4 DEF CallQuery, CallHook, Begin, HookRank, Open, store
  <1>5. CASE Serve
    BY <1>5 DEF Serve, RequestStep, RankFacts, RankEpisodes, PackContext, Select, Fetch, Annotate, HookEntry,
                CheckShared, BuildView, HookRender, WorkingContext, Record, Answer, store
  <1>6. ASSUME NEW n \in 1 .. MaxLines, ToolRender(n) PROVE turns' \subseteq turns
    BY <1>6 DEF ToolRender, store
  <1>7. ASSUME NEW c \in Claims, TraceAllowed(c) PROVE turns' \subseteq turns
    BY <1>7 DEF TraceAllowed, vars
  <1>8. ASSUME NEW g \in Grants, Grant(g[1], g[2]) PROVE turns' \subseteq turns
    BY <1>8 DEF Grant, store
  <1>9. CASE OtherProcesses /\ UNCHANGED <<toolvars, principals, call>>
    BY <1>9
  <1>10. CASE ToolCommands
    BY <1>10 DEF ToolCommands, UpsertTool, StartIndexing, EmbedBatch, WriteVector, claimvars, vars, store
  <1> QED
    BY <1>1, <1>2, <1>3, <1>4, <1>5, <1>6, <1>7, <1>8, <1>9, <1>10 DEF HttpNext

\* A call stores a turn only for a caller that might write, in the namespace it
\* might write to.
THEOREM StoredInScopeHolds == HttpSpec => StoredInScope
  <1>1. ScopeInv /\ [HttpNext]_allvars =>
          (call' # call =>
              \A t \in turns' \ turns :
                  \E s \in call.had : s.write /\ NsOf[t] = IF s.ns = None THEN Default ELSE s.ns)
    BY OnlyStoringAdds, StoreTurnInScope
  <1> QED
    BY <1>1, ScopeInvHolds, PTL DEF HttpSpec, StoredInScope

-----------------------------------------------------------------------------
(* The ranking of the tools                                               *)

\* Numbers compare as their products with a positive number.
LEMMA TimesKeeps == \A p, q \in Int, r \in Nat \ {0} : p > q <=> p * r > q * r
  <1>1. \A d \in Int, r \in Nat \ {0} : d > 0 <=> d * r > 0
    OBVIOUS
  <1> SUFFICES ASSUME NEW p \in Int, NEW q \in Int, NEW r \in Nat \ {0}
               PROVE  p > q <=> p * r > q * r
    OBVIOUS
  <1>2. p - q \in Int /\ (p - q) * r = p * r - q * r /\ p * r \in Int /\ q * r \in Int
    OBVIOUS
  <1>3. p > q <=> p - q > 0
    OBVIOUS
  <1>4. p * r > q * r <=> (p - q) * r > 0
    BY <1>2
  <1> QED
    BY <1>1, <1>2, <1>3, <1>4

Fractions == [num : Nat, den : Nat \ {0}]

\* A fraction no other exceeds in a chain is not exceeded by its end.
LEMMA NotExceeded ==
    ASSUME NEW x \in Fractions, NEW y \in Fractions, NEW z \in Fractions,
           ~Exceeds(y, x), ~Exceeds(z, y)
    PROVE  ~Exceeds(z, x)
  <1> DEFINE a == x.num * y.den
             b == y.num * x.den
             c == y.num * z.den
             d == z.num * y.den
             e == x.num * z.den
             f == z.num * x.den
  <1>1. /\ x.num \in Nat /\ y.num \in Nat /\ z.num \in Nat
        /\ x.den \in Nat \ {0} /\ y.den \in Nat \ {0} /\ z.den \in Nat \ {0}
    BY DEF Fractions
  <1>2. a \in Int /\ b \in Int /\ c \in Int /\ d \in Int /\ e \in Int /\ f \in Int
    BY <1>1
  <1>3. ~(b > a) /\ ~(d > c)
    BY DEF Exceeds
  <1>4. /\ b * z.den = c * x.den
        /\ a * z.den = e * y.den
        /\ d * x.den = f * y.den
    BY <1>1
  <1> HIDE DEF a, b, c, d, e, f
  <1>5. ~(b * z.den > a * z.den) /\ ~(d * x.den > c * x.den)
    BY <1>1, <1>2, <1>3, TimesKeeps
  <1>6. /\ b * z.den \in Int /\ a * z.den \in Int /\ d * x.den \in Int
    BY <1>1, <1>2
  <1>7. ~(f * y.den > e * y.den)
    BY <1>4, <1>5, <1>6
  <1>8. ~(f > e)
    BY <1>1, <1>2, <1>7, TimesKeeps
  <1> QED
    BY <1>8 DEF Exceeds, e, f

\* A score is at most its own, and of two scores one at most exceeds the other.
LEMMA ExceedsOneWay ==
    ASSUME NEW x \in Fractions, NEW y \in Fractions
    PROVE  ~(Exceeds(x, y) /\ Exceeds(y, x))
  <1>1. x.num * y.den \in Int /\ y.num * x.den \in Int
    BY DEF Fractions
  <1> QED
    BY <1>1 DEF Exceeds

\* The ranks of a channel are counted from one, and a better score ranks before.
LEMMA RanksBetter ==
    ASSUME NEW C, IsFiniteSet(C), C \subseteq Nat, NEW score \in [C -> Int], NEW t \in C
    PROVE  /\ Rank(C, score, t) \in Nat \ {0}
           /\ \A u \in C : score[t] > score[u] => Rank(C, score, t) < Rank(C, score, u)
  <1> DEFINE Above(u) == {v \in C : score[v] > score[u] \/ (score[v] = score[u] /\ v < u)}
  <1>1. \A u \in C : IsFiniteSet(Above(u)) /\ Cardinality(Above(u)) \in Nat
    <2> TAKE u \in C
    <2>1. Above(u) \in SUBSET C
      OBVIOUS
    <2> QED
      BY <2>1, FS_Subset, FS_CardinalityType
  <1>2. \A u \in C : Rank(C, score, u) = 1 + Cardinality(Above(u))
    BY DEF Rank
  <1>3. ASSUME NEW u \in C, score[t] > score[u]
        PROVE  /\ Above(t) \in SUBSET Above(u)
               /\ t \in Above(u) /\ t \notin Above(t)
    <2>1. \A v \in C : score[v] \in Int /\ v \in Int
      OBVIOUS
    <2>2. ASSUME NEW v \in C, score[v] > score[t] \/ (score[v] = score[t] /\ v < t)
          PROVE  score[v] > score[u]
      BY <1>3, <2>1, <2>2
    <2>3. ~(score[t] > score[t]) /\ ~(t < t)
      BY <2>1
    <2> QED
      BY <1>3, <2>2, <2>3, Zenon
  <1> HIDE DEF Above
  <1>4. ASSUME NEW u \in C, score[t] > score[u]
        PROVE  Cardinality(Above(t)) < Cardinality(Above(u))
    <2>1. /\ Cardinality(Above(t)) <= Cardinality(Above(u))
          /\ Cardinality(Above(t)) = Cardinality(Above(u)) => Above(t) = Above(u)
      BY <1>1, <1>3, <1>4, FS_Subset
    <2> QED
      BY <2>1, <1>1, <1>3, <1>4
  <1> QED
    BY <1>1, <1>2, <1>4

\* Scores for the two channels of a set of tools, and how much each counts.
Channels(C) == [bm25 : [weight : Nat, score : [C -> Int]], semantic : [weight : Nat, score : [C -> Int]]]

\* Every fused score is a fraction.
LEMMA ScoresAreFractions ==
    ASSUME NEW C, IsFiniteSet(C), C \subseteq Nat, NEW channels \in Channels(C), NEW t \in C
    PROVE  FusedScore(C, channels, t) \in Fractions
  <1> DEFINE a == RrfK + Rank(C, channels.bm25.score, t)
             b == RrfK + Rank(C, channels.semantic.score, t)
             w == channels.bm25.weight
             v == channels.semantic.weight
  <1>1. /\ channels.bm25.score \in [C -> Int] /\ channels.semantic.score \in [C -> Int]
        /\ w \in Nat /\ v \in Nat
    BY DEF Channels
  <1>2. a \in Nat \ {0} /\ b \in Nat \ {0}
    <2>1. RrfK \in Nat
      BY RetrievalAssumption
    <2>2. \A score \in [C -> Int] : Rank(C, score, t) \in Nat \ {0}
      BY RanksBetter
    <2>3. Rank(C, channels.bm25.score, t) \in Nat \ {0} /\ Rank(C, channels.semantic.score, t) \in Nat \ {0}
      BY <1>1, <2>2
    <2> QED
      BY <2>1, <2>3
  <1>3. FusedScore(C, channels, t) = [num |-> w * b + v * a, den |-> a * b]
    BY DEF FusedScore
  <1> HIDE DEF a, b, w, v
  <1>4. w * b \in Nat /\ v * a \in Nat /\ a * b \in Nat \ {0}
    BY <1>1, <1>2
  <1>5. w * b + v * a \in Nat
    BY <1>4
  <1> QED
    BY <1>3, <1>4, <1>5 DEF Fractions

\* The better of two tools scores more: a channel that counts adds more for it,
\* and the other no less.
LEMMA BetterScoresMore ==
    ASSUME NEW C, IsFiniteSet(C), C \subseteq Nat,
           NEW lexical \in [C -> Int], NEW semantic \in [C -> Int],
           NEW t \in C, NEW u \in C, lexical[t] > lexical[u],
           (\E x \in C : semantic[x] # 0) => semantic[t] > semantic[u]
    PROVE  LET channels == QueryChannels(C, lexical, semantic)
           IN Exceeds(FusedScore(C, channels, t), FusedScore(C, channels, u))
  <1> DEFINE channels == QueryChannels(C, lexical, semantic)
             v == channels.semantic.weight
             A == RrfK + Rank(C, lexical, t)
             B == RrfK + Rank(C, semantic, t)
             c == RrfK + Rank(C, lexical, u)
             d == RrfK + Rank(C, semantic, u)
  <1>1. /\ A \in Nat \ {0} /\ B \in Nat \ {0} /\ c \in Nat \ {0} /\ d \in Nat \ {0}
        /\ A < c /\ (semantic[t] > semantic[u] => B < d)
    <2>1. RrfK \in Nat
      BY RetrievalAssumption
    <2>2. \A score \in [C -> Int], x \in C : Rank(C, score, x) \in Nat \ {0}
      BY RanksBetter
    <2>3. \A score \in [C -> Int], x, y \in C :
              score[x] > score[y] => Rank(C, score, x) < Rank(C, score, y)
      BY RanksBetter
    <2>4. /\ Rank(C, lexical, t) \in Nat \ {0} /\ Rank(C, lexical, u) \in Nat \ {0}
          /\ Rank(C, semantic, t) \in Nat \ {0} /\ Rank(C, semantic, u) \in Nat \ {0}
      BY <2>2
    <2>5. /\ Rank(C, lexical, t) < Rank(C, lexical, u)
          /\ semantic[t] > semantic[u] => Rank(C, semantic, t) < Rank(C, semantic, u)
      BY <2>3
    <2> QED
      BY <2>1, <2>4, <2>5
  <1>2. v = 0 \/ (v = 5 /\ B < d)
    <2>1. CASE \A x \in C : semantic[x] = 0
      BY <2>1 DEF QueryChannels
    <2>2. CASE ~ \A x \in C : semantic[x] = 0
      <3>1. B < d
        BY <2>2, <1>1
      <3>2. v = 5
        BY <2>2 DEF QueryChannels
      <3> QED
        BY <3>1, <3>2
    <2> QED
      BY <2>1, <2>2
  <1>3. /\ channels.bm25.weight = 5 /\ channels.bm25.score = lexical
        /\ channels.semantic.score = semantic
    BY DEF QueryChannels
  <1>4. /\ FusedScore(C, channels, t) = [num |-> 5 * B + v * A, den |-> A * B]
        /\ FusedScore(C, channels, u) = [num |-> 5 * d + v * c, den |-> c * d]
    <2> HIDE DEF channels
    <2> QED
      BY <1>3 DEF FusedScore
  <1> HIDE DEF channels, v, A, B, c, d
  <1>5. (5 * B + v * A) * (c * d) > (5 * d + v * c) * (A * B)
    <2> DEFINE p == B * d
               q == A * c
    <2>1. p \in Nat \ {0} /\ q \in Nat \ {0} /\ A \in Int /\ B \in Int /\ c \in Int /\ d \in Int
      BY <1>1
    <2>2. /\ (5 * B) * (c * d) = 5 * (c * p)
          /\ (5 * d) * (A * B) = 5 * (A * p)
          /\ (5 * A) * (c * d) = 5 * (d * q)
          /\ (5 * c) * (A * B) = 5 * (B * q)
      BY <1>1
    <2> HIDE DEF p, q
    <2>3. c * p > A * p
      BY <1>1, <2>1, TimesKeeps
    <2>4. CASE v = 0
      <3>1. /\ 5 * B + v * A = 5 * B
            /\ 5 * d + v * c = 5 * d
        BY <2>1, <2>4
      <3>2. c * p \in Int /\ A * p \in Int
        BY <2>1
      <3> QED
        BY <2>2, <2>3, <3>1, <3>2
    <2>5. CASE v = 5 /\ B < d
      <3>1. d * q > B * q
        BY <2>1, <2>5, TimesKeeps
      <3>2. /\ (5 * B + v * A) * (c * d) = (5 * B) * (c * d) + (5 * A) * (c * d)
            /\ (5 * d + v * c) * (A * B) = (5 * d) * (A * B) + (5 * c) * (A * B)
        BY <2>1, <2>5
      <3>3. c * p \in Int /\ A * p \in Int /\ d * q \in Int /\ B * q \in Int
        BY <2>1
      <3> QED
        BY <2>2, <2>3, <3>1, <3>2, <3>3
    <2> QED
      BY <1>2, <2>4, <2>5
  <1>6. Exceeds(FusedScore(C, channels, t), FusedScore(C, channels, u))
    BY <1>4, <1>5 DEF Exceeds
  <1> QED
    BY <1>6 DEF channels

\* The fused ranking lists tools of the candidates, and lists none before one
\* whose score exceeds its own.
LEMMA FuseRanks ==
    ASSUME NEW C, IsFiniteSet(C), C \subseteq Nat, NEW channels \in Channels(C)
    PROVE  /\ Fuse(C, channels) \in Seq(C)
           /\ \A t, u \in C :
                Exceeds(FusedScore(C, channels, t), FusedScore(C, channels, u)) =>
                  \A i \in 1 .. Len(Fuse(C, channels)) :
                      Fuse(C, channels)[i] = u => \E k \in 1 .. i - 1 : Fuse(C, channels)[k] = t
  <1> DEFINE points == [t \in C |-> FusedScore(C, channels, t)]
             Best(t, u) == \/ Exceeds(points[t], points[u])
                           \/ ~Exceeds(points[u], points[t]) /\ t < u
             R == {p \in C \X C : Best(p[1], p[2])}
             s == [i \in 1 .. Cardinality(C) |->
                     CHOOSE x \in C : Cardinality({y \in C : Best(y, x)}) = i - 1]
  <1>1. \A t \in C : points[t] \in Fractions
    BY ScoresAreFractions
  <1>2. \A t, u, v \in C : ~Exceeds(points[u], points[t]) /\ ~Exceeds(points[v], points[u])
                           => ~Exceeds(points[v], points[t])
    <2>1. \A x, y, z \in Fractions : ~Exceeds(y, x) /\ ~Exceeds(z, y) => ~Exceeds(z, x)
      BY NotExceeded
    <2> HIDE DEF points
    <2> QED
      BY <1>1, <2>1
  <1>3. \A t, u \in C : ~(Exceeds(points[t], points[u]) /\ Exceeds(points[u], points[t]))
    <2>1. \A x, y \in Fractions : ~(Exceeds(x, y) /\ Exceeds(y, x))
      BY ExceedsOneWay
    <2> HIDE DEF points
    <2> QED
      BY <1>1, <2>1
  <1>4. Fuse(C, channels) = Cut(s, ToolTopK)
    BY DEF Fuse, InOrder
  <1> HIDE DEF points
  <1>5. Ordered(C, R)
    <2>1. \A t, u \in C : <<t, u>> \in R <=> Best(t, u)
      OBVIOUS
    <2>2. \A t \in C : ~Best(t, t)
      BY <1>3
    <2>3. \A t, u \in C : t = u \/ Best(t, u) \/ Best(u, t)
      OBVIOUS
    <2>4. \A t, u, v \in C : Best(t, u) /\ Best(u, v) => Best(t, v)
      <3> SUFFICES ASSUME NEW t \in C, NEW u \in C, NEW v \in C, Best(t, u), Best(u, v)
                   PROVE  Best(t, v)
        OBVIOUS
      <3>1. ~Exceeds(points[u], points[t]) /\ ~Exceeds(points[v], points[u])
        BY <1>3
      <3>2. ~Exceeds(points[v], points[t])
        BY <1>2, <3>1
      <3>3. ASSUME ~Exceeds(points[t], points[v]) PROVE t < v
        <4>1. ~Exceeds(points[t], points[u])
          BY <1>2, <3>1, <3>3
        <4>2. ~Exceeds(points[u], points[v])
          BY <1>2, <3>1, <3>3
        <4>3. t < u /\ u < v
          BY <4>1, <4>2
        <4> QED
          BY <4>3
      <3> QED
        BY <3>2, <3>3
    <2> HIDE DEF R, Best
    <2> QED
      BY <2>1, <2>2, <2>3, <2>4 DEF Ordered
  <1>6. \A x \in C : Below(C, R, x) = {y \in C : Best(y, x)}
    BY DEF Below
  <1>7. s = [i \in 1 .. Cardinality(C) |-> s[i]]
    <2> DEFINE e(i) == CHOOSE x \in C : Cardinality({y \in C : Best(y, x)}) = i - 1
    <2>1. s = [i \in 1 .. Cardinality(C) |-> e(i)]
      OBVIOUS
    <2> HIDE DEF e, s
    <2> QED
      BY <2>1
  <1>8. ASSUME NEW i \in 1 .. Cardinality(C), NEW x \in C, Cardinality(Below(C, R, x)) = i - 1
        PROVE  s[i] \in C /\ Cardinality(Below(C, R, s[i])) = i - 1
    <2>1. s[i] = CHOOSE z \in C : Cardinality({y \in C : Best(y, z)}) = i - 1
      OBVIOUS
    <2>2. Cardinality({y \in C : Best(y, x)}) = i - 1
      BY <1>6, <1>8
    <2>3. s[i] \in C /\ Cardinality({y \in C : Best(y, s[i])}) = i - 1
      BY <2>1, <2>2
    <2> QED
      BY <2>3, <1>6
  <1>9. \A t, u \in C : Exceeds(points[t], points[u]) => <<t, u>> \in R
    OBVIOUS
  <1> HIDE DEF R, s, Best
  <1>10. s \in Seq(C) /\ Len(s) = Cardinality(C) /\ Range(s) = C /\ Ranked(C, R, s)
    BY <1>5, <1>7, <1>8, ByRank
  <1>11. \A x, y \in C : <<x, y>> \in R =>
            \A i \in 1 .. Len(s) : s[i] = y => \E k \in 1 .. i - 1 : s[k] = x
    BY <1>5, <1>10, InItsPlace
  <1>12. ToolTopK \in Nat
    BY ToolsAssumption
  <1> DEFINE f == Cut(s, ToolTopK)
  <1>13. /\ f \in Seq(C) /\ Len(f) \in Nat /\ Len(f) <= Len(s)
         /\ \A i \in 1 .. Len(f) : f[i] = s[i]
    <2>1. Len(s) \in Nat
      BY <1>10
    <2>2. /\ f \in Seq(C) /\ Len(f) = IF Len(s) < ToolTopK THEN Len(s) ELSE ToolTopK
          /\ \A i \in 1 .. Len(f) : f[i] = s[i]
      BY <1>10, <1>12, Cutting
    <2> QED
      BY <2>1, <2>2, <1>12
  <1> HIDE DEF f
  <1>14. \A x, y \in C : <<x, y>> \in R =>
            \A i \in 1 .. Len(f) : f[i] = y => \E k \in 1 .. i - 1 : f[k] = x
    <2> SUFFICES ASSUME NEW x \in C, NEW y \in C, <<x, y>> \in R, NEW i \in 1 .. Len(f), f[i] = y
                 PROVE  \E k \in 1 .. i - 1 : f[k] = x
      OBVIOUS
    <2>1. i \in 1 .. Len(s) /\ s[i] = y
      BY <1>10, <1>13
    <2>2. PICK k \in 1 .. i - 1 : s[k] = x
      BY <1>11, <2>1
    <2>3. k \in 1 .. Len(f)
      BY <1>13
    <2> QED
      BY <1>13, <2>2, <2>3
  <1>15. \A t \in C : points[t] = FusedScore(C, channels, t)
    BY DEF points
  <1>16. Fuse(C, channels) = f
    BY <1>4 DEF f
  <1> QED
    BY <1>9, <1>13, <1>14, <1>15, <1>16

\* An element listed before another wherever that one is has a smaller place, or
\* the other is not listed.
LEMMA PlacedFirst ==
    ASSUME NEW X, NEW s \in Seq(X), NEW t, NEW u,
           \A i \in 1 .. Len(s) : s[i] = u => \E k \in 1 .. i - 1 : s[k] = t
    PROVE  LET place(x) == Cardinality({i \in DOMAIN s : \A j \in 1 .. i : s[j] # x})
           IN place(t) < place(u) \/ place(u) = Len(s)
  <1> DEFINE P(x) == {i \in DOMAIN s : \A j \in 1 .. i : s[j] # x}
             at == {i \in 1 .. Len(s) : s[i] = u}
  <1>1. Len(s) \in Nat /\ DOMAIN s = 1 .. Len(s) /\ IsFiniteSet(1 .. Len(s)) /\ Cardinality(1 .. Len(s)) = Len(s)
    BY FS_Interval
  <1>2. CASE at = {}
    <2>1. P(u) = 1 .. Len(s)
      BY <1>1, <1>2
    <2> QED
      BY <1>1, <2>1
  <1>3. CASE at # {}
    <2>1. PICK i \in at : \A j \in at : i <= j
      <3>1. at \subseteq Nat
        OBVIOUS
      <3> QED
        BY <3>1, <1>3, Smallest
    <2>2. PICK k \in 1 .. i - 1 : s[k] = t
      OBVIOUS
    <2>3. \A j \in 1 .. k : s[j] # u
      BY <1>1, <2>1
    <2>4. k \in P(u)
      BY <1>1, <2>3
    <2>5. k \notin P(t)
      BY <2>2
    <2>6. P(t) \in SUBSET P(u)
      <3> SUFFICES ASSUME NEW m \in P(t), NEW j \in 1 .. m, s[j] = u
                   PROVE  FALSE
        OBVIOUS
      <3>1. j \in 1 .. Len(s)
        BY <1>1
      <3>2. PICK l \in 1 .. j - 1 : s[l] = t
        BY <3>1
      <3>3. l \in 1 .. m
        BY <1>1
      <3> QED
        BY <3>2, <3>3
    <2>7. IsFiniteSet(P(u)) /\ Cardinality(P(u)) \in Nat
      <3>1. P(u) \in SUBSET (1 .. Len(s))
        BY <1>1
      <3> QED
        BY <3>1, <1>1, FS_Subset, FS_CardinalityType
    <2> HIDE DEF P
    <2>8. /\ Cardinality(P(t)) <= Cardinality(P(u)) /\ Cardinality(P(t)) \in Nat
          /\ Cardinality(P(t)) = Cardinality(P(u)) => P(t) = P(u)
      BY <2>6, <2>7, FS_Subset, FS_CardinalityType
    <2>9. Cardinality(P(t)) < Cardinality(P(u))
      BY <2>4, <2>5, <2>7, <2>8
    <2> QED
      BY <2>9 DEF P
  <1> QED
    BY <1>2, <1>3

\* While tools are looked for, the candidates are registered tools, and those
\* with a vector are among them.
Candidates ==
    found.at \in {"memory", "rank"} => found.cands \subseteq Tools /\ found.vectors \subseteq found.cands

\* What BetterToolFirst needs to be inductive: what the ranking starts from.
FoundInv ==
    /\ found.at \in {"none", "memory", "rank", "listed"}
    /\ Candidates /\ BetterToolFirst

LEMMA FoundInvInit == HttpInit => FoundInv
  BY DEF HttpInit, ToolsInit, NothingFound, FoundInv, Candidates, BetterToolFirst

\* The ranking of any candidates lists the better of two before the other.
LEMMA RankingKeepsFirst ==
    ASSUME NEW C, C \subseteq Tools, NEW lexical \in [C -> Lexical], NEW semantic \in [C -> Int],
           NEW t \in C, NEW u \in C, lexical[t] > lexical[u],
           (\E x \in C : semantic[x] # 0) => semantic[t] > semantic[u]
    PROVE  LET tools == Fuse(C, QueryChannels(C, lexical, semantic))
               place(x) == Cardinality({i \in DOMAIN tools : \A j \in 1 .. i : tools[j] # x})
           IN place(t) < place(u) \/ place(u) = Len(tools)
  <1> DEFINE channels == QueryChannels(C, lexical, semantic)
             tools == Fuse(C, channels)
  <1>1. IsFiniteSet(C) /\ C \subseteq Nat /\ lexical \in [C -> Int]
    <2>1. C \in SUBSET Tools /\ IsFiniteSet(Tools) /\ Tools \subseteq Nat /\ Lexical \subseteq Nat
      BY ToolsAssumption
    <2>2. IsFiniteSet(C)
      BY <2>1, FS_Subset
    <2>3. \A x \in C : lexical[x] \in Lexical
      OBVIOUS
    <2>4. \A x \in C : lexical[x] \in Int
      <3>1. Lexical \subseteq Int
        BY <2>1
      <3> QED
        BY <2>3, <3>1, Zenon
    <2>5. lexical \in [C -> Int]
      BY <2>4
    <2> QED
      BY <2>1, <2>2, <2>5
  <1>2. channels \in Channels(C)
    BY <1>1 DEF Channels, QueryChannels
  <1>3. Exceeds(FusedScore(C, channels, t), FusedScore(C, channels, u))
    BY <1>1, BetterScoresMore
  <1> HIDE DEF channels
  <1>4. tools \in Seq(C) /\ \A i \in 1 .. Len(tools) : tools[i] = u => \E k \in 1 .. i - 1 : tools[k] = t
    BY <1>1, <1>2, <1>3, FuseRanks
  <1> HIDE DEF tools
  <1>5. LET place(x) == Cardinality({i \in DOMAIN tools : \A j \in 1 .. i : tools[j] # x})
        IN place(t) < place(u) \/ place(u) = Len(tools)
    BY <1>4, PlacedFirst
  <1> QED
    BY <1>5 DEF tools, channels

\* What was found stays as good as it was.
LEMMA FoundStays == FoundInv /\ UNCHANGED found => FoundInv'
  <1> SUFFICES ASSUME FoundInv, UNCHANGED found PROVE FoundInv'
    OBVIOUS
  <1> DEFINE
        Better(f) == f.at = "listed" /\ f.tools # <<>> =>
            LET says == \E t \in DOMAIN f.semantic : f.semantic[t] # 0
                place(t) == Cardinality({i \in DOMAIN f.tools : \A j \in 1 .. i : f.tools[j] # t})
            IN \A t, u \in DOMAIN f.lexical :
                 /\ f.lexical[t] > f.lexical[u]
                 /\ says => f.semantic[t] > f.semantic[u]
                 => place(t) < place(u) \/ place(u) = Len(f.tools)
  <1>1. Better(found) /\ (Better(found') => BetterToolFirst')
    BY DEF FoundInv, BetterToolFirst
  <1> HIDE DEF Better
  <1>2. found' = found
    OBVIOUS
  <1>3. Better(found')
    BY <1>1, <1>2
  <1>4. BetterToolFirst'
    BY <1>1, <1>3
  <1> QED
    BY <1>4 DEF FoundInv, Candidates

\* What a discovery finds.
LEMMA DiscoveryKeepsFirst == FoundInv /\ (Discover \/ DiscoverStep) => FoundInv'
  <1>1. ASSUME FoundInv, LoadCandidates PROVE FoundInv'
    BY <1>1 DEF LoadCandidates, FoundInv, Candidates, BetterToolFirst
  <1>2. ASSUME FoundInv, NEW s, Instruct(s) PROVE FoundInv'
    BY <1>2 DEF Instruct, FoundInv, Candidates, BetterToolFirst
  <1>3. ASSUME FoundInv, RankTools PROVE FoundInv'
    <2> DEFINE C == found.cands
    <2>1. /\ found.at = "rank" /\ C \subseteq Tools /\ found.vectors \subseteq C
      BY <1>3 DEF RankTools, FoundInv, Candidates
    <2>2. PICK m \in Models \cup {None}, lexical \in [C -> Lexical], cosines \in [found.vectors -> Cosines] :
            LET semantic == [t \in C |-> IF m # None /\ t \in found.vectors THEN cosines[t] ELSE 0]
            IN found' = IF m # None /\ found.models \ {m} # {}
                        THEN [at |-> "listed", tools |-> <<>>]
                        ELSE [at |-> "listed", used |-> found.memory # {},
                              tools |-> Fuse(C, QueryChannels(C, lexical, semantic)),
                              lexical |-> lexical, semantic |-> semantic]
      BY <1>3 DEF RankTools
    <2> DEFINE semantic == [t \in C |-> IF m # None /\ t \in found.vectors THEN cosines[t] ELSE 0]
               tools == Fuse(C, QueryChannels(C, lexical, semantic))
    <2>3. semantic \in [C -> Int]
      <3>1. Cosines \subseteq Int
        BY ToolsAssumption
      <3>2. \A t \in found.vectors : cosines[t] \in Int
        BY <3>1
      <3> QED
        BY <3>2
    <2>4. \/ found' = [at |-> "listed", tools |-> <<>>]
          \/ found' = [at |-> "listed", used |-> found.memory # {}, tools |-> tools,
                       lexical |-> lexical, semantic |-> semantic]
      BY <2>2
    <2>5. \A t, u \in C :
            /\ lexical[t] > lexical[u]
            /\ (\E x \in C : semantic[x] # 0) => semantic[t] > semantic[u]
            => LET place(x) == Cardinality({i \in DOMAIN tools : \A j \in 1 .. i : tools[j] # x})
               IN place(t) < place(u) \/ place(u) = Len(tools)
      <3> HIDE DEF semantic
      <3> QED
        BY <2>1, <2>3, RankingKeepsFirst
    <2> HIDE DEF semantic, tools
    <2>6. CASE found' = [at |-> "listed", tools |-> <<>>]
      BY <2>6 DEF FoundInv, Candidates, BetterToolFirst
    <2>7. CASE found' = [at |-> "listed", used |-> found.memory # {}, tools |-> tools,
                         lexical |-> lexical, semantic |-> semantic]
      <3>1. /\ found'.at = "listed" /\ found'.tools = tools
            /\ found'.lexical = lexical /\ found'.semantic = semantic
        BY <2>7
      <3>2. DOMAIN lexical = C /\ DOMAIN semantic = C
        BY <2>3
      <3>3. BetterToolFirst'
        BY <2>5, <3>1, <3>2 DEF BetterToolFirst
      <3> QED
        BY <3>1, <3>3 DEF FoundInv, Candidates
    <2> QED
      BY <2>4, <2>6, <2>7
  <1> QED
    BY <1>1, <1>2, <1>3, FoundStays DEF Discover, DiscoverStep, toolvars

\* Only a discovery changes what is found.
LEMMA FoundInvStep == FoundInv /\ [HttpNext]_allvars => FoundInv'
  <1> SUFFICES ASSUME FoundInv, [HttpNext]_allvars PROVE FoundInv'
    OBVIOUS
  <1>1. CASE Discover \/ DiscoverStep
    BY <1>1, DiscoveryKeepsFirst
  <1>2. UNCHANGED found => FoundInv'
    BY FoundStays
  <1>3. CASE ToolCommands
    BY <1>2, <1>3 DEF ToolCommands, UpsertTool, StartIndexing, EmbedBatch, WriteVector
  <1>4. CASE UNCHANGED allvars
    BY <1>2, <1>4 DEF allvars, toolvars
  <1>5. ASSUME UNCHANGED toolvars PROVE FoundInv'
    BY <1>2, <1>5 DEF toolvars
  <1>6. ASSUME NEW q \in Requests, CallQuery(q) \/ CallHook(q) PROVE UNCHANGED toolvars
    BY <1>6 DEF CallQuery, CallHook
  <1>7. ASSUME NEW c \in Calls, Arrive(c) PROVE UNCHANGED toolvars
    BY <1>7 DEF Arrive
  <1>8. ASSUME NEW n \in 1 .. MaxLines, ToolRender(n) PROVE UNCHANGED toolvars
    BY <1>8 DEF ToolRender
  <1>9. ASSUME NEW c \in Claims, TraceAllowed(c) PROVE UNCHANGED toolvars
    BY <1>9 DEF TraceAllowed
  <1>10. ASSUME NEW t \in Turns, StoreTurn(t) PROVE UNCHANGED toolvars
    BY <1>10 DEF StoreTurn
  <1>11. ASSUME NEW g \in Grants, Grant(g[1], g[2]) PROVE UNCHANGED toolvars
    BY <1>11 DEF Grant
  <1>12. CASE \/ AnyPrincipals \/ ResolvePrincipal \/ HookFindsNothing \/ Serve \/ Trace \/ StoreNothing
             \/ \E C \in SUBSET Stored : ShowWrite(C)
    BY <1>5, <1>12 DEF AnyPrincipals, ResolvePrincipal, HookFindsNothing, Serve, Trace, StoreNothing, ShowWrite
  <1>13. CASE OtherProcesses /\ UNCHANGED <<toolvars, principals, call>>
    BY <1>5, <1>13
  <1> QED
    BY <1>1, <1>3, <1>4, <1>5, <1>6, <1>7, <1>8, <1>9, <1>10, <1>11, <1>12, <1>13 DEF HttpNext

\* However many tools there are, and whatever of them is registered or embedded
\* meanwhile, a discovery neither lists a tool after one that fits the query worse
\* in each channel that counts, nor leaves it out for that one.
THEOREM BetterToolFirstHolds == HttpSpec => []BetterToolFirst
  <1>1. FoundInv => BetterToolFirst
    BY DEF FoundInv
  <1> QED
    BY <1>1, FoundInvInit, FoundInvStep, PTL DEF HttpSpec
==============================================================================
