-------------------------- MODULE AggregationProofs --------------------------
(***************************************************************************)
(* The list of a result page, for any number of engines and lists of any   *)
(* length: each page is on it once, with the engines that found it, in the *)
(* order of the pages' merit.  AggregationInv says that the list merged so *)
(* far tells what was found so far; finish only rearranges it.             *)
(* The panels beside it: one for each id, and things that nothing ties    *)
(* together do not share one.                                              *)
(***************************************************************************)
EXTENDS Aggregation, FiniteSetTheorems, WellFoundedInduction, TLAPS

-----------------------------------------------------------------------------
(* Folds and counting.                                                       *)

(* The order in which places are counted. *)
SmallerNat == {ss \in Nat \X Nat : ss[1] < ss[2]}

(* A set of natural numbers that is not empty has a least member. *)
LEMMA LeastNat ==
  ASSUME NEW T \in SUBSET Nat, T # {}
  PROVE  \E x \in T : \A y \in T : x <= y
<1>1. IsWellFoundedOn(SmallerNat, Nat)
  BY NatLessThanWellFounded, Zenon DEF OpToRel, SmallerNat
<1>2. PICK x \in T : \A y \in T : ~ (<<y, x>> \in SmallerNat)
  BY <1>1, WFMin
<1>3. ASSUME NEW y \in T PROVE x <= y
  <2>1. x \in Nat /\ y \in Nat /\ <<y, x>> \in Nat \X Nat
    OBVIOUS
  <2>2. ~ (y < x)
    BY <1>2, <2>1 DEF SmallerNat
  <2> QED
    BY <2>1, <2>2
<1> QED
  BY <1>3

(* What holds for 0 and is handed on holds up to n. *)
LEMMA Climb ==
  ASSUME NEW n \in Nat, NEW T, 0 \in T, \A k \in 0..(n - 1) : k \in T => k + 1 \in T
  PROVE  \A k \in 0..n : k \in T
<1> DEFINE F == {k \in 0..n : k \notin T}
<1> SUFFICES ASSUME F # {} PROVE FALSE
  OBVIOUS
<1>1. PICK x \in F : \A y \in F : x <= y
  <2>1. F \in SUBSET Nat
    OBVIOUS
  <2> HIDE DEF F
  <2> QED
    BY <2>1, LeastNat
<1>2. x # 0 /\ x - 1 \in 0..(n - 1) /\ (x - 1) + 1 = x /\ x - 1 \notin F
  BY <1>1
<1> QED
  BY <1>1, <1>2

(* The last place of a segment. *)
LEMMA LastPlace ==
  ASSUME NEW k \in Nat, NEW s \in SUBSET (1..(k + 1)), k + 1 \in s
  PROVE  Max(s) = k + 1
<1>1. \A y \in s : k + 1 >= y
  OBVIOUS
<1>2. ASSUME NEW x \in s, \A y \in s : x >= y PROVE x = k + 1
  BY <1>2
<1> QED
  BY <1>1, <1>2 DEF Max

(* A fold over the places 1..n goes through the values 0, 1, ... n. *)
Folding(f, base, step, n) ==
  f = [s \in SUBSET (1..n) |-> IF s = {} THEN base ELSE step[Max(s)][f[s \ {Max(s)}]]]

(* Such a fold exists and stays within the set its steps stay in. *)
LEMMA FoldExists ==
  ASSUME NEW n \in Nat, NEW B, NEW base \in B, NEW step \in [1..n -> [B -> B]]
  PROVE  \E f : Folding(f, base, step, n) /\ f \in [SUBSET (1..n) -> B]
<1> DEFINE T == {k \in 0..n : \E f : Folding(f, base, step, k) /\ f \in [SUBSET (1..k) -> B]}
<1>1. 0 \in T
  <2> DEFINE f == [s \in SUBSET (1..0) |-> base]
  <2>1. SUBSET (1..0) = {{}}
    OBVIOUS
  <2>2. Folding(f, base, step, 0)
    BY <2>1 DEF Folding
  <2>3. f \in [SUBSET (1..0) -> B]
    OBVIOUS
  <2> QED
    BY <2>2, <2>3
<1>2. ASSUME NEW k \in 0..(n - 1), k \in T PROVE k + 1 \in T
  <2>1. PICK f : Folding(f, base, step, k) /\ f \in [SUBSET (1..k) -> B]
    BY <1>2
  <2> DEFINE g == [s \in SUBSET (1..(k + 1)) |->
                     IF k + 1 \in s THEN step[k + 1][f[s \ {k + 1}]] ELSE f[s]]
  <2>2. \A s \in SUBSET (1..(k + 1)) : s \ {k + 1} \in SUBSET (1..k)
    OBVIOUS
  <2>3. \A s \in SUBSET (1..(k + 1)) : k + 1 \notin s => s \in SUBSET (1..k)
    OBVIOUS
  <2>4. step[k + 1] \in [B -> B] /\ k \in Nat /\ k + 1 \in 0..n
    OBVIOUS
  <2>5. g \in [SUBSET (1..(k + 1)) -> B]
    BY <2>1, <2>2, <2>3, <2>4
  <2>6. ASSUME NEW s \in SUBSET (1..(k + 1))
        PROVE  g[s] = IF s = {} THEN base ELSE step[Max(s)][g[s \ {Max(s)}]]
    <3>1. CASE k + 1 \in s
      <4>1. Max(s) = k + 1
        BY <2>4, <3>1, LastPlace
      <4>2. s \ {k + 1} \in SUBSET (1..(k + 1)) /\ k + 1 \notin s \ {k + 1}
        OBVIOUS
      <4>3. g[s \ {k + 1}] = f[s \ {k + 1}]
        BY <4>2
      <4> QED
        BY <3>1, <4>1, <4>3
    <3>2. CASE k + 1 \notin s
      <4>1. s \in SUBSET (1..k) /\ g[s] = f[s]
        BY <2>3, <3>2
      <4>2. f[s] = IF s = {} THEN base ELSE step[Max(s)][f[s \ {Max(s)}]]
        BY <2>1, <4>1 DEF Folding
      <4>3. /\ s \ {Max(s)} \in SUBSET (1..(k + 1)) /\ k + 1 \notin s \ {Max(s)}
            /\ g[s \ {Max(s)}] = f[s \ {Max(s)}]
        BY <3>2
      <4> QED
        BY <4>1, <4>2, <4>3
    <3> QED
      BY <3>1, <3>2
  <2>7. g = [s \in SUBSET (1..(k + 1)) |-> g[s]]
    OBVIOUS
  <2>8. Folding(g, base, step, k + 1)
    <3> HIDE DEF g
    <3> QED
      BY <2>6, <2>7 DEF Folding
  <2> QED
    BY <2>4, <2>5, <2>8
<1> HIDE DEF T
<1>3. \A k \in 0..n : k \in T
  BY <1>1, <1>2, Climb
<1>4. n \in T
  BY <1>3
<1> QED
  BY <1>4 DEF T

(* The last place of a set of places is one of them. *)
LEMMA LastIsMember ==
  ASSUME NEW n \in Nat, NEW s \in SUBSET (1..n), s # {}
  PROVE  Max(s) \in 1..n
<1> DEFINE T == {k \in 0..n : \A t \in SUBSET (1..k) : t # {} => Max(t) \in 1..k}
<1>1. 0 \in T
  <2>1. 0 \in 0..n /\ SUBSET (1..0) = {{}}
    OBVIOUS
  <2> QED
    BY <2>1
<1>2. ASSUME NEW k \in 0..(n - 1), k \in T PROVE k + 1 \in T
  <2>1. ASSUME NEW t \in SUBSET (1..(k + 1)), t # {} PROVE Max(t) \in 1..(k + 1)
    <3>1. CASE k + 1 \in t
      <4>1. Max(t) = k + 1
        BY <3>1, LastPlace
      <4> QED
        BY <4>1
    <3>2. CASE k + 1 \notin t
      <4>1. t \in SUBSET (1..k)
        BY <3>2
      <4>2. Max(t) \in 1..k
        BY <1>2, <2>1, <4>1
      <4> QED
        BY <4>2
    <3> QED
      BY <3>1, <3>2
  <2> QED
    BY <2>1
<1>3. \A k \in 0..n : k \in T
  <2> HIDE DEF T
  <2> QED
    BY <1>1, <1>2, Climb
<1> QED
  BY <1>3

(* The segments of places that a fold goes through. *)
LEMMA Segments ==
  ASSUME NEW n \in Nat
  PROVE  /\ 1..0 = {}
         /\ \A k \in 1..n :
              /\ 1..k \in SUBSET (1..n) /\ 1..k # {} /\ Max(1..k) = k
              /\ (1..k) \ {k} = 1..(k - 1) /\ k - 1 \in 0..n /\ k \in 0..n
<1>1. ASSUME NEW k \in 1..n
      PROVE  /\ 1..k \in SUBSET (1..n) /\ 1..k # {} /\ Max(1..k) = k
             /\ (1..k) \ {k} = 1..(k - 1) /\ k - 1 \in 0..n /\ k \in 0..n
  <2>1. k - 1 \in Nat /\ (k - 1) + 1 = k /\ k \in 1..k /\ k - 1 \in 0..n /\ k \in 0..n
    OBVIOUS
  <2>2. Max(1..k) = k
    BY <2>1, LastPlace
  <2>3. ASSUME NEW x PROVE x \in (1..k) \ {k} <=> x \in 1..(k - 1)
    BY <2>1
  <2>4. (1..k) \ {k} = 1..(k - 1)
    BY <2>3
  <2>5. 1..k \in SUBSET (1..n)
    OBVIOUS
  <2> QED
    BY <2>1, <2>2, <2>4, <2>5
<1> QED
  BY <1>1

-----------------------------------------------------------------------------
(* A stable sort puts the items in order and loses none.                     *)

(* What a stable sort puts in front of i. *)
Ahead(R, n, i) == {j \in 1..n : <<j, i>> \in R \/ (<<i, j>> \notin R /\ j < i)}

(* A strict order of 1..n in which what is not before or after is alike. *)
StrictOrder(R, n) ==
  /\ R \subseteq (1..n) \X (1..n)
  /\ \A i \in 1..n : <<i, i>> \notin R
  /\ \A i, j, k \in 1..n : <<i, j>> \in R /\ <<j, k>> \in R => <<i, k>> \in R
  /\ \A i, j, k \in 1..n : <<i, k>> \in R => <<i, j>> \in R \/ <<j, k>> \in R

(* Of two places one is ahead of the other, and so is all that is ahead of it. *)
LEMMA AheadIsOrder ==
  ASSUME NEW n \in Nat, NEW R, StrictOrder(R, n)
  PROVE  /\ \A i \in 1..n : i \notin Ahead(R, n, i)
         /\ \A i, j \in 1..n : i # j => i \in Ahead(R, n, j) \/ j \in Ahead(R, n, i)
         /\ \A i, j \in 1..n : i \in Ahead(R, n, j) => Ahead(R, n, i) \subseteq Ahead(R, n, j)
<1>1. ASSUME NEW i \in 1..n PROVE i \notin Ahead(R, n, i)
  BY DEF Ahead, StrictOrder
<1>2. ASSUME NEW i \in 1..n, NEW j \in 1..n, i # j
      PROVE  i \in Ahead(R, n, j) \/ j \in Ahead(R, n, i)
  <2>1. i < j \/ j < i
    BY <1>2
  <2> QED
    BY <2>1 DEF Ahead
<1>3. ASSUME NEW i \in 1..n, NEW j \in 1..n, i \in Ahead(R, n, j), NEW k \in Ahead(R, n, i)
      PROVE  k \in Ahead(R, n, j)
  <2>1. k \in 1..n /\ (<<k, i>> \in R \/ (<<i, k>> \notin R /\ k < i))
    BY <1>3 DEF Ahead
  <2>2. <<i, j>> \in R \/ (<<j, i>> \notin R /\ i < j)
    BY <1>3 DEF Ahead
  <2>3. CASE <<k, j>> \in R
    BY <2>1, <2>3 DEF Ahead
  <2>4. CASE <<k, j>> \notin R
    <3>1. <<k, i>> \notin R \/ <<i, j>> \notin R
      BY <2>1, <2>4 DEF StrictOrder
    <3>2. <<i, j>> \notin R
      BY <2>1, <2>4, <3>1 DEF StrictOrder
    <3>3. <<k, i>> \notin R
      BY <2>1, <2>2, <2>4, <3>2 DEF StrictOrder
    <3>4. k < i /\ i < j /\ <<i, k>> \notin R /\ <<j, i>> \notin R
      BY <2>1, <2>2, <3>2, <3>3
    <3>5. <<j, k>> \notin R
      BY <2>1, <3>4 DEF StrictOrder
    <3>6. k < j
      BY <2>1, <3>4
    <3> QED
      BY <2>1, <3>5, <3>6 DEF Ahead
  <2> QED
    BY <2>3, <2>4
<1> QED
  BY <1>1, <1>2, <1>3

(* The k-th of a sorted list is the one that k - 1 others are ahead of: there  *)
(* is one for each k, so the list is rearranged, and what should come earlier  *)
(* does.                                                                       *)
LEMMA SortPermutes ==
  ASSUME NEW n \in Nat, NEW R, StrictOrder(R, n)
  PROVE  /\ \A k \in 1..n : \E i \in 1..n : Cardinality(Ahead(R, n, i)) = k - 1
         /\ \A p \in [1..n -> 1..n] :
              (\A k \in 1..n : Cardinality(Ahead(R, n, p[k])) = k - 1) =>
                /\ \A k, l \in 1..n : p[k] = p[l] => k = l
                /\ \A i \in 1..n : \E k \in 1..n : p[k] = i
                /\ \A k, l \in 1..n : k < l => <<p[l], p[k]>> \notin R
<1> DEFINE rank(i) == Cardinality(Ahead(R, n, i))
<1>1. IsFiniteSet(1..n) /\ Cardinality(1..n) = n /\ Cardinality(0..(n - 1)) = n /\ IsFiniteSet(0..(n - 1))
  BY FS_Interval
<1>2. ASSUME NEW i \in 1..n PROVE IsFiniteSet(Ahead(R, n, i)) /\ rank(i) \in 0..(n - 1)
  <2>1. IsFiniteSet((1..n) \ {i}) /\ Cardinality((1..n) \ {i}) = n - 1
    BY <1>1, FS_RemoveElement
  <2>2. Ahead(R, n, i) \in SUBSET ((1..n) \ {i})
    BY AheadIsOrder DEF Ahead
  <2>3. IsFiniteSet(Ahead(R, n, i)) /\ rank(i) <= n - 1
    BY <2>1, <2>2, FS_Subset
  <2>4. rank(i) \in Nat
    BY <2>3, FS_CardinalityType
  <2> QED
    BY <2>3, <2>4
<1>3. ASSUME NEW i \in 1..n, NEW j \in 1..n, i \in Ahead(R, n, j) PROVE rank(i) < rank(j)
  <2>1. Ahead(R, n, i) \in SUBSET Ahead(R, n, j) /\ Ahead(R, n, i) # Ahead(R, n, j)
    BY <1>3, AheadIsOrder
  <2>2. rank(i) <= rank(j) /\ rank(i) # rank(j)
    BY <1>2, <2>1, FS_Subset
  <2> QED
    BY <1>2, <2>2
<1> DEFINE f == [i \in 1..n |-> rank(i)]
<1>4. f \in [1..n -> 0..(n - 1)]
  BY <1>2
<1>5. ASSUME NEW i \in 1..n, NEW j \in 1..n, rank(i) = rank(j) PROVE i = j
  <2>1. rank(i) \in Int /\ rank(j) \in Int
    BY <1>2
  <2> HIDE DEF rank
  <2> QED
    BY <1>3, <1>5, <2>1, AheadIsOrder
<1>6. f \in Injection(1..n, 0..(n - 1))
  <2> HIDE DEF rank
  <2> QED
    BY <1>4, <1>5 DEF Injection, IsInjective
<1>7. f \in Surjection(1..n, 0..(n - 1))
  <2> HIDE DEF f
  <2> QED
    BY <1>1, <1>6, FS_Injection
<1> HIDE DEF rank
<1>8. ASSUME NEW k \in 1..n PROVE \E i \in 1..n : rank(i) = k - 1
  <2>1. k - 1 \in 0..(n - 1)
    OBVIOUS
  <2> QED
    BY <1>7, <2>1 DEF Surjection
<1>9. ASSUME NEW p \in [1..n -> 1..n], \A k \in 1..n : rank(p[k]) = k - 1
      PROVE  /\ \A k, l \in 1..n : p[k] = p[l] => k = l
             /\ \A i \in 1..n : \E k \in 1..n : p[k] = i
             /\ \A k, l \in 1..n : k < l => <<p[l], p[k]>> \notin R
  <2>1. ASSUME NEW k \in 1..n, NEW l \in 1..n, p[k] = p[l] PROVE k = l
    <3>1. k - 1 = l - 1
      BY <1>9, <2>1
    <3> QED
      BY <3>1
  <2>2. ASSUME NEW i \in 1..n PROVE \E k \in 1..n : p[k] = i
    <3>1. rank(i) + 1 \in 1..n /\ (rank(i) + 1) - 1 = rank(i)
      <4>1. rank(i) \in 0..(n - 1)
        BY <1>2
      <4> QED
        BY <4>1
    <3>2. p[rank(i) + 1] \in 1..n /\ rank(p[rank(i) + 1]) = rank(i)
      BY <1>9, <3>1
    <3>3. p[rank(i) + 1] = i
      BY <1>5, <3>2
    <3> QED
      BY <3>1, <3>3
  <2>3. ASSUME NEW k \in 1..n, NEW l \in 1..n, k < l, <<p[l], p[k]>> \in R PROVE FALSE
    <3>1. p[l] \in Ahead(R, n, p[k])
      BY <2>3 DEF Ahead
    <3>2. rank(p[l]) < rank(p[k])
      BY <1>3, <3>1
    <3>3. rank(p[l]) = l - 1 /\ rank(p[k]) = k - 1
      BY <1>9
    <3> QED
      BY <2>3, <3>2, <3>3
  <2> QED
    BY <2>1, <2>2, <2>3
<1> QED
  BY <1>8, <1>9 DEF rank

-----------------------------------------------------------------------------
(* What engines find, and what a merged result says of it.                   *)

(* What one engine says of one page at one place of its list, and whose turn *)
(* it was.                                                                   *)
Finding == [page: STRING, turn: Nat, engine: DOMAIN Weight, position: Nat \ {0}, text: Text]

\* The finding that a result at a place of an engine's list is.
FindingOf(turn, engine, x, position) ==
  [page |-> x.url.page, turn |-> turn, engine |-> engine, position |-> position, text |-> x.text]

\* The order in which ingest meets findings.
Earlier(g, h) == g.turn < h.turn \/ (g.turn = h.turn /\ g.position < h.position)

\* What is found at this place comes after all of these.
ComesAfter(turn, position, G) ==
  \A h \in G : h.turn < turn \/ (h.turn = turn /\ h.position < position)

(* An entry of ContainerBuilder. *)
MergedResult ==
  [key: {merge_key(x) : x \in Result}, result: Result,
   engines: Seq(DOMAIN Weight), positions: Seq(Nat \ {0})]

\* The findings of a page.
About(G, page) == {g \in G : g.page = page}

(* A merged result credits each engine that found its page, once and with its *)
(* best position, and shows the first text that is no stub, if there is one.  *)
EachEngineOnce(m) ==
  /\ DOMAIN m.engines = DOMAIN m.positions
  /\ \A j, k \in DOMAIN m.engines : m.engines[j] = m.engines[k] => j = k

BestPositions(m, F) ==
  /\ \A g \in F : \E j \in DOMAIN m.engines :
       m.engines[j] = g.engine /\ m.positions[j] <= g.position
  /\ \A j \in DOMAIN m.engines : \E g \in F :
       m.engines[j] = g.engine /\ m.positions[j] = g.position

\* The first of the findings that is no stub, or the first of all.
ShownOf(g, F) ==
  /\ g.text.stub => \A h \in F : h.text.stub
  /\ \A h \in F : h.text.stub = g.text.stub => h = g \/ Earlier(g, h)

BestText(m, F) == \E g \in F : m.result.text = g.text /\ ShownOf(g, F)

Credited(m, F) == EachEngineOnce(m) /\ BestPositions(m, F) /\ BestText(m, F)

(* The least of a set of numbers. *)
LEMMA MinIsLeast ==
  ASSUME NEW T \in SUBSET Nat, T # {}
  PROVE  Min(T) \in T /\ \A y \in T : Min(T) <= y
<1>1. PICK x \in T : \A y \in T : x <= y
  BY LeastNat
<1> QED
  BY <1>1 DEF Min

(* The place of an engine in the list of a page's engines. *)
EnginePlace(m, engine) == SelectInSeq(m.engines, LAMBDA e : e = engine)

(* An engine that has a place is found at it, and only then. *)
LEMMA EngineFound ==
  ASSUME NEW m \in MergedResult, NEW engine
  PROVE  /\ EnginePlace(m, engine) > 0 =>
              EnginePlace(m, engine) \in DOMAIN m.engines /\ m.engines[EnginePlace(m, engine)] = engine
         /\ ~(EnginePlace(m, engine) > 0) => \A j \in DOMAIN m.engines : m.engines[j] # engine
<1> DEFINE I == {j \in 1..Len(m.engines) : m.engines[j] = engine}
<1>1. EnginePlace(m, engine) = IF I # {} THEN Min(I) ELSE 0
  BY DEF EnginePlace, SelectInSeq
<1>2. m.engines \in Seq(DOMAIN Weight) /\ DOMAIN m.engines = 1..Len(m.engines) /\ I \in SUBSET Nat
  BY DEF MergedResult
<1>3. CASE I # {}
  <2>1. Min(I) \in I
    <3> HIDE DEF I
    <3> QED
      BY <1>2, <1>3, MinIsLeast
  <2> QED
    BY <1>1, <1>2, <1>3, <2>1
<1>4. CASE I = {}
  BY <1>1, <1>2, <1>4
<1> QED
  BY <1>3, <1>4

(* maybe_upgrade_content keeps the first text that is no stub. *)
LEMMA TextUpgraded ==
  ASSUME NEW m \in MergedResult, NEW x \in Result, NEW F \in SUBSET Finding, BestText(m, F),
         NEW g \in Finding, g.text = x.text, ComesAfter(g.turn, g.position, F)
  PROVE  LET u == maybe_upgrade_content(m, x) IN
         /\ u \in MergedResult /\ BestText(u, F \cup {g})
         /\ u.key = m.key /\ u.engines = m.engines /\ u.positions = m.positions
         /\ u.result.url = m.result.url /\ u.result.priority = m.result.priority
         /\ u.result.kind = m.result.kind
<1> DEFINE u == maybe_upgrade_content(m, x)
<1>1. m.result \in Result /\ m.result.text \in Text /\ x.text \in Text
  BY DEF MergedResult, Result
<1>2. PICK f \in F : m.result.text = f.text /\ ShownOf(f, F)
  BY DEF BestText
<1>3. CASE m.result.text.stub /\ ~x.text.stub
  <2> DEFINE r == [m.result EXCEPT !.text = x.text]
  <2>1. u = [m EXCEPT !.result = r]
    BY <1>3 DEF maybe_upgrade_content
  <2>2. /\ r \in Result /\ r.text = x.text /\ r.url = m.result.url
        /\ r.priority = m.result.priority /\ r.kind = m.result.kind
    BY <1>1 DEF Result
  <2> HIDE DEF r
  <2>3. /\ u \in MergedResult /\ u.result = r /\ u.key = m.key
        /\ u.engines = m.engines /\ u.positions = m.positions
    BY <2>1, <2>2 DEF MergedResult
  <2> HIDE DEF u
  <2>4. ShownOf(g, F \cup {g})
    BY <1>2, <1>3 DEF ShownOf
  <2>5. BestText(u, F \cup {g})
    BY <2>2, <2>3, <2>4 DEF BestText
  <2> QED
    BY <2>2, <2>3, <2>5 DEF u
<1>4. CASE ~(m.result.text.stub /\ ~x.text.stub)
  <2>1. u = m
    BY <1>4 DEF maybe_upgrade_content
  <2>2. Earlier(f, g)
    BY DEF ComesAfter, Earlier
  <2>3. ShownOf(f, F \cup {g})
    BY <1>2, <1>4, <2>2 DEF ShownOf
  <2>4. BestText(m, F \cup {g})
    BY <1>2, <2>3 DEF BestText
  <2> QED
    BY <2>1, <2>4
<1> QED
  BY <1>3, <1>4

(* record_engine_position credits the engine once, with its best position. *)
LEMMA PositionRecorded ==
  ASSUME NEW m \in MergedResult, NEW F \in SUBSET Finding, EachEngineOnce(m), BestPositions(m, F),
         NEW g \in Finding
  PROVE  LET u == record_engine_position(m, g.engine, g.position) IN
         /\ u \in MergedResult /\ u.result = m.result /\ u.key = m.key
         /\ EachEngineOnce(u) /\ BestPositions(u, F \cup {g})
<1> DEFINE e == g.engine
           p == g.position
           u == record_engine_position(m, e, p)
           i == EnginePlace(m, e)
<1>1. e \in DOMAIN Weight /\ p \in Nat \ {0}
  BY DEF Finding
<1>2. /\ m.engines \in Seq(DOMAIN Weight) /\ m.positions \in Seq(Nat \ {0})
      /\ DOMAIN m.engines = 1..Len(m.engines) /\ DOMAIN m.positions = 1..Len(m.positions)
      /\ Len(m.engines) \in Nat /\ DOMAIN m.engines = DOMAIN m.positions
  BY DEF MergedResult, EachEngineOnce
<1>3. CASE i > 0
  <2>1. i \in DOMAIN m.engines /\ m.engines[i] = e
    BY <1>3, EngineFound
  <2> DEFINE best == IF p < m.positions[i] THEN p ELSE m.positions[i]
             ps == [m.positions EXCEPT ![i] = best]
  <2>2. u = [m EXCEPT !.positions = ps]
    BY <1>3, <2>1 DEF record_engine_position, keep_best_position, EnginePlace
  <2>3. i \in DOMAIN m.positions /\ m.positions[i] \in Nat \ {0} /\ best \in Nat \ {0}
    BY <1>1, <1>2, <2>1
  <2>4. /\ ps \in Seq(Nat \ {0}) /\ DOMAIN ps = DOMAIN m.positions /\ ps[i] = best
        /\ \A j \in DOMAIN ps : j # i => ps[j] = m.positions[j]
    <3> HIDE DEF best
    <3> QED
      BY <1>2, <2>3
  <2>5. best <= p /\ best <= m.positions[i] /\ (best = p \/ best = m.positions[i])
    BY <1>1, <2>3
  <2> HIDE DEF best, ps
  <2>6. /\ u \in MergedResult /\ u.result = m.result /\ u.key = m.key
        /\ u.engines = m.engines /\ u.positions = ps
    BY <2>2, <2>4 DEF MergedResult
  <2> HIDE DEF u
  <2>7. EachEngineOnce(u)
    BY <1>2, <2>4, <2>6 DEF EachEngineOnce
  <2>8. ASSUME NEW h \in F \cup {g}
        PROVE  \E j \in DOMAIN u.engines : u.engines[j] = h.engine /\ u.positions[j] <= h.position
    <3>1. CASE h = g
      BY <2>1, <2>4, <2>5, <2>6, <3>1
    <3>2. CASE h \in F
      <4>1. PICK j \in DOMAIN m.engines : m.engines[j] = h.engine /\ m.positions[j] <= h.position
        BY <3>2 DEF BestPositions
      <4>2. CASE j = i
        <5>1. h.position \in Nat
          BY <3>2 DEF Finding
        <5>2. best <= h.position
          BY <2>3, <2>5, <4>1, <4>2, <5>1
        <5> QED
          BY <2>4, <2>6, <4>1, <4>2, <5>2
      <4>3. CASE j # i
        BY <1>2, <2>4, <2>6, <4>1, <4>3
      <4> QED
        BY <4>2, <4>3
    <3> QED
      BY <3>1, <3>2
  <2>9. ASSUME NEW j \in DOMAIN u.engines
        PROVE  \E h \in F \cup {g} : u.engines[j] = h.engine /\ u.positions[j] = h.position
    <3>1. PICK h \in F : m.engines[j] = h.engine /\ m.positions[j] = h.position
      BY <2>6 DEF BestPositions
    <3>2. CASE j = i
      BY <2>1, <2>4, <2>5, <2>6, <3>1, <3>2
    <3>3. CASE j # i
      BY <1>2, <2>4, <2>6, <3>1, <3>3
    <3> QED
      BY <3>2, <3>3
  <2>10. BestPositions(u, F \cup {g})
    BY <2>8, <2>9 DEF BestPositions
  <2> QED
    BY <2>6, <2>7, <2>10 DEF u
<1>4. CASE ~(i > 0)
  <2>1. \A j \in DOMAIN m.engines : m.engines[j] # e
    BY <1>4, EngineFound
  <2> DEFINE es == Append(m.engines, e)
             ps == Append(m.positions, p)
             top == Len(m.engines) + 1
  <2>2. u = [m EXCEPT !.engines = es, !.positions = ps]
    BY <1>4 DEF record_engine_position, EnginePlace
  <2>3. Len(m.positions) = Len(m.engines)
    BY <1>2
  <2>4. /\ es \in Seq(DOMAIN Weight) /\ ps \in Seq(Nat \ {0})
        /\ DOMAIN es = 1..top /\ DOMAIN ps = 1..top /\ es[top] = e /\ ps[top] = p
    BY <1>1, <1>2, <2>3
  <2>5. \A j \in 1..top : j # top =>
          j \in DOMAIN m.engines /\ es[j] = m.engines[j] /\ ps[j] = m.positions[j]
    BY <1>1, <1>2, <2>3
  <2>6. \A j \in DOMAIN m.engines : j \in 1..top /\ j # top
    BY <1>2
  <2>7. top \in 1..top
    BY <1>2
  <2> HIDE DEF es, ps, top
  <2>8. /\ u \in MergedResult /\ u.result = m.result /\ u.key = m.key
        /\ u.engines = es /\ u.positions = ps
    BY <2>2, <2>4 DEF MergedResult
  <2> HIDE DEF u
  <2>9. EachEngineOnce(u)
    <3>1. ASSUME NEW j \in 1..top, NEW k \in 1..top, es[j] = es[k] PROVE j = k
      BY <2>1, <2>4, <2>5, <3>1 DEF EachEngineOnce
    <3> QED
      BY <2>4, <2>8, <3>1 DEF EachEngineOnce
  <2>10. ASSUME NEW h \in F \cup {g}
         PROVE  \E j \in DOMAIN u.engines : u.engines[j] = h.engine /\ u.positions[j] <= h.position
    <3>1. CASE h = g
      <4>1. p <= p
        BY <1>1
      <4> QED
        BY <2>4, <2>7, <2>8, <3>1, <4>1
    <3>2. CASE h \in F
      <4>1. PICK j \in DOMAIN m.engines : m.engines[j] = h.engine /\ m.positions[j] <= h.position
        BY <3>2 DEF BestPositions
      <4> QED
        BY <2>4, <2>5, <2>6, <2>8, <4>1
    <3> QED
      BY <3>1, <3>2
  <2>11. ASSUME NEW j \in DOMAIN u.engines
         PROVE  \E h \in F \cup {g} : u.engines[j] = h.engine /\ u.positions[j] = h.position
    <3>1. CASE j = top
      BY <2>4, <2>8, <3>1
    <3>2. CASE j # top
      <4>1. j \in DOMAIN m.engines /\ es[j] = m.engines[j] /\ ps[j] = m.positions[j]
        BY <2>4, <2>5, <2>8, <3>2
      <4> QED
        BY <2>8, <4>1 DEF BestPositions
    <3> QED
      BY <3>1, <3>2
  <2>12. BestPositions(u, F \cup {g})
    BY <2>10, <2>11 DEF BestPositions
  <2> QED
    BY <2>8, <2>9, <2>12 DEF u
<1> QED
  BY <1>3, <1>4

-----------------------------------------------------------------------------
(* The list of merged results tells what was found.                          *)

(* A merged result stands for one that was listed, but for its text. *)
StandsFor(m, x) ==
  /\ m.key = merge_key(x) /\ m.result.url = x.url
  /\ m.result.priority = x.priority /\ m.result.kind = x.kind

(* The list ms says what was found, each page once. *)
Lists(S, ms, G) ==
  /\ ms \in Seq(MergedResult) /\ G \in SUBSET Finding
  /\ \A i \in DOMAIN ms : \E x \in S : StandsFor(ms[i], x)
  /\ \A i, j \in DOMAIN ms : PageShown(ms[i]) = PageShown(ms[j]) => i = j
  /\ \A g \in G : \E i \in DOMAIN ms : PageShown(ms[i]) = g.page
  /\ \A i \in DOMAIN ms : Credited(ms[i], About(G, PageShown(ms[i])))

(* A listed result with a key has a page, and its finding is typed. *)
LEMMA FindingTyped ==
  ASSUME NEW S \in SUBSET Result, KeyedByPage(S), NEW x \in S,
         NEW turn \in Nat, NEW e \in DOMAIN Weight, NEW p \in Nat \ {0}
  PROVE  FindingOf(turn, e, x, p) \in Finding /\ x.url \in Url
<1>1. x.url \in Url
  BY DEF KeyedByPage, merge_key, Result
<1> QED
  BY <1>1 DEF FindingOf, Finding, Url, Result

(* A result of a page that is on the list. *)
LEMMA KnownPage ==
  ASSUME NEW S \in SUBSET Result, KeyedByPage(S), NEW ms, NEW G, Lists(S, ms, G),
         NEW x \in S, NEW turn \in Nat, NEW e \in DOMAIN Weight, NEW p \in Nat \ {0},
         ComesAfter(turn, p, G), NEW i \in DOMAIN ms, ms[i].key = merge_key(x)
  PROVE  Lists(S, [ms EXCEPT ![i] = record_engine_position(maybe_upgrade_content(ms[i], x), e, p)],
               G \cup {FindingOf(turn, e, x, p)})
<1> DEFINE g == FindingOf(turn, e, x, p)
           m == ms[i]
           t == maybe_upgrade_content(m, x)
           u == record_engine_position(t, e, p)
           G2 == G \cup {g}
           ms2 == [ms EXCEPT ![i] = u]
<1>1. /\ g \in Finding /\ g.turn = turn /\ g.engine = e /\ g.position = p
      /\ g.page = x.url.page /\ g.text = x.text
  BY FindingTyped DEF FindingOf
<1>2. m \in MergedResult /\ G \in SUBSET Finding /\ ms \in Seq(MergedResult)
  BY DEF Lists
<1>3. PageShown(m) = g.page
  BY <1>1, <1>2 DEF Lists, StandsFor, KeyedByPage, PageShown
<1> DEFINE F == About(G, PageShown(m))
<1>4. F \in SUBSET Finding /\ EachEngineOnce(m) /\ BestPositions(m, F) /\ BestText(m, F)
  BY <1>2 DEF Lists, Credited, About
<1> HIDE DEF m
<1>5. /\ t \in MergedResult /\ BestText(t, F \cup {g})
      /\ t.key = m.key /\ t.engines = m.engines /\ t.positions = m.positions
      /\ t.result.url = m.result.url /\ t.result.priority = m.result.priority
      /\ t.result.kind = m.result.kind
  <2> HIDE DEF F, g
  <2>1. x \in Result
    OBVIOUS
  <2>2. ComesAfter(g.turn, g.position, F)
    BY <1>1, <1>4 DEF ComesAfter, F, About
  <2> QED
    BY <1>1, <1>2, <1>4, <2>1, <2>2, TextUpgraded
<1>6. EachEngineOnce(t) /\ BestPositions(t, F)
  BY <1>4, <1>5 DEF EachEngineOnce, BestPositions
<1>7. /\ u \in MergedResult /\ u.result = t.result /\ u.key = t.key
      /\ EachEngineOnce(u) /\ BestPositions(u, F \cup {g})
  BY <1>1, <1>4, <1>5, <1>6, PositionRecorded
<1>8. Credited(u, F \cup {g})
  BY <1>5, <1>7 DEF Credited, BestText
<1>9. PageShown(u) = PageShown(m) /\ \A y \in S : StandsFor(m, y) => StandsFor(u, y)
  BY <1>5, <1>7 DEF StandsFor, PageShown
<1> HIDE DEF u
<1>10. /\ ms2 \in Seq(MergedResult) /\ DOMAIN ms2 = DOMAIN ms /\ ms2[i] = u
       /\ \A j \in DOMAIN ms : j # i => ms2[j] = ms[j]
  BY <1>2, <1>7
<1> HIDE DEF ms2
<1>11. \A j \in DOMAIN ms : PageShown(ms2[j]) = PageShown(ms[j])
  BY <1>9, <1>10 DEF PageShown, m
<1>12. About(G2, PageShown(u)) = F \cup {g}
  BY <1>3, <1>9 DEF About
<1>13. ASSUME NEW j \in DOMAIN ms2 PROVE Credited(ms2[j], About(G2, PageShown(ms2[j])))
  <2>1. CASE j = i
    BY <1>8, <1>10, <1>12, <2>1
  <2>2. CASE j # i
    <3>1. PageShown(ms[j]) # g.page
      BY <1>3, <1>10, <2>2 DEF Lists, m
    <3>2. About(G2, PageShown(ms[j])) = About(G, PageShown(ms[j]))
      BY <3>1 DEF About
    <3> QED
      BY <1>10, <2>2, <3>2 DEF Lists
  <2> QED
    BY <2>1, <2>2
<1>14. ASSUME NEW j \in DOMAIN ms2 PROVE \E y \in S : StandsFor(ms2[j], y)
  BY <1>9, <1>10 DEF Lists, m
<1>15. ASSUME NEW h \in G2 PROVE \E j \in DOMAIN ms2 : PageShown(ms2[j]) = h.page
  BY <1>3, <1>10, <1>11 DEF Lists, m
<1>16. \A j, k \in DOMAIN ms2 : PageShown(ms2[j]) = PageShown(ms2[k]) => j = k
  BY <1>10, <1>11 DEF Lists
<1>17. G2 \in SUBSET Finding
  BY <1>1, <1>2
<1>18. Lists(S, ms2, G2)
  <2> HIDE DEF G2
  <2> QED
    BY <1>10, <1>13, <1>14, <1>15, <1>16, <1>17 DEF Lists
<1> QED
  BY <1>18 DEF ms2, u, t, m

(* A result of a page that is not. *)
LEMMA NewPage ==
  ASSUME NEW S \in SUBSET Result, KeyedByPage(S), NEW ms, NEW G, Lists(S, ms, G),
         NEW x \in S, NEW turn \in Nat, NEW e \in DOMAIN Weight, NEW p \in Nat \ {0},
         \A i \in DOMAIN ms : ms[i].key # merge_key(x)
  PROVE  Lists(S, push_new(ms, e, x, p), G \cup {FindingOf(turn, e, x, p)})
<1> DEFINE g == FindingOf(turn, e, x, p)
           new == [key |-> merge_key(x), result |-> x, engines |-> <<e>>, positions |-> <<p>>]
           G2 == G \cup {g}
           top == Len(ms) + 1
           ms2 == Append(ms, new)
<1>1. /\ g \in Finding /\ g.turn = turn /\ g.engine = e /\ g.position = p
      /\ g.page = x.url.page /\ g.text = x.text
  BY FindingTyped DEF FindingOf
<1>2. G \in SUBSET Finding /\ ms \in Seq(MergedResult)
  BY DEF Lists
<1>3. new \in MergedResult /\ PageShown(new) = g.page /\ StandsFor(new, x)
  BY <1>1 DEF MergedResult, PageShown, StandsFor
<1>4. Credited(new, {g})
  <2>1. /\ DOMAIN new.engines = {1} /\ DOMAIN new.positions = {1}
        /\ new.engines[1] = g.engine /\ new.positions[1] = g.position /\ new.result.text = g.text
    BY <1>1
  <2>2. g.position <= g.position
    BY <1>1
  <2> HIDE DEF new, g
  <2> QED
    BY <2>1, <2>2 DEF Credited, EachEngineOnce, BestPositions, BestText, ShownOf
<1>5. \A i \in DOMAIN ms : PageShown(ms[i]) # g.page
  BY <1>1 DEF Lists, StandsFor, KeyedByPage, PageShown
<1>6. About(G, g.page) = {}
  BY <1>5 DEF Lists, About
<1> HIDE DEF new
<1>7. /\ ms2 \in Seq(MergedResult) /\ top \in DOMAIN ms2 /\ ms2[top] = new
      /\ \A j \in DOMAIN ms2 : j # top => j \in DOMAIN ms /\ ms2[j] = ms[j]
      /\ \A j \in DOMAIN ms : j \in DOMAIN ms2 /\ j # top /\ ms2[j] = ms[j]
  BY <1>2, <1>3
<1> HIDE DEF ms2, top
<1>8. ASSUME NEW j \in DOMAIN ms2 PROVE Credited(ms2[j], About(G2, PageShown(ms2[j])))
  <2>1. CASE j = top
    <3>1. About(G2, g.page) = {g}
      BY <1>6 DEF About
    <3> QED
      BY <1>3, <1>4, <1>7, <2>1, <3>1
  <2>2. CASE j # top
    <3>1. j \in DOMAIN ms /\ ms2[j] = ms[j] /\ PageShown(ms[j]) # g.page
      BY <1>5, <1>7, <2>2
    <3>2. About(G2, PageShown(ms[j])) = About(G, PageShown(ms[j]))
      BY <3>1 DEF About
    <3> QED
      BY <3>1, <3>2 DEF Lists
  <2> QED
    BY <2>1, <2>2
<1>9. ASSUME NEW j \in DOMAIN ms2 PROVE \E y \in S : StandsFor(ms2[j], y)
  BY <1>3, <1>7 DEF Lists
<1>10. ASSUME NEW h \in G2 PROVE \E j \in DOMAIN ms2 : PageShown(ms2[j]) = h.page
  <2>1. CASE h = g
    BY <1>3, <1>7, <2>1
  <2>2. CASE h \in G
    <3>1. PICK j \in DOMAIN ms : PageShown(ms[j]) = h.page
      BY <2>2 DEF Lists
    <3> QED
      BY <1>7, <3>1
  <2> QED
    BY <2>1, <2>2
<1>11. ASSUME NEW j \in DOMAIN ms2, NEW k \in DOMAIN ms2, PageShown(ms2[j]) = PageShown(ms2[k]) PROVE j = k
  <2>1. CASE j = top
    BY <1>3, <1>5, <1>7, <1>11, <2>1
  <2>2. CASE k = top
    BY <1>3, <1>5, <1>7, <1>11, <2>2
  <2>3. CASE j # top /\ k # top
    BY <1>7, <1>11, <2>3 DEF Lists
  <2> QED
    BY <2>1, <2>2, <2>3
<1>12. G2 \in SUBSET Finding
  BY <1>1, <1>2
<1>13. Lists(S, ms2, G2)
  <2> HIDE DEF G2
  <2> QED
    BY <1>7, <1>8, <1>9, <1>10, <1>11, <1>12 DEF Lists
<1> QED
  BY <1>13 DEF ms2, new, push_new

(* merge_main keeps the list true, whether its page is known or new. *)
LEMMA MergeStep ==
  ASSUME NEW S \in SUBSET Result, KeyedByPage(S), NEW ms, NEW G, Lists(S, ms, G),
         NEW x \in S, NEW turn \in Nat, NEW e \in DOMAIN Weight, NEW p \in Nat \ {0},
         ComesAfter(turn, p, G)
  PROVE  Lists(S, merge_main(ms, e, x, p), G \cup {FindingOf(turn, e, x, p)})
<1> DEFINE key == merge_key(x)
           I == {i \in 1..Len(ms) : key # Absent /\ ms[i].key = key}
           existing == IF I # {} THEN Min(I) ELSE 0
<1>1. merge_main(ms, e, x, p) =
        IF existing = 0 THEN push_new(ms, e, x, p)
        ELSE [ms EXCEPT ![existing] =
                record_engine_position(maybe_upgrade_content(ms[existing], x), e, p)]
  BY DEF merge_main, SelectInSeq
<1>2. key # Absent /\ ms \in Seq(MergedResult) /\ DOMAIN ms = 1..Len(ms) /\ I \in SUBSET Nat
  BY DEF KeyedByPage, Lists
<1>3. CASE I = {}
  <2>1. \A i \in DOMAIN ms : ms[i].key # key
    BY <1>2, <1>3
  <2>2. existing = 0
    BY <1>3
  <2> QED
    BY <1>1, <2>1, <2>2, NewPage
<1>4. CASE I # {}
  <2>1. Min(I) \in I
    <3> HIDE DEF I
    <3> QED
      BY <1>2, <1>4, MinIsLeast
  <2>2. existing \in DOMAIN ms /\ existing # 0 /\ ms[existing].key = key
    BY <1>2, <1>4, <2>1
  <2> HIDE DEF existing
  <2> DEFINE ms2 == [ms EXCEPT ![existing] =
                       record_engine_position(maybe_upgrade_content(ms[existing], x), e, p)]
  <2>3. merge_main(ms, e, x, p) = ms2
    BY <1>1, <2>2
  <2>4. Lists(S, ms2, G \cup {FindingOf(turn, e, x, p)})
    BY <2>2, KnownPage
  <2> HIDE DEF ms2
  <2> QED
    BY <2>3, <2>4
<1> QED
  BY <1>3, <1>4

\* The findings of the first k results of an engine.
Findings(turn, e, rs, k) == {FindingOf(turn, e, rs[i], i) : i \in 1..k}

\* All of these were found before a turn.
FoundEarlier(G, turn) == \A h \in G : h.turn < turn

(* The fold of ingest, written out. *)
Ingesting(f, e, ms, placed) ==
  f = [s \in SUBSET DOMAIN placed |->
         IF s = {} THEN ms
         ELSE merge_main(f[s \ {Max(s)}], e, placed[Max(s)][2], placed[Max(s)][1])]

(* The results of one engine are merged into a list, one after the other. *)
LEMMA ResultsMerged ==
  ASSUME NEW S \in SUBSET Result, KeyedByPage(S), NEW ms, NEW G, Lists(S, ms, G),
         NEW turn \in Nat, FoundEarlier(G, turn), NEW e \in DOMAIN Weight, NEW rs \in Seq(S)
  PROVE  LET placed == [i \in DOMAIN rs |-> <<i, rs[i]>>] IN
         Lists(S, FoldLeft(LAMBDA xs, p : merge_main(xs, e, p[2], p[1]), ms, placed),
               G \cup Findings(turn, e, rs, Len(rs)))
<1> DEFINE n == Len(rs)
           placed == [i \in DOMAIN rs |-> <<i, rs[i]>>]
           B == {xs \in Seq(MergedResult) : \E H : \E b \in Nat : Lists(S, xs, H) /\ FoundEarlier(H, b)}
           step == [k \in 1..n |-> [xs \in B |-> merge_main(xs, e, rs[k], k)]]
           f == CHOOSE f : Ingesting(f, e, ms, placed)
<1>1. n \in Nat /\ DOMAIN rs = 1..n /\ DOMAIN placed = 1..n
  OBVIOUS
<1>2. \A k \in 1..n : rs[k] \in S /\ k \in Nat \ {0} /\ placed[k][2] = rs[k] /\ placed[k][1] = k
  BY <1>1
<1> HIDE DEF n, placed
<1>3. ms \in B
  BY DEF Lists
<1>4. ASSUME NEW k \in 1..n, NEW xs \in B PROVE merge_main(xs, e, rs[k], k) \in B
  <2>1. PICK H : \E b \in Nat : Lists(S, xs, H) /\ FoundEarlier(H, b)
    OBVIOUS
  <2>2. PICK b \in Nat : Lists(S, xs, H) /\ FoundEarlier(H, b)
    BY <2>1
  <2> DEFINE new == FindingOf(b, e, rs[k], k)
  <2>3. ComesAfter(b, k, H)
    BY <2>2 DEF FoundEarlier, ComesAfter
  <2>4. Lists(S, merge_main(xs, e, rs[k], k), H \cup {new})
    BY <1>2, <2>2, <2>3, MergeStep
  <2>5. new.turn = b
    BY DEF FindingOf
  <2>6. FoundEarlier(H \cup {new}, b + 1)
    <3>1. \A h \in H : h.turn \in Nat
      BY <2>2 DEF Lists, Finding
    <3> HIDE DEF new
    <3> QED
      BY <2>2, <2>5, <3>1 DEF FoundEarlier
  <2>7. merge_main(xs, e, rs[k], k) \in Seq(MergedResult) /\ b + 1 \in Nat
    BY <2>4 DEF Lists
  <2> HIDE DEF new
  <2> QED
    BY <2>4, <2>6, <2>7
<1> HIDE DEF B
<1>5. step \in [1..n -> [B -> B]]
  BY <1>4
<1>6. PICK f0 : Folding(f0, ms, step, n) /\ f0 \in [SUBSET (1..n) -> B]
  <2> HIDE DEF step
  <2> QED
    BY <1>1, <1>3, <1>5, FoldExists
<1>7. Ingesting(f0, e, ms, placed)
  <2>1. ASSUME NEW s \in SUBSET (1..n), s # {}
        PROVE  f0[s] = merge_main(f0[s \ {Max(s)}], e, placed[Max(s)][2], placed[Max(s)][1])
    <3>1. Max(s) \in 1..n
      BY <1>1, <2>1, LastIsMember
    <3>2. f0[s] = step[Max(s)][f0[s \ {Max(s)}]]
      <4> HIDE DEF step
      <4> QED
        BY <1>6, <2>1 DEF Folding
    <3>3. f0[s \ {Max(s)}] \in B
      BY <1>6
    <3> QED
      BY <1>2, <3>1, <3>2, <3>3
  <2>2. f0[{}] = ms
    <3> HIDE DEF step
    <3> QED
      BY <1>6 DEF Folding
  <2>3. f0 = [s \in SUBSET (1..n) |-> f0[s]]
    BY <1>6
  <2> QED
    BY <1>1, <2>1, <2>2, <2>3 DEF Ingesting
<1>8. Ingesting(f, e, ms, placed)
  BY <1>7
<1>9. FoldLeft(LAMBDA xs, p : merge_main(xs, e, p[2], p[1]), ms, placed) = f[1..n]
  BY <1>1 DEF FoldLeft, MapThenFoldSet, Ingesting
<1> HIDE DEF f, step
<1> DEFINE T == {k \in 0..n : Lists(S, f[1..k], G \cup Findings(turn, e, rs, k))}
<1>10. 0 \in T
  <2>1. 1..0 = {} /\ f[{}] = ms
    BY <1>1, <1>8 DEF Ingesting
  <2>2. G \cup Findings(turn, e, rs, 0) = G
    BY <2>1 DEF Findings
  <2>3. f[1..0] = ms
    BY <2>1
  <2>4. Lists(S, f[1..0], G \cup Findings(turn, e, rs, 0))
    BY <2>2, <2>3, Zenon
  <2>5. 0 \in 0..n
    BY <1>1
  <2> QED
    BY <2>4, <2>5
<1>11. ASSUME NEW k \in 0..(n - 1), k \in T PROVE k + 1 \in T
  <2>1. k + 1 \in 1..n /\ (k + 1) - 1 = k /\ k + 1 \in 0..n
    BY <1>1
  <2>2. /\ 1..(k + 1) \in SUBSET (1..n) /\ 1..(k + 1) # {}
        /\ Max(1..(k + 1)) = k + 1 /\ (1..(k + 1)) \ {k + 1} = 1..k
    BY <1>1, <2>1, Segments
  <2>3. f[1..(k + 1)] = merge_main(f[1..k], e, rs[k + 1], k + 1)
    <3> DEFINE t == 1..(k + 1)
    <3>1. t \in SUBSET DOMAIN placed /\ t # {} /\ Max(t) = k + 1 /\ t \ {k + 1} = 1..k
      BY <1>1, <2>2
    <3> HIDE DEF t
    <3>2. f[t] = merge_main(f[t \ {Max(t)}], e, placed[Max(t)][2], placed[Max(t)][1])
      BY <1>8, <3>1 DEF Ingesting
    <3>3. placed[k + 1][2] = rs[k + 1] /\ placed[k + 1][1] = k + 1
      BY <1>2, <2>1
    <3>4. f[t] = merge_main(f[1..k], e, rs[k + 1], k + 1)
      BY <3>1, <3>2, <3>3
    <3> QED
      BY <3>4 DEF t
  <2>4. Lists(S, f[1..(k + 1)], (G \cup Findings(turn, e, rs, k)) \cup {FindingOf(turn, e, rs[k + 1], k + 1)})
    <3>1. ComesAfter(turn, k + 1, G \cup Findings(turn, e, rs, k))
      BY DEF ComesAfter, FoundEarlier, Findings, FindingOf
    <3>2. Lists(S, f[1..k], G \cup Findings(turn, e, rs, k)) /\ rs[k + 1] \in S /\ k + 1 \in Nat \ {0}
      BY <1>2, <1>11, <2>1
    <3> QED
      BY <2>3, <3>1, <3>2, MergeStep
  <2>5. Findings(turn, e, rs, k + 1) = Findings(turn, e, rs, k) \cup {FindingOf(turn, e, rs[k + 1], k + 1)}
    <3>1. \A i : i \in 1..(k + 1) <=> i \in 1..k \/ i = k + 1
      OBVIOUS
    <3> QED
      BY <3>1 DEF Findings
  <2>6. (G \cup Findings(turn, e, rs, k)) \cup {FindingOf(turn, e, rs[k + 1], k + 1)} = G \cup Findings(turn, e, rs, k + 1)
    BY <2>5
  <2> QED
    BY <2>1, <2>4, <2>6
<1>12. \A k \in 0..n : k \in T
  <2> HIDE DEF T
  <2> QED
    BY <1>1, <1>10, <1>11, Climb
<1>13. n \in T
  <2>1. n \in 0..n
    BY <1>1
  <2> HIDE DEF T
  <2> QED
    BY <1>12, <2>1
<1> QED
  BY <1>9, <1>13 DEF n, placed

-----------------------------------------------------------------------------
(* Merged results are compared by four numbers.                              *)

(* What a merged result is compared by are numbers. *)
Rankable(q, m) ==
  score_of(q, m) \in Int /\ engine_count(m) \in Int /\ min_position(m) \in Int /\ url_of(m) \in Int

(* Results are compared as their four numbers are. *)
LEMMA BeforeIsStrict ==
  ASSUME NEW q, NEW S, \A m \in S : Rankable(q, m)
  PROVE  /\ \A a \in S : ~Before(q, a, a)
         /\ \A a, b, c \in S : Before(q, a, b) /\ Before(q, b, c) => Before(q, a, c)
         /\ \A a, b, c \in S : Before(q, a, c) => Before(q, a, b) \/ Before(q, b, c)
<1>1. ASSUME NEW a \in S PROVE ~Before(q, a, a)
  BY DEF Before, Rankable
<1>2. ASSUME NEW a \in S, NEW b \in S, NEW c \in S, Before(q, a, b), Before(q, b, c) PROVE Before(q, a, c)
  BY <1>2 DEF Before, Rankable
<1>3. ASSUME NEW a \in S, NEW b \in S, NEW c \in S, Before(q, a, c) PROVE Before(q, a, b) \/ Before(q, b, c)
  BY <1>3 DEF Before, Rankable
<1> QED
  BY <1>1, <1>2, <1>3

(* Sorting rearranges the results, and no later one is before an earlier one. *)
LEMMA ResultsSorted ==
  ASSUME NEW q, NEW s \in Seq(MergedResult), \A i \in DOMAIN s : Rankable(q, s[i])
  PROVE  \E p \in [DOMAIN s -> DOMAIN s] :
           /\ sort_results(q, s) = [k \in DOMAIN s |-> s[p[k]]]
           /\ \A k, l \in DOMAIN s : p[k] = p[l] => k = l
           /\ \A i \in DOMAIN s : \E k \in DOMAIN s : p[k] = i
           /\ \A k, l \in DOMAIN s : k < l => ~Before(q, s[p[l]], s[p[k]])
<1> DEFINE n == Len(s)
           R == {ij \in (1..n) \X (1..n) : Before(q, s[ij[1]], s[ij[2]])}
           A(i) == {j \in 1..n : Before(q, s[j], s[i]) \/ (~Before(q, s[i], s[j]) /\ j < i)}
           p == [k \in 1..n |-> CHOOSE i \in 1..n : Cardinality(A(i)) = k - 1]
<1>1. n \in Nat /\ DOMAIN s = 1..n
  OBVIOUS
<1>2. \A i, j \in 1..n : <<i, j>> \in R <=> Before(q, s[i], s[j])
  OBVIOUS
<1>3. R \subseteq (1..n) \X (1..n)
  OBVIOUS
<1> HIDE DEF n, R
<1>4. StrictOrder(R, n)
  <2> DEFINE S == {s[i] : i \in 1..n}
  <2>1. \A m \in S : Rankable(q, m)
    BY <1>1
  <2>2. \A i \in 1..n : s[i] \in S
    OBVIOUS
  <2> HIDE DEF S
  <2>3. \A i \in 1..n : <<i, i>> \notin R
    BY <1>2, <2>1, <2>2, BeforeIsStrict
  <2>4. \A i, j, k \in 1..n : <<i, j>> \in R /\ <<j, k>> \in R => <<i, k>> \in R
    <3>1. \A a, b, c \in S : Before(q, a, b) /\ Before(q, b, c) => Before(q, a, c)
      BY <2>1, BeforeIsStrict
    <3> QED
      BY <1>2, <2>2, <3>1
  <2>5. \A i, j, k \in 1..n : <<i, k>> \in R => <<i, j>> \in R \/ <<j, k>> \in R
    <3>1. \A a, b, c \in S : Before(q, a, c) => Before(q, a, b) \/ Before(q, b, c)
      BY <2>1, BeforeIsStrict
    <3> QED
      BY <1>2, <2>2, <3>1
  <2> QED
    BY <1>3, <2>3, <2>4, <2>5 DEF StrictOrder
<1>5. \A i \in 1..n : A(i) = Ahead(R, n, i)
  BY <1>2 DEF Ahead
<1>6. sort_results(q, s) = [k \in 1..n |-> s[p[k]]]
  <2>1. sort_results(q, s) = [k \in 1..n |-> s[CHOOSE i \in 1..n : Cardinality(A(i)) = k - 1]]
    BY <1>1 DEF sort_results, Sorted
  <2> HIDE DEF A
  <2> QED
    BY <2>1
<1> HIDE DEF A
<1>7. ASSUME NEW k \in 1..n PROVE p[k] \in 1..n /\ Cardinality(Ahead(R, n, p[k])) = k - 1
  <2>1. \E i \in 1..n : Cardinality(A(i)) = k - 1
    BY <1>1, <1>4, <1>5, SortPermutes
  <2>2. p[k] \in 1..n /\ Cardinality(A(p[k])) = k - 1
    BY <2>1
  <2> HIDE DEF p
  <2> QED
    BY <1>5, <2>2
<1>8. p \in [1..n -> 1..n]
  BY <1>7
<1> HIDE DEF p
<1>9. /\ \A k, l \in 1..n : p[k] = p[l] => k = l
      /\ \A i \in 1..n : \E k \in 1..n : p[k] = i
      /\ \A k, l \in 1..n : k < l => <<p[l], p[k]>> \notin R
  BY <1>1, <1>4, <1>7, <1>8, SortPermutes
<1>10. \A k, l \in 1..n : k < l => ~Before(q, s[p[l]], s[p[k]])
  BY <1>2, <1>8, <1>9
<1> QED
  BY <1>1, <1>6, <1>8, <1>9, <1>10

(* What the engine at a place adds to the score of a result. *)
Points(m, i) ==
  IF m.result.priority = "high" THEN 12 * Weight[m.engines[i]]
  ELSE (12 * Weight[m.engines[i]]) \div m.positions[i]

(* An integer quotient of natural numbers is a natural number. *)
LEMMA Quotient ==
  ASSUME NEW a \in Nat, NEW b \in Nat \ {0}
  PROVE  a \div b \in Nat
OBVIOUS

(* The points of a place are a natural number. *)
LEMMA PointsTyped ==
  ASSUME NEW m \in MergedResult, EachEngineOnce(m), NEW i \in DOMAIN m.positions
  PROVE  Points(m, i) \in Nat
<1>1. m.engines[i] \in DOMAIN Weight /\ m.positions[i] \in Nat \ {0}
  BY DEF MergedResult, EachEngineOnce
<1>2. Weight[m.engines[i]] \in Nat
  BY <1>1, ReportsAssumption
<1>3. 12 * Weight[m.engines[i]] \in Nat
  BY <1>2
<1> QED
  BY <1>1, <1>3, Quotient DEF Points

(* The sum of the engines' points, one engine after the other. *)
Scoring(f, m, placed) ==
  f = [s \in SUBSET DOMAIN placed |->
         IF s = {} THEN 0
         ELSE f[s \ {Max(s)}] +
              IF m.result.priority = "high" THEN 12 * Weight[m.engines[placed[Max(s)]]]
              ELSE (12 * Weight[m.engines[placed[Max(s)]]]) \div m.positions[placed[Max(s)]]]

(* score_of multiplies the relevance by the sum of the points. *)
LEMMA PointsAddUp ==
  ASSUME NEW q, NEW m \in MergedResult, EachEngineOnce(m)
  PROVE  \E h \in [0..Len(m.positions) -> Nat] :
           /\ h[0] = 0
           /\ \A k \in 1..Len(m.positions) : h[k] = h[k - 1] + Points(m, k)
           /\ score_of(q, m) = IF m.result.priority = "low" THEN 0
                            ELSE relevance(q, m.result) * h[Len(m.positions)]
<1> DEFINE n == Len(m.positions)
           placed == [i \in DOMAIN m.positions |-> i]
           step == [k \in 1..n |-> [x \in Nat |-> x + Points(m, k)]]
           f == CHOOSE f : Scoring(f, m, placed)
           h == [k \in 0..n |-> f[1..k]]
<1>1. n \in Nat /\ DOMAIN m.positions = 1..n
  BY DEF MergedResult
<1>2. \A k \in 1..n : Points(m, k) \in Nat /\ placed[k] = k
  BY <1>1, PointsTyped
<1>3. DOMAIN placed = 1..n
  BY <1>1
<1> HIDE DEF n, placed
<1>4. step \in [1..n -> [Nat -> Nat]]
  BY <1>2
<1>5. PICK f0 : Folding(f0, 0, step, n) /\ f0 \in [SUBSET (1..n) -> Nat]
  <2> HIDE DEF step
  <2> QED
    BY <1>1, <1>4, FoldExists
<1>6. Scoring(f0, m, placed)
  <2>1. ASSUME NEW s \in SUBSET (1..n), s # {} PROVE f0[s] = f0[s \ {Max(s)}] + Points(m, Max(s))
    <3>1. Max(s) \in 1..n
      BY <1>1, <2>1, LastIsMember
    <3>2. f0[s] = step[Max(s)][f0[s \ {Max(s)}]]
      <4> HIDE DEF step
      <4> QED
        BY <1>5, <2>1 DEF Folding
    <3>3. f0[s \ {Max(s)}] \in Nat
      BY <1>5
    <3> QED
      BY <3>1, <3>2, <3>3
  <2>2. f0[{}] = 0
    <3> HIDE DEF step
    <3> QED
      BY <1>5 DEF Folding
  <2>3. f0 = [s \in SUBSET (1..n) |-> f0[s]]
    BY <1>5
  <2> QED
    <3>1. ASSUME NEW s \in SUBSET (1..n), s # {}
          PROVE  f0[s] = f0[s \ {Max(s)}] +
                   IF m.result.priority = "high" THEN 12 * Weight[m.engines[placed[Max(s)]]]
                   ELSE (12 * Weight[m.engines[placed[Max(s)]]]) \div m.positions[placed[Max(s)]]
      <4>1. placed[Max(s)] = Max(s)
        BY <1>1, <1>2, <3>1, LastIsMember
      <4> QED
        BY <2>1, <3>1, <4>1 DEF Points
    <3> QED
      BY <1>3, <2>2, <2>3, <3>1 DEF Scoring
<1>7. Scoring(f, m, placed)
  BY <1>6
<1>8. score_of(q, m) = IF m.result.priority = "low" THEN 0 ELSE relevance(q, m.result) * f[1..n]
  <2>1. score_of(q, m) = IF m.result.priority = "low" THEN 0 ELSE relevance(q, m.result) * f[DOMAIN placed]
    BY DEF score_of, FoldLeft, MapThenFoldSet, Scoring, placed
  <2> HIDE DEF f
  <2> QED
    BY <1>3, <2>1
<1> HIDE DEF f, step
<1>9. h[0] = 0
  <2>1. f[{}] = 0
    BY <1>7 DEF Scoring
  <2>2. 1..0 = {} /\ 0 \in 0..n
    BY <1>1
  <2> QED
    BY <2>1, <2>2
<1>10. ASSUME NEW k \in 1..n PROVE h[k] = h[k - 1] + Points(m, k)
  <2> DEFINE t == 1..k
  <2>1. t \in SUBSET DOMAIN placed /\ t # {} /\ Max(t) = k /\ t \ {k} = 1..(k - 1)
    BY <1>3, <1>1, Segments
  <2>2. k \in 0..n /\ k - 1 \in 0..n
    BY <1>1
  <2> HIDE DEF t
  <2>3. f[t] = f[t \ {Max(t)}] + Points(m, Max(t))
    BY <1>2, <1>7, <2>1 DEF Scoring, Points
  <2>4. f[t] = f[1..(k - 1)] + Points(m, k)
    BY <2>1, <2>3
  <2> QED
    BY <2>2, <2>4 DEF t
<1> DEFINE T == {k \in 0..n : h[k] \in Nat}
<1>11. \A k \in 0..n : k \in T
  <2>1. 0 \in T
    BY <1>1, <1>9
  <2>2. ASSUME NEW k \in 0..(n - 1), k \in T PROVE k + 1 \in T
    <3>1. k + 1 \in 1..n /\ k + 1 \in 0..n /\ (k + 1) - 1 = k
      BY <1>1
    <3> HIDE DEF h
    <3>2. h[k + 1] = h[k] + Points(m, k + 1) /\ h[k] \in Nat
      BY <1>10, <2>2, <3>1
    <3> QED
      BY <1>2, <3>1, <3>2
  <2> HIDE DEF T
  <2> QED
    BY <1>1, <2>1, <2>2, Climb
<1>12. h \in [0..n -> Nat]
  BY <1>11
<1>13. h[n] = f[1..n]
  BY <1>1
<1> HIDE DEF h
<1> QED
  BY <1>8, <1>9, <1>10, <1>12, <1>13 DEF n

(* A merged result that credits an engine is compared by four numbers. *)
LEMMA ResultsRankable ==
  ASSUME NEW q, NEW m \in MergedResult, EachEngineOnce(m), DOMAIN m.positions # {}
  PROVE  Rankable(q, m)
<1>1. score_of(q, m) \in Int
  <2>1. PICK h \in [0..Len(m.positions) -> Nat] :
          score_of(q, m) = IF m.result.priority = "low" THEN 0
                        ELSE relevance(q, m.result) * h[Len(m.positions)]
    BY PointsAddUp
  <2>2. Len(m.positions) \in 0..Len(m.positions)
    BY DEF MergedResult
  <2>3. relevance(q, m.result) \in Nat
    BY DEF relevance, host_boost
  <2>4. relevance(q, m.result) * h[Len(m.positions)] \in Nat
    BY <2>2, <2>3
  <2> QED
    BY <2>1, <2>4
<1>2. engine_count(m) \in Int
  BY DEF engine_count, MergedResult
<1>3. min_position(m) \in Int
  <2>1. ToSet(m.positions) \in SUBSET Nat /\ ToSet(m.positions) # {}
    BY DEF MergedResult, ToSet
  <2>2. Min(ToSet(m.positions)) \in Nat
    BY <2>1, MinIsLeast
  <2> QED
    BY <2>2 DEF min_position
<1>4. url_of(m) \in Int
  <2>1. m.result.url \in Url \cup {Absent}
    BY DEF MergedResult, Result
  <2> QED
    BY <2>1 DEF url_of, Url
<1> QED
  BY <1>1, <1>2, <1>3, <1>4 DEF Rankable

-----------------------------------------------------------------------------
(* The run of ingest and finish.                                             *)

(* What was found by the engines before a place of the report. *)
FoundBefore(r, k) ==
  UNION {Findings(j, r[j].engine, r[j].results, Len(r[j].results)) :
         j \in {i \in 1..(k - 1) : r[i].status = "Completed"}}

\* The engines before a place that failed or did not answer in time.
MissedBefore(r, k) == {r[j].engine : j \in {i \in 1..(k - 1) : r[i].status # "Completed"}}

(* The list is what was merged, in another order. *)
Rearranged(q, rs, ms) ==
  \E p \in [DOMAIN ms -> DOMAIN ms] :
    /\ rs = [k \in DOMAIN ms |-> ms[p[k]]]
    /\ \A k, l \in DOMAIN ms : p[k] = p[l] => k = l
    /\ \A i \in DOMAIN ms : \E k \in DOMAIN ms : p[k] = i
    /\ \A k, l \in DOMAIN ms : k < l => ~Before(q, ms[p[l]], ms[p[k]])

(* The inductive invariant: the list merged so far tells what was found so far. *)
AggregationInv ==
  /\ report \in Reports /\ next \in 1..(Len(report) + 1)
  /\ Lists(Listed(report), merged, FoundBefore(report, next))
  /\ unresponsive_engines \in Seq([engine: DOMAIN Weight, cause: STRING])
  /\ {u.engine : u \in ToSet(unresponsive_engines)} = MissedBefore(report, next)
  /\ done => next = Len(report) + 1 /\ Rearranged(query, results, merged)

(* The parts of a report are typed. *)
LEMMA ReportTyped ==
  ASSUME NEW r \in Reports
  PROVE  /\ r \in Seq(EngineRunOutcome) /\ Len(r) \in Nat /\ DOMAIN r = 1..Len(r)
         /\ \A j \in DOMAIN r : /\ r[j] \in EngineRunOutcome /\ r[j].engine \in DOMAIN Weight
                                /\ r[j].status \in STRING /\ r[j].results \in Seq(Result)
         /\ Listed(r) \in SUBSET Result
         /\ \A j \in DOMAIN r : r[j].status = "Completed" => r[j].results \in Seq(Listed(r))
<1>1. r \in Seq(EngineRunOutcome) /\ Len(r) \in Nat /\ DOMAIN r = 1..Len(r)
  BY ReportsAssumption
<1>2. ASSUME NEW j \in DOMAIN r
      PROVE  /\ r[j] \in EngineRunOutcome /\ r[j].engine \in DOMAIN Weight
             /\ r[j].status \in STRING /\ r[j].results \in Seq(Result)
  <2>1. r[j] \in EngineRunOutcome
    BY <1>1
  <2> QED
    BY <2>1 DEF EngineRunOutcome
<1>3. \A o \in CompletedIn(r) : \E j \in DOMAIN r : o = r[j]
  BY DEF CompletedIn, ToSet
<1>4. Listed(r) \in SUBSET Result
  <2>1. ASSUME NEW o \in CompletedIn(r) PROVE ToSet(o.results) \in SUBSET Result
    <3>1. o.results \in Seq(Result)
      BY <1>2, <1>3
    <3> QED
      BY <3>1 DEF ToSet
  <2> QED
    BY <2>1 DEF Listed
<1>5. ASSUME NEW j \in DOMAIN r, r[j].status = "Completed" PROVE r[j].results \in Seq(Listed(r))
  <2>1. r[j] \in CompletedIn(r)
    BY <1>5 DEF CompletedIn, ToSet
  <2>2. \A i \in DOMAIN r[j].results : r[j].results[i] \in Listed(r)
    BY <2>1 DEF Listed, ToSet
  <2>3. r[j].results \in Seq(Result)
    BY <1>2
  <2> QED
    BY <2>2, <2>3
<1> QED
  BY <1>1, <1>2, <1>4, <1>5

(* What is found and missed once the outcome at a place is in. *)
LEMMA BeforeNextPlace ==
  ASSUME NEW r \in Reports, NEW k \in DOMAIN r
  PROVE  /\ r[k].status = "Completed" =>
              /\ FoundBefore(r, k + 1) =
                   FoundBefore(r, k) \cup Findings(k, r[k].engine, r[k].results, Len(r[k].results))
              /\ MissedBefore(r, k + 1) = MissedBefore(r, k)
         /\ r[k].status # "Completed" =>
              /\ FoundBefore(r, k + 1) = FoundBefore(r, k)
              /\ MissedBefore(r, k + 1) = MissedBefore(r, k) \cup {r[k].engine}
<1>1. k \in Nat \ {0} /\ (k + 1) - 1 = k
  BY ReportTyped
<1>2. \A i : i \in 1..k <=> i \in 1..(k - 1) \/ i = k
  BY <1>1
<1> QED
  BY <1>1, <1>2 DEF FoundBefore, MissedBefore

(* The empty list tells of the empty set of findings. *)
LEMMA ListsNothing ==
  ASSUME NEW S
  PROVE  Lists(S, <<>>, {})
BY DEF Lists

(* Every merged result of the list can be compared with the others. *)
LEMMA ListRankable ==
  ASSUME NEW q, NEW S, NEW ms, NEW G, Lists(S, ms, G), NEW i \in DOMAIN ms
  PROVE  Rankable(q, ms[i])
<1>1. ms[i] \in MergedResult /\ Credited(ms[i], About(G, PageShown(ms[i])))
  BY DEF Lists
<1>2. PICK g \in About(G, PageShown(ms[i])) : TRUE
  BY <1>1 DEF Credited, BestText
<1>3. DOMAIN ms[i].engines # {}
  BY <1>1, <1>2 DEF Credited, BestPositions
<1>4. EachEngineOnce(ms[i]) /\ DOMAIN ms[i].positions # {}
  BY <1>1, <1>3 DEF Credited, EachEngineOnce
<1> QED
  BY <1>1, <1>4, ResultsRankable

(* sort_results rearranges the list by Before. *)
LEMMA ListRearranged ==
  ASSUME NEW q, NEW S, NEW ms, NEW G, Lists(S, ms, G)
  PROVE  Rearranged(q, sort_results(q, ms), ms)
<1>1. ms \in Seq(MergedResult)
  BY DEF Lists
<1>2. \A i \in DOMAIN ms : Rankable(q, ms[i])
  BY ListRankable
<1> HIDE DEF Rankable
<1> QED
  BY <1>1, <1>2, ResultsSorted DEF Rearranged

(* ingest and finish keep the invariant. *)
LEMMA AggregationInvariant ==
  ASSUME \A r \in Reports : KeyedByPage(Listed(r))
  PROVE  AggregationSpec => []AggregationInv
<1>1. AggregationInit => AggregationInv
  <2> SUFFICES ASSUME AggregationInit PROVE AggregationInv
    OBVIOUS
  <2>1. report \in Reports /\ next = 1 /\ merged = <<>> /\ unresponsive_engines = <<>> /\ ~done
    BY DEF AggregationInit, Untouched
  <2>2. Len(report) \in Nat
    BY <2>1, ReportTyped
  <2>3. FoundBefore(report, 1) = {} /\ MissedBefore(report, 1) = {}
    BY DEF FoundBefore, MissedBefore
  <2>4. {u.engine : u \in ToSet(<<>>)} = {}
    BY DEF ToSet
  <2>5. Lists(Listed(report), merged, FoundBefore(report, next))
    BY <2>1, <2>3, ListsNothing
  <2>6. next \in 1..(Len(report) + 1)
    BY <2>1, <2>2
  <2>7. unresponsive_engines \in Seq([engine: DOMAIN Weight, cause: STRING])
    BY <2>1
  <2>8. {u.engine : u \in ToSet(unresponsive_engines)} = MissedBefore(report, next)
    BY <2>1, <2>3, <2>4
  <2> QED
    BY <2>1, <2>5, <2>6, <2>7, <2>8 DEF AggregationInv
<1>2. AggregationInv /\ [AggregationNext]_aggregationVars => AggregationInv'
  <2> SUFFICES ASSUME AggregationInv, [AggregationNext]_aggregationVars PROVE AggregationInv'
    OBVIOUS
  <2>1. CASE ingest
    <3> DEFINE o == report[next]
               S == Listed(report)
    <3>1. /\ next <= Len(report) /\ next' = next + 1 /\ report' = report /\ done' = done
          /\ query' = query
      BY <2>1 DEF ingest
    <3>2. /\ next \in DOMAIN report /\ next' = next + 1 /\ report' = report /\ done' = done
          /\ ~done /\ next' \in 1..(Len(report) + 1) /\ report \in Reports
      <4>1. report \in Reports /\ next \in 1..(Len(report) + 1) /\ (done => next = Len(report) + 1)
        BY DEF AggregationInv
      <4>2. Len(report) \in Nat /\ DOMAIN report = 1..Len(report)
        BY <4>1, ReportTyped
      <4> QED
        BY <3>1, <4>1, <4>2
    <3>3. /\ o.engine \in DOMAIN Weight /\ o.status \in STRING /\ S \in SUBSET Result
          /\ KeyedByPage(S)
      BY <3>2, ReportTyped
    <3>4. CASE o.status = "Completed"
      <4>1. /\ merged' = FoldLeft(LAMBDA ms, p : merge_main(ms, o.engine, p[2], p[1]), merged,
                                  [i \in DOMAIN o.results |-> <<i, o.results[i]>>])
            /\ unresponsive_engines' = unresponsive_engines
        BY <2>1, <3>4 DEF ingest
      <4>2. o.results \in Seq(S)
        BY <3>2, <3>4, ReportTyped
      <4>3. Lists(S, merged', FoundBefore(report, next) \cup
                              Findings(next, o.engine, o.results, Len(o.results)))
        <5>1. Lists(S, merged, FoundBefore(report, next))
          BY DEF AggregationInv
        <5>2. next \in Nat
          BY <3>2, ReportTyped
        <5>3. FoundEarlier(FoundBefore(report, next), next)
          BY <5>2 DEF FoundEarlier, FoundBefore, Findings, FindingOf
        <5> HIDE DEF S, o
        <5> QED
          BY <3>3, <4>1, <4>2, <5>1, <5>2, <5>3, ResultsMerged
      <4>4. /\ FoundBefore(report, next') = FoundBefore(report, next) \cup
                                             Findings(next, o.engine, o.results, Len(o.results))
            /\ MissedBefore(report, next') = MissedBefore(report, next)
        BY <3>2, <3>4, BeforeNextPlace
      <4>5. Lists(S, merged', FoundBefore(report, next'))
        BY <4>3, <4>4
      <4> QED
        BY <3>2, <4>1, <4>4, <4>5 DEF AggregationInv
    <3>5. CASE o.status # "Completed"
      <4> DEFINE told == [engine |-> o.engine, cause |-> o.status]
      <4>1. unresponsive_engines' = Append(unresponsive_engines, told) /\ merged' = merged
        BY <2>1, <3>5 DEF ingest
      <4>2. /\ FoundBefore(report, next') = FoundBefore(report, next)
            /\ MissedBefore(report, next') = MissedBefore(report, next) \cup {told.engine}
        BY <3>2, <3>5, BeforeNextPlace
      <4>3. told \in [engine: DOMAIN Weight, cause: STRING]
        BY <3>3
      <4> HIDE DEF told
      <4>4. ToSet(Append(unresponsive_engines, told)) = ToSet(unresponsive_engines) \cup {told}
        <5>1. unresponsive_engines \in Seq([engine: DOMAIN Weight, cause: STRING])
          BY DEF AggregationInv
        <5> QED
          BY <4>3, <5>1 DEF ToSet
      <4>5. {u.engine : u \in ToSet(unresponsive_engines')} =
              {u.engine : u \in ToSet(unresponsive_engines)} \cup {told.engine}
        BY <4>1, <4>4
      <4>6. unresponsive_engines' \in Seq([engine: DOMAIN Weight, cause: STRING])
        BY <4>1, <4>3 DEF AggregationInv
      <4> QED
        BY <3>2, <4>1, <4>2, <4>5, <4>6 DEF AggregationInv
    <3> QED
      BY <3>4, <3>5
  <2>2. CASE finish
    <3>1. /\ report' = report /\ next' = next /\ merged' = merged /\ query' = query
          /\ unresponsive_engines' = unresponsive_engines
          /\ next > Len(report) /\ results' = sort_results(query, merged)
      BY <2>2 DEF finish
    <3>2. next = Len(report) + 1
      BY <3>1, ReportTyped DEF AggregationInv
    <3>3. Rearranged(query, results', merged)
      BY <3>1, ListRearranged DEF AggregationInv
    <3> QED
      BY <3>1, <3>2, <3>3 DEF AggregationInv
  <2>3. CASE UNCHANGED aggregationVars
    BY <2>3 DEF aggregationVars, AggregationInv
  <2> QED
    BY <2>1, <2>2, <2>3 DEF AggregationNext
<1> QED
  BY <1>1, <1>2, PTL DEF AggregationSpec

(* A finding tells of a place of an outcome. *)
TellsOf(g, o, i) ==
  /\ g.page = o.results[i].url.page /\ g.engine = o.engine
  /\ g.position = i /\ g.text = o.results[i].text

\* The place of a completed outcome in the report.
Ingested(r, j) == j \in DOMAIN r /\ r[j].status = "Completed"

(* What was found when the last outcome is in. *)
LEMMA AllFound ==
  ASSUME NEW r \in Reports
  PROVE  /\ \A g \in FoundBefore(r, Len(r) + 1) : \E j : Ingested(r, j) /\
              \E i \in DOMAIN r[j].results : TellsOf(g, r[j], i) /\ g.turn = j
         /\ \A j : Ingested(r, j) => \A i \in DOMAIN r[j].results :
              \E g \in FoundBefore(r, Len(r) + 1) : TellsOf(g, r[j], i) /\ g.turn = j
         /\ MissedBefore(r, Len(r) + 1) = {o.engine : o \in ToSet(r) \ CompletedIn(r)}
<1> DEFINE n == Len(r)
<1>1. DOMAIN r = 1..n /\ n \in Nat /\ (n + 1) - 1 = n
  BY ReportTyped
<1>2. \A j \in 1..n : r[j].results \in Seq(Result) /\ DOMAIN r[j].results = 1..Len(r[j].results)
  BY <1>1, ReportTyped
<1> HIDE DEF n
<1>3. \A j, i : LET g == FindingOf(j, r[j].engine, r[j].results[i], i) IN TellsOf(g, r[j], i) /\ g.turn = j
  BY DEF FindingOf, TellsOf
<1>4. ASSUME NEW g \in FoundBefore(r, n + 1)
      PROVE  \E j : Ingested(r, j) /\ \E i \in DOMAIN r[j].results : TellsOf(g, r[j], i) /\ g.turn = j
  <2>1. PICK j \in 1..n : r[j].status = "Completed" /\ g \in Findings(j, r[j].engine, r[j].results, Len(r[j].results))
    BY <1>1 DEF FoundBefore
  <2>2. PICK i \in 1..Len(r[j].results) : g = FindingOf(j, r[j].engine, r[j].results[i], i)
    BY <2>1 DEF Findings
  <2>3. Ingested(r, j) /\ i \in DOMAIN r[j].results
    BY <1>1, <1>2, <2>1 DEF Ingested
  <2> QED
    BY <1>3, <2>2, <2>3
<1>5. ASSUME NEW j, Ingested(r, j), NEW i \in DOMAIN r[j].results
      PROVE  \E g \in FoundBefore(r, n + 1) : TellsOf(g, r[j], i) /\ g.turn = j
  <2>1. j \in {k \in 1..((n + 1) - 1) : r[k].status = "Completed"} /\ i \in 1..Len(r[j].results)
    BY <1>1, <1>2, <1>5 DEF Ingested
  <2>2. FindingOf(j, r[j].engine, r[j].results[i], i) \in Findings(j, r[j].engine, r[j].results, Len(r[j].results))
    BY <2>1 DEF Findings
  <2>3. FindingOf(j, r[j].engine, r[j].results[i], i) \in FoundBefore(r, n + 1)
    BY <2>1, <2>2 DEF FoundBefore
  <2> QED
    BY <1>3, <2>3
<1>6. MissedBefore(r, n + 1) = {o.engine : o \in ToSet(r) \ CompletedIn(r)}
  <2>1. ToSet(r) \ CompletedIn(r) = {r[j] : j \in {i \in 1..n : r[i].status # "Completed"}}
    BY <1>1 DEF CompletedIn, ToSet
  <2> QED
    BY <1>1, <2>1 DEF MissedBefore
<1> QED
  BY <1>4, <1>5, <1>6 DEF n

(* The same, by the outcomes. *)
LEMMA OutcomesFound ==
  ASSUME NEW r \in Reports
  PROVE  /\ \A g \in FoundBefore(r, Len(r) + 1) : \E o \in CompletedIn(r) :
              \E i \in DOMAIN o.results : TellsOf(g, o, i)
         /\ \A o \in CompletedIn(r) : \A i \in DOMAIN o.results :
              \E g \in FoundBefore(r, Len(r) + 1) : TellsOf(g, o, i)
<1>1. \A o : o \in CompletedIn(r) <=> \E j : Ingested(r, j) /\ o = r[j]
  BY DEF CompletedIn, ToSet, Ingested
<1>2. ASSUME NEW g \in FoundBefore(r, Len(r) + 1)
      PROVE  \E o \in CompletedIn(r) : \E i \in DOMAIN o.results : TellsOf(g, o, i)
  <2>1. PICK j : Ingested(r, j) /\ \E i \in DOMAIN r[j].results : TellsOf(g, r[j], i) /\ g.turn = j
    BY AllFound
  <2> QED
    BY <1>1, <2>1
<1>3. ASSUME NEW o \in CompletedIn(r), NEW i \in DOMAIN o.results
      PROVE  \E g \in FoundBefore(r, Len(r) + 1) : TellsOf(g, o, i)
  <2>1. PICK j : Ingested(r, j) /\ o = r[j]
    BY <1>1
  <2> QED
    BY <2>1, AllFound
<1> QED
  BY <1>2, <1>3

(* A list of all that was found has the pages that engines listed, each with *)
(* the engines that listed it.                                               *)
LEMMA ListTells ==
  ASSUME NEW S, NEW ms, NEW r \in Reports, Lists(S, ms, FoundBefore(r, Len(r) + 1))
  PROVE  /\ {PageShown(ms[i]) : i \in DOMAIN ms} = UNION {PagesOf(o) : o \in CompletedIn(r)}
         /\ \A i \in DOMAIN ms :
              ToSet(ms[i].engines) = {o.engine : o \in {x \in CompletedIn(r) : PageShown(ms[i]) \in PagesOf(x)}}
<1> DEFINE G == FoundBefore(r, Len(r) + 1)
<1>1. /\ \A g \in G : \E o \in CompletedIn(r) : \E i \in DOMAIN o.results : TellsOf(g, o, i)
      /\ \A o \in CompletedIn(r) : \A i \in DOMAIN o.results : \E g \in G : TellsOf(g, o, i)
  BY OutcomesFound
<1>2. Lists(S, ms, G)
  OBVIOUS
<1> HIDE DEF G
<1>3. ASSUME NEW o, NEW i, NEW g, TellsOf(g, o, i)
      PROVE  g.page = o.results[i].url.page /\ g.engine = o.engine /\ g.position = i
  BY <1>3 DEF TellsOf
<1>4. \A g \in G : \E o \in CompletedIn(r) : g.page \in PagesOf(o) /\ g.engine = o.engine
  BY <1>1, <1>3 DEF PagesOf
<1>5. \A o \in CompletedIn(r) : \A page \in PagesOf(o) : \E g \in G : g.page = page /\ g.engine = o.engine
  BY <1>1, <1>3 DEF PagesOf
<1>6. ASSUME NEW i \in DOMAIN ms PROVE Credited(ms[i], About(G, PageShown(ms[i])))
  BY <1>2 DEF Lists
<1>7. ASSUME NEW i \in DOMAIN ms PROVE \E o \in CompletedIn(r) : PageShown(ms[i]) \in PagesOf(o)
  <2>1. PICK g \in About(G, PageShown(ms[i])) : TRUE
    BY <1>6 DEF Credited, BestText
  <2> QED
    BY <1>4, <2>1 DEF About
<1>8. ASSUME NEW o \in CompletedIn(r), NEW page \in PagesOf(o) PROVE \E i \in DOMAIN ms : PageShown(ms[i]) = page
  <2>1. PICK g \in G : g.page = page
    BY <1>5
  <2> QED
    BY <1>2, <2>1 DEF Lists
<1>9. {PageShown(ms[i]) : i \in DOMAIN ms} = UNION {PagesOf(o) : o \in CompletedIn(r)}
  BY <1>7, <1>8
<1>10. ASSUME NEW i \in DOMAIN ms
       PROVE  ToSet(ms[i].engines) = {o.engine : o \in {x \in CompletedIn(r) : PageShown(ms[i]) \in PagesOf(x)}}
  <2> DEFINE E == {o.engine : o \in {x \in CompletedIn(r) : PageShown(ms[i]) \in PagesOf(x)}}
             F == About(G, PageShown(ms[i]))
  <2>1. BestPositions(ms[i], F)
    BY <1>6 DEF Credited
  <2>2. ASSUME NEW j \in DOMAIN ms[i].engines PROVE ms[i].engines[j] \in E
    <3>1. PICK g \in F : ms[i].engines[j] = g.engine
      BY <2>1 DEF BestPositions
    <3>2. g \in G /\ g.page = PageShown(ms[i])
      BY <3>1 DEF About
    <3> QED
      BY <1>4, <3>1, <3>2
  <2>3. ASSUME NEW o \in CompletedIn(r), PageShown(ms[i]) \in PagesOf(o)
        PROVE  \E j \in DOMAIN ms[i].engines : ms[i].engines[j] = o.engine
    <3>1. PICK g \in G : g.page = PageShown(ms[i]) /\ g.engine = o.engine
      BY <1>5, <2>3
    <3>2. g \in F
      BY <3>1 DEF About
    <3> QED
      BY <2>1, <3>1, <3>2 DEF BestPositions
  <2> QED
    BY <2>2, <2>3 DEF ToSet
<1> QED
  BY <1>9, <1>10

(***************************************************************************)
(* Whatever the engines list, in whatever order their outcomes come, each  *)
(* page is on the list once, with exactly the engines that found it, and   *)
(* every engine that did not answer is told: for any number of engines,    *)
(* lists of any length and addresses of any form, as long as the keys of   *)
(* what is listed tell its pages apart.                                    *)
(***************************************************************************)
THEOREM PagesListedOnce ==
  ASSUME \A r \in Reports : KeyedByPage(Listed(r))
  PROVE  AggregationSpec => []EachPageOnce
<1>1. AggregationSpec => []AggregationInv
  BY AggregationInvariant
<1>2. AggregationInv => EachPageOnce
  <2> SUFFICES ASSUME AggregationInv, done PROVE EachPageOnce
    BY DEF EachPageOnce
  <2> DEFINE n == Len(report) + 1
  <2>1. report \in Reports /\ next = n
    BY DEF AggregationInv
  <2>2. Lists(Listed(report), merged, FoundBefore(report, n))
    BY <2>1 DEF AggregationInv
  <2>3. PICK p \in [DOMAIN merged -> DOMAIN merged] :
          /\ results = [k \in DOMAIN merged |-> merged[p[k]]]
          /\ \A k, l \in DOMAIN merged : p[k] = p[l] => k = l
          /\ \A i \in DOMAIN merged : \E k \in DOMAIN merged : p[k] = i
    BY DEF AggregationInv, Rearranged
  <2>4. Completed = CompletedIn(report)
    BY DEF Completed, CompletedIn
  <2>5. /\ {PageShown(merged[i]) : i \in DOMAIN merged} = UNION {PagesOf(o) : o \in Completed}
        /\ \A i \in DOMAIN merged : ToSet(merged[i].engines) = {o.engine : o \in Finders(PageShown(merged[i]))}
    BY <2>1, <2>2, <2>4, ListTells DEF Finders
  <2>6. \A i, j \in DOMAIN merged : PageShown(merged[i]) = PageShown(merged[j]) => i = j
    BY <2>2 DEF Lists
  <2>7. \A k \in DOMAIN results : k \in DOMAIN merged /\ p[k] \in DOMAIN merged /\ results[k] = merged[p[k]]
    BY <2>3
  <2>8. {PageShown(results[k]) : k \in DOMAIN results} = {PageShown(merged[i]) : i \in DOMAIN merged}
    <3>1. \A k \in DOMAIN results : \E i \in DOMAIN merged : results[k] = merged[i]
      BY <2>7
    <3>2. \A i \in DOMAIN merged : \E k \in DOMAIN results : results[k] = merged[i]
      BY <2>3, <2>7
    <3> QED
      BY <3>1, <3>2
  <2>9. \A i, j \in DOMAIN results : PageShown(results[i]) = PageShown(results[j]) => i = j
    BY <2>3, <2>6, <2>7
  <2>10. \A i \in DOMAIN results : ToSet(results[i].engines) = {o.engine : o \in Finders(PageShown(results[i]))}
    BY <2>5, <2>7
  <2>11. {u.engine : u \in ToSet(unresponsive_engines)} = {o.engine : o \in ToSet(report) \ Completed}
    BY <2>1, <2>4, AllFound DEF AggregationInv
  <2> QED
    BY <2>5, <2>8, <2>9, <2>10, <2>11 DEF EachPageOnce
<1> QED
  BY <1>1, <1>2, PTL

-----------------------------------------------------------------------------
(* Sums over sets and lists.                                                 *)

(* The sum of w over the subsets of T, taking one chosen element at a time. *)
Chosen(s) == CHOOSE x \in s : TRUE

\* FoldSet, written out.
Summing(f, T, w) ==
  f = [s \in SUBSET T |-> IF s = {} THEN 0 ELSE f[s \ {Chosen(s)}] + w[Chosen(s)]]

(* What is chosen of a set is in it. *)
LEMMA ChosenIsMember ==
  ASSUME NEW s, s # {}
  PROVE  Chosen(s) \in s
BY DEF Chosen

(* The sum exists, and is a natural number for every subset. *)
LEMMA SumExists ==
  ASSUME NEW T, IsFiniteSet(T), NEW w \in [T -> Nat]
  PROVE  \E f \in [SUBSET T -> Nat] : Summing(f, T, w)
<1> DEFINE n == Cardinality(T)
           D(k) == {s \in SUBSET T : Cardinality(s) <= k}
           next_to(f, s) == IF s = {} THEN 0 ELSE f[s \ {Chosen(s)}] + w[Chosen(s)]
           U == {k \in 0..n : \E f \in [D(k) -> Nat] : \A s \in D(k) : f[s] = next_to(f, s)}
<1>1. n \in Nat
  BY FS_CardinalityType
<1>2. ASSUME NEW s \in SUBSET T
      PROVE  IsFiniteSet(s) /\ Cardinality(s) \in 0..n /\ (Cardinality(s) = 0 <=> s = {})
  BY <1>1, FS_Subset, FS_CardinalityType, FS_EmptySet
<1>3. ASSUME NEW s \in SUBSET T, s # {}
      PROVE  /\ Chosen(s) \in T /\ s \ {Chosen(s)} \in SUBSET T
             /\ Cardinality(s \ {Chosen(s)}) = Cardinality(s) - 1
  BY <1>2, <1>3, ChosenIsMember, FS_RemoveElement
<1> HIDE DEF n
<1>4. 0 \in U
  <2> DEFINE f == [s \in D(0) |-> 0]
  <2>1. \A s \in D(0) : s = {}
    BY <1>1, <1>2
  <2>2. f \in [D(0) -> Nat] /\ \A s \in D(0) : f[s] = next_to(f, s)
    BY <2>1
  <2>3. 0 \in 0..n
    BY <1>1
  <2> HIDE DEF f, D
  <2> QED
    BY <2>2, <2>3
<1>5. ASSUME NEW k \in 0..(n - 1), k \in U PROVE k + 1 \in U
  <2>1. PICK f \in [D(k) -> Nat] : \A s \in D(k) : f[s] = next_to(f, s)
    BY <1>5
  <2> DEFINE g == [s \in D(k + 1) |-> next_to(f, s)]
  <2>2. k \in Nat /\ k + 1 \in 0..n
    BY <1>1
  <2>3. ASSUME NEW s \in D(k + 1), s # {} PROVE s \ {Chosen(s)} \in D(k) /\ Chosen(s) \in T
    BY <1>1, <1>2, <1>3, <2>2, <2>3
  <2>4. ASSUME NEW s \in D(k) PROVE s \in D(k + 1)
    BY <1>1, <1>2, <2>2
  <2>5. ASSUME NEW s \in D(k + 1) PROVE next_to(f, s) \in Nat
    <3>1. CASE s = {}
      BY <3>1
    <3>2. CASE s # {}
      <4>1. f[s \ {Chosen(s)}] \in Nat /\ w[Chosen(s)] \in Nat
        BY <2>1, <2>3, <3>2
      <4> QED
        BY <3>2, <4>1
    <3> QED
      BY <3>1, <3>2
  <2> HIDE DEF D
  <2>6. g \in [D(k + 1) -> Nat]
    BY <2>5
  <2>7. \A s \in D(k) : g[s] = f[s]
    BY <2>1, <2>4
  <2>8. ASSUME NEW s \in D(k + 1) PROVE g[s] = next_to(g, s)
    <3>1. CASE s = {}
      BY <3>1
    <3>2. CASE s # {}
      <4>1. g[s \ {Chosen(s)}] = f[s \ {Chosen(s)}]
        BY <2>3, <2>7, <3>2
      <4> QED
        BY <3>2, <4>1
    <3> QED
      BY <3>1, <3>2
  <2> HIDE DEF g
  <2> QED
    BY <2>2, <2>6, <2>8
<1>6. \A k \in 0..n : k \in U
  <2> HIDE DEF U
  <2> QED
    BY <1>1, <1>4, <1>5, Climb
<1>7. PICK f \in [D(n) -> Nat] : \A s \in D(n) : f[s] = next_to(f, s)
  <2>1. n \in 0..n
    BY <1>1
  <2> QED
    BY <1>6, <2>1
<1>8. D(n) = SUBSET T
  BY <1>1, <1>2
<1>9. f = [s \in SUBSET T |-> next_to(f, s)]
  BY <1>7, <1>8
<1> QED
  BY <1>7, <1>8, <1>9 DEF Summing

(* One element more adds what it weighs, whichever is chosen first. *)
Adding(f, T, w) ==
  \A s \in SUBSET T : \A y \in T : y \notin s => f[s \cup {y}] = f[s] + w[y]

(* Any element may be taken last. *)
LEMMA SumStep ==
  ASSUME NEW T, IsFiniteSet(T), NEW w \in [T -> Nat], NEW f \in [SUBSET T -> Nat], Summing(f, T, w)
  PROVE  Adding(f, T, w)
<1> DEFINE n == Cardinality(T)
           U == {k \in 0..n : \A t \in SUBSET T : Cardinality(t) <= k =>
                   \A z \in T : z \notin t => f[t \cup {z}] = f[t] + w[z]}
<1>1. n \in Nat
  BY FS_CardinalityType
<1>2. ASSUME NEW t \in SUBSET T
      PROVE  IsFiniteSet(t) /\ Cardinality(t) \in 0..n /\ (Cardinality(t) = 0 <=> t = {})
  BY <1>1, FS_Subset, FS_CardinalityType, FS_EmptySet
<1> HIDE DEF n
<1>3. ASSUME NEW t \in SUBSET T, t # {}
      PROVE  /\ Chosen(t) \in t /\ t \ {Chosen(t)} \in SUBSET T
             /\ f[t] = f[t \ {Chosen(t)}] + w[Chosen(t)]
  BY <1>3, ChosenIsMember DEF Summing
<1>4. \A t \in SUBSET T : f[t] \in Nat
  OBVIOUS
<1>5. 0 \in U
  <2>1. ASSUME NEW t \in SUBSET T, Cardinality(t) <= 0, NEW z \in T
        PROVE  f[t \cup {z}] = f[t] + w[z]
    <3>1. t = {}
      BY <1>1, <1>2, <2>1
    <3>2. t \cup {z} = {z} /\ {z} \in SUBSET T /\ {z} # {}
      BY <3>1
    <3>3. Chosen({z}) = z /\ {z} \ {z} = {}
      BY <1>3, <3>2
    <3> QED
      BY <1>3, <3>1, <3>2, <3>3
  <2>2. 0 \in 0..n
    BY <1>1
  <2> QED
    BY <2>1, <2>2
<1>6. ASSUME NEW k \in 0..(n - 1), k \in U PROVE k + 1 \in U
  <2>1. ASSUME NEW t \in SUBSET T, Cardinality(t) <= k + 1, NEW z \in T, z \notin t
        PROVE  f[t \cup {z}] = f[t] + w[z]
    <3> DEFINE u == t \cup {z}
               x == Chosen(u)
               r == t \ {x}
    <3>1. u \in SUBSET T /\ x \in u /\ f[u] = f[u \ {x}] + w[x]
      <4>1. u \in SUBSET T /\ u # {}
        OBVIOUS
      <4> HIDE DEF u
      <4> QED
        BY <1>3, <4>1
    <3> HIDE DEF x
    <3>2. CASE x = z
      <4>1. u \ {x} = t
        BY <2>1, <3>2
      <4> QED
        BY <3>1, <3>2, <4>1
    <3>3. CASE x # z
      <4>1. x \in t /\ x \in T
        BY <3>1, <3>3
      <4>2. r \in SUBSET T /\ Cardinality(r) = Cardinality(t) - 1
        BY <1>2, <4>1, FS_RemoveElement
      <4>3. Cardinality(r) <= k
        BY <1>1, <1>2, <2>1, <4>2
      <4>4. u \ {x} = r \cup {z} /\ r \cup {x} = t /\ z \notin r /\ x \notin r
        BY <2>1, <3>3, <4>1
      <4>5. f[r \cup {z}] = f[r] + w[z]
        BY <1>6, <4>2, <4>3, <4>4
      <4>6. f[r \cup {x}] = f[r] + w[x]
        BY <1>6, <4>1, <4>2, <4>3, <4>4
      <4>7. f[r] \in Nat /\ w[x] \in Nat /\ w[z] \in Nat
        BY <1>4, <4>1, <4>2
      <4> HIDE DEF u, r
      <4>8. f[u] = f[r] + w[z] + w[x] /\ f[t] = f[r] + w[x]
        BY <3>1, <4>4, <4>5, <4>6
      <4> QED
        BY <4>7, <4>8 DEF u
    <3> QED
      BY <3>2, <3>3
  <2>2. k + 1 \in 0..n
    BY <1>1
  <2> QED
    BY <2>1, <2>2
<1>7. \A k \in 0..n : k \in U
  <2> HIDE DEF U
  <2> QED
    BY <1>1, <1>5, <1>6, Climb
<1>8. n \in U /\ \A s \in SUBSET T : Cardinality(s) <= n
  BY <1>1, <1>2, <1>7
<1> QED
  BY <1>8 DEF Adding

(* The list of the elements of a set. *)
Enumerates(e, n, T) ==
  /\ n \in Nat /\ e \in [1..n -> T]
  /\ \A j, k \in 1..n : e[j] = e[k] => j = k
  /\ \A y \in T : \E k \in 1..n : e[k] = y

(* The values h that the sum of w over the list goes through. *)
RunningSum(h, e, n, w) == h[0] = 0 /\ \A k \in 1..n : h[k] = h[k - 1] + w[e[k]]

\* The sum of a subset is that without one of its elements, and the element.
SumTakes(f, T, w) ==
  IsFiniteSet(T) /\ w \in [T -> Nat] /\ f \in [SUBSET T -> Nat] /\ Summing(f, T, w)

(* A sum over a set is the sum over a list of its elements. *)
LEMMA SumOfList ==
  ASSUME NEW T, NEW n \in Nat, NEW e, NEW w, NEW f, NEW h,
         Enumerates(e, n, T), SumTakes(f, T, w), RunningSum(h, e, n, w)
  PROVE  h[n] = f[T]
<1> DEFINE first(k) == {e[j] : j \in 1..k}
           U == {k \in 0..n : h[k] = f[first(k)]}
<1>1. e \in [1..n -> T] /\ \A j, k \in 1..n : e[j] = e[k] => j = k
  BY DEF Enumerates
<1>2. Adding(f, T, w) /\ Summing(f, T, w)
  BY SumStep DEF SumTakes
<1>3. 0 \in U
  <2>1. first(0) = {} /\ 0 \in 0..n
    OBVIOUS
  <2>2. f[{}] = 0
    BY DEF Summing, SumTakes
  <2> HIDE DEF first
  <2> QED
    BY <2>1, <2>2 DEF RunningSum
<1>4. ASSUME NEW k \in 0..(n - 1), k \in U PROVE k + 1 \in U
  <2>1. k + 1 \in 1..n /\ k + 1 \in 0..n /\ (k + 1) - 1 = k
    OBVIOUS
  <2>2. \A j : j \in 1..(k + 1) <=> j \in 1..k \/ j = k + 1
    OBVIOUS
  <2>3. first(k + 1) = first(k) \cup {e[k + 1]}
    BY <2>2
  <2>4. \A j \in 1..k : j \in 1..n /\ j # k + 1
    OBVIOUS
  <2>5. first(k) \in SUBSET T /\ e[k + 1] \in T /\ e[k + 1] \notin first(k)
    BY <1>1, <2>1, <2>4
  <2> HIDE DEF first
  <2>6. f[first(k) \cup {e[k + 1]}] = f[first(k)] + w[e[k + 1]]
    BY <1>2, <2>5 DEF Adding
  <2>7. h[k + 1] = h[k] + w[e[k + 1]] /\ h[k] = f[first(k)]
    BY <1>4, <2>1 DEF RunningSum
  <2> QED
    BY <2>1, <2>3, <2>6, <2>7
<1>5. \A k \in 0..n : k \in U
  <2> HIDE DEF U
  <2> QED
    BY <1>3, <1>4, Climb
<1>6. first(n) = T
  BY <1>1 DEF Enumerates
<1>7. h[n] = f[first(n)]
  <2>1. n \in 0..n
    OBVIOUS
  <2> HIDE DEF first
  <2> QED
    BY <1>5, <2>1
<1> QED
  BY <1>6, <1>7

-----------------------------------------------------------------------------
(* The merit of a page.                                                      *)

(* The completed outcome of an engine. *)
OutcomeOf(r, e) == CHOOSE o \in CompletedIn(r) : o.engine = e

(* An engine has one outcome. *)
LEMMA OutcomeUnique ==
  ASSUME NEW r \in Reports, PlainReport(r), NEW o \in CompletedIn(r), NEW x \in CompletedIn(r),
         o.engine = x.engine
  PROVE  o = x
BY DEF PlainReport, CompletedIn, ToSet

(* The findings of a page are the places where completed engines list it. *)
LEMMA FindingsOfPage ==
  ASSUME NEW r \in Reports, NEW page
  PROVE  LET F == About(FoundBefore(r, Len(r) + 1), page) IN
         /\ \A g \in F : \E o \in CompletedIn(r) : \E i \in DOMAIN o.results :
              o.results[i].url.page = page /\ TellsOf(g, o, i)
         /\ \A o \in CompletedIn(r) : \A i \in DOMAIN o.results :
              o.results[i].url.page = page => \E g \in F : TellsOf(g, o, i)
BY OutcomesFound DEF About, TellsOf

(* Each engine of a merged result is that of an outcome, with its best place. *)
BestOf(m, e, page) ==
  \A k \in 1..Len(m.engines) : m.engines[k] = e[k].engine /\ m.positions[k] = Best(e[k], page)

(* A member that no other is below is the minimum. *)
LEMMA SameLeast ==
  ASSUME NEW T \in SUBSET Nat, NEW x \in T, \A y \in T : x <= y
  PROVE  Min(T) = x
<1>1. Min(T) \in T /\ Min(T) <= x /\ x <= Min(T)
  BY MinIsLeast
<1>2. x \in Nat /\ Min(T) \in Nat
  BY <1>1
<1> QED
  BY <1>1, <1>2

(* The engines of a merged result are the finders of its page, in some order, *)
(* each with its best position.                                               *)
LEMMA EnginesAreFinders ==
  ASSUME NEW S, NEW ms, Lists(S, ms, FoundBefore(report, Len(report) + 1)),
         report \in Reports, PlainReport(report), NEW i \in DOMAIN ms
  PROVE  \E e :
           /\ Enumerates(e, Len(ms[i].engines), Finders(PageShown(ms[i])))
           /\ BestOf(ms[i], e, PageShown(ms[i]))
<1> DEFINE m == ms[i]
           page == PageShown(m)
           G == FoundBefore(report, Len(report) + 1)
           F == About(G, page)
           n == Len(m.engines)
           e == [k \in 1..n |-> OutcomeOf(report, m.engines[k])]
<1>1. m \in MergedResult /\ EachEngineOnce(m) /\ BestPositions(m, F)
  BY DEF Lists, Credited
<1>2. DOMAIN m.engines = 1..n /\ DOMAIN m.positions = 1..n /\ n \in Nat
  BY <1>1 DEF MergedResult, EachEngineOnce
<1> HIDE DEF m, n
<1>3. Completed = CompletedIn(report)
  BY DEF Completed, CompletedIn
<1>4. /\ \A g \in F : \E o \in Completed : \E k \in DOMAIN o.results :
           o.results[k].url.page = page /\ TellsOf(g, o, k)
      /\ \A o \in Completed : \A k \in DOMAIN o.results :
           o.results[k].url.page = page => \E g \in F : TellsOf(g, o, k)
  BY <1>3, FindingsOfPage
<1> HIDE DEF F, G, page
<1>5. ASSUME NEW k \in 1..n
      PROVE  /\ e[k] \in Finders(page) /\ e[k].engine = m.engines[k]
             /\ m.positions[k] \in DOMAIN e[k].results
             /\ e[k].results[m.positions[k]].url.page = page
  <2>1. PICK g \in F : m.engines[k] = g.engine /\ m.positions[k] = g.position
    BY <1>1, <1>2 DEF BestPositions
  <2>2. PICK o \in Completed : \E j \in DOMAIN o.results :
          o.results[j].url.page = page /\ TellsOf(g, o, j)
    BY <1>4, <2>1
  <2>3. PICK j \in DOMAIN o.results : o.results[j].url.page = page /\ TellsOf(g, o, j)
    BY <2>2
  <2>4. o.engine = m.engines[k] /\ j = m.positions[k]
    BY <2>1, <2>3 DEF TellsOf
  <2>5. OutcomeOf(report, m.engines[k]) \in CompletedIn(report)
        /\ OutcomeOf(report, m.engines[k]).engine = m.engines[k]
    BY <1>3, <2>4 DEF OutcomeOf
  <2>6. e[k] = o
    BY <1>3, <2>4, <2>5, OutcomeUnique
  <2>7. o \in Finders(page)
    BY <2>3 DEF Finders, PagesOf
  <2> HIDE DEF e
  <2> QED
    BY <2>3, <2>4, <2>6, <2>7
<1> HIDE DEF e
<1>6. \A j, k \in 1..n : e[j] = e[k] => j = k
  BY <1>1, <1>2, <1>5 DEF EachEngineOnce
<1>7. ASSUME NEW o \in Finders(page), NEW j \in DOMAIN o.results, o.results[j].url.page = page
      PROVE  \E k \in 1..n : e[k] = o /\ m.positions[k] <= j
  <2>1. o \in Completed
    BY DEF Finders
  <2>2. PICK g \in F : TellsOf(g, o, j)
    BY <1>4, <1>7, <2>1
  <2>3. PICK k \in 1..n : m.engines[k] = o.engine /\ m.positions[k] <= j
    BY <1>1, <1>2, <2>2 DEF BestPositions, TellsOf
  <2>4. e[k].engine = o.engine /\ e[k] \in CompletedIn(report)
    BY <1>3, <1>5, <2>3 DEF Finders
  <2>5. e[k] = o
    BY <1>3, <2>1, <2>4, OutcomeUnique
  <2> QED
    BY <2>3, <2>5
<1>8. ASSUME NEW o \in Finders(page) PROVE \E k \in 1..n : e[k] = o
  <2>1. PICK j \in DOMAIN o.results : o.results[j].url.page = page
    BY DEF Finders, PagesOf
  <2> QED
    BY <1>7, <2>1
<1>9. ASSUME NEW k \in 1..n PROVE m.positions[k] = Best(e[k], page)
  <2> DEFINE T == {j \in DOMAIN e[k].results : e[k].results[j].url.page = page}
  <2>1. m.positions[k] \in T
    BY <1>5
  <2>2. ASSUME NEW j \in T PROVE m.positions[k] <= j
    <3>1. PICK l \in 1..n : e[l] = e[k] /\ m.positions[l] <= j
      BY <1>5, <1>7
    <3> QED
      BY <1>6, <3>1
  <2>3. T \in SUBSET Nat
    <3>1. e[k] \in CompletedIn(report)
      BY <1>3, <1>5 DEF Finders
    <3>2. PICK a \in DOMAIN report : e[k] = report[a]
      BY <3>1 DEF CompletedIn, ToSet
    <3>3. e[k].results \in Seq(Result)
      BY <3>2, ReportTyped
    <3> QED
      BY <3>3
  <2> HIDE DEF T
  <2>4. Min(T) = m.positions[k]
    BY <2>1, <2>2, <2>3, SameLeast
  <2> QED
    BY <2>4 DEF T, Best
<1>10. e \in [1..n -> Finders(page)]
  <2>1. e = [k \in 1..n |-> e[k]]
    BY DEF e
  <2> QED
    BY <1>5, <2>1
<1> QED
  BY <1>2, <1>5, <1>6, <1>8, <1>9, <1>10 DEF m, n, page, Enumerates, BestOf

(* Sums are natural numbers. *)
LEMMA SumTyped ==
  ASSUME NEW T, IsFiniteSet(T), NEW w \in [T -> Nat], NEW f, Summing(f, T, w)
  PROVE  f \in [SUBSET T -> Nat]
<1> DEFINE n == Cardinality(T)
           U == {k \in 0..n : \A t \in SUBSET T : Cardinality(t) <= k => f[t] \in Nat}
<1>1. n \in Nat
  BY FS_CardinalityType
<1>2. ASSUME NEW t \in SUBSET T
      PROVE  IsFiniteSet(t) /\ Cardinality(t) \in 0..n /\ (Cardinality(t) = 0 <=> t = {})
  BY <1>1, FS_Subset, FS_CardinalityType, FS_EmptySet
<1> HIDE DEF n
<1>3. ASSUME NEW t \in SUBSET T, t # {}
      PROVE  /\ t \ {Chosen(t)} \in SUBSET T /\ Cardinality(t \ {Chosen(t)}) = Cardinality(t) - 1
             /\ f[t] = f[t \ {Chosen(t)}] + w[Chosen(t)] /\ w[Chosen(t)] \in Nat
  <2>1. Chosen(t) \in t /\ t \ {Chosen(t)} \in SUBSET T
    BY <1>3, ChosenIsMember
  <2>2. Cardinality(t \ {Chosen(t)}) = Cardinality(t) - 1
    BY <1>2, <2>1, FS_RemoveElement
  <2> QED
    BY <1>3, <2>1, <2>2 DEF Summing
<1>4. f[{}] = 0
  BY DEF Summing
<1>5. 0 \in U
  <2>1. ASSUME NEW t \in SUBSET T, Cardinality(t) <= 0 PROVE f[t] \in Nat
    BY <1>1, <1>2, <1>4, <2>1
  <2>2. 0 \in 0..n
    BY <1>1
  <2> QED
    BY <2>1, <2>2
<1>6. ASSUME NEW k \in 0..(n - 1), k \in U PROVE k + 1 \in U
  <2>1. ASSUME NEW t \in SUBSET T, Cardinality(t) <= k + 1 PROVE f[t] \in Nat
    <3>1. CASE t = {}
      BY <1>4, <3>1
    <3>2. CASE t # {}
      <4>1. Cardinality(t \ {Chosen(t)}) <= k
        BY <1>1, <1>2, <1>3, <2>1, <3>2
      <4>2. f[t \ {Chosen(t)}] \in Nat
        BY <1>3, <1>6, <3>2, <4>1
      <4> QED
        BY <1>3, <3>2, <4>2
    <3> QED
      BY <3>1, <3>2
  <2>2. k + 1 \in 0..n
    BY <1>1
  <2> QED
    BY <2>1, <2>2
<1>7. \A k \in 0..n : k \in U
  <2> HIDE DEF U
  <2> QED
    BY <1>1, <1>5, <1>6, Climb
<1>8. \A t \in SUBSET T : f[t] \in Nat
  <2>1. n \in U
    BY <1>1, <1>7
  <2> QED
    BY <1>1, <1>2, <2>1
<1>9. f = [t \in SUBSET T |-> f[t]]
  BY DEF Summing
<1> QED
  BY <1>8, <1>9

(* What is enumerated has as many members as the enumeration is long. *)
LEMMA EnumeratedFinite ==
  ASSUME NEW e, NEW n, NEW T, Enumerates(e, n, T)
  PROVE  IsFiniteSet(T) /\ Cardinality(T) = n
<1>1. n \in Nat /\ IsFiniteSet(1..n) /\ Cardinality(1..n) = n
  BY FS_Interval DEF Enumerates
<1>2. e \in Surjection(1..n, T) /\ e \in Injection(1..n, T)
  BY DEF Enumerates, Surjection, Injection, IsInjective
<1>3. IsFiniteSet(T) /\ Cardinality(T) = Cardinality(1..n)
  BY <1>1, <1>2, FS_Surjection
<1> QED
  BY <1>1, <1>3

(* The fold of Merit, written out. *)
SharesSum(f, page) ==
  f = [s \in SUBSET Finders(page) |->
         IF s = {} THEN 0
         ELSE f[s \ {Chosen(s)}] + Share(Chosen(s), page)]

(* The score of a merged result is the sum over the engines that found its page. *)
LEMMA SharesAddUp ==
  ASSUME NEW m \in MergedResult, EachEngineOnce(m), m.result.priority \notin {"high", "low"}, NEW page, NEW e,
         Enumerates(e, Len(m.engines), Finders(page)),
         BestOf(m, e, page)
  PROVE  score_of(query, m) =
           relevance(query, m.result) * FoldSet(LAMBDA o, sum : sum + Share(o, page), 0, Finders(page))
<1> DEFINE n == Len(m.engines)
           T == Finders(page)
           w == [o \in T |-> Share(o, page)]
           f == CHOOSE f : SharesSum(f, page)
<1>1. n \in Nat /\ DOMAIN m.positions = 1..n /\ n = Len(m.positions)
  <2>1. m.engines \in Seq(DOMAIN Weight) /\ m.positions \in Seq(Nat \ {0})
    BY DEF MergedResult
  <2>2. DOMAIN m.engines = 1..n /\ n \in Nat
    BY <2>1
  <2>3. DOMAIN m.positions = 1..Len(m.positions) /\ Len(m.positions) \in Nat
    BY <2>1
  <2>4. 1..n = 1..Len(m.positions)
    BY <2>2, <2>3 DEF EachEngineOnce
  <2> HIDE DEF n
  <2>5. n = Len(m.positions)
    BY <2>2, <2>3, <2>4
  <2> QED
    BY <2>2, <2>3, <2>5
<1>2. Enumerates(e, n, T) /\ IsFiniteSet(T)
  BY EnumeratedFinite
<1>3. ASSUME NEW k \in 1..n PROVE Share(e[k], page) = Points(m, k) /\ Points(m, k) \in Nat
  <2>1. m.engines[k] = e[k].engine /\ m.positions[k] = Best(e[k], page)
    BY DEF BestOf
  <2>2. Points(m, k) = (12 * Weight[m.engines[k]]) \div m.positions[k]
    BY DEF Points
  <2> QED
    BY <1>1, <2>1, <2>2, PointsTyped DEF Share
<1>4. PICK h \in [0..Len(m.positions) -> Nat] :
        /\ h[0] = 0
        /\ \A k \in 1..Len(m.positions) : h[k] = h[k - 1] + Points(m, k)
        /\ score_of(query, m) = IF m.result.priority = "low" THEN 0
                                ELSE relevance(query, m.result) * h[Len(m.positions)]
  BY PointsAddUp
<1>5. /\ h[0] = 0 /\ \A k \in 1..n : h[k] = h[k - 1] + Points(m, k)
      /\ score_of(query, m) = relevance(query, m.result) * h[n]
  BY <1>1, <1>4
<1> HIDE DEF n
<1>6. \A k \in 1..n : e[k] \in T /\ w[e[k]] = Points(m, k)
  BY <1>2, <1>3 DEF Enumerates
<1>7. w \in [T -> Nat]
  <2>1. ASSUME NEW o \in T PROVE Share(o, page) \in Nat
    <3>1. PICK k \in 1..n : e[k] = o
      BY <1>2 DEF Enumerates
    <3> QED
      BY <1>3, <3>1
  <2> QED
    BY <2>1
<1>8. \A g : Summing(g, T, w) <=> SharesSum(g, page)
  <2>1. ASSUME NEW s \in SUBSET T, s # {} PROVE w[Chosen(s)] = Share(Chosen(s), page)
    <3>1. Chosen(s) \in T
      BY <2>1, ChosenIsMember
    <3> QED
      BY <3>1
  <2> HIDE DEF w
  <2> QED
    BY <2>1 DEF Summing, SharesSum
<1>9. SharesSum(f, page)
  <2>1. \E g : SharesSum(g, page)
    BY <1>2, <1>7, <1>8, SumExists
  <2> QED
    BY <2>1
<1>10. FoldSet(LAMBDA o, sum : sum + Share(o, page), 0, T) = f[T]
  BY DEF FoldSet, MapThenFoldSet, SharesSum, Chosen
<1> HIDE DEF f, w
<1>11. Summing(f, T, w) /\ f \in [SUBSET T -> Nat]
  BY <1>2, <1>7, <1>8, <1>9, SumTyped
<1>12. RunningSum(h, e, n, w)
  BY <1>5, <1>6 DEF RunningSum
<1>13. h[n] = f[T]
  <2> HIDE DEF T
  <2>1. n \in Nat /\ Enumerates(e, n, T) /\ IsFiniteSet(T)
    BY <1>1, <1>2
  <2>2. SumTakes(f, T, w)
    BY <1>7, <1>11, <2>1 DEF SumTakes
  <2> QED
    BY <2>1, <2>2, <1>12, SumOfList
<1> QED
  BY <1>5, <1>10, <1>13

(* The places where a report lists a page. *)
PlacesOf(r, page) ==
  UNION {{<<j, i>> : i \in {k \in DOMAIN r[j].results : r[j].results[k].url.page = page}}
         : j \in {k \in DOMAIN r : r[k].status = "Completed"}}

\* What the report says at a place.
TextAt(r, p) == r[p[1]].results[p[2]].text

\* No other of these places comes before p.
FirstOf(p, T) == p \in T /\ \A q \in T : p[1] < q[1] \/ (p[1] = q[1] /\ p[2] <= q[2])

(* A set of places has one first place. *)
LEMMA FirstIsUnique ==
  ASSUME NEW T \in SUBSET (Nat \X Nat), NEW p, FirstOf(p, T)
  PROVE  (CHOOSE x \in T : \A y \in T : x[1] < y[1] \/ (x[1] = y[1] /\ x[2] <= y[2])) = p
<1>1. ASSUME NEW x \in T, \A y \in T : x[1] < y[1] \/ (x[1] = y[1] /\ x[2] <= y[2]) PROVE x = p
  <2>1. p \in T /\ p \in Nat \X Nat /\ x \in Nat \X Nat
    BY DEF FirstOf
  <2>2. x[1] < p[1] \/ (x[1] = p[1] /\ x[2] <= p[2])
    BY <1>1, <2>1
  <2>3. p[1] < x[1] \/ (p[1] = x[1] /\ p[2] <= x[2])
    BY DEF FirstOf
  <2>4. x[1] = p[1] /\ x[2] = p[2]
    BY <2>1, <2>2, <2>3
  <2> QED
    BY <2>1, <2>4
<1> QED
  BY <1>1 DEF FirstOf

(* The findings of a page and the places that list it are the same. *)
LEMMA PlacesFound ==
  ASSUME NEW r \in Reports, NEW page
  PROVE  LET F == About(FoundBefore(r, Len(r) + 1), page) IN
         /\ \A g \in F : <<g.turn, g.position>> \in PlacesOf(r, page)
                        /\ g.text = TextAt(r, <<g.turn, g.position>>)
         /\ \A p \in PlacesOf(r, page) : \E g \in F :
              p = <<g.turn, g.position>> /\ g.text = TextAt(r, p)
         /\ PlacesOf(r, page) \in SUBSET (Nat \X Nat)
<1> DEFINE F == About(FoundBefore(r, Len(r) + 1), page)
<1>1. ASSUME NEW g \in F
      PROVE  <<g.turn, g.position>> \in PlacesOf(r, page) /\ g.text = TextAt(r, <<g.turn, g.position>>)
  <2>1. g \in FoundBefore(r, Len(r) + 1) /\ g.page = page
    BY DEF About
  <2>2. PICK j : Ingested(r, j) /\ \E i \in DOMAIN r[j].results : TellsOf(g, r[j], i) /\ g.turn = j
    BY <2>1, AllFound
  <2>3. PICK i \in DOMAIN r[j].results : TellsOf(g, r[j], i) /\ g.turn = j
    BY <2>2
  <2>4. j \in {k \in DOMAIN r : r[k].status = "Completed"} /\ r[j].results[i].url.page = page
    BY <2>1, <2>2, <2>3 DEF Ingested, TellsOf
  <2>5. <<j, i>> \in PlacesOf(r, page)
    BY <2>3, <2>4 DEF PlacesOf
  <2> QED
    BY <2>3, <2>5 DEF TellsOf, TextAt
<1>2. ASSUME NEW p \in PlacesOf(r, page)
      PROVE  /\ p \in Nat \X Nat
             /\ \E g \in F : p = <<g.turn, g.position>> /\ g.text = TextAt(r, p)
  <2>1. PICK j \in DOMAIN r : r[j].status = "Completed" /\
          \E i \in DOMAIN r[j].results : r[j].results[i].url.page = page /\ p = <<j, i>>
    BY DEF PlacesOf
  <2>2. PICK i \in DOMAIN r[j].results : r[j].results[i].url.page = page /\ p = <<j, i>>
    BY <2>1
  <2>3. PICK g \in FoundBefore(r, Len(r) + 1) : TellsOf(g, r[j], i) /\ g.turn = j
    BY <2>1, AllFound DEF Ingested
  <2>4. g \in F /\ p = <<g.turn, g.position>> /\ g.text = TextAt(r, p)
    BY <2>2, <2>3 DEF About, TellsOf, TextAt
  <2>5. j \in Nat /\ i \in Nat
    <3>1. r[j].results \in Seq(Result) /\ DOMAIN r = 1..Len(r) /\ Len(r) \in Nat
      BY ReportTyped
    <3> QED
      BY <3>1
  <2> QED
    BY <2>2, <2>4, <2>5
<1> QED
  BY <1>1, <1>2

(* A merged result shows the text that the property names. *)
LEMMA TextShown ==
  ASSUME NEW page, NEW m, report \in Reports,
         FoundBefore(report, Len(report) + 1) \in SUBSET Finding,
         BestText(m, About(FoundBefore(report, Len(report) + 1), page))
  PROVE  ShownText(page) = m.result.text
<1> DEFINE F == About(FoundBefore(report, Len(report) + 1), page)
           places == PlacesOf(report, page)
           real == {p \in places : ~TextAt(report, p).stub}
           shown == IF real = {} THEN places ELSE real
<1>1. PICK g \in F : m.result.text = g.text /\ ShownOf(g, F)
  BY DEF BestText
<1> DEFINE p == <<g.turn, g.position>>
<1>2. /\ \A h \in F : <<h.turn, h.position>> \in places /\ h.text = TextAt(report, <<h.turn, h.position>>)
      /\ \A q \in places : \E h \in F : q = <<h.turn, h.position>> /\ h.text = TextAt(report, q)
      /\ places \in SUBSET (Nat \X Nat)
  BY PlacesFound
<1>3. \A h \in F : h.text.stub \in BOOLEAN
  BY DEF About, Finding, Text
<1>4. ShownAt(page) = CHOOSE x \in shown : \A y \in shown : x[1] < y[1] \/ (x[1] = y[1] /\ x[2] <= y[2])
  BY DEF ShownAt, PlacesOf, TextAt
<1> HIDE DEF F, places
<1>5. p \in places /\ g.text = TextAt(report, p) /\ p \in Nat \X Nat
  BY <1>2
<1>6. p \in shown
  <2>1. CASE g.text.stub
    <3>1. \A h \in F : h.text.stub
      BY <1>1, <2>1 DEF ShownOf
    <3>2. real = {}
      BY <1>2, <3>1
    <3> QED
      BY <1>5, <3>2
  <2>2. CASE ~g.text.stub
    BY <1>5, <2>2
  <2> QED
    BY <2>1, <2>2
<1>7. ASSUME NEW q \in shown PROVE p[1] < q[1] \/ (p[1] = q[1] /\ p[2] <= q[2])
  <2>1. q \in places /\ (real # {} => ~TextAt(report, q).stub)
    OBVIOUS
  <2>2. PICK h \in F : q = <<h.turn, h.position>> /\ h.text = TextAt(report, q)
    BY <1>2, <2>1
  <2>3. h.text.stub = g.text.stub
    <3>1. CASE real = {}
      <4>1. TextAt(report, p).stub /\ TextAt(report, q).stub
        BY <1>5, <2>1, <3>1
      <4> QED
        BY <1>3, <1>5, <2>2, <4>1
    <3>2. CASE real # {}
      <4>1. ~TextAt(report, p).stub /\ ~TextAt(report, q).stub
        BY <1>6, <2>1, <3>2
      <4> QED
        BY <1>3, <1>5, <2>2, <4>1
    <3> QED
      BY <3>1, <3>2
  <2>4. h = g \/ Earlier(g, h)
    BY <1>1, <2>3 DEF ShownOf
  <2>5. h.turn \in Nat /\ h.position \in Nat /\ g.turn \in Nat /\ g.position \in Nat
    BY <1>2
  <2> QED
    BY <2>2, <2>4, <2>5 DEF Earlier
<1>8. FirstOf(p, shown) /\ shown \in SUBSET (Nat \X Nat)
  <2> HIDE DEF p
  <2>1. \A q \in shown : p[1] < q[1] \/ (p[1] = q[1] /\ p[2] <= q[2])
    BY <1>7
  <2>2. shown \in SUBSET (Nat \X Nat)
    BY <1>2
  <2> HIDE DEF shown
  <2> QED
    BY <1>6, <2>1, <2>2 DEF FirstOf
<1> HIDE DEF p, shown
<1>9. ShownAt(page) = p
  BY <1>4, <1>8, FirstIsUnique
<1> QED
  BY <1>1, <1>5, <1>9 DEF ShownText, TextAt

(* What a merged result is compared by is the merit of its page. *)
LEMMA MeritOfMerged ==
  ASSUME NEW ms, Lists(Listed(report), ms, FoundBefore(report, Len(report) + 1)),
         report \in Reports, PlainReport(report), NEW i \in DOMAIN ms
  PROVE  Merit(PageShown(ms[i]), ms[i]) =
           <<score_of(query, ms[i]), engine_count(ms[i]), 100 - min_position(ms[i])>>
<1> DEFINE m == ms[i]
           page == PageShown(m)
           G == FoundBefore(report, Len(report) + 1)
<1>1. /\ m \in MergedResult /\ EachEngineOnce(m) /\ BestText(m, About(G, page))
      /\ G \in SUBSET Finding
  BY DEF Lists, Credited
<1>2. PICK x \in Listed(report) : StandsFor(m, x)
  BY DEF Lists
<1>3. m.result.priority \notin {"high", "low"} /\ m.result.kind = "Main"
  BY <1>2 DEF StandsFor, PlainReport
<1>4. PICK e : Enumerates(e, Len(m.engines), Finders(page)) /\ BestOf(m, e, page)
  BY EnginesAreFinders
<1> HIDE DEF m
<1>5. ShownText(page) = m.result.text
  <2> HIDE DEF page
  <2> QED
    BY <1>1, TextShown
<1> HIDE DEF page
<1>6. score_of(query, m) =
        relevance(query, m.result) * FoldSet(LAMBDA o, sum : sum + Share(o, page), 0, Finders(page))
  BY <1>1, <1>3, <1>4, SharesAddUp
<1>7. Cardinality(Finders(page)) = engine_count(m)
  <2>1. Cardinality(Finders(page)) = Len(m.engines)
    BY <1>4, EnumeratedFinite
  <2> QED
    BY <1>3, <2>1 DEF engine_count
<1>8. Min({Best(o, page) : o \in Finders(page)}) = min_position(m)
  <2>1. DOMAIN m.positions = 1..Len(m.engines)
    <3>1. m.engines \in Seq(DOMAIN Weight)
      BY <1>1 DEF MergedResult
    <3>2. DOMAIN m.engines = 1..Len(m.engines)
      BY <3>1
    <3> QED
      BY <1>1, <3>2 DEF EachEngineOnce
  <2>2. \A k \in DOMAIN m.positions : e[k] \in Finders(page) /\ m.positions[k] = Best(e[k], page)
    BY <1>4, <2>1 DEF Enumerates, BestOf
  <2>3. \A o \in Finders(page) : \E k \in DOMAIN m.positions : e[k] = o
    BY <1>4, <2>1 DEF Enumerates
  <2>4. {Best(o, page) : o \in Finders(page)} = ToSet(m.positions)
    BY <2>2, <2>3 DEF ToSet
  <2> QED
    BY <2>4 DEF min_position
<1>9. relevance(query, m.result) =
        IF query = "empty" THEN 100
        ELSE LET t == ShownText(page)
             IN 100 + (IF t.title THEN 50 ELSE 0) + (IF t.content THEN 15 ELSE 0)
                    + host_boost(m.result.url)
  BY <1>5 DEF relevance
<1>10. Merit(page, m) =
         <<relevance(query, m.result) * FoldSet(LAMBDA o, sum : sum + Share(o, page), 0, Finders(page)),
           Cardinality(Finders(page)), 100 - Min({Best(o, page) : o \in Finders(page)})>>
  BY <1>9 DEF Merit
<1>11. Merit(page, m) = <<score_of(query, m), engine_count(m), 100 - min_position(m)>>
  BY <1>6, <1>7, <1>8, <1>10
<1> QED
  BY <1>11 DEF m, page

(***************************************************************************)
(* The order of the list is that of the pages' merit, which is defined     *)
(* from the set of the engines that found them and the first text of each  *)
(* that is no stub: for any number of engines, any weights, any texts,     *)
(* lists of any length, stubs and repetitions, in any order of the         *)
(* outcomes, as long as the engines of a report differ and list ordinary   *)
(* results whose keys tell the pages apart.                                *)
(***************************************************************************)
THEOREM PagesRankedByMerit ==
  ASSUME \A r \in Reports : PlainReport(r)
  PROVE  AggregationSpec => []RankedByMerit
<1>1. AggregationSpec => []AggregationInv
  <2>1. \A r \in Reports : KeyedByPage(Listed(r))
    BY DEF PlainReport
  <2> QED
    BY <2>1, AggregationInvariant
<1>2. AggregationInv => RankedByMerit
  <2> SUFFICES ASSUME AggregationInv, done PROVE RankedByMerit
    BY DEF RankedByMerit
  <2>1. report \in Reports /\ next = Len(report) + 1
    BY DEF AggregationInv
  <2>2. Lists(Listed(report), merged, FoundBefore(report, Len(report) + 1))
    BY <2>1 DEF AggregationInv
  <2>3. PICK p \in [DOMAIN merged -> DOMAIN merged] :
          /\ results = [k \in DOMAIN merged |-> merged[p[k]]]
          /\ \A k, l \in DOMAIN merged : k < l => ~Before(query, merged[p[l]], merged[p[k]])
    BY DEF AggregationInv, Rearranged
  <2>4. ASSUME NEW i \in DOMAIN results, NEW j \in DOMAIN results, i < j
        PROVE  AtLeast(Merit(PageShown(results[i]), results[i]), Merit(PageShown(results[j]), results[j]))
    <3> DEFINE a == results[i]
               b == results[j]
    <3>1. p[i] \in DOMAIN merged /\ p[j] \in DOMAIN merged /\ a = merged[p[i]] /\ b = merged[p[j]]
      BY <2>3
    <3>2. Rankable(query, a) /\ Rankable(query, b)
      BY <2>2, <3>1, ListRankable
    <3>3. ~Before(query, b, a)
      BY <2>3, <2>4, <3>1
    <3>4. /\ Merit(PageShown(a), a) = <<score_of(query, a), engine_count(a), 100 - min_position(a)>>
          /\ Merit(PageShown(b), b) = <<score_of(query, b), engine_count(b), 100 - min_position(b)>>
      BY <2>1, <2>2, <3>1, MeritOfMerged
    <3> HIDE DEF a, b
    <3>5. AtLeast(<<score_of(query, a), engine_count(a), 100 - min_position(a)>>,
                  <<score_of(query, b), engine_count(b), 100 - min_position(b)>>)
      BY <3>2, <3>3 DEF Rankable, Before, AtLeast
    <3>6. AtLeast(Merit(PageShown(a), a), Merit(PageShown(b), b))
      BY <3>4, <3>5
    <3> QED
      BY <3>6 DEF a, b
  <2> QED
    BY <2>4 DEF RankedByMerit
<1> QED
  BY <1>1, <1>2, PTL

-----------------------------------------------------------------------------
(* The knowledge panels.                                                     *)

\* The folds of AddUnseen, coalesce_knowledge_panels and merge_related_infoboxes, written out.
AddingUnseen(f, list, items, key) ==
  f = [s \in SUBSET DOMAIN items |->
         IF s = {} THEN list
         ELSE IF \E i \in DOMAIN f[s \ {Max(s)}] : \A g \in key : f[s \ {Max(s)}][i][g] = items[Max(s)][g]
              THEN f[s \ {Max(s)}] ELSE Append(f[s \ {Max(s)}], items[Max(s)])]

(* AddUnseen keeps the items of a set. *)
LEMMA UnseenAdded ==
  ASSUME NEW S, NEW key, NEW list \in Seq(S), NEW items \in Seq(S)
  PROVE  AddUnseen(list, items, key) \in Seq(S)
<1> DEFINE n == Len(items)
           B == Seq(S)
           added(l, x) == IF \E i \in DOMAIN l : \A g \in key : l[i][g] = x[g] THEN l ELSE Append(l, x)
           step == [k \in 1..n |-> [l \in B |-> added(l, items[k])]]
           f == CHOOSE f : AddingUnseen(f, list, items, key)
<1>1. n \in Nat /\ DOMAIN items = 1..n /\ \A k \in 1..n : items[k] \in S
  OBVIOUS
<1> HIDE DEF n
<1>2. list \in B
  OBVIOUS
<1>3. ASSUME NEW l \in B, NEW x \in S PROVE added(l, x) \in B
  BY <1>3
<1> HIDE DEF B, added
<1>4. step \in [1..n -> [B -> B]]
  BY <1>1, <1>3
<1>5. PICK f0 : Folding(f0, list, step, n) /\ f0 \in [SUBSET (1..n) -> B]
  <2> HIDE DEF step
  <2> QED
    BY <1>1, <1>2, <1>4, FoldExists
<1>6. AddingUnseen(f0, list, items, key)
  <2>1. ASSUME NEW s \in SUBSET (1..n), s # {} PROVE f0[s] = added(f0[s \ {Max(s)}], items[Max(s)])
    <3>1. Max(s) \in 1..n
      BY <1>1, <2>1, LastIsMember
    <3>2. f0[s] = step[Max(s)][f0[s \ {Max(s)}]]
      <4> HIDE DEF step
      <4> QED
        BY <1>5, <2>1 DEF Folding
    <3>3. f0[s \ {Max(s)}] \in B
      BY <1>5
    <3> QED
      BY <3>1, <3>2, <3>3
  <2>2. f0[{}] = list
    <3> HIDE DEF step
    <3> QED
      BY <1>5 DEF Folding
  <2>3. f0 = [s \in SUBSET (1..n) |-> f0[s]]
    BY <1>5
  <2>4. f0 = [s \in SUBSET (1..n) |-> IF s = {} THEN list ELSE added(f0[s \ {Max(s)}], items[Max(s)])]
    BY <2>1, <2>2, <2>3
  <2> QED
    BY <1>1, <2>4 DEF AddingUnseen, added
<1>7. AddingUnseen(f, list, items, key)
  BY <1>6
<1>8. AddUnseen(list, items, key) = f[1..n]
  BY <1>1 DEF AddUnseen, FoldLeft, MapThenFoldSet, AddingUnseen
<1> HIDE DEF f, step
<1> DEFINE T == {k \in 0..n : f[1..k] \in B}
<1>9. ASSUME NEW s \in SUBSET (1..n), s # {} PROVE f[s] = added(f[s \ {Max(s)}], items[Max(s)])
  BY <1>1, <1>7, <1>9 DEF AddingUnseen, added
<1>10. f[{}] = list
  BY <1>7 DEF AddingUnseen
<1>11. 0 \in T
  <2>1. f[1..0] = list /\ 0 \in 0..n
    BY <1>1, <1>10, Segments
  <2> QED
    BY <1>2, <2>1
<1>12. ASSUME NEW k \in 0..(n - 1), k \in T PROVE k + 1 \in T
  <2> DEFINE t == 1..(k + 1)
  <2>1. k + 1 \in 1..n /\ k + 1 \in 0..n /\ (k + 1) - 1 = k
    BY <1>1
  <2>2. t \in SUBSET (1..n) /\ t # {} /\ Max(t) = k + 1 /\ t \ {k + 1} = 1..k
    BY <1>1, <2>1, Segments
  <2> HIDE DEF t
  <2>3. f[t] = added(f[1..k], items[k + 1])
    BY <1>9, <2>2
  <2>4. f[t] \in B
    BY <1>1, <1>3, <1>12, <2>1, <2>3
  <2> QED
    BY <2>1, <2>4 DEF t
<1>13. n \in T
  <2>1. \A k \in 0..n : k \in T
    <3> HIDE DEF T
    <3> QED
      BY <1>1, <1>11, <1>12, Climb
  <2>2. n \in 0..n
    BY <1>1
  <2> HIDE DEF T
  <2> QED
    BY <2>1, <2>2
<1> QED
  BY <1>8, <1>13 DEF B

\* SelectInSeq, given the places it looks for.
First(I) == IF I # {} THEN Min(I) ELSE 0

\* The first place of a set of places is one of them.
LEMMA FirstIsLeast ==
  ASSUME NEW n \in Nat, NEW I \in SUBSET (1..n)
  PROVE  \/ First(I) > 0 /\ First(I) \in I
         \/ First(I) = 0 /\ I = {}
<1>1. CASE I = {}
  BY <1>1 DEF First
<1>2. CASE I # {}
  <2>1. I \in SUBSET Nat
    OBVIOUS
  <2>2. Min(I) \in I
    BY <1>2, <2>1, MinIsLeast
  <2>3. Min(I) > 0
    <3>1. \A k \in 1..n : k > 0
      OBVIOUS
    <3> QED
      BY <2>2, <3>1
  <2> QED
    BY <1>2, <2>2, <2>3 DEF First
<1> QED
  BY <1>1, <1>2

\* The facts about sequences that the proofs use.
LEMMA SequenceParts ==
  ASSUME NEW S, NEW s \in Seq(S)
  PROVE  Len(s) \in Nat /\ DOMAIN s = 1..Len(s) /\ \A k \in 1..Len(s) : s[k] \in S
OBVIOUS

LEMMA PlaceChanged ==
  ASSUME NEW S, NEW xs \in Seq(S), NEW i \in 1..Len(xs), NEW y \in S
  PROVE  [xs EXCEPT ![i] = y] \in Seq(S) /\ Len([xs EXCEPT ![i] = y]) = Len(xs)
OBVIOUS

\* A change of one field of the panels.
LEMMA PanelsChanged ==
  ASSUME NEW xs, NEW ks, NEW panels, panels = [answers |-> xs, keep |-> ks], NEW y
  PROVE  /\ panels.answers = xs /\ panels.keep = ks
         /\ [panels EXCEPT !.answers = y] = [answers |-> y, keep |-> ks]
         /\ [panels EXCEPT !.keep = y] = [answers |-> xs, keep |-> y]
OBVIOUS


(* A box goes to the first answer that absorbs it, or is kept. *)
LEMMA BoxCoalesced ==
  ASSUME NEW X, NEW xs \in Seq(X), NEW ks, NEW b, NEW panels,
         panels = [answers |-> xs, keep |-> ks]
  PROVE  \/ \E i \in 1..Len(xs) :
              /\ Absorbs(xs[i], b)
              /\ AbsorbOrKeep(panels, b) =
                   [answers |-> [xs EXCEPT ![i] = absorb_infobox_into_wikipedia_answer(xs[i], b)],
                    keep |-> ks]
         \/ /\ \A i \in 1..Len(xs) : ~Absorbs(xs[i], b)
            /\ AbsorbOrKeep(panels, b) = [answers |-> xs, keep |-> Append(ks, b)]
<1> DEFINE I == {k \in 1..Len(xs) : Absorbs(xs[k], b)}
           i == First(I)
           u == AbsorbOrKeep(panels, b)
<1>1. Len(xs) \in Nat
  BY SequenceParts
<1>4. (i > 0 /\ i \in I) \/ (i = 0 /\ I = {})
  <2>1. I \in SUBSET (1..Len(xs))
    OBVIOUS
  <2> HIDE DEF I
  <2> QED
    BY <1>1, <2>1, FirstIsLeast
<1>5. u = IF i > 0
          THEN [answers |-> [xs EXCEPT ![i] = absorb_infobox_into_wikipedia_answer(@, b)],
                keep |-> ks]
          ELSE [answers |-> xs, keep |-> Append(ks, b)]

  <2> DEFINE J == {k \in 1..Len(panels.answers) : Absorbs(panels.answers[k], b)}
             j == First(J)
  <2>1. SelectInSeq(panels.answers, LAMBDA a : Absorbs(a, b)) = j
    BY DEF SelectInSeq, First
  <2>2. u = IF j > 0
            THEN [panels EXCEPT !.answers[j] = absorb_infobox_into_wikipedia_answer(@, b)]
            ELSE [panels EXCEPT !.keep = Append(@, b)]
    <3> HIDE DEF j
    <3> QED
      BY <2>1 DEF AbsorbOrKeep
  <2>3. panels.answers = xs /\ panels.keep = ks
    OBVIOUS
  <2>4. j = i
    BY <2>3
  <2> HIDE DEF i, j, u
  <2> DEFINE ys == [xs EXCEPT ![i] = absorb_infobox_into_wikipedia_answer(@, b)]
             ls == Append(ks, b)
  <2>5. /\ [panels EXCEPT !.answers = [panels.answers EXCEPT
                                        ![i] = absorb_infobox_into_wikipedia_answer(@, b)]]
           = [panels EXCEPT !.answers = ys]
        /\ [panels EXCEPT !.keep = Append(@, b)] = [panels EXCEPT !.keep = ls]
    BY <2>3, Zenon
  <2>6. /\ [panels EXCEPT !.answers = ys] = [answers |-> ys, keep |-> ks]
        /\ [panels EXCEPT !.keep = ls] = [answers |-> xs, keep |-> ls]
    <3> HIDE DEF ys, ls
    <3> QED
      BY PanelsChanged
  <2>7. u = IF i > 0 THEN [panels EXCEPT !.answers = ys] ELSE [panels EXCEPT !.keep = ls]
    BY <2>2, <2>4, <2>5, Zenon
  <2> QED
    BY <2>6, <2>7, Zenon

<1>6. CASE i > 0 /\ i \in I
  <2>1. i \in 1..Len(xs) /\ Absorbs(xs[i], b)
    BY <1>6
  <2> HIDE DEF i, I, u
  <2>2. u = [answers |-> [xs EXCEPT ![i] = absorb_infobox_into_wikipedia_answer(xs[i], b)],
             keep |-> ks]
    BY <1>5, <1>6
  <2> QED
    BY <2>1, <2>2 DEF u
<1>7. CASE i = 0 /\ I = {}
  <2>1. \A k \in 1..Len(xs) : ~Absorbs(xs[k], b)
    BY <1>7
  <2> HIDE DEF i, I, u
  <2>2. u = [answers |-> xs, keep |-> Append(ks, b)]
    BY <1>5, <1>7
  <2> QED
    BY <2>1, <2>2 DEF u
<1> HIDE DEF i, I, u
<1> QED
  BY <1>4, <1>6, <1>7

Coalescing(f, base, boxes) ==
  f = [s \in SUBSET DOMAIN boxes |->
         IF s = {} THEN base ELSE AbsorbOrKeep(f[s \ {Max(s)}], boxes[Max(s)])]

(* What one box after another leaves as it is, all of them do. *)
LEMMA BoxesCoalesced ==
  ASSUME NEW B, NEW boxes \in Seq(B), NEW C, NEW base \in C,
         \A p \in C, b \in B : AbsorbOrKeep(p, b) \in C
  PROVE  FoldLeft(LAMBDA kept, box : AbsorbOrKeep(kept, box), base, boxes) \in C
<1> DEFINE n == Len(boxes)
           step == [k \in 1..n |-> [p \in C |-> AbsorbOrKeep(p, boxes[k])]]
           f == CHOOSE f : Coalescing(f, base, boxes)
<1>1. n \in Nat /\ DOMAIN boxes = 1..n /\ \A k \in 1..n : boxes[k] \in B
  BY SequenceParts
<1> HIDE DEF n
<1>5. step \in [1..n -> [C -> C]]
  BY <1>1
<1>6. PICK f0 : Folding(f0, base, step, n) /\ f0 \in [SUBSET (1..n) -> C]
  <2> HIDE DEF step
  <2> QED
    BY <1>1, <1>5, FoldExists
<1>7. Coalescing(f0, base, boxes)
  <2>1. ASSUME NEW s \in SUBSET (1..n), s # {}
        PROVE  f0[s] = AbsorbOrKeep(f0[s \ {Max(s)}], boxes[Max(s)])
    <3>1. Max(s) \in 1..n
      BY <1>1, <2>1, LastIsMember
    <3>2. f0[s] = step[Max(s)][f0[s \ {Max(s)}]]
      <4> HIDE DEF step
      <4> QED
        BY <1>6, <2>1 DEF Folding
    <3>3. f0[s \ {Max(s)}] \in C
      BY <1>6
    <3> QED
      BY <3>1, <3>2, <3>3
  <2>2. f0[{}] = base
    <3> HIDE DEF step
    <3> QED
      BY <1>6 DEF Folding
  <2>3. f0 = [s \in SUBSET (1..n) |-> f0[s]]
    BY <1>6
  <2>4. f0 = [s \in SUBSET (1..n) |->
                IF s = {} THEN base ELSE AbsorbOrKeep(f0[s \ {Max(s)}], boxes[Max(s)])]
    BY <2>1, <2>2, <2>3
  <2> QED
    BY <1>1, <2>4 DEF Coalescing
<1>8. Coalescing(f, base, boxes)
  BY <1>7
<1>9. FoldLeft(LAMBDA kept, box : AbsorbOrKeep(kept, box), base, boxes) = f[1..n]
  BY <1>1 DEF FoldLeft, MapThenFoldSet, Coalescing
<1> HIDE DEF f, step
<1> DEFINE T == {k \in 0..n : f[1..k] \in C}
<1>10. ASSUME NEW s \in SUBSET (1..n), s # {}
       PROVE  f[s] = AbsorbOrKeep(f[s \ {Max(s)}], boxes[Max(s)])
  BY <1>1, <1>8, <1>10 DEF Coalescing
<1>11. f[{}] = base
  BY <1>8 DEF Coalescing
<1>12. 0 \in T
  <2>1. f[1..0] = base /\ 0 \in 0..n
    BY <1>1, <1>11, Segments
  <2> QED
    BY <2>1
<1>13. ASSUME NEW k \in 0..(n - 1), k \in T PROVE k + 1 \in T
  <2> DEFINE t == 1..(k + 1)
  <2>1. k + 1 \in 1..n /\ k + 1 \in 0..n /\ (k + 1) - 1 = k
    BY <1>1
  <2>2. t \in SUBSET (1..n) /\ t # {} /\ Max(t) = k + 1 /\ t \ {k + 1} = 1..k
    BY <1>1, <2>1, Segments
  <2> HIDE DEF t
  <2>3. f[t] = AbsorbOrKeep(f[1..k], boxes[k + 1])
    BY <1>10, <2>2
  <2>4. f[t] \in C
    BY <1>1, <1>13, <2>1, <2>3
  <2> QED
    BY <2>1, <2>4 DEF t
<1>14. n \in T
  <2>1. \A k \in 0..n : k \in T
    <3> HIDE DEF T
    <3> QED
      BY <1>1, <1>12, <1>13, Climb
  <2>2. n \in 0..n
    BY <1>1
  <2> HIDE DEF T
  <2> QED
    BY <2>1, <2>2
<1> QED
  BY <1>9, <1>14

(* A box goes to the first that is related to it, or becomes one more. *)
LEMMA BoxMerged ==
  ASSUME NEW X, NEW ms \in Seq(X), NEW b
  PROVE  \/ \E i \in 1..Len(ms) : /\ infoboxes_related(ms[i], b)
                                  /\ MergeOrPush(ms, b) = [ms EXCEPT ![i] = merge_infobox(ms[i], b)]
         \/ /\ \A i \in 1..Len(ms) : ~infoboxes_related(ms[i], b)
            /\ MergeOrPush(ms, b) = Append(ms, b)
<1> DEFINE I == {k \in 1..Len(ms) : infoboxes_related(ms[k], b)}
           i == First(I)
           u == MergeOrPush(ms, b)
<1>1. Len(ms) \in Nat
  BY SequenceParts
<1>2. (i > 0 /\ i \in I) \/ (i = 0 /\ I = {})
  <2>1. I \in SUBSET (1..Len(ms))
    OBVIOUS
  <2> HIDE DEF I
  <2> QED
    BY <1>1, <2>1, FirstIsLeast
<1>3. u = IF i > 0 THEN [ms EXCEPT ![i] = merge_infobox(@, b)] ELSE Append(ms, b)
  <2>1. SelectInSeq(ms, LAMBDA other : infoboxes_related(other, b)) = i
    BY DEF SelectInSeq, First
  <2> HIDE DEF i
  <2> QED
    BY <2>1 DEF MergeOrPush
<1>4. CASE i > 0 /\ i \in I
  <2>1. i \in 1..Len(ms) /\ infoboxes_related(ms[i], b)
    BY <1>4
  <2> HIDE DEF i, I, u
  <2>2. u = [ms EXCEPT ![i] = merge_infobox(ms[i], b)]
    BY <1>3, <1>4
  <2> QED
    BY <2>1, <2>2 DEF u
<1>5. CASE i = 0 /\ I = {}
  <2>1. \A k \in 1..Len(ms) : ~infoboxes_related(ms[k], b)
    BY <1>5
  <2> HIDE DEF i, I, u
  <2>2. u = Append(ms, b)
    BY <1>3, <1>5
  <2> QED
    BY <2>1, <2>2 DEF u
<1> HIDE DEF i, I, u
<1> QED
  BY <1>2, <1>4, <1>5

MergingRelated(f, boxes) ==
  f = [s \in SUBSET DOMAIN boxes |->
         IF s = {} THEN <<>> ELSE MergeOrPush(f[s \ {Max(s)}], boxes[Max(s)])]

(* What merging one box after another leaves as it is, merging all does. *)
LEMMA BoxesMerged ==
  ASSUME NEW B, NEW boxes \in Seq(B), NEW C, <<>> \in C,
         \A ms \in C, b \in B : MergeOrPush(ms, b) \in C
  PROVE  merge_related_infoboxes(boxes) \in C
<1> DEFINE n == Len(boxes)
           step == [k \in 1..n |-> [ms \in C |-> MergeOrPush(ms, boxes[k])]]
           f == CHOOSE f : MergingRelated(f, boxes)
<1>1. n \in Nat /\ DOMAIN boxes = 1..n /\ \A k \in 1..n : boxes[k] \in B
  BY SequenceParts
<1> HIDE DEF n
<1>5. step \in [1..n -> [C -> C]]
  BY <1>1
<1>6. PICK f0 : Folding(f0, <<>>, step, n) /\ f0 \in [SUBSET (1..n) -> C]
  <2> HIDE DEF step
  <2> QED
    BY <1>1, <1>5, FoldExists
<1>7. MergingRelated(f0, boxes)
  <2>1. ASSUME NEW s \in SUBSET (1..n), s # {}
        PROVE  f0[s] = MergeOrPush(f0[s \ {Max(s)}], boxes[Max(s)])
    <3>1. Max(s) \in 1..n
      BY <1>1, <2>1, LastIsMember
    <3>2. f0[s] = step[Max(s)][f0[s \ {Max(s)}]]
      <4> HIDE DEF step
      <4> QED
        BY <1>6, <2>1 DEF Folding
    <3>3. f0[s \ {Max(s)}] \in C
      BY <1>6
    <3> QED
      BY <3>1, <3>2, <3>3
  <2>2. f0[{}] = <<>>
    <3> HIDE DEF step
    <3> QED
      BY <1>6 DEF Folding
  <2>3. f0 = [s \in SUBSET (1..n) |-> f0[s]]
    BY <1>6
  <2>4. f0 = [s \in SUBSET (1..n) |->
                IF s = {} THEN <<>> ELSE MergeOrPush(f0[s \ {Max(s)}], boxes[Max(s)])]
    BY <2>1, <2>2, <2>3
  <2> QED
    BY <1>1, <2>4 DEF MergingRelated
<1>8. MergingRelated(f, boxes)
  BY <1>7
<1>9. merge_related_infoboxes(boxes) = f[1..n]
  BY <1>1 DEF merge_related_infoboxes, FoldLeft, MapThenFoldSet, MergingRelated
<1> HIDE DEF f, step
<1> DEFINE T == {k \in 0..n : f[1..k] \in C}
<1>10. ASSUME NEW s \in SUBSET (1..n), s # {}
       PROVE  f[s] = MergeOrPush(f[s \ {Max(s)}], boxes[Max(s)])
  BY <1>1, <1>8, <1>10 DEF MergingRelated
<1>11. f[{}] = <<>>
  BY <1>8 DEF MergingRelated
<1>12. 0 \in T
  <2>1. f[1..0] = <<>> /\ 0 \in 0..n
    BY <1>1, <1>11, Segments
  <2> QED
    BY <2>1
<1>13. ASSUME NEW k \in 0..(n - 1), k \in T PROVE k + 1 \in T
  <2> DEFINE t == 1..(k + 1)
  <2>1. k + 1 \in 1..n /\ k + 1 \in 0..n /\ (k + 1) - 1 = k
    BY <1>1
  <2>2. t \in SUBSET (1..n) /\ t # {} /\ Max(t) = k + 1 /\ t \ {k + 1} = 1..k
    BY <1>1, <2>1, Segments
  <2> HIDE DEF t
  <2>3. f[t] = MergeOrPush(f[1..k], boxes[k + 1])
    BY <1>10, <2>2
  <2>4. f[t] \in C
    BY <1>1, <1>13, <2>1, <2>3
  <2> QED
    BY <2>1, <2>4 DEF t
<1>14. n \in T
  <2>1. \A k \in 0..n : k \in T
    <3> HIDE DEF T
    <3> QED
      BY <1>1, <1>12, <1>13, Climb
  <2>2. n \in 0..n
    BY <1>1
  <2> HIDE DEF T
  <2> QED
    BY <2>1, <2>2
<1> QED
  BY <1>9, <1>14

(* An id is that of an entity. *)
LEMMA QidTyped ==
  ASSUME NEW b \in Infobox
  PROVE  qid_of(b) \in Entities \cup {Absent}
<1>1. b.id \in ({"item", "article"} \X Entities) \cup {Absent}
  BY DEF Infobox, Addresses
<1> DEFINE x == b.id
<1>2. x = Absent \/ x[2] \in Entities
  BY <1>1
<1> HIDE DEF x
<1>3. qid_from_url(x) \in Entities \cup {Absent}
  BY <1>2 DEF qid_from_url
<1> QED
  BY <1>3 DEF qid_of, x

(* An answer that took in a box is still one. *)
LEMMA AbsorbTyped ==
  ASSUME NEW a \in Answer, NEW b \in Infobox,
         NEW y, y = absorb_infobox_into_wikipedia_answer(a, b)
  PROVE  /\ y \in Answer
         /\ y.interactive = a.interactive /\ y.url = a.url /\ y.page = a.page /\ y.title = a.title
         /\ y.wikidata_id = IF a.wikidata_id = Absent THEN qid_of(b) ELSE a.wikidata_id
         /\ y.description \in {a.description, b.content} /\ y.about = a.about \cup b.about
<1> DEFINE id == IF a.wikidata_id = Absent THEN qid_of(b) ELSE a.wikidata_id
           description == IF a.description = {} /\ b.engine = {"wikidata"} THEN b.content
                          ELSE a.description
           about == a.about \cup b.about
<1>1. y = [a EXCEPT !.wikidata_id = id, !.description = description, !.about = about]
  BY DEF absorb_infobox_into_wikipedia_answer
<1>2. id \in Entities \cup {Absent}
  BY QidTyped DEF Answer
<1>3. description \in Texts /\ description \in {a.description, b.content}
  BY DEF Answer, Infobox
<1>4. about \in SUBSET Entities
  BY DEF Answer, Infobox
<1> HIDE DEF description, about, id
<1>5. /\ y \in Answer
      /\ y.interactive = a.interactive /\ y.url = a.url /\ y.page = a.page /\ y.title = a.title
      /\ y.wikidata_id = id /\ y.description = description /\ y.about = about
  BY <1>1, <1>2, <1>3, <1>4 DEF Answer
<1> QED
  BY <1>3, <1>5 DEF id, about

(* A box that others were merged into is still one. *)
LEMMA MergeTyped ==
  ASSUME NEW m \in Infobox, NEW b \in Infobox, NEW y, y = merge_infobox(m, b)
  PROVE  /\ y \in Infobox /\ y.infobox \in {m.infobox, b.infobox}
         /\ qid_of(y) = IF qid_of(m) = Absent /\ qid_of(b) # Absent THEN qid_of(b) ELSE qid_of(m)
         /\ y.about = m.about \cup b.about
<1> DEFINE content == Longer(m.content, b.content)
           id == IF qid_from_url(m.id) = Absent /\ qid_of(b) # Absent THEN b.id ELSE m.id
           title == Longer(m.infobox, b.infobox)
           urls == m.urls \cup b.urls
           engine == m.engine \cup b.engine
           about == m.about \cup b.about
<1>1. y = [m EXCEPT !.content = content, !.id = id, !.infobox = title, !.urls = urls,
                    !.engine = engine, !.about = about]
  BY DEF merge_infobox
<1>2. title \in {m.infobox, b.infobox} /\ content \in {m.content, b.content}
  BY DEF Longer
<1>3. /\ content \in Texts /\ title \in Texts /\ id \in Addresses \cup {Absent}
      /\ urls \in SUBSET Addresses /\ engine \in SUBSET {"wikipedia", "wikidata", "other"}
      /\ about \in SUBSET Entities
  BY <1>2 DEF Infobox
<1>4. qid_from_url(id) = IF qid_of(m) = Absent /\ qid_of(b) # Absent THEN qid_of(b) ELSE qid_of(m)
  BY DEF qid_of
<1> HIDE DEF content, id, title, urls, engine, about
<1>5. y \in Infobox /\ y.infobox = title /\ y.id = id /\ y.about = about
  BY <1>1, <1>3 DEF Infobox
<1>6. qid_of(y) = qid_from_url(id)
  BY <1>5 DEF qid_of
<1> QED
  BY <1>2, <1>4, <1>5, <1>6 DEF about

(* The answers, and the boxes that none of them takes. *)
Folded(told, boxes) ==
  FoldLeft(LAMBDA kept, box : AbsorbOrKeep(kept, box), [answers |-> told, keep |-> <<>>], boxes)

\* coalesce_knowledge_panels has two steps.
LEMMA PanelsOfFolds ==
  ASSUME NEW told, NEW boxes, NEW xs, NEW ks, Folded(told, boxes) = [answers |-> xs, keep |-> ks]
  PROVE  /\ coalesce_knowledge_panels(told, boxes).answers = xs
         /\ coalesce_knowledge_panels(told, boxes).infoboxes = merge_related_infoboxes(ks)
<1>1. coalesce_knowledge_panels(told, boxes) =
        [answers |-> Folded(told, boxes).answers,
         infoboxes |-> merge_related_infoboxes(Folded(told, boxes).keep)]
  BY DEF coalesce_knowledge_panels, Folded
<1>2. Folded(told, boxes).answers = xs /\ Folded(told, boxes).keep = ks
  OBVIOUS
<1> QED
  BY <1>1, <1>2

-----------------------------------------------------------------------------
(* Parts with ids.                                                           *)

WithId == {a \in Answer : a.interactive = "wikipedia" => a.wikidata_id # Absent}
BoxWithId == {b \in Infobox : qid_of(b) # Absent}

(* An answer and a box are of different ids. *)
IdsApart(a, b) == a.interactive = "wikipedia" => a.wikidata_id # qid_of(b)

(* The answers keep their ids, and no box with one of these is left. *)
KeptApart(xs, ks) ==
  /\ xs \in Seq(WithId) /\ ks \in Seq(BoxWithId)
  /\ \A i \in 1..Len(xs), j \in 1..Len(ks) : IdsApart(xs[i], ks[j])

LEMMA KeepsApart ==
  ASSUME NEW xs, NEW ks, KeptApart(xs, ks), NEW b \in BoxWithId,
         NEW panels, panels = [answers |-> xs, keep |-> ks]
  PROVE  \E ys, ls : AbsorbOrKeep(panels, b) = [answers |-> ys, keep |-> ls] /\ KeptApart(ys, ls)
<1> DEFINE u == AbsorbOrKeep(panels, b)
<1>1. /\ xs \in Seq(WithId) /\ ks \in Seq(BoxWithId) /\ Len(xs) \in Nat /\ Len(ks) \in Nat
      /\ \A i \in 1..Len(xs) : xs[i] \in WithId
      /\ \A i \in 1..Len(xs), j \in 1..Len(ks) : IdsApart(xs[i], ks[j])
  BY SequenceParts DEF KeptApart
<1>2. \/ \E i \in 1..Len(xs) :
           /\ Absorbs(xs[i], b)
           /\ u = [answers |-> [xs EXCEPT ![i] = absorb_infobox_into_wikipedia_answer(xs[i], b)],
                   keep |-> ks]
      \/ /\ \A i \in 1..Len(xs) : ~Absorbs(xs[i], b)
         /\ u = [answers |-> xs, keep |-> Append(ks, b)]
  BY <1>1, BoxCoalesced
<1> HIDE DEF u
<1>3. CASE \E i \in 1..Len(xs) :
             /\ Absorbs(xs[i], b)
             /\ u = [answers |-> [xs EXCEPT ![i] = absorb_infobox_into_wikipedia_answer(xs[i], b)],
                     keep |-> ks]
  <2>1. PICK i \in 1..Len(xs) :
          /\ Absorbs(xs[i], b)
          /\ u = [answers |-> [xs EXCEPT ![i] = absorb_infobox_into_wikipedia_answer(xs[i], b)],
                  keep |-> ks]
    BY <1>3
  <2> DEFINE a == xs[i]
             y == absorb_infobox_into_wikipedia_answer(a, b)
             ys == [xs EXCEPT ![i] = y]
  <2>2. a \in WithId /\ a.interactive = "wikipedia" /\ a.wikidata_id # Absent
    BY <1>1, <2>1 DEF Absorbs, WithId
  <2>3. a \in Answer /\ b \in Infobox
    BY <2>2 DEF WithId, BoxWithId
  <2> HIDE DEF a
  <2>4. y \in Answer /\ y.interactive = a.interactive /\ y.wikidata_id = a.wikidata_id
    BY <2>2, <2>3, AbsorbTyped
  <2> HIDE DEF y
  <2>5. y \in WithId
    BY <2>2, <2>4 DEF WithId
  <2>6. ys \in Seq(WithId) /\ Len(ys) = Len(xs)
    BY <1>1, <2>5, PlaceChanged
  <2>7. \A k \in 1..Len(xs) : ys[k] = IF k = i THEN y ELSE xs[k]
    BY <1>1
  <2>8. \A j \in 1..Len(ks) : IdsApart(y, ks[j])
    BY <1>1, <2>1, <2>4 DEF IdsApart, a
  <2>9. u = [answers |-> ys, keep |-> ks]
    BY <2>1 DEF y, a
  <2> HIDE DEF ys
  <2>10. KeptApart(ys, ks)
    BY <1>1, <2>6, <2>7, <2>8 DEF KeptApart
  <2> QED
    BY <2>9, <2>10 DEF u
<1>4. CASE /\ \A i \in 1..Len(xs) : ~Absorbs(xs[i], b)
           /\ u = [answers |-> xs, keep |-> Append(ks, b)]
  <2> DEFINE ls == Append(ks, b)
             top == Len(ks) + 1
  <2>1. /\ ls \in Seq(BoxWithId) /\ Len(ls) = top /\ ls[top] = b
        /\ \A j \in 1..top : j # top => j \in 1..Len(ks) /\ ls[j] = ks[j]
    BY <1>1
  <2>2. \A i \in 1..Len(xs) : IdsApart(xs[i], b)
    BY <1>4 DEF Absorbs, same_entity, IdsApart, BoxWithId
  <2>3. u = [answers |-> xs, keep |-> ls]
    BY <1>4
  <2> HIDE DEF ls, top
  <2>4. KeptApart(xs, ls)
    BY <1>1, <2>1, <2>2 DEF KeptApart
  <2> QED
    BY <2>3, <2>4 DEF u
<1> QED
  BY <1>2, <1>3, <1>4

(* The boxes of some ids, no two of them of the same. *)
OnePerId(ids, ms) ==
  /\ ms \in Seq({b \in BoxWithId : qid_of(b) \in ids})
  /\ \A i, j \in 1..Len(ms) : qid_of(ms[i]) = qid_of(ms[j]) => i = j

LEMMA MergesById ==
  ASSUME NEW ids, NEW ms, OnePerId(ids, ms), NEW b \in BoxWithId, qid_of(b) \in ids
  PROVE  OnePerId(ids, MergeOrPush(ms, b))
<1> DEFINE S == {c \in BoxWithId : qid_of(c) \in ids}
           n == Len(ms)
           u == MergeOrPush(ms, b)
<1>1. /\ ms \in Seq(S) /\ n \in Nat /\ \A k \in 1..n : ms[k] \in S
      /\ \A k, l \in 1..n : qid_of(ms[k]) = qid_of(ms[l]) => k = l
  BY SequenceParts DEF OnePerId
<1>2. \A k \in 1..n : infoboxes_related(ms[k], b) <=> qid_of(ms[k]) = qid_of(b)
  BY <1>1 DEF infoboxes_related, BoxWithId
<1>3. \/ \E i \in 1..n : infoboxes_related(ms[i], b) /\ u = [ms EXCEPT ![i] = merge_infobox(ms[i], b)]
      \/ (\A i \in 1..n : ~infoboxes_related(ms[i], b)) /\ u = Append(ms, b)
  <2> HIDE DEF S
  <2> QED
    BY <1>1, BoxMerged
<1>4. b \in S
  OBVIOUS
<1> HIDE DEF u, n, S
<1>5. CASE \E i \in 1..n : infoboxes_related(ms[i], b) /\ u = [ms EXCEPT ![i] = merge_infobox(ms[i], b)]
  <2>1. PICK i \in 1..n : infoboxes_related(ms[i], b) /\ u = [ms EXCEPT ![i] = merge_infobox(ms[i], b)]
    BY <1>5
  <2> DEFINE m == ms[i]
             y == merge_infobox(m, b)
             ys == [ms EXCEPT ![i] = y]
  <2>2. m \in S /\ m \in Infobox /\ b \in Infobox /\ qid_of(m) # Absent
    BY <1>1, <2>1 DEF BoxWithId, S
  <2> HIDE DEF m
  <2>3. y \in Infobox /\ qid_of(y) = qid_of(m)
    BY <2>2, MergeTyped
  <2> HIDE DEF y
  <2>4. y \in S
    BY <2>2, <2>3 DEF S, BoxWithId
  <2>5. ys \in Seq(S) /\ Len(ys) = n
    BY <1>1, <2>1, <2>4, PlaceChanged DEF n
  <2>6. \A k \in 1..n : qid_of(ys[k]) = qid_of(ms[k])
    <3>1. \A k \in 1..n : ys[k] = IF k = i THEN y ELSE ms[k]
      BY <1>1 DEF n
    <3> HIDE DEF ys
    <3> QED
      BY <2>1, <2>3, <3>1 DEF m
  <2>7. u = ys
    BY <2>1 DEF y, m
  <2> HIDE DEF ys
  <2>8. OnePerId(ids, ys)
    BY <1>1, <2>5, <2>6 DEF OnePerId, S
  <2> QED
    BY <2>7, <2>8 DEF u
<1>6. CASE (\A i \in 1..n : ~infoboxes_related(ms[i], b)) /\ u = Append(ms, b)
  <2> DEFINE ls == Append(ms, b)
             top == n + 1
  <2>1. \A k \in 1..n : qid_of(ms[k]) # qid_of(b)
    BY <1>2, <1>6
  <2>2. /\ ls \in Seq(S) /\ Len(ls) = top /\ ls[top] = b
        /\ \A k \in 1..top : k # top => k \in 1..n /\ ls[k] = ms[k]
    BY <1>1, <1>4 DEF n
  <2>3. u = ls
    BY <1>6
  <2> HIDE DEF ls, top
  <2>4. \A k, l \in 1..top : qid_of(ls[k]) = qid_of(ls[l]) => k = l
    BY <1>1, <2>1, <2>2
  <2>5. OnePerId(ids, ls)
    BY <2>2, <2>4 DEF OnePerId, S
  <2> QED
    BY <2>3, <2>5 DEF u
<1> QED
  BY <1>3, <1>5, <1>6

(* What coalesce_knowledge_panels makes of parts with ids. *)
LEMMA PanelsById ==
  ASSUME NEW told \in Seq(WithId), NEW boxes \in Seq(BoxWithId)
  PROVE  \E xs, ms : /\ coalesce_knowledge_panels(told, boxes).answers = xs
                     /\ coalesce_knowledge_panels(told, boxes).infoboxes = ms
                     /\ \A i, j \in DOMAIN ms : qid_of(ms[i]) = qid_of(ms[j]) => i = j
                     /\ \A a \in ToSet(xs), b \in ToSet(ms) : IdsApart(a, b)
<1> DEFINE base == [answers |-> told, keep |-> <<>>]
           panels == Folded(told, boxes)
           C == {p \in [answers: Seq(WithId), keep: Seq(BoxWithId)] : KeptApart(p.answers, p.keep)}
<1>1. panels \in C
  <2>1. \A xs, ks : KeptApart(xs, ks) => [answers |-> xs, keep |-> ks] \in C
    BY DEF KeptApart
  <2>2. KeptApart(told, <<>>)
    BY DEF KeptApart
  <2>3. ASSUME NEW p \in C, NEW b \in BoxWithId PROVE AbsorbOrKeep(p, b) \in C
    <3>1. PICK xs, ks : p = [answers |-> xs, keep |-> ks] /\ KeptApart(xs, ks)
      <4>1. p = [answers |-> p.answers, keep |-> p.keep] /\ KeptApart(p.answers, p.keep)
        OBVIOUS
      <4> HIDE DEF C
      <4> QED
        BY <4>1
    <3>2. PICK ys, ls : AbsorbOrKeep(p, b) = [answers |-> ys, keep |-> ls] /\ KeptApart(ys, ls)
      <4> HIDE DEF C
      <4> QED
        BY <3>1, KeepsApart
    <3> HIDE DEF C
    <3> QED
      BY <2>1, <3>2
  <2>4. base \in C
    <3> HIDE DEF C
    <3> QED
      BY <2>1, <2>2
  <2> HIDE DEF C, base
  <2>5. FoldLeft(LAMBDA kept, box : AbsorbOrKeep(kept, box), base, boxes) \in C
    BY <2>3, <2>4, BoxesCoalesced
  <2> QED
    BY <2>5 DEF Folded, base
<1>2. PICK xs, ks : panels = [answers |-> xs, keep |-> ks] /\ KeptApart(xs, ks)
  <2> HIDE DEF panels
  <2>1. panels = [answers |-> panels.answers, keep |-> panels.keep]
        /\ KeptApart(panels.answers, panels.keep)
    BY <1>1
  <2> QED
    BY <2>1
<1> DEFINE ms == merge_related_infoboxes(ks)
           ids == {qid_of(ks[k]) : k \in 1..Len(ks)}
<1>3. /\ coalesce_knowledge_panels(told, boxes).answers = xs
      /\ coalesce_knowledge_panels(told, boxes).infoboxes = ms
  <2> HIDE DEF panels, ms
  <2>1. Folded(told, boxes) = [answers |-> xs, keep |-> ks]
    BY <1>2 DEF panels
  <2> QED
    BY <2>1, PanelsOfFolds DEF ms
<1>4. /\ xs \in Seq(WithId) /\ ks \in Seq(BoxWithId) /\ DOMAIN ks = 1..Len(ks)
      /\ \A i \in 1..Len(ks) : ks[i] \in BoxWithId
      /\ \A i \in 1..Len(xs), j \in 1..Len(ks) : IdsApart(xs[i], ks[j])
  BY <1>2, SequenceParts DEF KeptApart
<1>5. OnePerId(ids, ms)
  <2> DEFINE K == {b \in BoxWithId : qid_of(b) \in ids}
             D == {l \in Seq(K) : OnePerId(ids, l)}
  <2>1. ks \in Seq(K)
    BY <1>4
  <2>2. \A l : OnePerId(ids, l) => l \in D
    BY DEF OnePerId
  <2>3. OnePerId(ids, <<>>)
    BY DEF OnePerId
  <2>4. ASSUME NEW l \in D, NEW b \in K PROVE MergeOrPush(l, b) \in D
    <3>1. OnePerId(ids, l) /\ b \in BoxWithId /\ qid_of(b) \in ids
      OBVIOUS
    <3> HIDE DEF D, K, ids
    <3> QED
      BY <2>2, <3>1, MergesById
  <2>5. \A l \in D : OnePerId(ids, l)
    OBVIOUS
  <2> HIDE DEF D, K, ids
  <2>6. <<>> \in D
    BY <2>2, <2>3
  <2>7. merge_related_infoboxes(ks) \in D
    BY <2>1, <2>4, <2>6, BoxesMerged
  <2> QED
    BY <2>5, <2>7
<1> HIDE DEF ms
<1>6. /\ DOMAIN ms = 1..Len(ms)
      /\ \A k \in 1..Len(ms) : qid_of(ms[k]) \in ids
      /\ \A i, j \in 1..Len(ms) : qid_of(ms[i]) = qid_of(ms[j]) => i = j
  <2>1. /\ ms \in Seq({b \in BoxWithId : qid_of(b) \in ids})
        /\ \A i, j \in 1..Len(ms) : qid_of(ms[i]) = qid_of(ms[j]) => i = j
    BY <1>5 DEF OnePerId
  <2> HIDE DEF ids
  <2> QED
    BY <2>1
<1>7. ASSUME NEW a \in ToSet(xs), NEW b \in ToSet(ms) PROVE IdsApart(a, b)
  <2>1. PICK i \in 1..Len(xs) : a = xs[i]
    BY <1>4 DEF ToSet
  <2>2. PICK j \in 1..Len(ms) : b = ms[j]
    BY <1>6 DEF ToSet
  <2>3. PICK k \in 1..Len(ks) : qid_of(ms[j]) = qid_of(ks[k])
    BY <1>6, <2>2
  <2> QED
    BY <1>4, <2>1, <2>2, <2>3 DEF IdsApart
<1> QED
  BY <1>3, <1>6, <1>7

-----------------------------------------------------------------------------
(* Parts that nothing ties together.                                         *)

(* Two parts tell of the same side of S. *)
SameSide(p, q, S) == Within(p, S) <=> Within(q, S)

(* An answer as it stands while boxes are folded into it: what it is found by *)
(* comes from an answer or from boxes of its side.                            *)
StandsOn(A, B, S, x) ==
  /\ x \in Answer /\ Sided(x, S)
  /\ \E a \in A : /\ x.interactive = a.interactive /\ x.url = a.url /\ x.page = a.page
                  /\ x.title = a.title /\ SameSide(x, a, S)
                  /\ \/ x.wikidata_id = a.wikidata_id
                     \/ \E b \in B : x.wikidata_id = qid_of(b) /\ SameSide(x, b, S)
                  /\ \/ x.description = a.description
                     \/ \E b \in B : x.description = b.content /\ SameSide(x, b, S)

(* A box as it stands while others are merged into it. *)
MergesOn(B, S, m) ==
  /\ m \in Infobox /\ Sided(m, S)
  /\ \E b \in B : m.infobox = b.infobox /\ (qid_of(m) = Absent => qid_of(b) = Absent)
                  /\ SameSide(m, b, S)
  /\ \E b \in B : qid_of(m) = qid_of(b) /\ SameSide(m, b, S)

(* What is told of one side, together with more of that side, is of that side. *)
LEMMA SidesJoin ==
  ASSUME NEW S, NEW p, NEW q, NEW y, y.about = p.about \cup q.about,
         Sided(p, S), Sided(q, S), SameSide(p, q, S)
  PROVE  Sided(y, S) /\ SameSide(y, p, S) /\ SameSide(y, q, S)
BY DEF Sided, SameSide, Within

LEMMA AbsorbsOnSide ==
  ASSUME NEW A, NEW B, NEW S, Separate(S, A, B), NEW x, StandsOn(A, B, S, x), NEW b \in B,
         Absorbs(x, b)
  PROVE  SameSide(x, b, S)
<1>1. PICK a \in A : /\ x.interactive = a.interactive /\ x.url = a.url /\ x.page = a.page
                     /\ x.title = a.title /\ SameSide(x, a, S)
                     /\ \/ x.wikidata_id = a.wikidata_id
                        \/ \E c \in B : x.wikidata_id = qid_of(c) /\ SameSide(x, c, S)
                     /\ \/ x.description = a.description
                        \/ \E c \in B : x.description = c.content /\ SameSide(x, c, S)
  BY DEF StandsOn
<1>2. AnswerTied(a, b) => SameSide(a, b, S)
  BY DEF Separate, SameSide
<1>3. \A c \in B : BoxesTied(c, b) => SameSide(c, b, S)
  BY DEF Separate, SameSide
<1>4. a.interactive = "wikipedia"
  BY <1>1 DEF Absorbs
<1>5. CASE same_entity(x, b)
  <2>1. CASE x.wikidata_id = a.wikidata_id
    <3>1. AnswerTied(a, b)
      BY <1>4, <1>5, <2>1 DEF same_entity, AnswerTied
    <3> QED
      BY <1>1, <1>2, <3>1 DEF SameSide
  <2>2. CASE \E c \in B : x.wikidata_id = qid_of(c) /\ SameSide(x, c, S)
    <3>1. PICK c \in B : x.wikidata_id = qid_of(c) /\ SameSide(x, c, S)
      BY <2>2
    <3>2. BoxesTied(c, b)
      BY <1>5, <3>1 DEF same_entity, BoxesTied
    <3> QED
      BY <1>3, <3>1, <3>2 DEF SameSide
  <2> QED
    BY <1>1, <2>1, <2>2
<1>6. CASE same_url(x, b)
  <2>1. AnswerTied(a, b)
    BY <1>1, <1>4, <1>6 DEF same_url, AnswerTied
  <2> QED
    BY <1>1, <1>2, <2>1 DEF SameSide
<1>7. CASE topics_match(x.title, b.infobox)
  <2>1. AnswerTied(a, b)
    BY <1>1, <1>4, <1>7 DEF same_topic, AnswerTied
  <2> QED
    BY <1>1, <1>2, <2>1 DEF SameSide
<1>8. CASE x.description # {} /\ topics_match(x.description, b.content)
  <2>1. CASE x.description = a.description
    <3>1. AnswerTied(a, b)
      BY <1>4, <1>8, <2>1 DEF same_topic, AnswerTied
    <3> QED
      BY <1>1, <1>2, <3>1 DEF SameSide
  <2>2. CASE \E c \in B : x.description = c.content /\ SameSide(x, c, S)
    <3>1. PICK c \in B : x.description = c.content /\ SameSide(x, c, S)
      BY <2>2
    <3>2. BoxesTied(c, b)
      BY <1>8, <3>1 DEF BoxesTied
    <3> QED
      BY <1>3, <3>1, <3>2 DEF SameSide
  <2> QED
    BY <1>1, <2>1, <2>2
<1> QED
  BY <1>5, <1>6, <1>7, <1>8 DEF Absorbs, same_topic

(* So an answer stays on its side. *)
LEMMA AbsorbStands ==
  ASSUME NEW A \in SUBSET Answer, NEW B \in SUBSET Infobox, NEW S, Separate(S, A, B),
         NEW x, StandsOn(A, B, S, x), NEW b \in B, Absorbs(x, b),
         NEW y, y = absorb_infobox_into_wikipedia_answer(x, b)
  PROVE  StandsOn(A, B, S, y)
<1>1. x \in Answer /\ b \in Infobox /\ Sided(x, S) /\ Sided(b, S) /\ SameSide(x, b, S)
  BY AbsorbsOnSide DEF StandsOn, Separate
<1>2. /\ y \in Answer
      /\ y.interactive = x.interactive /\ y.url = x.url /\ y.page = x.page /\ y.title = x.title
      /\ y.wikidata_id \in {x.wikidata_id, qid_of(b)}
      /\ y.description \in {x.description, b.content} /\ y.about = x.about \cup b.about
  BY <1>1, AbsorbTyped
<1>3. Sided(y, S) /\ SameSide(y, x, S) /\ SameSide(y, b, S)
  BY <1>1, <1>2, SidesJoin
<1>4. \A q : SameSide(x, q, S) => SameSide(y, q, S)
  BY <1>3 DEF SameSide
<1>5. PICK a \in A : /\ x.interactive = a.interactive /\ x.url = a.url /\ x.page = a.page
                     /\ x.title = a.title /\ SameSide(x, a, S)
                     /\ \/ x.wikidata_id = a.wikidata_id
                        \/ \E c \in B : x.wikidata_id = qid_of(c) /\ SameSide(x, c, S)
                     /\ \/ x.description = a.description
                        \/ \E c \in B : x.description = c.content /\ SameSide(x, c, S)
  BY DEF StandsOn
<1>6. \/ y.wikidata_id = a.wikidata_id
      \/ \E c \in B : y.wikidata_id = qid_of(c) /\ SameSide(y, c, S)
  BY <1>2, <1>3, <1>4, <1>5
<1>7. \/ y.description = a.description
      \/ \E c \in B : y.description = c.content /\ SameSide(y, c, S)
  BY <1>2, <1>3, <1>4, <1>5
<1> QED
  BY <1>2, <1>3, <1>4, <1>5, <1>6, <1>7 DEF StandsOn

LEMMA RelatedOnSide ==
  ASSUME NEW A, NEW B, NEW S, Separate(S, A, B), NEW m, MergesOn(B, S, m), NEW b \in B,
         infoboxes_related(m, b)
  PROVE  SameSide(m, b, S)
<1>1. \A c \in B : BoxesTied(c, b) => SameSide(c, b, S)
  BY DEF Separate, SameSide
<1>2. CASE qid_of(m) # Absent /\ qid_of(b) # Absent
  <2>1. PICK c \in B : qid_of(m) = qid_of(c) /\ SameSide(m, c, S)
    BY DEF MergesOn
  <2>2. BoxesTied(c, b)
    BY <1>2, <2>1 DEF infoboxes_related, BoxesTied
  <2> QED
    BY <1>1, <2>1, <2>2 DEF SameSide
<1>3. CASE qid_of(m) = Absent \/ qid_of(b) = Absent
  <2>1. PICK c \in B : m.infobox = c.infobox /\ (qid_of(m) = Absent => qid_of(c) = Absent)
                       /\ SameSide(m, c, S)
    BY DEF MergesOn
  <2>2. BoxesTied(c, b)
    BY <1>3, <2>1 DEF infoboxes_related, BoxesTied
  <2> QED
    BY <1>1, <2>1, <2>2 DEF SameSide
<1> QED
  BY <1>2, <1>3

(* So does a box. *)
LEMMA MergeStands ==
  ASSUME NEW A, NEW B \in SUBSET Infobox, NEW S, Separate(S, A, B),
         NEW m, MergesOn(B, S, m), NEW b \in B, infoboxes_related(m, b),
         NEW y, y = merge_infobox(m, b)
  PROVE  MergesOn(B, S, y)
<1>1. m \in Infobox /\ b \in Infobox /\ Sided(m, S) /\ Sided(b, S) /\ SameSide(m, b, S)
  BY RelatedOnSide DEF MergesOn, Separate
<1>2. /\ y \in Infobox /\ y.infobox \in {m.infobox, b.infobox}
      /\ qid_of(y) = IF qid_of(m) = Absent /\ qid_of(b) # Absent THEN qid_of(b) ELSE qid_of(m)
      /\ y.about = m.about \cup b.about
  BY <1>1, MergeTyped
<1>3. Sided(y, S) /\ SameSide(y, m, S) /\ SameSide(y, b, S)
  BY <1>1, <1>2, SidesJoin
<1>4. \A q : SameSide(m, q, S) => SameSide(y, q, S)
  BY <1>3 DEF SameSide
<1>5. \E c \in B : y.infobox = c.infobox /\ (qid_of(y) = Absent => qid_of(c) = Absent)
                   /\ SameSide(y, c, S)
  <2>1. PICK c \in B : m.infobox = c.infobox /\ (qid_of(m) = Absent => qid_of(c) = Absent)
                       /\ SameSide(m, c, S)
    BY DEF MergesOn
  <2>2. qid_of(y) = Absent => qid_of(m) = Absent /\ qid_of(b) = Absent
    BY <1>2
  <2>3. CASE y.infobox = m.infobox
    BY <1>4, <2>1, <2>2, <2>3
  <2>4. CASE y.infobox = b.infobox
    BY <1>3, <2>2, <2>4
  <2> QED
    BY <1>2, <2>3, <2>4
<1>6. \E c \in B : qid_of(y) = qid_of(c) /\ SameSide(y, c, S)
  <2>1. PICK c \in B : qid_of(m) = qid_of(c) /\ SameSide(m, c, S)
    BY DEF MergesOn
  <2>2. CASE qid_of(y) = qid_of(m)
    BY <1>4, <2>1, <2>2
  <2>3. CASE qid_of(y) = qid_of(b)
    BY <1>3, <2>3
  <2> QED
    BY <1>2, <2>2, <2>3
<1> QED
  BY <1>2, <1>3, <1>5, <1>6 DEF MergesOn

(* What coalesce_knowledge_panels makes of parts that nothing ties together. *)
LEMMA PanelsOnSides ==
  ASSUME NEW A \in SUBSET Answer, NEW B \in SUBSET Infobox, NEW S, Separate(S, A, B),
         NEW told \in Seq(A), NEW boxes \in Seq(B)
  PROVE  \E xs, ms : /\ coalesce_knowledge_panels(told, boxes).answers = xs
                     /\ coalesce_knowledge_panels(told, boxes).infoboxes = ms
                     /\ \A p \in ToSet(xs) \cup ToSet(ms) : Sided(p, S)
<1> DEFINE X == {x \in Answer : StandsOn(A, B, S, x)}
           M == {m \in Infobox : MergesOn(B, S, m)}
           C == [answers: Seq(X), keep: Seq(B)]
           base == [answers |-> told, keep |-> <<>>]
           panels == Folded(told, boxes)
<1>1. \A a \in A : a \in X
  BY DEF StandsOn, SameSide, Separate
<1>2. \A b \in B : b \in M
  BY DEF MergesOn, SameSide, Separate
<1>3. \A x \in X : StandsOn(A, B, S, x) /\ Sided(x, S)
  BY DEF StandsOn
<1>4. \A m \in M : MergesOn(B, S, m) /\ Sided(m, S)
  BY DEF MergesOn
<1>5. \A x : StandsOn(A, B, S, x) => x \in X
  BY DEF StandsOn
<1>6. \A m : MergesOn(B, S, m) => m \in M
  BY DEF MergesOn
<1> HIDE DEF X, M
<1>7. panels \in C
  <2>1. base \in C
    <3>1. told \in Seq(X)
      BY <1>1
    <3> QED
      BY <3>1
  <2>2. ASSUME NEW p \in C, NEW b \in B PROVE AbsorbOrKeep(p, b) \in C
    <3> DEFINE xs == p.answers
               ks == p.keep
               u == AbsorbOrKeep(p, b)
    <3>1. p = [answers |-> xs, keep |-> ks] /\ xs \in Seq(X) /\ ks \in Seq(B)
      OBVIOUS
    <3> HIDE DEF C, xs, ks
    <3>2. Len(xs) \in Nat /\ \A i \in 1..Len(xs) : xs[i] \in X
      BY <3>1, SequenceParts
    <3>3. \/ \E i \in 1..Len(xs) :
               /\ Absorbs(xs[i], b)
               /\ u = [answers |-> [xs EXCEPT ![i] = absorb_infobox_into_wikipedia_answer(xs[i], b)],
                       keep |-> ks]
          \/ /\ \A i \in 1..Len(xs) : ~Absorbs(xs[i], b)
             /\ u = [answers |-> xs, keep |-> Append(ks, b)]
      BY <3>1, BoxCoalesced
    <3> HIDE DEF u
    <3>4. CASE \E i \in 1..Len(xs) :
                 /\ Absorbs(xs[i], b)
                 /\ u = [answers |-> [xs EXCEPT ![i] = absorb_infobox_into_wikipedia_answer(xs[i], b)],
                         keep |-> ks]
      <4>1. PICK i \in 1..Len(xs) :
              /\ Absorbs(xs[i], b)
              /\ u = [answers |-> [xs EXCEPT ![i] = absorb_infobox_into_wikipedia_answer(xs[i], b)],
                      keep |-> ks]
        BY <3>4
      <4> DEFINE x == xs[i]
                 y == absorb_infobox_into_wikipedia_answer(x, b)
                 ys == [xs EXCEPT ![i] = y]
      <4>2. StandsOn(A, B, S, x) /\ Absorbs(x, b)
        BY <1>3, <3>2, <4>1
      <4>3. u = [answers |-> ys, keep |-> ks]
        BY <4>1
      <4> HIDE DEF x
      <4>4. StandsOn(A, B, S, y)
        BY <4>2, AbsorbStands
      <4> HIDE DEF y
      <4>5. ys \in Seq(X)
        BY <1>5, <3>1, <4>4, PlaceChanged
      <4> HIDE DEF ys
      <4> QED
        BY <3>1, <4>3, <4>5 DEF C, u
    <3>5. CASE u = [answers |-> xs, keep |-> Append(ks, b)]
      <4> DEFINE ls == Append(ks, b)
      <4>1. ls \in Seq(B) /\ u = [answers |-> xs, keep |-> ls]
        BY <3>1, <3>5
      <4> HIDE DEF ls
      <4>2. u \in [answers: Seq(X), keep: Seq(B)]
        BY <3>1, <4>1
      <4> QED
        BY <4>2 DEF C, u
    <3> QED
      BY <3>3, <3>4, <3>5
  <2> HIDE DEF C, base
  <2>3. FoldLeft(LAMBDA kept, box : AbsorbOrKeep(kept, box), base, boxes) \in C
    BY <2>1, <2>2, BoxesCoalesced
  <2> QED
    BY <2>3 DEF Folded, base
<1>8. PICK xs, ks : panels = [answers |-> xs, keep |-> ks] /\ xs \in Seq(X) /\ ks \in Seq(B)
  <2> HIDE DEF panels
  <2>1. panels = [answers |-> panels.answers, keep |-> panels.keep]
        /\ panels.answers \in Seq(X) /\ panels.keep \in Seq(B)
    BY <1>7
  <2> QED
    BY <2>1
<1> DEFINE ms == merge_related_infoboxes(ks)
<1>9. /\ coalesce_knowledge_panels(told, boxes).answers = xs
      /\ coalesce_knowledge_panels(told, boxes).infoboxes = ms
  <2> HIDE DEF panels, ms
  <2>1. Folded(told, boxes) = [answers |-> xs, keep |-> ks]
    BY <1>8 DEF panels
  <2> QED
    BY <2>1, PanelsOfFolds DEF ms
<1>10. ms \in Seq(M)
  <2>1. <<>> \in Seq(M)
    OBVIOUS
  <2>2. ASSUME NEW l \in Seq(M), NEW b \in B PROVE MergeOrPush(l, b) \in Seq(M)
    <3> DEFINE u == MergeOrPush(l, b)
    <3>1. Len(l) \in Nat /\ \A i \in 1..Len(l) : l[i] \in M
      BY SequenceParts
    <3>2. \/ \E i \in 1..Len(l) : infoboxes_related(l[i], b) /\ u = [l EXCEPT ![i] = merge_infobox(l[i], b)]
          \/ (\A i \in 1..Len(l) : ~infoboxes_related(l[i], b)) /\ u = Append(l, b)
      BY BoxMerged
    <3> HIDE DEF u
    <3>3. CASE \E i \in 1..Len(l) : infoboxes_related(l[i], b) /\ u = [l EXCEPT ![i] = merge_infobox(l[i], b)]
      <4>1. PICK i \in 1..Len(l) : infoboxes_related(l[i], b) /\ u = [l EXCEPT ![i] = merge_infobox(l[i], b)]
        BY <3>3
      <4> DEFINE m == l[i]
                 y == merge_infobox(m, b)
      <4>2. MergesOn(B, S, m) /\ infoboxes_related(m, b)
        BY <1>4, <3>1, <4>1
      <4>3. u = [l EXCEPT ![i] = y]
        BY <4>1
      <4> HIDE DEF m
      <4>4. MergesOn(B, S, y)
        BY <4>2, MergeStands
      <4> HIDE DEF y
      <4>5. u \in Seq(M)
        BY <1>6, <4>3, <4>4, PlaceChanged
      <4> QED
        BY <4>5 DEF u
    <3>4. CASE u = Append(l, b)
      <4>1. Append(l, b) \in Seq(M)
        BY <1>2
      <4> QED
        BY <3>4, <4>1 DEF u
    <3> QED
      BY <3>2, <3>3, <3>4
  <2> DEFINE D == Seq(M)
  <2>3. <<>> \in D /\ \A l \in D, b \in B : MergeOrPush(l, b) \in D
    BY <2>1, <2>2
  <2> HIDE DEF D
  <2>4. merge_related_infoboxes(ks) \in D
    BY <1>8, <2>3, BoxesMerged
  <2> QED
    BY <2>4 DEF D
<1> HIDE DEF ms, panels
<1>11. (\A x \in ToSet(xs) : x \in X) /\ (\A m \in ToSet(ms) : m \in M)
  BY <1>8, <1>10 DEF ToSet
<1>12. \A p \in ToSet(xs) \cup ToSet(ms) : Sided(p, S)
  BY <1>3, <1>4, <1>11
<1> QED
  BY <1>9, <1>12

-----------------------------------------------------------------------------

(* What is told in a report is made of answers and infoboxes. *)
LEMMA PanelsTyped ==
  ASSUME NEW r \in Reports
  PROVE  /\ ToldAnswers(r) \in SUBSET Answer /\ ToldBoxes(r) \in SUBSET Infobox
         /\ \A j \in DOMAIN r : r[j].status = "Completed" =>
              r[j].answers \in Seq(ToldAnswers(r)) /\ r[j].infoboxes \in Seq(ToldBoxes(r))
<1>1. \A j \in DOMAIN r : r[j].answers \in Seq(Answer) /\ r[j].infoboxes \in Seq(Infobox)
  BY ReportTyped DEF EngineRunOutcome
<1>2. \A o \in CompletedIn(r) : \E j \in DOMAIN r : o = r[j]
  BY DEF CompletedIn, ToSet
<1>3. ASSUME NEW o \in CompletedIn(r)
      PROVE  ToSet(o.answers) \in SUBSET Answer /\ ToSet(o.infoboxes) \in SUBSET Infobox
  <2>1. o.answers \in Seq(Answer) /\ o.infoboxes \in Seq(Infobox)
    BY <1>1, <1>2
  <2> QED
    BY <2>1 DEF ToSet
<1>4. ToldAnswers(r) \in SUBSET Answer /\ ToldBoxes(r) \in SUBSET Infobox
  BY <1>3 DEF ToldAnswers, ToldBoxes
<1>5. ASSUME NEW j \in DOMAIN r, r[j].status = "Completed"
      PROVE  r[j].answers \in Seq(ToldAnswers(r)) /\ r[j].infoboxes \in Seq(ToldBoxes(r))
  <2>1. r[j] \in CompletedIn(r)
    BY <1>5 DEF CompletedIn, ToSet
  <2>2. \A i \in DOMAIN r[j].answers : r[j].answers[i] \in ToldAnswers(r)
    BY <2>1 DEF ToldAnswers, ToSet
  <2>3. \A i \in DOMAIN r[j].infoboxes : r[j].infoboxes[i] \in ToldBoxes(r)
    BY <2>1 DEF ToldBoxes, ToSet
  <2>4. r[j].answers \in Seq(Answer) /\ r[j].infoboxes \in Seq(Infobox)
    BY <1>1
  <2> QED
    BY <2>2, <2>3, <2>4
<1> QED
  BY <1>4, <1>5

(* The inductive invariant: in the end the panels are those made of what was told. *)
PanelsInv ==
  /\ report \in Reports /\ next \in Nat \ {0}
  /\ ~done => /\ answers \in Seq(ToldAnswers(report)) /\ infoboxes \in Seq(ToldBoxes(report))
  /\ done => /\ next > Len(report)
             /\ \E told \in Seq(ToldAnswers(report)), boxes \in Seq(ToldBoxes(report)) :
                  /\ answers = coalesce_knowledge_panels(told, boxes).answers
                  /\ infoboxes = coalesce_knowledge_panels(told, boxes).infoboxes

(* ingest and finish keep it. *)
LEMMA PanelsInvariant == AggregationSpec => []PanelsInv
<1>1. AggregationInit => PanelsInv
  BY DEF AggregationInit, Untouched, PanelsInv
<1>2. PanelsInv /\ [AggregationNext]_aggregationVars => PanelsInv'
  <2> SUFFICES ASSUME PanelsInv, [AggregationNext]_aggregationVars PROVE PanelsInv'
    OBVIOUS
  <2>1. CASE ingest
    <3> DEFINE o == report[next]
               A == ToldAnswers(report)
               B == ToldBoxes(report)
    <3>1. /\ next <= Len(report) /\ next' = next + 1 /\ report' = report /\ done' = done
      BY <2>1 DEF ingest
    <3>2. report \in Reports /\ next \in DOMAIN report /\ next' \in Nat \ {0} /\ ~done
      <4>1. Len(report) \in Nat /\ DOMAIN report = 1..Len(report)
        BY ReportTyped DEF PanelsInv
      <4> QED
        BY <3>1, <4>1 DEF PanelsInv
    <3>3. answers \in Seq(A) /\ infoboxes \in Seq(B)
      BY <3>2 DEF PanelsInv
    <3>4. CASE o.status = "Completed"
      <4>1. /\ answers' = AddUnseen(answers, o.answers, {"answer"})
            /\ infoboxes' = AddUnseen(infoboxes, o.infoboxes, {"infobox", "id"})
        BY <2>1, <3>4 DEF ingest
      <4>2. o.answers \in Seq(A) /\ o.infoboxes \in Seq(B)
        BY <3>2, <3>4, PanelsTyped
      <4> HIDE DEF o, A, B
      <4>3. answers' \in Seq(A) /\ infoboxes' \in Seq(B)
        BY <3>3, <4>1, <4>2, UnseenAdded
      <4> QED
        BY <3>1, <3>2, <4>3 DEF PanelsInv, A, B
    <3>5. CASE o.status # "Completed"
      <4>1. answers' = answers /\ infoboxes' = infoboxes
        BY <2>1, <3>5 DEF ingest, said
      <4> QED
        BY <3>1, <3>2, <3>3, <4>1 DEF PanelsInv
    <3> QED
      BY <3>4, <3>5
  <2>2. CASE finish
    <3>1. /\ report' = report /\ next' = next /\ next > Len(report) /\ ~done /\ done'
          /\ answers' = coalesce_knowledge_panels(answers, infoboxes).answers
          /\ infoboxes' = coalesce_knowledge_panels(answers, infoboxes).infoboxes
      BY <2>2 DEF finish
    <3>2. /\ report \in Reports /\ next \in Nat \ {0}
          /\ answers \in Seq(ToldAnswers(report)) /\ infoboxes \in Seq(ToldBoxes(report))
      BY <3>1 DEF PanelsInv
    <3> QED
      BY <3>1, <3>2 DEF PanelsInv
  <2>3. CASE UNCHANGED aggregationVars
    BY <2>3 DEF aggregationVars, said, PanelsInv
  <2> QED
    BY <2>1, <2>2, <2>3 DEF AggregationNext
<1> QED
  BY <1>1, <1>2, PTL DEF AggregationSpec

(***************************************************************************)
(* A thing has one panel for its id, however many engines told of it, in   *)
(* whatever order and under whatever names, if each part tells the id of   *)
(* what it is about: for any entities, addresses, words and reports.       *)
(***************************************************************************)
THEOREM OnePanelEach == AggregationSpec => []OnePanelPerId
<1>1. ASSUME PanelsInv PROVE OnePanelPerId
  <2> DEFINE A == ToldAnswers(report)
             B == ToldBoxes(report)
  <2> SUFFICES ASSUME done, Identified(A, B)
               PROVE  /\ \A i, j \in DOMAIN infoboxes :
                           qid_of(infoboxes[i]) = qid_of(infoboxes[j]) => i = j
                      /\ \A a \in ToSet(answers), b \in ToSet(infoboxes) : IdsApart(a, b)
    BY DEF OnePanelPerId, IdsApart
  <2>1. PICK told \in Seq(A), boxes \in Seq(B) :
          /\ answers = coalesce_knowledge_panels(told, boxes).answers
          /\ infoboxes = coalesce_knowledge_panels(told, boxes).infoboxes
    BY <1>1 DEF PanelsInv
  <2>2. A \in SUBSET Answer /\ B \in SUBSET Infobox
    BY <1>1, PanelsTyped DEF PanelsInv
  <2>3. (\A a \in A : a \in WithId) /\ (\A b \in B : b \in BoxWithId)
    BY <2>2 DEF Identified, WithId, BoxWithId
  <2> HIDE DEF A, B
  <2>4. told \in Seq(WithId) /\ boxes \in Seq(BoxWithId)
    BY <2>3
  <2>5. PICK xs, ms : /\ answers = xs /\ infoboxes = ms
                      /\ \A i, j \in DOMAIN ms : qid_of(ms[i]) = qid_of(ms[j]) => i = j
                      /\ \A a \in ToSet(xs), b \in ToSet(ms) : IdsApart(a, b)
    BY <2>1, <2>4, PanelsById
  <2> QED
    BY <2>5
<1> QED
  BY <1>1, PanelsInvariant, PTL

(***************************************************************************)
(* Things that no chain of ids, addresses, names or texts ties together    *)
(* never share a panel: for any entities, words and reports.               *)
(***************************************************************************)
THEOREM UntiedApart == AggregationSpec => []PanelsTellOfTied
<1>1. ASSUME PanelsInv PROVE PanelsTellOfTied
  <2> DEFINE A == ToldAnswers(report)
             B == ToldBoxes(report)
  <2> SUFFICES ASSUME done, NEW S \in SUBSET Entities, Separate(S, A, B)
               PROVE  \A p \in Panels : Sided(p, S)
    BY DEF PanelsTellOfTied
  <2>1. PICK told \in Seq(A), boxes \in Seq(B) :
          /\ answers = coalesce_knowledge_panels(told, boxes).answers
          /\ infoboxes = coalesce_knowledge_panels(told, boxes).infoboxes
    BY <1>1 DEF PanelsInv
  <2>2. A \in SUBSET Answer /\ B \in SUBSET Infobox
    BY <1>1, PanelsTyped DEF PanelsInv
  <2> HIDE DEF A, B
  <2> QED
    BY <2>1, <2>2, PanelsOnSides DEF Panels
<1> QED
  BY <1>1, PanelsInvariant, PTL
=============================================================================
