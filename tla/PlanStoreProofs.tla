--------------------------- MODULE PlanStoreProofs ---------------------------
(***************************************************************************)
(* Theorems about PlanSort and PlanDag, for any dependency lists, and about *)
(* PlanStore, for any commands and resumes, any answers of the model and    *)
(* any limit on steps and attempts.                                         *)
(***************************************************************************)
EXTENDS PlanStore, PlanDag, FiniteSetTheorems, TLAPS

-----------------------------------------------------------------------------
(* Topological sorting, in PlanSort and PlanDag.                            *)

\* Every non-empty set of naturals has a least element.
LEMMA LeastExists ==
  ASSUME NEW S, S \subseteq Nat, S # {}
  PROVE  \E i \in S : \A j \in S : i <= j
<1> DEFINE R == OpToRel(<, Nat)
<1>1. IsWellFoundedOn(R, Nat)
  BY NatLessThanWellFounded
<1>2. R = {ss \in Nat \X Nat : ss[1] < ss[2]}
  BY Zenon DEF OpToRel
<1>3. \A x, y \in Nat : x < y => <<x, y>> \in R
  BY <1>2
<1>. HIDE DEF R
<1>4. PICK x \in S : \A y \in S : ~ (<<y, x>> \in R)
  BY <1>1, WFMin
<1>5. ASSUME NEW y \in S PROVE x <= y
  <2>1. x \in Nat /\ y \in Nat /\ ~ (y < x)
    BY <1>3, <1>4
  <2>. QED
    BY <2>1
<1>. QED
  BY <1>5

\* The number of smaller ids numbers the ids of a finite set from 0 on.
LEMMA RanksAreOnto ==
  ASSUME NEW S, S \subseteq Nat, IsFiniteSet(S)
  PROVE  /\ Cardinality(S) \in Nat
         /\ \A i \in 0 .. Cardinality(S) - 1 :
              \E s \in S : Cardinality({t \in S : t < s}) = i
<1> DEFINE below == [s \in S |-> {t \in S : t < s}]
           rank == [s \in S |-> Cardinality(below[s])]
           n == Cardinality(S)
<1>1. n \in Nat
  BY FS_CardinalityType
<1>2. ASSUME NEW s \in S
      PROVE  IsFiniteSet(below[s]) /\ rank[s] \in 0 .. n - 1
  <2>1. below[s] \in SUBSET S /\ s \notin below[s]
    OBVIOUS
  <2>2. IsFiniteSet(below[s]) /\ Cardinality(below[s]) <= n /\ (n = Cardinality(below[s]) => S = below[s])
    BY <2>1, FS_Subset, Zenon
  <2>3. Cardinality(below[s]) \in Nat
    BY <2>2, FS_CardinalityType, Zenon
  <2>4. Cardinality(below[s]) # n
    BY <2>1, <2>2
  <2>5. rank[s] = Cardinality(below[s])
    OBVIOUS
  <2>. HIDE DEF below, rank, n
  <2>. QED
    BY <1>1, <2>2, <2>3, <2>4, <2>5
<1>3. ASSUME NEW s \in S, NEW u \in S, s < u
      PROVE  rank[s] # rank[u]
  <2>1. below[s] \in SUBSET below[u] /\ s \in below[u] /\ s \notin below[s]
    <3>1. below[s] = {t \in S : t < s} /\ below[u] = {t \in S : t < u}
      OBVIOUS
    <3>2. s \in Nat /\ u \in Nat /\ \A t \in S : t \in Nat
      OBVIOUS
    <3>. HIDE DEF below
    <3>3. \A t \in S : t < s => t < u
      BY <1>3, <3>2
    <3>4. ~(s < s)
      BY <3>2
    <3>. QED
      BY <1>3, <3>1, <3>3, <3>4, Zenon
  <2>2. IsFiniteSet(below[u])
    BY <1>2
  <2>3. Cardinality(below[u]) = Cardinality(below[s]) => below[u] = below[s]
    BY <2>1, <2>2, FS_Subset, Zenon
  <2>4. rank[s] = Cardinality(below[s]) /\ rank[u] = Cardinality(below[u])
    OBVIOUS
  <2>. HIDE DEF below, rank
  <2>. QED
    BY <2>1, <2>3, <2>4
<1>. HIDE DEF below
<1>4. rank \in Injection(S, 0 .. n - 1)
  <2>1. rank \in [S -> 0 .. n - 1]
    BY <1>2
  <2>2. ASSUME NEW s \in S, NEW u \in S, s # u PROVE rank[s] # rank[u]
    <3>1. s < u \/ u < s
      BY <2>2
    <3>. HIDE DEF rank
    <3>. QED
      BY <1>3, <3>1
  <2>. HIDE DEF rank, n
  <2>3. IsInjective(rank)
    BY <2>1, <2>2 DEF IsInjective
  <2>. QED
    BY <2>1, <2>3 DEF Injection
<1>5. IsFiniteSet(0 .. n - 1) /\ Cardinality(0 .. n - 1) = n
  <2>. HIDE DEF n
  <2>1. 0 \in Int /\ n - 1 \in Int
    BY <1>1
  <2>2. IsFiniteSet(0 .. n - 1) /\ Cardinality(0 .. n - 1) = IF 0 > n - 1 THEN 0 ELSE n - 1 - 0 + 1
    BY <2>1, FS_Interval
  <2>. QED
    BY <1>1, <2>2
<1>6. rank \in Surjection(S, 0 .. n - 1)
  BY <1>4, <1>5, FS_Injection
<1>7. \A i \in 0 .. n - 1 : \E s \in S : rank[s] = i
  <2>. HIDE DEF rank
  <2>. QED
    BY <1>6 DEF Surjection
<1>. QED
  BY <1>1, <1>7 DEF below

\* Each element occurs at one place only.
Once(q) == \A i, j \in 1 .. Len(q) : q[i] = q[j] => i = j

\* InOrder lists its set, each id once.
LEMMA InOrderLists ==
  ASSUME NEW S, S \subseteq Nat, IsFiniteSet(S)
  PROVE  /\ InOrder(S) \in Seq(S)
         /\ Range(InOrder(S)) = S
         /\ Once(InOrder(S))
<1> DEFINE n == Cardinality(S)
           below(s) == Cardinality({t \in S : t < s})
           at(i) == CHOOSE s \in S : below(s) = i - 1
<1>1. n \in Nat /\ \A i \in 1 .. n : at(i) \in S /\ below(at(i)) = i - 1
  <2>1. n \in Nat /\ \A i \in 0 .. n - 1 : \E s \in S : below(s) = i
    BY RanksAreOnto
  <2>. HIDE DEF below, n
  <2>2. ASSUME NEW i \in 1 .. n PROVE at(i) \in S /\ below(at(i)) = i - 1
    <3>1. i - 1 \in 0 .. n - 1
      BY <2>1
    <3>2. \E s \in S : below(s) = i - 1
      BY <2>1, <3>1
    <3>. QED
      BY <3>2
  <2>. QED
    BY <2>1, <2>2
<1>2. InOrder(S) = [i \in 1 .. n |-> at(i)]
  BY DEF InOrder
<1>. HIDE DEF at, below
<1>3. InOrder(S) \in Seq(S) /\ Len(InOrder(S)) = n /\ \A i \in 1 .. n : InOrder(S)[i] = at(i)
  <2>. HIDE DEF n
  <2>. QED
    BY <1>1, <1>2
<1>4. Once(InOrder(S))
  <2>. SUFFICES ASSUME NEW i \in 1 .. n, NEW j \in 1 .. n, at(i) = at(j) PROVE i = j
    BY <1>3 DEF Once
  <2>1. below(at(i)) = i - 1 /\ below(at(j)) = j - 1
    BY <1>1
  <2>. HIDE DEF n
  <2>. QED
    BY <1>1, <2>1
<1>5. Range(InOrder(S)) = {InOrder(S)[i] : i \in 1 .. n}
  BY <1>2 DEF Range
<1>6. Range(InOrder(S)) \in SUBSET S
  <2>. HIDE DEF n
  <2>. QED
    BY <1>1, <1>3, <1>5
<1>7. InOrder(S) \in Bijection(1 .. n, Range(InOrder(S)))
  <2>. HIDE DEF n
  <2>1. InOrder(S) \in [1 .. n -> Range(InOrder(S))]
    BY <1>2, <1>5
  <2>2. \A a, b \in 1 .. n : InOrder(S)[a] = InOrder(S)[b] => a = b
    BY <1>3, <1>4 DEF Once
  <2>3. \A t \in Range(InOrder(S)) : \E s \in 1 .. n : InOrder(S)[s] = t
    BY <1>5
  <2>. QED
    BY <2>1, <2>2, <2>3 DEF Bijection, Injection, Surjection, IsInjective
<1>8. Cardinality(Range(InOrder(S))) = n
  <2>1. IsFiniteSet(1 .. n) /\ Cardinality(1 .. n) = n
    BY <1>1, FS_Interval
  <2>2. ExistsBijection(1 .. n, Range(InOrder(S)))
    BY <1>7 DEF ExistsBijection
  <2>. QED
    BY <2>1, <2>2, FS_Bijection
<1>9. Range(InOrder(S)) = S
  BY <1>6, <1>8, FS_Subset
<1>. QED
  BY <1>3, <1>4, <1>9

\* A sequence without repetitions is as long as the set of its elements.
LEMMA OnceCounts ==
  ASSUME NEW S, NEW q \in Seq(S), Once(q)
  PROVE  /\ Range(q) \subseteq S
         /\ IsFiniteSet(Range(q))
         /\ Cardinality(Range(q)) = Len(q)
<1>1. Len(q) \in Nat /\ DOMAIN q = 1 .. Len(q) /\ \A i \in 1 .. Len(q) : q[i] \in S
  OBVIOUS
<1>2. Range(q) = {q[i] : i \in 1 .. Len(q)}
  BY <1>1 DEF Range
<1>3. q \in Bijection(1 .. Len(q), Range(q))
  <2>1. q \in [1 .. Len(q) -> Range(q)]
    BY <1>1, <1>2
  <2>2. \A t \in Range(q) : \E i \in 1 .. Len(q) : q[i] = t
    BY <1>2
  <2>. QED
    BY <2>1, <2>2 DEF Once, Bijection, Injection, Surjection, IsInjective
<1>4. IsFiniteSet(1 .. Len(q)) /\ Cardinality(1 .. Len(q)) = Len(q)
  <2>1. 1 \in Int /\ Len(q) \in Int
    BY <1>1
  <2>2. /\ IsFiniteSet(1 .. Len(q))
        /\ Cardinality(1 .. Len(q)) = IF 1 > Len(q) THEN 0 ELSE Len(q) - 1 + 1
    BY <2>1, FS_Interval
  <2>. QED
    BY <1>1, <2>2
<1>5. ExistsBijection(1 .. Len(q), Range(q))
  BY <1>3 DEF ExistsBijection
<1>. QED
  BY <1>1, <1>2, <1>4, <1>5, FS_Bijection

\* Emitting one more id.
LEMMA AppendOnce ==
  ASSUME NEW S, NEW q \in Seq(S), Once(q), NEW x \in S, x \notin Range(q)
  PROVE  /\ Append(q, x) \in Seq(S)
         /\ Len(Append(q, x)) = Len(q) + 1
         /\ \A i \in 1 .. Len(q) : Append(q, x)[i] = q[i]
         /\ Append(q, x)[Len(q) + 1] = x
         /\ Range(Append(q, x)) = Range(q) \cup {x}
         /\ Once(Append(q, x))
<1> DEFINE p == Append(q, x)
<1>1. p \in Seq(S) /\ Len(p) = Len(q) + 1 /\ Len(q) \in Nat
  OBVIOUS
<1>2. \A i \in 1 .. Len(q) : p[i] = q[i]
  OBVIOUS
<1>3. p[Len(q) + 1] = x
  OBVIOUS
<1>4. DOMAIN p = 1 .. Len(q) + 1 /\ DOMAIN q = 1 .. Len(q)
  OBVIOUS
<1>. HIDE DEF p
<1>5. 1 .. Len(q) + 1 = 1 .. Len(q) \cup {Len(q) + 1}
  BY <1>1
<1>6. Range(p) = Range(q) \cup {x}
  BY <1>2, <1>3, <1>4, <1>5 DEF Range
<1>7. \A i \in 1 .. Len(q) : q[i] # x
  BY <1>4 DEF Range
<1>8. Once(p)
  <2>. SUFFICES ASSUME NEW i \in 1 .. Len(q) + 1, NEW j \in 1 .. Len(q) + 1, p[i] = p[j]
                PROVE  i = j
    BY <1>1 DEF Once
  <2>. QED
    BY <1>2, <1>3, <1>5, <1>7 DEF Once
<1>. QED
  BY <1>1, <1>2, <1>3, <1>6, <1>8 DEF p

\* Dropping the head of the queue and appending ids that are not in it.
LEMMA RequeueOnce ==
  ASSUME NEW S, NEW q \in Seq(S), Once(q), q # <<>>,
         NEW p \in Seq(S), Once(p), Range(p) \cap Range(q) = {}
  PROVE  /\ Tail(q) \o p \in Seq(S)
         /\ Range(Tail(q) \o p) = (Range(q) \ {Head(q)}) \cup Range(p)
         /\ Once(Tail(q) \o p)
<1> DEFINE r == Tail(q) \o p
           m == Len(q) - 1
           n == Len(p)
<1>1. r \in Seq(S) /\ Len(r) = m + n /\ m \in Nat /\ n \in Nat
  OBVIOUS
<1>2. \A i \in 1 .. m : r[i] = q[i + 1]
  OBVIOUS
<1>3. \A i \in 1 .. n : r[m + i] = p[i]
  OBVIOUS
<1>4. /\ DOMAIN r = 1 .. m + n /\ DOMAIN q = 1 .. m + 1 /\ DOMAIN p = 1 .. n
      /\ Len(q) = m + 1 /\ Head(q) = q[1]
  BY <1>1
<1>. HIDE DEF r, m, n
<1>5. \A i \in 1 .. m + n : i \in 1 .. m \/ \E j \in 1 .. n : i = m + j
  <2>. TAKE i \in 1 .. m + n
  <2>1. i \in 1 .. m \/ (i - m \in 1 .. n /\ i = m + (i - m))
    BY <1>1
  <2>. QED
    BY <2>1
<1>6. \A i \in 1 .. m + 1 : i = 1 \/ \E j \in 1 .. m : i = j + 1
  <2>. TAKE i \in 1 .. m + 1
  <2>1. i = 1 \/ (i - 1 \in 1 .. m /\ i = (i - 1) + 1)
    BY <1>1
  <2>. QED
    BY <2>1
<1>7. /\ \A i \in 1 .. m : i \in 1 .. m + n /\ i + 1 \in 1 .. m + 1 /\ i + 1 # 1
      /\ \A i \in 1 .. n : m + i \in 1 .. m + n
      /\ 1 \in 1 .. m + 1
  BY <1>1
<1>8. \A i, j \in 1 .. m + 1 : q[i] = q[j] => i = j
  BY <1>4 DEF Once
<1>9. Range(r) = (Range(q) \ {Head(q)}) \cup Range(p)
  <2>1. ASSUME NEW x \in Range(r) PROVE x \in (Range(q) \ {Head(q)}) \cup Range(p)
    <3>1. PICK i \in 1 .. m + n : r[i] = x
      BY <1>4 DEF Range
    <3>2. CASE i \in 1 .. m
      <4>1. x = q[i + 1] /\ i + 1 \in 1 .. m + 1 /\ q[i + 1] # q[1]
        BY <1>2, <1>7, <1>8, <3>1, <3>2
      <4>. QED
        BY <1>4, <4>1 DEF Range
    <3>3. ASSUME NEW j \in 1 .. n, i = m + j PROVE x \in Range(p)
      BY <1>3, <1>4, <3>1, <3>3 DEF Range
    <3>. QED
      BY <1>5, <3>2, <3>3
  <2>2. ASSUME NEW x \in Range(q), x # Head(q) PROVE x \in Range(r)
    <3>1. PICK i \in 1 .. m + 1 : q[i] = x
      BY <1>4 DEF Range
    <3>2. PICK j \in 1 .. m : i = j + 1
      BY <1>4, <1>6, <2>2, <3>1
    <3>3. r[j] = x /\ j \in 1 .. m + n
      BY <1>2, <1>7, <3>1, <3>2
    <3>. QED
      BY <1>4, <3>3 DEF Range
  <2>3. ASSUME NEW x \in Range(p) PROVE x \in Range(r)
    BY <1>3, <1>4, <1>7 DEF Range
  <2>. QED
    BY <2>1, <2>2, <2>3
<1>10. Once(r)
  <2>. SUFFICES ASSUME NEW i \in 1 .. m + n, NEW j \in 1 .. m + n, r[i] = r[j]
                PROVE  i = j
    BY <1>1 DEF Once
  <2>1. \A a \in 1 .. m : \A b \in 1 .. n : q[a + 1] # p[b]
    BY <1>4, <1>7 DEF Range
  <2>2. CASE i \in 1 .. m /\ j \in 1 .. m
    <3>1. i + 1 = j + 1
      BY <1>2, <1>7, <1>8, <2>2
    <3>. QED
      BY <1>1, <3>1
  <2>3. ASSUME NEW a \in 1 .. n, NEW b \in 1 .. n, i = m + a, j = m + b PROVE i = j
    BY <1>3, <2>3 DEF Once, n
  <2>4. CASE i \in 1 .. m /\ \E b \in 1 .. n : j = m + b
    BY <1>2, <1>3, <2>1, <2>4
  <2>5. CASE j \in 1 .. m /\ \E a \in 1 .. n : i = m + a
    BY <1>2, <1>3, <2>1, <2>5
  <2>. QED
    BY <1>5, <2>2, <2>3, <2>4, <2>5
<1>. QED
  BY <1>1, <1>9, <1>10 DEF r

\* A plan's graph: finitely many steps whose deps are steps.
Graph(g) ==
  /\ DOMAIN g \subseteq Nat
  /\ IsFiniteSet(DOMAIN g)
  /\ \A s \in DOMAIN g : g[s] \subseteq DOMAIN g

\* The invariant of the while loop.  out and queue repeat nothing and share
\* nothing; a degree counts the deps that are not out; the steps that are out or
\* queued are those with no such dep; and what is out is in order.
KahnType(k, g) ==
  /\ k.queue \in Seq(DOMAIN g)
  /\ k.out \in Seq(DOMAIN g)
Distinct(k) ==
  /\ Once(k.queue)
  /\ Once(k.out)
  /\ Range(k.queue) \cap Range(k.out) = {}
Degrees(k, g) ==
  k.inDegree = [s \in DOMAIN g |-> Cardinality(g[s] \ Range(k.out))]
Released(k, g) ==
  \A s \in DOMAIN g :
     g[s] \subseteq Range(k.out) <=> s \in Range(k.out) \cup Range(k.queue)
DepsFirst(q, g) ==
  \A i \in 1 .. Len(q) : \A d \in g[q[i]] : \E j \in 1 .. i - 1 : q[j] = d
KahnInv(k, g) ==
  KahnType(k, g) /\ Distinct(k) /\ Degrees(k, g) /\ Released(k, g) /\ DepsFirst(k.out, g)

LEMMA KahnInvInit ==
  ASSUME NEW g, Graph(g)
  PROVE  KahnInv(KahnInit(g), g)
<1> DEFINE k == KahnInit(g)
           free == {s \in DOMAIN g : g[s] = {}}
<1>1. k.queue = InOrder(free) /\ k.out = <<>> /\ k.inDegree = [s \in DOMAIN g |-> Cardinality(g[s])]
  BY DEF KahnInit
<1>. HIDE DEF k
<1>2. free \in SUBSET DOMAIN g /\ free \subseteq Nat /\ IsFiniteSet(free)
  BY FS_Subset DEF Graph
<1>. HIDE DEF free
<1>3. k.queue \in Seq(free) /\ Range(k.queue) = free /\ Once(k.queue)
  BY <1>1, <1>2, InOrderLists
<1>4. Range(k.out) = {}
  BY <1>1 DEF Range
<1>5. KahnType(k, g)
  BY <1>1, <1>2, <1>3 DEF KahnType
<1>6. Distinct(k)
  BY <1>1, <1>3, <1>4 DEF Distinct, Once
<1>7. Degrees(k, g)
  BY <1>1, <1>4 DEF Degrees
<1>8. Released(k, g)
  BY <1>3, <1>4 DEF Released, free
<1>9. DepsFirst(k.out, g)
  BY <1>1 DEF DepsFirst
<1>. QED
  BY <1>5, <1>6, <1>7, <1>8, <1>9 DEF KahnInv, k

\* One more step is out: a dep fewer for its children.
LEMMA DegreeDrops ==
  ASSUME NEW S, IsFiniteSet(S), NEW done, NEW x, x \notin done
  PROVE  /\ x \in S => Cardinality(S \ (done \cup {x})) = Cardinality(S \ done) - 1
         /\ x \notin S => S \ (done \cup {x}) = S \ done
         /\ Cardinality(S \ done) \in Nat
         /\ Cardinality(S \ done) = 0 <=> S \subseteq done
<1>1. IsFiniteSet(S \ done)
  BY FS_Difference
<1>2. Cardinality(S \ done) \in Nat
  BY <1>1, FS_CardinalityType
<1>3. S \ (done \cup {x}) = (S \ done) \ {x}
  OBVIOUS
<1>4. Cardinality((S \ done) \ {x}) = IF x \in S \ done THEN Cardinality(S \ done) - 1
                                    ELSE Cardinality(S \ done)
  BY <1>1, FS_RemoveElement
<1>5. Cardinality(S \ done) = 0 <=> S \ done = {}
  BY <1>1, FS_EmptySet
<1>6. S \ done = {} <=> S \subseteq done
  OBVIOUS
<1>7. x \in S => Cardinality(S \ (done \cup {x})) = Cardinality(S \ done) - 1
  BY <1>3, <1>4
<1>8. x \notin S => S \ (done \cup {x}) = S \ done
  OBVIOUS
<1>. QED
  BY <1>2, <1>5, <1>6, <1>7, <1>8

LEMMA KahnInvPop ==
  ASSUME NEW g, Graph(g), NEW k, KahnInv(k, g), k.queue # <<>>
  PROVE  /\ KahnInv(KahnPop(k, g), g)
         /\ Len(KahnPop(k, g).out) = Len(k.out) + 1
<1> DEFINE N == DOMAIN g
           kk == KahnPop(k, g)
           cur == Head(k.queue)
           children == {s \in N : cur \in g[s]}
           degree == [s \in N |-> IF s \in children THEN k.inDegree[s] - 1 ELSE k.inDegree[s]]
           freed == {s \in children : degree[s] = 0}
<1>1. /\ kk.queue = Tail(k.queue) \o InOrder(freed)
      /\ kk.out = Append(k.out, cur)
      /\ kk.inDegree = degree
  BY DEF KahnPop
<1>. HIDE DEF kk
<1>2. N \subseteq Nat /\ IsFiniteSet(N) /\ \A s \in N : g[s] \in SUBSET N /\ IsFiniteSet(g[s])
  <2>1. N \subseteq Nat /\ IsFiniteSet(N) /\ \A s \in N : g[s] \in SUBSET N
    BY DEF Graph
  <2>. QED
    BY <2>1, FS_Subset
<1>3. k.queue \in Seq(N) /\ k.out \in Seq(N) /\ Once(k.queue) /\ Once(k.out)
  BY DEF KahnInv, KahnType, Distinct
<1>4. cur \in N /\ cur \in Range(k.queue) /\ cur \notin Range(k.out)
  <2>1. Len(k.queue) \in Nat /\ 1 \in 1 .. Len(k.queue) /\ cur = k.queue[1]
        /\ DOMAIN k.queue = 1 .. Len(k.queue) /\ k.queue[1] \in N
    BY <1>3
  <2>2. cur \in Range(k.queue)
    BY <2>1 DEF Range
  <2>. QED
    BY <2>1, <2>2 DEF KahnInv, Distinct
<1>. HIDE DEF cur
<1>5. /\ kk.out \in Seq(N)
      /\ Len(kk.out) = Len(k.out) + 1
      /\ \A i \in 1 .. Len(k.out) : kk.out[i] = k.out[i]
      /\ kk.out[Len(k.out) + 1] = cur
      /\ Range(kk.out) = Range(k.out) \cup {cur}
      /\ Once(kk.out)
  BY <1>1, <1>3, <1>4, AppendOnce
<1>6. \A s \in N : /\ k.inDegree[s] = Cardinality(g[s] \ Range(k.out))
                   /\ s \in children <=> cur \in g[s]
  BY DEF KahnInv, Degrees
<1>. HIDE DEF children
<1>7. ASSUME NEW s \in N
      PROVE  /\ degree[s] = Cardinality(g[s] \ Range(kk.out))
             /\ degree[s] = 0 <=> g[s] \subseteq Range(kk.out)
  <2>1. /\ cur \in g[s] => Cardinality(g[s] \ Range(kk.out)) = k.inDegree[s] - 1
        /\ cur \notin g[s] => g[s] \ Range(kk.out) = g[s] \ Range(k.out)
    <3>1. IsFiniteSet(g[s]) /\ Range(kk.out) = Range(k.out) \cup {cur}
      BY <1>2, <1>5
    <3>2. /\ cur \in g[s] => Cardinality(g[s] \ (Range(k.out) \cup {cur}))
                              = Cardinality(g[s] \ Range(k.out)) - 1
          /\ cur \notin g[s] => g[s] \ (Range(k.out) \cup {cur}) = g[s] \ Range(k.out)
      BY <1>4, <3>1, DegreeDrops
    <3>. QED
      BY <1>6, <3>1, <3>2
  <2>2. degree[s] = IF cur \in g[s] THEN k.inDegree[s] - 1 ELSE k.inDegree[s]
    BY <1>6
  <2>3. degree[s] = Cardinality(g[s] \ Range(kk.out))
    BY <1>6, <2>1, <2>2
  <2>4. IsFiniteSet(g[s] \ Range(kk.out))
    BY <1>2, FS_Difference
  <2>5. Cardinality(g[s] \ Range(kk.out)) = 0 <=> g[s] \ Range(kk.out) = {}
    BY <2>4, FS_EmptySet
  <2>. QED
    BY <2>3, <2>5
<1>8. \A s \in N : s \in freed <=> cur \in g[s] /\ g[s] \subseteq Range(kk.out)
  <2>1. freed \subseteq N
    BY DEF children
  <2>. QED
    BY <1>6, <1>7, <2>1
<1>9. freed \in SUBSET N /\ freed \subseteq Nat /\ IsFiniteSet(freed)
  <2>1. freed \in SUBSET N
    BY DEF children
  <2>. QED
    BY <1>2, <2>1, FS_Subset
<1>10. Degrees(kk, g)
  BY <1>1, <1>7 DEF Degrees
<1>. HIDE DEF degree, freed
<1>11. InOrder(freed) \in Seq(N) /\ Range(InOrder(freed)) = freed /\ Once(InOrder(freed))
  BY <1>9, InOrderLists
<1>12. \A s \in N : g[s] \subseteq Range(k.out) <=> s \in Range(k.out) \cup Range(k.queue)
  BY DEF KahnInv, Released
<1>13. freed \cap (Range(k.queue) \cup Range(k.out)) = {}
  <2>. SUFFICES ASSUME NEW s \in freed, s \in Range(k.out) \cup Range(k.queue) PROVE FALSE
    OBVIOUS
  <2>1. s \in N /\ cur \in g[s] /\ g[s] \subseteq Range(k.out)
    BY <1>8, <1>9, <1>12
  <2>. QED
    BY <1>4, <2>1
<1>14. /\ kk.queue \in Seq(N)
       /\ Range(kk.queue) = (Range(k.queue) \ {cur}) \cup freed
       /\ Once(kk.queue)
  <2>1. Range(InOrder(freed)) \cap Range(k.queue) = {}
    BY <1>11, <1>13
  <2>2. /\ Tail(k.queue) \o InOrder(freed) \in Seq(N)
        /\ Range(Tail(k.queue) \o InOrder(freed))
             = (Range(k.queue) \ {Head(k.queue)}) \cup Range(InOrder(freed))
        /\ Once(Tail(k.queue) \o InOrder(freed))
    BY <1>3, <1>11, <2>1, RequeueOnce
  <2>. QED
    BY <1>1, <1>11, <2>2 DEF cur
<1>15. KahnType(kk, g)
  BY <1>5, <1>14 DEF KahnType
<1>16. Distinct(kk)
  <2>1. Range(k.queue) \cap Range(k.out) = {}
    BY DEF KahnInv, Distinct
  <2>2. Range(kk.queue) \cap Range(kk.out) = {}
    BY <1>4, <1>5, <1>13, <1>14, <2>1
  <2>. QED
    BY <1>5, <1>14, <2>2 DEF Distinct
<1>17. Released(kk, g)
  <2>. SUFFICES ASSUME NEW s \in N
                PROVE  g[s] \subseteq Range(kk.out) <=> s \in Range(kk.out) \cup Range(kk.queue)
    BY DEF Released
  <2>1. Range(kk.out) \cup Range(kk.queue) = Range(k.out) \cup Range(k.queue) \cup freed
    BY <1>4, <1>5, <1>14
  <2>2. g[s] \subseteq Range(kk.out) <=> g[s] \subseteq Range(k.out) \/ s \in freed
    BY <1>5, <1>8
  <2>. QED
    BY <1>12, <2>1, <2>2
<1>18. DepsFirst(kk.out, g)
  <2>. SUFFICES ASSUME NEW i \in 1 .. Len(kk.out), NEW d \in g[kk.out[i]]
                PROVE  \E j \in 1 .. i - 1 : kk.out[j] = d
    BY DEF DepsFirst
  <2>1. Len(k.out) \in Nat /\ DOMAIN k.out = 1 .. Len(k.out)
    BY <1>3
  <2>2. CASE i \in 1 .. Len(k.out)
    <3>1. PICK j \in 1 .. i - 1 : k.out[j] = d
      BY <1>5, <2>2 DEF KahnInv, DepsFirst
    <3>2. j \in 1 .. Len(k.out)
      BY <2>1, <2>2, <3>1
    <3>. QED
      BY <1>5, <3>1, <3>2
  <2>3. CASE i = Len(k.out) + 1
    <3>1. d \in Range(k.out)
      BY <1>4, <1>5, <1>12, <2>3
    <3>2. PICK j \in 1 .. Len(k.out) : k.out[j] = d
      BY <2>1, <3>1 DEF Range
    <3>3. j \in 1 .. i - 1
      BY <2>1, <2>3, <3>2
    <3>. QED
      BY <1>5, <3>2, <3>3
  <2>. QED
    BY <1>5, <2>1, <2>2, <2>3
<1>. QED
  BY <1>5, <1>10, <1>15, <1>16, <1>17, <1>18 DEF KahnInv, kk

\* The recursion of KahnTurns has a solution, which is KahnTurns.
Turn(g, t, n) ==
  IF n = 0 THEN KahnInit(g)
  ELSE IF t[n - 1].queue = <<>> THEN t[n - 1]
  ELSE KahnPop(t[n - 1], g)
Solves(g, t, m) == t = [n \in 0 .. m |-> Turn(g, t, n)]

LEMMA TurnsExist ==
  ASSUME NEW g, NEW m \in Nat
  PROVE  \E t : Solves(g, t, m)
<1> DEFINE Bad == {i \in Nat : ~ \E t : Solves(g, t, i)}
<1>. SUFFICES Bad = {}
  OBVIOUS
<1>1. SUFFICES ASSUME Bad # {} PROVE FALSE
  OBVIOUS
<1>2. PICK i \in Bad : \A j \in Bad : i <= j
  BY <1>1, LeastExists
<1>3. i \in Nat /\ ~ \E t : Solves(g, t, i)
  OBVIOUS
<1>4. CASE i = 0
  <2> DEFINE t == [n \in 0 .. 0 |-> KahnInit(g)]
  <2>1. \A n \in 0 .. 0 : n = 0
    OBVIOUS
  <2>2. Solves(g, t, 0)
    BY <2>1 DEF Solves, Turn
  <2>. QED
    BY <1>3, <1>4, <2>2
<1>5. CASE i # 0
  <2>1. i - 1 \in Nat /\ ~ (i <= i - 1)
    BY <1>3, <1>5
  <2>2. PICK f : Solves(g, f, i - 1)
    BY <1>2, <2>1
  <2> DEFINE t == [n \in 0 .. i |-> IF n = i THEN Turn(g, f, i) ELSE f[n]]
  <2>3. \A n \in 0 .. i - 1 : n \in 0 .. i /\ n # i /\ t[n] = f[n] /\ f[n] = Turn(g, f, n)
    <3>1. \A n \in 0 .. i - 1 : n \in 0 .. i /\ n # i
      BY <1>3
    <3>2. \A n \in 0 .. i - 1 : f[n] = Turn(g, f, n)
      BY <2>2 DEF Solves
    <3>. HIDE DEF Bad
    <3>. QED
      BY <3>1, <3>2, Zenon
  <2>4. \A n \in 0 .. i : n = 0 \/ n - 1 \in 0 .. i - 1
    BY <1>3
  <2>5. \A n \in 0 .. i : n = i \/ n \in 0 .. i - 1
    BY <1>3
  <2>6. \A n \in 0 .. i : Turn(g, t, n) = Turn(g, f, n)
    <3>. HIDE DEF t
    <3>. QED
      BY <2>3, <2>4 DEF Turn
  <2>7. \A n \in 0 .. i : t[n] = Turn(g, f, n)
    <3>1. \A n \in 0 .. i : t[n] = IF n = i THEN Turn(g, f, i) ELSE f[n]
      OBVIOUS
    <3>. HIDE DEF t, Bad
    <3>. QED
      BY <2>3, <2>5, <3>1
  <2>8. t = [n \in 0 .. i |-> t[n]]
    OBVIOUS
  <2>. HIDE DEF t
  <2>9. Solves(g, t, i)
    BY <2>6, <2>7, <2>8 DEF Solves
  <2>. QED
    BY <1>3, <2>9
<1>. QED
  BY <1>4, <1>5

LEMMA TurnsUnfold ==
  ASSUME NEW g, Cardinality(DOMAIN g) \in Nat
  PROVE  /\ KahnTurns(g)[0] = KahnInit(g)
         /\ \A n \in 0 .. Cardinality(DOMAIN g) - 1 :
              KahnTurns(g)[n + 1] = IF KahnTurns(g)[n].queue = <<>> THEN KahnTurns(g)[n]
                                    ELSE KahnPop(KahnTurns(g)[n], g)
<1> DEFINE m == Cardinality(DOMAIN g)
           turns == KahnTurns(g)
<1>1. turns = CHOOSE t : t = [n \in 0 .. m |->
                 IF n = 0 THEN KahnInit(g)
                 ELSE IF t[n - 1].queue = <<>> THEN t[n - 1]
                 ELSE KahnPop(t[n - 1], g)]
  BY DEF KahnTurns
<1>2. turns = CHOOSE t : Solves(g, t, m)
  BY <1>1 DEF Solves, Turn
<1>3. \E t : Solves(g, t, m)
  BY TurnsExist
<1>. HIDE DEF turns, m
<1>4. Solves(g, turns, m)
  BY <1>2, <1>3
<1>5. m \in Nat
  BY DEF m
<1>6. \A n \in 0 .. m : turns[n] = Turn(g, turns, n)
  BY <1>4 DEF Solves
<1>7. 0 \in 0 .. m
  BY <1>5
<1>8. \A n \in 0 .. m - 1 : n + 1 \in 0 .. m /\ n + 1 # 0 /\ (n + 1) - 1 = n
  BY <1>5
<1>9. turns[0] = KahnInit(g)
  BY <1>6, <1>7 DEF Turn
<1>10. \A n \in 0 .. m - 1 :
          turns[n + 1] = IF turns[n].queue = <<>> THEN turns[n] ELSE KahnPop(turns[n], g)
  BY <1>6, <1>8 DEF Turn
<1>. QED
  BY <1>9, <1>10 DEF turns, m

\* While the queue is not empty, fewer steps are out than there are.
LEMMA QueueMeansMore ==
  ASSUME NEW g, Graph(g), NEW k, KahnInv(k, g)
  PROVE  /\ Range(k.out) \in SUBSET DOMAIN g
         /\ Len(k.out) \in Nat
         /\ Cardinality(DOMAIN g) \in Nat
         /\ Len(k.out) <= Cardinality(DOMAIN g)
         /\ Len(k.out) = Cardinality(DOMAIN g) <=> Range(k.out) = DOMAIN g
         /\ k.queue # <<>> => Len(k.out) < Cardinality(DOMAIN g)
<1>1. k.out \in Seq(DOMAIN g) /\ k.queue \in Seq(DOMAIN g) /\ Once(k.out)
  BY DEF KahnInv, KahnType, Distinct
<1>2. Range(k.out) \in SUBSET DOMAIN g /\ Cardinality(Range(k.out)) = Len(k.out)
  BY <1>1, OnceCounts
<1>3. Len(k.out) \in Nat
  BY <1>1
<1>4. IsFiniteSet(DOMAIN g)
  BY DEF Graph
<1>5. Cardinality(DOMAIN g) \in Nat
  BY <1>4, FS_CardinalityType
<1>6. /\ Cardinality(Range(k.out)) <= Cardinality(DOMAIN g)
      /\ Cardinality(DOMAIN g) = Cardinality(Range(k.out)) => DOMAIN g = Range(k.out)
  BY <1>2, <1>4, FS_Subset
<1>7. k.queue # <<>> => Range(k.out) # DOMAIN g
  <2>. SUFFICES ASSUME k.queue # <<>> PROVE Range(k.out) # DOMAIN g
    OBVIOUS
  <2>1. 1 \in 1 .. Len(k.queue) /\ DOMAIN k.queue = 1 .. Len(k.queue) /\ k.queue[1] \in DOMAIN g
    BY <1>1
  <2>2. k.queue[1] \in Range(k.queue)
    BY <2>1 DEF Range
  <2>3. Range(k.queue) \cap Range(k.out) = {}
    BY DEF KahnInv, Distinct
  <2>. QED
    BY <2>1, <2>2, <2>3
<1>8. Len(k.out) <= Cardinality(DOMAIN g)
  BY <1>2, <1>6
<1>9. Len(k.out) = Cardinality(DOMAIN g) <=> Range(k.out) = DOMAIN g
  BY <1>2, <1>6
<1>10. k.queue # <<>> => Len(k.out) < Cardinality(DOMAIN g)
  BY <1>3, <1>5, <1>7, <1>8, <1>9
<1>. QED
  BY <1>2, <1>3, <1>5, <1>8, <1>9, <1>10

LEMMA TurnsInv ==
  ASSUME NEW g, Graph(g), NEW n \in 0 .. Cardinality(DOMAIN g)
  PROVE  /\ KahnInv(KahnTurns(g)[n], g)
         /\ KahnTurns(g)[n].queue = <<>> \/ Len(KahnTurns(g)[n].out) = n
<1> DEFINE m == Cardinality(DOMAIN g)
           turns == KahnTurns(g)
           Good(i) == /\ KahnInv(turns[i], g)
                      /\ turns[i].queue = <<>> \/ Len(turns[i].out) = i
           Bad == {i \in 0 .. m : ~ Good(i)}
<1>1. m \in Nat
  BY FS_CardinalityType DEF Graph
<1>. SUFFICES Bad = {}
  OBVIOUS
<1>2. SUFFICES ASSUME Bad # {} PROVE FALSE
  OBVIOUS
<1>3. Bad \subseteq Nat
  OBVIOUS
<1>4. PICK i \in Bad : \A j \in Bad : i <= j
  BY <1>2, <1>3, LeastExists
<1>5. i \in 0 .. m /\ ~ Good(i)
  OBVIOUS
<1>6. /\ turns[0] = KahnInit(g)
      /\ \A j \in 0 .. m - 1 : turns[j + 1] = IF turns[j].queue = <<>> THEN turns[j]
                                             ELSE KahnPop(turns[j], g)
  BY <1>1, TurnsUnfold
<1>. HIDE DEF turns, m
<1>7. i # 0
  <2>1. KahnInv(turns[0], g)
    BY <1>6, KahnInvInit
  <2>2. turns[0].out = <<>>
    BY <1>6 DEF KahnInit
  <2>3. Len(turns[0].out) = 0
    BY <2>2
  <2>4. Good(0)
    BY <2>1, <2>3
  <2>. QED
    BY <1>5, <2>4
<1>8. i - 1 \in 0 .. m - 1 /\ i - 1 \in 0 .. m /\ ~ (i <= i - 1) /\ (i - 1) + 1 = i
  BY <1>1, <1>5, <1>7
<1>9. Good(i - 1)
  BY <1>4, <1>8
<1>10. turns[i] = IF turns[i - 1].queue = <<>> THEN turns[i - 1] ELSE KahnPop(turns[i - 1], g)
  BY <1>6, <1>8
<1>11. CASE turns[i - 1].queue = <<>>
  BY <1>5, <1>9, <1>10, <1>11
<1>12. CASE turns[i - 1].queue # <<>>
  <2>1. KahnInv(turns[i - 1], g) /\ Len(turns[i - 1].out) = i - 1
    BY <1>9, <1>12
  <2>2. KahnInv(turns[i], g) /\ Len(turns[i].out) = (i - 1) + 1
    BY <1>10, <1>12, <2>1, KahnInvPop
  <2>. QED
    BY <1>5, <1>8, <2>2
<1>. QED
  BY <1>11, <1>12

\* The loop ends with its queue empty.
LEMMA KahnEnds ==
  ASSUME NEW g, Graph(g)
  PROVE  KahnInv(Kahn(g), g) /\ Kahn(g).queue = <<>>
<1> DEFINE m == Cardinality(DOMAIN g)
           k == KahnTurns(g)[m]
<1>1. m \in Nat
  BY FS_CardinalityType DEF Graph
<1>2. m \in 0 .. m
  BY <1>1
<1>3. KahnInv(k, g) /\ (k.queue = <<>> \/ Len(k.out) = m)
  BY <1>2, TurnsInv
<1>4. k.queue # <<>> => Len(k.out) < m /\ Len(k.out) \in Nat
  BY <1>3, QueueMeansMore
<1>5. k.queue = <<>>
  <2>. HIDE DEF k, m
  <2>. QED
    BY <1>1, <1>3, <1>4
<1>. QED
  BY <1>3, <1>5 DEF Kahn

\* The reference definition of a graph without a cycle.
AcyclicGraph(g) ==
  \A group \in (SUBSET DOMAIN g) \ {{}} : \E s \in group : g[s] \cap group = {}

\* Ended with nothing queued, the loop has put every step out exactly if the
\* graph has no cycle.
LEMMA AllOutIffAcyclic ==
  ASSUME NEW g, Graph(g), NEW k, KahnInv(k, g), k.queue = <<>>
  PROVE  Range(k.out) = DOMAIN g <=> AcyclicGraph(g)
<1>1. Range(k.queue) = {}
  BY DEF Range
<1>2. \A s \in DOMAIN g : g[s] \subseteq Range(k.out) <=> s \in Range(k.out)
  BY <1>1 DEF KahnInv, Released
<1>3. k.out \in Seq(DOMAIN g) /\ Range(k.out) \in SUBSET DOMAIN g
  BY QueueMeansMore DEF KahnInv, KahnType
<1>4. ASSUME AcyclicGraph(g), Range(k.out) # DOMAIN g
      PROVE  FALSE
  <2> DEFINE waiting == DOMAIN g \ Range(k.out)
  <2>1. waiting \in (SUBSET DOMAIN g) \ {{}}
    BY <1>3, <1>4
  <2>2. PICK s \in waiting : g[s] \cap waiting = {}
    BY <1>4, <2>1 DEF AcyclicGraph
  <2>3. g[s] \subseteq DOMAIN g
    BY DEF Graph
  <2>. QED
    BY <1>2, <2>2, <2>3
<1>5. ASSUME Range(k.out) = DOMAIN g, NEW group \in (SUBSET DOMAIN g) \ {{}}
      PROVE  \E s \in group : g[s] \cap group = {}
  <2> DEFINE places == {i \in 1 .. Len(k.out) : k.out[i] \in group}
  <2>1. DOMAIN k.out = 1 .. Len(k.out) /\ Len(k.out) \in Nat
    BY <1>3
  <2>2. PICK x \in group : x \in Range(k.out)
    BY <1>5
  <2>3. places # {}
    BY <2>1, <2>2 DEF Range
  <2>4. places \subseteq Nat
    OBVIOUS
  <2>5. PICK i \in places : \A j \in places : i <= j
    BY <2>3, <2>4, LeastExists
  <2>6. ASSUME NEW d \in g[k.out[i]], d \in group PROVE FALSE
    <3>1. PICK j \in 1 .. i - 1 : k.out[j] = d
      BY DEF KahnInv, DepsFirst
    <3>2. j \in 1 .. Len(k.out) /\ ~ (i <= j)
      BY <2>1, <3>1
    <3>. QED
      BY <2>5, <2>6, <3>1, <3>2
  <2>. QED
    BY <2>6
<1>. QED
  BY <1>4, <1>5 DEF AcyclicGraph

-----------------------------------------------------------------------------
\* _validate_dag, whatever dependency lists it is given, accepts exactly the
\* graphs over the plan's own steps in which no set of steps waits for itself:
\* its count of visited steps decides about cycles.
THEOREM ValidatorIsExact ==
  ASSUME NEW g, DOMAIN g \subseteq Nat, IsFiniteSet(DOMAIN g)
  PROVE  ValidDag(g) <=> /\ \A s \in DOMAIN g : g[s] \subseteq DOMAIN g
                         /\ AcyclicGraph(g)
<1>1. ASSUME \A s \in DOMAIN g : g[s] \subseteq DOMAIN g
      PROVE  Len(Kahn(g).out) = Cardinality(DOMAIN g) <=> AcyclicGraph(g)
  <2>1. Graph(g)
    BY <1>1 DEF Graph
  <2>2. KahnInv(Kahn(g), g) /\ Kahn(g).queue = <<>>
    BY <2>1, KahnEnds
  <2>3. Len(Kahn(g).out) = Cardinality(DOMAIN g) <=> Range(Kahn(g).out) = DOMAIN g
    BY <2>1, <2>2, QueueMeansMore
  <2>. QED
    BY <2>1, <2>2, <2>3, AllOutIffAcyclic
<1>2. ASSUME AcyclicGraph(g), NEW s \in DOMAIN g
      PROVE  s \notin g[s]
  <2>1. {s} \in (SUBSET DOMAIN g) \ {{}}
    OBVIOUS
  <2>2. \E u \in {s} : g[u] \cap {s} = {}
    BY <1>2, <2>1 DEF AcyclicGraph
  <2>. QED
    BY <2>2
<1>. QED
  BY <1>1, <1>2 DEF ValidDag

LEMMA ValidIsGraph ==
  ASSUME NEW g, DOMAIN g \subseteq Nat, IsFiniteSet(DOMAIN g), ValidDag(g)
  PROVE  Graph(g)
BY DEF ValidDag, Graph

\* For every plan that _validate_dag accepts, topo_sort returns each step once
\* and after all of its deps.
THEOREM TopoSortIsLinearExtension ==
  ASSUME NEW g, DOMAIN g \subseteq Nat, IsFiniteSet(DOMAIN g), ValidDag(g)
  PROVE  /\ TopoSort(g) \in Seq(DOMAIN g)
         /\ Len(TopoSort(g)) = Cardinality(DOMAIN g)
         /\ Range(TopoSort(g)) = DOMAIN g
         /\ Once(TopoSort(g))
         /\ DepsFirst(TopoSort(g), g)
<1>1. Graph(g)
  BY ValidIsGraph
<1>2. KahnInv(Kahn(g), g)
  BY <1>1, KahnEnds
<1>3. Len(Kahn(g).out) = Cardinality(DOMAIN g)
  BY DEF ValidDag
<1>4. Range(Kahn(g).out) = DOMAIN g
  BY <1>1, <1>2, <1>3, QueueMeansMore
<1>. QED
  BY <1>2, <1>3, <1>4 DEF TopoSort, KahnInv, KahnType, Distinct

-----------------------------------------------------------------------------
(* PlanDag.                                                                 *)

\* While the plan is raw or rejected nothing has been sorted; a plan is rejected
\* exactly if it is not valid; and the sort is at the turn that has put its
\* steps out.
DagInv ==
  /\ deps \in [StepIds -> SUBSET (StepIds \cup Unknown)]
  /\ phase \in {"raw", "rejected", "sorting", "sorted"}
  /\ phase \in {"raw", "rejected"} => kahn = KahnInit(deps)
  /\ phase = "rejected" => ~ ValidDag(deps)
  /\ phase \in {"sorting", "sorted"} =>
       /\ ValidDag(deps)
       /\ KahnInv(kahn, deps)
       /\ kahn = KahnTurns(deps)[Len(kahn.out)]
  /\ phase = "sorted" => kahn.queue = <<>>

LEMMA DepsTyped ==
  ASSUME deps \in [StepIds -> SUBSET (StepIds \cup Unknown)]
  PROVE  /\ DOMAIN deps = StepIds
         /\ DOMAIN deps \subseteq Nat
         /\ IsFiniteSet(DOMAIN deps)
BY StepIdsAssumption

LEMMA DagInvInit == DagInit => DagInv
BY DEF DagInit, DagInv

LEMMA DagInvNext == DagInv /\ [DagNext]_dagVars => DagInv'
<1>. SUFFICES ASSUME DagInv, [DagNext]_dagVars PROVE DagInv'
  OBVIOUS
<1>1. deps \in [StepIds -> SUBSET (StepIds \cup Unknown)]
      /\ DOMAIN deps \subseteq Nat /\ IsFiniteSet(DOMAIN deps)
  BY DepsTyped DEF DagInv
<1>2. CASE UNCHANGED dagVars
  BY <1>2 DEF dagVars, DagInv
<1>3. CASE Reject
  BY <1>3 DEF Reject, DagInv
<1>4. CASE Accept
  <2>1. phase = "raw" /\ ValidDag(deps) /\ phase' = "sorting" /\ deps' = deps /\ kahn' = kahn
    BY <1>4 DEF Accept
  <2>2. kahn = KahnInit(deps)
    BY <2>1 DEF DagInv
  <2>3. Graph(deps)
    BY <1>1, <2>1, ValidIsGraph
  <2>4. KahnInv(kahn, deps)
    BY <2>2, <2>3, KahnInvInit
  <2>5. kahn.out = <<>>
    BY <2>2 DEF KahnInit
  <2>6. Len(kahn.out) = 0
    BY <2>5
  <2>7. Cardinality(DOMAIN deps) \in Nat
    BY <1>1, FS_CardinalityType
  <2>8. kahn = KahnTurns(deps)[Len(kahn.out)]
    BY <2>2, <2>6, <2>7, TurnsUnfold
  <2>. QED
    BY <1>1, <2>1, <2>4, <2>8 DEF DagInv
<1>5. CASE Pop
  <2>1. /\ phase = "sorting" /\ kahn.queue # <<>> /\ kahn' = KahnPop(kahn, deps)
        /\ deps' = deps /\ phase' = phase
    BY <1>5 DEF Pop
  <2>2. ValidDag(deps) /\ KahnInv(kahn, deps) /\ kahn = KahnTurns(deps)[Len(kahn.out)]
    BY <2>1 DEF DagInv
  <2>3. Graph(deps)
    BY <1>1, <2>2, ValidIsGraph
  <2>4. KahnInv(kahn', deps) /\ Len(kahn'.out) = Len(kahn.out) + 1
    BY <2>1, <2>2, <2>3, KahnInvPop
  <2>5. /\ Len(kahn.out) \in Nat /\ Cardinality(DOMAIN deps) \in Nat
        /\ Len(kahn.out) < Cardinality(DOMAIN deps)
    BY <2>1, <2>2, <2>3, QueueMeansMore
  <2>6. Len(kahn.out) \in 0 .. Cardinality(DOMAIN deps) - 1
    BY <2>5
  <2>7. KahnTurns(deps)[Len(kahn.out) + 1] = KahnPop(kahn, deps)
    BY <2>1, <2>2, <2>5, <2>6, TurnsUnfold
  <2>8. kahn' = KahnTurns(deps)[Len(kahn'.out)]
    BY <2>1, <2>4, <2>7
  <2>. QED
    BY <1>1, <2>1, <2>2, <2>4, <2>8 DEF DagInv
<1>6. CASE Finish
  BY <1>6 DEF Finish, DagInv
<1>. QED
  BY <1>2, <1>3, <1>4, <1>5, <1>6 DEF DagNext

THEOREM DagInvariant == DagSpec => []DagInv
BY DagInvInit, DagInvNext, PTL DEF DagSpec

LEMMA KahnInitType ==
  ASSUME deps \in [StepIds -> SUBSET (StepIds \cup Unknown)]
  PROVE  /\ KahnInit(deps).queue \in Seq(StepIds)
         /\ KahnInit(deps).out \in Seq(StepIds)
         /\ KahnInit(deps).inDegree \in [StepIds -> Nat]
<1> DEFINE free == {s \in DOMAIN deps : deps[s] = {}}
<1>1. DOMAIN deps = StepIds /\ StepIds \subseteq Nat /\ IsFiniteSet(StepIds)
  BY DepsTyped
<1>2. free \in SUBSET StepIds /\ free \subseteq Nat /\ IsFiniteSet(free)
  BY <1>1, FS_Subset
<1>3. KahnInit(deps) = [queue |-> InOrder(free), out |-> <<>>,
                        inDegree |-> [s \in DOMAIN deps |-> Cardinality(deps[s])]]
  BY DEF KahnInit
<1>. HIDE DEF free
<1>4. InOrder(free) \in Seq(free)
  BY <1>2, InOrderLists
<1>5. IsFiniteSet(StepIds \cup Unknown)
  BY <1>1, UnknownAssumption, FS_Union
<1>6. \A s \in StepIds : Cardinality(deps[s]) \in Nat
  <2>. TAKE s \in StepIds
  <2>1. deps[s] \in SUBSET (StepIds \cup Unknown)
    OBVIOUS
  <2>2. IsFiniteSet(deps[s])
    BY <1>5, <2>1, FS_Subset
  <2>. QED
    BY <2>2, FS_CardinalityType
<1>7. KahnInit(deps).queue \in Seq(StepIds)
  <2>1. ASSUME NEW q \in Seq(free) PROVE q \in Seq(StepIds)
    <3>1. Len(q) \in Nat /\ q = [i \in 1 .. Len(q) |-> q[i]] /\ \A i \in 1 .. Len(q) : q[i] \in free
      OBVIOUS
    <3>2. \A i \in 1 .. Len(q) : q[i] \in StepIds
      BY <1>2, <3>1
    <3>. QED
      BY <3>1, <3>2
  <2>. QED
    BY <1>3, <1>4, <2>1
<1>8. KahnInit(deps).out \in Seq(StepIds)
  BY <1>3
<1>9. KahnInit(deps).inDegree \in [StepIds -> Nat]
  BY <1>1, <1>3, <1>6
<1>. QED
  BY <1>7, <1>8, <1>9

\* The types of PlanDag's variables hold for any plan.
THEOREM DagTypeCorrect == DagSpec => []DagTypeOK
<1>1. DagInv => DagTypeOK
  <2>. SUFFICES ASSUME DagInv PROVE DagTypeOK
    OBVIOUS
  <2>1. deps \in [StepIds -> SUBSET (StepIds \cup Unknown)] /\ DOMAIN deps = StepIds
    BY DepsTyped DEF DagInv
  <2>2. CASE phase \in {"raw", "rejected"}
    BY <2>1, <2>2, KahnInitType DEF DagInv, DagTypeOK
  <2>3. CASE phase \in {"sorting", "sorted"}
    <3>1. ValidDag(deps) /\ KahnInv(kahn, deps)
      BY <2>3 DEF DagInv
    <3>2. kahn.queue \in Seq(StepIds) /\ kahn.out \in Seq(StepIds)
      BY <2>1, <3>1 DEF KahnInv, KahnType
    <3>3. kahn.inDegree = [s \in StepIds |-> Cardinality(deps[s] \ Range(kahn.out))]
      BY <2>1, <3>1 DEF KahnInv, Degrees
    <3>4. \A s \in StepIds : Cardinality(deps[s] \ Range(kahn.out)) \in Nat
      <4>. TAKE s \in StepIds
      <4>1. deps[s] \ Range(kahn.out) \in SUBSET StepIds
        BY <2>1, <3>1 DEF ValidDag
      <4>2. IsFiniteSet(deps[s] \ Range(kahn.out))
        BY <4>1, FS_Subset, StepIdsAssumption
      <4>. QED
        BY <4>2, FS_CardinalityType
    <3>. QED
      BY <2>3, <3>2, <3>3, <3>4 DEF DagTypeOK
  <2>. QED
    BY <2>2, <2>3 DEF DagInv
<1>. QED
  BY <1>1, DagInvariant, PTL

\* A plan is rejected only if its deps are not a DAG over its own steps, and
\* sorted only if they are.
THEOREM ValidatesOnlyDags == DagSpec => []ValidatesExactlyDags
<1>1. DagInv => ValidatesExactlyDags
  <2>. SUFFICES ASSUME DagInv PROVE ValidatesExactlyDags
    OBVIOUS
  <2>1. DOMAIN deps = StepIds /\ DOMAIN deps \subseteq Nat /\ IsFiniteSet(DOMAIN deps)
    BY DepsTyped DEF DagInv
  <2>2. ValidDag(deps) <=> WellFormed
    <3>1. ValidDag(deps) <=> (\A s \in DOMAIN deps : deps[s] \subseteq DOMAIN deps) /\ AcyclicGraph(deps)
      BY <2>1, ValidatorIsExact
    <3>2. AcyclicGraph(deps) <=> Acyclic
      BY <2>1 DEF AcyclicGraph, Acyclic
    <3>. QED
      BY <2>1, <3>1, <3>2 DEF WellFormed
  <2>. QED
    BY <2>2 DEF DagInv, ValidatesExactlyDags
<1>. QED
  BY <1>1, DagInvariant, PTL

\* What topo_sort ends with is a linear extension of the plan, and is TopoSort.
THEOREM SortIsLinearExtension == DagSpec => []SortedIsLinearExtension
<1>1. DagInv => SortedIsLinearExtension
  <2>. SUFFICES ASSUME DagInv, phase = "sorted" PROVE SortedIsLinearExtension
    BY DEF SortedIsLinearExtension
  <2>1. DOMAIN deps = StepIds /\ DOMAIN deps \subseteq Nat /\ IsFiniteSet(DOMAIN deps)
    BY DepsTyped DEF DagInv
  <2>2. /\ ValidDag(deps) /\ KahnInv(kahn, deps) /\ kahn.queue = <<>>
        /\ kahn = KahnTurns(deps)[Len(kahn.out)]
    BY DEF DagInv
  <2>3. Graph(deps) /\ AcyclicGraph(deps)
    BY <2>1, <2>2, ValidIsGraph, ValidatorIsExact
  <2>4. Range(kahn.out) = DOMAIN deps
    BY <2>2, <2>3, AllOutIffAcyclic
  <2>5. Len(kahn.out) = Cardinality(DOMAIN deps)
    BY <2>2, <2>3, <2>4, QueueMeansMore
  <2>6. kahn.out = TopoSort(deps)
    BY <2>2, <2>5 DEF TopoSort, Kahn
  <2>7. DOMAIN kahn.out = 1 .. Len(kahn.out)
    BY <2>2 DEF KahnInv, KahnType
  <2>8. DepsFirst(kahn.out, deps)
    BY <2>2 DEF KahnInv
  <2>. QED
    BY <2>1, <2>4, <2>5, <2>6, <2>7, <2>8 DEF SortedIsLinearExtension, Emitted, DepsFirst
<1>. QED
  BY <1>1, DagInvariant, PTL

-----------------------------------------------------------------------------
(* PlanStore.                                                               *)

\* Every dep of an accepted plan is an earlier step: _parse_and_validate lets
\* a step name itself, _validate_dag does not.
LEMMA AcceptedPointsBack ==
  ASSUME NEW needs \in AcceptedPlans
  PROVE  /\ needs \in Seq(SUBSET Ids)
         /\ Len(needs) <= MaxSteps
         /\ \A i \in 1 .. Len(needs) : \A d \in needs[i] : d < i
<1>1. PICK raw \in Answers : Accepted(raw) /\ needs = DepsOf(raw)
  BY DEF AcceptedPlans
<1>2. raw \in Seq(RawStep) /\ Len(raw) \in 1 .. MaxSteps /\ MaxSteps \in Nat
  BY <1>1, StoreAssumption DEF Accepted, Parses
<1>3. ASSUME NEW i \in 1 .. Len(raw)
      PROVE  needs[i] \in SUBSET Ids /\ \A d \in needs[i] : d < i
  <2>1. needs[i] = {d.n : d \in Range(raw[i].deps)}
    BY <1>1 DEF DepsOf
  <2>2. \A d \in needs[i] : d \in 1 .. i
    <3>1. \A r \in Range(raw[i].deps) : r.n \in 1 .. i
      BY <1>1, <1>2 DEF Accepted, Parses, GoodRef
    <3>. QED
      BY <2>1, <3>1
  <2>3. i \notin needs[i]
    BY <1>1 DEF Accepted, ValidDag, DepsOf
  <2>. QED
    BY <1>2, <2>2, <2>3 DEF Ids
<1>4. needs = [i \in 1 .. Len(raw) |-> needs[i]] /\ Len(needs) = Len(raw)
  BY <1>1, <1>2 DEF DepsOf
<1>. QED
  BY <1>2, <1>3, <1>4

\* Every plan decompose returns can be executed: topo_sort orders it as
\* PlanRunner assumes of its Order, each step once and after all its deps.
THEOREM AcceptedPlansAreSorted ==
  ASSUME NEW needs \in AcceptedPlans
  PROVE  LET order == TopoSort(needs)
         IN  /\ order \in Seq(DOMAIN needs)
             /\ \A s \in DOMAIN needs : \E i \in 1 .. Len(order) : order[i] = s
             /\ \A i, j \in 1 .. Len(order) : order[i] = order[j] => i = j
             /\ \A i \in 1 .. Len(order) : \A d \in needs[order[i]] :
                  \E j \in 1 .. i - 1 : order[j] = d
<1> DEFINE order == TopoSort(needs)
<1>1. needs \in Seq(SUBSET Ids) /\ ValidDag(needs)
  BY AcceptedPointsBack DEF AcceptedPlans, Accepted
<1>2. DOMAIN needs = 1 .. Len(needs) /\ Len(needs) \in Int /\ 1 \in Int
  BY <1>1
<1>3. DOMAIN needs \subseteq Nat /\ IsFiniteSet(DOMAIN needs)
  BY <1>2, FS_Interval
<1>4. /\ order \in Seq(DOMAIN needs)
      /\ Range(order) = DOMAIN needs
      /\ Once(order)
      /\ DepsFirst(order, needs)
  BY <1>1, <1>3, TopoSortIsLinearExtension
<1>. HIDE DEF order
<1>5. DOMAIN order = 1 .. Len(order)
  BY <1>4
<1>6. \A s \in DOMAIN needs : \E i \in 1 .. Len(order) : order[i] = s
  BY <1>4, <1>5 DEF Range
<1>. QED
  BY <1>4, <1>6 DEF Once, DepsFirst, order

\* An answer that parses has no cycle longer than a step naming itself: with a
\* step that names another twice, that is all the validators of PlanStep and
\* Plan refuse.
THEOREM OnlySelfDepsAreRefused ==
  ASSUME NEW raw \in Answers, Parses(raw)
  PROVE  Accepted(raw) <=> \A i \in 1 .. Len(raw) :
                              i \notin DepsOf(raw)[i] /\ DepsUnique(raw[i].deps)
<1> DEFINE needs == DepsOf(raw)
<1>1. raw \in Seq(RawStep) /\ Len(raw) \in 1 .. MaxSteps /\ MaxSteps \in Nat
  BY StoreAssumption DEF Parses
<1>2. DOMAIN needs = 1 .. Len(raw) /\ Len(raw) \in Int /\ 1 \in Int
  BY <1>1 DEF DepsOf
<1>3. DOMAIN needs \subseteq Nat /\ IsFiniteSet(DOMAIN needs)
  BY <1>2, FS_Interval
<1>4. \A i \in 1 .. Len(raw) : needs[i] \subseteq 1 .. i
  <2>1. ASSUME NEW i \in 1 .. Len(raw), NEW d \in Range(raw[i].deps) PROVE d.n \in 1 .. i
    <3>1. GoodRef(d, i)
      BY DEF Parses
    <3>. QED
      BY <1>1, <3>1 DEF GoodRef
  <2>. QED
    BY <2>1 DEF DepsOf
<1>. HIDE DEF needs
<1>5. \A s \in DOMAIN needs : needs[s] \subseteq DOMAIN needs
  <2>1. \A i \in 1 .. Len(raw) : 1 .. i \subseteq 1 .. Len(raw)
    BY <1>2
  <2>. QED
    BY <1>2, <1>4, <2>1
<1>6. ASSUME \A i \in 1 .. Len(raw) : i \notin needs[i],
             NEW group \in (SUBSET DOMAIN needs) \ {{}}
      PROVE  \E s \in group : needs[s] \cap group = {}
  <2>1. group \subseteq Nat /\ group # {} /\ group \subseteq 1 .. Len(raw)
    BY <1>2, <1>3
  <2>2. PICK s \in group : \A u \in group : s <= u
    BY <2>1, LeastExists
  <2>3. ASSUME NEW d \in needs[s], d \in group PROVE FALSE
    <3>1. d \in 1 .. s /\ d # s /\ s \in Nat
      BY <1>4, <1>6, <2>1, <2>3
    <3>2. s <= d
      BY <2>2, <2>3
    <3>. QED
      BY <3>1, <3>2
  <2>. QED
    BY <2>3
<1>7. ValidDag(needs) <=> AcyclicGraph(needs)
  BY <1>3, <1>5, ValidatorIsExact
<1>8. (\A i \in 1 .. Len(raw) : i \notin needs[i]) => ValidDag(needs)
  BY <1>6, <1>7 DEF AcyclicGraph
<1>9. ValidDag(needs) => \A i \in 1 .. Len(raw) : i \notin needs[i]
  BY <1>2 DEF ValidDag
<1>. QED
  BY <1>8, <1>9 DEF Accepted, needs

\* What the steps about one plan leave alone.
LEMMA RowsUntouched ==
  ASSUME AnswerPointsBack, PlanIsWhole, DepsPointBack,
         UNCHANGED <<answer, row>>,
         \A q \in Commands : plan'[q] = "absent" <=> plan[q] = "absent"
  PROVE  AnswerPointsBack' /\ PlanIsWhole' /\ DepsPointBack'
<1>1. AnswerPointsBack'
  BY DEF AnswerPointsBack, IdsOf
<1>2. PlanIsWhole'
  BY DEF PlanIsWhole, IdsOf, RowsOf
<1>3. DepsPointBack'
  BY DEF DepsPointBack
<1>. QED
  BY <1>1, <1>2, <1>3

-----------------------------------------------------------------------------
LEMMA InvInit == Init => IInv
<1>. SUFFICES ASSUME Init PROVE IInv
  OBVIOUS
<1>1. TypeOK
  BY StoreAssumption DEF Init, TypeOK, NoRow, Ids
<1>2. AnswerPointsBack
  BY StoreAssumption DEF Init, AnswerPointsBack, IdsOf
<1>3. \A c \in Commands : PhaseOK(c)
  BY StoreAssumption DEF Init, PhaseOK
<1>4. PlanIsWhole
  BY StoreAssumption DEF Init, PlanIsWhole, RowsOf, NoRow
<1>5. DepsPointBack
  BY DEF Init, DepsPointBack, NoRow
<1>6. GoalMatchesPlan
  BY DEF Init, GoalMatchesPlan
<1>. QED
  BY <1>1, <1>2, <1>3, <1>4, <1>5, <1>6 DEF IInv

\* The steps that neither change an answer nor a row.
SmallStep(c) ==
  \/ CreateGoal(c) \/ Refuses(c) \/ DecomposeRaises(c) \/ GiveUp(c)
  \/ StoreRaises(c) \/ Confirm(c) \/ MarkRunning(c) \/ Execute(c)
  \/ AlreadyDone(c) \/ ExecuteReturns(c) \/ CloseGoal(c) \/ Resume(c)
  \/ ResumeReturns(c) \/ ResumeDies(c) \/ Crash(c)

LEMMA SmallSteps ==
  ASSUME IInv, NEW c \in Commands, SmallStep(c)
  PROVE  IInv'
<1>. DEFINE Kept == /\ TypeOK'
                    /\ \A q \in Commands : PhaseOK(q)'
                    /\ GoalMatchesPlan'
                    /\ UNCHANGED <<answer, row>>
                    /\ \A q \in Commands : plan'[q] = "absent" <=> plan[q] = "absent"
<1>. USE StoreAssumption DEF IInv
<1>1. ASSUME CreateGoal(c) PROVE Kept
  <2>1. TypeOK'
    BY <1>1 DEF TypeOK, CreateGoal, Moves, database, GoalStatus
  <2>2. \A q \in Commands : PhaseOK(q)'
    BY <1>1 DEF TypeOK, PhaseOK, CreateGoal, Moves, database
  <2>3. GoalMatchesPlan'
    BY <1>1 DEF TypeOK, PhaseOK, GoalMatchesPlan, CreateGoal, Moves, database
  <2>. QED
    BY <1>1, <2>1, <2>2, <2>3 DEF TypeOK, PhaseOK, CreateGoal, Moves, database
<1>2. ASSUME Refuses(c) PROVE Kept
  <2>1. TypeOK'
    <3>1. pc[c] = "decompose" /\ asked[c] + 1 \in 0 .. MaxAttempts
      BY <1>2 DEF TypeOK, Refuses, Moves, PhaseOK
    <3>. QED
      BY <1>2, <3>1 DEF TypeOK, Refuses, Moves, database
  <2>2. \A q \in Commands : PhaseOK(q)'
    BY <1>2 DEF TypeOK, PhaseOK, Refuses, Moves, database
  <2>3. GoalMatchesPlan'
    BY <1>2 DEF TypeOK, PhaseOK, GoalMatchesPlan, Refuses, Moves, database
  <2>. QED
    BY <1>2, <2>1, <2>2, <2>3 DEF TypeOK, PhaseOK, Refuses, Moves, database
<1>3. ASSUME DecomposeRaises(c) PROVE Kept
  <2>1. TypeOK'
    BY <1>3 DEF TypeOK, DecomposeRaises, Moves, database
  <2>2. \A q \in Commands : PhaseOK(q)'
    BY <1>3 DEF TypeOK, PhaseOK, DecomposeRaises, Moves, database
  <2>3. GoalMatchesPlan'
    BY <1>3 DEF TypeOK, PhaseOK, GoalMatchesPlan, DecomposeRaises, Moves, database
  <2>. QED
    BY <1>3, <2>1, <2>2, <2>3 DEF TypeOK, PhaseOK, DecomposeRaises, Moves, database
<1>4. ASSUME GiveUp(c) PROVE Kept
  <2>1. TypeOK'
    BY <1>4 DEF TypeOK, GiveUp, Moves, database, GoalStatus
  <2>2. \A q \in Commands : PhaseOK(q)'
    BY <1>4 DEF TypeOK, PhaseOK, GiveUp, Moves, database
  <2>3. GoalMatchesPlan'
    BY <1>4 DEF TypeOK, PhaseOK, GoalMatchesPlan, GiveUp, Moves, database
  <2>. QED
    BY <1>4, <2>1, <2>2, <2>3 DEF TypeOK, PhaseOK, GiveUp, Moves, database
<1>5. ASSUME StoreRaises(c) PROVE Kept
  <2>1. TypeOK'
    BY <1>5 DEF TypeOK, StoreRaises, Moves, database
  <2>2. \A q \in Commands : PhaseOK(q)'
    BY <1>5 DEF TypeOK, PhaseOK, StoreRaises, Moves, database
  <2>3. GoalMatchesPlan'
    BY <1>5 DEF TypeOK, PhaseOK, GoalMatchesPlan, StoreRaises, Moves, database
  <2>. QED
    BY <1>5, <2>1, <2>2, <2>3 DEF TypeOK, PhaseOK, StoreRaises, Moves, database
<1>6. ASSUME Confirm(c) PROVE Kept
  <2>1. TypeOK'
    BY <1>6 DEF TypeOK, Confirm, Moves, database
  <2>2. \A q \in Commands : PhaseOK(q)'
    BY <1>6 DEF TypeOK, PhaseOK, Confirm, Moves, database
  <2>3. GoalMatchesPlan'
    BY <1>6 DEF TypeOK, PhaseOK, GoalMatchesPlan, Confirm, Moves, database
  <2>. QED
    BY <1>6, <2>1, <2>2, <2>3 DEF TypeOK, PhaseOK, Confirm, Moves, database
<1>7. ASSUME MarkRunning(c) PROVE Kept
  <2>1. TypeOK'
    BY <1>7 DEF TypeOK, MarkRunning, Moves, database, GoalStatus
  <2>2. \A q \in Commands : PhaseOK(q)'
    BY <1>7 DEF TypeOK, PhaseOK, MarkRunning, Moves, database
  <2>3. GoalMatchesPlan'
    BY <1>7 DEF TypeOK, PhaseOK, GoalMatchesPlan, MarkRunning, Moves, database
  <2>. QED
    BY <1>7, <2>1, <2>2, <2>3 DEF TypeOK, PhaseOK, MarkRunning, Moves, database
<1>8. ASSUME Execute(c) PROVE Kept
  <2>1. TypeOK'
    BY <1>8 DEF TypeOK, Execute, Open, Moves, database, PlanStatus
  <2>2. \A q \in Commands : PhaseOK(q)'
    BY <1>8 DEF TypeOK, PhaseOK, Execute, Open, Moves, database
  <2>3. GoalMatchesPlan'
    BY <1>8 DEF TypeOK, PhaseOK, GoalMatchesPlan, Execute, Open, Moves, database
  <2>. QED
    BY <1>8, <2>1, <2>2, <2>3 DEF TypeOK, PhaseOK, Execute, Open, Moves, database
<1>9. ASSUME AlreadyDone(c) PROVE Kept
  <2>1. TypeOK'
    BY <1>9 DEF TypeOK, AlreadyDone, Moves, database
  <2>2. \A q \in Commands : PhaseOK(q)'
    BY <1>9 DEF TypeOK, PhaseOK, AlreadyDone, Moves, database
  <2>3. GoalMatchesPlan'
    BY <1>9 DEF TypeOK, PhaseOK, GoalMatchesPlan, AlreadyDone, Moves, database
  <2>. QED
    BY <1>9, <2>1, <2>2, <2>3 DEF TypeOK, PhaseOK, AlreadyDone, Moves, database
<1>10. ASSUME ExecuteReturns(c) PROVE Kept
  <2>1. TypeOK'
    BY <1>10 DEF TypeOK, ExecuteReturns, Close, Moves, database, PlanStatus
  <2>2. \A q \in Commands : PhaseOK(q)'
    BY <1>10 DEF TypeOK, PhaseOK, ExecuteReturns, Close, Moves, database
  <2>3. GoalMatchesPlan'
    BY <1>10 DEF TypeOK, PhaseOK, GoalMatchesPlan, ExecuteReturns, Close, Moves, database
  <2>. QED
    BY <1>10, <2>1, <2>2, <2>3 DEF TypeOK, PhaseOK, ExecuteReturns, Close, Moves, database
<1>11. ASSUME CloseGoal(c) PROVE Kept
  <2>1. TypeOK'
    BY <1>11 DEF TypeOK, CloseGoal, Moves, database, GoalStatus
  <2>2. \A q \in Commands : PhaseOK(q)'
    BY <1>11 DEF TypeOK, PhaseOK, CloseGoal, Moves, database
  <2>3. GoalMatchesPlan'
    BY <1>11 DEF TypeOK, PhaseOK, GoalMatchesPlan, CloseGoal, Moves, database
  <2>. QED
    BY <1>11, <2>1, <2>2, <2>3 DEF TypeOK, PhaseOK, CloseGoal, Moves, database
<1>12. ASSUME Resume(c) PROVE Kept
  <2>1. TypeOK'
    BY <1>12 DEF TypeOK, Resume, Open, database, PlanStatus
  <2>2. \A q \in Commands : PhaseOK(q)'
    BY <1>12 DEF TypeOK, PhaseOK, Resume, Open, database
  <2>3. GoalMatchesPlan'
    BY <1>12 DEF TypeOK, PhaseOK, GoalMatchesPlan, Resume, Open, database
  <2>. QED
    BY <1>12, <2>1, <2>2, <2>3 DEF TypeOK, PhaseOK, Resume, Open, database
<1>13. ASSUME ResumeReturns(c) PROVE Kept
  <2>1. TypeOK'
    BY <1>13 DEF TypeOK, ResumeReturns, Close, database, PlanStatus
  <2>2. \A q \in Commands : PhaseOK(q)'
    BY <1>13 DEF TypeOK, PhaseOK, ResumeReturns, Close, database
  <2>4. plan[c] = "in_progress" /\ plan'[c] # "absent"
    BY <1>13 DEF TypeOK, PhaseOK, ResumeReturns, Close
  <2>5. \A q \in Commands : q # c => plan'[q] = plan[q]
    BY <1>13 DEF TypeOK, ResumeReturns, Close
  <2>6. goal' = goal /\ plan'[c] \in {"done", "failed"}
    BY <1>13 DEF TypeOK, ResumeReturns, Close
  <2>3. GoalMatchesPlan'
    <3>1. goal[c] # "done"
      BY <2>4 DEF GoalMatchesPlan
    <3>. QED
      BY <2>4, <2>5, <2>6, <3>1 DEF GoalMatchesPlan
  <2>. QED
    BY <1>13, <2>1, <2>2, <2>3, <2>4, <2>5 DEF ResumeReturns
<1>14. ASSUME ResumeDies(c) PROVE Kept
  <2>1. TypeOK'
    <3>1. plan[c] \in PlanStatus \cup {"absent"}
      BY DEF TypeOK
    <3>. QED
      BY <1>14, <3>1 DEF TypeOK, ResumeDies, Close
  <2>2. \A q \in Commands : PhaseOK(q)'
    BY <1>14 DEF TypeOK, PhaseOK, ResumeDies, Close, database
  <2>3. GoalMatchesPlan'
    BY <1>14 DEF TypeOK, PhaseOK, GoalMatchesPlan, ResumeDies, Close, database
  <2>. QED
    BY <1>14, <2>1, <2>2, <2>3 DEF TypeOK, PhaseOK, ResumeDies, Close, database
<1>15. ASSUME Crash(c) PROVE Kept
  <2>1. TypeOK'
    BY <1>15 DEF TypeOK, Crash, IsLive, database
  <2>2. \A q \in Commands : PhaseOK(q)'
    BY <1>15 DEF TypeOK, PhaseOK, Crash, IsLive, database
  <2>3. GoalMatchesPlan'
    BY <1>15 DEF TypeOK, PhaseOK, GoalMatchesPlan, Crash, IsLive, database
  <2>. QED
    BY <1>15, <2>1, <2>2, <2>3 DEF TypeOK, PhaseOK, Crash, IsLive, database
<1>. QED
  <2>1. Kept
    BY <1>1, <1>2, <1>3, <1>4, <1>5, <1>6, <1>7, <1>8, <1>9, <1>10, <1>11, <1>12, <1>13,
       <1>14, <1>15 DEF SmallStep
  <2>. QED
    BY <2>1, RowsUntouched

-----------------------------------------------------------------------------
(* The two steps that write an answer and its rows.                         *)

LEMMA DecomposesStep ==
  ASSUME IInv, NEW c \in Commands, Decomposes(c)
  PROVE  IInv'
<1>. USE StoreAssumption DEF IInv
<1>1. PICK needs \in AcceptedPlans : answer' = [answer EXCEPT ![c] = needs]
  BY DEF Decomposes
<1>2. /\ needs \in Seq(SUBSET Ids)
      /\ Len(needs) <= MaxSteps
      /\ \A i \in 1 .. Len(needs) : \A d \in needs[i] : d < i
  BY <1>1, AcceptedPointsBack
<1>3. pc[c] = "decompose" /\ plan[c] = "absent" /\ asked[c] + 1 \in 0 .. MaxAttempts
  BY DEF TypeOK, PhaseOK, Decomposes, Moves
<1>4. answer'[c] = needs /\ \A q \in Commands : q # c => answer'[q] = answer[q]
  BY <1>1 DEF TypeOK
<1>5. TypeOK'
  BY <1>1, <1>2, <1>3 DEF TypeOK, Decomposes, Moves, database
<1>6. AnswerPointsBack'
  BY <1>2, <1>4 DEF AnswerPointsBack, IdsOf
<1>7. \A q \in Commands : PhaseOK(q)'
  BY <1>3 DEF TypeOK, PhaseOK, Decomposes, Moves, database
<1>8. PlanIsWhole'
  BY <1>3, <1>4 DEF PlanIsWhole, RowsOf, IdsOf, Decomposes, database
<1>9. DepsPointBack' /\ GoalMatchesPlan'
  BY DEF DepsPointBack, GoalMatchesPlan, Decomposes, database
<1>. QED
  BY <1>5, <1>6, <1>7, <1>8, <1>9

LEMMA StorePlanStep ==
  ASSUME IInv, NEW c \in Commands, StorePlan(c)
  PROVE  IInv'
<1>. USE StoreAssumption DEF IInv
<1>1. /\ pc[c] = "store" /\ plan[c] = "absent"
      /\ plan'[c] = "pending" /\ \A q \in Commands : q # c => plan'[q] = plan[q]
  BY DEF TypeOK, PhaseOK, StorePlan, Moves
<1>2. IdsOf(c) \subseteq Ids /\ IdsOf(c)' = IdsOf(c)
  BY DEF TypeOK, AnswerPointsBack, IdsOf, Ids, StorePlan
<1>3. \A i \in IdsOf(c) : answer[c][i] \in SUBSET Ids /\ \A d \in answer[c][i] : d \in IdsOf(c) /\ d < i
  <2>1. answer[c] \in Seq(SUBSET Ids)
    BY DEF TypeOK
  <2>. QED
    BY <2>1 DEF AnswerPointsBack, IdsOf, Ids
<1>4. /\ \A i \in IdsOf(c) : row'[i].plan = c /\ row'[i].deps = answer[c][i]
      /\ \A i \in Ids \ IdsOf(c) : row'[i] = row[i]
  <2>1. ASSUME NEW i \in IdsOf(c) PROVE row'[i].plan = c /\ row'[i].deps = answer[c][i]
    <3>1. row'[i] = [plan |-> c, deps |-> answer[c][i]]
      BY <1>2 DEF StorePlan
    <3>. QED
      BY <3>1
  <2>2. \A i \in Ids \ IdsOf(c) : row'[i] = row[i]
    BY <1>2 DEF StorePlan
  <2>. QED
    BY <2>1, <2>2
<1>5. \A i \in IdsOf(c) : row[i].plan = NoOne
  BY DEF StorePlan, IdsAreFree
<1>6. TypeOK'
  <2>1. row' \in [Ids -> [plan : Commands \cup {NoOne}, deps : SUBSET Ids]]
    BY <1>3 DEF TypeOK, StorePlan
  <2>. QED
    BY <2>1 DEF TypeOK, StorePlan, Moves, PlanStatus
<1>7. AnswerPointsBack'
  BY DEF AnswerPointsBack, IdsOf, StorePlan
<1>8. \A q \in Commands : PhaseOK(q)'
  BY DEF TypeOK, PhaseOK, StorePlan, Moves
<1>9. PlanIsWhole'
  <2>. SUFFICES ASSUME NEW q \in Commands
                PROVE  /\ plan'[q] = "absent" => RowsOf(q)' = {}
                       /\ plan'[q] # "absent" =>
                            /\ RowsOf(q)' = IdsOf(q)'
                            /\ \A i \in IdsOf(q)' : row'[i].deps = answer'[q][i]
    BY DEF PlanIsWhole
  <2>1. CASE q = c
    <3>1. RowsOf(c) = {}
      BY <1>1 DEF PlanIsWhole
    <3>2. RowsOf(c)' = IdsOf(c)
      <4>1. \A i \in IdsOf(c) : row'[i].plan = c
        BY <1>4
      <4>2. \A i \in Ids \ IdsOf(c) : row'[i].plan # c
        BY <1>4, <3>1 DEF RowsOf
      <4>. QED
        BY <1>2, <4>1, <4>2 DEF RowsOf
    <3>3. answer' = answer /\ \A i \in IdsOf(c) : row'[i].deps = answer[c][i]
      BY <1>4 DEF StorePlan
    <3>. QED
      BY <1>1, <1>2, <2>1, <3>2, <3>3
  <2>2. CASE q # c
    <3>1. RowsOf(q)' = RowsOf(q) /\ RowsOf(q) \cap IdsOf(c) = {}
      <4>1. \A i \in IdsOf(c) : row'[i].plan # q /\ row[i].plan # q
        BY <1>4, <1>5, <2>2
      <4>. QED
        BY <1>4, <4>1 DEF RowsOf
    <3>2. IdsOf(q)' = IdsOf(q) /\ answer' = answer /\ plan'[q] = plan[q]
      BY <1>1, <2>2 DEF IdsOf, StorePlan
    <3>3. \A i \in RowsOf(q) : row'[i] = row[i]
      BY <1>4, <3>1 DEF RowsOf
    <3>. QED
      BY <3>1, <3>2, <3>3 DEF PlanIsWhole
  <2>. QED
    BY <2>1, <2>2
<1>10. DepsPointBack'
  <2>. SUFFICES ASSUME NEW i \in Ids, row'[i].plan # NoOne, NEW d \in row'[i].deps
                PROVE  d < i /\ row'[d].plan = row'[i].plan
    BY DEF DepsPointBack
  <2>1. CASE i \in IdsOf(c)
    <3>1. row'[i].plan = c /\ row'[i].deps = answer[c][i]
      BY <1>4, <2>1
    <3>2. d \in IdsOf(c) /\ d < i
      BY <1>3, <2>1, <3>1
    <3>3. row'[d].plan = c
      BY <1>4, <3>2
    <3>. QED
      BY <3>1, <3>2, <3>3
  <2>2. CASE i \notin IdsOf(c)
    <3>1. row'[i] = row[i] /\ d < i /\ row[d].plan = row[i].plan /\ d \in Ids
      BY <1>4, <2>2 DEF DepsPointBack, TypeOK
    <3>2. d \notin IdsOf(c)
      BY <1>5, <3>1
    <3>. QED
      BY <1>4, <3>1, <3>2
  <2>. QED
    BY <2>1, <2>2
<1>11. GoalMatchesPlan'
  BY <1>1 DEF GoalMatchesPlan, PhaseOK, StorePlan
<1>. QED
  BY <1>6, <1>7, <1>8, <1>9, <1>10, <1>11

-----------------------------------------------------------------------------
LEMMA InvStep == IInv /\ [Next]_vars => IInv'
<1>. SUFFICES ASSUME IInv, [Next]_vars PROVE IInv'
  OBVIOUS
<1>1. CASE UNCHANGED vars
  <2>. USE <1>1 DEF IInv, vars
  <2>1. TypeOK'
    BY DEF TypeOK
  <2>2. \A q \in Commands : PhaseOK(q)'
    BY DEF PhaseOK
  <2>3. GoalMatchesPlan'
    BY DEF GoalMatchesPlan
  <2>4. AnswerPointsBack' /\ PlanIsWhole' /\ DepsPointBack'
    BY RowsUntouched
  <2>. QED
    BY <2>1, <2>2, <2>3, <2>4
<1>2. ASSUME NEW c \in Commands, SmallStep(c)
      PROVE  IInv'
  BY <1>2, SmallSteps
<1>3. ASSUME NEW c \in Commands, Decomposes(c) \/ StorePlan(c)
      PROVE  IInv'
  BY <1>3, DecomposesStep, StorePlanStep
<1>4. ASSUME Next PROVE IInv'
  <2>1. PICK c \in Commands : Advance(c) \/ CreateGoal(c) \/ Confirm(c)
                             \/ Resume(c) \/ ResumeDies(c) \/ Crash(c)
    BY <1>4 DEF Next
  <2>2. SmallStep(c) \/ Decomposes(c) \/ StorePlan(c)
    BY <2>1 DEF Advance, SmallStep
  <2>. QED
    BY <1>2, <1>3, <2>2
<1>. QED
  BY <1>1, <1>4

\* The invariant the three theorems below are read off.
THEOREM Invariant == Spec => []IInv
BY InvInit, InvStep, PTL DEF Spec

\* Every variable keeps its type; no more than MaxAttempts answers are asked
\* for.
THEOREM TypeCorrect == Spec => []TypeOK
BY Invariant, PTL DEF IInv

\* create_plan stores a plan with all its steps or not at all.
THEOREM PlansAreWhole == Spec => []PlanIsWhole
BY Invariant, PTL DEF IInv

\* The deps of a stored step are earlier steps of the same plan.
THEOREM DepsAlwaysPointBack == Spec => []DepsPointBack
BY Invariant, PTL DEF IInv

\* A goal never says more than its plan.
THEOREM GoalsMatchPlans == Spec => []GoalMatchesPlan
BY Invariant, PTL DEF IInv

-----------------------------------------------------------------------------
(* The steps: what they leave alone, and where they lead.                   *)

\* Only storing a plan writes rows, and it finds them free.
THEOREM StoredRowsNeverChange == Spec => StoredRowsStay
<1>1. IInv /\ [Next]_vars => \A i \in Ids : row[i].plan # NoOne => row'[i] = row[i]
  <2> SUFFICES ASSUME IInv, [Next]_vars, NEW i \in Ids, row[i].plan # NoOne
               PROVE  row'[i] = row[i]
    OBVIOUS
  <2>1. CASE UNCHANGED row
    BY <2>1
  <2>2. ASSUME NEW c \in Commands, StorePlan(c) PROVE row'[i] = row[i]
    <3>1. i \notin IdsOf(c)
      BY <2>2 DEF StorePlan, IdsAreFree
    <3>. QED
      BY <2>2, <3>1 DEF StorePlan
  <2>3. ASSUME NEW c \in Commands, Decomposes(c) \/ SmallStep(c) PROVE UNCHANGED row
    BY <2>3 DEF Decomposes, SmallStep, CreateGoal, Refuses, DecomposeRaises, GiveUp,
                StoreRaises, Confirm, MarkRunning, Execute, AlreadyDone, ExecuteReturns,
                CloseGoal, Resume, ResumeReturns, ResumeDies, Crash, database
  <2>4. CASE UNCHANGED vars
    BY <2>4 DEF vars
  <2>5. CASE Next
    <3>1. PICK c \in Commands : Advance(c) \/ CreateGoal(c) \/ Confirm(c)
                               \/ Resume(c) \/ ResumeDies(c) \/ Crash(c)
      BY <2>5 DEF Next
    <3>2. SmallStep(c) \/ Decomposes(c) \/ StorePlan(c)
      BY <3>1 DEF Advance, SmallStep
    <3>. QED
      BY <2>2, <2>3, <3>2
  <2>. QED
    BY <2>4, <2>5
<1>. QED
  BY <1>1, Invariant, PTL DEF Spec, StoredRowsStay

\* A step about another plan, or one that leaves the plan and its executor.
LEMMA SeamRests ==
  ASSUME NEW c \in Commands, plan'[c] = plan[c], executor'[c] = executor[c]
  PROVE  UNCHANGED <<plan[c], executor[c] # "nobody">>
OBVIOUS

LEMMA OthersRest ==
  ASSUME IInv, NEW c \in Commands, NEW d \in Commands, c # d,
         SmallStep(d) \/ Decomposes(d) \/ StorePlan(d)
  PROVE  plan'[c] = plan[c] /\ executor'[c] = executor[c]
         /\ pc'[c] = pc[c] /\ asked'[c] = asked[c]
<1>1. /\ plan' = plan \/ \E x : plan' = [plan EXCEPT ![d] = x]
      /\ executor' = executor \/ \E x : executor' = [executor EXCEPT ![d] = x]
      /\ pc' = pc \/ \E x : pc' = [pc EXCEPT ![d] = x]
      /\ asked' = asked \/ \E x : asked' = [asked EXCEPT ![d] = x]
  BY DEF SmallStep, CreateGoal, Refuses, DecomposeRaises, GiveUp, StoreRaises, Confirm,
         MarkRunning, Execute, AlreadyDone, ExecuteReturns, CloseGoal, Resume,
         ResumeReturns, ResumeDies, Crash, Decomposes, StorePlan, Moves, Open, Close,
         database
<1>. QED
  BY <1>1 DEF IInv, TypeOK

LEMMA ExecutionStep ==
  ASSUME IInv, [Next]_vars, NEW c \in Commands
  PROVE  Execution(c)!Next \/ UNCHANGED <<plan[c], executor[c] # "nobody">>
<1> DEFINE Goal == Execution(c)!Next \/ UNCHANGED <<plan[c], executor[c] # "nobody">>
<1> USE DEF IInv
<1>1. CASE UNCHANGED vars
  BY <1>1 DEF vars
<1>2. ASSUME NEW d \in Commands, d # c, SmallStep(d) \/ Decomposes(d) \/ StorePlan(d)
      PROVE  Goal
  BY <1>2, OthersRest, SeamRests
<1>3. CASE Decomposes(c) \/ CreateGoal(c) \/ Refuses(c) \/ DecomposeRaises(c) \/ GiveUp(c)
           \/ StoreRaises(c) \/ Confirm(c) \/ MarkRunning(c) \/ AlreadyDone(c) \/ CloseGoal(c)
  BY <1>3, SeamRests
  DEF Decomposes, CreateGoal, Refuses, DecomposeRaises, GiveUp, StoreRaises, Confirm,
      MarkRunning, AlreadyDone, CloseGoal, database
<1>4. CASE StorePlan(c)
  <2>1. plan[c] = "absent" /\ executor[c] = "nobody" /\ plan'[c] = "pending"
        /\ executor'[c] = "nobody"
    BY <1>4 DEF StorePlan, Moves, PhaseOK, TypeOK
  <2>. QED
    BY <2>1 DEF Execution!Next, Execution!Store
<1>5. CASE Execute(c) \/ Resume(c)
  <2>1. PICK who \in {"command", "resume"} : Open(c, who)
    BY <1>5 DEF Execute, Resume
  <2>2. executor[c] = "nobody" /\ plan[c] \notin {"absent", "done"}
        /\ plan'[c] = "in_progress" /\ executor'[c] = who
    BY <2>1 DEF Open, TypeOK
  <2>. QED
    BY <2>2 DEF Execution!Next, Execution!Open
<1>6. CASE ExecuteReturns(c) \/ ResumeReturns(c)
  <2>1. PICK who \in {"command", "resume"}, status \in {"done", "failed"} : Close(c, who, status)
    BY <1>6 DEF ExecuteReturns, ResumeReturns
  <2>2. executor[c] = who /\ plan'[c] = status /\ executor'[c] = "nobody"
    BY <2>1 DEF Close, TypeOK
  <2>3. plan[c] = "in_progress"
    BY <2>2 DEF PhaseOK
  <2>. QED
    BY <2>2, <2>3 DEF Execution!Next, Execution!Close
<1>7. CASE ResumeDies(c)
  <2>1. executor[c] = "resume" /\ plan'[c] = plan[c] /\ executor'[c] = "nobody"
    BY <1>7 DEF ResumeDies, Close, TypeOK
  <2>2. plan[c] = "in_progress"
    BY <2>1 DEF PhaseOK
  <2>. QED
    BY <2>1, <2>2 DEF Execution!Next, Execution!Abandon
<1>8. CASE Crash(c)
  <2>1. CASE pc[c] = "executing"
    <3>1. executor[c] = "command" /\ executor'[c] = "nobody" /\ plan'[c] = plan[c]
      BY <1>8, <2>1 DEF Crash, database, PhaseOK, TypeOK
    <3>2. plan[c] = "in_progress"
      BY <3>1 DEF PhaseOK
    <3>. QED
      BY <3>1, <3>2 DEF Execution!Next, Execution!Abandon
  <2>2. CASE pc[c] # "executing"
    BY <1>8, <2>2, SeamRests DEF Crash, database, TypeOK
  <2>. QED
    BY <2>1, <2>2
<1>9. CASE Next
  <2>1. PICK d \in Commands : Advance(d) \/ CreateGoal(d) \/ Confirm(d)
                             \/ Resume(d) \/ ResumeDies(d) \/ Crash(d)
    BY <1>9 DEF Next
  <2>2. SmallStep(d) \/ Decomposes(d) \/ StorePlan(d)
    BY <2>1 DEF Advance, SmallStep
  <2>3. CASE d # c
    BY <1>2, <2>2, <2>3
  <2>4. CASE d = c
    BY <1>3, <1>4, <1>5, <1>6, <1>7, <1>8, <2>2, <2>4 DEF SmallStep
  <2>. QED
    BY <2>3, <2>4
<1>. QED
  BY <1>1, <1>9

\* The commands and the resumes treat every plan as PlanExecution says: none is
\* opened under another execution or after it is done, and a crash leaves it
\* open.  PlanRunnerProofs shows that execute is such an execution.
THEOREM PlansFollowExecution == Spec => ImplementsExecution
<1>1. Init => \A c \in Commands : Execution(c)!Init
  BY DEF Init, Execution!Init
<1>2. IInv /\ [Next]_vars =>
        [\A c \in Commands :
           Execution(c)!Next \/ UNCHANGED <<plan[c], executor[c] # "nobody">>]_vars
  BY ExecutionStep
<1>. QED
  BY <1>1, <1>2, Invariant, PTL DEF Spec, ImplementsExecution

\* The same for one plan, as the refinement it is.
THEOREM EachPlanIsAnExecution ==
  ASSUME NEW c \in Commands
  PROVE  Spec => Execution(c)!Spec
<1>1. Init => Execution(c)!Init
  BY DEF Init, Execution!Init
<1>2. IInv /\ [Next]_vars => [Execution(c)!Next]_(Execution(c)!execution)
  BY ExecutionStep DEF Execution!execution
<1>. QED
  BY <1>1, <1>2, Invariant, PTL DEF Spec, Execution!Spec

\* A command that has begun decomposing goes through at most MaxAttempts answers
\* and then once through its other steps, whatever becomes of its plan.
THEOREM CommandAlwaysBounded ==
  Spec => CommandIsBounded /\ [](\A c \in Commands : StepsLeft(c) \in Nat)
<1>1. IInv /\ [Next]_vars => \A c \in Commands :
        \/ UNCHANGED <<pc[c], asked[c]>>
        \/ CreateGoal(c)
        \/ StepsLeft(c)' < StepsLeft(c)
  <2> SUFFICES ASSUME IInv, [Next]_vars, NEW c \in Commands,
                      ~UNCHANGED <<pc[c], asked[c]>>, ~CreateGoal(c)
               PROVE  StepsLeft(c)' < StepsLeft(c)
    OBVIOUS
  <2>1. /\ MaxAttempts \in Nat /\ asked[c] \in 0 .. MaxAttempts
        /\ pc[c] = "decompose" => asked[c] < MaxAttempts
    BY StoreAssumption DEF IInv, TypeOK, PhaseOK
  <2>2. PICK d \in Commands : Advance(d) \/ CreateGoal(d) \/ Confirm(d)
                             \/ Resume(d) \/ ResumeDies(d) \/ Crash(d)
    BY DEF Next, vars
  <2>3. SmallStep(d) \/ Decomposes(d) \/ StorePlan(d)
    BY <2>2 DEF Advance, SmallStep
  <2>4. d = c
    BY <2>3, OthersRest
  <2>5. CASE Refuses(c)
    <3>1. /\ pc[c] = "decompose" /\ asked'[c] = asked[c] + 1
          /\ \/ asked[c] + 1 < MaxAttempts /\ pc'[c] = "decompose"
             \/ pc'[c] = "give_up"
      BY <2>5 DEF Refuses, Moves, IInv, TypeOK
    <3>. QED
      BY <2>1, <3>1 DEF StepsLeft
  <2>6. CASE Decomposes(c) \/ DecomposeRaises(c)
    <3>1. pc[c] = "decompose" /\ pc'[c] \in {"store", "give_up"}
      BY <2>6 DEF Decomposes, DecomposeRaises, Moves, IInv, TypeOK
    <3>. QED
      BY <2>1, <3>1 DEF StepsLeft
  <2>7. CASE GiveUp(c)
    BY <2>7 DEF GiveUp, Moves, IInv, TypeOK, StepsLeft
  <2>8. CASE StorePlan(c) \/ StoreRaises(c)
    <3>1. pc[c] = "store" /\ pc'[c] \in {"confirm", "dead"}
      BY <2>8 DEF StorePlan, StoreRaises, Moves, IInv, TypeOK
    <3>. QED
      BY <3>1 DEF StepsLeft
  <2>9. CASE Confirm(c)
    <3>1. pc[c] = "confirm" /\ pc'[c] \in {"mark", "ended"}
      BY <2>9 DEF Confirm, Moves, IInv, TypeOK
    <3>. QED
      BY <3>1 DEF StepsLeft
  <2>10. CASE MarkRunning(c)
    BY <2>10 DEF MarkRunning, Moves, IInv, TypeOK, StepsLeft
  <2>11. CASE Execute(c) \/ AlreadyDone(c)
    <3>1. pc[c] = "execute" /\ pc'[c] \in {"executing", "close"}
      BY <2>11 DEF Execute, AlreadyDone, Moves, IInv, TypeOK
    <3>. QED
      BY <3>1 DEF StepsLeft
  <2>12. CASE ExecuteReturns(c)
    BY <2>12 DEF ExecuteReturns, Moves, IInv, TypeOK, StepsLeft
  <2>13. CASE CloseGoal(c)
    BY <2>13 DEF CloseGoal, Moves, IInv, TypeOK, StepsLeft
  <2>14. CASE Crash(c)
    <3>1. /\ pc[c] \in {"decompose", "give_up", "store", "confirm", "mark", "execute",
                        "executing", "close"}
          /\ pc'[c] = "dead"
      BY <2>14 DEF Crash, IsLive, IInv, TypeOK
    <3>. QED
      BY <2>1, <3>1 DEF StepsLeft
  <2>15. CASE Resume(c) \/ ResumeReturns(c) \/ ResumeDies(c)
    BY <2>15 DEF Resume, ResumeReturns, ResumeDies
  <2>. QED
    BY <2>3, <2>4, <2>5, <2>6, <2>7, <2>8, <2>9, <2>10, <2>11, <2>12, <2>13, <2>14, <2>15
    DEF SmallStep
<1>2. IInv /\ [Next]_vars =>
        [\A c \in Commands :
           \/ UNCHANGED <<pc[c], asked[c]>>
           \/ CreateGoal(c)
           \/ StepsLeft(c)' < StepsLeft(c)]_vars
  BY <1>1
<1>3. IInv => \A c \in Commands : StepsLeft(c) \in Nat
  <2> SUFFICES ASSUME IInv, NEW c \in Commands PROVE StepsLeft(c) \in Nat
    OBVIOUS
  <2>1. MaxAttempts \in Nat /\ asked[c] \in 0 .. MaxAttempts
    BY StoreAssumption DEF IInv, TypeOK
  <2>2. 7 + (MaxAttempts - asked[c]) \in Nat
    BY <2>1
  <2>. QED
    BY <2>2 DEF StepsLeft
<1>. QED
  BY <1>2, <1>3, Invariant, PTL DEF Spec, CommandIsBounded

=============================================================================
