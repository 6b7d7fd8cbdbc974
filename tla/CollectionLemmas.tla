-------------------------- MODULE CollectionLemmas --------------------------
(***************************************************************************)
(* Facts about numbers, finite sets, sums and sequences that the proofs    *)
(* about the components rest on.  An induction is over a set of naturals   *)
(* here: what is to be shown of every n makes the set.                     *)
(***************************************************************************)
EXTENDS Integers, Sequences, FiniteSets, FiniteSetsExt, Functions, TLAPS, FiniteSetTheorems,
        WellFoundedInduction, SequenceTheorems

(* A set of naturals that is not empty has a least one.                    *)
LEMMA LeastIn ==
    ASSUME NEW T \in SUBSET Nat, T # {}
    PROVE  \E x \in T : \A y \in T : x <= y
<1>1. PICK x \in T : \A y \in T : ~ (<<y, x>> \in OpToRel(<, Nat))
  BY NatLessThanWellFounded, WFMin
<1>2. \A y \in T : ~ (y < x)
  BY <1>1 DEF OpToRel
<1> QED
  BY <1>2

(* Induction, for a property that is given by the set of those that have   *)
(* it.                                                                     *)
LEMMA NatInduct ==
    ASSUME NEW T \in SUBSET Nat, 0 \in T, \A n \in T : n + 1 \in T
    PROVE  T = Nat
<1> SUFFICES ASSUME Nat \ T # {} PROVE FALSE
  OBVIOUS
<1>1. PICK x \in Nat \ T : \A y \in Nat \ T : x <= y
  BY LeastIn
<1>2. x - 1 \in T /\ x - 1 \in Nat
  BY <1>1
<1> QED
  BY <1>1, <1>2

(* A set of row numbers that is not empty has a greatest one.              *)
LEMMA GreatestIn ==
    ASSUME NEW n \in Nat, NEW R \in SUBSET (0 .. n), R # {}
    PROVE  Max(R) \in R /\ \A q \in R : q <= Max(R)
<1> DEFINE T == {k \in Nat : \A r \in R : r <= k}
<1>1. T \in SUBSET Nat /\ n \in T
  OBVIOUS
<1>2. PICK m \in T : \A k \in T : m <= k
  <2> HIDE DEF T
  <2> QED
    BY <1>1, LeastIn
<1>3. m \in R
  <2> SUFFICES ASSUME m \notin R PROVE FALSE
    OBVIOUS
  <2>1. PICK r \in R : TRUE
    OBVIOUS
  <2>2. m - 1 \in T
    BY <1>2, <2>1
  <2> QED
    BY <1>2, <2>2
<1>4. \E y \in R : \A q \in R : y >= q
  BY <1>2, <1>3
<1>5. Max(R) \in R /\ \A q \in R : Max(R) >= q
  BY <1>4 DEF Max
<1> QED
  BY <1>5

-----------------------------------------------------------------------------
(* An element before a sequence.                                           *)
LEMMA PrependIs ==
    ASSUME NEW S, NEW e \in S, NEW t \in Seq(S), NEW u \in Seq(S), Len(u) = Len(t) + 1,
           u[1] = e, \A i \in 1 .. Len(t) : u[i + 1] = t[i]
    PROVE  <<e>> \o t = u
<1> DEFINE s == <<e>>
<1>1. s \in Seq(S) /\ Len(s) = 1 /\ s[1] = e
  OBVIOUS
<1> HIDE DEF s
<1>2. /\ s \o t \in Seq(S)
      /\ Len(s \o t) = Len(s) + Len(t)
      /\ \A i \in 1 .. Len(s) + Len(t) : (s \o t)[i] = IF i <= Len(s) THEN s[i] ELSE t[i - Len(s)]
  BY <1>1, ConcatProperties
<1>3. ASSUME NEW i \in 1 .. Len(u) PROVE (s \o t)[i] = u[i]
  <2>1. CASE i = 1
    BY <1>1, <1>2, <2>1
  <2>2. CASE i # 1
    <3>1. i - 1 \in 1 .. Len(t) /\ u[(i - 1) + 1] = t[i - 1] /\ (i - 1) + 1 = i
      BY <2>2
    <3> QED
      BY <1>1, <1>2, <2>2, <3>1
  <2> QED
    BY <2>1, <2>2
<1>4. s \o t = u
  BY <1>1, <1>2, <1>3, SeqEqual
<1> QED
  BY <1>4 DEF s

(* The values of a function defined by recursion over 0 .. n.              *)
Iterates(h, n, base, step) ==
    h[0] = base /\ \A k \in 1 .. n : h[k] = step[<<h[k - 1], k>>]

(* There is such a function.                                               *)
LEMMA Iterated ==
    ASSUME NEW n \in Nat, NEW V, NEW base \in V, NEW step \in [V \X (1 .. n) -> V]
    PROVE  \E h \in [0 .. n -> V] : Iterates(h, n, base, step)
<1> DEFINE Good(m) == \E h \in [0 .. m -> V] :
                         h[0] = base /\ \A k \in 1 .. m : h[k] = step[<<h[k - 1], k>>]
           T == {m \in Nat : m <= n => Good(m)}
<1>1. Good(0)
  <2> DEFINE h == [k \in 0 .. 0 |-> base]
  <2>1. h \in [0 .. 0 -> V] /\ h[0] = base
    OBVIOUS
  <2>2. \A k \in 1 .. 0 : h[k] = step[<<h[k - 1], k>>]
    OBVIOUS
  <2> HIDE DEF h
  <2> QED
    BY <2>1, <2>2
<1>2. ASSUME NEW m \in T, m + 1 <= n PROVE Good(m + 1)
  <2>1. PICK h \in [0 .. m -> V] : h[0] = base /\ \A k \in 1 .. m : h[k] = step[<<h[k - 1], k>>]
    BY <1>2
  <2> DEFINE g == [k \in 0 .. (m + 1) |-> IF k <= m THEN h[k] ELSE step[<<h[m], m + 1>>]]
  <2>2. h[m] \in V /\ m + 1 \in 1 .. n /\ m \in Nat
    BY <1>2
  <2>3. step[<<h[m], m + 1>>] \in V
    BY <2>2
  <2>4. g \in [0 .. (m + 1) -> V] /\ g[0] = base
    BY <2>1, <2>2, <2>3
  <2>5. ASSUME NEW k \in 1 .. (m + 1) PROVE g[k] = step[<<g[k - 1], k>>]
    <3>1. CASE k <= m
      BY <2>1, <2>2, <3>1
    <3>2. CASE k = m + 1
      <4>1. k - 1 = m /\ m \in 0 .. (m + 1) /\ k \in 0 .. (m + 1) /\ ~ (k <= m) /\ m <= m
        BY <2>2, <3>2
      <4>2. g[m] = h[m]
        BY <4>1
      <4>3. g[k] = step[<<h[m], m + 1>>]
        BY <4>1
      <4> HIDE DEF g
      <4> QED
        BY <3>2, <4>1, <4>2, <4>3
    <3> QED
      BY <2>2, <3>1, <3>2
  <2> HIDE DEF g
  <2> QED
    BY <2>4, <2>5
<1> HIDE DEF Good
<1>3. T = Nat
  <2>1. T \in SUBSET Nat /\ 0 \in T
    BY <1>1
  <2>2. ASSUME NEW m \in T PROVE m + 1 \in T
    <3>1. m + 1 \in Nat
      OBVIOUS
    <3> QED
      BY <1>2, <3>1
  <2> HIDE DEF T
  <2> QED
    BY <2>1, <2>2, NatInduct
<1> QED
  BY <1>3 DEF Good, Iterates

-----------------------------------------------------------------------------
(* A finite set whose elements have different keys can be put in the order *)
(* of its keys.                                                            *)
LEMMA Enumerated ==
    ASSUME NEW b \in Nat, NEW R, IsFiniteSet(R), NEW key \in [R -> 0 .. b],
           \A q, r \in R : key[q] = key[r] => q = r
    PROVE  \E rows \in [1 .. Cardinality(R) -> R] :
              \A i, j \in 1 .. Cardinality(R) : i < j => key[rows[i]] < key[rows[j]]
<1> DEFINE Ordered(Q, n) == \E rows \in [1 .. n -> Q] :
                               \A i, j \in 1 .. n : i < j => key[rows[i]] < key[rows[j]]
           T == {n \in Nat : \A Q \in SUBSET R : Cardinality(Q) = n => Ordered(Q, n)}
<1>1. ASSUME NEW Q PROVE Ordered(Q, 0)
  <2> DEFINE none == [i \in 1 .. 0 |-> i]
  <2>1. none \in [1 .. 0 -> Q] /\ \A i, j \in 1 .. 0 : i < j => key[none[i]] < key[none[j]]
    OBVIOUS
  <2> HIDE DEF none
  <2> QED
    BY <2>1
<1>2. ASSUME NEW n \in T, NEW Q \in SUBSET R, Cardinality(Q) = n + 1
      PROVE  Ordered(Q, n + 1)
  <2>1. IsFiniteSet(Q) /\ Q # {} /\ n \in Nat
    <3>1. IsFiniteSet(Q)
      BY FS_Subset
    <3> QED
      BY <1>2, <3>1, FS_EmptySet
  <2> DEFINE K == {key[q] : q \in Q}
  <2>2. K \in SUBSET (0 .. b) /\ K # {}
    BY <2>1
  <2>3. PICK k \in K : \A i \in K : i <= k
    <3> HIDE DEF K
    <3> QED
      BY <2>2, GreatestIn
  <2>4. PICK m \in Q : key[m] = k
    BY <2>3
  <2>5. Cardinality(Q \ {m}) = n /\ Q \ {m} \in SUBSET R
    <3>1. m \in Q
      BY <2>4
    <3>2. Cardinality(Q \ {m}) = Cardinality(Q) - 1
      BY <2>1, <3>1, FS_RemoveElement
    <3>3. (n + 1) - 1 = n
      BY <2>1
    <3> QED
      BY <1>2, <3>2, <3>3
  <2>6. PICK rows \in [1 .. n -> Q \ {m}] :
          \A i, j \in 1 .. n : i < j => key[rows[i]] < key[rows[j]]
    BY <2>5
  <2> DEFINE all == [i \in 1 .. (n + 1) |-> IF i <= n THEN rows[i] ELSE m]
  <2>7. all \in [1 .. (n + 1) -> Q]
    BY <2>1, <2>4, <2>6
  <2>8. \A q \in Q \ {m} : key[q] < key[m]
    <3> SUFFICES ASSUME NEW q \in Q \ {m} PROVE key[q] < key[m]
      OBVIOUS
    <3>1. key[q] <= key[m] /\ key[q] # key[m]
      BY <2>3, <2>4
    <3>2. key[q] \in Nat /\ key[m] \in Nat
      OBVIOUS
    <3> QED
      BY <3>1, <3>2
  <2>9. ASSUME NEW i \in 1 .. (n + 1), NEW j \in 1 .. (n + 1), i < j
        PROVE  key[all[i]] < key[all[j]]
    <3>1. CASE j <= n
      BY <2>1, <2>6, <2>9, <3>1
    <3>2. CASE j = n + 1
      <4>1. all[j] = m /\ all[i] = rows[i] /\ i \in 1 .. n
        BY <2>1, <2>9, <3>2
      <4> QED
        BY <2>6, <2>8, <4>1
    <3> QED
      BY <2>1, <3>1, <3>2
  <2> HIDE DEF all
  <2> QED
    BY <2>7, <2>9
<1> HIDE DEF Ordered
<1>3. T = Nat
  <2>1. T \in SUBSET Nat /\ 0 \in T
    BY <1>1
  <2>2. ASSUME NEW n \in T PROVE n + 1 \in T
    <3>1. n + 1 \in Nat
      OBVIOUS
    <3> QED
      BY <1>2, <3>1
  <2> HIDE DEF T
  <2> QED
    BY <2>1, <2>2, NatInduct
<1>4. Cardinality(R) \in Nat
  BY FS_CardinalityType
<1>5. Ordered(R, Cardinality(R))
  BY <1>3, <1>4
<1> QED
  BY <1>5 DEF Ordered

-----------------------------------------------------------------------------
(* The sums of f over the subsets of S: any element may be taken first.    *)
Sums(g, S, f) ==
    /\ g \in [SUBSET S -> Int]
    /\ g[{}] = 0
    /\ \A s \in SUBSET S : \A x \in s : g[s] = f[x] + g[s \ {x}]

(* The sums by one order, which takes the element pick[s] of s first.      *)
SumsPicking(g, S, f, pick) ==
    g = [s \in SUBSET S |-> IF s = {} THEN 0 ELSE f[pick[s]] + g[s \ {pick[s]}]]

(* There are such sums.                                                    *)
LEMMA SumsExist ==
    ASSUME NEW S, IsFiniteSet(S), NEW f \in [S -> Int], NEW pick \in [SUBSET S -> S],
           \A s \in SUBSET S : s # {} => pick[s] \in s
    PROVE  \E g : SumsPicking(g, S, f, pick)
<1> DEFINE Level(k) == {s \in SUBSET S : Cardinality(s) <= k}
           Good(k) == \E g \in [Level(k) -> Int] :
                         \A s \in Level(k) :
                            g[s] = IF s = {} THEN 0 ELSE f[pick[s]] + g[s \ {pick[s]}]
           T == {k \in Nat : Good(k)}
<1>1. \A s \in SUBSET S : IsFiniteSet(s) /\ Cardinality(s) \in Nat
  BY FS_Subset, FS_CardinalityType
<1>2. \A s \in SUBSET S : s # {} => /\ pick[s] \in s /\ s \ {pick[s]} \in SUBSET S
                                    /\ Cardinality(s \ {pick[s]}) = Cardinality(s) - 1
  BY <1>1, FS_RemoveElement
<1>3. Good(0)
  <2>1. \A s \in Level(0) : s = {}
    BY <1>1, FS_EmptySet
  <2> DEFINE g == [s \in Level(0) |-> 0]
  <2>2. g \in [Level(0) -> Int] /\ \A s \in Level(0) : g[s] = 0
    OBVIOUS
  <2> HIDE DEF g, Level
  <2> QED
    BY <2>1, <2>2
<1>4. ASSUME NEW k \in T PROVE Good(k + 1)
  <2>1. k \in Nat
    OBVIOUS
  <2>2. PICK g \in [Level(k) -> Int] :
           \A s \in Level(k) : g[s] = IF s = {} THEN 0 ELSE f[pick[s]] + g[s \ {pick[s]}]
    OBVIOUS
  <2> DEFINE h == [s \in Level(k + 1) |->
                     IF s \in Level(k) THEN g[s] ELSE f[pick[s]] + g[s \ {pick[s]}]]
  <2>3. ASSUME NEW s \in Level(k + 1), s # {}
        PROVE  s \ {pick[s]} \in Level(k) /\ pick[s] \in S
    BY <1>1, <1>2, <2>1, <2>3
  <2>4. \A s \in Level(k) : s \in Level(k + 1)
    BY <1>1, <2>1
  <2>5. {} \in Level(k)
    BY <2>1, FS_EmptySet
  <2> HIDE DEF Level
  <2>6. h \in [Level(k + 1) -> Int]
    <3> SUFFICES ASSUME NEW s \in Level(k + 1), s \notin Level(k)
                 PROVE  f[pick[s]] + g[s \ {pick[s]}] \in Int
      BY <2>2
    <3>1. s \ {pick[s]} \in Level(k) /\ pick[s] \in S
      BY <2>3, <2>5
    <3>2. f[pick[s]] \in Int /\ g[s \ {pick[s]}] \in Int
      BY <2>2, <3>1
    <3> QED
      BY <3>2
  <2>7. ASSUME NEW s \in Level(k + 1)
        PROVE  h[s] = IF s = {} THEN 0 ELSE f[pick[s]] + h[s \ {pick[s]}]
    <3>1. CASE s = {}
      BY <2>2, <2>4, <2>5, <3>1
    <3>2. CASE s # {}
      <4>1. h[s \ {pick[s]}] = g[s \ {pick[s]}]
        BY <2>3, <2>4, <3>2
      <4>2. h[s] = f[pick[s]] + g[s \ {pick[s]}]
        BY <2>2, <3>2
      <4> QED
        BY <3>2, <4>1, <4>2
    <3> QED
      BY <3>1, <3>2
  <2> HIDE DEF h
  <2> QED
    BY <2>6, <2>7
<1> HIDE DEF Good
<1>5. T = Nat
  <2>1. T \in SUBSET Nat /\ 0 \in T
    BY <1>3
  <2>2. ASSUME NEW k \in T PROVE k + 1 \in T
    <3>1. k + 1 \in Nat
      OBVIOUS
    <3> QED
      BY <1>4, <3>1
  <2> HIDE DEF T
  <2> QED
    BY <2>1, <2>2, NatInduct
<1>6. Good(Cardinality(S))
  <2>1. Cardinality(S) \in Nat
    BY FS_CardinalityType
  <2> QED
    BY <1>5, <2>1
<1>7. Level(Cardinality(S)) = SUBSET S
  <2>1. \A s \in SUBSET S : Cardinality(s) <= Cardinality(S)
    BY FS_Subset
  <2> QED
    BY <2>1
<1> HIDE DEF Level
<1>8. PICK g \in [SUBSET S -> Int] :
         \A s \in SUBSET S : g[s] = IF s = {} THEN 0 ELSE f[pick[s]] + g[s \ {pick[s]}]
  BY <1>6, <1>7 DEF Good
<1> DEFINE r == [s \in SUBSET S |-> IF s = {} THEN 0 ELSE f[pick[s]] + g[s \ {pick[s]}]]
<1>9. DOMAIN g = SUBSET S /\ DOMAIN r = SUBSET S /\ \A s \in SUBSET S : g[s] = r[s]
  BY <1>8
<1>10. g = [s \in SUBSET S |-> g[s]] /\ r = [s \in SUBSET S |-> r[s]]
  BY <1>8
<1>11. g = r
  <2> HIDE DEF r
  <2> QED
    BY <1>9, <1>10
<1> QED
  BY <1>11 DEF SumsPicking

(* The order does not matter.                                              *)
LEMMA SumsCommute ==
    ASSUME NEW S, IsFiniteSet(S), NEW f \in [S -> Int], NEW pick \in [SUBSET S -> S],
           \A s \in SUBSET S : s # {} => pick[s] \in s,
           NEW g, SumsPicking(g, S, f, pick)
    PROVE  Sums(g, S, f)
<1> USE DEF SumsPicking
<1> DEFINE Good(k) == \A s \in SUBSET S : Cardinality(s) <= k =>
                         g[s] \in Int /\ \A x \in s : g[s] = f[x] + g[s \ {x}]
           T == {k \in Nat : Good(k)}
<1>1. \A s \in SUBSET S : IsFiniteSet(s) /\ Cardinality(s) \in Nat
  BY FS_Subset, FS_CardinalityType
<1>2. \A s \in SUBSET S : \A x \in s : Cardinality(s \ {x}) = Cardinality(s) - 1
  BY <1>1, FS_RemoveElement
<1>3. Good(0)
  <2>1. \A s \in SUBSET S : Cardinality(s) <= 0 => s = {}
    BY <1>1, FS_EmptySet
  <2>2. g[{}] = 0
    <3>1. {} \in SUBSET S
      OBVIOUS
    <3> QED
      BY <3>1
  <2> QED
    BY <2>1, <2>2
<1>4. ASSUME NEW k \in T PROVE Good(k + 1)
  <2> HIDE DEF Good
  <2> SUFFICES ASSUME NEW s \in SUBSET S, Cardinality(s) = k + 1
               PROVE  g[s] \in Int /\ \A x \in s : g[s] = f[x] + g[s \ {x}]
    <3>1. k \in Nat /\ Good(k)
      OBVIOUS
    <3>2. \A s \in SUBSET S : Cardinality(s) <= k + 1 => Cardinality(s) <= k \/ Cardinality(s) = k + 1
      BY <1>1, <3>1
    <3> QED
      BY <3>1, <3>2 DEF Good
  <2> USE DEF Good
  <2>0. s # {}
    <3>1. k \in Nat
      OBVIOUS
    <3>2. Cardinality(s) # 0
      BY <3>1
    <3> QED
      BY <3>2, FS_EmptySet
  <2> SUFFICES ASSUME NEW x \in s
               PROVE  g[s] \in Int /\ g[s] = f[x] + g[s \ {x}]
    BY <2>0
  <2> DEFINE y == pick[s]
  <2>1. k \in Nat /\ y \in s /\ s \ {y} \in SUBSET S /\ s \ {x} \in SUBSET S
    OBVIOUS
  <2>2. g[s] = f[y] + g[s \ {y}]
    BY <2>0
  <2>3. /\ Cardinality(s \ {x}) = k /\ Cardinality(s \ {y}) = k
        /\ Cardinality(s \ {x}) <= k /\ Cardinality(s \ {y}) <= k
    <3>1. (k + 1) - 1 = k /\ k <= k
      BY <2>1
    <3> QED
      BY <1>2, <2>1, <3>1
  <2>4. g[s] \in Int
    <3>1. g[s \ {y}] \in Int /\ f[y] \in Int
      BY <2>1, <2>3
    <3> QED
      BY <2>2, <3>1
  <2>6. CASE x = y
    BY <2>2, <2>4, <2>6
  <2>5. CASE x # y
    <3>1. g[s \ {y}] = f[x] + g[(s \ {y}) \ {x}]
      BY <2>1, <2>3, <2>5
    <3>2. g[s \ {x}] = f[y] + g[(s \ {x}) \ {y}]
      BY <2>1, <2>3, <2>5
    <3>3. (s \ {y}) \ {x} = (s \ {x}) \ {y} /\ (s \ {x}) \ {y} \in SUBSET S
      OBVIOUS
    <3> DEFINE z == (s \ {x}) \ {y}
    <3>4. f[x] \in Int /\ f[y] \in Int
      BY <2>1
    <3>5. g[z] \in Int
      <4>1. y \in s \ {x} /\ z \in SUBSET S
        BY <2>1, <2>5
      <4>2. Cardinality(z) = k - 1
        BY <1>2, <2>1, <2>3, <4>1
      <4>3. Cardinality(z) <= k
        BY <2>1, <4>2
      <4> HIDE DEF z
      <4> QED
        BY <4>1, <4>3
    <3>6. g[s \ {y}] = f[x] + g[z]
      BY <3>1, <3>3
    <3> HIDE DEF y, z
    <3> QED
      BY <2>2, <2>4, <3>2, <3>4, <3>5, <3>6 DEF z
  <2> QED
    BY <2>4, <2>5, <2>6
<1> HIDE DEF Good
<1>5. T = Nat
  <2>1. T \in SUBSET Nat /\ 0 \in T
    BY <1>3
  <2>2. ASSUME NEW k \in T PROVE k + 1 \in T
    <3>1. k + 1 \in Nat
      OBVIOUS
    <3> QED
      BY <1>4, <3>1
  <2> HIDE DEF T
  <2> QED
    BY <2>1, <2>2, NatInduct
<1>6. \A s \in SUBSET S : \A x \in s : g[s] = f[x] + g[s \ {x}]
  <2> SUFFICES ASSUME NEW s \in SUBSET S PROVE \A x \in s : g[s] = f[x] + g[s \ {x}]
    OBVIOUS
  <2>1. Cardinality(s) \in T /\ Cardinality(s) <= Cardinality(s)
    BY <1>1, <1>5
  <2> QED
    BY <2>1 DEF Good
<1>7. g \in [SUBSET S -> Int]
  <2> SUFFICES ASSUME NEW s \in SUBSET S PROVE g[s] \in Int
    OBVIOUS
  <2>1. Cardinality(s) \in T /\ Cardinality(s) <= Cardinality(s)
    BY <1>1, <1>5
  <2> QED
    BY <2>1 DEF Good
<1>8. g[{}] = 0
  <2>1. {} \in SUBSET S
    OBVIOUS
  <2> QED
    BY <2>1
<1> QED
  BY <1>6, <1>7, <1>8 DEF Sums

(* SumFunction is the sum over the whole domain.                           *)
LEMMA SumFunctionIs ==
    ASSUME NEW S, IsFiniteSet(S), NEW f \in [S -> Int]
    PROVE  \E g : Sums(g, S, f) /\ SumFunction(f) = g[S]
<1> DEFINE pick == [s \in SUBSET S |-> IF s = {} THEN CHOOSE x \in S : TRUE ELSE CHOOSE x \in s : TRUE]
           iter == CHOOSE g : g = [s \in SUBSET S |->
                      IF s = {} THEN 0 ELSE f[CHOOSE x \in s : TRUE] + g[s \ {CHOOSE x \in s : TRUE}]]
<1>1. SumFunction(f) = iter[S]
  BY DEF SumFunction, SumFunctionOnSet, FoldFunctionOnSet, MapThenFoldSet
<1>2. CASE S = {}
  <2> DEFINE g == [s \in SUBSET S |-> 0]
  <2>1. g = [s \in SUBSET S |->
               IF s = {} THEN 0 ELSE f[CHOOSE x \in s : TRUE] + g[s \ {CHOOSE x \in s : TRUE}]]
    BY <1>2
  <2>2. iter = [s \in SUBSET S |->
               IF s = {} THEN 0 ELSE f[CHOOSE x \in s : TRUE] + iter[s \ {CHOOSE x \in s : TRUE}]]
    <3> HIDE DEF g
    <3> QED
      BY <2>1
  <2> HIDE DEF iter
  <2>3. iter = g
    BY <1>2, <2>2
  <2>4. Sums(iter, S, f)
    BY <1>2, <2>3 DEF Sums
  <2> QED
    BY <1>1, <2>4
<1>3. CASE S # {}
  <2>1. pick \in [SUBSET S -> S] /\ \A s \in SUBSET S : s # {} => pick[s] \in s
    BY <1>3
  <2>2. \A s \in SUBSET S : s # {} => pick[s] = CHOOSE x \in s : TRUE
    OBVIOUS
  <2> HIDE DEF pick
  <2>3. PICK h : SumsPicking(h, S, f, pick)
    BY <2>1, SumsExist
  <2>4. h = [s \in SUBSET S |->
               IF s = {} THEN 0 ELSE f[CHOOSE x \in s : TRUE] + h[s \ {CHOOSE x \in s : TRUE}]]
    BY <2>2, <2>3 DEF SumsPicking
  <2>5. iter = [s \in SUBSET S |->
               IF s = {} THEN 0 ELSE f[CHOOSE x \in s : TRUE] + iter[s \ {CHOOSE x \in s : TRUE}]]
    BY <2>4
  <2> HIDE DEF iter
  <2>6. SumsPicking(iter, S, f, pick)
    BY <2>2, <2>5 DEF SumsPicking
  <2>7. Sums(iter, S, f)
    BY <2>1, <2>6, SumsCommute
  <2> QED
    BY <1>1, <2>7
<1> QED
  BY <1>2, <1>3

(* The sums of a function that is part of another are among those of it.   *)
LEMMA SumsAgree ==
    ASSUME NEW S, IsFiniteSet(S), NEW f \in [S -> Int], NEW g, Sums(g, S, f),
           NEW R \in SUBSET S, NEW e \in [R -> Int], NEW h, Sums(h, R, e),
           \A x \in R : e[x] = f[x]
    PROVE  g[R] = h[R]
<1> DEFINE Good(k) == \A s \in SUBSET R : Cardinality(s) = k => g[s] = h[s]
           T == {k \in Nat : Good(k)}
<1>1. \A s \in SUBSET R : IsFiniteSet(s) /\ Cardinality(s) \in Nat /\ s \in SUBSET S
  BY FS_Subset, FS_CardinalityType
<1>2. Good(0)
  BY <1>1, FS_EmptySet DEF Sums
<1>3. ASSUME NEW k \in T PROVE Good(k + 1)
  <2> SUFFICES ASSUME NEW s \in SUBSET R, Cardinality(s) = k + 1 PROVE g[s] = h[s]
    OBVIOUS
  <2>1. k \in Nat /\ (k + 1) - 1 = k /\ k + 1 # 0
    OBVIOUS
  <2>2. PICK x \in s : TRUE
    BY <2>1, FS_EmptySet
  <2>3. Cardinality(s \ {x}) = k
    <3>1. Cardinality(s \ {x}) = Cardinality(s) - 1
      BY <1>1, <2>2, FS_RemoveElement
    <3> QED
      BY <2>1, <3>1
  <2>4. g[s \ {x}] = h[s \ {x}]
    BY <2>3
  <2>5. g[s] = f[x] + g[s \ {x}] /\ h[s] = e[x] + h[s \ {x}]
    BY <1>1, <2>2 DEF Sums
  <2> QED
    BY <2>2, <2>4, <2>5
<1> HIDE DEF Good
<1>4. T = Nat
  <2>1. T \in SUBSET Nat /\ 0 \in T
    BY <1>2
  <2>2. ASSUME NEW k \in T PROVE k + 1 \in T
    <3>1. k + 1 \in Nat
      OBVIOUS
    <3> QED
      BY <1>3, <3>1
  <2> HIDE DEF T
  <2> QED
    BY <2>1, <2>2, NatInduct
<1>5. Cardinality(R) \in T
  BY <1>1, <1>4
<1> QED
  BY <1>5 DEF Good

LEMMA SumEmpty ==
    ASSUME NEW f \in [{} -> Int]
    PROVE  SumFunction(f) = 0
<1>1. IsFiniteSet({})
  BY FS_EmptySet
<1> DEFINE S == {}
<1>2. f \in [S -> Int] /\ IsFiniteSet(S)
  BY <1>1
<1> HIDE DEF S
<1>3. PICK g : Sums(g, S, f) /\ SumFunction(f) = g[S]
  BY <1>2, SumFunctionIs
<1> QED
  BY <1>3 DEF Sums, S

(* One element and the sum of the others.                                  *)
LEMMA SumTakes ==
    ASSUME NEW S, IsFiniteSet(S), NEW f \in [S -> Int], NEW x \in S
    PROVE  SumFunction(f) = f[x] + SumFunction([y \in S \ {x} |-> f[y]])
<1> DEFINE R == S \ {x}
           e == [y \in R |-> f[y]]
<1>1. R \in SUBSET S /\ IsFiniteSet(R) /\ e \in [R -> Int] /\ \A y \in R : e[y] = f[y]
  BY FS_Subset
<1> HIDE DEF e
<1>2. PICK g : Sums(g, S, f) /\ SumFunction(f) = g[S]
  BY SumFunctionIs
<1>3. g[S] = f[x] + g[R]
  BY <1>2 DEF Sums
<1> HIDE DEF R
<1>4. PICK h : Sums(h, R, e) /\ SumFunction(e) = h[R]
  BY <1>1, SumFunctionIs
<1>5. g[R] = h[R]
  BY <1>1, <1>2, <1>4, SumsAgree
<1> QED
  BY <1>2, <1>3, <1>4, <1>5 DEF e, R

LEMMA SumType ==
    ASSUME NEW S, IsFiniteSet(S), NEW f \in [S -> Int]
    PROVE  SumFunction(f) \in Int
<1>1. PICK g : Sums(g, S, f) /\ SumFunction(f) = g[S]
  BY SumFunctionIs
<1> QED
  BY <1>1 DEF Sums

(* A change of one element changes the sum by as much.                     *)
LEMMA SumExcept ==
    ASSUME NEW S, IsFiniteSet(S), NEW f \in [S -> Int], NEW x \in S, NEW v \in Int
    PROVE  SumFunction([f EXCEPT ![x] = v]) = SumFunction(f) - f[x] + v
<1> DEFINE h == [f EXCEPT ![x] = v]
           R == S \ {x}
           e == [y \in R |-> f[y]]
<1>1. h \in [S -> Int] /\ h[x] = v
  OBVIOUS
<1>2. [y \in R |-> h[y]] = e
  OBVIOUS
<1>3. IsFiniteSet(R) /\ e \in [R -> Int]
  BY FS_Subset
<1> HIDE DEF h, e
<1>4. SumFunction(f) = f[x] + SumFunction(e)
  BY SumTakes DEF e
<1>5. SumFunction(h) = v + SumFunction(e)
  BY <1>1, <1>2, SumTakes
<1> HIDE DEF R
<1>6. SumFunction(e) \in Int /\ f[x] \in Int
  BY <1>3, SumType
<1>7. SumFunction(h) = SumFunction(f) - f[x] + v
  BY <1>4, <1>5, <1>6
<1> QED
  BY <1>7 DEF h

LEMMA SumZero ==
    ASSUME NEW S, IsFiniteSet(S)
    PROVE  SumFunction([x \in S |-> 0]) = 0
<1> DEFINE Good(k) == \A R \in SUBSET S : Cardinality(R) = k => SumFunction([x \in R |-> 0]) = 0
           T == {k \in Nat : Good(k)}
<1>1. \A R \in SUBSET S : IsFiniteSet(R) /\ Cardinality(R) \in Nat
  BY FS_Subset, FS_CardinalityType
<1>2. Good(0)
  <2> SUFFICES ASSUME NEW R \in SUBSET S, Cardinality(R) = 0 PROVE SumFunction([x \in R |-> 0]) = 0
    OBVIOUS
  <2>1. R = {}
    BY <1>1, FS_EmptySet
  <2>2. [x \in R |-> 0] \in [{} -> Int]
    BY <2>1
  <2> QED
    BY <2>2, SumEmpty
<1>3. ASSUME NEW k \in T PROVE Good(k + 1)
  <2> SUFFICES ASSUME NEW R \in SUBSET S, Cardinality(R) = k + 1
               PROVE  SumFunction([x \in R |-> 0]) = 0
    OBVIOUS
  <2>1. k \in Nat /\ (k + 1) - 1 = k /\ k + 1 # 0
    OBVIOUS
  <2>2. PICK x \in R : TRUE
    BY <2>1, FS_EmptySet
  <2> DEFINE f == [y \in R |-> 0]
             e == [y \in R \ {x} |-> 0]
  <2>3. f \in [R -> Int] /\ f[x] = 0 /\ [y \in R \ {x} |-> f[y]] = e /\ IsFiniteSet(R)
    BY <1>1, <2>2
  <2>4. R \ {x} \in SUBSET S /\ Cardinality(R \ {x}) = k
    <3>1. Cardinality(R \ {x}) = Cardinality(R) - 1
      BY <1>1, <2>2, FS_RemoveElement
    <3> QED
      BY <2>1, <3>1
  <2>5. SumFunction(e) = 0
    BY <2>4
  <2> HIDE DEF f, e
  <2>6. SumFunction(f) = f[x] + SumFunction(e)
    BY <2>2, <2>3, SumTakes
  <2>7. SumFunction(f) = 0
    BY <2>3, <2>5, <2>6
  <2> QED
    BY <2>7 DEF f
<1> HIDE DEF Good
<1>4. T = Nat
  <2>1. T \in SUBSET Nat /\ 0 \in T
    BY <1>2
  <2>2. ASSUME NEW k \in T PROVE k + 1 \in T
    <3>1. k + 1 \in Nat
      OBVIOUS
    <3> QED
      BY <1>3, <3>1
  <2> HIDE DEF T
  <2> QED
    BY <2>1, <2>2, NatInduct
<1>5. Cardinality(S) \in T
  BY <1>1, <1>4
<1> QED
  BY <1>5 DEF Good

(* Sums of sequences, as they are lengthened.                               *)
LEMMA SumAppend ==
    ASSUME NEW s \in Seq(Int), NEW e \in Int
    PROVE  SumFunction(Append(s, e)) = SumFunction(s) + e
<1> DEFINE n == Len(s) + 1
           S == 1 .. n
           f == Append(s, e)
<1>1. n \in S /\ IsFiniteSet(S) /\ Len(s) \in Nat
  BY FS_Interval
<1>2. f \in [S -> Int] /\ f[n] = e /\ S \ {n} = 1 .. Len(s)
  <2>1. f \in Seq(Int) /\ Len(f) = n /\ f[n] = e
    OBVIOUS
  <2>2. S \ {n} = 1 .. Len(s)
    BY <1>1
  <2> HIDE DEF f, n
  <2> QED
    BY <2>1, <2>2
<1>3. [y \in S \ {n} |-> f[y]] = s
  <2>1. \A y \in 1 .. Len(s) : f[y] = s[y]
    OBVIOUS
  <2>2. s = [y \in 1 .. Len(s) |-> s[y]]
    OBVIOUS
  <2> HIDE DEF f, S, n
  <2> QED
    BY <1>2, <2>1, <2>2
<1>4. SumFunction(f) = f[n] + SumFunction(s)
  <2> DEFINE R == [y \in S \ {n} |-> f[y]]
  <2>1. R = s
    BY <1>3
  <2> HIDE DEF f, S, n
  <2>2. SumFunction(f) = f[n] + SumFunction(R)
    <3>1. f \in [S -> Int]
      BY <1>2
    <3> QED
      BY <1>1, <3>1, SumTakes
  <2> QED
    BY <2>1, <2>2
<1>5. SumFunction(s) \in Int
  <2>1. s \in [1 .. Len(s) -> Int] /\ IsFiniteSet(1 .. Len(s))
    BY <1>1, FS_Interval
  <2> QED
    BY <2>1, SumType
<1> QED
  BY <1>2, <1>3, <1>4, <1>5

LEMMA SumConcat ==
    ASSUME NEW s \in Seq(Int), NEW t \in Seq(Int)
    PROVE  SumFunction(s \o t) = SumFunction(s) + SumFunction(t)
<1> DEFINE first(k) == [i \in 1 .. k |-> t[i]]
           T == {k \in Nat : k <= Len(t) =>
                    SumFunction(s \o first(k)) = SumFunction(s) + SumFunction(first(k))}
<1>1. 0 \in T
  <2>1. s \o first(0) = s
    OBVIOUS
  <2>2. SumFunction(first(0)) = 0
    <3>1. first(0) \in [{} -> Int]
      OBVIOUS
    <3> QED
      BY <3>1, SumEmpty
  <2>3. SumFunction(s) \in Int
    <3>1. s \in [1 .. Len(s) -> Int] /\ IsFiniteSet(1 .. Len(s))
      BY FS_Interval
    <3> QED
      BY <3>1, SumType
  <2> QED
    BY <2>1, <2>2, <2>3
<1>2. ASSUME NEW k \in T PROVE k + 1 \in T
  <2> SUFFICES ASSUME k + 1 <= Len(t)
               PROVE  SumFunction(s \o first(k + 1)) = SumFunction(s) + SumFunction(first(k + 1))
    OBVIOUS
  <2>1. /\ k \in Nat /\ k + 1 \in DOMAIN t /\ t[k + 1] \in Int
        /\ first(k) \in Seq(Int) /\ s \o first(k) \in Seq(Int)
    OBVIOUS
  <2>2. first(k + 1) = Append(first(k), t[k + 1])
    BY <2>1
  <2>3. s \o first(k + 1) = Append(s \o first(k), t[k + 1])
    BY <2>1, <2>2
  <2>4. SumFunction(s \o first(k)) = SumFunction(s) + SumFunction(first(k))
    BY <2>1
  <2>5. SumFunction(s) \in Int /\ SumFunction(first(k)) \in Int
    <3>1. s \in [1 .. Len(s) -> Int] /\ first(k) \in [1 .. k -> Int]
      BY <2>1
    <3>2. IsFiniteSet(1 .. Len(s)) /\ IsFiniteSet(1 .. k)
      BY <2>1, FS_Interval
    <3> HIDE DEF first
    <3> QED
      BY <3>1, <3>2, SumType
  <2>6. /\ SumFunction(first(k + 1)) = SumFunction(first(k)) + t[k + 1]
        /\ SumFunction(s \o first(k + 1)) = SumFunction(s \o first(k)) + t[k + 1]
    <3> HIDE DEF first
    <3> QED
      BY <2>1, <2>2, <2>3, SumAppend
  <2> HIDE DEF first, T
  <2> QED
    BY <2>1, <2>4, <2>5, <2>6
<1>3. T = Nat
  <2>1. T \in SUBSET Nat
    OBVIOUS
  <2> HIDE DEF T
  <2> QED
    BY <1>1, <1>2, <2>1, NatInduct
<1>4. Len(t) \in T
  <2>1. Len(t) \in Nat
    OBVIOUS
  <2> HIDE DEF T
  <2> QED
    BY <1>3, <2>1
<1>5. first(Len(t)) = t
  OBVIOUS
<1>6. SumFunction(s \o first(Len(t))) = SumFunction(s) + SumFunction(first(Len(t)))
  BY <1>4
<1> HIDE DEF first, T
<1> QED
  BY <1>5, <1>6
=============================================================================
