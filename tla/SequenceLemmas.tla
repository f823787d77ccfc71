--------------------------- MODULE SequenceLemmas ---------------------------
(* Facts about finite sequences, used by the proofs about queues and        *)
(* batches, about sets of numbers and recursion over them, and about sums   *)
(* over finite sets.                                                        *)
EXTENDS Integers, Sequences, Functions, FiniteSets, FiniteSetTheorems, SequenceTheorems,
        WellFoundedInduction, TLAPS

(* What appending one element does to the elements of a sequence. *)
LEMMA AppendFacts ==
    ASSUME NEW S, NEW s \in Seq(S), NEW x \in S
    PROVE  /\ Append(s, x) \in Seq(S)
           /\ Len(Append(s, x)) = Len(s) + 1
           /\ Range(Append(s, x)) = Range(s) \cup {x}
           /\ IsInjective(s) /\ x \notin Range(s) => IsInjective(Append(s, x))
<1>1. /\ Append(s, x) \in Seq(S)
      /\ Len(Append(s, x)) = Len(s) + 1
      /\ Len(s) \in Nat
      /\ \A i \in 1 .. Len(s) : Append(s, x)[i] = s[i]
      /\ Append(s, x)[Len(s) + 1] = x
  OBVIOUS
<1>2. DOMAIN Append(s, x) = (1 .. Len(s)) \cup {Len(s) + 1} /\ DOMAIN s = 1 .. Len(s)
  BY <1>1
<1>3. Range(Append(s, x)) = Range(s) \cup {x}  BY <1>1, <1>2 DEF Range
<1>4. IsInjective(s) /\ x \notin Range(s) => IsInjective(Append(s, x))
  BY <1>1, <1>2 DEF Range, IsInjective
<1>5. QED BY <1>1, <1>3, <1>4

(* What taking the head off does to the elements of a sequence. *)
LEMMA TailFacts ==
    ASSUME NEW S, NEW s \in Seq(S), s # <<>>
    PROVE  /\ Head(s) \in S /\ Tail(s) \in Seq(S)
           /\ Len(Tail(s)) = Len(s) - 1
           /\ Range(s) = {Head(s)} \cup Range(Tail(s))
           /\ IsInjective(s) =>
                IsInjective(Tail(s)) /\ Head(s) \notin Range(Tail(s))
<1>1. /\ Head(s) \in S /\ Tail(s) \in Seq(S)
      /\ Len(Tail(s)) = Len(s) - 1
      /\ Len(s) \in Nat \ {0}
      /\ Head(s) = s[1]
      /\ \A i \in 1 .. Len(s) - 1 : Tail(s)[i] = s[i + 1]
  OBVIOUS
<1>2. DOMAIN Tail(s) = 1 .. Len(s) - 1 /\ DOMAIN s = 1 .. Len(s)
  BY <1>1
<1>3. Range(s) = {Head(s)} \cup Range(Tail(s))
  <2>1. ASSUME NEW i \in 1 .. Len(s) PROVE s[i] \in {Head(s)} \cup Range(Tail(s))
    <3>1. CASE i = 1  BY <3>1, <1>1
    <3>2. CASE i # 1
      <4>1. i - 1 \in DOMAIN Tail(s) /\ Tail(s)[i - 1] = s[i]  BY <3>2, <1>1, <1>2
      <4>2. QED BY <4>1 DEF Range
    <3>3. QED BY <3>1, <3>2
  <2>2. ASSUME NEW i \in 1 .. Len(s) - 1 PROVE Tail(s)[i] \in Range(s)
    <3>1. i + 1 \in DOMAIN s /\ Tail(s)[i] = s[i + 1]  BY <1>1, <1>2
    <3>2. QED BY <3>1 DEF Range
  <2>3. Head(s) \in Range(s)  BY <1>1, <1>2 DEF Range
  <2>4. QED BY <2>1, <2>2, <2>3, <1>2 DEF Range
<1>4. IsInjective(s) => IsInjective(Tail(s)) /\ Head(s) \notin Range(Tail(s))
  BY <1>1, <1>2 DEF IsInjective, Range
<1>5. QED BY <1>1, <1>3, <1>4

(* The empty sequence has no elements, and the range of a sequence is finite. *)
LEMMA RangeFacts ==
    ASSUME NEW S, NEW s \in Seq(S)
    PROVE  /\ Range(s) \subseteq S
           /\ IsFiniteSet(Range(s))
           /\ s = <<>> => Range(s) = {} /\ IsInjective(s)
<1>1. DOMAIN s = 1 .. Len(s) /\ Len(s) \in Nat  OBVIOUS
<1>2. Range(s) \subseteq S  BY <1>1 DEF Range
<1>3. IsFiniteSet(1 .. Len(s))  BY <1>1, FS_Interval
<1>4. s \in Surjection(1 .. Len(s), Range(s))  BY <1>1 DEF Surjection, Range
<1>5. IsFiniteSet(Range(s))  BY <1>3, <1>4, FS_Surjection
<1>6. s = <<>> => Range(s) = {} /\ IsInjective(s)  BY <1>1 DEF Range, IsInjective
<1>7. QED BY <1>2, <1>5, <1>6

(* A sequence without duplicates has as many elements as places. *)
LEMMA RangeSize ==
    ASSUME NEW S, NEW s \in Seq(S), IsInjective(s)
    PROVE  Cardinality(Range(s)) = Len(s)
<1>1. DOMAIN s = 1 .. Len(s) /\ Len(s) \in Nat  OBVIOUS
<1>2. IsFiniteSet(1 .. Len(s)) /\ Cardinality(1 .. Len(s)) = Len(s)
  <2>1. Cardinality(1 .. Len(s)) = IF 1 > Len(s) THEN 0 ELSE Len(s) - 1 + 1
    BY <1>1, FS_Interval
  <2>2. IsFiniteSet(1 .. Len(s))  BY <1>1, FS_Interval
  <2>3. QED BY <2>1, <2>2, <1>1
<1>3. s \in Surjection(1 .. Len(s), Range(s))  BY <1>1 DEF Surjection, Range
<1>4. s \in Injection(1 .. Len(s), Range(s))
  BY <1>1 DEF Injection, IsInjective, Range
<1>5. Cardinality(Range(s)) = Cardinality(1 .. Len(s))  BY <1>2, <1>3, <1>4, FS_Surjection
<1>6. QED BY <1>2, <1>5

(* A part of a sequence that lies inside it. *)
LEMMA PartFacts ==
    ASSUME NEW S, NEW s \in Seq(S),
           NEW m \in 1 .. Len(s) + 1, NEW n \in m - 1 .. Len(s)
    PROVE  /\ SubSeq(s, m, n) \in Seq(S)
           /\ Len(SubSeq(s, m, n)) = n - m + 1
           /\ \A i \in 1 .. n - m + 1 : SubSeq(s, m, n)[i] = s[m + i - 1]
<1>1. Len(s) \in Nat /\ \A i \in 1 .. Len(s) : s[i] \in S  OBVIOUS
<1>2. m \in Int /\ n \in Int /\ \A i \in m .. n : s[i] \in S  BY <1>1
<1>3. QED BY <1>1, <1>2, SubSeqProperties

(* A set of natural numbers that is not empty has a least element. *)
LEMMA LeastNumber ==
    ASSUME NEW T, T \subseteq Nat, T # {}
    PROVE  \E n \in T : \A k \in T : n <= k
<1> DEFINE below == {0 .. n : n \in T}
           R == StrictSubsetOrdering(Nat)
<1>1. below \subseteq FiniteSubsetsOf(Nat) /\ below # {}
  <2>1. \A n \in Nat : 0 .. n \subseteq Nat /\ IsFiniteSet(0 .. n)  BY FS_Interval
  <2>2. QED BY <2>1 DEF FiniteSubsetsOf
<1>2. IsWellFoundedOn(R, FiniteSubsetsOf(Nat))  BY FS_StrictSubsetOrderingWellFounded
<1>3. PICK s \in below : \A t \in below : ~ (<<t, s>> \in R)
  <2> HIDE DEF below, R
  <2>1. QED BY <1>1, <1>2, WFMin
<1>4. PICK n \in T : s = 0 .. n  OBVIOUS
<1>5. ASSUME NEW k \in T, k < n PROVE FALSE
  <2>1. 0 .. k \in below /\ 0 .. k \subseteq 0 .. n /\ 0 .. k # 0 .. n  BY <1>5
  <2>2. <<0 .. k, 0 .. n>> \in R
    BY <2>1, <1>1 DEF StrictSubsetOrdering, FiniteSubsetsOf
  <2>3. QED BY <2>1, <2>2, <1>3, <1>4
<1>6. QED BY <1>5

-----------------------------------------------------------------------------
(* Sums of functions over finite index sets.  SumFunction of the community  *)
(* module Functions is a recursive function over the subsets of the domain; *)
(* LeastNumber gives the two inductions it needs.                           *)

Pick(s) == CHOOSE x \in s : TRUE

(* g is the recursive function that sums f over every set of indices. *)
IsSum(f, g) ==
    g = [s \in SUBSET DOMAIN f |->
            IF s = {} THEN 0 ELSE f[Pick(s)] + g[s \ {Pick(s)}]]

LEMMA PickFacts ==
    ASSUME NEW s, s # {}, IsFiniteSet(s)
    PROVE  /\ Pick(s) \in s /\ IsFiniteSet(s \ {Pick(s)})
           /\ Cardinality(s) \in Nat /\ Cardinality(s \ {Pick(s)}) = Cardinality(s) - 1
<1>1. Pick(s) \in s  BY DEF Pick
<1>2. QED BY <1>1, FS_RemoveElement, FS_CardinalityType

(* A property of the empty set that passes from s without one element to s  *)
(* holds of every part of a finite set.                                     *)
LEMMA SubsetInduction ==
    ASSUME NEW S, IsFiniteSet(S), NEW Good, {} \in Good,
           \A s \in SUBSET S : s # {} /\ s \ {Pick(s)} \in Good => s \in Good
    PROVE  \A s \in SUBSET S : s \in Good
<1> DEFINE Sizes == {Cardinality(s) : s \in (SUBSET S) \ Good}
<1> SUFFICES ASSUME NEW s0 \in SUBSET S, s0 \notin Good PROVE FALSE
  OBVIOUS
<1>1. \A s \in SUBSET S : IsFiniteSet(s) /\ Cardinality(s) \in Nat
  BY FS_Subset, FS_CardinalityType
<1>2. Sizes \subseteq Nat /\ Sizes # {}  BY <1>1
<1>3. PICK n \in Sizes : \A k \in Sizes : n <= k  BY <1>2, LeastNumber
<1>4. PICK s \in (SUBSET S) \ Good : n = Cardinality(s)  BY <1>3
<1>5. s # {}  BY <1>4
<1>6. Cardinality(s \ {Pick(s)}) = Cardinality(s) - 1  BY <1>1, <1>5, PickFacts
<1>7. s \ {Pick(s)} \in (SUBSET S) \ Good  BY <1>4, <1>5
<1>8. Cardinality(s) - 1 \in Sizes  BY <1>6, <1>7
<1>9. QED BY <1>1, <1>3, <1>4, <1>8

LEMMA SumExists ==
    ASSUME NEW f, IsFiniteSet(DOMAIN f)
    PROVE  \E g : IsSum(f, g)
<1> DEFINE S == DOMAIN f
           Small(n) == {s \in SUBSET S : Cardinality(s) <= n}
           Sums(g, n) == g = [s \in Small(n) |->
                                 IF s = {} THEN 0 ELSE f[Pick(s)] + g[s \ {Pick(s)}]]
           Bad == {n \in Nat : ~ \E g : Sums(g, n)}
<1>1. \A s \in SUBSET S : IsFiniteSet(s) /\ Cardinality(s) \in Nat
  BY FS_Subset, FS_CardinalityType
<1>2. \E g : Sums(g, 0)
  <2>1. Small(0) = {{}}
    <3>1. \A s \in Small(0) : s = {}  BY <1>1, FS_EmptySet
    <3>2. {} \in Small(0)  BY FS_EmptySet
    <3>3. QED BY <3>1, <3>2
  <2>2. Sums([s \in Small(0) |-> 0], 0)  BY <2>1
  <2>3. QED BY <2>2
<1>3. ASSUME NEW n \in Nat, NEW g, Sums(g, n) PROVE \E h : Sums(h, n + 1)
  <2> DEFINE h == [s \in Small(n + 1) |->
                      IF s = {} THEN 0 ELSE f[Pick(s)] + g[s \ {Pick(s)}]]
  <2>1. ASSUME NEW s \in Small(n + 1), s # {} PROVE h[s \ {Pick(s)}] = g[s \ {Pick(s)}]
    <3> DEFINE t == s \ {Pick(s)}
    <3>1. t \in SUBSET S /\ Cardinality(t) = Cardinality(s) - 1 /\ Cardinality(s) \in Nat
      BY <1>1, <2>1, PickFacts
    <3>2. t \in Small(n) /\ t \in Small(n + 1)  BY <2>1, <3>1
    <3> HIDE DEF t, Small
    <3>3. h[t] = IF t = {} THEN 0 ELSE f[Pick(t)] + g[t \ {Pick(t)}]  BY <3>2
    <3>4. g[t] = IF t = {} THEN 0 ELSE f[Pick(t)] + g[t \ {Pick(t)}]  BY <3>2, <1>3
    <3>5. h[t] = g[t]  BY <3>3, <3>4
    <3>6. QED BY <3>5 DEF t
  <2>2. h = [s \in Small(n + 1) |->
                IF s = {} THEN 0 ELSE f[Pick(s)] + h[s \ {Pick(s)}]]
    <3>1. \A s \in Small(n + 1) : h[s] = IF s = {} THEN 0 ELSE f[Pick(s)] + h[s \ {Pick(s)}]
      BY <2>1
    <3> HIDE DEF Small
    <3>2. h = [s \in Small(n + 1) |-> h[s]]  OBVIOUS
    <3> HIDE DEF h
    <3>3. QED BY <3>1, <3>2
  <2>3. Sums(h, n + 1)  BY <2>2
  <2>4. QED BY <2>3
<1>4. Bad = {}
  <2> SUFFICES ASSUME Bad # {} PROVE FALSE
    OBVIOUS
  <2>1. PICK n \in Bad : \A k \in Bad : n <= k  BY LeastNumber
  <2>2. n \in Nat /\ n # 0 /\ ~ \E g : Sums(g, n)
    <3> HIDE DEF Sums
    <3>1. QED BY <1>2, <2>1
  <2>3. n - 1 \in Nat /\ n - 1 \notin Bad
    <3> HIDE DEF Bad, Sums
    <3>1. QED BY <2>1, <2>2
  <2>4. PICK g : Sums(g, n - 1)  BY <2>3
  <2>5. \E h : Sums(h, n - 1 + 1)
    <3> HIDE DEF Sums
    <3>1. QED BY <2>3, <2>4, <1>3
  <2>6. n - 1 + 1 = n  BY <2>2
  <2> HIDE DEF Sums
  <2>7. QED BY <2>2, <2>5, <2>6
<1>5. Cardinality(S) \in Nat /\ \A s \in SUBSET S : Cardinality(s) <= Cardinality(S)
  BY FS_Subset, FS_CardinalityType
<1>6. PICK g : Sums(g, Cardinality(S))
  <2> HIDE DEF Sums
  <2>1. QED BY <1>4, <1>5
<1>7. Small(Cardinality(S)) = SUBSET S  BY <1>5
<1>8. IsSum(f, g)  BY <1>6, <1>7 DEF IsSum
<1>9. QED BY <1>8

(* g sums f over each subset of S, index by index, and SumFunction over S. *)
Adds(f, S, g) ==
    /\ SumFunction(f) = g[S] /\ g[{}] = 0
    /\ \A s \in SUBSET S : s # {} => g[s] = f[Pick(s)] + g[s \ {Pick(s)}]

LEMMA SumFacts ==
    ASSUME NEW S, IsFiniteSet(S), NEW f, DOMAIN f = S
    PROVE  \E g : Adds(f, S, g)
<1> DEFINE g == CHOOSE h : IsSum(f, h)
<1>1. SumFunction(f) = g[S]
  BY DEF SumFunction, SumFunctionOnSet, FoldFunctionOnSet, MapThenFoldSet, IsSum, Pick
<1>2. IsSum(f, g)
  <2>1. IsFiniteSet(DOMAIN f)  OBVIOUS
  <2>2. QED BY <2>1, SumExists
<1> HIDE DEF g
<1>3. g = [s \in SUBSET S |->
              IF s = {} THEN 0 ELSE f[Pick(s)] + g[s \ {Pick(s)}]]
  BY <1>2 DEF IsSum
<1>4. {} \in SUBSET S  OBVIOUS
<1>5. g[{}] = 0  BY <1>3, <1>4
<1>6. \A s \in SUBSET S : s # {} => g[s] = f[Pick(s)] + g[s \ {Pick(s)}]
  BY <1>3
<1>7. QED BY <1>1, <1>5, <1>6 DEF Adds

LEMMA SumOfZeros ==
    ASSUME NEW S, IsFiniteSet(S)
    PROVE  SumFunction([x \in S |-> 0]) = 0
<1> DEFINE f == [x \in S |-> 0]
<1>1. DOMAIN f = S  OBVIOUS
<1>2. PICK g : Adds(f, S, g)
  <2> HIDE DEF f
  <2>1. QED BY <1>1, SumFacts
<1> DEFINE Good == {s \in SUBSET S : g[s] = 0}
<1>3. ASSUME NEW s \in SUBSET S, s # {}, s \ {Pick(s)} \in Good PROVE s \in Good
  <2>1. Pick(s) \in s  BY <1>3 DEF Pick
  <2>2. f[Pick(s)] = 0  BY <2>1
  <2>3. QED BY <1>2, <1>3, <2>2 DEF Adds
<1>4. {} \in Good  BY <1>2 DEF Adds
<1>5. \A s \in SUBSET S : s \in Good
  <2> HIDE DEF Good
  <2>1. QED BY <1>3, <1>4, SubsetInduction
<1>6. QED BY <1>2, <1>5 DEF Adds

(* Changing one value of a function changes its sum by the difference. *)
LEMMA SumChange ==
    ASSUME NEW S, IsFiniteSet(S), NEW f \in [S -> Int], NEW p \in S, NEW v \in Int
    PROVE  /\ SumFunction(f) \in Int
           /\ SumFunction([f EXCEPT ![p] = v]) = SumFunction(f) + v - f[p]
<1> DEFINE h == [f EXCEPT ![p] = v]
<1>1. DOMAIN f = S /\ DOMAIN h = S  OBVIOUS
<1>2. h[p] = v /\ h \in [S -> Int] /\ \A x \in S : x # p => h[x] = f[x]  OBVIOUS
<1> HIDE DEF h
<1>3. PICK g : Adds(f, S, g)  BY <1>1, SumFacts
<1>4. PICK k : Adds(h, S, k)  BY <1>1, SumFacts
<1> DEFINE Good == {s \in SUBSET S : /\ g[s] \in Int /\ k[s] \in Int
                                     /\ k[s] = g[s] + IF p \in s THEN v - f[p] ELSE 0}
<1>5. ASSUME NEW s \in SUBSET S, s # {}, s \ {Pick(s)} \in Good PROVE s \in Good
  <2> DEFINE x == Pick(s)
             t == s \ {x}
  <2>1. x \in s /\ x \in S  BY <1>5 DEF Pick
  <2>2. /\ g[t] \in Int /\ k[t] \in Int
        /\ k[t] = g[t] + IF p \in t THEN v - f[p] ELSE 0
    BY <1>5
  <2>3. g[s] = f[x] + g[t] /\ k[s] = h[x] + k[t]  BY <1>3, <1>4, <1>5 DEF Adds
  <2>4. p \in t <=> p \in s /\ p # x  OBVIOUS
  <2>5. x = p => p \in s  BY <2>1
  <2> HIDE DEF x, t
  <2>6. f[x] \in Int /\ h[x] \in Int /\ f[p] \in Int  BY <1>2, <2>1
  <2>7. g[s] \in Int /\ k[s] \in Int /\ k[s] = g[s] + IF p \in s THEN v - f[p] ELSE 0
    <3>1. CASE x = p  BY <1>2, <2>2, <2>3, <2>4, <2>5, <2>6, <3>1
    <3>2. CASE x # p
      <4>1. h[x] = f[x] /\ (p \in t <=> p \in s)  BY <1>2, <2>1, <2>4, <3>2
      <4>2. QED BY <2>2, <2>3, <2>6, <4>1
    <3>3. QED BY <3>1, <3>2
  <2>8. QED BY <2>7
<1>6. {} \in Good  BY <1>3, <1>4 DEF Adds
<1>7. \A s \in SUBSET S : s \in Good
  <2> HIDE DEF Good
  <2>1. QED BY <1>5, <1>6, SubsetInduction
<1>8. S \in Good  BY <1>7
<1>9. QED BY <1>3, <1>4, <1>8 DEF h, Adds

(* A non-empty set of numbers with a bound has a largest element. *)
LEMMA GreatestNumber ==
    ASSUME NEW n \in Nat, NEW T, T \subseteq 0 .. n, T # {}
    PROVE  \E m \in T : \A k \in T : m >= k
<1> DEFINE below == {n - k : k \in T}
<1>1. below \subseteq Nat /\ below # {}
  <2>1. \A k \in T : k \in 0 .. n /\ n - k \in Nat  OBVIOUS
  <2>2. QED BY <2>1
<1>2. PICK b \in below : \A c \in below : b <= c
  <2> HIDE DEF below
  <2>1. QED BY <1>1, LeastNumber
<1>3. PICK m \in T : b = n - m  BY <1>2
<1>4. \A k \in T : m >= k
  <2>1. ASSUME NEW k \in T PROVE m >= k
    <3>1. n - k \in below  BY <2>1
    <3>2. n - m <= n - k  BY <1>2, <1>3, <3>1
    <3>3. QED BY <3>2, <1>3
  <2>2. QED BY <2>1
<1>5. QED BY <1>3, <1>4

(* A property of 0 that passes from each number to the next one up to N     *)
(* holds of all of them.                                                    *)
LEMMA Climb ==
    ASSUME NEW N \in Nat, NEW Good, 0 \in Good,
           \A n \in 1 .. N : n - 1 \in Good => n \in Good
    PROVE  \A n \in 0 .. N : n \in Good
<1> DEFINE Bad == (0 .. N) \ Good
<1> SUFFICES ASSUME Bad # {} PROVE FALSE
  OBVIOUS
<1>1. Bad \subseteq Nat  OBVIOUS
<1>2. PICK n \in Bad : \A k \in Bad : n <= k
  <2> HIDE DEF Bad
  <2>1. QED BY <1>1, LeastNumber
<1>3. n \in 1 .. N  OBVIOUS
<1>4. n - 1 \in 0 .. N /\ n - 1 \notin Bad  BY <1>2, <1>3
<1>5. QED BY <1>3, <1>4

(* A value v that is changed step by step, N times: the function of what it *)
(* is after each step exists.                                               *)
Iteration(g, N, v, step) == g[0] = v /\ \A n \in 1 .. N : g[n] = step[n][g[n - 1]]

LEMMA Iterates ==
    ASSUME NEW N \in Nat, NEW V, NEW v \in V, NEW step \in [1 .. N -> [V -> V]]
    PROVE  \E g \in [0 .. N -> V] : Iteration(g, N, v, step)
<1> DEFINE Good == {n \in 0 .. N : \E g \in [0 .. n -> V] : Iteration(g, n, v, step)}
<1>1. 0 \in Good
  <2>1. [k \in 0 .. 0 |-> v] \in [0 .. 0 -> V] /\ Iteration([k \in 0 .. 0 |-> v], 0, v, step)
    BY DEF Iteration
  <2>2. 0 \in 0 .. N  OBVIOUS
  <2>3. QED BY <2>1, <2>2
<1>2. ASSUME NEW n \in 1 .. N, n - 1 \in Good PROVE n \in Good
  <2>1. PICK g \in [0 .. n - 1 -> V] : Iteration(g, n - 1, v, step)  BY <1>2
  <2> DEFINE h == [k \in 0 .. n |-> IF k = n THEN step[n][g[n - 1]] ELSE g[k]]
  <2>2. h \in [0 .. n -> V]  OBVIOUS
  <2>3. ASSUME NEW k \in 1 .. n PROVE h[k] = step[k][h[k - 1]]
    <3>1. h[k - 1] = g[k - 1]  OBVIOUS
    <3>2. CASE k = n  BY <3>1, <3>2
    <3>3. CASE k # n
      <4>1. k \in 1 .. n - 1 /\ h[k] = g[k]  BY <3>3
      <4>2. QED BY <2>1, <3>1, <4>1 DEF Iteration
    <3>4. QED BY <3>2, <3>3
  <2>4. h[0] = v  BY <2>1 DEF Iteration
  <2> HIDE DEF h
  <2>5. Iteration(h, n, v, step)  BY <2>3, <2>4 DEF Iteration
  <2>6. QED BY <2>2, <2>5
<1>3. N \in Good
  <2>1. \A n \in 1 .. N : n - 1 \in Good => n \in Good  BY <1>2
  <2> HIDE DEF Good
  <2>2. \A n \in 0 .. N : n \in Good  BY <1>1, <2>1, Climb
  <2>3. QED BY <2>2
<1>4. QED BY <1>3

(* A function with numbers as values is greatest somewhere on a finite set. *)
LEMMA GreatestValue ==
    ASSUME NEW S, IsFiniteSet(S), S # {}, NEW f, \A x \in S : f[x] \in Nat
    PROVE  \E m \in S : \A n \in S : f[n] <= f[m]
<1> DEFINE Good == {s \in SUBSET S : s = {} \/ \E m \in s : \A n \in s : f[n] <= f[m]}
<1>1. {} \in Good  OBVIOUS
<1>2. ASSUME NEW s \in SUBSET S, s # {}, s \ {Pick(s)} \in Good PROVE s \in Good
  <2> DEFINE x == Pick(s)
  <2>1. x \in s  BY <1>2 DEF Pick
  <2> HIDE DEF x
  <2>2. s \ {x} = {} \/ \E m \in s \ {x} : \A n \in s \ {x} : f[n] <= f[m]  BY <1>2 DEF x
  <2>3. CASE s \ {x} = {}
    <3>1. \A n \in s : f[n] <= f[x]  BY <2>1, <2>3
    <3>2. QED BY <2>1, <3>1
  <2>4. CASE \E m \in s \ {x} : \A n \in s \ {x} : f[n] <= f[m]
    <3>1. PICK m \in s \ {x} : \A n \in s \ {x} : f[n] <= f[m]  BY <2>4
    <3>2. f[m] \in Nat /\ f[x] \in Nat /\ \A n \in s : f[n] \in Nat  BY <2>1, <3>1
    <3>3. CASE f[x] <= f[m]
      <4>1. \A n \in s : f[n] <= f[m]  BY <3>1, <3>3
      <4>2. QED BY <4>1
    <3>4. CASE f[m] < f[x]
      <4>1. \A n \in s : f[n] <= f[x]  BY <3>1, <3>2, <3>4
      <4>2. QED BY <2>1, <4>1
    <3>5. QED BY <3>2, <3>3, <3>4
  <2>5. QED BY <2>2, <2>3, <2>4
<1>3. S \in Good
  <2>1. \A s \in SUBSET S : s # {} /\ s \ {Pick(s)} \in Good => s \in Good  BY <1>2
  <2> HIDE DEF Good
  <2>2. QED BY <1>1, <2>1, SubsetInduction
<1>4. QED BY <1>3

=============================================================================
