----------------------- MODULE WorkspaceLineageProofs -----------------------
(***************************************************************************)
(* Proofs about WorkspaceLineage, for every workspace: the graph the API   *)
(* builds and what the filters leave of it is closed; the focus is the     *)
(* ball around the selected node and the impact what is reachable from it; *)
(* the layout and the order of the steps follow the data.  Each loop of    *)
(* the code is a function of its rounds, and its invariant is carried      *)
(* along by LoopInvariant.                                                 *)
(***************************************************************************)
EXTENDS WorkspaceLineage, FiniteSetTheorems, SequenceTheorems, WellFoundedInduction, TLAPS

-----------------------------------------------------------------------------
(* Induction, minima, maxima and loops *)

\* A set of naturals has a least element.
LEMMA LeastElement ==
    ASSUME NEW T, T \subseteq Nat, T # {}
    PROVE  \E m \in T : \A k \in T : m <= k
<1>1. IsWellFoundedOn(OpToRel(<, Nat), Nat)
  BY NatLessThanWellFounded, Zenon
<1>2. PICK m \in T : \A k \in T : ~(<<k, m>> \in OpToRel(<, Nat))
  BY <1>1, WFMin, Zenon
<1>3. \A k \in T : ~(k < m)
  BY <1>2 DEF OpToRel
<1> QED
  BY <1>3

\* Induction over the naturals, on a set instead of a predicate.
LEMMA SetInduction ==
    ASSUME NEW S, 0 \in S, \A n \in Nat : n \in S => n + 1 \in S
    PROVE  Nat \subseteq S
<1> SUFFICES ASSUME Nat \ S # {} PROVE FALSE
  OBVIOUS
<1>1. PICK m \in Nat \ S : \A k \in Nat \ S : m <= k
  BY LeastElement
<1>2. m # 0 /\ m - 1 \in Nat /\ m - 1 \in S
  BY <1>1
<1> QED
  BY <1>1, <1>2

\* The least and the greatest number of a set.
LEMMA MinOf ==
    ASSUME NEW S \in SUBSET Nat, S # {}
    PROVE  Min(S) \in S /\ \A y \in S : Min(S) <= y
<1>1. \E x \in S : \A y \in S : x =< y
  BY LeastElement
<1> QED
  BY <1>1, Zenon DEF Min

\* So does a bounded one have a greatest.
LEMMA MaxOf ==
    ASSUME NEW S \in SUBSET Nat, S # {}, NEW b \in Nat, \A y \in S : y <= b
    PROVE  Max(S) \in S /\ \A y \in S : y <= Max(S)
<1> DEFINE T == {u \in Nat : \A y \in S : y <= u}
<1>1. PICK m \in T : \A k \in T : m <= k
  <2>1. T # {} /\ T \subseteq Nat
    OBVIOUS
  <2> HIDE DEF T
  <2> QED
    BY <2>1, LeastElement
<1>2. m \in S
  <2> SUFFICES ASSUME m \notin S PROVE FALSE
    OBVIOUS
  <2>1. \A y \in S : y <= m /\ y # m /\ y \in Nat
    OBVIOUS
  <2>0. m \in Nat /\ S # {}
    OBVIOUS
  <2>2. m # 0
    <3>1. PICK y \in S : y <= m /\ y # m /\ y \in Nat
      BY <2>0, <2>1
    <3> HIDE DEF T
    <3> QED
      BY <2>0, <3>1
  <2>3. m - 1 \in T
    BY <2>1, <2>2
  <2> HIDE DEF T
  <2>4. m <= m - 1
    BY <1>1, <2>3
  <2> QED
    BY <2>0, <2>4
<1>3. \E x \in S : \A y \in S : x >= y
  BY <1>2
<1>4. Max(S) \in S /\ \A y \in S : Max(S) >= y
  BY <1>3, Zenon DEF Max
<1> QED
  BY <1>4

\* Every loop over states of S has a run.
IsRun(f, S, a, h, K) == f \in [0..K -> S] /\ f[0] = a /\ \A k \in 1..K : f[k] = h[f[k - 1]]

\* What a loop holds round after round, for every number of rounds.
LEMMA LoopRuns ==
    ASSUME NEW S, NEW a \in S, NEW h \in [S -> S], NEW K \in Nat
    PROVE  \E f : IsRun(f, S, a, h, K)
<1> DEFINE Runs(n) == \E f \in [0..n -> S] : f[0] = a /\ \A k \in 1..n : f[k] = h[f[k - 1]]
           T == {n \in Nat : Runs(n)}
<1>1. 0 \in T
  <2> DEFINE f == [k \in 0..0 |-> a]
  <2>1. f \in [0..0 -> S] /\ f[0] = a /\ \A k \in 1..0 : f[k] = h[f[k - 1]]
    OBVIOUS
  <2> QED
    BY <2>1
<1>2. ASSUME NEW n \in Nat, n \in T PROVE n + 1 \in T
  <2>1. PICK f \in [0..n -> S] : f[0] = a /\ \A k \in 1..n : f[k] = h[f[k - 1]]
    BY <1>2
  <2> DEFINE g == [k \in 0..(n + 1) |-> IF k = n + 1 THEN h[f[n]] ELSE f[k]]
  <2>2. g \in [0..(n + 1) -> S] /\ g[n + 1] = h[f[n]] /\ \A k \in 0..n : g[k] = f[k]
    OBVIOUS
  <2> HIDE DEF g
  <2>3. g[0] = a
    BY <2>1, <2>2
  <2>4. \A k \in 1..(n + 1) : g[k] = h[g[k - 1]]
    <3> TAKE k \in 1..(n + 1)
    <3>1. k - 1 \in 0..n
      OBVIOUS
    <3>2. CASE k = n + 1
      BY <2>2, <3>2
    <3>3. CASE k # n + 1
      <4>1. k \in 1..n /\ k \in 0..n
        BY <3>3
      <4> QED
        BY <2>1, <2>2, <3>1, <4>1
    <3> QED
      BY <3>2, <3>3
  <2>5. Runs(n + 1)
    BY <2>2, <2>3, <2>4
  <2> HIDE DEF Runs
  <2> QED
    BY <2>5
<1> HIDE DEF T
<1>3. Nat \subseteq T
  BY <1>1, <1>2, SetInduction
<1> QED
  BY <1>3 DEF T, IsRun

\* What the start of a loop has and every round keeps, its result has: Inv is the
\* set of the rounds with their states.
LEMMA LoopInvariant ==
    ASSUME NEW S, NEW a \in S, NEW h \in [S -> S], NEW K \in Nat, NEW Inv, <<0, a>> \in Inv,
           \A k \in 0..(K - 1) : \A st \in S : <<k, st>> \in Inv => <<k + 1, h[st]>> \in Inv
    PROVE  Iterate(h, a, K) \in S /\ <<K, Iterate(h, a, K)>> \in Inv
<1> DEFINE run == CHOOSE f : f = [k \in 0..K |-> IF k = 0 THEN a ELSE h[f[k - 1]]]
<1>1. \E f : f = [k \in 0..K |-> IF k = 0 THEN a ELSE h[f[k - 1]]]
  <2>1. PICK f : IsRun(f, S, a, h, K)
    BY LoopRuns
  <2>2. \A k \in 0..K : f[k] = IF k = 0 THEN a ELSE h[f[k - 1]]
    <3> TAKE k \in 0..K
    <3>1. CASE k = 0
      BY <2>1, <3>1 DEF IsRun
    <3>2. CASE k # 0
      <4>1. k \in 1..K
        BY <3>2
      <4> QED
        BY <2>1, <3>2, <4>1 DEF IsRun
    <3> QED
      BY <3>1, <3>2
  <2>3. f \in [0..K -> S]
    BY <2>1 DEF IsRun
  <2>4. f = [k \in 0..K |-> IF k = 0 THEN a ELSE h[f[k - 1]]]
    BY <2>2, <2>3
  <2> QED
    BY <2>4
<1>2. run = [k \in 0..K |-> IF k = 0 THEN a ELSE h[run[k - 1]]]
  BY <1>1, Zenon
<1>3. Iterate(h, a, K) = run[K]
  BY Zenon DEF Iterate
<1> HIDE DEF run
<1> DEFINE T == {n \in Nat : n <= K => run[n] \in S /\ <<n, run[n]>> \in Inv}
<1>4. 0 \in T
  <2>1. run[0] = a
    BY <1>2
  <2> QED
    BY <2>1
<1>5. ASSUME NEW n \in Nat, n \in T PROVE n + 1 \in T
  <2> SUFFICES ASSUME n + 1 <= K PROVE run[n + 1] \in S /\ <<n + 1, run[n + 1]>> \in Inv
    OBVIOUS
  <2>1. run[n] \in S /\ <<n, run[n]>> \in Inv
    BY <1>5
  <2>2. n + 1 \in 0..K /\ n + 1 # 0 /\ (n + 1) - 1 = n /\ n \in 0..(K - 1)
    OBVIOUS
  <2>3. run[n + 1] = h[run[n]]
    BY <1>2, <2>2
  <2> QED
    BY <2>1, <2>2, <2>3
<1> HIDE DEF T
<1>6. Nat \subseteq T
  BY <1>4, <1>5, SetInduction
<1>7. K \in T
  BY <1>6
<1> QED
  BY <1>3, <1>7 DEF T

\* The elements of a flattened sequence of sequences.
IsFlat(f, s, X) ==
    /\ f \in [1..Len(s) -> Seq(X)]
    /\ \A k \in 1..Len(s) : f[k] = IF k = 1 THEN s[k] ELSE f[k - 1] \o s[k]

\* A flattening of any sequence of sequences.
LEMMA FlatRuns ==
    ASSUME NEW X, NEW s \in Seq(Seq(X))
    PROVE  \E f : IsFlat(f, s, X)
<1> DEFINE Flat(n) == \E f \in [1..n -> Seq(X)] :
                        \A k \in 1..n : f[k] = IF k = 1 THEN s[k] ELSE f[k - 1] \o s[k]
           T == {n \in Nat : n <= Len(s) => Flat(n)}
<1>1. 0 \in T
  <2> DEFINE f == [k \in 1..0 |-> <<>>]
  <2>1. f \in [1..0 -> Seq(X)] /\ \A k \in 1..0 : f[k] = IF k = 1 THEN s[k] ELSE f[k - 1] \o s[k]
    OBVIOUS
  <2> QED
    BY <2>1
<1>2. ASSUME NEW n \in Nat, n \in T PROVE n + 1 \in T
  <2> SUFFICES ASSUME n + 1 <= Len(s) PROVE Flat(n + 1)
    <3> HIDE DEF Flat
    <3> QED
      OBVIOUS
  <2>0. Flat(n)
    <3>1. n <= Len(s)
      OBVIOUS
    <3> HIDE DEF Flat
    <3> QED
      BY <1>2, <3>1
  <2>1. PICK f \in [1..n -> Seq(X)] : \A k \in 1..n : f[k] = IF k = 1 THEN s[k] ELSE f[k - 1] \o s[k]
    BY <2>0
  <2> DEFINE new == IF n = 0 THEN s[n + 1] ELSE f[n] \o s[n + 1]
             g == [k \in 1..(n + 1) |-> IF k = n + 1 THEN new ELSE f[k]]
  <2>2. s[n + 1] \in Seq(X)
    <3>1. n + 1 \in 1..Len(s)
      OBVIOUS
    <3> QED
      BY <3>1, ElementOfSeq
  <2>3. new \in Seq(X)
    <3>1. CASE n = 0
      BY <2>2, <3>1
    <3>2. CASE n # 0
      <4>1. f[n] \in Seq(X)
        BY <3>2
      <4>2. f[n] \o s[n + 1] \in Seq(X)
        BY <2>2, <4>1, ConcatProperties
      <4> QED
        BY <3>2, <4>2
    <3> QED
      BY <3>1, <3>2
  <2>4. g[n + 1] = new /\ \A k \in 1..n : g[k] = f[k]
    <3> HIDE DEF new
    <3> QED
      OBVIOUS
  <2>5. g \in [1..(n + 1) -> Seq(X)]
    <3> HIDE DEF new
    <3> QED
      BY <2>3
  <2> HIDE DEF g
  <2>6. \A k \in 1..(n + 1) : g[k] = IF k = 1 THEN s[k] ELSE g[k - 1] \o s[k]
    <3> TAKE k \in 1..(n + 1)
    <3>1. CASE k = n + 1
      <4>1. CASE n = 0
        BY <2>4, <3>1, <4>1
      <4>2. CASE n # 0
        <5>1. k - 1 = n /\ n \in 1..n /\ k # 1
          BY <3>1, <4>2
        <5> QED
          BY <2>4, <3>1, <4>2, <5>1
      <4> QED
        BY <4>1, <4>2
    <3>2. CASE k # n + 1
      <4>1. k \in 1..n
        BY <3>2
      <4>2. CASE k = 1
        BY <2>1, <2>4, <4>1, <4>2
      <4>3. CASE k # 1
        <5>1. k - 1 \in 1..n
          BY <4>1, <4>3
        <5> QED
          BY <2>1, <2>4, <4>1, <4>3, <5>1
      <4> QED
        BY <4>2, <4>3
    <3> QED
      BY <3>1, <3>2
  <2> QED
    BY <2>5, <2>6
<1> HIDE DEF T
<1>3. Nat \subseteq T
  BY <1>1, <1>2, SetInduction
<1>4. Flat(Len(s))
  <2> HIDE DEF Flat
  <2>1. Len(s) \in Nat
    OBVIOUS
  <2> QED
    BY <1>3, <2>1 DEF T
<1> QED
  BY <1>4 DEF IsFlat

-----------------------------------------------------------------------------
(* Sequences and their elements *)

\* Intervals tell their lengths.
LEMMA SameLength ==
    ASSUME NEW a \in Nat, NEW b \in Nat, 1..a = 1..b
    PROVE  a = b
<1>1. \A i \in Nat : 1 <= i /\ i <= a <=> 1 <= i /\ i <= b
  OBVIOUS
<1> QED
  BY <1>1

\* What a sequence holds.
LEMMA Elements ==
    ASSUME NEW X, NEW s \in Seq(X)
    PROVE  /\ Len(s) \in Nat /\ DOMAIN s = 1..Len(s) /\ ToSet(s) \subseteq X /\ IsFiniteSet(ToSet(s))
           /\ s \in [1..Len(s) -> X] /\ s \in Seq(ToSet(s))
<1>1. Len(s) \in Nat /\ DOMAIN s = 1..Len(s) /\ s \in [1..Len(s) -> X]
  BY LenProperties
<1>2. ToSet(s) \subseteq X
  BY <1>1 DEF ToSet
<1>3. IsFiniteSet(ToSet(s))
  <2> DEFINE f == [i \in 1..Len(s) |-> s[i]]
  <2>1. f \in Surjection(1..Len(s), ToSet(s))
    BY <1>1 DEF Surjection, ToSet
  <2>2. IsFiniteSet(1..Len(s))
    BY <1>1, FS_Interval
  <2> HIDE DEF f
  <2> QED
    BY <2>1, <2>2, FS_Surjection
<1>4. s \in Seq(ToSet(s))
  <2>1. s = [i \in 1..Len(s) |-> s[i]] /\ \A i \in 1..Len(s) : s[i] \in ToSet(s)
    BY <1>1 DEF ToSet
  <2>2. [i \in 1..Len(s) |-> s[i]] \in Seq(ToSet(s))
    BY <1>1, <2>1, IsASeq
  <2> QED
    BY <2>1, <2>2
<1> QED
  BY <1>1, <1>2, <1>3, <1>4

\* An element of a sequence is somewhere in it.
LEMMA InToSet ==
    ASSUME NEW X, NEW s \in Seq(X), NEW x, x \in ToSet(s)
    PROVE  \E i \in 1..Len(s) : s[i] = x
BY Elements DEF ToSet

\* What a concatenation holds.
LEMMA ConcatElements ==
    ASSUME NEW X, NEW q \in Seq(X), NEW r \in Seq(X)
    PROVE  /\ q \o r \in Seq(X) /\ ToSet(q \o r) = ToSet(q) \cup ToSet(r)
           /\ IsInjective(q) /\ IsInjective(r) /\ ToSet(q) \cap ToSet(r) = {} => IsInjective(q \o r)
<1>1. /\ q \o r \in Seq(X) /\ Len(q \o r) = Len(q) + Len(r)
      /\ \A i \in 1..(Len(q) + Len(r)) : (q \o r)[i] = IF i <= Len(q) THEN q[i] ELSE r[i - Len(q)]
  BY ConcatProperties
<1>2. /\ Len(q) \in Nat /\ Len(r) \in Nat /\ DOMAIN q = 1..Len(q) /\ DOMAIN r = 1..Len(r)
      /\ DOMAIN (q \o r) = 1..(Len(q) + Len(r))
  BY <1>1, Elements
<1> DEFINE t == q \o r
           m == Len(q)
           n == Len(r)
<1> HIDE DEF t, m, n
<1>3. /\ DOMAIN t = 1..(m + n) /\ DOMAIN q = 1..m /\ DOMAIN r = 1..n /\ m \in Nat /\ n \in Nat
      /\ \A i \in 1..m : t[i] = q[i]
      /\ \A i \in 1..n : t[m + i] = r[i]
  <2>1. /\ DOMAIN t = 1..(m + n) /\ DOMAIN q = 1..m /\ DOMAIN r = 1..n /\ m \in Nat /\ n \in Nat
        /\ \A i \in 1..(m + n) : t[i] = IF i <= m THEN q[i] ELSE r[i - m]
    BY <1>1, <1>2 DEF t, m, n
  <2>2. ASSUME NEW i \in 1..m PROVE t[i] = q[i]
    BY <2>1
  <2>3. ASSUME NEW i \in 1..n PROVE t[m + i] = r[i]
    <3>1. m + i \in 1..(m + n) /\ ~(m + i <= m) /\ (m + i) - m = i
      BY <2>1
    <3> QED
      BY <2>1, <3>1
  <2> QED
    BY <2>1, <2>2, <2>3
<1>4. \A i \in 1..(m + n) : i \in 1..m \/ \E j \in 1..n : i = m + j
  <2> TAKE i \in 1..(m + n)
  <2>1. CASE i <= m
    BY <1>3, <2>1
  <2>2. CASE ~(i <= m)
    <3>1. i - m \in 1..n /\ i = m + (i - m)
      BY <1>3, <2>2
    <3> QED
      BY <3>1
  <2> QED
    BY <2>1, <2>2
<1>5. ToSet(t) = ToSet(q) \cup ToSet(r)
  <2>1. ToSet(t) \subseteq ToSet(q) \cup ToSet(r)
    <3> SUFFICES ASSUME NEW i \in 1..(m + n) PROVE t[i] \in ToSet(q) \cup ToSet(r)
      BY <1>3 DEF ToSet
    <3>1. CASE i \in 1..m
      BY <1>3, <3>1 DEF ToSet
    <3>2. CASE \E j \in 1..n : i = m + j
      BY <1>3, <3>2 DEF ToSet
    <3> QED
      BY <1>4, <3>1, <3>2
  <2>2. \A i \in 1..m : i \in 1..(m + n)
    BY <1>3
  <2>3. \A i \in 1..n : m + i \in 1..(m + n)
    BY <1>3
  <2>4. ToSet(q) \subseteq ToSet(t)
    <3> SUFFICES ASSUME NEW i \in 1..m PROVE q[i] \in ToSet(t)
      BY <1>3 DEF ToSet
    <3> QED
      BY <1>3, <2>2 DEF ToSet
  <2>5. ToSet(r) \subseteq ToSet(t)
    <3> SUFFICES ASSUME NEW i \in 1..n PROVE r[i] \in ToSet(t)
      BY <1>3 DEF ToSet
    <3>1. m + i \in DOMAIN t /\ t[m + i] = r[i]
      BY <1>3, <2>3
    <3> QED
      BY <3>1 DEF ToSet
  <2> QED
    BY <2>1, <2>4, <2>5
<1>6. ASSUME IsInjective(q), IsInjective(r), ToSet(q) \cap ToSet(r) = {} PROVE IsInjective(t)
  <2> SUFFICES ASSUME NEW a \in 1..(m + n), NEW b \in 1..(m + n), t[a] = t[b] PROVE a = b
    BY <1>3 DEF IsInjective
  <2>1. \A i \in 1..m : t[i] = q[i] /\ t[i] \in ToSet(q)
    BY <1>3 DEF ToSet
  <2>2. \A i \in 1..n : t[m + i] = r[i] /\ t[m + i] \in ToSet(r)
    BY <1>3 DEF ToSet
  <2>3. CASE a \in 1..m /\ b \in 1..m
    BY <1>3, <1>6, <2>1, <2>3 DEF IsInjective
  <2>4. CASE a \in 1..m /\ \E j \in 1..n : b = m + j
    BY <1>6, <2>1, <2>2, <2>4
  <2>5. CASE b \in 1..m /\ \E j \in 1..n : a = m + j
    BY <1>6, <2>1, <2>2, <2>5
  <2>6. CASE (\E j \in 1..n : a = m + j) /\ (\E j \in 1..n : b = m + j)
    <3>1. PICK j \in 1..n : a = m + j
      BY <2>6
    <3>2. PICK k \in 1..n : b = m + k
      BY <2>6
    <3>3. r[j] = r[k]
      BY <2>2, <3>1, <3>2
    <3>4. j = k
      BY <1>3, <1>6, <3>3 DEF IsInjective
    <3> QED
      BY <3>1, <3>2, <3>4
  <2> QED
    BY <1>4, <2>3, <2>4, <2>5, <2>6
<1> QED
  BY <1>1, <1>5, <1>6 DEF t

\* A sequence of one element.
LEMMA SingletonElements ==
    ASSUME NEW X, NEW x \in X
    PROVE  <<x>> \in Seq(X) /\ ToSet(<<x>>) = {x} /\ IsInjective(<<x>>) /\ Len(<<x>>) = 1
<1>1. <<x>> \in Seq(X) /\ Len(<<x>>) = 1 /\ DOMAIN <<x>> = 1..1 /\ <<x>>[1] = x
  OBVIOUS
<1>2. 1..1 = {1}
  OBVIOUS
<1>3. DOMAIN <<x>> = {1}
  BY <1>1, <1>2
<1> QED
  BY <1>1, <1>3 DEF ToSet, IsInjective

\* The empty sequence.
LEMMA EmptyElements ==
    \A X : <<>> \in Seq(X) /\ ToSet(<<>>) = {} /\ IsInjective(<<>>) /\ Len(<<>>) = 0 /\ DOMAIN <<>> = {}
<1>1. Len(<<>>) = 0 /\ DOMAIN <<>> = {}
  OBVIOUS
<1> QED
  BY <1>1, EmptySeq DEF ToSet, IsInjective

\* The head of a sequence and the rest.
LEMMA TailElements ==
    ASSUME NEW X, NEW q \in Seq(X), q # <<>>
    PROVE  /\ Head(q) \in ToSet(q) /\ Tail(q) \in Seq(X) /\ Len(Tail(q)) = Len(q) - 1 /\ Len(q) > 0
           /\ Head(q) = q[1]
           /\ \A i \in 1..(Len(q) - 1) : Tail(q)[i] = q[i + 1]
           /\ ToSet(q) = {Head(q)} \cup ToSet(Tail(q))
           /\ IsInjective(q) => IsInjective(Tail(q)) /\ Head(q) \notin ToSet(Tail(q))
<1>1. /\ Tail(q) \in Seq(X) /\ Len(Tail(q)) = Len(q) - 1
      /\ \A i \in 1..Len(Tail(q)) : Tail(q)[i] = q[i + 1]
  BY HeadTailProperties
<1>2. Len(q) \in Nat /\ Len(q) # 0 /\ DOMAIN q = 1..Len(q) /\ DOMAIN Tail(q) = 1..Len(Tail(q))
  BY <1>1, Elements, EmptySeq
<1>3. Head(q) = q[1]
  OBVIOUS
<1> DEFINE t == Tail(q)
           n == Len(q) - 1
<1>4. /\ n \in Nat /\ DOMAIN q = 1..(n + 1) /\ DOMAIN t = 1..n /\ \A i \in 1..n : t[i] = q[i + 1]
  BY <1>1, <1>2
<1> HIDE DEF t, n
<1>5. ToSet(q) = {q[1]} \cup ToSet(t)
  <2>1. 1 \in 1..(n + 1) /\ \A i \in 1..n : i + 1 \in 1..(n + 1)
    BY <1>4
  <2>2. \A i \in 1..(n + 1) : i = 1 \/ (i - 1 \in 1..n /\ (i - 1) + 1 = i)
    BY <1>4
  <2>3. ToSet(q) \subseteq {q[1]} \cup ToSet(t)
    <3> SUFFICES ASSUME NEW i \in 1..(n + 1), i # 1 PROVE q[i] \in ToSet(t)
      BY <1>4 DEF ToSet
    <3>1. i - 1 \in 1..n /\ t[i - 1] = q[i]
      BY <1>4, <2>2
    <3> QED
      BY <1>4, <3>1 DEF ToSet
  <2>4. ToSet(t) \subseteq ToSet(q)
    BY <1>4, <2>1 DEF ToSet
  <2>5. q[1] \in ToSet(q)
    BY <1>4, <2>1 DEF ToSet
  <2> QED
    BY <2>3, <2>4, <2>5
<1>6. ASSUME IsInjective(q) PROVE IsInjective(t) /\ q[1] \notin ToSet(t)
  <2>1. \A a, b \in 1..(n + 1) : q[a] = q[b] => a = b
    BY <1>4, <1>6 DEF IsInjective
  <2>2. 1 \in 1..(n + 1) /\ \A i \in 1..n : i + 1 \in 1..(n + 1) /\ i + 1 # 1
    BY <1>4
  <2>3. IsInjective(t)
    <3> SUFFICES ASSUME NEW a \in 1..n, NEW b \in 1..n, t[a] = t[b] PROVE a = b
      BY <1>4 DEF IsInjective
    <3>1. a + 1 = b + 1
      BY <1>4, <2>1, <2>2
    <3> QED
      BY <3>1
  <2>4. ASSUME NEW i \in 1..n PROVE t[i] # q[1]
    BY <1>4, <2>1, <2>2
  <2> QED
    BY <1>4, <2>3, <2>4 DEF ToSet
<1>7. \A i \in 1..(Len(q) - 1) : Tail(q)[i] = q[i + 1]
  BY <1>1
<1> QED
  BY <1>1, <1>2, <1>3, <1>5, <1>6, <1>7 DEF t

\* A sequence of the elements of a finite set.
LEMMA SetToSeqElements ==
    ASSUME NEW S, IsFiniteSet(S)
    PROVE  /\ SetToSeq(S) \in Seq(S) /\ ToSet(SetToSeq(S)) = S /\ IsInjective(SetToSeq(S))
           /\ Len(SetToSeq(S)) = Cardinality(S) /\ Cardinality(S) \in Nat
<1> DEFINE n == Cardinality(S)
<1>1. n \in Nat /\ ExistsBijection(1..n, S)
  BY FS_CardinalityType
<1>2. PICK f \in [1..n -> S] : IsInjective(f)
  BY <1>1 DEF ExistsBijection, Bijection, Injection
<1> DEFINE s == SetToSeq(S)
<1>3. s \in [1..n -> S] /\ IsInjective(s)
  BY <1>2, Zenon DEF SetToSeq
<1>4. IsFiniteSet(1..n) /\ Cardinality(1..n) = n
  BY <1>1, FS_Interval
<1>5. s \in Surjection(1..n, S)
  <2>1. s \in Injection(1..n, S)
    BY <1>3 DEF Injection
  <2> HIDE DEF s, n
  <2>2. Cardinality(1..n) = Cardinality(S)
    BY <1>4 DEF n
  <2> QED
    BY <2>1, <2>2, FS_Injection
<1>6. ToSet(s) = S
  BY <1>3, <1>5 DEF Surjection, ToSet
<1>7. s \in Seq(S) /\ Len(s) = n
  <2>1. s = [i \in 1..n |-> s[i]] /\ \A i \in 1..n : s[i] \in S
    BY <1>3
  <2> HIDE DEF s, n
  <2>2. [i \in 1..n |-> s[i]] \in Seq(S)
    BY <1>1, <2>1, IsASeq
  <2>3. s \in Seq(S)
    BY <2>1, <2>2
  <2>4. DOMAIN s = 1..Len(s) /\ Len(s) \in Nat /\ DOMAIN s = 1..n
    BY <1>3, <2>3, Elements
  <2>5. Len(s) = n
    BY <1>1, <2>4, SameLength
  <2> QED
    BY <2>3, <2>5
<1> QED
  BY <1>1, <1>3, <1>6, <1>7

-----------------------------------------------------------------------------
(* Flattening and filtering *)

\* FlattenSeq is the flattening, whichever function the fold chose.
LEMMA FlattenIs ==
    ASSUME NEW X, NEW s \in Seq(Seq(X)), s # <<>>
    PROVE  \E f : IsFlat(f, s, X) /\ FlattenSeq(s) = f[Len(s)]
<1> DEFINE flat == CHOOSE f : f = [i \in 1..Len(s) |-> IF i = 1 THEN s[i] ELSE f[i - 1] \o s[i]]
<1>1. PICK f : IsFlat(f, s, X)
  BY FlatRuns
<1>2. f = [i \in 1..Len(s) |-> IF i = 1 THEN s[i] ELSE f[i - 1] \o s[i]]
  BY <1>1 DEF IsFlat
<1>3. flat = [i \in 1..Len(s) |-> IF i = 1 THEN s[i] ELSE flat[i - 1] \o s[i]]
  BY <1>2, Zenon
<1>4. Len(s) # 0 /\ Len(s) \in Nat
  BY EmptySeq, Elements
<1>5. FlattenSeq(s) = flat[Len(s)]
  BY <1>4, Zenon DEF FlattenSeq
<1> HIDE DEF flat
<1> DEFINE T == {n \in Nat : n \in 1..Len(s) => flat[n] \in Seq(X)}
<1>6. 0 \in T
  OBVIOUS
<1>7. ASSUME NEW n \in Nat, n \in T PROVE n + 1 \in T
  <2> SUFFICES ASSUME n + 1 \in 1..Len(s) PROVE flat[n + 1] \in Seq(X)
    OBVIOUS
  <2>1. s[n + 1] \in Seq(X)
    BY ElementOfSeq
  <2>2. CASE n = 0
    <3>1. flat[n + 1] = s[n + 1]
      BY <1>3, <2>2
    <3> QED
      BY <2>1, <3>1
  <2>3. CASE n # 0
    <3>1. n \in 1..Len(s) /\ n + 1 # 1 /\ (n + 1) - 1 = n
      BY <1>4, <2>3
    <3>2. flat[n + 1] = flat[n] \o s[n + 1]
      BY <1>3, <3>1
    <3>3. flat[n] \in Seq(X)
      BY <1>7, <3>1
    <3> QED
      BY <2>1, <3>2, <3>3, ConcatProperties
  <2> QED
    BY <2>2, <2>3
<1> HIDE DEF T
<1>8. Nat \subseteq T
  BY <1>6, <1>7, SetInduction
<1>9. \A n \in 1..Len(s) : flat[n] \in Seq(X)
  <2>1. \A n \in 1..Len(s) : n \in Nat
    BY <1>4
  <2> QED
    BY <1>8, <2>1 DEF T
<1>10. IsFlat(flat, s, X)
  BY <1>3, <1>9 DEF IsFlat
<1> QED
  BY <1>5, <1>10

\* A flattened sequence has what its parts have.
LEMMA FlattenElements ==
    ASSUME NEW X, NEW s \in Seq(Seq(X))
    PROVE  FlattenSeq(s) \in Seq(X) /\ ToSet(FlattenSeq(s)) = UNION {ToSet(s[k]) : k \in DOMAIN s}
<1>0. Len(s) \in Nat /\ DOMAIN s = 1..Len(s)
  BY Elements
<1>1. CASE s = <<>>
  <2>1. DOMAIN s = {} /\ Len(s) = 0
    BY <1>1, EmptyElements
  <2>2. FlattenSeq(s) = <<>>
    BY <1>1, <2>1 DEF FlattenSeq
  <2>3. UNION {ToSet(s[k]) : k \in DOMAIN s} = {}
    BY <2>1
  <2> QED
    BY <2>2, <2>3, EmptyElements
<1>2. CASE s # <<>>
  <2>1. PICK f : IsFlat(f, s, X) /\ FlattenSeq(s) = f[Len(s)]
    BY <1>2, FlattenIs
  <2>2. Len(s) # 0
    BY <1>2, EmptySeq
  <2> DEFINE T == {n \in Nat : n \in 1..Len(s) => ToSet(f[n]) = UNION {ToSet(s[k]) : k \in 1..n}}
  <2>3. 0 \in T
    OBVIOUS
  <2>4. ASSUME NEW n \in Nat, n \in T PROVE n + 1 \in T
    <3> SUFFICES ASSUME n + 1 \in 1..Len(s) PROVE ToSet(f[n + 1]) = UNION {ToSet(s[k]) : k \in 1..(n + 1)}
      OBVIOUS
    <3>1. UNION {ToSet(s[k]) : k \in 1..(n + 1)} = (UNION {ToSet(s[k]) : k \in 1..n}) \cup ToSet(s[n + 1])
      <4>1. 1..(n + 1) = 1..n \cup {n + 1}
        OBVIOUS
      <4> QED
        BY <4>1
    <3>2. CASE n = 0
      <4>1. f[n + 1] = s[n + 1]
        <5>1. n + 1 = 1 /\ 1 \in 1..Len(s)
          BY <3>2
        <5> QED
          BY <2>1, <5>1 DEF IsFlat
      <4>2. 1..n = {}
        BY <3>2
      <4>3. UNION {ToSet(s[k]) : k \in 1..n} = {}
        BY <4>2
      <4> QED
        BY <3>1, <4>1, <4>3
    <3>3. CASE n # 0
      <4>1. n \in 1..Len(s) /\ n + 1 # 1 /\ (n + 1) - 1 = n
        BY <1>0, <3>3
      <4>2. f[n + 1] = f[n] \o s[n + 1] /\ f[n] \in Seq(X)
        BY <2>1, <4>1 DEF IsFlat
      <4>3. s[n + 1] \in Seq(X)
        BY ElementOfSeq
      <4>4. ToSet(f[n + 1]) = ToSet(f[n]) \cup ToSet(s[n + 1])
        BY <4>2, <4>3, ConcatElements
      <4>5. ToSet(f[n]) = UNION {ToSet(s[k]) : k \in 1..n}
        BY <2>4, <4>1
      <4> QED
        BY <3>1, <4>4, <4>5
    <3> QED
      BY <3>2, <3>3
  <2> HIDE DEF T
  <2>5. Nat \subseteq T
    BY <2>3, <2>4, SetInduction
  <2>6. Len(s) \in 1..Len(s) /\ Len(s) \in T
    BY <1>0, <2>2, <2>5
  <2>7. ToSet(f[Len(s)]) = UNION {ToSet(s[k]) : k \in DOMAIN s}
    BY <1>0, <2>6 DEF T
  <2>8. f[Len(s)] \in Seq(X)
    BY <2>1, <2>6 DEF IsFlat
  <2> QED
    BY <2>1, <2>7, <2>8
<1> QED
  BY <1>1, <1>2

\* A flattened sequence lists nothing twice when no part does and no two share.
LEMMA FlattenOnce ==
    ASSUME NEW X, NEW s \in Seq(Seq(X)), \A k \in DOMAIN s : IsInjective(s[k]),
           \A j, k \in DOMAIN s : j # k => ToSet(s[j]) \cap ToSet(s[k]) = {}
    PROVE  IsInjective(FlattenSeq(s))
<1>0. Len(s) \in Nat /\ DOMAIN s = 1..Len(s)
  BY Elements
<1>1. CASE s = <<>>
  <2>1. FlattenSeq(s) = <<>>
    BY <1>1, EmptyElements DEF FlattenSeq
  <2> QED
    BY <2>1, EmptyElements
<1>2. CASE s # <<>>
  <2>1. PICK f : IsFlat(f, s, X) /\ FlattenSeq(s) = f[Len(s)]
    BY <1>2, FlattenIs
  <2>2. Len(s) # 0
    BY <1>2, EmptySeq
  <2> DEFINE T == {n \in Nat : n \in 1..Len(s) =>
                    IsInjective(f[n]) /\ \A x \in ToSet(f[n]) : \E k \in 1..n : x \in ToSet(s[k])}
  <2>3. 0 \in T
    OBVIOUS
  <2>4. ASSUME NEW n \in Nat, n \in T PROVE n + 1 \in T
    <3> SUFFICES ASSUME n + 1 \in 1..Len(s)
                 PROVE  /\ IsInjective(f[n + 1])
                        /\ \A x \in ToSet(f[n + 1]) : \E k \in 1..(n + 1) : x \in ToSet(s[k])
      OBVIOUS
    <3>2. CASE n = 0
      <4>1. f[n + 1] = s[n + 1] /\ n + 1 \in 1..(n + 1)
        <5>1. n + 1 = 1 /\ 1 \in 1..Len(s) /\ 1 \in 1..1
          BY <3>2
        <5>2. f[1] = s[1]
          BY <2>1, <5>1 DEF IsFlat
        <5> QED
          BY <5>1, <5>2
      <4> QED
        BY <1>0, <4>1
    <3>3. CASE n # 0
      <4>1. n \in 1..Len(s) /\ n + 1 # 1 /\ (n + 1) - 1 = n
        BY <1>0, <3>3
      <4>2. f[n + 1] = f[n] \o s[n + 1] /\ f[n] \in Seq(X)
        BY <2>1, <4>1 DEF IsFlat
      <4>3. s[n + 1] \in Seq(X)
        BY ElementOfSeq
      <4>4. IsInjective(f[n]) /\ \A x \in ToSet(f[n]) : \E k \in 1..n : x \in ToSet(s[k])
        BY <2>4, <4>1
      <4>5. \A k \in 1..n : k \in 1..(n + 1) /\ k \in DOMAIN s /\ k # n + 1
        BY <1>0
      <4>6. ToSet(f[n]) \cap ToSet(s[n + 1]) = {}
        <5> SUFFICES ASSUME NEW x \in ToSet(f[n]), x \in ToSet(s[n + 1]) PROVE FALSE
          OBVIOUS
        <5>1. PICK k \in 1..n : x \in ToSet(s[k])
          BY <4>4
        <5> QED
          BY <1>0, <4>5, <5>1
      <4>7. /\ ToSet(f[n + 1]) = ToSet(f[n]) \cup ToSet(s[n + 1])
            /\ IsInjective(f[n]) /\ IsInjective(s[n + 1]) /\ ToSet(f[n]) \cap ToSet(s[n + 1]) = {}
                    => IsInjective(f[n + 1])
        BY <4>2, <4>3, ConcatElements
      <4>8. n + 1 \in 1..(n + 1)
        OBVIOUS
      <4> QED
        BY <1>0, <4>4, <4>5, <4>6, <4>7, <4>8
    <3> QED
      BY <3>2, <3>3
  <2> HIDE DEF T
  <2>5. Nat \subseteq T
    BY <2>3, <2>4, SetInduction
  <2>6. Len(s) \in 1..Len(s) /\ Len(s) \in T
    BY <1>0, <2>2, <2>5
  <2> QED
    BY <2>1, <2>6 DEF T
<1> QED
  BY <1>1, <1>2

\* Filtering keeps what it should, once when it was there once.
LEMMA FilterElements ==
    ASSUME NEW X, NEW s \in Seq(X), NEW kept
    PROVE  /\ Filter(s, kept) \in Seq(X) /\ ToSet(Filter(s, kept)) = ToSet(s) \cap kept
           /\ IsInjective(s) => IsInjective(Filter(s, kept))
<1> DEFINE part(k) == IF s[k] \in kept THEN <<s[k]>> ELSE <<>>
           parts == [k \in DOMAIN s |-> part(k)]
<1>1. Len(s) \in Nat /\ DOMAIN s = 1..Len(s) /\ \A k \in DOMAIN s : s[k] \in X
  BY Elements
<1>2. \A k \in DOMAIN s : /\ part(k) \in Seq(X) /\ IsInjective(part(k))
                          /\ ToSet(part(k)) = {s[k]} \cap kept
  <2> TAKE k \in DOMAIN s
  <2>1. <<s[k]>> \in Seq(X) /\ ToSet(<<s[k]>>) = {s[k]} /\ IsInjective(<<s[k]>>)
    BY <1>1, SingletonElements
  <2>2. <<>> \in Seq(X) /\ ToSet(<<>>) = {} /\ IsInjective(<<>>)
    BY EmptyElements
  <2>3. CASE s[k] \in kept
    BY <2>1, <2>3
  <2>4. CASE s[k] \notin kept
    BY <2>2, <2>4
  <2> QED
    BY <2>3, <2>4
<1> HIDE DEF part
<1>3. parts \in Seq(Seq(X))
  <2>1. [k \in 1..Len(s) |-> part(k)] \in Seq(Seq(X))
    BY <1>1, <1>2, IsASeq
  <2> QED
    BY <1>1, <2>1
<1>4. DOMAIN parts = DOMAIN s /\ \A k \in DOMAIN s : parts[k] = part(k)
  OBVIOUS
<1>5. Filter(s, kept) = FlattenSeq(parts)
  BY DEF Filter, part
<1> HIDE DEF parts
<1>6. FlattenSeq(parts) \in Seq(X) /\ ToSet(FlattenSeq(parts)) = UNION {ToSet(parts[k]) : k \in DOMAIN parts}
  BY <1>3, FlattenElements
<1>7. UNION {ToSet(parts[k]) : k \in DOMAIN parts} = ToSet(s) \cap kept
  BY <1>2, <1>4 DEF ToSet
<1>8. ASSUME IsInjective(s) PROVE IsInjective(FlattenSeq(parts))
  <2>1. \A k \in DOMAIN parts : IsInjective(parts[k])
    BY <1>2, <1>4
  <2>2. \A j, k \in DOMAIN parts : j # k => ToSet(parts[j]) \cap ToSet(parts[k]) = {}
    BY <1>2, <1>4, <1>8 DEF IsInjective
  <2> QED
    BY <1>3, <2>1, <2>2, FlattenOnce
<1> QED
  BY <1>5, <1>6, <1>7, <1>8

-----------------------------------------------------------------------------
(* Definitions and their chains *)

\* A function on the positions of a sequence is a sequence.
LEMMA Mapped ==
    ASSUME NEW X, NEW Y, NEW s \in Seq(Y), NEW F \in [DOMAIN s -> X]
    PROVE  F \in Seq(X) /\ Len(F) = Len(s) /\ DOMAIN F = DOMAIN s
<1>1. Len(s) \in Nat /\ DOMAIN s = 1..Len(s)
  BY Elements
<1>2. F = [k \in 1..Len(s) |-> F[k]] /\ \A k \in 1..Len(s) : F[k] \in X
  BY <1>1
<1>3. [k \in 1..Len(s) |-> F[k]] \in Seq(X)
  BY <1>1, <1>2, IsASeq
<1>4. F \in Seq(X)
  BY <1>2, <1>3
<1>5. Len(F) \in Nat /\ DOMAIN F = 1..Len(F) /\ DOMAIN F = 1..Len(s)
  BY <1>1, <1>4, Elements
<1>6. Len(F) = Len(s)
  BY <1>1, <1>5, SameLength
<1> QED
  BY <1>1, <1>4, <1>5, <1>6
\* The node with an id.
LEMMA NodeOfIs ==
    ASSUME NEW def, NEW id \in NodeIds(def)
    PROVE  NodeOf(def, id) \in ToSet(def.nodes) /\ NodeOf(def, id).id = id
<1> DEFINE c == CHOOSE k \in DOMAIN def.nodes : def.nodes[k].id = id
<1>1. \E k \in DOMAIN def.nodes : def.nodes[k].id = id
  BY DEF NodeIds
<1>2. c \in DOMAIN def.nodes /\ def.nodes[c].id = id
  BY <1>1, Zenon
<1> QED
  BY <1>2 DEF NodeOf, ToSet

\* Where the fields of a visit may come from, and what they may be.
Places(def) == {<<>>} \cup {<<n.place>> : n \in ToSet(def.nodes)}
FieldSets(def) == UNION {[F -> Origins(def)] : F \in SUBSET FieldNames(def)}

\* The fields known after a node are those before, or new ones from the source.
LEMMA FieldsAre ==
    ASSUME NEW def, HasFields(def), NEW node \in ToSet(def.nodes), NEW from \in Places(def), NEW known \in FieldSets(def)
    PROVE  /\ FieldsAfter(node, from, known) \in FieldSets(def)
           /\ \A f \in DOMAIN FieldsAfter(node, from, known) :
                FieldsAfter(node, from, known)[f].from \in {from} \cup {known[g].from : g \in DOMAIN known}
<1> DEFINE stated == IF IsContract(node) /\ node.spec.kind # Bad THEN DOMAIN node.spec.schema ELSE {}
           read == IF IsMap(node) THEN {f \in DOMAIN node.spec.pairs : node.spec.pairs[f] \in DOMAIN known} ELSE {}
           anew(f) == [from |-> from, field |-> f, type |-> node.spec.schema[f].type, nullable |-> node.spec.schema[f].nullable]
           A == [f \in read |-> known[node.spec.pairs[f]]]
           B == [f \in DOMAIN known \cup stated |-> IF f \in stated THEN anew(f) ELSE known[f]]
           O == Origins(def)
           N == FieldNames(def)
           R == FieldsAfter(node, from, known)
<1>1. R = IF read # {} THEN A ELSE B
  BY Zenon DEF FieldsAfter
<1>2. DOMAIN node.spec.schema \subseteq N /\ DOMAIN node.spec.pairs \subseteq N
  BY DEF FieldNames
<1>3. PICK F \in SUBSET N : known \in [F -> O]
  BY DEF FieldSets
<1>4. \A f \in stated : anew(f) \in O
  <2> TAKE f \in stated
  <2>1. f \in DOMAIN node.spec.schema
    OBVIOUS
  <2>2. node.spec.schema[f].nullable \in BOOLEAN
    <3>1. PICK k \in DOMAIN def.nodes : node = def.nodes[k]
      BY DEF ToSet
    <3> QED
      BY <2>1, <3>1, Zenon DEF HasFields
  <2>3. node.spec.schema[f].type \in UNION {{n.spec.schema[g].type : g \in DOMAIN n.spec.schema} : n \in ToSet(def.nodes)}
    BY <2>1
  <2>4. f \in N /\ from \in {<<>>} \cup {<<n.place>> : n \in ToSet(def.nodes)}
    BY <1>2, <2>1 DEF Places
  <2> QED
    BY <2>2, <2>3, <2>4 DEF Origins
<1>5. stated \subseteq N
  BY <1>2
<1>6. read \subseteq N /\ \A f \in read : node.spec.pairs[f] \in DOMAIN known
  BY <1>2
<1>7. \A f \in stated : anew(f).from = from
  OBVIOUS
<1> HIDE DEF stated, read, anew, R, O, N
<1>8. A \in [read -> O] /\ \A f \in read : A[f].from \in {known[g].from : g \in DOMAIN known}
  BY <1>3, <1>6
<1>9. B \in [DOMAIN known \cup stated -> O]
  BY <1>3, <1>4
<1>10. \A f \in DOMAIN known \cup stated : B[f].from \in {from} \cup {known[g].from : g \in DOMAIN known}
  BY <1>7
<1>11. DOMAIN known \cup stated \in SUBSET N
  BY <1>3, <1>5
<1>12. \A G \in SUBSET N : [G -> O] \subseteq FieldSets(def)
  BY DEF FieldSets, N, O
<1> HIDE DEF A, B
<1>13. CASE read # {}
  <2>1. R = A /\ DOMAIN A = read
    BY <1>1, <1>8, <1>13
  <2> QED
    BY <1>6, <1>8, <1>12, <2>1 DEF R
<1>14. CASE read = {}
  <2>1. R = B /\ DOMAIN B = DOMAIN known \cup stated
    BY <1>1, <1>9, <1>14
  <2> QED
    BY <1>9, <1>10, <1>11, <1>12, <2>1 DEF R
<1> QED
  BY <1>13, <1>14

\* No fields are some fields.
LEMMA NoFields ==
    ASSUME NEW def
    PROVE  NoSchema \in FieldSets(def) /\ DOMAIN NoSchema = {}
<1>1. NoSchema \in [{} -> Origins(def)] /\ DOMAIN NoSchema = {}
  BY DEF NoSchema
<1>2. {} \in SUBSET FieldNames(def)
  OBVIOUS
<1> QED
  BY <1>1, <1>2 DEF FieldSets

\* A visit of the chain, as a set of records.
LEMMA VisitRecords ==
    ASSUME NEW def
    PROVE  Visits(def) = [node : NodeIds(def), from : Places(def), fields : FieldSets(def)]
BY DEF Visits, Places, FieldSets

\* What is known before a visit.
Before(visits) == IF visits = <<>> THEN <<>> ELSE Last(visits).from

LEMMA KnownBefore ==
    ASSUME NEW def, NEW visits \in Seq(Visits(def))
    PROVE  /\ Known(visits) \in FieldSets(def) /\ Before(visits) \in Places(def)
           /\ visits # <<>> => /\ Len(visits) \in DOMAIN visits /\ visits[Len(visits)].node \in NodeIds(def)
                               /\ Known(visits) = visits[Len(visits)].fields
                               /\ Before(visits) = visits[Len(visits)].from
           /\ visits = <<>> => DOMAIN Known(visits) = {} /\ Before(visits) = <<>>
<1>1. CASE visits = <<>>
  BY <1>1, NoFields DEF Known, Before, Places
<1>2. CASE visits # <<>>
  <2>1. Len(visits) \in 1..Len(visits) /\ DOMAIN visits = 1..Len(visits) /\ visits \in [1..Len(visits) -> Visits(def)]
    BY <1>2, Elements, EmptySeq
  <2>2. visits[Len(visits)] \in Visits(def)
    BY <2>1
  <2>3. visits[Len(visits)] \in [node : NodeIds(def), from : Places(def), fields : FieldSets(def)]
    BY <2>2, VisitRecords
  <2>4. Known(visits) = visits[Len(visits)].fields /\ Before(visits) = visits[Len(visits)].from
    BY <1>2 DEF Known, Before, Last
  <2> QED
    BY <1>2, <2>1, <2>3, <2>4
<1> QED
  BY <1>1, <1>2

\* A visit is one of those that its definition allows; its fields come from the
\* sources before it, or from itself.
LEMMA VisitIs ==
    ASSUME NEW def, HasFields(def), NEW visits \in Seq(Visits(def)), NEW id \in NodeIds(def)
    PROVE  LET v == Visit(def, visits, id)
           IN  /\ v \in Visits(def) /\ v.node = id
               /\ v.from = IF NodeOf(def, id).type = "source" /\ Placed(NodeOf(def, id))
                           THEN <<NodeOf(def, id).place>> ELSE Before(visits)
               /\ \A f \in DOMAIN v.fields :
                    v.fields[f].from \in {v.from} \cup {Known(visits)[g].from : g \in DOMAIN Known(visits)}
<1> DEFINE v == Visit(def, visits, id)
           node == NodeOf(def, id)
           from == IF node.type = "source" /\ Placed(node) THEN <<node.place>> ELSE Before(visits)
<1>1. v = [node |-> id, from |-> from, fields |-> FieldsAfter(node, from, Known(visits))]
  BY Zenon DEF Visit, Before
<1>2. node \in ToSet(def.nodes)
  BY NodeOfIs
<1>3. Known(visits) \in FieldSets(def) /\ Before(visits) \in Places(def)
  BY KnownBefore
<1>4. from \in Places(def)
  BY <1>2, <1>3 DEF Places
<1> HIDE DEF node
<1>5. v.from = from /\ v.node = id /\ v.fields = FieldsAfter(node, from, Known(visits))
  BY <1>1
<1>6. from = IF node.type = "source" /\ Placed(node) THEN <<node.place>> ELSE Before(visits)
  OBVIOUS
<1> HIDE DEF v, from
<1>7. /\ v.fields \in FieldSets(def)
      /\ \A f \in DOMAIN v.fields : v.fields[f].from \in {v.from} \cup {Known(visits)[g].from : g \in DOMAIN Known(visits)}
  BY <1>2, <1>3, <1>4, <1>5, FieldsAre
<1>8. v \in Visits(def)
  <2>1. v \in [node : NodeIds(def), from : Places(def), fields : FieldSets(def)]
    BY <1>1, <1>4, <1>5, <1>7
  <2> QED
    BY <2>1, VisitRecords
<1> QED
  BY <1>5, <1>6, <1>7, <1>8 DEF v, node

\* The chain goes on with a node of the definition.
LEMMA FollowingIn ==
    ASSUME NEW def, IsPublished(def), NEW visits
    PROVE  Following(def, visits) \subseteq NodeIds(def)
<1>1. {def.nodes[k].id : k \in {j \in Heads(def) : \A i \in Heads(def) : j <= i}} \subseteq NodeIds(def)
  BY DEF Heads, NodeIds
<1>2. \A k \in DOMAIN def.edges : def.edges[k][2] \in NodeIds(def)
  <2> DEFINE ids == {def.nodes[k].id : k \in DOMAIN def.nodes}
  <2>1. def.edges \in Seq(ids \X ids) /\ ids = NodeIds(def)
    BY DEF IsPublished, NodeIds
  <2> HIDE DEF ids
  <2>2. def.edges \in [1..Len(def.edges) -> ids \X ids] /\ DOMAIN def.edges = 1..Len(def.edges)
    BY <2>1, Elements
  <2> QED
    BY <2>1, <2>2
<1> DEFINE leaving == Leaving(def, Last(visits).node)
<1>3. {def.edges[k][2] : k \in {j \in leaving : \A i \in leaving : i <= j}} \subseteq NodeIds(def)
  BY <1>2 DEF Leaving
<1> QED
  BY <1>1, <1>3 DEF Following

\* The assets of the sources visited.
ReadBy(def, visits) ==
    {<<>>} \cup {<<NodeOf(def, visits[k].node).place>> : k \in
        {j \in DOMAIN visits : NodeOf(def, visits[j].node).type = "source" /\ Placed(NodeOf(def, visits[j].node))}}

\* Every field of a visit comes from nowhere, or from an asset read in the chain.
Traced(def, visits) ==
    \A k \in DOMAIN visits :
        /\ visits[k].from \in ReadBy(def, visits)
        /\ \A f \in DOMAIN visits[k].fields : visits[k].fields[f].from \in ReadBy(def, visits)

\* One more visit keeps that.
LEMMA VisitTraced ==
    ASSUME NEW def, IsPublished(def), HasFields(def), NEW visits \in Seq(Visits(def))
    PROVE  /\ VisitNext(def, visits) \in Seq(Visits(def))
           /\ Traced(def, visits) => Traced(def, VisitNext(def, visits))
<1> DEFINE next == Following(def, visits)
           id == CHOOSE i \in next : TRUE
           v == Visit(def, visits, id)
           w == Append(visits, v)
           n == Len(visits)
<1>1. VisitNext(def, visits) = IF next = {} THEN visits ELSE w
  BY Zenon DEF VisitNext
<1>2. CASE next = {}
  BY <1>1, <1>2
<1>3. CASE next # {}
  <2>1. id \in next
    BY <1>3, Zenon
  <2>2. id \in NodeIds(def)
    BY <2>1, FollowingIn
  <2>3. VisitNext(def, visits) = w
    BY <1>1, <1>3
  <2> HIDE DEF next, id
  <2>4. /\ v \in Visits(def) /\ v.node = id
        /\ v.from = IF NodeOf(def, id).type = "source" /\ Placed(NodeOf(def, id))
                    THEN <<NodeOf(def, id).place>> ELSE Before(visits)
        /\ \A f \in DOMAIN v.fields :
            v.fields[f].from \in {v.from} \cup {Known(visits)[g].from : g \in DOMAIN Known(visits)}
    BY <2>2, VisitIs
  <2> HIDE DEF v
  <2>5. n \in Nat /\ DOMAIN visits = 1..n
    BY Elements
  <2>6. /\ w \in Seq(Visits(def)) /\ DOMAIN w = 1..(n + 1)
        /\ w[n + 1] = v /\ \A k \in 1..n : w[k] = visits[k]
    <3> DEFINE X == Visits(def)
    <3>1. visits \in Seq(X) /\ v \in X
      BY <2>4
    <3> HIDE DEF X
    <3>2. w \in Seq(X) /\ Len(w) = Len(visits) + 1 /\ w[Len(w)] = v /\ \A k \in 1..Len(visits) : w[k] = visits[k]
      BY <3>1, AppendProperties
    <3>3. DOMAIN w = 1..Len(w)
      BY <3>2, Elements
    <3> QED
      BY <3>2, <3>3 DEF X
  <2> HIDE DEF w, n
  <2>7. ASSUME Traced(def, visits) PROVE Traced(def, w)
    <3>1. ReadBy(def, visits) \subseteq ReadBy(def, w)
      <4>1. 1..n \subseteq 1..(n + 1)
        BY <2>5
      <4> QED
        BY <2>5, <2>6, <4>1 DEF ReadBy
    <3>2. /\ Before(visits) \in ReadBy(def, visits)
          /\ \A g \in DOMAIN Known(visits) : Known(visits)[g].from \in ReadBy(def, visits)
      <4>1. CASE visits = <<>>
        BY <4>1, KnownBefore DEF ReadBy
      <4>2. CASE visits # <<>>
        <5>1. /\ Len(visits) \in DOMAIN visits /\ Known(visits) = visits[Len(visits)].fields
              /\ Before(visits) = visits[Len(visits)].from
          BY <4>2, KnownBefore
        <5> QED
          BY <2>7, <5>1 DEF Traced
      <4> QED
        BY <4>1, <4>2
    <3>3. v.from \in ReadBy(def, w)
      <4>1. CASE NodeOf(def, id).type = "source" /\ Placed(NodeOf(def, id))
        <5>1. n + 1 \in DOMAIN w /\ w[n + 1].node = id
          BY <2>4, <2>5, <2>6
        <5>2. v.from = <<NodeOf(def, w[n + 1].node).place>>
          BY <2>4, <4>1, <5>1
        <5> QED
          BY <4>1, <5>1, <5>2 DEF ReadBy
      <4>2. CASE ~(NodeOf(def, id).type = "source" /\ Placed(NodeOf(def, id)))
        BY <2>4, <3>1, <3>2, <4>2
      <4> QED
        BY <4>1, <4>2
    <3>4. \A f \in DOMAIN v.fields : v.fields[f].from \in ReadBy(def, w)
      BY <2>4, <3>1, <3>2, <3>3
    <3> SUFFICES ASSUME NEW k \in DOMAIN w
                 PROVE  /\ w[k].from \in ReadBy(def, w)
                        /\ \A f \in DOMAIN w[k].fields : w[k].fields[f].from \in ReadBy(def, w)
      BY DEF Traced
    <3>5. CASE k = n + 1
      BY <2>6, <3>3, <3>4, <3>5
    <3>6. CASE k # n + 1
      <4>1. k \in DOMAIN visits /\ w[k] = visits[k]
        BY <2>5, <2>6, <3>6
      <4> QED
        BY <2>7, <3>1, <4>1 DEF Traced
    <3> QED
      BY <3>5, <3>6
  <2> QED
    BY <2>3, <2>6, <2>7
<1> QED
  BY <1>2, <1>3

\* The chain of a published definition.
LEMMA ChainIs ==
    ASSUME NEW def, IsPublished(def), HasFields(def)
    PROVE  Chain(def) \in Seq(Visits(def)) /\ Traced(def, Chain(def))
<1> DEFINE S == Seq(Visits(def))
           h == [visits \in S |-> VisitNext(def, visits)]
           K == Len(def.nodes)
           Inv == {x \in Nat \X S : Traced(def, x[2])}
<1>1. Chain(def) = Iterate(h, <<>>, K)
  BY Zenon DEF Chain
<1>2. K \in Nat
  BY Elements DEF IsPublished
<1>3. <<>> \in S /\ Traced(def, <<>>)
  BY EmptyElements DEF Traced
<1>4. \A visits \in S : /\ VisitNext(def, visits) \in S
                        /\ Traced(def, visits) => Traced(def, VisitNext(def, visits))
  BY VisitTraced
<1> HIDE DEF S, K
<1>5. h \in [S -> S] /\ \A visits \in S : h[visits] = VisitNext(def, visits)
  BY <1>4
<1> HIDE DEF h
<1>6. <<0, <<>>>> \in Inv
  BY <1>3
<1>7. \A k \in 0..(K - 1) : \A st \in S : <<k, st>> \in Inv => <<k + 1, h[st]>> \in Inv
  BY <1>2, <1>4, <1>5
<1> HIDE DEF Inv
<1>8. Iterate(h, <<>>, K) \in S /\ <<K, Iterate(h, <<>>, K)>> \in Inv
  BY <1>2, <1>3, <1>5, <1>6, <1>7, LoopInvariant
<1>9. \A x \in Inv : Traced(def, x[2])
  BY DEF Inv
<1> QED
  BY <1>1, <1>8, <1>9 DEF S

\* What a row does to its assets: fields come from assets that it reads.
IsTouches(row, q) ==
    /\ q \in Seq(ToSet(q))
    /\ \A t \in ToSet(q) :
        /\ t.row = row
        /\ \A f \in DOMAIN t.fields : t.fields[f].from # <<>> => \E s \in ToSet(q) : s.urn = t.fields[f].from[1]

LEMMA RowTouches ==
    ASSUME NEW row, NEW def, IsPublished(def), HasFields(def)
    PROVE  IsTouches(row, Touches(row, def))
<1> DEFINE visits == Chain(def)
           part(k) == Touch(row, def, visits[k])
           parts == [k \in DOMAIN visits |-> part(k)]
           of(k) == NodeOf(def, visits[k].node)
           X == UNION {ToSet(part(k)) : k \in DOMAIN visits}
           q == Touches(row, def)
<1>1. q = FlattenSeq(parts)
  BY Zenon DEF Touches
<1>2. visits \in Seq(Visits(def)) /\ Traced(def, visits)
  BY ChainIs
<1> HIDE DEF visits, q
<1>3. \A k \in DOMAIN visits :
        LET t == [row |-> row, node |-> of(k).id, dir |-> of(k).type, urn |-> of(k).place, layer |-> of(k).layer,
                  fields |-> IF of(k).type = "sink" THEN visits[k].fields ELSE NoSchema]
        IN  IF Placed(of(k)) THEN part(k) \in Seq({t}) /\ ToSet(part(k)) = {t} ELSE part(k) = <<>>
  <2> TAKE k \in DOMAIN visits
  <2> DEFINE t == [row |-> row, node |-> of(k).id, dir |-> of(k).type, urn |-> of(k).place, layer |-> of(k).layer,
                   fields |-> IF of(k).type = "sink" THEN visits[k].fields ELSE NoSchema]
  <2>1. part(k) = IF ~Placed(of(k)) THEN <<>> ELSE <<t>>
    BY Zenon DEF Touch
  <2> HIDE DEF part, of, t
  <2>2. <<t>> \in Seq({t}) /\ ToSet(<<t>>) = {t}
    BY SingletonElements
  <2>3. IF Placed(of(k)) THEN part(k) \in Seq({t}) /\ ToSet(part(k)) = {t} ELSE part(k) = <<>>
    BY <2>1, <2>2
  <2> QED
    BY <2>3 DEF t
<1> HIDE DEF part
<1>4. \A k \in DOMAIN visits : part(k) \in Seq(X)
  <2> TAKE k \in DOMAIN visits
  <2>1. part(k) = <<>> \/ \E t : part(k) \in Seq({t}) /\ ToSet(part(k)) = {t}
    BY <1>3, Zenon
  <2>2. ToSet(part(k)) \subseteq X
    OBVIOUS
  <2> HIDE DEF X
  <2>3. CASE part(k) = <<>>
    BY <2>3, EmptyElements
  <2>4. ASSUME NEW t, part(k) \in Seq({t}), ToSet(part(k)) = {t} PROVE part(k) \in Seq(X)
    <3>1. {t} \subseteq X
      BY <2>2, <2>4
    <3> QED
      BY <2>4, <3>1, SeqMonotonic
  <2> QED
    BY <2>1, <2>3, <2>4
<1> HIDE DEF X
<1>5. parts \in Seq(Seq(X)) /\ DOMAIN parts = DOMAIN visits
  <2>1. parts \in [DOMAIN visits -> Seq(X)]
    BY <1>4
  <2> HIDE DEF parts
  <2> QED
    BY <1>2, <2>1, Mapped
<1>6. \A k \in DOMAIN visits : parts[k] = part(k)
  OBVIOUS
<1> HIDE DEF parts
<1>7. q \in Seq(X) /\ ToSet(q) = UNION {ToSet(parts[k]) : k \in DOMAIN parts}
  BY <1>1, <1>5, FlattenElements
<1>8. q \in Seq(ToSet(q))
  BY <1>7, Elements
<1>9. ToSet(q) = UNION {ToSet(part(k)) : k \in DOMAIN visits}
  BY <1>5, <1>6, <1>7
<1>10. ASSUME NEW t \in ToSet(q)
       PROVE  \E k \in DOMAIN visits :
                /\ Placed(of(k))
                /\ t = [row |-> row, node |-> of(k).id, dir |-> of(k).type, urn |-> of(k).place, layer |-> of(k).layer,
                        fields |-> IF of(k).type = "sink" THEN visits[k].fields ELSE NoSchema]
  <2>1. PICK k \in DOMAIN visits : t \in ToSet(part(k))
    BY <1>9
  <2>2. part(k) # <<>>
    BY <2>1, EmptyElements
  <2> QED
    BY <1>3, <2>1, <2>2
<1>11. ASSUME NEW k \in DOMAIN visits, Placed(of(k))
       PROVE  \E s \in ToSet(q) : s.urn = of(k).place
  <2> DEFINE t == [row |-> row, node |-> of(k).id, dir |-> of(k).type, urn |-> of(k).place, layer |-> of(k).layer,
                   fields |-> IF of(k).type = "sink" THEN visits[k].fields ELSE NoSchema]
  <2>1. t \in ToSet(part(k))
    BY <1>3, <1>11
  <2>2. t.urn = of(k).place
    OBVIOUS
  <2> HIDE DEF t
  <2> QED
    BY <1>9, <2>1, <2>2
<1>12. ASSUME NEW t \in ToSet(q)
       PROVE  /\ t.row = row
              /\ \A f \in DOMAIN t.fields : t.fields[f].from # <<>> => \E s \in ToSet(q) : s.urn = t.fields[f].from[1]
  <2>1. PICK k \in DOMAIN visits :
          /\ Placed(of(k))
          /\ t = [row |-> row, node |-> of(k).id, dir |-> of(k).type, urn |-> of(k).place, layer |-> of(k).layer,
                  fields |-> IF of(k).type = "sink" THEN visits[k].fields ELSE NoSchema]
    BY <1>10
  <2>2. t.row = row /\ t.fields = IF of(k).type = "sink" THEN visits[k].fields ELSE NoSchema
    BY <2>1
  <2>3. ASSUME NEW f \in DOMAIN t.fields, t.fields[f].from # <<>>
        PROVE  \E s \in ToSet(q) : s.urn = t.fields[f].from[1]
    <3>1. t.fields = visits[k].fields
      BY <2>2, <2>3, NoFields
    <3>2. t.fields[f].from \in ReadBy(def, visits)
      BY <1>2, <2>3, <3>1 DEF Traced
    <3>3. PICK j \in DOMAIN visits : Placed(of(j)) /\ t.fields[f].from = <<of(j).place>>
      BY <2>3, <3>2 DEF ReadBy
    <3>4. t.fields[f].from[1] = of(j).place
      BY <3>3
    <3> QED
      BY <1>11, <3>3, <3>4
  <2> QED
    BY <2>2, <2>3
<1> QED
  BY <1>8, <1>12 DEF IsTouches, q

-----------------------------------------------------------------------------
(* The page *)

\* The versions published are drafts of their slots.
VersionsPublished ==
    /\ versions = [i \in DOMAIN Slots |-> versions[i]]
    /\ \A i \in DOMAIN Slots : versions[i] = None \/ versions[i] \in Drafts[i]

\* The view is open on a tab; the runtime tab focuses on nothing, and the
\* architecture tab hides no idle pipeline.
ViewOpened ==
    /\ view = [tab |-> view.tab, env |-> view.env, health |-> view.health, domain |-> view.domain,
               layer |-> view.layer, query |-> view.query, depth |-> view.depth,
               selected |-> view.selected, activeOnly |-> view.activeOnly]
    /\ view.depth \in Nat
    /\ view.tab = "runtime" => view.depth = 0
    /\ view.tab # "runtime" => ~view.activeOnly

\* The invariant of the page that all its theorems rest on.
PageInv == VersionsPublished /\ ViewOpened

\* A tab that has just been opened.
LEMMA OpenedView ==
    ASSUME NEW tab, view = Opened(tab)
    PROVE  ViewOpened
BY DEF Opened, ViewOpened

\* A change of one field of the view.
LEMMA ViewField ==
    ASSUME ViewOpened, NEW v
    PROVE  /\ view' = [view EXCEPT !.env = v] => ViewOpened'
           /\ view' = [view EXCEPT !.layer = v] => ViewOpened'
           /\ view' = [view EXCEPT !.selected = v] => ViewOpened'
           /\ view.tab = "runtime" /\ view' = [view EXCEPT !.activeOnly = ~@] => ViewOpened'
           /\ view' = [view EXCEPT !["health"] = v, !.selected = <<>>] => ViewOpened'
           /\ view' = [view EXCEPT !["domain"] = v, !.selected = <<>>] => ViewOpened'
           /\ view' = [view EXCEPT !["query"] = v, !.selected = <<>>] => ViewOpened'
           /\ view.tab = "architecture" /\ v \in Nat /\ view' = [view EXCEPT !.depth = v] => ViewOpened'
<1>1. ASSUME view' = [view EXCEPT !.env = v] PROVE ViewOpened'
  BY <1>1 DEF ViewOpened
<1>2. ASSUME view' = [view EXCEPT !.layer = v] PROVE ViewOpened'
  BY <1>2 DEF ViewOpened
<1>3. ASSUME view' = [view EXCEPT !.selected = v] PROVE ViewOpened'
  BY <1>3 DEF ViewOpened
<1>4. ASSUME view.tab = "runtime", view' = [view EXCEPT !.activeOnly = ~@] PROVE ViewOpened'
  BY <1>4 DEF ViewOpened
<1>5. ASSUME view' = [view EXCEPT !["health"] = v, !.selected = <<>>] PROVE ViewOpened'
  BY <1>5 DEF ViewOpened
<1>6. ASSUME view' = [view EXCEPT !["domain"] = v, !.selected = <<>>] PROVE ViewOpened'
  BY <1>6 DEF ViewOpened
<1>7. ASSUME view' = [view EXCEPT !["query"] = v, !.selected = <<>>] PROVE ViewOpened'
  BY <1>7 DEF ViewOpened
<1>8. ASSUME view.tab = "architecture", v \in Nat, view' = [view EXCEPT !.depth = v] PROVE ViewOpened'
  BY <1>8 DEF ViewOpened
<1> QED
  BY <1>1, <1>2, <1>3, <1>4, <1>5, <1>6, <1>7, <1>8

\* A version saved, activated or promoted leaves drafts in the slots.
LEMMA PublishKeeps ==
    ASSUME VersionsPublished, NEW i \in DOMAIN Slots, NEW def \in Drafts[i], Becomes(i, def)
    PROVE  VersionsPublished'
BY DEF VersionsPublished, Becomes

\* Every step of the page keeps the invariant.
LEMMA PageKept ==
    PageInv /\ [Next]_vars => PageInv'
<1> SUFFICES ASSUME PageInv, [Next]_vars PROVE PageInv'
  OBVIOUS
<1>0. ASSUME UNCHANGED versions, ViewOpened' PROVE PageInv'
  BY <1>0 DEF PageInv, VersionsPublished
<1>a. ViewOpened /\ VersionsPublished
  BY DEF PageInv
<1>1. ASSUME NEW i \in DOMAIN Slots, NEW def \in Drafts[i], Publish(i, def) \/ Promote(i, def) \/ Override(i, def)
      PROVE  PageInv'
  <2>1. Becomes(i, def)
    BY <1>1 DEF Publish, Promote, Override
  <2>2. VersionsPublished'
    BY <2>1, <1>a, PublishKeeps
  <2>3. ViewOpened'
    BY <2>1, <1>a DEF Becomes, ViewOpened
  <2> QED
    BY <2>2, <2>3 DEF PageInv
<1>2. ASSUME NEW tab, setTab(tab) PROVE PageInv'
  <2>1. ViewOpened'
    BY <1>2 DEF setTab, Opened, ViewOpened
  <2> QED
    BY <1>0, <1>2, <2>1 DEF setTab
<1>3. ASSUME NEW env, setEnvironment(env) PROVE PageInv'
  BY <1>0, <1>3, <1>a, ViewField DEF setEnvironment
<1>4. ASSUME NEW v, setFilter("health", v) \/ setFilter("domain", v) \/ setFilter("query", v) PROVE PageInv'
  <2>1. ViewOpened'
    BY <1>4, <1>a, ViewField DEF setFilter
  <2> QED
    BY <1>0, <1>4, <2>1 DEF setFilter
<1>5. ASSUME NEW depth \in 0..2, setFocusDepth(depth) PROVE PageInv'
  <2>1. depth \in Nat
    OBVIOUS
  <2> QED
    BY <1>0, <1>5, <1>a, <2>1, ViewField DEF setFocusDepth
<1>6. ASSUME NEW n, setSelected(n) PROVE PageInv'
  BY <1>0, <1>6, <1>a, ViewField DEF setSelected
<1>7. ASSUME clearFilters PROVE PageInv'
  <2>1. ViewOpened'
    BY <1>7 DEF clearFilters, Opened, ViewOpened
  <2> QED
    BY <1>0, <1>7, <2>1 DEF clearFilters
<1>8. ASSUME setRuntimeFilter PROVE PageInv'
  <2>1. ViewOpened'
    BY <1>8, <1>a, ViewField DEF setRuntimeFilter
  <2> QED
    BY <1>0, <1>8, <2>1 DEF setRuntimeFilter
<1>9. ASSUME UNCHANGED vars PROVE PageInv'
  BY <1>9, <1>a DEF vars, PageInv, ViewOpened, VersionsPublished
<1> QED
  BY <1>1, <1>2, <1>3, <1>4, <1>5, <1>6, <1>7, <1>8, <1>9 DEF Next

\* The page starts with it.
LEMMA PageStarts ==
    Init => PageInv
BY OpenedView DEF Init, PageInv, VersionsPublished

\* The lineage page always shows published versions through an opened view:
\* setFocusDepth works on the architecture tab only and the switch of the
\* runtime tab is reset when a tab is mounted, so no view focuses and hides the
\* idle pipelines at once.
THEOREM PageHolds == Spec => []PageInv
BY PageStarts, PageKept, PTL DEF Spec

\* What is published has passed the validation.
LEMMA DraftsArePublished ==
    ASSUME NEW i \in DOMAIN Slots, NEW def \in Drafts[i]
    PROVE  IsPublished(def) /\ HasFields(def)
BY LineageAssumption

-----------------------------------------------------------------------------
(* The workspace graph *)

\* What the listed rows add, one after the other, and as a set.
RowsFlat(s, rows, F) == FlattenSeq([r \in DOMAIN s |-> IF r \in rows THEN F[r] ELSE <<>>])
RowsHold(rows, F) == UNION {ToSet(F[r]) : r \in rows}

\* Some of the rows each give a sequence.
LEMMA RowsFlattened ==
    ASSUME NEW Y, NEW s \in Seq(Y), NEW rows \in SUBSET DOMAIN s, NEW F,
           \A r \in rows : F[r] \in Seq(ToSet(F[r]))
    PROVE  RowsFlat(s, rows, F) \in Seq(RowsHold(rows, F)) /\ ToSet(RowsFlat(s, rows, F)) = RowsHold(rows, F)
<1> DEFINE parts == [r \in DOMAIN s |-> IF r \in rows THEN F[r] ELSE <<>>]
           X == UNION {ToSet(F[r]) : r \in rows}
<1>1. \A r \in rows : ToSet(F[r]) \subseteq X
  OBVIOUS
<1> HIDE DEF X
<1>2. \A r \in rows : F[r] \in Seq(X)
  BY <1>1, SeqMonotonic
<1>3. <<>> \in Seq(X)
  BY EmptyElements
<1>4. parts \in [DOMAIN s -> Seq(X)]
  BY <1>2, <1>3
<1>5. DOMAIN parts = DOMAIN s /\ (\A r \in rows : parts[r] = F[r]) /\ (\A r \in DOMAIN s \ rows : parts[r] = <<>>)
  OBVIOUS
<1> HIDE DEF parts
<1>6. parts \in Seq(Seq(X))
  BY <1>4, Mapped
<1>7. FlattenSeq(parts) \in Seq(X) /\ ToSet(FlattenSeq(parts)) = UNION {ToSet(parts[r]) : r \in DOMAIN parts}
  BY <1>6, FlattenElements
<1>8. UNION {ToSet(parts[r]) : r \in DOMAIN parts} = X
  <2>1. \A r \in DOMAIN s : ToSet(parts[r]) \subseteq X
    BY <1>1, <1>5, EmptyElements
  <2>2. ASSUME NEW x \in X PROVE \E r \in DOMAIN s : x \in ToSet(parts[r])
    BY <1>5 DEF X
  <2> QED
    BY <1>5, <2>1, <2>2
<1> QED
  BY <1>7, <1>8 DEF parts, X, RowsFlat, RowsHold

\* What is known of the versions that make up a graph.
Rows(vs, rows) == rows \in SUBSET DOMAIN Slots /\ \A r \in rows : IsPublished(vs[r]) /\ HasFields(vs[r])

\* What the versions do to their assets, in the listed order, and the assets.
AllTouches(vs, rows) == RowsFlat(Slots, rows, [r \in rows |-> Touches(r, vs[r])])
Urns(ts) == {t.urn : t \in ToSet(ts)}

\* What makes a graph of them.
AreTouches(ts, rows) ==
    /\ ts \in Seq(ToSet(ts))
    /\ \A t \in ToSet(ts) :
        /\ t.row \in rows
        /\ \A f \in DOMAIN t.fields : t.fields[f].from # <<>> => t.fields[f].from[1] \in Urns(ts)

LEMMA RowsAreTouches ==
    ASSUME NEW vs, NEW rows, Rows(vs, rows)
    PROVE  AreTouches(AllTouches(vs, rows), rows)
<1> DEFINE F == [r \in rows |-> Touches(r, vs[r])]
           ts == AllTouches(vs, rows)
<1>0. rows \in SUBSET DOMAIN Slots /\ Slots \in Seq(ToSet(Slots))
  BY LineageAssumption DEF Rows
<1>1. \A r \in rows : F[r] = Touches(r, vs[r])
  OBVIOUS
<1>2. ts = RowsFlat(Slots, rows, F)
  BY Zenon DEF AllTouches
<1> HIDE DEF F, ts
<1>3. \A r \in rows : IsTouches(r, F[r])
  BY <1>1, RowTouches DEF Rows
<1>4. \A r \in rows : F[r] \in Seq(ToSet(F[r]))
  BY <1>3 DEF IsTouches
<1>5. ts \in Seq(RowsHold(rows, F)) /\ ToSet(ts) = RowsHold(rows, F)
  BY <1>0, <1>2, <1>4, RowsFlattened
<1>6. ts \in Seq(ToSet(ts))
  BY <1>5
<1>7. ASSUME NEW t \in ToSet(ts)
      PROVE  /\ t.row \in rows
             /\ \A f \in DOMAIN t.fields : t.fields[f].from # <<>> => t.fields[f].from[1] \in Urns(ts)
  <2>1. PICK r \in rows : t \in ToSet(F[r])
    BY <1>5 DEF RowsHold
  <2>2. ToSet(F[r]) \subseteq ToSet(ts)
    BY <1>5 DEF RowsHold
  <2>3. t.row = r
    BY <1>3, <2>1 DEF IsTouches
  <2>4. ASSUME NEW f \in DOMAIN t.fields, t.fields[f].from # <<>> PROVE t.fields[f].from[1] \in Urns(ts)
    <3>1. PICK s \in ToSet(F[r]) : s.urn = t.fields[f].from[1]
      BY <1>3, <2>1, <2>4 DEF IsTouches
    <3> QED
      BY <2>2, <3>1 DEF Urns
  <2> QED
    BY <2>3, <2>4
<1> QED
  BY <1>6, <1>7 DEF AreTouches, ts

\* A graph the algorithms can rely on: finitely many nodes and numbered edges,
\* all of them between its nodes.
IsGraph(g) ==
    /\ IsFiniteSet(g.nodes) /\ <<>> \notin g.nodes
    /\ g.edges = [k \in DOMAIN g.edges |-> g.edges[k]]
    /\ DOMAIN g.edges \in SUBSET Nat /\ \E b \in Nat : \A k \in DOMAIN g.edges : k <= b
    /\ \A k \in DOMAIN g.edges : g.edges[k].source \in g.nodes /\ g.edges[k].target \in g.nodes

\* And columns that end at them.
ColumnsIn(g) == \A c \in g.columns : Asset(c.from) \in g.nodes /\ Asset(c.to) \in g.nodes

\* The graph, with its columns or without.
IsBuilt(g, ts, rows) ==
    /\ g.nodes = {Pipeline(r) : r \in rows} \cup {Asset(u) : u \in Urns(ts)}
    /\ g.edges = [k \in DOMAIN ts |-> TouchEdge(ts[k])]
    /\ g.shared = {Asset(u) : u \in {v \in Urns(ts) : \E s, t \in ToSet(ts) : s.urn = v /\ t.urn = v /\ s.row # t.row}}
    /\ g = [nodes |-> g.nodes, assets |-> g.assets, edges |-> g.edges, columns |-> g.columns, shared |-> g.shared]

\* The workspace graph, and what the runtime view makes of it.
LEMMA GraphParts ==
    ASSUME NEW vs, NEW rows
    PROVE  LET g == buildWorkspaceLineage([r \in rows |-> Touches(r, vs[r])], rows, Slots)
               ts == AllTouches(vs, rows)
           IN  /\ IsBuilt(g, ts, rows) /\ g.columns = UNION {TouchColumns(t) : t \in ToSet(ts)}
               /\ IsBuilt([g EXCEPT !.columns = {}], ts, rows) /\ [g EXCEPT !.columns = {}].columns = {}
<1> DEFINE F == [r \in rows |-> Touches(r, vs[r])]
           ts == AllTouches(vs, rows)
           g == buildWorkspaceLineage(F, rows, Slots)
           h == [g EXCEPT !.columns = {}]
           N == {Pipeline(r) : r \in rows} \cup {Asset(u) : u \in Urns(ts)}
           A == [u \in Urns(ts) |-> AssetOf(ts, u)]
           E == [k \in DOMAIN ts |-> TouchEdge(ts[k])]
           C == UNION {TouchColumns(t) : t \in ToSet(ts)}
           S == {Asset(u) : u \in {v \in Urns(ts) : \E s, t \in ToSet(ts) : s.urn = v /\ t.urn = v /\ s.row # t.row}}
<1>1. g = [nodes |-> N, assets |-> A, edges |-> E, columns |-> C, shared |-> S]
  BY Zenon DEF buildWorkspaceLineage, AllTouches, RowsFlat, Urns
<1> HIDE DEF g, N, A, E, C, S
<1>2. /\ g.nodes = N /\ g.edges = E /\ g.columns = C /\ g.shared = S
      /\ g = [nodes |-> g.nodes, assets |-> g.assets, edges |-> g.edges, columns |-> g.columns, shared |-> g.shared]
  BY <1>1
<1>3. /\ h.nodes = N /\ h.edges = E /\ h.columns = {} /\ h.shared = S
      /\ h = [nodes |-> h.nodes, assets |-> h.assets, edges |-> h.edges, columns |-> h.columns, shared |-> h.shared]
  BY <1>1
<1> HIDE DEF h
<1>4. IsBuilt(g, ts, rows) /\ IsBuilt(h, ts, rows)
  BY <1>2, <1>3 DEF IsBuilt, N, E, S
<1> QED
  BY <1>2, <1>3, <1>4 DEF g, h, C

\* Finitely many nodes, and edges between them.
LEMMA BuiltIsGraph ==
    ASSUME NEW g, NEW ts, NEW rows, rows \in SUBSET DOMAIN Slots, AreTouches(ts, rows), IsBuilt(g, ts, rows)
    PROVE  IsGraph(g)
<1> DEFINE U == Urns(ts)
           D == [t \in ToSet(ts) |-> t.urn]
           P == [r \in rows |-> Pipeline(r)]
           A == [u \in U |-> Asset(u)]
<1>1. IsFiniteSet(rows)
  <2>1. DOMAIN Slots = 1..Len(Slots) /\ Len(Slots) \in Nat
    BY LineageAssumption, Elements
  <2>2. IsFiniteSet(1..Len(Slots))
    BY <2>1, FS_Interval
  <2> QED
    BY <2>1, <2>2, FS_Subset
<1>2. ts \in Seq(ToSet(ts)) /\ IsFiniteSet(ToSet(ts)) /\ DOMAIN ts = 1..Len(ts) /\ Len(ts) \in Nat
  BY Elements DEF AreTouches
<1>3. IsFiniteSet(U)
  <2>1. D \in Surjection(ToSet(ts), U)
    BY DEF Surjection, Urns
  <2> HIDE DEF D, U
  <2> QED
    BY <1>2, <2>1, FS_Surjection
<1>4. IsFiniteSet({Pipeline(r) : r \in rows})
  <2>1. P \in Surjection(rows, {Pipeline(r) : r \in rows})
    BY DEF Surjection
  <2> HIDE DEF P
  <2> QED
    BY <1>1, <2>1, FS_Surjection
<1>5. IsFiniteSet({Asset(u) : u \in U})
  <2> HIDE DEF U
  <2>1. A \in Surjection(U, {Asset(u) : u \in U})
    BY DEF Surjection
  <2> HIDE DEF A
  <2> QED
    BY <1>3, <2>1, FS_Surjection
<1>6. g.nodes = {Pipeline(r) : r \in rows} \cup {Asset(u) : u \in U} /\ g.edges = [k \in DOMAIN ts |-> TouchEdge(ts[k])]
  BY DEF IsBuilt
<1>7. IsFiniteSet(g.nodes)
  <2>1. IsFiniteSet({Pipeline(r) : r \in rows} \cup {Asset(u) : u \in U})
    BY <1>4, <1>5, FS_Union
  <2> QED
    BY <1>6, <2>1
<1>8. <<>> \notin g.nodes
  BY <1>6 DEF Pipeline, Asset
<1>9. DOMAIN g.edges = DOMAIN ts /\ \A k \in DOMAIN ts : g.edges[k] = TouchEdge(ts[k])
  BY <1>6
<1>10. g.edges = [k \in DOMAIN g.edges |-> g.edges[k]]
  BY <1>6, <1>9
<1>11. DOMAIN g.edges \in SUBSET Nat /\ \E b \in Nat : \A k \in DOMAIN g.edges : k <= b
  <2>1. \A k \in DOMAIN g.edges : k \in Nat /\ k <= Len(ts)
    BY <1>2, <1>9
  <2> QED
    BY <1>2, <2>1
<1>12. \A k \in DOMAIN g.edges : g.edges[k].source \in g.nodes /\ g.edges[k].target \in g.nodes
  <2> TAKE k \in DOMAIN g.edges
  <2>1. ts[k] \in ToSet(ts)
    BY <1>9 DEF ToSet
  <2>2. Pipeline(ts[k].row) \in g.nodes /\ Asset(ts[k].urn) \in g.nodes
    BY <1>6, <2>1 DEF AreTouches, Urns
  <2>3. \A s, t : Edge(s, t).source = s /\ Edge(s, t).target = t
    BY DEF Edge
  <2>4. \/ g.edges[k] = Edge(Asset(ts[k].urn), Pipeline(ts[k].row))
        \/ g.edges[k] = Edge(Pipeline(ts[k].row), Asset(ts[k].urn))
    BY <1>9, Zenon DEF TouchEdge
  <2> QED
    BY <2>2, <2>3, <2>4
<1> QED
  BY <1>7, <1>8, <1>10, <1>11, <1>12 DEF IsGraph

\* The columns of a sink run from the assets read before it.
LEMMA ColumnEnds ==
    ASSUME NEW g, NEW ts, NEW rows, AreTouches(ts, rows), IsBuilt(g, ts, rows),
           g.columns \subseteq UNION {TouchColumns(t) : t \in ToSet(ts)}
    PROVE  ColumnsIn(g)
<1> SUFFICES ASSUME NEW c \in g.columns PROVE Asset(c.from) \in g.nodes /\ Asset(c.to) \in g.nodes
  BY DEF ColumnsIn
<1>1. PICK t \in ToSet(ts) : c \in TouchColumns(t)
  OBVIOUS
<1>2. PICK f \in DOMAIN t.fields : t.fields[f].from # <<>> /\ c.from = t.fields[f].from[1] /\ c.to = t.urn
  BY <1>1 DEF TouchColumns
<1>3. c.from \in Urns(ts) /\ c.to \in Urns(ts)
  BY <1>1, <1>2 DEF AreTouches, Urns
<1> QED
  BY <1>3 DEF IsBuilt

-----------------------------------------------------------------------------
(* Filters keep a graph a graph *)

\* The edges between the nodes that are kept.
KeptEdges(g, A) == {k \in DOMAIN g.edges : {g.edges[k].source, g.edges[k].target} \subseteq A}
KeptColumns(g, A) == {c \in g.columns : Asset(c.from) \in A /\ Asset(c.to) \in A}

\* The parts of a graph.
IsRecord(g) ==
    g = [nodes |-> g.nodes, assets |-> g.assets, edges |-> g.edges, columns |-> g.columns, shared |-> g.shared]

\* The fields of what is kept.
LEMMA OnlyParts ==
    ASSUME NEW g, IsRecord(g), NEW A
    PROVE  /\ Only(g, A) = [nodes |-> A, assets |-> g.assets, edges |-> EdgesAmong(g, KeptEdges(g, A)),
                            columns |-> g.columns, shared |-> g.shared]
           /\ Only(g, A).nodes = A
           /\ Only(g, A).edges = EdgesAmong(g, KeptEdges(g, A))
           /\ Only(g, A).columns = g.columns
           /\ IsRecord(Only(g, A))
<1> DEFINE E == EdgesAmong(g, KeptEdges(g, A))
           o == [nodes |-> A, assets |-> g.assets, edges |-> E, columns |-> g.columns, shared |-> g.shared]
<1>1. Only(g, A) = [g EXCEPT !.nodes = A, !.edges = E]
  BY Zenon DEF Only, KeptEdges
<1> HIDE DEF E
<1>2. Only(g, A) = o
  BY <1>1 DEF IsRecord
<1>3. o.nodes = A /\ o.edges = E /\ o.columns = g.columns /\ IsRecord(o)
  BY DEF IsRecord
<1> QED
  BY <1>2, <1>3 DEF E

LEMMA KeepParts ==
    ASSUME NEW g, IsRecord(g), NEW A
    PROVE  /\ Keep(g, A).nodes = A
           /\ Keep(g, A).assets = g.assets
           /\ Keep(g, A).edges = EdgesAmong(g, KeptEdges(g, A))
           /\ Keep(g, A).columns = KeptColumns(g, A)
           /\ IsRecord(Keep(g, A))
<1>1. Only(g, A).edges = EdgesAmong(g, KeptEdges(g, A))
  BY OnlyParts
<1> QED
  BY <1>1 DEF Keep, IsRecord, KeptColumns

\* What is kept of a graph is a graph.
LEMMA KeptIsGraph ==
    ASSUME NEW g, IsGraph(g), NEW A \in SUBSET g.nodes,
           NEW h, h.nodes = A, h.edges = EdgesAmong(g, KeptEdges(g, A))
    PROVE  IsGraph(h)
<1>1. IsFiniteSet(A) /\ <<>> \notin A
  BY FS_Subset DEF IsGraph
<1>2. DOMAIN h.edges = KeptEdges(g, A) /\ \A k \in KeptEdges(g, A) : h.edges[k] = g.edges[k]
  BY DEF EdgesAmong
<1>3. h.edges = [k \in DOMAIN h.edges |-> h.edges[k]]
  BY DEF EdgesAmong
<1>4. KeptEdges(g, A) \subseteq DOMAIN g.edges
  BY DEF KeptEdges
<1>5. DOMAIN h.edges \in SUBSET Nat /\ \E b \in Nat : \A k \in DOMAIN h.edges : k <= b
  BY <1>2, <1>4 DEF IsGraph
<1>6. \A k \in DOMAIN h.edges : h.edges[k].source \in A /\ h.edges[k].target \in A
  BY <1>2 DEF KeptEdges
<1> QED
  BY <1>1, <1>3, <1>5, <1>6 DEF IsGraph

\* So are those of the two ways to keep nodes.
LEMMA KeepIsGraph ==
    ASSUME NEW g, IsGraph(g), IsRecord(g), NEW A \in SUBSET g.nodes
    PROVE  /\ IsGraph(Only(g, A)) /\ IsRecord(Only(g, A)) /\ Only(g, A).nodes = A
           /\ IsGraph(Keep(g, A)) /\ IsRecord(Keep(g, A)) /\ Keep(g, A).nodes = A
<1> DEFINE o == Only(g, A)
           k == Keep(g, A)
<1>1. o.nodes = A /\ o.edges = EdgesAmong(g, KeptEdges(g, A)) /\ IsRecord(o)
  BY OnlyParts
<1>2. k.nodes = A /\ k.edges = EdgesAmong(g, KeptEdges(g, A)) /\ IsRecord(k)
  BY KeepParts
<1> HIDE DEF o, k
<1>3. IsGraph(o) /\ IsGraph(k)
  BY <1>1, <1>2, KeptIsGraph
<1> QED
  BY <1>1, <1>2, <1>3 DEF o, k

\* Keeping all nodes keeps all edges.
LEMMA OnlyWhole ==
    ASSUME NEW g, IsGraph(g), IsRecord(g)
    PROVE  Only(g, g.nodes) = g /\ EdgesAmong(g, KeptEdges(g, g.nodes)) = g.edges
<1>1. KeptEdges(g, g.nodes) = DOMAIN g.edges
  BY DEF KeptEdges, IsGraph
<1>2. EdgesAmong(g, KeptEdges(g, g.nodes)) = g.edges
  BY <1>1 DEF IsGraph, EdgesAmong
<1> DEFINE E == EdgesAmong(g, KeptEdges(g, g.nodes))
<1>3. Only(g, g.nodes) = [nodes |-> g.nodes, assets |-> g.assets, edges |-> E,
                          columns |-> g.columns, shared |-> g.shared]
  BY OnlyParts
<1>4. E = g.edges
  BY <1>2
<1> HIDE DEF E
<1>5. Only(g, g.nodes) = g
  BY <1>3, <1>4 DEF IsRecord
<1> QED
  BY <1>2, <1>5

\* Keeping all of the workspace graph changes nothing of it: an asset is shared
\* if the pipelines at the other ends of its edges differ.
LEMMA KeepWhole ==
    ASSUME NEW g, NEW ts, NEW rows, rows \in SUBSET DOMAIN Slots,
           AreTouches(ts, rows), IsBuilt(g, ts, rows), ColumnsIn(g)
    PROVE  Keep(g, g.nodes) = g
<1> DEFINE h == Keep(g, g.nodes)
           uses(n) == {e.target : e \in {d \in ToSet(h.edges) : d.source = n}}
                      \cup {e.source : e \in {d \in ToSet(h.edges) : d.target = n}}
           Twice(u) == \E s, t \in ToSet(ts) : s.urn = u /\ t.urn = u /\ s.row # t.row
<1>1. IsGraph(g) /\ IsRecord(g)
  BY BuiltIsGraph DEF IsBuilt, IsRecord
<1>2. /\ g.nodes = {Pipeline(r) : r \in rows} \cup {Asset(u) : u \in Urns(ts)}
      /\ g.edges = [k \in DOMAIN ts |-> TouchEdge(ts[k])]
      /\ g.shared = {Asset(u) : u \in {v \in Urns(ts) : Twice(v)}}
  BY DEF IsBuilt
<1>3. ToSet(g.edges) = {TouchEdge(t) : t \in ToSet(ts)}
  BY <1>2 DEF ToSet
<1>4. h.edges = g.edges
  BY <1>1, OnlyWhole, KeepParts
<1>5. /\ h.shared = {n \in g.nodes : n[1] = "asset" /\ \E x, y \in uses(n) : x # y}
      /\ h.nodes = g.nodes /\ h.assets = g.assets /\ IsRecord(h)
      /\ h.columns = KeptColumns(g, g.nodes)
  <2>1. Only(g, g.nodes).edges = h.edges
    BY <1>1, OnlyParts, KeepParts
  <2>2. h.shared = {n \in g.nodes : n[1] = "asset" /\ \E x, y \in uses(n) : x # y}
    BY <2>1 DEF Keep
  <2> QED
    BY <1>1, <2>2, KeepParts
<1> HIDE DEF h
<1>6. h.columns = g.columns
  BY <1>5 DEF ColumnsIn, KeptColumns
<1>7. /\ \A s, t : Edge(s, t).source = s /\ Edge(s, t).target = t
      /\ \A u, v : Asset(u) = Asset(v) => u = v
      /\ \A r, q : Pipeline(r) = Pipeline(q) => r = q
      /\ \A u, r : Asset(u) # Pipeline(r) /\ Asset(u)[1] = "asset" /\ Pipeline(r)[1] # "asset"
  BY DEF Edge, Asset, Pipeline
<1>8. ASSUME NEW u, NEW x PROVE x \in uses(Asset(u)) <=> \E t \in ToSet(ts) : x = Pipeline(t.row) /\ t.urn = u
  <2>0. ASSUME NEW t PROVE TouchEdge(t) = Edge(Asset(t.urn), Pipeline(t.row)) \/ TouchEdge(t) = Edge(Pipeline(t.row), Asset(t.urn))
    BY Zenon DEF TouchEdge
  <2>1. ASSUME x \in uses(Asset(u)) PROVE \E t \in ToSet(ts) : x = Pipeline(t.row) /\ t.urn = u
    <3>1. PICK e \in ToSet(g.edges) : (e.source = Asset(u) /\ x = e.target) \/ (e.target = Asset(u) /\ x = e.source)
      BY <1>4, <2>1
    <3>2. PICK t \in ToSet(ts) : e = TouchEdge(t)
      BY <1>3
    <3>3. t.urn = u /\ x = Pipeline(t.row)
      BY <1>7, <2>0, <3>1, <3>2
    <3> QED
      BY <3>3
  <2>2. ASSUME NEW t \in ToSet(ts), x = Pipeline(t.row), t.urn = u PROVE x \in uses(Asset(u))
    <3>1. TouchEdge(t) \in ToSet(g.edges)
      BY <1>3
    <3>2. \/ TouchEdge(t).source = Asset(u) /\ TouchEdge(t).target = x
          \/ TouchEdge(t).target = Asset(u) /\ TouchEdge(t).source = x
      BY <1>7, <2>0, <2>2
    <3> QED
      BY <1>4, <3>1, <3>2
  <2> QED
    BY <2>1, <2>2
<1> HIDE DEF uses
<1>9. ASSUME NEW u PROVE (\E x, y \in uses(Asset(u)) : x # y) <=> Twice(u)
  <2>1. ASSUME NEW x \in uses(Asset(u)), NEW y \in uses(Asset(u)), x # y PROVE Twice(u)
    <3>1. PICK s \in ToSet(ts) : x = Pipeline(s.row) /\ s.urn = u
      BY <1>8
    <3>2. PICK t \in ToSet(ts) : y = Pipeline(t.row) /\ t.urn = u
      BY <1>8
    <3> QED
      BY <2>1, <3>1, <3>2
  <2>2. ASSUME NEW s \in ToSet(ts), NEW t \in ToSet(ts), s.urn = u, t.urn = u, s.row # t.row
        PROVE  \E x, y \in uses(Asset(u)) : x # y
    <3>1. Pipeline(s.row) \in uses(Asset(u)) /\ Pipeline(t.row) \in uses(Asset(u))
      BY <1>8, <2>2
    <3>2. Pipeline(s.row) # Pipeline(t.row)
      BY <1>7, <2>2
    <3> QED
      BY <3>1, <3>2
  <2> QED
    BY <2>1, <2>2
<1> HIDE DEF Twice
<1>10. ASSUME NEW n PROVE n \in h.shared <=> n \in g.shared
  <2>1. n \in h.shared <=> n \in g.nodes /\ n[1] = "asset" /\ \E x, y \in uses(n) : x # y
    BY <1>5
  <2>2. n \in g.nodes /\ n[1] = "asset" <=> \E u \in Urns(ts) : n = Asset(u)
    BY <1>2, <1>7
  <2>3. n \in h.shared <=> \E u \in Urns(ts) : n = Asset(u) /\ \E x, y \in uses(Asset(u)) : x # y
    BY <2>1, <2>2
  <2>4. n \in g.shared <=> \E u \in Urns(ts) : n = Asset(u) /\ Twice(u)
    BY <1>2
  <2> QED
    BY <1>9, <2>3, <2>4
<1>11. h.shared = g.shared
  <2>1. h.shared = {n \in g.nodes : n[1] = "asset" /\ \E x, y \in uses(n) : x # y}
    BY <1>5
  <2>2. g.shared = {Asset(u) : u \in {v \in Urns(ts) : Twice(v)}}
    BY <1>2
  <2> QED
    BY <1>10, <2>1, <2>2
<1>12. h = g
  BY <1>1, <1>4, <1>5, <1>6, <1>11 DEF IsRecord
<1> QED
  BY <1>12 DEF h

\* The filters by domain, layer and query add nothing.
LEMMA AllowedWithin ==
    ASSUME NEW g, NEW vs, NEW f
    PROVE  Allowed(g, vs, Slots, f) \subseteq g.nodes
<1>1. ASSUME NEW seeds, NEW within, seeds \subseteq within PROVE incident(g, seeds, within) \subseteq within
  BY <1>1 DEF incident
<1> DEFINE pipelines == {n \in g.nodes : n[1] = "pipeline" /\ vs[n[2]].domain = f.domain}
           a1 == IF f.domain = "" THEN g.nodes ELSE incident(g, pipelines, g.nodes)
           layered == {n \in a1 : n[1] = "asset" /\ g.assets[n[2]].layer = f.layer}
           a2 == IF f.layer = "" THEN a1 ELSE incident(g, layered, a1)
           words(n) == IF n[1] = "asset"
                       THEN {n[2][1], n[2][2], g.assets[n[2]].layer} \cup DOMAIN g.assets[n[2]].schema
                       ELSE {Slots[n[2]][1], Slots[n[2]][2], vs[n[2]].domain} \ {"Unassigned"}
           found == {n \in a2 : f.query \in words(n)}
           a3 == IF f.query = "" THEN a2 ELSE incident(g, found, a2)
<1>2. Allowed(g, vs, Slots, f) = a3
  BY Zenon DEF Allowed
<1>3. pipelines \subseteq g.nodes
  OBVIOUS
<1> HIDE DEF pipelines
<1>4. a1 \subseteq g.nodes
  BY <1>1, <1>3
<1> HIDE DEF a1
<1>5. layered \subseteq a1
  OBVIOUS
<1> HIDE DEF layered
<1>6. a2 \subseteq a1
  BY <1>1, <1>5
<1> HIDE DEF a2
<1>7. found \subseteq a2
  OBVIOUS
<1> HIDE DEF found, words
<1>8. a3 \subseteq a2
  BY <1>1, <1>7
<1> QED
  BY <1>2, <1>4, <1>6, <1>8

\* One round of the search around the focus.
FrontNode(st) == Head(st.queue)[1]
FrontDistance(st) == Head(st.queue)[2]
FrontNew(g, allowed, st) == (neighbours(g, FrontNode(st)) \cap allowed) \ st.focused
Pushed(g, allowed, st) ==
    [k \in 1..Cardinality(FrontNew(g, allowed, st)) |-> <<SetToSeq(FrontNew(g, allowed, st))[k], FrontDistance(st) + 1>>]

\* What one round of the search pops and pushes.
LEMMA SpreadRound ==
    ASSUME NEW g, NEW allowed, IsFiniteSet(allowed), NEW st \in spreadStates(allowed), st.queue # <<>>
    PROVE  /\ FrontNode(st) \in allowed /\ FrontDistance(st) \in Nat /\ Tail(st.queue) \in Seq(allowed \X Nat)
           /\ Head(st.queue) = <<FrontNode(st), FrontDistance(st)>>
           /\ Pushed(g, allowed, st) \in Seq(allowed \X Nat)
           /\ ToSet(Pushed(g, allowed, st)) = {<<m, FrontDistance(st) + 1>> : m \in FrontNew(g, allowed, st)}
           /\ IsInjective(Pushed(g, allowed, st))
           /\ Tail(st.queue) \o Pushed(g, allowed, st) \in Seq(allowed \X Nat)
<1> DEFINE id == FrontNode(st)
           distance == FrontDistance(st)
           new == FrontNew(g, allowed, st)
           q == SetToSeq(new)
           n == Cardinality(new)
           pushed == [k \in 1..n |-> <<q[k], distance + 1>>]
<1>1. st.queue \in Seq(allowed \X Nat)
  BY DEF spreadStates
<1>2. Head(st.queue) \in allowed \X Nat /\ Tail(st.queue) \in Seq(allowed \X Nat)
  BY <1>1, HeadTailProperties
<1>3. id \in allowed /\ distance \in Nat /\ Head(st.queue) = <<id, distance>>
  BY <1>2 DEF FrontNode, FrontDistance
<1>4. IsFiniteSet(new) /\ new \subseteq allowed
  BY FS_Subset DEF FrontNew
<1> HIDE DEF id, distance, new
<1>5. q \in Seq(new) /\ ToSet(q) = new /\ IsInjective(q) /\ Len(q) = n /\ n \in Nat
  BY <1>4, SetToSeqElements
<1> HIDE DEF q, n
<1>6. DOMAIN q = 1..n /\ q \in [1..n -> new]
  BY <1>5, Elements
<1>7. pushed \in [DOMAIN q -> allowed \X Nat]
  BY <1>3, <1>4, <1>6
<1>8. /\ DOMAIN pushed = 1..n /\ \A k \in 1..n : pushed[k] = <<q[k], distance + 1>>
  OBVIOUS
<1> HIDE DEF pushed
<1>9. pushed \in Seq(allowed \X Nat) /\ Len(pushed) = n
  BY <1>5, <1>7, Mapped
<1>10. ToSet(pushed) = {<<m, distance + 1>> : m \in new}
  <2>1. \A m \in new : \E k \in 1..n : m = q[k]
    BY <1>5, <1>6 DEF ToSet
  <2>2. \A k \in 1..n : q[k] \in new
    BY <1>6
  <2>3. ToSet(pushed) = {pushed[k] : k \in 1..n}
    BY <1>8 DEF ToSet
  <2>4. \A k \in 1..n : pushed[k] \in {<<m, distance + 1>> : m \in new}
    BY <1>8, <2>2
  <2>5. ASSUME NEW m \in new PROVE <<m, distance + 1>> \in {pushed[k] : k \in 1..n}
    <3>1. PICK k \in 1..n : m = q[k]
      BY <2>1
    <3>2. pushed[k] = <<m, distance + 1>>
      BY <1>8, <3>1
    <3> QED
      BY <3>2
  <2>6. {pushed[k] : k \in 1..n} \subseteq {<<m, distance + 1>> : m \in new}
    BY <2>4, Zenon
  <2>7. {<<m, distance + 1>> : m \in new} \subseteq {pushed[k] : k \in 1..n}
    BY <2>5, Zenon
  <2> QED
    BY <2>3, <2>6, <2>7, Zenon
<1>11. IsInjective(pushed)
  <2> SUFFICES ASSUME NEW a \in 1..n, NEW b \in 1..n, pushed[a] = pushed[b] PROVE a = b
    BY <1>8 DEF IsInjective
  <2>1. q[a] = q[b]
    BY <1>8
  <2> QED
    BY <1>5, <1>6, <2>1 DEF IsInjective
<1>12. Tail(st.queue) \o pushed \in Seq(allowed \X Nat)
  BY <1>2, <1>9, ConcatElements
<1>13. pushed = Pushed(g, allowed, st)
  BY DEF pushed, n, q, new, distance, Pushed
<1> QED
  BY <1>2, <1>3, <1>9, <1>10, <1>11, <1>12, <1>13 DEF new, distance, id

\* The round in these terms.
LEMMA SpreadStepIs ==
    ASSUME NEW g, NEW allowed, NEW depth, NEW st, st.queue # <<>>
    PROVE  spreadStep(g, allowed, depth, st) =
             IF reached(FrontDistance(st), depth) THEN [queue |-> Tail(st.queue), focused |-> st.focused]
             ELSE [queue |-> Tail(st.queue) \o Pushed(g, allowed, st), focused |-> st.focused \cup FrontNew(g, allowed, st)]
BY Zenon DEF spreadStep, FrontDistance, FrontNode, FrontNew, Pushed

\* A round leaves a state of the search.
LEMMA SpreadTyped ==
    ASSUME NEW g, NEW allowed, IsFiniteSet(allowed), NEW depth, NEW st \in spreadStates(allowed)
    PROVE  spreadStep(g, allowed, depth, st) \in spreadStates(allowed)
<1> DEFINE new == FrontNew(g, allowed, st)
           t == Tail(st.queue)
           q == Tail(st.queue) \o Pushed(g, allowed, st)
<1>1. CASE st.queue = <<>>
  BY <1>1 DEF spreadStep
<1>2. CASE st.queue # <<>>
  <2>1. spreadStep(g, allowed, depth, st) =
          IF reached(FrontDistance(st), depth) THEN [queue |-> t, focused |-> st.focused]
          ELSE [queue |-> q, focused |-> st.focused \cup new]
    BY <1>2, SpreadStepIs
  <2>2. t \in Seq(allowed \X Nat) /\ q \in Seq(allowed \X Nat)
    BY <1>2, SpreadRound
  <2>3. st.focused \in SUBSET allowed /\ st.focused \cup new \in SUBSET allowed
    BY DEF spreadStates, FrontNew
  <2> HIDE DEF q, t, new
  <2>4. /\ [queue |-> t, focused |-> st.focused] \in spreadStates(allowed)
        /\ [queue |-> q, focused |-> st.focused \cup new] \in spreadStates(allowed)
    BY <2>2, <2>3 DEF spreadStates
  <2> QED
    BY <2>1, <2>4
<1> QED
  BY <1>1, <1>2

\* The body and the start of the search.
SpreadBody(g, allowed, depth) == [st \in spreadStates(allowed) |-> spreadStep(g, allowed, depth, st)]
SpreadStart(n) == [queue |-> <<<<n, 0>>>>, focused |-> {n}]

\* The search is a loop over its states.
LEMMA SpreadLoops ==
    ASSUME NEW g, NEW allowed, IsFiniteSet(allowed), NEW depth, NEW n \in allowed
    PROVE  /\ SpreadBody(g, allowed, depth) \in [spreadStates(allowed) -> spreadStates(allowed)]
           /\ SpreadStart(n) \in spreadStates(allowed)
           /\ Cardinality(allowed) \in Nat
           /\ spread(g, allowed, depth, n) = Iterate(SpreadBody(g, allowed, depth), SpreadStart(n), Cardinality(allowed)).focused
<1>1. SpreadBody(g, allowed, depth) \in [spreadStates(allowed) -> spreadStates(allowed)]
  BY SpreadTyped DEF SpreadBody
<1>2. SpreadStart(n) \in spreadStates(allowed)
  <2> DEFINE p == <<n, 0>>
             q == <<p>>
  <2>1. p \in allowed \X Nat
    OBVIOUS
  <2> HIDE DEF p
  <2>2. q \in Seq(allowed \X Nat)
    BY <2>1, SingletonElements
  <2> HIDE DEF q
  <2>3. [queue |-> q, focused |-> {n}] \in spreadStates(allowed)
    BY <2>2 DEF spreadStates
  <2> QED
    BY <2>3 DEF SpreadStart, q, p
<1>3. Cardinality(allowed) \in Nat
  BY FS_CardinalityType
<1>4. spread(g, allowed, depth, n) = Iterate(SpreadBody(g, allowed, depth), SpreadStart(n), Cardinality(allowed)).focused
  BY Zenon DEF spread, SpreadBody, SpreadStart
<1> QED
  BY <1>1, <1>2, <1>3, <1>4

\* It finds allowed nodes only.
LEMMA SpreadWithin ==
    ASSUME NEW g, NEW allowed, IsFiniteSet(allowed), NEW depth, NEW n \in allowed
    PROVE  spread(g, allowed, depth, n) \subseteq allowed
<1> DEFINE S == spreadStates(allowed)
           h == SpreadBody(g, allowed, depth)
           a == SpreadStart(n)
           K == Cardinality(allowed)
           Inv == Nat \X S
<1>1. h \in [S -> S] /\ a \in S /\ K \in Nat /\ spread(g, allowed, depth, n) = Iterate(h, a, K).focused
  BY SpreadLoops
<1> HIDE DEF S, h, a, K
<1>2. <<0, a>> \in Inv /\ \A k \in 0..(K - 1) : \A st \in S : <<k, st>> \in Inv => <<k + 1, h[st]>> \in Inv
  BY <1>1
<1> HIDE DEF Inv
<1>3. Iterate(h, a, K) \in S
  BY <1>1, <1>2, LoopInvariant
<1>4. Iterate(h, a, K).focused \subseteq allowed
  <2>1. \A st \in S : st.focused \subseteq allowed
    BY DEF S, spreadStates
  <2> QED
    BY <1>3, <2>1
<1> QED
  BY <1>1, <1>4

\* filterWorkspaceLineage yields a graph: the one it is given, or what it keeps
\* of it, statistics computed anew.
LEMMA FilterIsGraph ==
    ASSUME NEW g, IsGraph(g), IsRecord(g), NEW vs, NEW f
    PROVE  /\ IsGraph(filterWorkspaceLineage(g, vs, Slots, f)) /\ IsRecord(filterWorkspaceLineage(g, vs, Slots, f))
           /\ filterWorkspaceLineage(g, vs, Slots, f).nodes \subseteq g.nodes
           /\ \/ filterWorkspaceLineage(g, vs, Slots, f) = g
              \/ filterWorkspaceLineage(g, vs, Slots, f) = Keep(g, filterWorkspaceLineage(g, vs, Slots, f).nodes)
<1> DEFINE allowed == Allowed(g, vs, Slots, f)
           within == IF f.depth > 0 /\ f.selected \in allowed
                     THEN spread(g, allowed, f.depth, f.selected) ELSE allowed
           F == filterWorkspaceLineage(g, vs, Slots, f)
<1>1. F = g \/ F = Keep(g, within)
  BY Zenon DEF filterWorkspaceLineage
<1>2. allowed \subseteq g.nodes /\ IsFiniteSet(allowed)
  BY AllowedWithin, FS_Subset DEF IsGraph
<1> HIDE DEF allowed
<1>3. within \subseteq allowed
  BY <1>2, SpreadWithin
<1> HIDE DEF within, F
<1>4. IsGraph(Keep(g, within)) /\ IsRecord(Keep(g, within)) /\ Keep(g, within).nodes = within
  BY <1>2, <1>3, KeepIsGraph
<1> QED
  BY <1>1, <1>2, <1>3, <1>4 DEF F

\* The health filter leaves nodes of the graph, and the edges between them.
LEMMA HealthIsGraph ==
    ASSUME NEW g, IsGraph(g), IsRecord(g), NEW matched \in SUBSET g.nodes
    PROVE  IsGraph(healthFilter(g, matched)) /\ healthFilter(g, matched).nodes \subseteq g.nodes
<1> DEFINE S == [index : Nat, matched : SUBSET g.nodes]
           h == [st \in S |-> growStep(g, st)]
           a == [index |-> 1, matched |-> matched]
           K == Max({0} \cup DOMAIN g.edges)
           Inv == Nat \X S
           R == Iterate(h, a, K).matched
<1>1. healthFilter(g, matched) = Only(g, R)
  BY Zenon DEF healthFilter
<1>2. ASSUME NEW st \in S PROVE growStep(g, st) \in S
  <2> DEFINE ends == {g.edges[st.index].source, g.edges[st.index].target}
             grown == IF st.index \in DOMAIN g.edges /\ ends \cap st.matched # {}
                      THEN st.matched \cup ends ELSE st.matched
  <2>1. growStep(g, st) = [index |-> st.index + 1, matched |-> grown]
    BY Zenon DEF growStep
  <2>2. st.index \in Nat /\ st.matched \in SUBSET g.nodes
    OBVIOUS
  <2>3. grown \in SUBSET g.nodes
    BY <2>2 DEF IsGraph
  <2> HIDE DEF grown
  <2> QED
    BY <2>1, <2>2, <2>3
<1>3. a \in S
  OBVIOUS
<1>4. K \in Nat
  <2> DEFINE D == {0} \cup DOMAIN g.edges
  <2>1. PICK b \in Nat : \A k \in DOMAIN g.edges : k <= b
    BY DEF IsGraph
  <2>2. D \in SUBSET Nat /\ D # {} /\ \A y \in D : y <= b
    BY <2>1 DEF IsGraph
  <2> HIDE DEF D
  <2>3. Max(D) \in D
    BY <2>2, MaxOf
  <2> QED
    BY <2>2, <2>3 DEF D
<1> HIDE DEF K, a
<1>5. h \in [S -> S]
  <2> HIDE DEF S
  <2> QED
    BY <1>2
<1>6. \A st \in S : st.matched \in SUBSET g.nodes
  OBVIOUS
<1> HIDE DEF S, h
<1>7. <<0, a>> \in Inv /\ \A k \in 0..(K - 1) : \A st \in S : <<k, st>> \in Inv => <<k + 1, h[st]>> \in Inv
  BY <1>3, <1>4, <1>5
<1> HIDE DEF Inv
<1>8. Iterate(h, a, K) \in S
  BY <1>3, <1>4, <1>5, <1>7, LoopInvariant
<1>9. R \in SUBSET g.nodes
  BY <1>6, <1>8
<1> HIDE DEF R
<1>10. IsGraph(Only(g, R)) /\ Only(g, R).nodes = R
  BY <1>9, KeepIsGraph
<1> QED
  BY <1>1, <1>9, <1>10

\* The graphs of the page.
LEMMA PageGraphs ==
    ASSUME PageInv
    PROVE  /\ Rows(versions, listed)
           /\ IsGraph(graph) /\ IsRecord(graph) /\ IsGraph(OnlyActive(graph)) /\ IsGraph(filteredGraph) /\ IsGraph(visible)
           /\ OnlyActive(graph).nodes \subseteq graph.nodes
           /\ filteredGraph.nodes \subseteq OnlyActive(graph).nodes
           /\ visible.nodes \subseteq filteredGraph.nodes
           /\ ColumnsIn(filteredGraph)
           /\ filteredGraph.nodes = graph.nodes => filteredGraph = graph
<1> DEFINE F == [i \in listed |-> Touches(i, versions[i])]
           built == buildWorkspaceLineage(F, listed, Slots)
           ts == AllTouches(versions, listed)
           g == OnlyActive(graph)
<1>1. Rows(versions, listed) /\ listed \in SUBSET DOMAIN Slots
  BY DraftsArePublished DEF Rows, listed, PageInv, VersionsPublished
<1>2. graph = Shown(built)
  <2>1. \A i \in listed : versions[i] \in Drafts[i] /\ i \in DOMAIN Slots
    BY DEF listed, PageInv, VersionsPublished
  <2>2. \A i \in listed : Touched[i][versions[i]] = Touches(i, versions[i])
    BY <2>1 DEF Touched
  <2>3. [i \in listed |-> Touched[i][versions[i]]] = F
    BY <2>2
  <2> QED
    BY <2>3, Zenon DEF graph
<1>3. AreTouches(ts, listed)
  BY <1>1, RowsAreTouches
<1>4. /\ IsBuilt(built, ts, listed) /\ built.columns = UNION {TouchColumns(t) : t \in ToSet(ts)}
      /\ IsBuilt([built EXCEPT !.columns = {}], ts, listed) /\ [built EXCEPT !.columns = {}].columns = {}
  BY GraphParts
<1> HIDE DEF built, ts
<1>5. /\ IsBuilt(graph, ts, listed) /\ graph.columns \subseteq UNION {TouchColumns(t) : t \in ToSet(ts)}
      /\ view.tab = "runtime" => graph.columns = {}
  BY <1>2, <1>4 DEF Shown
<1>6. IsGraph(graph) /\ IsRecord(graph)
  BY <1>1, <1>3, <1>5, BuiltIsGraph DEF IsBuilt, IsRecord
<1>7. ColumnsIn(graph)
  BY <1>3, <1>5, ColumnEnds
<1>8. Keep(graph, graph.nodes) = graph
  BY <1>1, <1>3, <1>5, <1>7, KeepWhole
<1>9. /\ IsGraph(g) /\ IsRecord(g) /\ g.nodes \subseteq graph.nodes /\ ColumnsIn(g)
      /\ g.nodes = graph.nodes => g = graph
  <2>1. CASE ~view.activeOnly
    BY <1>6, <1>7, <2>1 DEF OnlyActive
  <2>2. CASE view.activeOnly
    <3> DEFINE used == UNION {{e.source, e.target} : e \in
                            {d \in Links(graph) : d.source \in Active \/ d.target \in Active}}
               A == Active \cup {n \in used : n[1] = "asset"}
    <3>1. g = Only(graph, A)
      BY <2>2, Zenon DEF OnlyActive, activeFilter
    <3>2. Active \subseteq graph.nodes
      <4>1. \A r \in listed : Pipeline(r) \in graph.nodes
        BY <1>5 DEF IsBuilt
      <4> QED
        BY <4>1 DEF Active
    <3>3. \A e \in Links(graph) : e.source \in graph.nodes /\ e.target \in graph.nodes
      BY <1>6 DEF IsGraph, Links, ToSet
    <3>4. used \subseteq graph.nodes
      BY <3>3
    <3>5. A \subseteq graph.nodes
      BY <3>2, <3>4
    <3> HIDE DEF A, g
    <3>6. IsGraph(Only(graph, A)) /\ IsRecord(Only(graph, A)) /\ Only(graph, A).nodes = A
      BY <1>6, <3>5, KeepIsGraph
    <3>7. view.tab = "runtime"
      BY <2>2 DEF PageInv, ViewOpened
    <3>8. Only(graph, A).columns = {}
      BY <1>5, <1>6, <3>7, OnlyParts
    <3> QED
      BY <1>6, <3>1, <3>5, <3>6, <3>8, OnlyWhole DEF ColumnsIn
  <2> QED
    BY <2>1, <2>2
<1>10. filteredGraph = filterWorkspaceLineage(g, versions, Slots, view)
  BY DEF filteredGraph
<1> HIDE DEF g
<1>11. /\ IsGraph(filteredGraph) /\ IsRecord(filteredGraph) /\ filteredGraph.nodes \subseteq g.nodes
       /\ filteredGraph = g \/ filteredGraph = Keep(g, filteredGraph.nodes)
  BY <1>9, <1>10, FilterIsGraph
<1>12. ColumnsIn(filteredGraph)
  <2>1. CASE filteredGraph = g
    BY <1>9, <2>1
  <2>2. CASE filteredGraph = Keep(g, filteredGraph.nodes)
    <3> DEFINE A == filteredGraph.nodes
    <3>1. filteredGraph = Keep(g, A)
      BY <2>2
    <3> HIDE DEF A
    <3>2. Keep(g, A).columns = KeptColumns(g, A) /\ Keep(g, A).nodes = A
      BY <1>9, KeepParts
    <3> QED
      BY <3>1, <3>2 DEF ColumnsIn, KeptColumns
  <2> QED
    BY <1>11, <2>1, <2>2
<1>13. IsGraph(visible) /\ visible.nodes \subseteq filteredGraph.nodes
  <2>1. CASE view.health = ""
    BY <1>11, <2>1 DEF visible, OnlySick
  <2>2. CASE view.health # ""
    <3>1. visible = healthFilter(filteredGraph, Sick(view.health) \cap filteredGraph.nodes)
      BY <2>2 DEF visible, OnlySick
    <3> QED
      BY <1>11, <3>1, HealthIsGraph
  <2> QED
    BY <2>1, <2>2
<1>14. ASSUME filteredGraph.nodes = graph.nodes PROVE filteredGraph = graph
  <2>1. g.nodes = graph.nodes
    BY <1>9, <1>11, <1>14
  <2>2. g = graph
    BY <1>9, <2>1
  <2> QED
    BY <1>8, <1>11, <1>14, <2>2
<1> QED
  BY <1>1, <1>6, <1>9, <1>11, <1>12, <1>13, <1>14 DEF g

\* The invariant of the page is enough for the graph drawn to be closed.
LEMMA PageIsClosed ==
    PageInv => ViewIsClosed
<1> SUFFICES ASSUME PageInv PROVE Closed(graph, filteredGraph, visible)
  BY DEF ViewIsClosed
<1>1. /\ IsGraph(visible) /\ visible.nodes \subseteq graph.nodes /\ ColumnsIn(filteredGraph)
      /\ filteredGraph.nodes = graph.nodes => filteredGraph = graph
  BY PageGraphs
<1>2. \A e \in Links(visible) : e.source \in visible.nodes /\ e.target \in visible.nodes
  BY <1>1 DEF IsGraph, Links, ToSet
<1>3. \A c \in filteredGraph.columns : Asset(c.from) \in filteredGraph.nodes /\ Asset(c.to) \in filteredGraph.nodes
  BY <1>1 DEF ColumnsIn
<1> QED
  BY <1>1, <1>2, <1>3 DEF Closed

\* For every workspace and every filter: each edge the page draws joins nodes it
\* draws, as the layout and the walks take for granted, each column it lists
\* ends at nodes the filters leave, and a filter that hides nothing changes
\* nothing of the graph that the API built.
THEOREM ViewIsAlwaysClosed == Spec => []ViewIsClosed
BY PageHolds, PageIsClosed, PTL

-----------------------------------------------------------------------------
(* Walks find what is reached *)

\* A set that the edges do not leave.
Stays(next, S) == \A p \in S : next[p] \subseteq S

\* The walk after some rounds: what was found is reached, what left the queue
\* has been followed, and every round follows a node.
Walking(next, n, k, st) ==
    /\ n \in st.found /\ IsInjective(st.queue) /\ ToSet(st.queue) \subseteq st.found
    /\ \A p \in st.found \ ToSet(st.queue) : next[p] \subseteq st.found
    /\ \A S \in SUBSET DOMAIN next : n \in S /\ Stays(next, S) => st.found \subseteq S
    /\ st.queue # <<>> => Cardinality(st.found \ ToSet(st.queue)) >= k

\* The states of the walk.
WalkStates(N) == [queue : Seq(N), found : SUBSET N]

\* One round of the walk.
LEMMA WalkStepIs ==
    ASSUME NEW N, IsFiniteSet(N), NEW next \in [N -> SUBSET N], NEW st \in WalkStates(N), st.queue # <<>>
    PROVE  LET new == next[Head(st.queue)] \ st.found
           IN  /\ walkStep(next, st) = [queue |-> Tail(st.queue) \o SetToSeq(new), found |-> st.found \cup new]
               /\ Head(st.queue) \in N /\ new \subseteq N /\ IsFiniteSet(new)
               /\ Tail(st.queue) \o SetToSeq(new) \in Seq(N)
               /\ ToSet(Tail(st.queue) \o SetToSeq(new)) = ToSet(Tail(st.queue)) \cup new
               /\ IsInjective(st.queue) /\ ToSet(st.queue) \subseteq st.found =>
                    IsInjective(Tail(st.queue) \o SetToSeq(new))
<1> DEFINE new == next[Head(st.queue)] \ st.found
           t == Tail(st.queue)
           q == SetToSeq(new)
<1>1. walkStep(next, st) = [queue |-> t \o q, found |-> st.found \cup new]
  BY Zenon DEF walkStep
<1>2. st.queue \in Seq(N) /\ st.found \in SUBSET N
  BY DEF WalkStates
<1>3. /\ Head(st.queue) \in ToSet(st.queue) /\ t \in Seq(N) /\ ToSet(st.queue) = {Head(st.queue)} \cup ToSet(t)
      /\ IsInjective(st.queue) => IsInjective(t)
  BY <1>2, TailElements
<1>4. Head(st.queue) \in N
  BY <1>2, <1>3, Elements
<1>5. new \subseteq N /\ IsFiniteSet(new)
  BY <1>4, FS_Subset
<1> HIDE DEF new, t
<1>6. q \in Seq(new) /\ ToSet(q) = new /\ IsInjective(q)
  BY <1>5, SetToSeqElements
<1>7. q \in Seq(N)
  BY <1>5, <1>6, SeqMonotonic
<1> HIDE DEF q
<1>8. /\ t \o q \in Seq(N) /\ ToSet(t \o q) = ToSet(t) \cup ToSet(q)
      /\ IsInjective(t) /\ IsInjective(q) /\ ToSet(t) \cap ToSet(q) = {} => IsInjective(t \o q)
  BY <1>3, <1>7, ConcatElements
<1>9. ASSUME IsInjective(st.queue), ToSet(st.queue) \subseteq st.found PROVE IsInjective(t \o q)
  <2>1. ToSet(t) \cap ToSet(q) = {}
    BY <1>3, <1>6, <1>9 DEF new
  <2> QED
    BY <1>3, <1>6, <1>8, <1>9, <2>1
<1> QED
  BY <1>1, <1>4, <1>5, <1>6, <1>8, <1>9 DEF new, t, q

\* A round keeps the invariant of the walk.
LEMMA WalkKept ==
    ASSUME NEW N, IsFiniteSet(N), NEW next \in [N -> SUBSET N], NEW n \in N,
           NEW st \in WalkStates(N), NEW k \in Nat, Walking(next, n, k, st)
    PROVE  walkStep(next, st) \in WalkStates(N) /\ Walking(next, n, k + 1, walkStep(next, st))
<1>0. st.queue \in Seq(N) /\ st.found \in SUBSET N
  BY DEF WalkStates
<1>1. CASE st.queue = <<>>
  <2>1. walkStep(next, st) = st
    BY <1>1, Zenon DEF walkStep
  <2> QED
    BY <1>1, <2>1 DEF Walking
<1>2. CASE st.queue # <<>>
  <2> DEFINE p == Head(st.queue)
             new == next[p] \ st.found
             t == Tail(st.queue)
             u == t \o SetToSeq(new)
             w == walkStep(next, st)
  <2>1. /\ w = [queue |-> u, found |-> st.found \cup new] /\ p \in N /\ new \subseteq N
        /\ u \in Seq(N) /\ ToSet(u) = ToSet(t) \cup new
        /\ IsInjective(st.queue) /\ ToSet(st.queue) \subseteq st.found => IsInjective(u)
    BY <1>2, WalkStepIs
  <2>2. /\ ToSet(st.queue) = {p} \cup ToSet(t)
        /\ IsInjective(st.queue) => p \notin ToSet(t)
    BY <1>0, <1>2, TailElements
  <2>3. /\ n \in st.found /\ IsInjective(st.queue) /\ ToSet(st.queue) \subseteq st.found
        /\ \A x \in st.found \ ToSet(st.queue) : next[x] \subseteq st.found
        /\ \A S \in SUBSET N : n \in S /\ Stays(next, S) => st.found \subseteq S
        /\ Cardinality(st.found \ ToSet(st.queue)) >= k
    BY <1>2 DEF Walking
  <2>4. next[p] \subseteq st.found \cup new /\ new \cap st.found = {} /\ new \subseteq next[p]
    OBVIOUS
  <2> HIDE DEF w, u, t, new, p
  <2>5. w.queue = u /\ w.found = st.found \cup new
    BY <2>1
  <2>6. w \in WalkStates(N)
    BY <1>0, <2>1 DEF WalkStates
  <2> DEFINE P == st.found \ ToSet(st.queue)
  <2>7. w.found \ ToSet(w.queue) = P \cup {p} /\ p \notin P
    BY <2>1, <2>2, <2>3, <2>4, <2>5
  <2>8. IsInjective(w.queue) /\ ToSet(w.queue) \subseteq w.found /\ n \in w.found
    BY <2>1, <2>2, <2>3, <2>5
  <2>9. \A x \in w.found \ ToSet(w.queue) : next[x] \subseteq w.found
    BY <2>3, <2>4, <2>5, <2>7
  <2>10. ASSUME NEW S \in SUBSET N, n \in S, Stays(next, S) PROVE w.found \subseteq S
    <3>1. st.found \subseteq S
      BY <2>3, <2>10
    <3>2. p \in S
      BY <2>2, <2>3, <3>1
    <3>3. next[p] \subseteq S
      BY <2>10, <3>2 DEF Stays
    <3> QED
      BY <2>4, <2>5, <3>1, <3>3
  <2>11. Cardinality(w.found \ ToSet(w.queue)) >= k + 1
    <3>1. IsFiniteSet(P)
      BY <1>0, FS_Subset
    <3>2. Cardinality(P \cup {p}) = Cardinality(P) + 1 /\ Cardinality(P) \in Nat
      BY <2>7, <3>1, FS_AddElement, FS_CardinalityType
    <3>3. Cardinality(P) >= k
      BY <2>3
    <3> HIDE DEF P
    <3>4. Cardinality(w.found \ ToSet(w.queue)) = Cardinality(P) + 1
      BY <2>7, <3>2
    <3> QED
      BY <3>2, <3>3, <3>4
  <2>12. Walking(next, n, k + 1, w)
    BY <2>8, <2>9, <2>10, <2>11 DEF Walking
  <2> QED
    BY <2>6, <2>12 DEF w
<1> QED
  BY <1>1, <1>2

\* A walk finds the least set that holds its start and that no edge leaves.
LEMMA WalkFinds ==
    ASSUME NEW N, IsFiniteSet(N), NEW next \in [N -> SUBSET N], NEW n \in N
    PROVE  /\ walk(next, n) \in SUBSET N /\ n \in walk(next, n) /\ Stays(next, walk(next, n))
           /\ \A S \in SUBSET N : n \in S /\ Stays(next, S) => walk(next, n) \subseteq S
<1> DEFINE S == WalkStates(N)
           h == [st \in S |-> walkStep(next, st)]
           a == [queue |-> <<n>>, found |-> {n}]
           K == Cardinality(N)
           Inv == {x \in Nat \X S : Walking(next, n, x[1], x[2])}
           R == Iterate(h, a, K)
<1>1. DOMAIN next = N
  OBVIOUS
<1>2. walk(next, n) = R.found
  BY <1>1 DEF walk, WalkStates
<1>3. K \in Nat
  BY FS_CardinalityType
<1>4. a \in S /\ Walking(next, n, 0, a)
  <2> DEFINE q == <<n>>
  <2>1. q \in Seq(N) /\ ToSet(q) = {n} /\ IsInjective(q)
    BY SingletonElements
  <2>2. a = [queue |-> q, found |-> {n}]
    OBVIOUS
  <2> HIDE DEF q, a
  <2>3. a.queue = q /\ a.found = {n}
    BY <2>2
  <2>4. a \in S
    BY <2>1, <2>2 DEF WalkStates
  <2>5. IsFiniteSet(a.found \ ToSet(a.queue))
    BY <2>1, <2>3, FS_Singleton, FS_Subset
  <2>6. Cardinality(a.found \ ToSet(a.queue)) >= 0
    BY <2>5, FS_CardinalityType
  <2>7. Walking(next, n, 0, a)
    BY <2>1, <2>3, <2>6 DEF Walking
  <2> QED
    BY <2>4, <2>7
<1>5. \A st \in S : \A k \in Nat : Walking(next, n, k, st) => walkStep(next, st) \in S /\ Walking(next, n, k + 1, walkStep(next, st))
  BY WalkKept
<1>6. h \in [S -> S]
  <2>1. ASSUME NEW st \in S PROVE walkStep(next, st) \in S
    <3>1. CASE st.queue = <<>>
      <4>1. walkStep(next, st) = st
        BY <3>1, Zenon DEF walkStep
      <4> QED
        BY <4>1
    <3>2. CASE st.queue # <<>>
      <4> DEFINE new == next[Head(st.queue)] \ st.found
                 u == Tail(st.queue) \o SetToSeq(new)
      <4>1. walkStep(next, st) = [queue |-> u, found |-> st.found \cup new] /\ u \in Seq(N) /\ new \subseteq N
        BY <3>2, WalkStepIs
      <4>2. st.found \subseteq N
        BY DEF WalkStates
      <4> HIDE DEF u, new
      <4> QED
        BY <4>1, <4>2 DEF WalkStates
    <3> QED
      BY <3>1, <3>2
  <2> HIDE DEF S
  <2> QED
    BY <2>1
<1>7. <<0, a>> \in Inv
  BY <1>4
<1>8. \A k \in 0..(K - 1) : \A st \in S : <<k, st>> \in Inv => <<k + 1, h[st]>> \in Inv
  <2> SUFFICES ASSUME NEW k \in 0..(K - 1), NEW st \in S, <<k, st>> \in Inv PROVE <<k + 1, h[st]>> \in Inv
    OBVIOUS
  <2>1. k \in Nat /\ k + 1 \in Nat
    BY <1>3
  <2>2. h[st] = walkStep(next, st)
    OBVIOUS
  <2>3. Walking(next, n, k, st)
    OBVIOUS
  <2>4. h[st] \in S /\ Walking(next, n, k + 1, h[st])
    BY <1>5, <2>1, <2>2, <2>3
  <2> HIDE DEF h, S
  <2> QED
    BY <2>1, <2>4
<1> HIDE DEF h, a, K, S
<1>9. R \in S /\ <<K, R>> \in Inv
  <2> HIDE DEF Inv
  <2> QED
    BY <1>3, <1>4, <1>6, <1>7, <1>8, LoopInvariant
<1>10. Walking(next, n, K, R)
  BY <1>9
<1> HIDE DEF R
<1>11. R.queue \in Seq(N) /\ R.found \in SUBSET N
  BY <1>9 DEF S, WalkStates
<1>12. R.queue = <<>>
  <2> SUFFICES ASSUME R.queue # <<>> PROVE FALSE
    OBVIOUS
  <2> DEFINE P == R.found \ ToSet(R.queue)
  <2>1. Cardinality(P) >= Cardinality(N)
    BY <1>10 DEF Walking, K
  <2>2. P \in SUBSET N
    BY <1>11
  <2>3. P = N
    BY <2>1, <2>2, FS_Subset, FS_CardinalityType
  <2>4. Head(R.queue) \in ToSet(R.queue) /\ ToSet(R.queue) \subseteq N
    BY <1>11, TailElements, Elements
  <2> QED
    BY <2>3, <2>4
<1>13. ToSet(R.queue) = {}
  BY <1>12, EmptyElements
<1> QED
  BY <1>1, <1>2, <1>10, <1>11, <1>13 DEF Walking, Stays

\* Sets closed under the targets, or under the sources, of a graph.
LEMMA DirectedNext ==
    ASSUME NEW g, IsGraph(g)
    PROVE  /\ targets(g) \in [g.nodes -> SUBSET g.nodes] /\ sources(g) \in [g.nodes -> SUBSET g.nodes]
           /\ \A S \in SUBSET g.nodes :
                /\ Stays(targets(g), S) <=> \A e \in Links(g) : e.source \in S => e.target \in S
                /\ Stays(sources(g), S) <=> \A e \in Links(g) : e.target \in S => e.source \in S
<1>1. \A e \in Links(g) : e.source \in g.nodes /\ e.target \in g.nodes
  BY DEF IsGraph, Links, ToSet
<1>2. targets(g) \in [g.nodes -> SUBSET g.nodes] /\ sources(g) \in [g.nodes -> SUBSET g.nodes]
  BY <1>1 DEF targets, sources
<1>3. \A p \in g.nodes : \A x : x \in targets(g)[p] <=> \E e \in Links(g) : e.source = p /\ e.target = x
  BY DEF targets
<1>4. \A p \in g.nodes : \A x : x \in sources(g)[p] <=> \E e \in Links(g) : e.target = p /\ e.source = x
  BY DEF sources
<1>5. ASSUME NEW S \in SUBSET g.nodes
      PROVE  /\ Stays(targets(g), S) <=> \A e \in Links(g) : e.source \in S => e.target \in S
             /\ Stays(sources(g), S) <=> \A e \in Links(g) : e.target \in S => e.source \in S
  <2>1. Stays(targets(g), S) <=> \A p \in S : \A x \in targets(g)[p] : x \in S
    BY DEF Stays
  <2>2. Stays(sources(g), S) <=> \A p \in S : \A x \in sources(g)[p] : x \in S
    BY DEF Stays
  <2>3. (\A p \in S : \A x \in targets(g)[p] : x \in S) <=> \A e \in Links(g) : e.source \in S => e.target \in S
    BY <1>3
  <2>4. (\A p \in S : \A x \in sources(g)[p] : x \in S) <=> \A e \in Links(g) : e.target \in S => e.source \in S
    BY <1>4
  <2> QED
    BY <2>1, <2>2, <2>3, <2>4
<1> QED
  BY <1>2, <1>5

\* The walks find what depends on a node and what it depends on.
LEMMA ImpactIsReached ==
    ASSUME NEW g, IsGraph(g), NEW n \in g.nodes
    PROVE  /\ downstream(g, n) = ReachedFrom(g, n) \ {n}
           /\ \A m \in g.nodes \ {n} : m \in upstream(g, n) <=> n \in downstream(g, m)
<1>0. IsFiniteSet(g.nodes)
  BY DEF IsGraph
<1> DEFINE N == g.nodes
           W(m) == walk(targets(g), m)
           V(m) == walk(sources(g), m)
           Down(S) == \A e \in Links(g) : e.source \in S => e.target \in S
           Up(S) == \A e \in Links(g) : e.target \in S => e.source \in S
<1>1. ASSUME NEW m \in N
      PROVE  /\ W(m) \in SUBSET N /\ m \in W(m) /\ Down(W(m)) /\ \A S \in SUBSET N : m \in S /\ Down(S) => W(m) \subseteq S
             /\ V(m) \in SUBSET N /\ m \in V(m) /\ Up(V(m)) /\ \A S \in SUBSET N : m \in S /\ Up(S) => V(m) \subseteq S
  <2>1. /\ W(m) \in SUBSET N /\ m \in W(m) /\ Stays(targets(g), W(m))
        /\ \A S \in SUBSET N : m \in S /\ Stays(targets(g), S) => W(m) \subseteq S
    BY <1>0, DirectedNext, WalkFinds
  <2>2. /\ V(m) \in SUBSET N /\ m \in V(m) /\ Stays(sources(g), V(m))
        /\ \A S \in SUBSET N : m \in S /\ Stays(sources(g), S) => V(m) \subseteq S
    BY <1>0, DirectedNext, WalkFinds
  <2>3. \A S \in SUBSET N : (Stays(targets(g), S) <=> Down(S)) /\ (Stays(sources(g), S) <=> Up(S))
    BY DirectedNext
  <2> HIDE DEF Down, Up, W, V
  <2> QED
    BY <2>1, <2>2, <2>3
<1>2. ReachedFrom(g, n) = {m \in N : \A S \in SUBSET N : (n \in S /\ Down(S)) => m \in S}
  BY DEF ReachedFrom
<1>3. W(n) = ReachedFrom(g, n)
  <2>1. /\ W(n) \in SUBSET N /\ n \in W(n) /\ Down(W(n)) /\ \A S \in SUBSET N : n \in S /\ Down(S) => W(n) \subseteq S
    BY <1>1
  <2> HIDE DEF W, Down
  <2> QED
    BY <1>2, <2>1
<1>4. ASSUME NEW m \in N PROVE m \in V(n) <=> n \in W(m)
  <2> DEFINE C == N \ W(m)
             D == N \ V(n)
  <2>1. Down(W(m)) /\ Up(V(n)) /\ W(m) \in SUBSET N /\ V(n) \in SUBSET N /\ m \in W(m) /\ n \in V(n)
    BY <1>1
  <2>2. \A e \in Links(g) : e.source \in N /\ e.target \in N
    BY DEF IsGraph, Links, ToSet
  <2>3. Up(C) /\ Down(D)
    <3> HIDE DEF W, V
    <3> QED
      BY <2>1, <2>2
  <2>4. n \in C => V(n) \subseteq C
    <3>1. \A S \in SUBSET N : n \in S /\ Up(S) => V(n) \subseteq S
      BY <1>1
    <3> HIDE DEF W, V, Up, Down
    <3> QED
      BY <2>3, <3>1
  <2>5. m \in D => W(m) \subseteq D
    <3>1. \A S \in SUBSET N : m \in S /\ Down(S) => W(m) \subseteq S
      BY <1>1
    <3> HIDE DEF W, V, Up, Down
    <3> QED
      BY <2>3, <3>1
  <2> HIDE DEF W, V, Up, Down
  <2> QED
    BY <2>1, <2>4, <2>5
<1>5. downstream(g, n) = W(n) \ {n} /\ upstream(g, n) = V(n) \ {n} /\ \A m : downstream(g, m) = W(m) \ {m}
  BY DEF downstream, upstream
<1> HIDE DEF W, V, Up, Down
<1> QED
  BY <1>3, <1>4, <1>5

-----------------------------------------------------------------------------
(* The focus is a ball *)

\* The balls around a node.
IsBall(f, g, allowed, n, depth) ==
    /\ f \in [0..depth -> SUBSET allowed] /\ f[0] = {n}
    /\ \A d \in 1..depth : f[d] = {m \in allowed : m \in f[d - 1] \/ neighbours(g, m) \cap f[d - 1] # {}}

\* Within computes the balls.
LEMMA WithinIsBall ==
    ASSUME NEW g, NEW allowed, NEW n \in allowed, NEW depth \in Nat
    PROVE  \E f : IsBall(f, g, allowed, n, depth) /\ Within(g, allowed, n, depth) = f[depth]
<1> DEFINE S == SUBSET allowed
           more(B) == {m \in allowed : m \in B \/ neighbours(g, m) \cap B # {}}
           h == [B \in S |-> more(B)]
           ball == CHOOSE f : f = [d \in 0..depth |-> IF d = 0 THEN {n} ELSE more(f[d - 1])]
<1>1. h \in [S -> S] /\ {n} \in S
  OBVIOUS
<1> HIDE DEF h, S
<1>2. PICK f : IsRun(f, S, {n}, h, depth)
  BY <1>1, LoopRuns
<1>3. f \in [0..depth -> S] /\ f[0] = {n} /\ \A k \in 1..depth : f[k] = h[f[k - 1]]
  BY <1>2 DEF IsRun
<1>4. \A k \in 1..depth : k - 1 \in 0..depth /\ k # 0 /\ k \in 0..depth
  OBVIOUS
<1>5. \A k \in 1..depth : f[k] = more(f[k - 1])
  <2> TAKE k \in 1..depth
  <2>1. f[k - 1] \in S
    BY <1>3, <1>4
  <2> QED
    BY <1>3, <2>1 DEF h
<1> HIDE DEF more
<1>6. \A d \in 0..depth : f[d] = IF d = 0 THEN {n} ELSE more(f[d - 1])
  <2> TAKE d \in 0..depth
  <2>1. d = 0 \/ d \in 1..depth
    OBVIOUS
  <2> QED
    BY <1>3, <1>5, <2>1
<1>7. f = [d \in 0..depth |-> IF d = 0 THEN {n} ELSE more(f[d - 1])]
  BY <1>3, <1>6
<1>8. ball = [d \in 0..depth |-> IF d = 0 THEN {n} ELSE more(ball[d - 1])]
  BY <1>7, Zenon
<1>9. Within(g, allowed, n, depth) = ball[depth]
  BY Zenon DEF Within, more
<1> HIDE DEF ball
<1>10. ball[0] = {n} /\ \A d \in 1..depth : ball[d] = more(ball[d - 1])
  <2>1. ball[0] = {n}
    BY <1>8
  <2>2. ASSUME NEW d \in 1..depth PROVE ball[d] = more(ball[d - 1])
    BY <1>4, <1>8
  <2> QED
    BY <2>1, <2>2
<1>11. \A B : more(B) \subseteq allowed
  BY DEF more
<1>12. \A d \in 0..depth : ball[d] \in SUBSET allowed
  <2> TAKE d \in 0..depth
  <2>1. d = 0 \/ d \in 1..depth
    OBVIOUS
  <2> QED
    BY <1>10, <1>11, <2>1
<1>13. ball \in [0..depth -> SUBSET allowed]
  BY <1>8, <1>12
<1>14. IsBall(ball, g, allowed, n, depth)
  BY <1>10, <1>13 DEF IsBall, more
<1> QED
  BY <1>9, <1>14

\* Balls grow with their radius.
LEMMA BallsGrow ==
    ASSUME NEW g, NEW allowed, NEW n, NEW depth \in Nat, NEW f, IsBall(f, g, allowed, n, depth),
           NEW c \in 0..depth, NEW d \in 0..depth, c <= d
    PROVE  f[c] \subseteq f[d]
<1> DEFINE T == {i \in Nat : c + i <= depth => f[c] \subseteq f[c + i]}
<1>1. 0 \in T
  OBVIOUS
<1>2. ASSUME NEW i \in Nat, i \in T PROVE i + 1 \in T
  <2> SUFFICES ASSUME c + (i + 1) <= depth PROVE f[c] \subseteq f[c + (i + 1)]
    OBVIOUS
  <2> DEFINE e == c + (i + 1)
  <2>1. e \in 1..depth /\ e - 1 = c + i /\ c + i <= depth /\ e - 1 \in 0..depth
    OBVIOUS
  <2>2. f[c] \subseteq f[c + i]
    BY <1>2, <2>1
  <2> HIDE DEF e
  <2>3. f[e - 1] \subseteq f[e]
    BY <2>1 DEF IsBall
  <2> QED
    BY <2>1, <2>2, <2>3 DEF e
<1> HIDE DEF T
<1>3. Nat \subseteq T
  BY <1>1, <1>2, SetInduction
<1>4. d - c \in T /\ c + (d - c) = d
  BY <1>3
<1> QED
  BY <1>4 DEF T

\* A queue by distance.
Sorted(q) == \A i, j \in DOMAIN q : i <= j => q[i][2] <= q[j][2]

\* The head of a sorted queue is nearest.
LEMMA SortedTail ==
    ASSUME NEW X, NEW q \in Seq(X), q # <<>>, Sorted(q)
    PROVE  Sorted(Tail(q)) /\ \A x \in ToSet(q) : Head(q)[2] <= x[2]
<1> DEFINE t == Tail(q)
           n == Len(q) - 1
<1>1. /\ Len(q) \in Nat /\ DOMAIN q = 1..Len(q) /\ Len(q) > 0 /\ t \in Seq(X) /\ Len(t) = n /\ Head(q) = q[1]
      /\ \A i \in 1..n : t[i] = q[i + 1]
  BY TailElements, Elements
<1>2. DOMAIN t = 1..n
  BY <1>1, Elements
<1> HIDE DEF t, n
<1>3. n \in Nat /\ DOMAIN q = 1..(n + 1)
  BY <1>1 DEF n
<1>4. \A i, j \in 1..(n + 1) : i <= j => q[i][2] <= q[j][2]
  BY <1>3 DEF Sorted
<1>5. ASSUME NEW i \in 1..n, NEW j \in 1..n, i <= j PROVE t[i][2] <= t[j][2]
  <2>1. i + 1 \in 1..(n + 1) /\ j + 1 \in 1..(n + 1) /\ i + 1 <= j + 1
    BY <1>3, <1>5
  <2> QED
    BY <1>1, <1>4, <2>1
<1>6. ASSUME NEW i \in 1..(n + 1) PROVE q[1][2] <= q[i][2]
  <2>1. 1 \in 1..(n + 1) /\ 1 <= i
    BY <1>3
  <2> QED
    BY <1>4, <2>1
<1>7. Sorted(t)
  BY <1>2, <1>5 DEF Sorted
<1>8. \A x \in ToSet(q) : q[1][2] <= x[2]
  BY <1>3, <1>6 DEF ToSet
<1> QED
  BY <1>1, <1>7, <1>8 DEF t

\* Farther elements at the end keep a queue sorted.
LEMMA SortedConcat ==
    ASSUME NEW X, NEW q \in Seq(X), NEW r \in Seq(X), Sorted(q), Sorted(r),
           \A x \in ToSet(q) : \A y \in ToSet(r) : x[2] <= y[2]
    PROVE  Sorted(q \o r)
<1> DEFINE t == q \o r
           m == Len(q)
           n == Len(r)
<1>1. /\ t \in Seq(X) /\ Len(t) = m + n /\ m \in Nat /\ n \in Nat
      /\ DOMAIN q = 1..m /\ DOMAIN r = 1..n
      /\ \A i \in 1..(m + n) : t[i] = IF i <= m THEN q[i] ELSE r[i - m]
  BY ConcatProperties, Elements
<1>2. DOMAIN t = 1..(m + n)
  BY <1>1, Elements
<1> HIDE DEF t, m, n
<1> SUFFICES ASSUME NEW i \in 1..(m + n), NEW j \in 1..(m + n), i <= j PROVE t[i][2] <= t[j][2]
  BY <1>2 DEF Sorted, t
<1>3. CASE j <= m
  <2>1. i \in 1..m /\ j \in 1..m /\ i <= m
    BY <1>1, <1>3
  <2>2. t[i] = q[i] /\ t[j] = q[j]
    BY <1>1, <1>3, <2>1
  <2> QED
    BY <1>1, <2>1, <2>2 DEF Sorted
<1>4. CASE ~(j <= m) /\ i <= m
  <2>1. i \in 1..m /\ j - m \in 1..n
    BY <1>1, <1>4
  <2>2. t[i] = q[i] /\ t[j] = r[j - m]
    BY <1>1, <1>4
  <2>3. q[i] \in ToSet(q) /\ r[j - m] \in ToSet(r)
    BY <1>1, <2>1 DEF ToSet
  <2> QED
    BY <2>2, <2>3
<1>5. CASE ~(i <= m)
  <2>1. i - m \in 1..n /\ j - m \in 1..n /\ i - m <= j - m /\ ~(j <= m)
    BY <1>1, <1>5
  <2>2. t[i] = r[i - m] /\ t[j] = r[j - m]
    BY <1>1, <1>5, <2>1
  <2> QED
    BY <1>1, <2>1, <2>2 DEF Sorted
<1> QED
  BY <1>3, <1>4, <1>5

\* Elements of one distance are sorted.
LEMMA SortedSame ==
    ASSUME NEW X, NEW q \in Seq(X), NEW d \in Nat, \A x \in ToSet(q) : x[2] = d
    PROVE  Sorted(q)
<1>1. \A i \in DOMAIN q : q[i][2] = d
  BY DEF ToSet
<1> QED
  BY <1>1 DEF Sorted

\* What the search around a focus has found: who waits is found at its
\* distance, in order; who has been looked at has its neighbours found.
Waiting(st) == {x[1] : x \in ToSet(st.queue)}

\* The breadth-first search after some rounds: the queue is sorted, its first
\* and last element differ by at most one, each node waits with its distance,
\* what left the queue before the depth has its neighbours found, and every
\* round takes a node off the queue.
Spreading(f, g, allowed, depth, n, k, st) ==
    /\ n \in st.focused /\ st.focused \subseteq f[depth]
    /\ IsInjective(st.queue) /\ Sorted(st.queue)
    /\ \A x, y \in ToSet(st.queue) : (x[1] = y[1] => x = y) /\ y[2] <= x[2] + 1
    /\ \A x \in ToSet(st.queue) :
        /\ x[1] \in st.focused /\ x[2] <= depth /\ x[1] \in f[x[2]]
        /\ \A c \in 0..depth : c < x[2] => x[1] \notin f[c]
    /\ \A p \in st.focused \ Waiting(st) : \A c \in 0..depth :
        c < depth /\ p \in f[c] => neighbours(g, p) \cap allowed \subseteq st.focused
    /\ st.queue # <<>> => Cardinality(st.focused \ Waiting(st)) >= k

\* Neighbours are neighbours of each other.
LEMMA Neighbourly ==
    ASSUME NEW g, NEW p, NEW m
    PROVE  p \in neighbours(g, m) <=> m \in neighbours(g, p)
BY DEF neighbours

\* The ball that nobody in the queue is inside of has been found.
LEMMA BallFound ==
    ASSUME NEW f, NEW g, NEW allowed, NEW depth \in Nat, NEW n, NEW k, NEW st \in spreadStates(allowed),
           IsBall(f, g, allowed, n, depth), Spreading(f, g, allowed, depth, n, k, st),
           NEW D \in 0..depth, \A x \in ToSet(st.queue) : D <= x[2]
    PROVE  f[D] \subseteq st.focused
<1>0. \A x \in ToSet(st.queue) : x[2] \in Nat
  <2>1. ToSet(st.queue) \subseteq allowed \X Nat
    BY Elements DEF spreadStates
  <2> QED
    BY <2>1
<1> DEFINE T == {e \in Nat : e <= D => f[e] \subseteq st.focused}
<1>1. 0 \in T
  BY DEF IsBall, Spreading
<1>2. ASSUME NEW e \in Nat, e \in T PROVE e + 1 \in T
  <2> SUFFICES ASSUME e + 1 <= D PROVE f[e + 1] \subseteq st.focused
    OBVIOUS
  <2>1. e \in 0..depth /\ e < depth /\ e + 1 \in 1..depth /\ (e + 1) - 1 = e
    OBVIOUS
  <2>2. f[e] \subseteq st.focused
    BY <1>2
  <2>3. \A p \in f[e] : p \notin Waiting(st)
    <3> SUFFICES ASSUME NEW x \in ToSet(st.queue), x[1] \in f[e] PROVE FALSE
      BY DEF Waiting
    <3>1. e < x[2]
      BY <1>0
    <3> QED
      BY <2>1, <3>1 DEF Spreading
  <2>4. \A p \in f[e] : neighbours(g, p) \cap allowed \subseteq st.focused
    BY <2>1, <2>2, <2>3 DEF Spreading
  <2>5. f[e + 1] = {m \in allowed : m \in f[e] \/ neighbours(g, m) \cap f[e] # {}}
    BY <2>1 DEF IsBall
  <2> SUFFICES ASSUME NEW m \in f[e + 1], m \notin f[e] PROVE m \in st.focused
    BY <2>2
  <2>6. PICK p \in f[e] : p \in neighbours(g, m)
    BY <2>5
  <2>7. m \in neighbours(g, p) /\ m \in allowed
    BY <2>5, <2>6, Neighbourly
  <2> QED
    BY <2>4, <2>7
<1> HIDE DEF T
<1>3. Nat \subseteq T
  BY <1>1, <1>2, SetInduction
<1>4. D \in T
  BY <1>3
<1> QED
  BY <1>4 DEF T

\* The head of the queue leaves it, and what it found joins.
LEMMA SpreadMoves ==
    ASSUME NEW f, NEW g, NEW allowed, IsFiniteSet(allowed), NEW depth \in Nat, NEW n, NEW k \in Nat,
           NEW st \in spreadStates(allowed), st.queue # <<>>,
           IsBall(f, g, allowed, n, depth), Spreading(f, g, allowed, depth, n, k, st),
           NEW w, NEW new \in SUBSET allowed, w.focused = st.focused \cup new, new \cap st.focused = {},
           ToSet(w.queue) = ToSet(Tail(st.queue)) \cup {<<m, FrontDistance(st) + 1>> : m \in new},
           IsInjective(w.queue), Sorted(w.queue),
           \A m \in new : FrontDistance(st) < depth /\ m \in f[FrontDistance(st) + 1],
           FrontDistance(st) < depth => neighbours(g, FrontNode(st)) \cap allowed \subseteq w.focused
    PROVE  Spreading(f, g, allowed, depth, n, k + 1, w)
<1> DEFINE E == ToSet(st.queue)
           t == ToSet(Tail(st.queue))
           F == ToSet(w.queue)
           id == FrontNode(st)
           dist == FrontDistance(st)
           x0 == <<id, dist>>
           joined == {<<m, dist + 1>> : m \in new}
<1>1. st.queue \in Seq(allowed \X Nat) /\ st.focused \in SUBSET allowed
  BY DEF spreadStates
<1>2. id \in allowed /\ dist \in Nat /\ Head(st.queue) = x0
  BY SpreadRound
<1>3. E = {x0} \cup t /\ x0 \notin t /\ \A x \in E : dist <= x[2]
  <2>1. /\ E = {Head(st.queue)} \cup t
        /\ IsInjective(st.queue) => Head(st.queue) \notin t
    BY <1>1, TailElements
  <2>2. \A x \in E : Head(st.queue)[2] <= x[2]
    BY <1>1, SortedTail DEF Spreading
  <2>3. IsInjective(st.queue)
    BY DEF Spreading
  <2> QED
    BY <1>2, <2>1, <2>2, <2>3
<1>4. \A x \in E : x \in allowed \X Nat
  BY <1>1, Elements
<1>5. x0[1] = id /\ x0[2] = dist
  OBVIOUS
<1> HIDE DEF E, t, F, x0
<1>6. /\ n \in st.focused /\ st.focused \subseteq f[depth]
      /\ \A x, y \in E : (x[1] = y[1] => x = y) /\ y[2] <= x[2] + 1
      /\ \A x \in E :
          /\ x[1] \in st.focused /\ x[2] <= depth /\ x[1] \in f[x[2]]
          /\ \A c \in 0..depth : c < x[2] => x[1] \notin f[c]
      /\ \A p \in st.focused \ Waiting(st) : \A c \in 0..depth :
          c < depth /\ p \in f[c] => neighbours(g, p) \cap allowed \subseteq st.focused
      /\ Cardinality(st.focused \ Waiting(st)) >= k
  BY DEF Spreading, E
<1>7. dist <= depth /\ dist \in 0..depth
  BY <1>2, <1>3, <1>5, <1>6
<1>8. f[dist] \subseteq st.focused
  BY <1>3, <1>7, BallFound DEF E
<1>9. ASSUME NEW m \in new PROVE m \notin st.focused /\ m \in f[dist + 1] /\ dist + 1 \in 0..depth
                                  /\ \A c \in 0..depth : c < dist + 1 => m \notin f[c]
  <2>1. dist < depth /\ m \in f[dist + 1] /\ m \notin st.focused
    OBVIOUS
  <2>2. ASSUME NEW c \in 0..depth, c < dist + 1 PROVE m \notin f[c]
    <3>1. c <= dist
      BY <1>2, <2>2
    <3>2. f[c] \subseteq f[dist]
      BY <1>7, <3>1, BallsGrow
    <3> QED
      BY <1>8, <2>1, <3>2
  <2>3. dist + 1 \in 0..depth
    BY <1>2, <2>1
  <2> QED
    BY <2>1, <2>2, <2>3
<1>10. F = t \cup joined
  BY DEF F, t
<1>11. \A x \in F : x \in t \/ \E m \in new : x = <<m, dist + 1>> /\ x[1] = m /\ x[2] = dist + 1
  BY <1>10
<1>12. \A x \in t : x \in E /\ x[1] \in st.focused /\ x[2] \in Nat /\ dist <= x[2] /\ x[2] <= dist + 1
  <2> TAKE x \in t
  <2>1. x \in E /\ x0 \in E
    BY <1>3
  <2>2. x[2] \in Nat
    BY <1>4, <2>1
  <2> QED
    BY <1>3, <1>5, <1>6, <2>1, <2>2
<1>13. \A x \in F : x[2] \in Nat /\ dist <= x[2] /\ x[2] <= dist + 1
  BY <1>2, <1>11, <1>12
<1>14. ASSUME NEW x \in F, NEW y \in F PROVE (x[1] = y[1] => x = y) /\ y[2] <= x[2] + 1
  <2>1. y[2] <= x[2] + 1
    BY <1>2, <1>13
  <2>2. ASSUME x[1] = y[1] PROVE x = y
    <3>1. CASE x \in t /\ y \in t
      BY <1>6, <1>12, <2>2, <3>1
    <3>2. CASE x \in t /\ y \notin t
      <4>1. y[1] \in new /\ x[1] \in st.focused
        BY <1>11, <1>12, <3>2
      <4> QED
        BY <2>2, <4>1
    <3>3. CASE x \notin t /\ y \in t
      <4>1. x[1] \in new /\ y[1] \in st.focused
        BY <1>11, <1>12, <3>3
      <4> QED
        BY <2>2, <4>1
    <3>4. CASE x \notin t /\ y \notin t
      BY <1>11, <2>2, <3>4
    <3> QED
      BY <3>1, <3>2, <3>3, <3>4
  <2> QED
    BY <2>1, <2>2
<1>15. ASSUME NEW x \in F
       PROVE  /\ x[1] \in w.focused /\ x[2] <= depth /\ x[1] \in f[x[2]]
              /\ \A c \in 0..depth : c < x[2] => x[1] \notin f[c]
  <2>1. CASE x \in t
    BY <1>6, <1>12, <2>1
  <2>2. CASE x \notin t
    <3>1. PICK m \in new : x[1] = m /\ x[2] = dist + 1
      BY <1>11, <2>2
    <3>2. /\ m \in f[dist + 1] /\ dist + 1 \in 0..depth
          /\ \A c \in 0..depth : c < dist + 1 => m \notin f[c]
      BY <1>9
    <3> QED
      BY <3>1, <3>2
  <2> QED
    BY <2>1, <2>2
<1>16. w.focused \subseteq f[depth]
  <2> SUFFICES ASSUME NEW m \in new PROVE m \in f[depth]
    BY <1>6
  <2> DEFINE e == dist + 1
  <2>1. m \in f[e] /\ e \in 0..depth
    BY <1>9
  <2> HIDE DEF e
  <2>2. depth \in 0..depth /\ e <= depth
    BY <2>1
  <2>3. f[e] \subseteq f[depth]
    BY <2>1, <2>2, BallsGrow
  <2> QED
    BY <2>1, <2>3
<1> DEFINE P == st.focused \ Waiting(st)
<1>17. w.focused \ Waiting(w) = P \cup {id} /\ id \notin P
  <2>1. Waiting(st) = {x[1] : x \in E} /\ Waiting(w) = {x[1] : x \in F}
    BY DEF Waiting, E, F
  <2>2. Waiting(st) = {id} \cup {x[1] : x \in t}
    BY <1>3, <1>5, <2>1
  <2>3. Waiting(w) = {x[1] : x \in t} \cup new
    <3>1. \A x \in F : x[1] \in {y[1] : y \in t} \cup new
      BY <1>11
    <3>2. \A y \in t : y[1] \in Waiting(w)
      BY <1>10, <2>1
    <3>3. ASSUME NEW m \in new PROVE m \in Waiting(w)
      <4>1. <<m, dist + 1>> \in F /\ <<m, dist + 1>>[1] = m
        BY <1>10
      <4> QED
        BY <2>1, <4>1
    <3> QED
      BY <2>1, <3>1, <3>2, <3>3
  <2>4. id \notin {x[1] : x \in t}
    <3> SUFFICES ASSUME NEW x \in t, x[1] = id PROVE FALSE
      OBVIOUS
    <3>1. x = x0
      BY <1>3, <1>5, <1>6
    <3> QED
      BY <1>3, <3>1
  <2>5. id \in st.focused
    BY <1>3, <1>5, <1>6
  <2> QED
    BY <2>2, <2>3, <2>4, <2>5
<1>18. ASSUME NEW p \in w.focused \ Waiting(w), NEW c \in 0..depth, c < depth, p \in f[c]
       PROVE  neighbours(g, p) \cap allowed \subseteq w.focused
  <2>1. CASE p = id
    <3>1. dist < depth
      <4>1. ~(c < dist)
        BY <1>3, <1>5, <1>6, <1>18, <2>1
      <4> QED
        BY <1>2, <1>18, <4>1
    <3> QED
      BY <2>1, <3>1
  <2>2. CASE p \in P
    BY <1>6, <1>18, <2>2
  <2> QED
    BY <1>17, <2>1, <2>2
<1>19. Cardinality(w.focused \ Waiting(w)) >= k + 1
  <2>1. IsFiniteSet(P)
    BY <1>1, FS_Subset
  <2>2. Cardinality(P) >= k
    BY <1>6
  <2> HIDE DEF P
  <2>3. Cardinality(P \cup {id}) = Cardinality(P) + 1 /\ Cardinality(P) \in Nat
    BY <1>17, <2>1, FS_AddElement, FS_CardinalityType
  <2>4. Cardinality(w.focused \ Waiting(w)) = Cardinality(P) + 1
    BY <1>17, <2>3
  <2> QED
    BY <2>2, <2>3, <2>4
<1>20. n \in w.focused
  BY <1>6
<1> QED
  BY <1>14, <1>15, <1>16, <1>18, <1>19, <1>20 DEF Spreading, F

\* A round keeps the invariant of the search.
LEMMA SpreadKept ==
    ASSUME NEW f, NEW g, NEW allowed, IsFiniteSet(allowed), NEW depth \in Nat, NEW n, NEW k \in Nat,
           NEW st \in spreadStates(allowed), IsBall(f, g, allowed, n, depth),
           Spreading(f, g, allowed, depth, n, k, st)
    PROVE  Spreading(f, g, allowed, depth, n, k + 1, spreadStep(g, allowed, depth, st))
<1>1. CASE st.queue = <<>>
  <2>1. spreadStep(g, allowed, depth, st) = st
    BY <1>1, Zenon DEF spreadStep
  <2> QED
    BY <1>1, <2>1 DEF Spreading
<1>2. CASE st.queue # <<>>
  <2> DEFINE w == spreadStep(g, allowed, depth, st)
             id == FrontNode(st)
             dist == FrontDistance(st)
             t == Tail(st.queue)
             pushed == Pushed(g, allowed, st)
  <2>1. st.queue \in Seq(allowed \X Nat) /\ st.focused \in SUBSET allowed
    BY DEF spreadStates
  <2>2. w = IF reached(dist, depth) THEN [queue |-> t, focused |-> st.focused]
            ELSE [queue |-> t \o pushed, focused |-> st.focused \cup FrontNew(g, allowed, st)]
    BY <1>2, SpreadStepIs
  <2>3. /\ id \in allowed /\ dist \in Nat /\ t \in Seq(allowed \X Nat) /\ Head(st.queue) = <<id, dist>>
        /\ pushed \in Seq(allowed \X Nat)
        /\ ToSet(pushed) = {<<m, dist + 1>> : m \in FrontNew(g, allowed, st)}
        /\ IsInjective(pushed)
    BY <1>2, SpreadRound
  <2>4. IsInjective(t) /\ Sorted(t) /\ ToSet(st.queue) = {<<id, dist>>} \cup ToSet(t)
    <3>1. ToSet(st.queue) = {Head(st.queue)} \cup ToSet(t) /\ (IsInjective(st.queue) => IsInjective(t))
      BY <1>2, <2>1, TailElements
    <3>2. Sorted(t)
      BY <1>2, <2>1, SortedTail DEF Spreading
    <3> QED
      BY <2>3, <3>1, <3>2 DEF Spreading
  <2> HIDE DEF w, t, pushed
  <2>5. CASE reached(dist, depth)
    <3> DEFINE none == {}
    <3>1. w.queue = t /\ w.focused = st.focused
      BY <2>2, <2>5
    <3>2. ~(dist < depth)
      BY <2>3, <2>5 DEF reached
    <3>3. /\ none \in SUBSET allowed /\ w.focused = st.focused \cup none /\ none \cap st.focused = {}
          /\ ToSet(w.queue) = ToSet(Tail(st.queue)) \cup {<<m, FrontDistance(st) + 1>> : m \in none}
          /\ IsInjective(w.queue) /\ Sorted(w.queue)
          /\ \A m \in none : FrontDistance(st) < depth /\ m \in f[FrontDistance(st) + 1]
          /\ FrontDistance(st) < depth => neighbours(g, FrontNode(st)) \cap allowed \subseteq w.focused
      BY <2>4, <3>1, <3>2 DEF t
    <3> HIDE DEF none
    <3> QED
      BY <1>2, <3>3, SpreadMoves DEF w
  <2>6. CASE ~reached(dist, depth)
    <3> DEFINE new == FrontNew(g, allowed, st)
    <3>1. w.queue = t \o pushed /\ w.focused = st.focused \cup new
      BY <2>2, <2>6
    <3>2. dist < depth
      BY <2>3, <2>6 DEF reached
    <3>3. new \in SUBSET allowed /\ new \cap st.focused = {} /\ neighbours(g, id) \cap allowed \subseteq st.focused \cup new
          /\ new \subseteq neighbours(g, id)
      BY DEF FrontNew
    <3>4. \A x \in ToSet(st.queue) : x[1] \in st.focused /\ x[1] \in f[x[2]] /\ \A y \in ToSet(st.queue) : y[2] <= x[2] + 1
      BY DEF Spreading
    <3> DEFINE x0 == <<id, dist>>
    <3>14. x0[1] = id /\ x0[2] = dist /\ x0 \in ToSet(st.queue) /\ ToSet(t) \subseteq ToSet(st.queue)
      BY <2>4
    <3> HIDE DEF new, x0
    <3>5. ToSet(pushed) = {<<m, dist + 1>> : m \in new}
      BY <2>3 DEF new
    <3>6. \A y \in ToSet(pushed) : y[1] \in new /\ y[2] = dist + 1
      BY <3>5
    <3>7. \A x \in ToSet(t) : x[1] \in st.focused /\ x[2] <= dist + 1
      <4> TAKE x \in ToSet(t)
      <4>1. x \in ToSet(st.queue)
        BY <3>14
      <4>2. x[2] <= x0[2] + 1
        BY <3>4, <3>14, <4>1
      <4> QED
        BY <3>4, <3>14, <4>1, <4>2
    <3>8. ToSet(t) \cap ToSet(pushed) = {}
      BY <3>3, <3>6, <3>7
    <3>9. IsInjective(t \o pushed) /\ ToSet(t \o pushed) = ToSet(t) \cup ToSet(pushed)
      BY <2>3, <2>4, <3>8, ConcatElements
    <3>10. Sorted(pushed)
      <4>1. dist + 1 \in Nat
        BY <2>3
      <4> QED
        BY <2>3, <3>6, <4>1, SortedSame
    <3>11. Sorted(t \o pushed)
      <4>1. \A x \in ToSet(t) : \A y \in ToSet(pushed) : x[2] <= y[2]
        BY <3>6, <3>7
      <4> QED
        BY <2>3, <2>4, <3>10, <4>1, SortedConcat
    <3>12. ASSUME NEW m \in new PROVE m \in f[dist + 1]
      <4>1. dist + 1 \in 1..depth /\ (dist + 1) - 1 = dist
        BY <2>3, <3>2
      <4>2. id \in f[dist]
        <5>1. x0[1] \in f[x0[2]]
          BY <3>4, <3>14
        <5> QED
          BY <3>14, <5>1
      <4>3. id \in neighbours(g, m) /\ m \in allowed
        BY <3>3, Neighbourly
      <4> QED
        BY <4>1, <4>2, <4>3 DEF IsBall
    <3>13. /\ new \in SUBSET allowed /\ w.focused = st.focused \cup new /\ new \cap st.focused = {}
           /\ ToSet(w.queue) = ToSet(Tail(st.queue)) \cup {<<m, FrontDistance(st) + 1>> : m \in new}
           /\ IsInjective(w.queue) /\ Sorted(w.queue)
           /\ \A m \in new : FrontDistance(st) < depth /\ m \in f[FrontDistance(st) + 1]
           /\ FrontDistance(st) < depth => neighbours(g, FrontNode(st)) \cap allowed \subseteq w.focused
      BY <3>1, <3>2, <3>3, <3>5, <3>9, <3>11, <3>12 DEF t
    <3> QED
      BY <1>2, <3>13, SpreadMoves DEF w
  <2> QED
    BY <2>5, <2>6 DEF w
<1> QED
  BY <1>1, <1>2

\* The search finds the ball.
LEMMA SpreadFinds ==
    ASSUME NEW g, NEW allowed, IsFiniteSet(allowed), NEW depth \in Nat, NEW n \in allowed
    PROVE  spread(g, allowed, depth, n) = Within(g, allowed, n, depth)
<1>0. PICK f : IsBall(f, g, allowed, n, depth) /\ Within(g, allowed, n, depth) = f[depth]
  BY WithinIsBall
<1> DEFINE S == spreadStates(allowed)
           h == SpreadBody(g, allowed, depth)
           a == SpreadStart(n)
           K == Cardinality(allowed)
           Inv == {x \in Nat \X S : Spreading(f, g, allowed, depth, n, x[1], x[2])}
           R == Iterate(h, a, K)
<1>1. h \in [S -> S] /\ a \in S /\ K \in Nat /\ spread(g, allowed, depth, n) = R.focused
  BY SpreadLoops
<1>2. \A st \in S : h[st] = spreadStep(g, allowed, depth, st)
  BY DEF SpreadBody
<1>3. Spreading(f, g, allowed, depth, n, 0, a)
  <2> DEFINE x == <<n, 0>>
             q == <<x>>
  <2>1. x \in allowed \X Nat /\ x[1] = n /\ x[2] = 0
    OBVIOUS
  <2>2. a = [queue |-> q, focused |-> {n}]
    BY DEF SpreadStart
  <2> HIDE DEF x, a
  <2>3. q \in Seq(allowed \X Nat) /\ ToSet(q) = {x} /\ IsInjective(q)
    BY <2>1, SingletonElements
  <2> HIDE DEF q
  <2>4. a.queue = q /\ a.focused = {n}
    BY <2>2
  <2>5. Sorted(q)
    BY <2>1, <2>3, SortedSame
  <2>6. f[0] = {n} /\ f[0] \subseteq f[depth]
    <3>1. 0 \in 0..depth /\ depth \in 0..depth /\ 0 <= depth
      OBVIOUS
    <3>2. f[0] \subseteq f[depth]
      BY <1>0, <3>1, BallsGrow
    <3> QED
      BY <1>0, <3>2 DEF IsBall
  <2>7. Waiting(a) = {n}
    BY <2>1, <2>3, <2>4 DEF Waiting
  <2>8. a.focused \ Waiting(a) = {}
    BY <2>4, <2>7
  <2>9. Cardinality(a.focused \ Waiting(a)) >= 0
    BY <2>8, FS_EmptySet
  <2>10. \A y \in ToSet(a.queue) : y = x
    BY <2>3, <2>4
  <2>11. \A y \in ToSet(a.queue) :
        /\ y[1] \in a.focused /\ y[2] <= depth /\ y[1] \in f[y[2]]
        /\ \A c \in 0..depth : c < y[2] => y[1] \notin f[c]
    BY <2>1, <2>4, <2>6, <2>10
  <2>12. \A y, z \in ToSet(a.queue) : (y[1] = z[1] => y = z) /\ z[2] <= y[2] + 1
    BY <2>1, <2>10
  <2> QED
    BY <2>3, <2>4, <2>5, <2>6, <2>8, <2>9, <2>11, <2>12 DEF Spreading
<1> HIDE DEF h, a, K
<1>4. <<0, a>> \in Inv
  BY <1>1, <1>3
<1>5. \A k \in 0..(K - 1) : \A st \in S : <<k, st>> \in Inv => <<k + 1, h[st]>> \in Inv
  <2> SUFFICES ASSUME NEW k \in 0..(K - 1), NEW st \in S, <<k, st>> \in Inv PROVE <<k + 1, h[st]>> \in Inv
    OBVIOUS
  <2>1. k \in Nat /\ k + 1 \in Nat
    BY <1>1
  <2>2. Spreading(f, g, allowed, depth, n, k, st)
    OBVIOUS
  <2>3. h[st] \in S /\ h[st] = spreadStep(g, allowed, depth, st)
    BY <1>1, <1>2
  <2>4. Spreading(f, g, allowed, depth, n, k + 1, h[st])
    BY <1>0, <2>1, <2>2, <2>3, SpreadKept
  <2> HIDE DEF S
  <2> QED
    BY <2>1, <2>3, <2>4
<1> HIDE DEF S
<1>6. R \in S /\ <<K, R>> \in Inv
  <2> HIDE DEF Inv
  <2> QED
    BY <1>1, <1>4, <1>5, LoopInvariant
<1>7. Spreading(f, g, allowed, depth, n, K, R)
  BY <1>6
<1> HIDE DEF R
<1>8. R \in spreadStates(allowed) /\ R.queue \in Seq(allowed \X Nat) /\ R.focused \in SUBSET allowed
  BY <1>6 DEF S, spreadStates
<1>9. R.queue = <<>>
  <2> SUFFICES ASSUME R.queue # <<>> PROVE FALSE
    OBVIOUS
  <2> DEFINE P == R.focused \ Waiting(R)
  <2>1. Cardinality(P) >= Cardinality(allowed)
    BY <1>7 DEF Spreading, K
  <2>2. P \in SUBSET allowed
    BY <1>8
  <2>3. P = allowed
    BY <2>1, <2>2, FS_Subset, FS_CardinalityType
  <2>4. Head(R.queue) \in ToSet(R.queue) /\ ToSet(R.queue) \subseteq allowed \X Nat
    BY <1>8, TailElements, Elements
  <2>5. Head(R.queue)[1] \in allowed /\ Head(R.queue)[1] \in Waiting(R)
    BY <2>4 DEF Waiting
  <2> QED
    BY <2>3, <2>5
<1>10. ToSet(R.queue) = {}
  BY <1>9, EmptyElements
<1>11. f[depth] \subseteq R.focused
  <2>1. depth \in 0..depth
    OBVIOUS
  <2> QED
    BY <1>0, <1>7, <1>8, <1>10, <2>1, BallFound
<1>12. R.focused \subseteq f[depth]
  BY <1>7 DEF Spreading
<1> QED
  BY <1>0, <1>1, <1>11, <1>12

\* The filter with a focus leaves the ball around it.
LEMMA FilterFocuses ==
    ASSUME NEW g, IsGraph(g), IsRecord(g), NEW vs, NEW f, f.depth \in Nat, f.depth > 0,
           f.selected \in filterWorkspaceLineage(g, vs, Slots, f).nodes
    PROVE  filterWorkspaceLineage(g, vs, Slots, f).nodes
            = Within(g, Allowed(g, vs, Slots, f), f.selected, f.depth)
<1> DEFINE allowed == Allowed(g, vs, Slots, f)
           around == spread(g, allowed, f.depth, f.selected)
           within == IF f.depth > 0 /\ f.selected \in allowed THEN around ELSE allowed
           F == filterWorkspaceLineage(g, vs, Slots, f)
           idle == f.domain = "" /\ f.layer = "" /\ f.query = "" /\ (f.depth = 0 \/ f.selected = <<>>)
<1>1. F = IF idle THEN g ELSE Keep(g, within)
  BY Zenon DEF filterWorkspaceLineage
<1>2. allowed \subseteq g.nodes /\ IsFiniteSet(allowed)
  BY AllowedWithin, FS_Subset DEF IsGraph
<1> HIDE DEF allowed
<1> HIDE DEF within, F
<1>3. f.selected # <<>>
  <2>1. IsGraph(F) /\ f.selected \in F.nodes
    BY FilterIsGraph DEF F
  <2> QED
    BY <2>1 DEF IsGraph
<1>4. ~idle
  <2>1. f.depth # 0
    OBVIOUS
  <2> QED
    BY <1>3, <2>1, Zenon
<1> HIDE DEF idle
<1>5. F = Keep(g, within)
  BY <1>1, <1>4
<1>6. F.nodes = within
  BY <1>5, KeepParts
<1>7. f.selected \in within
  BY <1>6 DEF F
<1>8. f.selected \in allowed
  BY <1>7 DEF within
<1>9. within = around
  BY <1>8 DEF within
<1>10. around = Within(g, allowed, f.selected, f.depth)
  BY <1>2, <1>8, SpreadFinds
<1> QED
  BY <1>6, <1>9, <1>10 DEF allowed, F

\* The invariant of the page is enough for the focus.
LEMMA PageIsFocused ==
    PageInv => FocusIsBall
<1> SUFFICES ASSUME PageInv, view.selected \in visible.nodes
             PROVE  /\ view.depth > 0 =>
                        filteredGraph.nodes = Within(graph, Allowed(graph, versions, Slots, view), view.selected, view.depth)
                    /\ downstream(visible, view.selected) = ReachedFrom(visible, view.selected) \ {view.selected}
                    /\ \A m \in visible.nodes \ {view.selected} :
                        m \in upstream(visible, view.selected) <=> view.selected \in downstream(visible, m)
  BY DEF FocusIsBall, Focused
<1>1. IsGraph(graph) /\ IsRecord(graph) /\ IsGraph(visible) /\ visible.nodes \subseteq filteredGraph.nodes
  BY PageGraphs
<1>2. ASSUME view.depth > 0
      PROVE  filteredGraph.nodes = Within(graph, Allowed(graph, versions, Slots, view), view.selected, view.depth)
  <2>1. ~view.activeOnly /\ view.depth \in Nat
    BY <1>2 DEF PageInv, ViewOpened
  <2>2. OnlyActive(graph) = graph
    BY <2>1 DEF OnlyActive
  <2>3. filteredGraph = filterWorkspaceLineage(graph, versions, Slots, view)
    BY <2>2 DEF filteredGraph
  <2>4. view.selected \in filteredGraph.nodes
    BY <1>1
  <2> QED
    BY <1>1, <1>2, <2>1, <2>3, <2>4, FilterFocuses
<1>3. /\ downstream(visible, view.selected) = ReachedFrom(visible, view.selected) \ {view.selected}
      /\ \A m \in visible.nodes \ {view.selected} :
            m \in upstream(visible, view.selected) <=> view.selected \in downstream(visible, m)
  BY <1>1, ImpactIsReached
<1> QED
  BY <1>2, <1>3

\* For every workspace, filter and depth: the breadth-first search of
\* filterWorkspaceLineage leaves exactly the nodes within the depth of the
\* focus, and the walks of the architecture view find exactly what depends on
\* the selected node, loops included.
THEOREM FocusIsAlwaysBall == Spec => []FocusIsBall
BY PageHolds, PageIsFocused, PTL

-----------------------------------------------------------------------------
(* Kahn's algorithm *)

\* The greatest element is the maximum.
LEMMA MaxIs ==
    ASSUME NEW S \in SUBSET Nat, NEW v \in S, \A y \in S : y <= v
    PROVE  Max(S) = v
<1> DEFINE m == Max(S)
<1>1. m \in S /\ v <= m
  BY MaxOf
<1> HIDE DEF m
<1>2. m \in Nat /\ v \in Nat /\ m <= v
  BY <1>1
<1> QED
  BY <1>1, <1>2 DEF m

\* What an appended sequence holds.
LEMMA AppendElements ==
    ASSUME NEW X, NEW q \in Seq(X), NEW x \in X
    PROVE  /\ Append(q, x) \in Seq(X) /\ Len(Append(q, x)) = Len(q) + 1 /\ Len(q) \in Nat
           /\ \A i \in 1..Len(q) : Append(q, x)[i] = q[i]
           /\ Append(q, x)[Len(q) + 1] = x
           /\ ToSet(Append(q, x)) = ToSet(q) \cup {x}
           /\ IsInjective(q) /\ x \notin ToSet(q) => IsInjective(Append(q, x))
<1> DEFINE r == <<x>>
<1>1. Append(q, x) = q \o r
  BY AppendIsConcat
<1>2. r \in Seq(X) /\ ToSet(r) = {x} /\ IsInjective(r)
  BY SingletonElements
<1> HIDE DEF r
<1>3. /\ ToSet(q \o r) = ToSet(q) \cup ToSet(r)
      /\ IsInjective(q) /\ IsInjective(r) /\ ToSet(q) \cap ToSet(r) = {} => IsInjective(q \o r)
  BY <1>2, ConcatElements
<1>4. /\ Append(q, x) \in Seq(X) /\ Len(Append(q, x)) = Len(q) + 1 /\ Len(q) \in Nat
      /\ \A i \in 1..Len(q) : Append(q, x)[i] = q[i]
      /\ Append(q, x)[Len(q) + 1] = x
  BY AppendProperties, Elements
<1> QED
  BY <1>1, <1>2, <1>3, <1>4

\* A sequence without repetitions is as long as the set of its elements.
LEMMA LengthOfSet ==
    ASSUME NEW X, NEW q \in Seq(X), IsInjective(q)
    PROVE  Len(q) = Cardinality(ToSet(q)) /\ IsFiniteSet(ToSet(q)) /\ Len(q) \in Nat
<1> DEFINE n == Len(q)
           T == ToSet(q)
<1>1. n \in Nat /\ DOMAIN q = 1..n /\ q \in [1..n -> X]
  BY Elements
<1>2. q \in [1..n -> T] /\ \A y \in T : \E i \in 1..n : q[i] = y
  BY <1>1 DEF ToSet
<1> HIDE DEF T, n
<1>3. q \in Bijection(1..n, T)
  BY <1>2, <1>1 DEF Bijection, Injection, Surjection, IsInjective
<1>4. ExistsBijection(1..n, T)
  BY <1>3 DEF ExistsBijection
<1>5. IsFiniteSet(1..n) /\ Cardinality(1..n) = n
  BY <1>1, FS_Interval
<1>6. IsFiniteSet(T) /\ Cardinality(T) = Cardinality(1..n)
  BY <1>4, <1>5, FS_Bijection
<1> QED
  BY <1>1, <1>5, <1>6 DEF T, n

\* The edges of a graph over some nodes.
Joins(N, edges) ==
    /\ IsFiniteSet(N) /\ IsFiniteSet(DOMAIN edges) /\ DOMAIN edges \in SUBSET Nat
    /\ \A k \in DOMAIN edges : edges[k].source \in N /\ edges[k].target \in N

\* The edges that the node at the head of the queue has left.
Ahead(edges, st) == {k \in st.left : edges[k].source = st.queue[st.index]}

\* What using edge x makes of a state.
Uses(N, edges, x, st, w) ==
    /\ x \in st.left /\ x \in DOMAIN edges /\ edges[x].source = st.queue[st.index]
    /\ w.index = st.index /\ w.left = st.left \ {x}
    /\ \A n \in N \ {edges[x].target} : w.rank[n] = st.rank[n] /\ w.indegree[n] = st.indegree[n]
    /\ w.rank[edges[x].target] \in {st.rank[edges[x].target], st.rank[edges[x].source] + 1}
    /\ w.rank[edges[x].target] >= st.rank[edges[x].target]
    /\ w.rank[edges[x].target] >= st.rank[edges[x].source] + 1
    /\ w.indegree[edges[x].target] = st.indegree[edges[x].target] - 1
    /\ w.queue = IF w.indegree[edges[x].target] = 0 THEN Append(st.queue, edges[x].target) ELSE st.queue

\* useEdge does that.
LEMMA UseEdgeIs ==
    ASSUME NEW N, NEW edges, Joins(N, edges), NEW st \in KahnStates(N, edges), NEW x \in st.left,
           edges[x].source = st.queue[st.index],
           NEW w, w = [rank |-> useEdge(st, edges[x]).rank, indegree |-> useEdge(st, edges[x]).indegree,
                       queue |-> useEdge(st, edges[x]).queue, index |-> st.index, left |-> st.left \ {x}]
    PROVE  w \in KahnStates(N, edges) /\ Uses(N, edges, x, st, w)
<1> DEFINE s == edges[x].source
           t == edges[x].target
           m == Max({st.rank[t], st.rank[s] + 1})
           d == st.indegree[t] - 1
           r == [st.rank EXCEPT ![t] = m]
           i == [st.indegree EXCEPT ![t] = d]
           q == IF d = 0 THEN Append(st.queue, t) ELSE st.queue
<1>1. /\ st.rank \in [N -> Nat] /\ st.indegree \in [N -> Int] /\ st.queue \in Seq(N)
      /\ st.index \in Nat /\ st.left \in SUBSET DOMAIN edges
  BY DEF KahnStates
<1>2. s \in N /\ t \in N /\ x \in DOMAIN edges
  BY <1>1 DEF Joins
<1>3. useEdge(st, edges[x]) = [rank |-> r, indegree |-> i, queue |-> q]
  BY DEF useEdge
<1> HIDE DEF s, t
<1>15. st.rank[t] \in Nat /\ st.rank[s] + 1 \in Nat
  BY <1>1, <1>2
<1>4. m \in {st.rank[t], st.rank[s] + 1} /\ m >= st.rank[t] /\ m >= st.rank[s] + 1 /\ m \in Nat
  <2> DEFINE a == st.rank[t]
             b == st.rank[s] + 1
             S == {a, b}
  <2>1. a \in Nat /\ b \in Nat
    BY <1>15
  <2> HIDE DEF a, b
  <2>2. S \in SUBSET Nat /\ S # {} /\ a + b \in Nat /\ \A y \in S : y <= a + b
    <3>1. a <= a + b /\ b <= a + b /\ a + b \in Nat
      BY <2>1
    <3> QED
      BY <2>1, <3>1
  <2>3. Max(S) \in S /\ \A y \in S : y <= Max(S)
    <3> DEFINE c == a + b
    <3>1. S \in SUBSET Nat /\ S # {} /\ c \in Nat /\ \A y \in S : y <= c
      BY <2>2
    <3> HIDE DEF S, c
    <3> QED
      BY <3>1, MaxOf
  <2>4. m = Max(S)
    BY DEF a, b
  <2> HIDE DEF m
  <2>5. m \in {a, b} /\ a <= m /\ b <= m
    BY <2>3, <2>4
  <2> QED
    BY <2>1, <2>5 DEF a, b
<1> HIDE DEF m
<1>5. r \in [N -> Nat] /\ r[t] = m /\ \A n \in N \ {t} : r[n] = st.rank[n]
  BY <1>1, <1>2, <1>4
<1>6. d \in Int
  BY <1>1, <1>2
<1> HIDE DEF d
<1>7. i \in [N -> Int] /\ i[t] = d /\ \A n \in N \ {t} : i[n] = st.indegree[n]
  BY <1>1, <1>2, <1>6
<1>8. q \in Seq(N)
  BY <1>1, <1>2, AppendElements
<1> HIDE DEF r, i, q
<1>9. w = [rank |-> r, indegree |-> i, queue |-> q, index |-> st.index, left |-> st.left \ {x}]
  BY <1>3
<1>10. w \in KahnStates(N, edges)
  <2> DEFINE l == st.left \ {x}
             j == st.index
             D == SUBSET DOMAIN edges
  <2>1. l \in D /\ j \in Nat
    BY <1>1
  <2> HIDE DEF l, j, D
  <2>2. [rank |-> r, indegree |-> i, queue |-> q, index |-> j, left |-> l]
            \in [rank : [N -> Nat], indegree : [N -> Int], queue : Seq(N), index : Nat, left : D]
    BY <1>5, <1>7, <1>8, <2>1
  <2> QED
    BY <1>9, <2>2, Zenon DEF KahnStates, l, j, D
<1>11. w.rank = r /\ w.indegree = i /\ w.queue = q /\ w.index = st.index /\ w.left = st.left \ {x}
  BY <1>9
<1>12. q = IF i[t] = 0 THEN Append(st.queue, t) ELSE st.queue
  BY <1>7 DEF q
<1>13. i[t] = st.indegree[t] - 1
  BY <1>7 DEF d
<1>14. /\ w.rank[t] = m /\ w.indegree[t] = st.indegree[t] - 1
       /\ \A n \in N \ {t} : w.rank[n] = st.rank[n] /\ w.indegree[n] = st.indegree[n]
       /\ w.queue = IF w.indegree[t] = 0 THEN Append(st.queue, t) ELSE st.queue
  BY <1>5, <1>7, <1>11, <1>12, <1>13
<1> QED
  BY <1>2, <1>4, <1>10, <1>11, <1>14 DEF Uses, s, t

\* A step does nothing, goes to the next node of the queue, or uses an edge.
LEMMA KahnStepIs ==
    ASSUME NEW N, NEW edges, Joins(N, edges), NEW st \in KahnStates(N, edges), NEW w, w = KahnStep(edges, st)
    PROVE  /\ w \in KahnStates(N, edges)
           /\ \/ st.index > Len(st.queue) /\ w = st
              \/ /\ ~(st.index > Len(st.queue)) /\ Ahead(edges, st) = {}
                 /\ w.rank = st.rank /\ w.indegree = st.indegree /\ w.queue = st.queue
                 /\ w.index = st.index + 1 /\ w.left = st.left
              \/ ~(st.index > Len(st.queue)) /\ \E x \in st.left : Uses(N, edges, x, st, w)
<1>1. /\ st.rank \in [N -> Nat] /\ st.indegree \in [N -> Int] /\ st.queue \in Seq(N)
      /\ st.index \in Nat /\ st.left \in SUBSET DOMAIN edges
  BY DEF KahnStates
<1> DEFINE x == Min(Ahead(edges, st))
           a == [rank |-> st.rank, indegree |-> st.indegree, queue |-> st.queue, index |-> st.index + 1, left |-> st.left]
           b == [rank |-> useEdge(st, edges[x]).rank, indegree |-> useEdge(st, edges[x]).indegree,
                 queue |-> useEdge(st, edges[x]).queue, index |-> st.index, left |-> st.left \ {x}]
<1>2. KahnStep(edges, st) = IF st.index > Len(st.queue) THEN st ELSE IF Ahead(edges, st) = {} THEN a ELSE b
  BY Zenon DEF KahnStep, Ahead
<1> HIDE DEF a, b, x
<1>3. CASE st.index > Len(st.queue)
  BY <1>2, <1>3
<1>4. CASE ~(st.index > Len(st.queue)) /\ Ahead(edges, st) = {}
  <2>1. w = a
    BY <1>2, <1>4
  <2>2. a \in KahnStates(N, edges)
    BY <1>1 DEF KahnStates, a
  <2> QED
    BY <1>4, <2>1, <2>2 DEF a
<1>5. CASE ~(st.index > Len(st.queue)) /\ Ahead(edges, st) # {}
  <2>1. w = b
    BY <1>2, <1>5
  <2>2. Ahead(edges, st) \in SUBSET Nat
    BY <1>1 DEF Ahead, Joins
  <2>3. x \in Ahead(edges, st)
    BY <1>5, <2>2, MinOf DEF x
  <2>4. x \in st.left /\ edges[x].source = st.queue[st.index]
    BY <2>3 DEF Ahead
  <2>5. w \in KahnStates(N, edges) /\ Uses(N, edges, x, st, w)
    BY <2>1, <2>4, UseEdgeIs DEF b
  <2> QED
    BY <1>5, <2>4, <2>5
<1> QED
  BY <1>3, <1>4, <1>5

\* The edges of a set that lead to a node.
Into(edges, L, n) == {k \in L : edges[k].target = n}

\* The count of a node is that of the edges it waits for, and the queue holds
\* the nodes that wait for none.
Counted(N, edges, st) ==
    \A n \in N : /\ st.indegree[n] = Cardinality(Into(edges, st.left, n))
                 /\ n \in ToSet(st.queue) <=> Into(edges, st.left, n) = {}

\* The edges used are those of the queue up to its head.
Passed(edges, st) ==
    /\ IsInjective(st.queue) /\ st.index \in 1..(Len(st.queue) + 1)
    /\ \A k \in DOMAIN edges \ st.left : \E j \in 1..st.index : j <= Len(st.queue) /\ st.queue[j] = edges[k].source
    /\ \A k \in st.left : \A j \in 1..(st.index - 1) : st.queue[j] # edges[k].source

\* What feeds a node of the queue is before it.
Producers(edges, st) ==
    \A j \in 1..Len(st.queue) : \A k \in DOMAIN edges :
        edges[k].target = st.queue[j] => \E h \in 1..(j - 1) : st.queue[h] = edges[k].source

\* The rank of a node is the longest path along the edges used.
Ranked(N, edges, st) ==
    \A n \in N :
        /\ st.rank[n] = 0 \/ \E k \in Into(edges, DOMAIN edges \ st.left, n) : st.rank[n] = st.rank[edges[k].source] + 1
        /\ \A k \in Into(edges, DOMAIN edges \ st.left, n) : st.rank[edges[k].source] + 1 <= st.rank[n]

\* Every round passes a node or uses an edge until the queue ends.
Advanced(edges, k, st) ==
    st.index > Len(st.queue) \/ (st.index - 1) + Cardinality(DOMAIN edges \ st.left) >= k

\* The invariant of Kahn's algorithm after k rounds.
Sorting(N, edges, k, st) ==
    Counted(N, edges, st) /\ Passed(edges, st) /\ Producers(edges, st) /\ Ranked(N, edges, st) /\ Advanced(edges, k, st)

\* The fields of a state.
LEMMA StateFields ==
    ASSUME NEW N, NEW edges, NEW st \in KahnStates(N, edges)
    PROVE  /\ st.rank \in [N -> Nat] /\ st.indegree \in [N -> Int] /\ st.queue \in Seq(N)
           /\ st.index \in Nat /\ st.left \in SUBSET DOMAIN edges
           /\ Len(st.queue) \in Nat /\ DOMAIN st.queue = 1..Len(st.queue) /\ ToSet(st.queue) \subseteq N
<1>1. /\ st.rank \in [N -> Nat] /\ st.indegree \in [N -> Int] /\ st.queue \in Seq(N)
      /\ st.index \in Nat /\ st.left \in SUBSET DOMAIN edges
  BY DEF KahnStates
<1> QED
  BY <1>1, Elements

\* A node joins the queue when it waits for no edge.
Joined(edges, t, st, w) ==
    \/ Into(edges, w.left, t) = {} /\ w.queue = Append(st.queue, t)
    \/ Into(edges, w.left, t) # {} /\ w.queue = st.queue

\* The edge used leads from the queue to a node that is not in it.
LEMMA UsedEdge ==
    ASSUME NEW N, NEW edges, Joins(N, edges), NEW st \in KahnStates(N, edges), NEW w \in KahnStates(N, edges),
           ~(st.index > Len(st.queue)), NEW x, Uses(N, edges, x, st, w), Counted(N, edges, st), Passed(edges, st)
    PROVE  /\ edges[x].source \in ToSet(st.queue) /\ edges[x].target \notin ToSet(st.queue)
           /\ edges[x].source \in N /\ edges[x].target \in N
           /\ st.index \in 1..Len(st.queue)
           /\ DOMAIN edges \ w.left = (DOMAIN edges \ st.left) \cup {x} /\ x \in st.left
           /\ w.left = st.left \ {x} /\ w.index = st.index /\ edges[x].source = st.queue[st.index]
           /\ Joined(edges, edges[x].target, st, w)
           /\ Counted(N, edges, w)
<1> DEFINE s == edges[x].source
           t == edges[x].target
           q == st.queue
           I(n) == Into(edges, st.left, n)
           J(n) == Into(edges, w.left, n)
<1>1. /\ st.indegree \in [N -> Int] /\ q \in Seq(N) /\ st.index \in Nat /\ st.left \in SUBSET DOMAIN edges
      /\ Len(q) \in Nat /\ DOMAIN q = 1..Len(q)
  BY StateFields
<1>2. /\ x \in st.left /\ x \in DOMAIN edges /\ s = q[st.index]
      /\ w.index = st.index /\ w.left = st.left \ {x}
      /\ \A n \in N \ {t} : w.indegree[n] = st.indegree[n]
      /\ w.indegree[t] = st.indegree[t] - 1
      /\ w.queue = IF w.indegree[t] = 0 THEN Append(q, t) ELSE q
  BY DEF Uses
<1>3. st.index \in 1..Len(q)
  BY <1>1 DEF Passed
<1>4. s \in ToSet(q) /\ s \in N /\ t \in N
  BY <1>1, <1>2, <1>3 DEF ToSet, Joins
<1>5. x \in I(t)
  BY <1>2 DEF Into
<1>6. t \notin ToSet(q)
  BY <1>4, <1>5 DEF Counted
<1>7. DOMAIN edges \ w.left = (DOMAIN edges \ st.left) \cup {x}
  BY <1>1, <1>2
<1>8. J(t) = I(t) \ {x} /\ \A n \in N \ {t} : J(n) = I(n)
  BY <1>2 DEF Into
<1>9. IsFiniteSet(I(t)) /\ I(t) \subseteq DOMAIN edges
  <2>1. I(t) \subseteq DOMAIN edges
    BY <1>1 DEF Into
  <2> QED
    BY <2>1, FS_Subset DEF Joins
<1>10. st.indegree[t] = Cardinality(I(t))
  BY <1>4 DEF Counted
<1> HIDE DEF I, J, t, s, q
<1>11. IsFiniteSet(J(t)) /\ Cardinality(J(t)) = Cardinality(I(t)) - 1 /\ Cardinality(I(t)) \in Nat
  BY <1>5, <1>8, <1>9, FS_RemoveElement, FS_CardinalityType
<1>12. w.indegree[t] = Cardinality(J(t))
  BY <1>2, <1>10, <1>11
<1>13. w.indegree[t] = 0 <=> J(t) = {}
  BY <1>11, <1>12, FS_EmptySet
<1>14. (J(t) = {} /\ w.queue = Append(q, t)) \/ (J(t) # {} /\ w.queue = q)
  BY <1>2, <1>13
<1>15. ToSet(w.queue) = IF J(t) = {} THEN ToSet(q) \cup {t} ELSE ToSet(q)
  <2>1. ToSet(Append(q, t)) = ToSet(q) \cup {t}
    BY <1>1, <1>4, AppendElements
  <2> QED
    BY <1>14, <2>1
<1>16. ASSUME NEW n \in N
       PROVE  w.indegree[n] = Cardinality(J(n)) /\ (n \in ToSet(w.queue) <=> J(n) = {})
  <2>1. CASE n = t
    BY <1>6, <1>12, <1>15, <2>1
  <2>2. CASE n # t
    <3>1. st.indegree[n] = Cardinality(I(n)) /\ (n \in ToSet(q) <=> I(n) = {})
      BY DEF Counted, I, q
    <3>2. J(n) = I(n) /\ w.indegree[n] = st.indegree[n]
      BY <1>2, <1>8, <2>2
    <3> QED
      BY <1>15, <2>2, <3>1, <3>2
  <2> QED
    BY <2>1, <2>2
<1>17. Counted(N, edges, w)
  BY <1>16 DEF Counted, J
<1> QED
  BY <1>2, <1>3, <1>4, <1>6, <1>7, <1>14, <1>17 DEF t, s, q, J, Joined

\* The queue keeps what it holds.
LEMMA QueueGrows ==
    ASSUME NEW N, NEW q \in Seq(N), NEW t \in N, t \notin ToSet(q), IsInjective(q), NEW p, p = q \/ p = Append(q, t)
    PROVE  /\ p \in Seq(N) /\ IsInjective(p) /\ Len(p) \in Nat /\ Len(q) \in Nat /\ Len(q) <= Len(p)
           /\ \A j \in 1..Len(q) : p[j] = q[j] /\ j \in 1..Len(p)
           /\ p # q => Len(p) = Len(q) + 1 /\ p[Len(p)] = t
<1>1. Len(q) \in Nat
  BY Elements
<1>2. CASE p = q
  BY <1>1, <1>2
<1>3. CASE p = Append(q, t)
  <2>1. /\ p \in Seq(N) /\ Len(p) = Len(q) + 1 /\ \A i \in 1..Len(q) : p[i] = q[i]
        /\ p[Len(q) + 1] = t /\ IsInjective(p)
    BY <1>3, AppendElements
  <2>2. \A j \in 1..Len(q) : j \in 1..Len(p)
    BY <1>1, <2>1
  <2> QED
    BY <1>1, <2>1, <2>2
<1> QED
  BY <1>2, <1>3

\* Using an edge keeps the order of the queue.
LEMMA UsesPasses ==
    ASSUME NEW N, NEW edges, Joins(N, edges), NEW st \in KahnStates(N, edges), NEW w \in KahnStates(N, edges),
           ~(st.index > Len(st.queue)), NEW x, Uses(N, edges, x, st, w), Counted(N, edges, st), Passed(edges, st),
           Producers(edges, st)
    PROVE  Passed(edges, w) /\ Producers(edges, w)
<1> DEFINE t == edges[x].target
           q == st.queue
           p == w.queue
           i == st.index
           U == DOMAIN edges \ st.left
<1>1. /\ t \notin ToSet(q) /\ t \in N /\ i \in 1..Len(q) /\ DOMAIN edges \ w.left = U \cup {x}
      /\ w.left = st.left \ {x} /\ w.index = i /\ edges[x].source = q[i]
      /\ Joined(edges, t, st, w)
  BY UsedEdge
<1>12. (Into(edges, w.left, t) = {} /\ p = Append(q, t)) \/ (Into(edges, w.left, t) # {} /\ p = q)
  BY <1>1 DEF Joined
<1>2. q \in Seq(N) /\ i \in Nat /\ IsInjective(q)
  BY StateFields DEF Passed
<1>3. /\ \A k \in U : \E j \in 1..i : j <= Len(q) /\ q[j] = edges[k].source
      /\ \A k \in st.left : \A j \in 1..(i - 1) : q[j] # edges[k].source
      /\ \A j \in 1..Len(q) : \A k \in DOMAIN edges :
            edges[k].target = q[j] => \E h \in 1..(j - 1) : q[h] = edges[k].source
  BY DEF Passed, Producers
<1>4. w.left \subseteq DOMAIN edges
  BY StateFields
<1> HIDE DEF t, q, p, i, U
<1>5. /\ p \in Seq(N) /\ IsInjective(p) /\ Len(p) \in Nat /\ Len(q) \in Nat /\ Len(q) <= Len(p)
      /\ \A j \in 1..Len(q) : p[j] = q[j] /\ j \in 1..Len(p)
      /\ p # q => Len(p) = Len(q) + 1 /\ p[Len(p)] = t
  BY <1>1, <1>2, <1>12, QueueGrows
<1>6. i \in 1..(Len(p) + 1) /\ i <= Len(q)
  BY <1>1, <1>5
<1>7. ASSUME NEW k \in U \cup {x} PROVE \E j \in 1..i : j <= Len(p) /\ p[j] = edges[k].source
  <2>1. PICK j \in 1..i : j <= Len(q) /\ q[j] = edges[k].source
    <3>1. CASE k = x
      BY <1>1, <1>2, <1>6, <3>1
    <3> QED
      BY <1>3, <3>1
  <2>2. j \in 1..Len(q)
    BY <1>2, <1>5, <2>1
  <2> QED
    BY <1>5, <2>1, <2>2
<1>8. ASSUME NEW k \in w.left, NEW j \in 1..(i - 1) PROVE p[j] # edges[k].source
  <2>1. j \in 1..Len(q) /\ k \in st.left
    BY <1>1, <1>2, <1>5, <1>6
  <2> QED
    BY <1>3, <1>5, <2>1
<1>9. Passed(edges, w)
  BY <1>1, <1>5, <1>6, <1>7, <1>8 DEF Passed, p
<1>10. ASSUME NEW j \in 1..Len(p), NEW k \in DOMAIN edges, edges[k].target = p[j]
       PROVE  \E h \in 1..(j - 1) : p[h] = edges[k].source
  <2>1. CASE j \in 1..Len(q)
    <3>1. PICK h \in 1..(j - 1) : q[h] = edges[k].source
      BY <1>3, <1>5, <1>10, <2>1
    <3>2. h \in 1..Len(q)
      BY <1>5, <2>1
    <3> QED
      BY <1>5, <3>1, <3>2
  <2>2. CASE j \notin 1..Len(q)
    <3>1. p # q /\ j = Len(p) /\ Len(p) = Len(q) + 1
      <4>1. p # q
        BY <2>2
      <4>2. Len(p) = Len(q) + 1
        BY <1>5, <4>1
      <4> QED
        BY <1>5, <2>2, <4>1, <4>2
    <3>2. edges[k].target = t /\ Into(edges, w.left, t) = {}
      BY <1>5, <1>10, <1>12, <3>1
    <3>3. k \in U \cup {x}
      BY <1>1, <3>2 DEF Into
    <3>4. PICK h \in 1..i : h <= Len(p) /\ p[h] = edges[k].source
      BY <1>7, <3>3
    <3>5. h \in 1..(j - 1)
      BY <1>2, <1>5, <1>6, <3>1
    <3> QED
      BY <3>4, <3>5
  <2> QED
    BY <2>1, <2>2
<1>11. Producers(edges, w)
  BY <1>10 DEF Producers, p
<1> QED
  BY <1>9, <1>11

\* And the ranks: those of the queue are final, so only the target's changes.
LEMMA UsesRanks ==
    ASSUME NEW N, NEW edges, Joins(N, edges), NEW st \in KahnStates(N, edges), NEW w \in KahnStates(N, edges),
           ~(st.index > Len(st.queue)), NEW x, Uses(N, edges, x, st, w), Counted(N, edges, st), Passed(edges, st),
           Ranked(N, edges, st)
    PROVE  Ranked(N, edges, w)
<1> DEFINE s == edges[x].source
           t == edges[x].target
           D == DOMAIN edges
           U == D \ st.left
           I(n) == Into(edges, D \ st.left, n)
           J(n) == Into(edges, D \ w.left, n)
<1>1. /\ s \in ToSet(st.queue) /\ t \notin ToSet(st.queue) /\ s \in N /\ t \in N
      /\ D \ w.left = U \cup {x}
  BY UsedEdge
<1>2. /\ \A n \in N \ {t} : w.rank[n] = st.rank[n]
      /\ w.rank[t] \in {st.rank[t], st.rank[s] + 1} /\ w.rank[t] >= st.rank[t] /\ w.rank[t] >= st.rank[s] + 1
  BY DEF Uses
<1>3. /\ st.rank \in [N -> Nat] /\ w.rank \in [N -> Nat] /\ DOMAIN st.queue = 1..Len(st.queue)
      /\ st.index \in Nat /\ Len(st.queue) \in Nat
  BY StateFields
<1>4. J(t) = I(t) \cup {x} /\ \A n \in N \ {t} : J(n) = I(n)
  BY <1>1 DEF Into
<1>5. \A k \in U : edges[k].source \in N /\ edges[k].source # t
  <2> TAKE k \in U
  <2>1. PICK j \in 1..st.index : j <= Len(st.queue) /\ st.queue[j] = edges[k].source
    BY DEF Passed
  <2>2. j \in DOMAIN st.queue
    BY <1>3, <2>1
  <2>3. edges[k].source \in ToSet(st.queue)
    BY <2>1, <2>2 DEF ToSet
  <2> QED
    BY <1>1, <2>3 DEF Joins
<1>6. \A n : I(n) \subseteq U
  BY DEF Into
<1>7. \A n \in N : /\ st.rank[n] = 0 \/ \E k \in I(n) : st.rank[n] = st.rank[edges[k].source] + 1
                   /\ \A k \in I(n) : st.rank[edges[k].source] + 1 <= st.rank[n]
  BY DEF Ranked
<1> HIDE DEF I, J, U, D
<1>8. \A k \in U : w.rank[edges[k].source] = st.rank[edges[k].source]
  BY <1>2, <1>5
<1>9. w.rank[s] = st.rank[s]
  BY <1>1, <1>2
<1>10. ASSUME NEW n \in N
       PROVE  /\ w.rank[n] = 0 \/ \E k \in J(n) : w.rank[n] = w.rank[edges[k].source] + 1
              /\ \A k \in J(n) : w.rank[edges[k].source] + 1 <= w.rank[n]
  <2>1. CASE n # t
    <3>1. J(n) = I(n) /\ w.rank[n] = st.rank[n] /\ \A k \in I(n) : w.rank[edges[k].source] = st.rank[edges[k].source]
      BY <1>2, <1>4, <1>6, <1>8, <2>1
    <3> QED
      BY <1>7, <3>1
  <2>2. CASE n = t
    <3> DEFINE a == st.rank[t]
               b == st.rank[s] + 1
               c == w.rank[t]
    <3>1. a \in Nat /\ b \in Nat /\ c \in Nat /\ c \in {a, b} /\ a <= c /\ b <= c
      BY <1>1, <1>2, <1>3
    <3>2. \A k \in I(t) : w.rank[edges[k].source] = st.rank[edges[k].source] /\ st.rank[edges[k].source] \in Nat
      BY <1>3, <1>5, <1>6, <1>8
    <3>3. x \in J(t) /\ w.rank[edges[x].source] + 1 = b
      BY <1>4, <1>9
    <3>4. /\ a = 0 \/ \E k \in I(t) : a = w.rank[edges[k].source] + 1
          /\ \A k \in I(t) : w.rank[edges[k].source] + 1 <= a /\ w.rank[edges[k].source] + 1 \in Nat
      BY <1>1, <1>7, <3>2
    <3>5. \A k \in J(t) : k \in I(t) \/ k = x
      BY <1>4
    <3>6. \A k \in I(t) : k \in J(t)
      BY <1>4
    <3> HIDE DEF a, b, c
    <3>7. \A k \in J(t) : w.rank[edges[k].source] + 1 <= c
      <4> TAKE k \in J(t)
      <4>1. CASE k = x
        BY <3>1, <3>3, <4>1
      <4>2. CASE k \in I(t)
        <5> DEFINE y == w.rank[edges[k].source] + 1
        <5>1. y <= a /\ y \in Nat
          BY <3>4, <4>2
        <5> HIDE DEF y
        <5>2. y <= c
          BY <3>1, <5>1
        <5> QED
          BY <5>2 DEF y
      <4> QED
        BY <3>5, <4>1, <4>2
    <3>8. c = 0 \/ \E k \in J(t) : c = w.rank[edges[k].source] + 1
      <4>1. CASE c = b
        BY <3>3, <4>1
      <4>2. CASE c = a
        BY <3>4, <3>6, <4>2
      <4> QED
        BY <3>1, <4>1, <4>2
    <3> QED
      BY <2>2, <3>7, <3>8 DEF c
  <2> QED
    BY <2>1, <2>2
<1> QED
  BY <1>10 DEF Ranked, J, D

\* And it is progress.
LEMMA UsesAdvances ==
    ASSUME NEW N, NEW edges, Joins(N, edges), NEW st \in KahnStates(N, edges), NEW w \in KahnStates(N, edges),
           ~(st.index > Len(st.queue)), NEW x, Uses(N, edges, x, st, w), Counted(N, edges, st), Passed(edges, st),
           NEW k \in Nat, Advanced(edges, k, st)
    PROVE  Advanced(edges, k + 1, w)
<1> DEFINE U == DOMAIN edges \ st.left
           V == DOMAIN edges \ w.left
           c == Cardinality(U)
           d == Cardinality(V)
           i == st.index
<1>1. V = U \cup {x} /\ x \in st.left /\ w.index = i
  BY UsedEdge
<1>2. IsFiniteSet(U) /\ x \notin U
  <2>1. U \subseteq DOMAIN edges
    OBVIOUS
  <2> QED
    BY <1>1, <2>1, FS_Subset DEF Joins
<1>3. i \in Nat
  BY StateFields
<1>4. (i - 1) + c >= k
  BY DEF Advanced
<1> HIDE DEF U, V, i
<1>5. d = c + 1 /\ c \in Nat
  BY <1>1, <1>2, FS_AddElement, FS_CardinalityType
<1> HIDE DEF c, d
<1>6. (i - 1) + d >= k + 1
  BY <1>3, <1>4, <1>5
<1> QED
  BY <1>1, <1>6 DEF Advanced, d, V

\* The next node of the queue.
LEMMA NextNode ==
    ASSUME NEW N, NEW edges, Joins(N, edges), NEW st \in KahnStates(N, edges), NEW w \in KahnStates(N, edges),
           NEW k \in Nat, Sorting(N, edges, k, st), ~(st.index > Len(st.queue)), Ahead(edges, st) = {},
           w.rank = st.rank, w.indegree = st.indegree, w.queue = st.queue, w.index = st.index + 1, w.left = st.left
    PROVE  Sorting(N, edges, k + 1, w)
<1> DEFINE q == st.queue
           i == st.index
           U == DOMAIN edges \ st.left
<1>1. i \in Nat /\ Len(q) \in Nat /\ w.queue = q /\ w.index = i + 1 /\ w.left = st.left
  BY StateFields
<1>2. /\ IsInjective(q) /\ i \in 1..(Len(q) + 1)
      /\ \A e \in U : \E j \in 1..i : j <= Len(q) /\ q[j] = edges[e].source
      /\ \A e \in st.left : \A j \in 1..(i - 1) : q[j] # edges[e].source
  BY DEF Sorting, Passed
<1>3. \A e \in st.left : q[i] # edges[e].source
  BY DEF Ahead
<1>4. (i - 1) + Cardinality(U) >= k /\ Cardinality(U) \in Nat
  <2>1. IsFiniteSet(U)
    BY FS_Subset DEF Joins
  <2>2. Cardinality(U) \in Nat
    BY <2>1, FS_CardinalityType
  <2> QED
    BY <2>2 DEF Sorting, Advanced
<1>5. Counted(N, edges, w) /\ Producers(edges, w) /\ Ranked(N, edges, w)
  <2>1. Counted(N, edges, w)
    BY DEF Sorting, Counted
  <2>2. Producers(edges, w)
    BY DEF Sorting, Producers
  <2>3. Ranked(N, edges, w)
    BY DEF Sorting, Ranked
  <2> QED
    BY <2>1, <2>2, <2>3
<1>6. ~(i > Len(q))
  OBVIOUS
<1> HIDE DEF q, i, U
<1>7. i + 1 \in 1..(Len(q) + 1)
  BY <1>1, <1>2, <1>6
<1>8. ASSUME NEW e \in U PROVE \E j \in 1..(i + 1) : j <= Len(q) /\ q[j] = edges[e].source
  <2>1. PICK j \in 1..i : j <= Len(q) /\ q[j] = edges[e].source
    BY <1>2
  <2>2. j \in 1..(i + 1)
    BY <1>1
  <2> QED
    BY <2>1, <2>2
<1>9. ASSUME NEW e \in st.left, NEW j \in 1..((i + 1) - 1) PROVE q[j] # edges[e].source
  <2>1. j = i \/ j \in 1..(i - 1)
    BY <1>1
  <2> QED
    BY <1>2, <1>3, <2>1
<1>10. Passed(edges, w)
  BY <1>1, <1>2, <1>7, <1>8, <1>9 DEF Passed, U
<1>11. ((i + 1) - 1) + Cardinality(U) >= k + 1
  BY <1>1, <1>4
<1>12. Advanced(edges, k + 1, w)
  BY <1>1, <1>11 DEF Advanced, U
<1> QED
  BY <1>5, <1>10, <1>12 DEF Sorting

\* Every round keeps the invariant.
LEMMA KahnKept ==
    ASSUME NEW N, NEW edges, Joins(N, edges), NEW st \in KahnStates(N, edges), NEW k \in Nat, Sorting(N, edges, k, st)
    PROVE  KahnStep(edges, st) \in KahnStates(N, edges) /\ Sorting(N, edges, k + 1, KahnStep(edges, st))
<1> DEFINE w == KahnStep(edges, st)
<1>1. /\ w \in KahnStates(N, edges)
      /\ \/ st.index > Len(st.queue) /\ w = st
         \/ /\ ~(st.index > Len(st.queue)) /\ Ahead(edges, st) = {}
            /\ w.rank = st.rank /\ w.indegree = st.indegree /\ w.queue = st.queue
            /\ w.index = st.index + 1 /\ w.left = st.left
         \/ ~(st.index > Len(st.queue)) /\ \E x \in st.left : Uses(N, edges, x, st, w)
  BY KahnStepIs
<1> HIDE DEF w
<1>2. CASE st.index > Len(st.queue) /\ w = st
  BY <1>2 DEF Sorting, Advanced, w
<1>3. CASE /\ ~(st.index > Len(st.queue)) /\ Ahead(edges, st) = {}
           /\ w.rank = st.rank /\ w.indegree = st.indegree /\ w.queue = st.queue
           /\ w.index = st.index + 1 /\ w.left = st.left
  <2>1. Sorting(N, edges, k + 1, w)
    BY <1>1, <1>3, NextNode
  <2> QED
    BY <1>1, <2>1 DEF w
<1>4. CASE ~(st.index > Len(st.queue)) /\ \E x \in st.left : Uses(N, edges, x, st, w)
  <2>1. PICK x \in st.left : Uses(N, edges, x, st, w)
    BY <1>4
  <2>2. /\ Counted(N, edges, st) /\ Passed(edges, st) /\ Producers(edges, st) /\ Ranked(N, edges, st)
        /\ Advanced(edges, k, st)
    BY DEF Sorting
  <2>3. Counted(N, edges, w)
    BY <1>1, <1>4, <2>1, <2>2, UsedEdge
  <2>4. Passed(edges, w) /\ Producers(edges, w)
    BY <1>1, <1>4, <2>1, <2>2, UsesPasses
  <2>5. Ranked(N, edges, w)
    BY <1>1, <1>4, <2>1, <2>2, UsesRanks
  <2>6. Advanced(edges, k + 1, w)
    BY <1>1, <1>4, <2>1, <2>2, UsesAdvances
  <2> QED
    BY <1>1, <2>3, <2>4, <2>5, <2>6 DEF Sorting, w
<1> QED
  BY <1>1, <1>2, <1>3, <1>4

\* The body, the degrees and the start of the algorithm.
KahnBody(N, edges) == [st \in KahnStates(N, edges) |-> KahnStep(edges, st)]
Degrees(N, edges) == [n \in N |-> Cardinality({k \in DOMAIN edges : edges[k].target = n})]
KahnStart(order, edges) ==
    [rank |-> [n \in ToSet(order) |-> 0], indegree |-> Degrees(ToSet(order), edges),
     queue |-> Filter(order, {n \in ToSet(order) : Degrees(ToSet(order), edges)[n] = 0}),
     index |-> 1, left |-> DOMAIN edges]

\* It starts with the invariant.
LEMMA KahnStarts ==
    ASSUME NEW X, NEW order \in Seq(X), IsInjective(order), NEW edges, Joins(ToSet(order), edges)
    PROVE  /\ KahnStart(order, edges) \in KahnStates(ToSet(order), edges)
           /\ Sorting(ToSet(order), edges, 0, KahnStart(order, edges))
<1> DEFINE N == ToSet(order)
           D == DOMAIN edges
           I(n) == Into(edges, D, n)
           deg == Degrees(N, edges)
           q == Filter(order, {n \in N : deg[n] = 0})
           r == [n \in N |-> 0]
           a == KahnStart(order, edges)
<1>1. order \in Seq(N)
  BY Elements
<1> HIDE DEF N
<1>2. \A n \in N : deg[n] = Cardinality(I(n)) /\ IsFiniteSet(I(n))
  <2> TAKE n \in N
  <2>1. I(n) \subseteq D /\ IsFiniteSet(D)
    BY DEF Into, Joins, N
  <2>2. IsFiniteSet(I(n))
    BY <2>1, FS_Subset
  <2> QED
    BY <2>2 DEF Degrees, Into
<1> HIDE DEF I
<1>3. deg \in [N -> Int] /\ \A n \in N : deg[n] = 0 <=> I(n) = {}
  <2>1. \A n \in N : Cardinality(I(n)) \in Nat /\ (Cardinality(I(n)) = 0 <=> I(n) = {})
    BY <1>2, FS_CardinalityType, FS_EmptySet
  <2>2. deg = [n \in N |-> deg[n]]
    BY DEF Degrees
  <2> HIDE DEF deg
  <2>3. \A n \in N : deg[n] \in Int
    BY <1>2, <2>1
  <2> QED
    BY <1>2, <2>1, <2>2, <2>3
<1> HIDE DEF deg
<1>4. q \in Seq(N) /\ ToSet(q) = {n \in N : I(n) = {}} /\ IsInjective(q)
  <2> DEFINE kept == {n \in N : deg[n] = 0}
  <2>1. kept = {n \in N : I(n) = {}} /\ kept \subseteq N
    BY <1>3
  <2> HIDE DEF kept
  <2>2. Filter(order, kept) \in Seq(N) /\ ToSet(Filter(order, kept)) = N \cap kept /\ IsInjective(Filter(order, kept))
    BY <1>1, FilterElements DEF N
  <2> QED
    BY <2>1, <2>2 DEF kept
<1> HIDE DEF q
<1>5. a = [rank |-> r, indegree |-> deg, queue |-> q, index |-> 1, left |-> D]
  BY DEF KahnStart, deg, q, N
<1>6. r \in [N -> Nat] /\ \A n \in N : r[n] = 0
  OBVIOUS
<1> HIDE DEF r, a
<1>7. a.rank = r /\ a.indegree = deg /\ a.queue = q /\ a.index = 1 /\ a.left = D
  BY <1>5
<1>8. a \in KahnStates(N, edges)
  <2> DEFINE P == SUBSET D
  <2>1. D \in P /\ 1 \in Nat
    OBVIOUS
  <2> HIDE DEF P, D
  <2>2. [rank |-> r, indegree |-> deg, queue |-> q, index |-> 1, left |-> D]
            \in [rank : [N -> Nat], indegree : [N -> Int], queue : Seq(N), index : Nat, left : P]
    BY <1>3, <1>4, <1>6, <2>1
  <2> QED
    BY <1>5, <2>2, Zenon DEF KahnStates, P, D
<1>9. Len(q) \in Nat /\ DOMAIN q = 1..Len(q) /\ D \ a.left = {}
  BY <1>4, <1>7, Elements
<1>10. Counted(N, edges, a)
  BY <1>2, <1>4, <1>7 DEF Counted, I
<1>11. Passed(edges, a)
  <2>1. 1 \in 1..(Len(q) + 1) /\ 1..(1 - 1) = {}
    BY <1>9
  <2> QED
    BY <1>4, <1>7, <1>9, <2>1 DEF Passed
<1>12. Producers(edges, a)
  <2> SUFFICES ASSUME NEW j \in 1..Len(q), NEW k \in D, edges[k].target = q[j] PROVE FALSE
    BY <1>7 DEF Producers
  <2>1. q[j] \in ToSet(q)
    BY <1>9 DEF ToSet
  <2>2. I(q[j]) = {} /\ k \in I(q[j])
    BY <1>4, <2>1 DEF I, Into
  <2> QED
    BY <2>2
<1>13. Ranked(N, edges, a)
  <2>1. \A n : Into(edges, D \ a.left, n) = {}
    BY <1>9 DEF Into
  <2> QED
    BY <1>6, <1>7, <2>1 DEF Ranked
<1>14. Advanced(edges, 0, a)
  <2>1. Cardinality(D \ a.left) = 0
    BY <1>9, FS_EmptySet
  <2> QED
    BY <1>7, <2>1 DEF Advanced
<1> QED
  BY <1>8, <1>10, <1>11, <1>12, <1>13, <1>14 DEF Sorting, N, a

\* The algorithm is a loop.
LEMMA KahnIs ==
    ASSUME NEW order, NEW edges
    PROVE  Kahn(order, edges) = Iterate(KahnBody(ToSet(order), edges), KahnStart(order, edges),
                                        Cardinality(ToSet(order)) + Cardinality(DOMAIN edges))
BY Zenon DEF Kahn, KahnBody, KahnStart, Degrees

\* The algorithm ends with a queue that has no edge left.
LEMMA KahnEnds ==
    ASSUME NEW X, NEW order \in Seq(X), IsInjective(order), NEW edges, Joins(ToSet(order), edges),
           NEW R, R = Kahn(order, edges)
    PROVE  /\ R \in KahnStates(ToSet(order), edges)
           /\ Counted(ToSet(order), edges, R) /\ Passed(edges, R) /\ Producers(edges, R) /\ Ranked(ToSet(order), edges, R)
           /\ \A k \in R.left : edges[k].source \notin ToSet(R.queue)
<1> DEFINE N == ToSet(order)
           D == DOMAIN edges
           S == KahnStates(N, edges)
           h == KahnBody(N, edges)
           a == KahnStart(order, edges)
           K == Cardinality(N) + Cardinality(D)
           Inv == {x \in Nat \X S : Sorting(N, edges, x[1], x[2])}
<1>1. R = Iterate(h, a, K)
  BY KahnIs
<1>2. a \in S /\ Sorting(N, edges, 0, a)
  BY KahnStarts
<1>3. Cardinality(N) \in Nat /\ Cardinality(D) \in Nat /\ K \in Nat
  BY FS_CardinalityType DEF Joins
<1>4. ASSUME NEW st \in S PROVE h[st] = KahnStep(edges, st) /\ h[st] \in S
  <2>1. KahnStep(edges, st) \in S
    BY KahnStepIs
  <2> QED
    BY <2>1 DEF KahnBody
<1>5. h \in [S -> S]
  <2>1. h = [st \in S |-> h[st]]
    BY DEF KahnBody
  <2> HIDE DEF h, S
  <2> QED
    BY <1>4, <2>1
<1>0. Joins(N, edges)
  OBVIOUS
<1> HIDE DEF h, a, K, N, D
<1>6. <<0, a>> \in Inv
  BY <1>2
<1>7. \A k \in 0..(K - 1) : \A st \in S : <<k, st>> \in Inv => <<k + 1, h[st]>> \in Inv
  <2> SUFFICES ASSUME NEW k \in 0..(K - 1), NEW st \in S, <<k, st>> \in Inv PROVE <<k + 1, h[st]>> \in Inv
    OBVIOUS
  <2>1. k \in Nat /\ k + 1 \in Nat
    BY <1>3
  <2>2. Sorting(N, edges, k, st)
    OBVIOUS
  <2>3. Sorting(N, edges, k + 1, h[st]) /\ h[st] \in S
    BY <1>0, <1>4, <2>1, <2>2, KahnKept
  <2> HIDE DEF S
  <2> QED
    BY <2>1, <2>3
<1> HIDE DEF S
<1>8. R \in S /\ <<K, R>> \in Inv
  <2> HIDE DEF Inv
  <2> QED
    BY <1>1, <1>2, <1>3, <1>5, <1>6, <1>7, LoopInvariant
<1>9. Sorting(N, edges, K, R)
  BY <1>8
<1> HIDE DEF Inv
<1>10. /\ R.queue \in Seq(N) /\ R.index \in Nat /\ R.left \in SUBSET D /\ Len(R.queue) \in Nat
       /\ DOMAIN R.queue = 1..Len(R.queue) /\ ToSet(R.queue) \subseteq N
  BY <1>8, StateFields DEF S, D
<1>11. /\ IsInjective(R.queue) /\ R.index \in 1..(Len(R.queue) + 1)
       /\ \A k \in R.left : \A j \in 1..(R.index - 1) : R.queue[j] # edges[k].source
  BY <1>9 DEF Sorting, Passed
<1>12. R.index = Len(R.queue) + 1
  <2> DEFINE l == Len(R.queue)
             i == R.index
             u == Cardinality(D \ R.left)
  <2>1. l <= Cardinality(N)
    <3>1. l = Cardinality(ToSet(R.queue))
      BY <1>10, <1>11, LengthOfSet
    <3>2. IsFiniteSet(N)
      BY <1>0 DEF Joins
    <3> QED
      BY <1>10, <3>1, <3>2, FS_Subset
  <2>2. u <= Cardinality(D) /\ u \in Nat
    <3>1. IsFiniteSet(D) /\ D \ R.left \subseteq D
      BY <1>0 DEF Joins, D
    <3> QED
      BY <3>1, FS_Subset, FS_CardinalityType
  <2>3. i > l \/ (i - 1) + u >= Cardinality(N) + Cardinality(D)
    BY <1>9 DEF Sorting, Advanced, K, D
  <2>4. l \in Nat /\ i \in 1..(l + 1)
    BY <1>10, <1>11
  <2> HIDE DEF l, i, u
  <2>5. i = l + 1
    BY <1>3, <2>1, <2>2, <2>3, <2>4
  <2> QED
    BY <2>5 DEF l, i
<1>13. ASSUME NEW k \in R.left PROVE edges[k].source \notin ToSet(R.queue)
  <2> SUFFICES ASSUME edges[k].source \in ToSet(R.queue) PROVE FALSE
    OBVIOUS
  <2>1. PICK j \in 1..Len(R.queue) : R.queue[j] = edges[k].source
    BY <1>10, InToSet
  <2>2. j \in 1..(R.index - 1)
    BY <1>10, <1>12
  <2> QED
    BY <1>11, <2>1, <2>2
<1> QED
  BY <1>8, <1>9, <1>13 DEF Sorting, S, N

-----------------------------------------------------------------------------
(* Layout and order of steps *)

\* Each node that the queue does not reach is fed by another one.
LEMMA CycleHolds ==
    ASSUME NEW X, NEW order \in Seq(X), IsInjective(order), NEW edges, Joins(ToSet(order), edges),
           NEW R, R = Kahn(order, edges), NEW m \in ToSet(order) \ ToSet(R.queue)
    PROVE  \E k \in DOMAIN edges : edges[k].target = m /\ edges[k].source \in ToSet(order) \ ToSet(R.queue)
<1>1. /\ R \in KahnStates(ToSet(order), edges) /\ Counted(ToSet(order), edges, R)
      /\ \A k \in R.left : edges[k].source \notin ToSet(R.queue)
  BY KahnEnds
<1>2. R.left \subseteq DOMAIN edges
  BY <1>1, StateFields
<1>3. Into(edges, R.left, m) # {}
  BY <1>1 DEF Counted
<1>4. PICK k \in R.left : edges[k].target = m
  BY <1>3 DEF Into
<1>5. edges[k].source \in ToSet(order)
  BY <1>2 DEF Joins
<1> QED
  BY <1>1, <1>2, <1>4, <1>5

\* The layout puts the nodes in the columns of their longest paths.
LEMMA LayoutIsLayered ==
    ASSUME NEW g, IsGraph(g)
    PROVE  Layered(g, rank(g))
<1> DEFINE order == SetToSeq(g.nodes)
           E == g.edges
           D == DOMAIN g.edges
           R == Kahn(order, E)
           q == R.queue
           N == g.nodes
           col == rank(g)
<1>1. IsFiniteSet(N) /\ order \in Seq(N) /\ ToSet(order) = N /\ IsInjective(order)
  BY SetToSeqElements DEF IsGraph
<1>2. IsFiniteSet(D) /\ D \in SUBSET Nat
  <2>1. PICK b \in Nat : \A k \in D : k <= b
    BY DEF IsGraph
  <2>2. D \in SUBSET Nat
    BY DEF IsGraph
  <2>3. D \subseteq 0..b
    BY <2>1, <2>2
  <2>4. IsFiniteSet(0..b)
    BY FS_Interval
  <2> QED
    BY <2>2, <2>3, <2>4, FS_Subset
<1>3. Joins(N, E)
  BY <1>1, <1>2 DEF IsGraph, Joins
<1>4. col = R.rank
  BY DEF rank
<1>5. \A e : e \in Links(g) <=> \E k \in D : E[k] = e
  BY DEF Links, ToSet
<1> HIDE DEF order, E, D, N, R, q
<1>6. /\ R \in KahnStates(N, E)
      /\ Counted(N, E, R) /\ Passed(E, R) /\ Producers(E, R) /\ Ranked(N, E, R)
      /\ \A k \in R.left : E[k].source \notin ToSet(q)
  BY <1>1, <1>3, KahnEnds DEF R, q
<1>7. R.rank \in [N -> Nat] /\ R.left \in SUBSET DOMAIN E
  BY <1>6, StateFields
<1>8. DOMAIN E = D
  BY DEF E, D
<1>9. Settled(g) \subseteq ToSet(q) \cap N
  <2> SUFFICES ASSUME NEW n \in N, n \notin ToSet(q)
               PROVE  \E S \in SUBSET N : n \in S /\ \A m \in S : \E e \in Links(g) : e.target = m /\ e.source \in S
    BY DEF Settled, N
  <2> DEFINE S == N \ ToSet(q)
  <2>1. ASSUME NEW m \in S PROVE \E e \in Links(g) : e.target = m /\ e.source \in S
    <3>1. PICK k \in DOMAIN E : E[k].target = m /\ E[k].source \in S
      BY <1>1, <1>3, CycleHolds DEF R, q
    <3>2. E[k] \in Links(g)
      BY <1>5, <1>8
    <3> QED
      BY <3>1, <3>2
  <2>2. S \in SUBSET N /\ n \in S
    OBVIOUS
  <2> HIDE DEF S
  <2> QED
    BY <2>1, <2>2
<1> SUFFICES ASSUME NEW n \in Settled(g)
             PROVE  /\ col[n] = Max({0} \cup {col[e.source] + 1 : e \in {d \in Links(g) : d.target = n}})
                    /\ \A e \in Links(g) : e.source = n => col[n] < col[e.target]
  BY DEF Layered
<1>10. n \in ToSet(q) /\ n \in N
  BY <1>9
<1>11. \A k \in D : E[k].source \in N /\ E[k].target \in N
  BY <1>3, <1>8 DEF Joins
<1> HIDE DEF col
<1>12. ASSUME NEW k \in D, E[k].target = n PROVE col[E[k].source] + 1 <= col[n]
  <2>1. Into(E, R.left, n) = {}
    BY <1>6, <1>10 DEF Counted, q
  <2>2. k \in Into(E, DOMAIN E \ R.left, n)
    BY <1>8, <1>12, <2>1 DEF Into
  <2> QED
    BY <1>4, <1>6, <1>10, <2>2 DEF Ranked
<1>13. col[n] = 0 \/ \E k \in D : E[k].target = n /\ col[n] = col[E[k].source] + 1
  <2>1. col[n] = 0 \/ \E k \in Into(E, DOMAIN E \ R.left, n) : col[n] = col[E[k].source] + 1
    BY <1>4, <1>6, <1>10 DEF Ranked
  <2> QED
    BY <1>8, <2>1 DEF Into
<1>14. ASSUME NEW k \in D, E[k].source = n PROVE col[n] < col[E[k].target]
  <2> DEFINE t == E[k].target
  <2>1. k \notin R.left /\ t \in N
    BY <1>6, <1>10, <1>11, <1>14
  <2>2. k \in Into(E, DOMAIN E \ R.left, t)
    BY <1>8, <2>1 DEF Into
  <2>3. col[E[k].source] + 1 <= col[t]
    BY <1>4, <1>6, <2>1, <2>2 DEF Ranked
  <2> HIDE DEF t
  <2>4. col[n] \in Nat /\ col[t] \in Nat /\ col[n] + 1 <= col[t]
    BY <1>4, <1>7, <1>10, <1>14, <2>1, <2>3
  <2>5. col[n] < col[t]
    BY <2>4
  <2> QED
    BY <2>5 DEF t
<1> DEFINE S == {0} \cup {col[e.source] + 1 : e \in {d \in Links(g) : d.target = n}}
           v == col[n]
<1>15. v = Max(S)
  <2>1. S \in SUBSET Nat
    <3>1. \A e \in Links(g) : col[e.source] + 1 \in Nat
      <4> TAKE e \in Links(g)
      <4>1. e.source \in N
        BY <1>5, <1>11
      <4>2. col[e.source] \in Nat
        BY <1>4, <1>7, <4>1
      <4> QED
        BY <4>2
    <3> QED
      BY <3>1
  <2>2. v \in S
    <3>1. CASE v = 0
      BY <3>1
    <3>2. CASE v # 0
      <4>1. PICK k \in D : E[k].target = n /\ v = col[E[k].source] + 1
        BY <1>13, <3>2
      <4>2. E[k] \in {d \in Links(g) : d.target = n}
        BY <1>5, <4>1
      <4> QED
        BY <4>1, <4>2
    <3> QED
      BY <3>1, <3>2
  <2>3. \A y \in S : y <= v
    <3> TAKE y \in S
    <3>1. CASE y = 0
      <4>1. v \in Nat
        BY <1>4, <1>7, <1>10
      <4> QED
        BY <3>1, <4>1
    <3>2. CASE y # 0
      <4>1. PICK e \in Links(g) : e.target = n /\ y = col[e.source] + 1
        BY <3>2
      <4>2. PICK k \in D : E[k] = e
        BY <1>5
      <4> QED
        BY <1>12, <4>1, <4>2
    <3> QED
      BY <3>1, <3>2
  <2> HIDE DEF S, v
  <2> QED
    BY <2>1, <2>2, <2>3, MaxIs
<1>16. ASSUME NEW e \in Links(g), e.source = n PROVE col[n] < col[e.target]
  <2>1. PICK k \in D : E[k] = e
    BY <1>5
  <2> QED
    BY <1>14, <1>16, <2>1
<1> QED
  BY <1>15, <1>16

\* The ids, edges and queue of the order of the steps of a run.
Ids(def) == [k \in DOMAIN def.nodes |-> def.nodes[k].id]
Inner(def) == {k \in DOMAIN def.edges : {def.edges[k][1], def.edges[k][2]} \subseteq ToSet(Ids(def))}
StepEdges(def) == [k \in Inner(def) |-> Edge(def.edges[k][1], def.edges[k][2])]
StepQueue(def) == Kahn(Ids(def), StepEdges(def)).queue

\* orderSteps in these terms.
LEMMA OrderStepsIs ==
    ASSUME NEW def
    PROVE  orderSteps(def) = StepQueue(def) \o Filter(Ids(def), ToSet(Ids(def)) \ ToSet(StepQueue(def)))
BY Zenon DEF orderSteps, StepQueue, StepEdges, Inner, Ids

\* Those of a published definition.
LEMMA StepParts ==
    ASSUME NEW def, IsPublished(def)
    PROVE  /\ Ids(def) \in Seq(ToSet(Ids(def))) /\ IsInjective(Ids(def)) /\ Len(Ids(def)) = Len(def.nodes)
           /\ ToSet(Ids(def)) = {n.id : n \in ToSet(def.nodes)}
           /\ ToSet(Ids(def)) = {def.nodes[k].id : k \in DOMAIN def.nodes}
           /\ Joins(ToSet(Ids(def)), StepEdges(def))
           /\ DOMAIN StepEdges(def) = DOMAIN def.edges
           /\ \A k \in DOMAIN def.edges : /\ StepEdges(def)[k].source = def.edges[k][1]
                                          /\ StepEdges(def)[k].target = def.edges[k][2]
                                          /\ def.edges[k] = <<def.edges[k][1], def.edges[k][2]>>
<1> DEFINE nodes == def.nodes
           edges == def.edges
           ids == Ids(def)
           N == ToSet(ids)
           l == Len(nodes)
           E == StepEdges(def)
<1>1. /\ nodes \in Seq(ToSet(nodes)) /\ edges \in Seq({nodes[k].id : k \in DOMAIN nodes} \X {nodes[k].id : k \in DOMAIN nodes})
      /\ \A j, k \in DOMAIN nodes : nodes[j].id = nodes[k].id => j = k
  BY DEF IsPublished
<1>2. l \in Nat /\ DOMAIN nodes = 1..l
  BY <1>1, Elements
<1>3. ids = [k \in DOMAIN nodes |-> nodes[k].id]
  BY DEF Ids
<1>4. N = {nodes[k].id : k \in DOMAIN nodes}
  BY <1>3 DEF ToSet
<1>5. N = {n.id : n \in ToSet(nodes)}
  BY <1>4 DEF ToSet
<1>6. IsInjective(ids)
  BY <1>1, <1>3 DEF IsInjective
<1>7. /\ Len(edges) \in Nat /\ DOMAIN edges = 1..Len(edges)
      /\ \A k \in DOMAIN edges : edges[k] \in N \X N
  <2> DEFINE P == N \X N
  <2>1. edges \in Seq(P)
    BY <1>1, <1>4
  <2> HIDE DEF P, N, edges
  <2>2. Len(edges) \in Nat /\ DOMAIN edges = 1..Len(edges) /\ edges \in [1..Len(edges) -> P]
    BY <2>1, Elements
  <2> QED
    BY <2>2 DEF P
<1> HIDE DEF nodes, edges, ids
<1>8. ids \in Seq(N) /\ Len(ids) = l
  <2>1. \A k \in 1..l : ids[k] \in N
    BY <1>2, <1>3, <1>4
  <2>2. ids = [k \in 1..l |-> ids[k]]
    BY <1>2, <1>3
  <2> HIDE DEF N, l
  <2>3. ids \in Seq(N)
    BY <1>2, <2>1, <2>2, IsASeq
  <2>4. DOMAIN ids = 1..Len(ids) /\ Len(ids) \in Nat /\ DOMAIN ids = 1..l
    BY <2>2, <2>3, Elements
  <2>5. Len(ids) = l
    BY <1>2, <2>4, SameLength
  <2> QED
    BY <2>3, <2>5
<1>9. IsFiniteSet(N)
  BY <1>8, Elements
<1> HIDE DEF N, l
<1>10. \A k \in DOMAIN edges : /\ edges[k][1] \in N /\ edges[k][2] \in N
                               /\ edges[k] = <<edges[k][1], edges[k][2]>>
  BY <1>7
<1>11. Inner(def) = DOMAIN edges
  BY <1>10 DEF Inner, edges, N, ids
<1>12. E = [k \in DOMAIN edges |-> Edge(edges[k][1], edges[k][2])]
  BY <1>11 DEF StepEdges, edges
<1> HIDE DEF E
<1>13. DOMAIN E = DOMAIN edges /\ \A k \in DOMAIN edges : E[k].source = edges[k][1] /\ E[k].target = edges[k][2]
  BY <1>12 DEF Edge
<1>14. Joins(N, E)
  <2> DEFINE n == Len(edges)
  <2>2. n \in Nat
    BY <1>7
  <2> HIDE DEF n
  <2>3. IsFiniteSet(1..n) /\ 1..n \in SUBSET Nat
    BY <2>2, FS_Interval
  <2>1. IsFiniteSet(DOMAIN E) /\ DOMAIN E \in SUBSET Nat
    BY <1>7, <1>13, <2>3 DEF n
  <2> QED
    BY <1>7, <1>9, <1>10, <1>13, <2>1 DEF Joins
<1> QED
  BY <1>4, <1>5, <1>6, <1>8, <1>10, <1>13, <1>14 DEF nodes, edges, ids, N, l, E

\* The steps of a run come producers first.
LEMMA StepsInOrder ==
    ASSUME NEW def, IsPublished(def)
    PROVE  InOrder(def, orderSteps(def))
<1> DEFINE ids == Ids(def)
           N == ToSet(ids)
           E == StepEdges(def)
           R == Kahn(ids, E)
           q == StepQueue(def)
           rest == Filter(ids, N \ ToSet(q))
<1>1. /\ ids \in Seq(N) /\ IsInjective(ids) /\ Len(ids) = Len(def.nodes)
      /\ N = {n.id : n \in ToSet(def.nodes)}
      /\ N = {def.nodes[k].id : k \in DOMAIN def.nodes}
      /\ Joins(N, E) /\ DOMAIN E = DOMAIN def.edges
      /\ \A k \in DOMAIN def.edges : /\ E[k].source = def.edges[k][1] /\ E[k].target = def.edges[k][2]
                                     /\ def.edges[k] = <<def.edges[k][1], def.edges[k][2]>>
  BY StepParts
<1>2. q = R.queue
  BY DEF StepQueue
<1>3. orderSteps(def) = q \o rest
  BY OrderStepsIs
<1>4. \A S \in SUBSET N : S # {} =>
          \E m \in S : \A k \in DOMAIN def.edges : def.edges[k][2] = m => def.edges[k][1] \notin S
  BY <1>1 DEF IsPublished
<1> HIDE DEF ids, E, q, R
<1>5. R \in KahnStates(N, E) /\ Passed(E, R) /\ Producers(E, R)
  BY <1>1, KahnEnds DEF R
<1>6. /\ q \in Seq(N) /\ ToSet(q) \subseteq N /\ IsInjective(q) /\ Len(q) \in Nat /\ DOMAIN q = 1..Len(q)
      /\ \A j \in 1..Len(q) : \A k \in DOMAIN E : E[k].target = q[j] => \E h \in 1..(j - 1) : q[h] = E[k].source
  <2>1. q \in Seq(N) /\ ToSet(q) \subseteq N /\ Len(q) \in Nat /\ DOMAIN q = 1..Len(q)
    BY <1>2, <1>5, StateFields
  <2> QED
    BY <1>2, <1>5, <2>1 DEF Passed, Producers
<1>7. ToSet(q) = N
  <2> DEFINE S == N \ ToSet(q)
  <2>1. ASSUME NEW m \in S PROVE \E k \in DOMAIN E : E[k].target = m /\ E[k].source \in S
    <3>1. S = ToSet(ids) \ ToSet(R.queue)
      BY <1>2
    <3>2. ids \in Seq(N) /\ IsInjective(ids) /\ Joins(ToSet(ids), E) /\ R = Kahn(ids, E)
      BY <1>1 DEF R
    <3> HIDE DEF S, N
    <3>3. m \in ToSet(ids) \ ToSet(R.queue)
      BY <3>1
    <3>4. \E k \in DOMAIN E : E[k].target = m /\ E[k].source \in ToSet(ids) \ ToSet(R.queue)
      BY <3>2, <3>3, CycleHolds
    <3> QED
      BY <3>1, <3>4
  <2>2. S = {}
    <3> SUFFICES ASSUME S # {} PROVE FALSE
      OBVIOUS
    <3>0. S \in SUBSET N
      OBVIOUS
    <3> HIDE DEF S
    <3>1. PICK m \in S : \A k \in DOMAIN def.edges : def.edges[k][2] = m => def.edges[k][1] \notin S
      BY <1>4, <3>0
    <3>2. PICK k \in DOMAIN E : E[k].target = m /\ E[k].source \in S
      BY <2>1
    <3> QED
      BY <1>1, <3>1, <3>2
  <2> QED
    BY <1>6, <2>2
<1>8. rest = <<>>
  <2>1. rest \in Seq(N) /\ ToSet(rest) = {}
    BY <1>1, <1>7, FilterElements
  <2> HIDE DEF rest
  <2>2. Len(rest) \in Nat /\ DOMAIN rest = 1..Len(rest)
    BY <2>1, Elements
  <2>3. DOMAIN rest = {}
    BY <2>1 DEF ToSet
  <2>4. Len(rest) = 0
    BY <2>2, <2>3
  <2> QED
    BY <2>1, <2>4, EmptySeq
<1>9. orderSteps(def) = q
  <2> HIDE DEF rest
  <2>1. q \o <<>> = q
    BY <1>6
  <2> QED
    BY <1>3, <1>8, <2>1
<1>10. Len(q) = Len(def.nodes)
  <2>1. Len(q) = Cardinality(ToSet(q)) /\ Len(ids) = Cardinality(ToSet(ids))
    BY <1>1, <1>6, LengthOfSet
  <2> QED
    BY <1>1, <1>7, <2>1
<1>11. ASSUME NEW i \in DOMAIN q, NEW j \in DOMAIN q, <<q[i], q[j]>> \in ToSet(def.edges)
       PROVE  i < j
  <2>1. PICK k \in DOMAIN def.edges : def.edges[k] = <<q[i], q[j]>>
    BY <1>11 DEF ToSet
  <2>2. E[k].source = q[i] /\ E[k].target = q[j]
    BY <1>1, <2>1
  <2>3. PICK h \in 1..(j - 1) : q[h] = q[i]
    BY <1>1, <1>6, <2>2
  <2>4. h \in DOMAIN q /\ h < j
    BY <1>6
  <2>5. h = i
    BY <1>6, <2>3, <2>4 DEF IsInjective
  <2> QED
    BY <2>4, <2>5
<1> QED
  BY <1>1, <1>7, <1>9, <1>10, <1>11 DEF InOrder

\* The invariant of the page is enough for the layout and the order.
LEMMA PageFlowsRight ==
    PageInv => DataFlowsRight
<1> SUFFICES ASSUME PageInv PROVE Laid(filteredGraph) /\ \A i \in listed : InOrder(versions[i], orderSteps(versions[i]))
  BY DEF DataFlowsRight
<1>1. IsGraph(filteredGraph) /\ Rows(versions, listed)
  BY PageGraphs
<1>2. Laid(filteredGraph)
  BY <1>1, LayoutIsLayered DEF Laid
<1>3. ASSUME NEW i \in listed PROVE InOrder(versions[i], orderSteps(versions[i]))
  <2>1. IsPublished(versions[i])
    BY <1>1 DEF Rows
  <2> QED
    BY <2>1, StepsInOrder
<1> QED
  BY <1>2, <1>3

\* For every workspace and filter: the layout puts a node that no cycle comes
\* before in the column of its longest path, left of all it feeds, and
\* orderSteps lists all steps of a published version, each once, producers
\* first.
THEOREM DataAlwaysFlowsRight == Spec => []DataFlowsRight
BY PageHolds, PageFlowsRight, PTL
=============================================================================
