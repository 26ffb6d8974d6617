---------------------------- MODULE SampleLemmas ----------------------------
(***************************************************************************)
(* Facts about lists and sums, and what the definitions of module Guard    *)
(* guarantee for every list of samples.  No program step is involved:      *)
(* GuardProofs, CollectorProofs and ResourceProofs cite these facts.       *)
(***************************************************************************)
EXTENDS Guard, SequencesExt, FiniteSetTheorems, WellFoundedInduction, TLAPS

(* A non-empty set of indices has a least element. *)
LEMMA IntervalMin ==
  ASSUME NEW n \in Nat, NEW J \in SUBSET (1..n), J # {}
  PROVE  \E j \in J : \A k \in J : j <= k
<1> DEFINE R == StrictSubsetOrdering(1..n)
           T == {1..j : j \in J}
<1>1. IsWellFoundedOn(R, SUBSET (1..n))
  <2>1. IsFiniteSet(1..n) BY FS_Interval
  <2>2. FiniteSubsetsOf(1..n) = SUBSET (1..n) BY <2>1, FS_FiniteSubsetsOfFinite
  <2> QED BY <2>2, FS_StrictSubsetOrderingWellFounded
<1>2. T \subseteq SUBSET (1..n)
  <2> SUFFICES ASSUME NEW j \in J PROVE 1..j \subseteq 1..n
    OBVIOUS
  <2> QED OBVIOUS
<1>3. T # {}
  OBVIOUS
<1>4. \E x \in T : \A y \in T : ~ (<<y, x>> \in R)
  <2> HIDE DEF R, T
  <2> QED BY <1>1, <1>2, <1>3, WFMin
<1>5. PICK j \in J : \A k \in J : ~ (<<1..k, 1..j>> \in R)
  BY <1>4
<1>6. ASSUME NEW k \in J, k < j PROVE FALSE
  <2>1. 1..k \subseteq 1..j /\ 1..k # 1..j
    <3>1. j \in 1..j /\ j \notin 1..k BY <1>6
    <3> QED BY <1>6, <3>1
  <2>2. 1..k \in SUBSET (1..n) /\ 1..j \in SUBSET (1..n)
    BY <1>2
  <2> DEFINE p == <<1..k, 1..j>>
  <2>3. /\ p \in (SUBSET (1..n)) \X (SUBSET (1..n))
        /\ p[1] \subseteq p[2] /\ p[1] # p[2]
    BY <2>1, <2>2
  <2>4. p \in R
    <3> HIDE DEF p
    <3> QED BY <2>3 DEF StrictSubsetOrdering
  <2> QED BY <1>5, <2>4
<1> QED BY <1>6

(* Induction, for a set of numbers in place of a predicate. *)
LEMMA IntervalInduction ==
  ASSUME NEW n \in Nat, NEW D, 0 \in D, \A k \in 0..(n - 1) : k \in D => k + 1 \in D
  PROVE  \A k \in 0..n : k \in D
<1> DEFINE J == {k \in 1..n : k \notin D}
<1>1. ASSUME J # {} PROVE FALSE
  <2>1. PICK j \in J : \A k \in J : j <= k
    <3>1. J \in SUBSET (1..n)
      OBVIOUS
    <3> HIDE DEF J
    <3> QED BY <1>1, <3>1, IntervalMin
  <2>2. j - 1 \in 0..(n - 1) /\ j - 1 + 1 = j
    OBVIOUS
  <2>3. j - 1 \in D
    BY <2>1, <2>2
  <2> QED BY <2>2, <2>3
<1> QED BY <1>1

-----------------------------------------------------------------------------
(* FlattenSeq, the concatenation of a sequence of sequences. *)

(* Its recursive definition has a solution, for every length. *)
LEMMA FlattenUnfolds ==
  ASSUME NEW q, Len(q) \in Nat \ {0}
  PROVE  \E f : /\ f = [i \in 1..Len(q) |-> IF i = 1 THEN q[i] ELSE f[i - 1] \o q[i]]
                /\ FlattenSeq(q) = f[Len(q)]
<1> DEFINE n == Len(q)
           IsFlat(f, k) == f = [i \in 1..k |-> IF i = 1 THEN q[i] ELSE f[i - 1] \o q[i]]
           D == {k \in 0..n : \E f : IsFlat(f, k)}
<1>1. 0 \in D
  <2> DEFINE f == [i \in 1..0 |-> q[i]]
  <2>1. f = [i \in 1..0 |-> IF i = 1 THEN q[i] ELSE f[i - 1] \o q[i]]
    OBVIOUS
  <2>2. IsFlat(f, 0)
    BY <2>1
  <2> HIDE DEF IsFlat, f
  <2> QED BY <2>2
<1>2. ASSUME NEW k \in 0..(n - 1), k \in D PROVE k + 1 \in D
  <2>1. PICK f : IsFlat(f, k)
    BY <1>2
  <2> DEFINE e(h, i) == IF i = 1 THEN q[i] ELSE h[i - 1] \o q[i]
             g == [i \in 1..(k + 1) |-> IF i <= k THEN f[i] ELSE e(f, i)]
  <2>2. \A i \in 1..k : f[i] = e(f, i)
    BY <2>1
  <2>3. \A i \in 1..k : g[i] = f[i]
    BY <1>2
  <2>4. \A i \in 1..(k + 1) : e(g, i) = e(f, i)
    <3> SUFFICES ASSUME NEW i \in 1..(k + 1), i # 1 PROVE g[i - 1] = f[i - 1]
      BY DEF e
    <3>1. i - 1 \in 1..k
      BY <1>2
    <3> HIDE DEF g
    <3> QED BY <2>3, <3>1
  <2>5. g = [i \in 1..(k + 1) |-> e(f, i)]
    <3>1. \A i \in 1..(k + 1) : (IF i <= k THEN f[i] ELSE e(f, i)) = e(f, i)
      <4> HIDE DEF e
      <4> QED BY <1>2, <2>2
    <3> HIDE DEF e
    <3> QED BY <3>1, Zenon
  <2>6. g = [i \in 1..(k + 1) |-> e(g, i)]
    <3> HIDE DEF g, e
    <3> QED BY <2>4, <2>5
  <2> HIDE DEF g
  <2>7. IsFlat(g, k + 1)
    BY <2>6
  <2>8. k + 1 \in 0..n
    BY <1>2
  <2> HIDE DEF IsFlat
  <2> QED BY <2>7, <2>8
<1>3. n \in D
  <2>1. \A k \in 0..n : k \in D
    <3> HIDE DEF D
    <3> QED BY <1>1, <1>2, IntervalInduction
  <2>2. n \in 0..n
    OBVIOUS
  <2> HIDE DEF D, n
  <2> QED BY <2>1, <2>2
<1>4. \E f : IsFlat(f, n)
  BY <1>3
<1>5. IsFlat(CHOOSE f : IsFlat(f, n), n)
  <2> HIDE DEF IsFlat
  <2> QED BY <1>4
<1>6. FlattenSeq(q) = (CHOOSE f : IsFlat(f, n))[n]
  BY DEF FlattenSeq
<1> QED BY <1>5, <1>6

(* The first k elements of a sequence. *)
Prefix(g, k) == [i \in 1..k |-> g[i]]

LEMMA FlattenEmpty == \A g : FlattenSeq(Prefix(g, 0)) = <<>>
<1> TAKE g
<1>1. Prefix(g, 0) = <<>>
  BY DEF Prefix
<1>2. Len(<<>>) = 0
  OBVIOUS
<1> QED BY <1>1, <1>2 DEF FlattenSeq

(* One more sequence is appended to the result. *)
LEMMA FlattenAppends ==
  ASSUME NEW T, NEW n \in Nat, NEW g \in [1..n -> Seq(T)], NEW k \in 0..(n - 1)
  PROVE  FlattenSeq(Prefix(g, k + 1)) = FlattenSeq(Prefix(g, k)) \o g[k + 1]
<1> DEFINE e(f, i) == IF i = 1 THEN g[i] ELSE f[i - 1] \o g[i]
<1>1. ASSUME NEW m \in 1..n
      PROVE  \E f : (\A i \in 1..m : f[i] = e(f, i)) /\ FlattenSeq(Prefix(g, m)) = f[m]
  <2> DEFINE q == Prefix(g, m)
  <2>1. q \in Seq(Seq(T)) /\ Len(q) = m /\ \A i \in 1..m : q[i] = g[i]
    BY DEF Prefix
  <2> HIDE DEF q
  <2>2. Len(q) \in Nat \ {0}
    BY <2>1
  <2>3. PICK f : /\ f = [i \in 1..Len(q) |-> IF i = 1 THEN q[i] ELSE f[i - 1] \o q[i]]
                 /\ FlattenSeq(q) = f[Len(q)]
    BY <2>2, FlattenUnfolds, Zenon
  <2>4. \A i \in 1..m : f[i] = e(f, i)
    BY <2>1, <2>3
  <2> QED BY <2>1, <2>3, <2>4 DEF q
<1>2. PICK h : /\ \A i \in 1..(k + 1) : h[i] = e(h, i)
               /\ FlattenSeq(Prefix(g, k + 1)) = h[k + 1]
  <2>1. k + 1 \in 1..n
    OBVIOUS
  <2> HIDE DEF e
  <2> QED BY <1>1, <2>1
<1>3. CASE k = 0
  <2>1. h[1] = g[1]
    BY <1>2, <1>3
  <2>2. g[1] \in Seq(T)
    BY <1>3
  <2>3. <<>> \o g[1] = g[1]
    BY <2>2
  <2>4. FlattenSeq(Prefix(g, 0)) = <<>>
    BY FlattenEmpty
  <2> QED BY <1>2, <1>3, <2>1, <2>3, <2>4
<1>4. CASE k # 0
  <2>1. PICK f : (\A i \in 1..k : f[i] = e(f, i)) /\ FlattenSeq(Prefix(g, k)) = f[k]
    <3>1. k \in 1..n
      BY <1>4
    <3> HIDE DEF e
    <3> QED BY <1>1, <3>1
  <2> DEFINE D == {m \in 0..k : m = 0 \/ f[m] = h[m]}
  <2>2. ASSUME NEW m \in 0..(k - 1), m \in D PROVE m + 1 \in D
    <3>1. m + 1 \in 1..k /\ m + 1 \in 1..(k + 1) /\ m + 1 - 1 = m
      BY <1>4
    <3>2. f[m + 1] = e(f, m + 1) /\ h[m + 1] = e(h, m + 1)
      <4> HIDE DEF e
      <4> QED BY <1>2, <2>1, <3>1
    <3>3. e(f, m + 1) = e(h, m + 1)
      BY <2>2, <3>1
    <3> QED BY <3>1, <3>2, <3>3
  <2>3. \A m \in 0..k : m \in D
    <3>1. 0 \in D /\ k \in Nat
      OBVIOUS
    <3> HIDE DEF D
    <3> QED BY <2>2, <3>1, IntervalInduction
  <2>4. f[k] = h[k]
    BY <1>4, <2>3
  <2>5. h[k + 1] = h[k] \o g[k + 1]
    <3> DEFINE j == k + 1
    <3>1. j \in 1..(k + 1) /\ j # 1 /\ j - 1 = k
      BY <1>4
    <3> HIDE DEF j
    <3>2. h[j] = e(h, j)
      <4> HIDE DEF e
      <4> QED BY <1>2, <3>1
    <3>3. h[j] = h[k] \o g[j]
      BY <3>1, <3>2
    <3> QED BY <3>3 DEF j
  <2> QED BY <1>2, <2>1, <2>4, <2>5
<1> QED BY <1>3, <1>4

LEMMA FlattenType ==
  ASSUME NEW T, NEW n \in Nat, NEW g \in [1..n -> Seq(T)]
  PROVE  \A k \in 0..n : FlattenSeq(Prefix(g, k)) \in Seq(T)
<1> DEFINE D == {k \in 0..n : FlattenSeq(Prefix(g, k)) \in Seq(T)}
<1>1. 0 \in D
  <2>1. <<>> \in Seq(T) /\ 0 \in 0..n
    OBVIOUS
  <2> QED BY <2>1, FlattenEmpty
<1>2. ASSUME NEW k \in 0..(n - 1), k \in D PROVE k + 1 \in D
  <2>1. FlattenSeq(Prefix(g, k + 1)) = FlattenSeq(Prefix(g, k)) \o g[k + 1]
    BY FlattenAppends
  <2>2. g[k + 1] \in Seq(T) /\ k + 1 \in 0..n
    <3>1. k + 1 \in 1..n /\ k + 1 \in 0..n
      OBVIOUS
    <3> QED BY <3>1
  <2>3. FlattenSeq(Prefix(g, k)) \in Seq(T)
    BY <1>2
  <2>4. FlattenSeq(Prefix(g, k)) \o g[k + 1] \in Seq(T)
    BY <2>2, <2>3
  <2> QED BY <2>1, <2>2, <2>4
<1>3. \A k \in 0..n : k \in D
  <2> HIDE DEF D
  <2> QED BY <1>1, <1>2, IntervalInduction
<1> QED BY <1>3

LEMMA ConcatRange ==
  ASSUME NEW T, NEW p \in Seq(T), NEW t \in Seq(T)
  PROVE  ToSet(p \o t) = ToSet(p) \cup ToSet(t)
<1> DEFINE m == Len(p)
           n == Len(t)
<1>1. /\ m \in Nat /\ n \in Nat /\ DOMAIN p = 1..m /\ DOMAIN t = 1..n
      /\ DOMAIN (p \o t) = 1..(m + n)
      /\ \A i \in 1..(m + n) : (p \o t)[i] = IF i <= m THEN p[i] ELSE t[i - m]
  OBVIOUS
<1> DEFINE r == p \o t
<1> HIDE DEF m, n, r
<1>2. ASSUME NEW x \in ToSet(r) PROVE x \in ToSet(p) \cup ToSet(t)
  <2>1. PICK i \in 1..(m + n) : x = r[i]
    BY <1>1 DEF ToSet, r
  <2>2. i <= m \/ i - m \in 1..n
    BY <1>1
  <2> QED BY <1>1, <2>1, <2>2 DEF ToSet, r
<1>3. ASSUME NEW x \in ToSet(p) PROVE x \in ToSet(r)
  <2>1. PICK i \in 1..m : x = p[i]
    BY <1>1 DEF ToSet
  <2>2. i \in 1..(m + n) /\ r[i] = x
    BY <1>1, <2>1 DEF r
  <2> QED BY <1>1, <2>2 DEF ToSet, r
<1>4. ASSUME NEW x \in ToSet(t) PROVE x \in ToSet(r)
  <2>1. PICK i \in 1..n : x = t[i]
    BY <1>1 DEF ToSet
  <2>2. m + i \in 1..(m + n) /\ r[m + i] = x
    BY <1>1, <2>1 DEF r
  <2> QED BY <1>1, <2>2 DEF ToSet, r
<1> QED BY <1>2, <1>3, <1>4 DEF r

(* The concatenation of lists over T is one, and has the elements that     *)
(* these lists have.                                                       *)
LEMMA FlattenOf ==
  ASSUME NEW T, NEW q \in Seq(Seq(T))
  PROVE  /\ FlattenSeq(q) \in Seq(T)
         /\ ToSet(FlattenSeq(q)) = UNION {ToSet(q[i]) : i \in 1..Len(q)}
<1> DEFINE n == Len(q)
           U(k) == UNION {ToSet(q[i]) : i \in 1..k}
           D == {k \in 0..n : ToSet(FlattenSeq(Prefix(q, k))) = U(k)}
<1>1. n \in Nat /\ q \in [1..n -> Seq(T)]
  OBVIOUS
<1>2. \A k \in 0..n : FlattenSeq(Prefix(q, k)) \in Seq(T)
  <2> HIDE DEF n
  <2> QED BY <1>1, FlattenType
<1>3. 0 \in D
  <2>1. ToSet(<<>>) = {} /\ U(0) = {} /\ 0 \in 0..n
    BY <1>1 DEF ToSet
  <2> QED BY <2>1, FlattenEmpty
<1>4. ASSUME NEW k \in 0..(n - 1), k \in D PROVE k + 1 \in D
  <2> DEFINE p == FlattenSeq(Prefix(q, k))
             t == q[k + 1]
  <2>1. FlattenSeq(Prefix(q, k + 1)) = p \o t
    <3> HIDE DEF n
    <3> QED BY <1>1, FlattenAppends
  <2>2. p \in Seq(T) /\ t \in Seq(T) /\ k + 1 \in 0..n
    <3>1. k \in 0..n /\ k + 1 \in 1..n /\ k + 1 \in 0..n
      OBVIOUS
    <3> HIDE DEF n
    <3> QED BY <1>1, <1>2, <3>1
  <2>3. ToSet(p \o t) = ToSet(p) \cup ToSet(t)
    <3> HIDE DEF p, t
    <3> QED BY <2>2, ConcatRange
  <2>4. U(k + 1) = U(k) \cup ToSet(t)
    <3>1. 1..(k + 1) = 1..k \cup {k + 1}
      OBVIOUS
    <3> HIDE DEF n
    <3> QED BY <3>1
  <2>5. ToSet(p) = U(k)
    BY <1>4
  <2> HIDE DEF p, t, U, n
  <2> QED BY <2>1, <2>2, <2>3, <2>4, <2>5
<1>5. n \in D
  <2>1. \A k \in 0..n : k \in D
    <3> HIDE DEF D, n
    <3> QED BY <1>1, <1>3, <1>4, IntervalInduction
  <2> HIDE DEF D, n
  <2> QED BY <1>1, <2>1
<1>6. Prefix(q, n) = q
  BY DEF Prefix
<1>7. n \in 0..n
  BY <1>1
<1> HIDE DEF n, U
<1> QED BY <1>2, <1>5, <1>6, <1>7 DEF U, n

(* Lists of one sample each make the list of these samples. *)
LEMMA FlattenSingles ==
  ASSUME NEW T, NEW n \in Nat, NEW g \in [1..n -> Seq(T)], NEW e,
         \A i \in 1..n : g[i] = <<e[i]>> /\ e[i] \in T
  PROVE  /\ FlattenSeq(g) \in Seq(T) /\ Len(FlattenSeq(g)) = n
         /\ \A i \in 1..n : FlattenSeq(g)[i] = e[i]
<1> DEFINE F(k) == FlattenSeq(Prefix(g, k))
           Flat(k) == F(k) \in Seq(T) /\ Len(F(k)) = k /\ \A i \in 1..k : F(k)[i] = e[i]
           D == {k \in 0..n : Flat(k)}
<1>1. 0 \in D
  <2>1. F(0) = <<>>
    BY FlattenEmpty
  <2>2. <<>> \in Seq(T) /\ Len(<<>>) = 0 /\ 1..0 = {} /\ 0 \in 0..n
    OBVIOUS
  <2> HIDE DEF F
  <2> QED BY <2>1, <2>2
<1>2. ASSUME NEW k \in 0..(n - 1), k \in D PROVE k + 1 \in D
  <2> DEFINE p == F(k)
             r == F(k + 1)
             x == e[k + 1]
  <2>1. r = p \o g[k + 1]
    BY FlattenAppends
  <2>2. k + 1 \in 1..n /\ k + 1 \in 0..n /\ k \in Nat
    OBVIOUS
  <2>3. g[k + 1] = <<x>> /\ x \in T
    BY <2>2
  <2>4. p \in Seq(T) /\ Len(p) = k /\ \A i \in 1..k : p[i] = e[i]
    BY <1>2
  <2> HIDE DEF F, p, r, x
  <2>5. r = p \o <<x>>
    BY <2>1, <2>3
  <2>6. /\ p \o <<x>> \in Seq(T) /\ Len(p \o <<x>>) = k + 1
        /\ (p \o <<x>>)[k + 1] = x /\ \A i \in 1..k : (p \o <<x>>)[i] = p[i]
    BY <2>2, <2>3, <2>4
  <2>7. r \in Seq(T) /\ Len(r) = k + 1 /\ r[k + 1] = x /\ \A i \in 1..k : r[i] = e[i]
    BY <2>4, <2>5, <2>6
  <2>8. \A i \in 1..(k + 1) : i \in 1..k \/ i = k + 1
    BY <2>2
  <2>9. \A i \in 1..(k + 1) : r[i] = e[i]
    BY <2>7, <2>8 DEF x
  <2> QED BY <2>2, <2>7, <2>9 DEF r
<1>3. Flat(n)
  <2>1. \A k \in 0..n : k \in D
    <3> HIDE DEF D
    <3> QED BY <1>1, <1>2, IntervalInduction
  <2> HIDE DEF Flat
  <2> QED BY <2>1
<1>4. Prefix(g, n) = g
  BY DEF Prefix
<1> QED BY <1>3, <1>4

-----------------------------------------------------------------------------
(* FoldLeft, which is defined by recursion over the subsets of an interval.*)

LEMMA IntervalMax ==
  ASSUME NEW n \in Nat, NEW S \in SUBSET (1..n), S # {}
  PROVE  Max(S) \in S /\ \A x \in S : x <= Max(S)
<1> DEFINE J == {j \in 1..n : \A x \in S : x <= j}
<1>1. J \in SUBSET (1..n) /\ n \in J
  <2>1. PICK x \in S : x \in 1..n
    OBVIOUS
  <2>2. n \in 1..n
    BY <2>1
  <2> QED BY <2>2
<1>2. PICK j \in J : \A k \in J : j <= k
  <2> HIDE DEF J
  <2> QED BY <1>1, IntervalMin
<1>3. j \in S
  <2> SUFFICES ASSUME j \notin S PROVE FALSE
    OBVIOUS
  <2>1. PICK x \in S : TRUE
    OBVIOUS
  <2>2. \A y \in S : y <= j - 1
    BY <1>2
  <2>3. j - 1 \in J
    BY <1>2, <2>1, <2>2
  <2> QED BY <1>2, <2>3
<1> QED BY <1>2, <1>3 DEF Max

(* A fold whose steps stay within a set A is a function on the subsets.    *)
IsFoldOf(f, A, n, base, step) ==
  /\ f \in [SUBSET (1..n) -> A]
  /\ \A s \in SUBSET (1..n) :
       f[s] = IF s = {} THEN base ELSE step[Max(s)][f[s \ {Max(s)}]]

LEMMA FoldExists ==
  ASSUME NEW A, NEW n \in Nat, NEW base \in A, NEW step \in [1..n -> [A -> A]]
  PROVE  \E f : IsFoldOf(f, A, n, base, step)
<1> DEFINE e(f, s) == IF s = {} THEN base ELSE step[Max(s)][f[s \ {Max(s)}]]
           IsFold(f, k) == /\ f \in [SUBSET (1..k) -> A]
                           /\ \A s \in SUBSET (1..k) : f[s] = e(f, s)
           D == {k \in 0..n : \E f : IsFold(f, k)}
<1>1. 0 \in D
  <2> DEFINE f == [s \in SUBSET (1..0) |-> base]
  <2>1. \A s \in SUBSET (1..0) : s = {}
    OBVIOUS
  <2>2. IsFold(f, 0)
    BY <2>1
  <2> HIDE DEF IsFold, f
  <2> QED BY <2>2
<1>2. ASSUME NEW k \in 0..(n - 1), k \in D PROVE k + 1 \in D
  <2>1. PICK f : IsFold(f, k)
    BY <1>2
  <2> DEFINE g == [s \in SUBSET (1..(k + 1)) |-> IF s \in SUBSET (1..k) THEN f[s] ELSE e(f, s)]
  <2>2. ASSUME NEW s \in SUBSET (1..(k + 1)), s # {}
        PROVE  /\ Max(s) \in 1..n
               /\ s \ {Max(s)} \in SUBSET (1..k)
    <3>1. k + 1 \in Nat
      OBVIOUS
    <3>2. Max(s) \in s /\ \A x \in s : x <= Max(s)
      BY <2>2, <3>1, IntervalMax
    <3>3. Max(s) \in 1..(k + 1)
      BY <3>2
    <3>4. \A x \in s \ {Max(s)} : x \in 1..k
      BY <3>2, <3>3
    <3>5. Max(s) \in 1..n
      BY <3>3
    <3>6. s \ {Max(s)} \subseteq 1..k
      BY <3>4
    <3> QED BY <3>5, <3>6
  <2>3. ASSUME NEW s \in SUBSET (1..(k + 1)) PROVE e(f, s) \in A
    <3>1. CASE s = {}
      BY <3>1
    <3>2. CASE s # {}
      <4>1. f[s \ {Max(s)}] \in A
        BY <2>1, <2>2, <3>2
      <4> QED BY <2>2, <3>2, <4>1
    <3> QED BY <3>1, <3>2
  <2>4. ASSUME NEW s \in SUBSET (1..(k + 1)) PROVE g[s] = e(f, s)
    <3>1. s \in SUBSET (1..k) => f[s] = e(f, s)
      BY <2>1
    <3> HIDE DEF e
    <3> QED BY <3>1
  <2>5. ASSUME NEW s \in SUBSET (1..(k + 1)) PROVE e(g, s) = e(f, s)
    <3>1. \A t \in SUBSET (1..k) : g[t] = f[t]
      <4>1. \A t \in SUBSET (1..k) : t \in SUBSET (1..(k + 1))
        OBVIOUS
      <4> HIDE DEF e
      <4> QED BY <4>1
    <3> HIDE DEF g
    <3>2. s # {} => g[s \ {Max(s)}] = f[s \ {Max(s)}]
      BY <2>2, <3>1
    <3> QED BY <3>2
  <2>6. IsFold(g, k + 1)
    <3>1. g \in [SUBSET (1..(k + 1)) -> A]
      <4>1. \A s \in SUBSET (1..(k + 1)) : g[s] \in A
        <5> HIDE DEF e, g
        <5> QED BY <2>3, <2>4
      <4>2. DOMAIN g = SUBSET (1..(k + 1)) /\ g = [s \in SUBSET (1..(k + 1)) |-> g[s]]
        <5> HIDE DEF e
        <5> QED OBVIOUS
      <4> HIDE DEF g
      <4> QED BY <4>1, <4>2
    <3> HIDE DEF e, g
    <3> QED BY <2>4, <2>5, <3>1
  <2>7. k + 1 \in 0..n
    OBVIOUS
  <2> HIDE DEF IsFold, g
  <2> QED BY <2>6, <2>7
<1>3. n \in D
  <2>1. \A k \in 0..n : k \in D
    <3> HIDE DEF D
    <3> QED BY <1>1, <1>2, IntervalInduction
  <2>2. n \in 0..n
    OBVIOUS
  <2> HIDE DEF D
  <2> QED BY <2>1, <2>2
<1>4. PICK f : IsFold(f, n)
  BY <1>3
<1> QED BY <1>4 DEF IsFoldOf

-----------------------------------------------------------------------------
(* Sums over finite sets.                                                  *)

pick(s) == CHOOSE x \in s : TRUE

(* g gives the sum over each subset of S, as SumFunctionOnSet defines it,  *)
(* or over those of a family only.                                         *)
SumStep(g, f, s) == g[s] = IF s = {} THEN 0 ELSE f[pick(s)] + g[s \ {pick(s)}]
SumsOf(g, f, S) == \A s \in SUBSET S : SumStep(g, f, s)
Small(S, k) == {s \in SUBSET S : Cardinality(s) <= k}
SumsUpTo(g, f, S, k) ==
  g \in [Small(S, k) -> Nat] /\ \A s \in Small(S, k) : SumStep(g, f, s)

LEMMA PickFacts ==
  ASSUME NEW S, IsFiniteSet(S)
  PROVE  /\ Cardinality(S) \in Nat
         /\ \A s \in SUBSET S : /\ IsFiniteSet(s)
                                /\ Cardinality(s) \in 0..Cardinality(S)
                                /\ Cardinality(s) = 0 <=> s = {}
                                /\ s # {} => pick(s) \in s
                                /\ \A x \in s : /\ s \ {x} \in SUBSET S
                                                /\ Cardinality(s \ {x}) = Cardinality(s) - 1
<1>1. Cardinality(S) \in Nat
  BY FS_CardinalityType
<1>2. ASSUME NEW s \in SUBSET S
      PROVE  /\ IsFiniteSet(s) /\ Cardinality(s) \in 0..Cardinality(S)
             /\ Cardinality(s) = 0 <=> s = {}
  <2>1. IsFiniteSet(s) /\ Cardinality(s) <= Cardinality(S)
    BY FS_Subset
  <2>2. Cardinality(s) \in Nat
    BY <2>1, FS_CardinalityType
  <2> QED BY <1>1, <2>1, <2>2, FS_EmptySet
<1>3. \A s \in SUBSET S : s # {} => pick(s) \in s
  BY DEF pick
<1>4. ASSUME NEW s \in SUBSET S, NEW x \in s
      PROVE  s \ {x} \in SUBSET S /\ Cardinality(s \ {x}) = Cardinality(s) - 1
  BY <1>2, FS_RemoveElement
<1> QED BY <1>1, <1>2, <1>3, <1>4

LEMMA SumExists ==
  ASSUME NEW S, IsFiniteSet(S), NEW f, \A x \in S : f[x] \in Nat
  PROVE  \E g : g \in [SUBSET S -> Nat] /\ SumsOf(g, f, S)
<1> DEFINE n == Cardinality(S)
           D == {k \in 0..n : \E g : SumsUpTo(g, f, S, k)}
<1>1. /\ n \in Nat
      /\ \A s \in SUBSET S : /\ Cardinality(s) \in 0..n
                             /\ Cardinality(s) = 0 <=> s = {}
                             /\ s # {} => pick(s) \in s
                             /\ \A x \in s : /\ s \ {x} \in SUBSET S
                                             /\ Cardinality(s \ {x}) = Cardinality(s) - 1
  BY PickFacts
<1> HIDE DEF n
<1>2. 0 \in D
  <2> DEFINE g == [s \in Small(S, 0) |-> 0]
  <2>1. \A s \in Small(S, 0) : s = {}
    BY <1>1 DEF Small
  <2>2. \A s \in Small(S, 0) : SumStep(g, f, s)
    BY <2>1 DEF SumStep
  <2>3. SumsUpTo(g, f, S, 0)
    BY <2>2 DEF SumsUpTo
  <2> QED BY <1>1, <2>3
<1>3. ASSUME NEW k \in 0..(n - 1), k \in D PROVE k + 1 \in D
  <2>1. PICK g : SumsUpTo(g, f, S, k)
    BY <1>3
  <2> DEFINE e(s) == IF s = {} THEN 0 ELSE f[pick(s)] + g[s \ {pick(s)}]
             h == [s \in Small(S, k + 1) |-> e(s)]
  <2>2. k \in Nat /\ k + 1 \in 0..n
    BY <1>1
  <2>3. \A s \in Small(S, k + 1) : s # {} =>
          /\ s \ {pick(s)} \in Small(S, k) /\ f[pick(s)] \in Nat
          /\ s \ {pick(s)} \in Small(S, k + 1)
    <3> SUFFICES ASSUME NEW s \in Small(S, k + 1), s # {}
                 PROVE  /\ s \ {pick(s)} \in Small(S, k) /\ f[pick(s)] \in Nat
                        /\ s \ {pick(s)} \in Small(S, k + 1)
      OBVIOUS
    <3>1. s \in SUBSET S /\ Cardinality(s) \in Nat /\ Cardinality(s) <= k + 1
      BY <1>1 DEF Small
    <3>2. pick(s) \in s /\ s \ {pick(s)} \in SUBSET S
          /\ Cardinality(s \ {pick(s)}) = Cardinality(s) - 1
      BY <1>1, <3>1
    <3>3. Cardinality(s \ {pick(s)}) <= k /\ Cardinality(s \ {pick(s)}) <= k + 1
      BY <2>2, <3>1, <3>2
    <3> QED BY <3>1, <3>2, <3>3 DEF Small
  <2>4. g \in [Small(S, k) -> Nat] /\ \A s \in Small(S, k) : g[s] = e(s)
    BY <2>1 DEF SumsUpTo, SumStep
  <2>5. \A s \in Small(S, k) : s \in Small(S, k + 1)
    BY <1>1, <2>2 DEF Small
  <2>6. \A s \in Small(S, k + 1) : e(s) \in Nat
    <3> SUFFICES ASSUME NEW s \in Small(S, k + 1), s # {}
                 PROVE  f[pick(s)] + g[s \ {pick(s)}] \in Nat
      OBVIOUS
    <3>1. f[pick(s)] \in Nat /\ g[s \ {pick(s)}] \in Nat
      BY <2>3, <2>4
    <3> QED BY <3>1
  <2>7. h \in [Small(S, k + 1) -> Nat] /\ \A s \in Small(S, k + 1) : h[s] = e(s)
    <3> HIDE DEF e
    <3> QED BY <2>6
  <2> HIDE DEF h
  <2>8. \A s \in Small(S, k) : h[s] = g[s]
    <3> HIDE DEF e
    <3> QED BY <2>4, <2>5, <2>7
  <2>9. \A s \in Small(S, k + 1) : SumStep(h, f, s)
    <3> SUFFICES ASSUME NEW s \in Small(S, k + 1) PROVE SumStep(h, f, s)
      OBVIOUS
    <3>1. h[s] = e(s)
      BY <2>7
    <3>2. s # {} => h[s \ {pick(s)}] = g[s \ {pick(s)}]
      BY <2>3, <2>8
    <3> QED BY <3>1, <3>2 DEF SumStep
  <2>10. SumsUpTo(h, f, S, k + 1)
    BY <2>7, <2>9 DEF SumsUpTo
  <2> QED BY <2>2, <2>10
<1>4. n \in D
  <2> HIDE DEF D
  <2>1. \A k \in 0..n : k \in D
    BY <1>1, <1>2, <1>3, IntervalInduction
  <2> QED BY <1>1, <2>1
<1>5. PICK g : SumsUpTo(g, f, S, n)
  BY <1>4
<1>6. Small(S, n) = SUBSET S
  BY <1>1 DEF Small
<1>7. g \in [SUBSET S -> Nat] /\ SumsOf(g, f, S)
  BY <1>5, <1>6 DEF SumsUpTo, SumsOf
<1> QED BY <1>7

(* A sum depends only on the values of the elements. *)
LEMMA SumsAgree ==
  ASSUME NEW S, IsFiniteSet(S), NEW f, NEW h, \A x \in S : h[x] = f[x],
         NEW g, SumsOf(g, f, S), NEW j, SumsOf(j, h, S)
  PROVE  \A s \in SUBSET S : j[s] = g[s]
<1> DEFINE n == Cardinality(S)
           D == {k \in 0..n : \A s \in SUBSET S : Cardinality(s) = k => j[s] = g[s]}
<1>1. /\ n \in Nat
      /\ \A s \in SUBSET S : /\ Cardinality(s) \in 0..n
                             /\ Cardinality(s) = 0 <=> s = {}
                             /\ s # {} => pick(s) \in s
                             /\ \A x \in s : /\ s \ {x} \in SUBSET S
                                             /\ Cardinality(s \ {x}) = Cardinality(s) - 1
  BY PickFacts
<1> HIDE DEF n
<1>2. 0 \in D
  <2> SUFFICES ASSUME NEW s \in SUBSET S, Cardinality(s) = 0 PROVE j[s] = g[s]
    BY <1>1
  <2>1. s = {}
    BY <1>1
  <2>2. SumStep(g, f, s) /\ SumStep(j, h, s)
    BY DEF SumsOf
  <2> QED BY <2>1, <2>2 DEF SumStep
<1>3. ASSUME NEW k \in 0..(n - 1), k \in D PROVE k + 1 \in D
  <2> SUFFICES ASSUME NEW s \in SUBSET S, Cardinality(s) = k + 1 PROVE j[s] = g[s]
    BY <1>1
  <2>1. s # {}
    BY <1>1
  <2> DEFINE u == s \ {pick(s)}
  <2>2. pick(s) \in s /\ u \in SUBSET S /\ Cardinality(u) = k
    BY <1>1, <2>1
  <2>3. j[u] = g[u] /\ h[pick(s)] = f[pick(s)]
    BY <1>3, <2>2
  <2>4. SumStep(g, f, s) /\ SumStep(j, h, s)
    BY DEF SumsOf
  <2> QED BY <2>1, <2>3, <2>4 DEF SumStep
<1>4. \A k \in 0..n : k \in D
  <2> HIDE DEF D
  <2> QED BY <1>1, <1>2, <1>3, IntervalInduction
<1> QED BY <1>1, <1>4

(* The element that is added last does not matter. *)
AnyLast(g, f, S) == \A s \in SUBSET S : \A x \in s : g[s] = f[x] + g[s \ {x}]

LEMMA SumsRemove ==
  ASSUME NEW S, IsFiniteSet(S), NEW f, \A x \in S : f[x] \in Nat,
         NEW g \in [SUBSET S -> Nat], SumsOf(g, f, S)
  PROVE  AnyLast(g, f, S)
<1> DEFINE n == Cardinality(S)
           P(t) == \A y \in t : g[t] = f[y] + g[t \ {y}]
           D == {k \in 0..n : \A t \in SUBSET S : Cardinality(t) = k => P(t)}
<1>1. /\ n \in Nat
      /\ \A s \in SUBSET S : /\ Cardinality(s) \in 0..n
                             /\ Cardinality(s) = 0 <=> s = {}
                             /\ s # {} => pick(s) \in s
                             /\ \A x \in s : /\ s \ {x} \in SUBSET S
                                             /\ Cardinality(s \ {x}) = Cardinality(s) - 1
  BY PickFacts
<1> HIDE DEF n
<1>2. 0 \in D
  BY <1>1
<1>3. ASSUME NEW k \in 0..(n - 1), k \in D PROVE k + 1 \in D
  <2> SUFFICES ASSUME NEW t \in SUBSET S, Cardinality(t) = k + 1, NEW y \in t
               PROVE  g[t] = f[y] + g[t \ {y}]
    BY <1>1
  <2> DEFINE c == pick(t)
  <2>1. t # {} /\ c \in t
    BY <1>1
  <2>2. SumStep(g, f, t)
    BY DEF SumsOf
  <2>3. g[t] = f[c] + g[t \ {c}]
    BY <2>1, <2>2 DEF SumStep
  <2> HIDE DEF c
  <2>4. CASE y = c
    BY <2>3, <2>4
  <2>5. CASE y # c
    <3> DEFINE u == t \ {c}
               v == t \ {y}
               w == (t \ {c}) \ {y}
    <3>1. u \in SUBSET S /\ v \in SUBSET S /\ w \in SUBSET S /\ y \in u /\ c \in v
      BY <2>1, <2>5
    <3>2. Cardinality(u) = k /\ Cardinality(v) = k
      BY <1>1, <2>1
    <3>3. u \ {y} = w /\ v \ {c} = w
      OBVIOUS
    <3>4. f[c] \in Nat /\ f[y] \in Nat
      BY <2>1
    <3>5. g[t] = f[c] + g[u]
      BY <2>3
    <3> HIDE DEF u, v, w
    <3>6. P(u) /\ P(v)
      BY <1>3, <3>1, <3>2
    <3>7. g[u] = f[y] + g[w] /\ g[v] = f[c] + g[w]
      BY <3>1, <3>3, <3>6
    <3>8. g[w] \in Nat
      BY <3>1
    <3>9. g[t] = f[y] + g[v]
      <4> DEFINE a == g[w]
                 b == f[c]
                 d == f[y]
      <4>1. a \in Nat /\ b \in Nat /\ d \in Nat /\ g[t] = b + (d + a) /\ g[v] = b + a
        BY <3>4, <3>5, <3>7, <3>8
      <4> HIDE DEF a, b, d
      <4>2. g[t] = d + g[v]
        BY <4>1
      <4> QED BY <4>2 DEF d
    <3> QED BY <3>9 DEF v
  <2> QED BY <2>4, <2>5
<1>4. \A k \in 0..n : k \in D
  <2> HIDE DEF D
  <2> QED BY <1>1, <1>2, <1>3, IntervalInduction
<1> QED BY <1>1, <1>4 DEF AnyLast

(* SumFunctionOnSet is such a function's value. *)
LEMMA SumUnfolds ==
  ASSUME NEW S, IsFiniteSet(S), NEW f, \A x \in S : f[x] \in Nat
  PROVE  \E g : g \in [SUBSET S -> Nat] /\ SumsOf(g, f, S) /\ SumFunctionOnSet(f, S) = g[S]
<1> DEFINE E(g) == [s \in SUBSET S |-> IF s = {} THEN 0 ELSE f[pick(s)] + g[s \ {pick(s)}]]
           it == CHOOSE g : g = E(g)
<1>1. \E g : g \in [SUBSET S -> Nat] /\ SumsOf(g, f, S)
  BY SumExists
<1>2. PICK g : g \in [SUBSET S -> Nat] /\ SumsOf(g, f, S)
  BY <1>1
<1>3. g = E(g)
  <2>1. g = [s \in SUBSET S |-> g[s]]
    BY <1>2
  <2>2. \A s \in SUBSET S : g[s] = E(g)[s]
    BY <1>2 DEF SumsOf, SumStep
  <2>3. E(g) = [s \in SUBSET S |-> E(g)[s]]
    OBVIOUS
  <2> HIDE DEF E
  <2> QED BY <2>1, <2>2, <2>3
<1>4. it = E(it)
  <2> HIDE DEF E
  <2> QED BY <1>3
<1>5. SumFunctionOnSet(f, S) = it[S]
  BY DEF SumFunctionOnSet, FoldFunctionOnSet, MapThenFoldSet, pick
<1>6. SumsOf(it, f, S)
  <2> HIDE DEF it
  <2>1. \A s \in SUBSET S : it[s] = E(it)[s]
    BY <1>4
  <2> QED BY <2>1 DEF SumsOf, SumStep
<1> HIDE DEF it, E
<1>7. it[S] = g[S]
  BY <1>2, <1>6, SumsAgree
<1> QED BY <1>2, <1>5, <1>7

(* The sum over no elements, and over one more. *)
LEMMA SumAdds ==
  ASSUME NEW S, IsFiniteSet(S), NEW f, \A x \in S : f[x] \in Nat
  PROVE  /\ SumFunctionOnSet(f, S) \in Nat
         /\ S = {} => SumFunctionOnSet(f, S) = 0
         /\ \A x \in S : SumFunctionOnSet(f, S) = f[x] + SumFunctionOnSet(f, S \ {x})
<1>1. PICK g : g \in [SUBSET S -> Nat] /\ SumsOf(g, f, S) /\ SumFunctionOnSet(f, S) = g[S]
  BY SumUnfolds
<1>2. ASSUME S = {} PROVE SumFunctionOnSet(f, S) = 0
  <2>1. SumStep(g, f, S)
    BY <1>1 DEF SumsOf
  <2> QED BY <1>1, <1>2, <2>1 DEF SumStep
<1>3. ASSUME NEW x \in S
      PROVE  SumFunctionOnSet(f, S) = f[x] + SumFunctionOnSet(f, S \ {x})
  <2> DEFINE T == S \ {x}
  <2>1. IsFiniteSet(T) /\ T \in SUBSET S /\ \A y \in T : f[y] \in Nat
    <3>1. T \in SUBSET S
      OBVIOUS
    <3> HIDE DEF T
    <3> QED BY <3>1, FS_Subset
  <2>2. g[S] = f[x] + g[T]
    <3>1. AnyLast(g, f, S)
      BY <1>1, SumsRemove
    <3> QED BY <3>1 DEF AnyLast
  <2> HIDE DEF T
  <2>3. PICK j : j \in [SUBSET T -> Nat] /\ SumsOf(j, f, T) /\ SumFunctionOnSet(f, T) = j[T]
    BY <2>1, SumUnfolds
  <2>4. SumsOf(g, f, T)
    BY <1>1, <2>1 DEF SumsOf
  <2>5. j[T] = g[T]
    BY <2>1, <2>3, <2>4, SumsAgree
  <2> QED BY <1>1, <2>2, <2>3, <2>5 DEF T
<1>4. SumFunctionOnSet(f, S) \in Nat
  BY <1>1
<1> QED BY <1>2, <1>3, <1>4

LEMMA SumAgrees ==
  ASSUME NEW S, IsFiniteSet(S), NEW f, \A x \in S : f[x] \in Nat,
         NEW h, \A x \in S : h[x] = f[x]
  PROVE  SumFunctionOnSet(f, S) = SumFunctionOnSet(h, S)
<1>1. PICK g : g \in [SUBSET S -> Nat] /\ SumsOf(g, f, S) /\ SumFunctionOnSet(f, S) = g[S]
  BY SumUnfolds
<1>2. PICK j : j \in [SUBSET S -> Nat] /\ SumsOf(j, h, S) /\ SumFunctionOnSet(h, S) = j[S]
  <2>1. \A x \in S : h[x] \in Nat
    OBVIOUS
  <2> QED BY <2>1, SumUnfolds
<1>3. j[S] = g[S]
  BY <1>1, <1>2, SumsAgree
<1> QED BY <1>1, <1>2, <1>3

(* The parts into which a function divides a finite set have as many       *)
(* elements together as the set.                                           *)
LEMMA SumOfParts ==
  ASSUME NEW S, IsFiniteSet(S), NEW K, IsFiniteSet(K), NEW h \in [S -> K],
         NEW f, \A k \in K : f[k] = Cardinality({x \in S : h[x] = k})
  PROVE  SumFunctionOnSet(f, K) = Cardinality(S)
<1> DEFINE n == Cardinality(K)
           In(T) == {x \in S : h[x] \in T}
           P(T) == SumFunctionOnSet(f, T) = Cardinality(In(T))
           D == {k \in 0..n : \A T \in SUBSET K : Cardinality(T) = k => P(T)}
<1>1. /\ n \in Nat
      /\ \A s \in SUBSET K : /\ Cardinality(s) \in 0..n /\ IsFiniteSet(s)
                             /\ Cardinality(s) = 0 <=> s = {}
                             /\ s # {} => pick(s) \in s
                             /\ \A x \in s : /\ s \ {x} \in SUBSET K
                                             /\ Cardinality(s \ {x}) = Cardinality(s) - 1
  BY PickFacts
<1> HIDE DEF n
<1>2. \A T : IsFiniteSet(In(T)) /\ Cardinality(In(T)) \in Nat
  <2> SUFFICES ASSUME NEW T PROVE IsFiniteSet(In(T)) /\ Cardinality(In(T)) \in Nat
    OBVIOUS
  <2>1. In(T) \in SUBSET S
    OBVIOUS
  <2> HIDE DEF In
  <2> QED BY <2>1, FS_Subset, FS_CardinalityType
<1>3. \A k \in K : f[k] = Cardinality(In({k})) /\ f[k] \in Nat
  <2> SUFFICES ASSUME NEW k \in K PROVE f[k] = Cardinality(In({k})) /\ f[k] \in Nat
    OBVIOUS
  <2>1. {x \in S : h[x] = k} = In({k})
    OBVIOUS
  <2> HIDE DEF In
  <2> QED BY <1>2, <2>1
<1>4. 0 \in D
  <2> SUFFICES ASSUME NEW T \in SUBSET K, Cardinality(T) = 0 PROVE P(T)
    BY <1>1
  <2>1. T = {} /\ In(T) = {}
    BY <1>1
  <2> HIDE DEF In
  <2>2. IsFiniteSet(T) /\ \A x \in T : f[x] \in Nat
    BY <1>1, <2>1
  <2> QED BY <2>1, <2>2, SumAdds, FS_EmptySet
<1>5. ASSUME NEW k \in 0..(n - 1), k \in D PROVE k + 1 \in D
  <2> SUFFICES ASSUME NEW T \in SUBSET K, Cardinality(T) = k + 1 PROVE P(T)
    BY <1>1
  <2> DEFINE c == pick(T)
             U == T \ {c}
  <2>1. c \in T /\ U \in SUBSET K /\ Cardinality(U) = k /\ IsFiniteSet(T)
    BY <1>1
  <2>2. In(T) = In(U) \cup In({c}) /\ In(U) \cap In({c}) = {}
    BY <2>1
  <2> HIDE DEF In
  <2>3. SumFunctionOnSet(f, T) = f[c] + SumFunctionOnSet(f, U)
    BY <1>3, <2>1, SumAdds
  <2> HIDE DEF c, U
  <2>4. P(U) /\ f[c] = Cardinality(In({c}))
    BY <1>3, <1>5, <2>1
  <2>5. Cardinality(In(T)) = Cardinality(In(U)) + Cardinality(In({c}))
    <3> DEFINE A == In(U)
               B == In({c})
    <3>1. /\ IsFiniteSet(A) /\ IsFiniteSet(B) /\ Cardinality(A) \in Nat /\ Cardinality(B) \in Nat
          /\ In(T) = A \cup B /\ A \cap B = {} /\ Cardinality({}) = 0
      BY <1>2, <2>2, FS_EmptySet
    <3> HIDE DEF A, B
    <3>2. Cardinality(A \cup B) = Cardinality(A) + Cardinality(B) - Cardinality(A \cap B)
      BY <3>1, FS_Union
    <3>3. Cardinality(A \cap B) = 0 /\ Cardinality(In(T)) = Cardinality(A \cup B)
      BY <3>1, Zenon
    <3> QED BY <3>1, <3>2, <3>3 DEF A, B
  <2> DEFINE a == Cardinality(In(U))
             b == Cardinality(In({c}))
  <2>6. /\ a \in Nat /\ b \in Nat /\ SumFunctionOnSet(f, T) = b + a
        /\ Cardinality(In(T)) = a + b
    BY <1>2, <2>3, <2>4, <2>5
  <2> HIDE DEF a, b
  <2> QED BY <2>6
<1>6. \A k \in 0..n : k \in D
  <2> HIDE DEF D
  <2> QED BY <1>1, <1>4, <1>5, IntervalInduction
<1>7. P(K)
  <2> HIDE DEF P
  <2>1. K \in SUBSET K /\ n \in 0..n
    BY <1>1
  <2> QED BY <1>6, <2>1 DEF n
<1>8. In(K) = S
  OBVIOUS
<1> HIDE DEF In
<1> QED BY <1>7, <1>8

(* Counting and adding from the first number on. *)

Upto(A, c) == A \cap 1..c

LEMMA UptoNext ==
  ASSUME NEW A, NEW c \in Nat
  PROVE  /\ Upto(A, 0) = {}
         /\ IsFiniteSet(Upto(A, c)) /\ Cardinality(Upto(A, c)) \in Nat
         /\ c + 1 \in A => /\ Upto(A, c + 1) = Upto(A, c) \cup {c + 1}
                           /\ c + 1 \notin Upto(A, c)
         /\ c + 1 \notin A => Upto(A, c + 1) = Upto(A, c)
<1>1. 1..0 = {} /\ 1..(c + 1) = 1..c \cup {c + 1} /\ c + 1 \notin 1..c
  OBVIOUS
<1>2. IsFiniteSet(1..c) /\ Upto(A, c) \in SUBSET (1..c)
  BY FS_Interval DEF Upto
<1>3. IsFiniteSet(Upto(A, c))
  BY <1>2, FS_Subset
<1>4. Cardinality(Upto(A, c)) \in Nat
  BY <1>3, FS_CardinalityType
<1> QED BY <1>1, <1>3, <1>4 DEF Upto

LEMMA CountNext ==
  ASSUME NEW A, NEW c \in Nat
  PROVE  /\ Cardinality(Upto(A, 0)) = 0
         /\ Cardinality(Upto(A, c + 1)) = Cardinality(Upto(A, c)) + (IF c + 1 \in A THEN 1 ELSE 0)
<1>1. Upto(A, 0) = {} /\ IsFiniteSet(Upto(A, c)) /\ Cardinality(Upto(A, c)) \in Nat
  BY UptoNext
<1>2. ASSUME c + 1 \in A
      PROVE  Cardinality(Upto(A, c + 1)) = Cardinality(Upto(A, c)) + 1
  <2>1. Upto(A, c + 1) = Upto(A, c) \cup {c + 1} /\ c + 1 \notin Upto(A, c)
    BY <1>2, UptoNext
  <2> QED BY <1>1, <2>1, FS_AddElement
<1>3. c + 1 \notin A => Upto(A, c + 1) = Upto(A, c)
  BY UptoNext
<1> QED BY <1>1, <1>2, <1>3, FS_EmptySet

LEMMA SumNext ==
  ASSUME NEW A, NEW c \in Nat, NEW f, \A x \in A : f[x] \in Nat
  PROVE  /\ SumFunctionOnSet(f, Upto(A, 0)) = 0
         /\ SumFunctionOnSet(f, Upto(A, c)) \in Nat
         /\ SumFunctionOnSet(f, Upto(A, c + 1))
              = SumFunctionOnSet(f, Upto(A, c)) + (IF c + 1 \in A THEN f[c + 1] ELSE 0)
<1>1. \A k \in Nat : IsFiniteSet(Upto(A, k)) /\ \A x \in Upto(A, k) : f[x] \in Nat
  <2> TAKE k \in Nat
  <2>1. \A x \in Upto(A, k) : x \in A
    BY DEF Upto
  <2> QED BY <2>1, UptoNext
<1>2. SumFunctionOnSet(f, Upto(A, 0)) = 0
  <2>1. Upto(A, 0) = {} /\ IsFiniteSet(Upto(A, 0)) /\ \A x \in Upto(A, 0) : f[x] \in Nat
    BY <1>1, UptoNext
  <2> QED BY <2>1, SumAdds
<1>3. SumFunctionOnSet(f, Upto(A, c)) \in Nat
  <2>1. IsFiniteSet(Upto(A, c)) /\ \A x \in Upto(A, c) : f[x] \in Nat
    BY <1>1
  <2> QED BY <2>1, SumAdds
<1>4. ASSUME c + 1 \in A
      PROVE  SumFunctionOnSet(f, Upto(A, c + 1)) = SumFunctionOnSet(f, Upto(A, c)) + f[c + 1]
  <2> DEFINE S == Upto(A, c + 1)
             x == c + 1
  <2>1. S = Upto(A, c) \cup {x} /\ x \notin Upto(A, c)
    BY <1>4, UptoNext
  <2>2. IsFiniteSet(S) /\ \A y \in S : f[y] \in Nat
    <3>1. c + 1 \in Nat
      OBVIOUS
    <3> QED BY <1>1, <3>1
  <2>3. x \in S /\ S \ {x} = Upto(A, c)
    BY <2>1
  <2>4. f[x] \in Nat
    BY <1>4
  <2> HIDE DEF S, x
  <2>5. SumFunctionOnSet(f, S) = f[x] + SumFunctionOnSet(f, S \ {x})
    BY <2>2, <2>3, SumAdds
  <2>6. SumFunctionOnSet(f, S) = SumFunctionOnSet(f, Upto(A, c)) + f[x]
    <3> DEFINE a == SumFunctionOnSet(f, Upto(A, c))
               b == f[x]
    <3>1. a \in Nat /\ b \in Nat /\ SumFunctionOnSet(f, S) = b + a
      BY <1>3, <2>3, <2>4, <2>5
    <3> HIDE DEF a, b
    <3>2. SumFunctionOnSet(f, S) = a + b
      BY <3>1
    <3> QED BY <3>2 DEF a, b
  <2> QED BY <2>6 DEF S, x
<1>5. c + 1 \notin A => Upto(A, c + 1) = Upto(A, c)
  BY UptoNext
<1> QED BY <1>2, <1>3, <1>4, <1>5

-----------------------------------------------------------------------------
(* The guard's definition. *)

(* A name some well-labelled sample has, has exactly one leader. *)
LEMMA LeaderUnique ==
  ASSUME NEW f \in Seq(Sample), NEW n, NEW i, NEW j,
         IsLeader(f, n, i), IsLeader(f, n, j)
  PROVE  i = j
BY DEF IsLeader

LEMMA LeaderExists ==
  ASSUME NEW f \in Seq(Sample), NEW i \in 1..Len(f), validLabels(f[i].labels)
  PROVE  IsLeader(f, f[i].name, Leader(f, f[i].name))
<1> DEFINE n == f[i].name
           J == {j \in 1..Len(f) : f[j].name = n /\ validLabels(f[j].labels)}
<1>1. J \in SUBSET (1..Len(f)) /\ J # {} /\ Len(f) \in Nat
  OBVIOUS
<1>2. PICK j \in J : \A k \in J : j <= k
  <2> HIDE DEF J
  <2> QED BY <1>1, IntervalMin
<1>3. \A k \in 1..(j - 1) : ~ (f[k].name = n /\ validLabels(f[k].labels))
  BY <1>2
<1>4. IsLeader(f, n, j) /\ j \in 1..Len(f)
  BY <1>2, <1>3 DEF IsLeader
<1> QED BY <1>4 DEF Leader

(* A leader is not affected by what follows it. *)
LEMMA LeaderIsLeader ==
  ASSUME NEW f \in Seq(Sample), NEW n, NEW j, IsLeader(f, n, j)
  PROVE  Leader(f, n) = j
<1>1. j \in 1..Len(f)
  BY DEF IsLeader
<1>2. IsLeader(f, n, Leader(f, n))
  BY <1>1 DEF Leader
<1> QED BY <1>2, LeaderUnique

LEMMA RepairedFacts ==
  ASSUME NEW f \in Seq(Sample), NEW i \in 1..Len(f), IsKept(f, i)
  PROVE  /\ Repaired(f, i) \in Sample
         /\ Repaired(f, i).name = f[i].name
         /\ Repaired(f, i).type = f[Leader(f, f[i].name)].type
         /\ Repaired(f, i).help = f[Leader(f, f[i].name)].help
         /\ Repaired(f, i).labels = f[i].labels
         /\ Repaired(f, i).value = f[i].value
         /\ validLabels(Repaired(f, i).labels)
         /\ seriesKey(Repaired(f, i)) = seriesKey(f[i])
<1>1. validLabels(f[i].labels) /\ f[i].type = f[Leader(f, f[i].name)].type
  BY DEF IsKept, Passes
<1>2. Leader(f, f[i].name) \in 1..Len(f)
  BY <1>1, LeaderExists DEF IsLeader
<1>3. f[i] \in Sample /\ f[Leader(f, f[i].name)] \in Sample
  BY <1>2
<1> DEFINE h == f[Leader(f, f[i].name)].help
           s == f[i]
<1>4. Repaired(f, i) = [s EXCEPT !.help = h]
  BY DEF Repaired
<1>5. /\ Repaired(f, i) \in Sample
      /\ Repaired(f, i).name = s.name
      /\ Repaired(f, i).type = s.type
      /\ Repaired(f, i).help = h
      /\ Repaired(f, i).labels = s.labels
      /\ Repaired(f, i).value = s.value
  <2> HIDE DEF h, s
  <2>1. s \in Sample /\ h \in Help
    BY <1>3 DEF h, s, Sample
  <2> QED BY <1>4, <2>1 DEF Sample
<1> QED BY <1>1, <1>5 DEF seriesKey, LabelPairs

(* Two kept samples of one series are one sample. *)
LEMMA KeptSeriesUnique ==
  ASSUME NEW f \in Seq(Sample), NEW i \in 1..Len(f), NEW j \in 1..Len(f),
         IsKept(f, i), IsKept(f, j), seriesKey(f[i]) = seriesKey(f[j])
  PROVE  i = j
<1>1. ~ (i < j)
  BY DEF IsKept
<1>2. ~ (j < i)
  BY DEF IsKept
<1> QED BY <1>1, <1>2

(* The guard's own gauges: one series per system and reason. *)
LEMMA SelfMetricFacts ==
  ASSUME NEW counts \in [System -> [Reason -> Nat]],
         NEW sys \in System, NEW r \in Reason
  PROVE  LET s == SelfMetric(counts, sys, r)
         IN  /\ s \in Sample
             /\ s.name = guardMetric /\ s.type = "Gauge" /\ s.help = guardHelp
             /\ validLabels(s.labels)
             /\ LabelPairs(s) = {[key |-> reasonLabel, value |-> r],
                                [key |-> systemLabel, value |-> sys]}
<1> DEFINE l1 == [key |-> reasonLabel, value |-> r]
           l2 == [key |-> systemLabel, value |-> sys]
           s == SelfMetric(counts, sys, r)
<1>1. sys \in GoodValue /\ r \in GoodValue
  BY SystemsAssumption, LabelsAssumption DEF System
<1>2. l1 \in Label /\ l2 \in Label
  BY <1>1, LabelsAssumption DEF Label
<1>3. s.labels = <<l1, l2>> /\ s.labels \in Seq(Label) /\ Len(s.labels) = 2
  BY <1>2 DEF SelfMetric
<1>4. counts[sys][r] \in Nat
  OBVIOUS
<1>5. s \in Sample
  BY <1>3, <1>4, LabelsAssumption DEF SelfMetric, Sample, MetricType
<1>6. validLabels(s.labels)
  BY <1>1, <1>3, LabelsAssumption DEF validLabels, reasonLabel, systemLabel
<1>7. LabelPairs(s) = {l1, l2}
  BY <1>3 DEF LabelPairs
<1>8. s.name = guardMetric /\ s.type = "Gauge" /\ s.help = guardHelp
  BY DEF SelfMetric
<1> QED BY <1>5, <1>6, <1>7, <1>8

LEMMA SelfMetricUnique ==
  ASSUME NEW counts \in [System -> [Reason -> Nat]],
         NEW a \in System, NEW b \in System, NEW q \in Reason, NEW r \in Reason
  PROVE  seriesKey(SelfMetric(counts, a, q)) = seriesKey(SelfMetric(counts, b, r))
           => a = b /\ q = r
<1> HAVE seriesKey(SelfMetric(counts, a, q)) = seriesKey(SelfMetric(counts, b, r))
<1>1. {[key |-> reasonLabel, value |-> q], [key |-> systemLabel, value |-> a]}
        = {[key |-> reasonLabel, value |-> r], [key |-> systemLabel, value |-> b]}
  <2>1. LabelPairs(SelfMetric(counts, a, q)) = LabelPairs(SelfMetric(counts, b, r))
    BY DEF seriesKey
  <2> QED BY <2>1, SelfMetricFacts
<1>2. reasonLabel # systemLabel
  BY DEF reasonLabel, systemLabel
<1> DEFINE tag(k, v) == [key |-> k, value |-> v]
<1>3. \A k, v, l, w : tag(k, v) = tag(l, w) => k = l /\ v = w
  <2> TAKE k, v, l, w
  <2>1. tag(k, v).key = k /\ tag(k, v).value = v /\ tag(l, w).key = l /\ tag(l, w).value = w
    OBVIOUS
  <2> QED BY <2>1
<1>4. {tag(reasonLabel, q), tag(systemLabel, a)} = {tag(reasonLabel, r), tag(systemLabel, b)}
  BY <1>1
<1> HIDE DEF tag
<1>5. tag(reasonLabel, q) # tag(systemLabel, b) /\ tag(systemLabel, a) # tag(reasonLabel, r)
  BY <1>2, <1>3
<1>6. tag(reasonLabel, q) = tag(reasonLabel, r) /\ tag(systemLabel, a) = tag(systemLabel, b)
  BY <1>4, <1>5
<1> QED BY <1>3, <1>6

LEMMA RepairCountsType ==
  ASSUME NEW f \in Seq(Sample)
  PROVE  RepairCounts(f) \in [System -> [Reason -> Nat]]
<1> DEFINE verdict == [i \in 1..Len(f) |-> Verdict(f, i)]
           tagged  == [sys \in System |-> {i \in 1..Len(f) : SystemTags(f[i], sys) # {}}]
<1>1. ASSUME NEW sys \in System, NEW r \in Reason
      PROVE  Cardinality({i \in tagged[sys] : verdict[i] = r}) \in Nat
  <2>1. {i \in tagged[sys] : verdict[i] = r} \subseteq 1..Len(f)
    OBVIOUS
  <2>2. IsFiniteSet(1..Len(f))
    BY FS_Interval
  <2> QED BY <2>1, <2>2, FS_Subset, FS_CardinalityType
<1> QED BY <1>1 DEF RepairCounts

-----------------------------------------------------------------------------
(* The guard's result, for any list that does not hold the guard's own     *)
(* metric, is a set of samples that Gather accepts.                        *)
LEMMA GuardedType ==
  ASSUME NEW f \in Seq(Sample)
  PROVE  \A s \in Guarded(f) : s \in Sample
<1>1. ASSUME NEW i \in 1..Len(f), IsKept(f, i) PROVE Repaired(f, i) \in Sample
  BY <1>1, RepairedFacts
<1>2. \A sys \in System, r \in Reason : SelfMetric(RepairCounts(f), sys, r) \in Sample
  BY RepairCountsType, SelfMetricFacts
<1> QED BY <1>1, <1>2 DEF Guarded, Kept, SelfMetrics

THEOREM GuardedGatherSafe ==
  ASSUME NEW f \in Seq(Sample), \A i \in 1..Len(f) : f[i].name # guardMetric
  PROVE  GatherAccepts(Guarded(f))
<1> DEFINE c == RepairCounts(f)
           K == {j \in 1..Len(f) : IsKept(f, j)}
<1>1. c \in [System -> [Reason -> Nat]]
  BY RepairCountsType
<1> HIDE DEF c
<1>2. \A s \in Guarded(f) :
        \/ \E i \in K : s = Repaired(f, i)
        \/ \E sys \in System, r \in Reason : s = SelfMetric(c, sys, r)
  BY DEF Guarded, Kept, SelfMetrics, c
<1>3. \A i \in K :
        /\ Repaired(f, i).name = f[i].name
        /\ Repaired(f, i).type = f[Leader(f, f[i].name)].type
        /\ Repaired(f, i).help = f[Leader(f, f[i].name)].help
        /\ validLabels(Repaired(f, i).labels)
        /\ seriesKey(Repaired(f, i)) = seriesKey(f[i])
        /\ Repaired(f, i).name # guardMetric
  BY RepairedFacts
<1>4. \A sys \in System, r \in Reason :
        LET s == SelfMetric(c, sys, r)
        IN  /\ s.name = guardMetric /\ s.type = "Gauge" /\ s.help = guardHelp
            /\ validLabels(s.labels)
  BY <1>1, SelfMetricFacts
<1>5. ASSUME NEW s \in Guarded(f) PROVE validLabels(s.labels)
  BY <1>2, <1>3, <1>4
<1>6. ASSUME NEW s \in Guarded(f), NEW t \in Guarded(f), s.name = t.name
      PROVE  s.type = t.type /\ s.help = t.help
  <2>1. CASE \E i \in K, j \in K : s = Repaired(f, i) /\ t = Repaired(f, j)
    BY <1>6, <1>3, <2>1
  <2>2. CASE s.name = guardMetric
    <3>1. ASSUME NEW x \in Guarded(f), x.name = guardMetric
          PROVE  x.type = "Gauge" /\ x.help = guardHelp
      <4>1. ~ \E i \in K : x = Repaired(f, i)
        BY <1>3, <3>1
      <4>2. PICK sys \in System, r \in Reason : x = SelfMetric(c, sys, r)
        BY <1>2, <4>1
      <4> QED BY <1>4, <4>2
    <3> QED BY <1>6, <2>2, <3>1
  <2> QED BY <1>6, <1>2, <1>3, <1>4, <2>1, <2>2
<1>7. ASSUME NEW s \in Guarded(f), NEW t \in Guarded(f), seriesKey(s) = seriesKey(t)
      PROVE  s = t
  <2>1. s.name = t.name
    BY <1>7 DEF seriesKey
  <2>2. ASSUME NEW i \in K, NEW j \in K, s = Repaired(f, i), t = Repaired(f, j)
        PROVE  s = t
    <3>1. seriesKey(f[i]) = seriesKey(f[j])
      BY <1>7, <1>3, <2>2
    <3>2. i = j
      BY <3>1, KeptSeriesUnique
    <3> QED BY <2>2, <3>2
  <2>3. ASSUME NEW a \in System, NEW b \in System, NEW q \in Reason, NEW r \in Reason,
               s = SelfMetric(c, a, q), t = SelfMetric(c, b, r)
        PROVE  s = t
    <3>1. a = b /\ q = r
      <4>1. seriesKey(SelfMetric(c, a, q)) = seriesKey(SelfMetric(c, b, r))
        BY <1>7, <2>3
      <4>2. c \in [System -> [Reason -> Nat]] =>
              (seriesKey(SelfMetric(c, a, q)) = seriesKey(SelfMetric(c, b, r))
                 => a = b /\ q = r)
        BY SelfMetricUnique, ZenonT(60)
      <4> QED BY <1>1, <4>1, <4>2
    <3> QED BY <2>3, <3>1
  <2> QED BY <1>2, <1>3, <1>4, <2>1, <2>2, <2>3
<1> QED BY <1>5, <1>6, <1>7 DEF GatherAccepts

-----------------------------------------------------------------------------
(* The samples of a list, and of them those of one name. *)
OfName(f, n) == {s \in {f[k] : k \in 1..Len(f)} : s.name = n}

(* What needs no repair the guard leaves alone: the samples of a name that *)
(* are well labelled, agree on type and help and differ in their series    *)
(* come out as they went in, whatever else is in the list.                 *)
LEMMA GuardedUntouched ==
  ASSUME NEW f \in Seq(Sample), NEW n, n # guardMetric,
         \A s \in OfName(f, n) : validLabels(s.labels),
         \A s, t \in OfName(f, n) : s.type = t.type /\ s.help = t.help,
         \A s, t \in OfName(f, n) : seriesKey(s) = seriesKey(t) => s = t
  PROVE  {s \in Guarded(f) : s.name = n} = OfName(f, n)
<1> DEFINE K == {k \in 1..Len(f) : f[k].name = n}
<1>1. Len(f) \in Nat /\ \A k \in 1..Len(f) : f[k] \in Sample
  OBVIOUS
<1>2. \A k \in K : f[k] \in OfName(f, n)
  BY DEF OfName
<1>3. ASSUME NEW k \in K
      PROVE  /\ Leader(f, n) \in K
             /\ Passes(f, k)
             /\ Repaired(f, k) = f[k]
  <2>1. validLabels(f[k].labels)
    BY <1>2
  <2>2. Leader(f, n) \in K
    BY <2>1, LeaderExists DEF IsLeader
  <2>3. f[k].type = f[Leader(f, n)].type /\ f[k].help = f[Leader(f, n)].help
    BY <1>2, <2>2
  <2>4. Passes(f, k)
    BY <2>1, <2>3 DEF Passes
  <2> DEFINE s == f[k]
             h == f[Leader(f, n)].help
  <2>5. s \in Sample /\ s.help = h
    BY <1>1, <2>3
  <2>6. Repaired(f, k) = [s EXCEPT !.help = h]
    BY DEF Repaired
  <2> HIDE DEF s, h
  <2>7. [s EXCEPT !.help = h] = s
    BY <2>5 DEF Sample
  <2> QED BY <2>2, <2>4, <2>6, <2>7 DEF s
<1>4. ASSUME NEW k \in K PROVE f[k] \in Guarded(f)
  <2> DEFINE J == {j \in 1..Len(f) : f[j] = f[k]}
  <2>1. J \in SUBSET (1..Len(f)) /\ J # {}
    OBVIOUS
  <2>2. PICK j \in J : \A i \in J : j <= i
    <3> HIDE DEF J
    <3> QED BY <1>1, <2>1, IntervalMin
  <2>3. j \in K /\ f[j] = f[k]
    BY <2>2
  <2>4. ASSUME NEW i \in 1..(j - 1), seriesKey(f[i]) = seriesKey(f[j]) PROVE FALSE
    <3>1. i \in 1..Len(f) /\ i < j
      BY <1>1, <2>3
    <3>2. f[i].name = f[j].name
      BY <2>4 DEF seriesKey
    <3>3. i \in K
      BY <2>3, <3>1, <3>2
    <3>4. f[i] = f[j]
      BY <1>2, <2>3, <2>4, <3>3
    <3> QED BY <2>2, <2>3, <3>1, <3>4
  <2>5. IsKept(f, j)
    BY <1>3, <2>3, <2>4 DEF IsKept
  <2>6. Repaired(f, j) \in Kept(f)
    BY <2>3, <2>5 DEF Kept
  <2> QED BY <1>3, <2>3, <2>6 DEF Guarded
<1>5. ASSUME NEW s \in Guarded(f), s.name = n PROVE s \in OfName(f, n)
  <2>1. CASE s \in SelfMetrics(RepairCounts(f))
    <3>1. s.name = guardMetric
      BY <2>1 DEF SelfMetrics, SelfMetric
    <3> QED BY <1>5, <3>1
  <2>2. CASE s \in Kept(f)
    <3>1. PICK k \in 1..Len(f) : IsKept(f, k) /\ s = Repaired(f, k)
      BY <2>2 DEF Kept
    <3>2. k \in K
      BY <1>5, <3>1, RepairedFacts
    <3> QED BY <1>2, <1>3, <3>1, <3>2
  <2> QED BY <1>5, <2>1, <2>2 DEF Guarded
<1>6. ASSUME NEW s \in OfName(f, n) PROVE s \in {t \in Guarded(f) : t.name = n}
  <2>1. PICK k \in K : s = f[k]
    BY DEF OfName
  <2> QED BY <1>4, <2>1
<1> QED BY <1>5, <1>6
=============================================================================
