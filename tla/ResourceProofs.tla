--------------------------- MODULE ResourceProofs ---------------------------
(***************************************************************************)
(* collectSystem, for whatever a server holds and whichever requests fail: *)
(* the sizing collector keeps the maxima and one fastest instance of the   *)
(* save sets folded so far, every sample has the type of its metric, the   *)
(* two exports of it agree, collectors contribute all or nothing, no field *)
(* that is left out is exported as zero (but see NoFalseZeroAlways for a   *)
(* size without a value and a flag), and aggregates add up.                *)
(***************************************************************************)
EXTENDS Resources, SampleLemmas

-----------------------------------------------------------------------------
(* The loop over the save sets. *)

(* Best, with the values in a function, so that lemmas can be stated for   *)
(* any of the four maps.                                                   *)
MaxOf(m, C, val) ==
  /\ DOMAIN m = {x.key : x \in C}
  /\ \A x \in C : ~ val[x] > m[x.key]
  /\ \A k \in DOMAIN m : \E x \in C : x.key = k /\ val[x] = m[k]

FastestOf(m, C, val) ==
  /\ DOMAIN m = {x.key : x \in C}
  /\ \A x \in C : ~ faster(val[x], m[x.key])
  /\ \A k \in DOMAIN m : \E x \in C : x.key = k /\ val[x] = m[k]

-----------------------------------------------------------------------------
(* What putMax does to a map of maxima: it becomes the one of one more     *)
(* instance (sizing.go:117-121).                                           *)
LEMMA PutMaxKeepsMaxima ==
  ASSUME NEW C, NEW b, NEW val \in [C \cup {b} -> Nat], NEW m, MaxOf(m, C, val)
  PROVE  MaxOf(putMax(m, b.key, val[b]), C \cup {b}, val)
<1> DEFINE k == b.key
           v == val[b]
           n == putMax(m, k, v)
<1>1. \A x \in C : val[x] \in Nat /\ x.key \in DOMAIN m
  BY DEF MaxOf
<1>2. v \in Nat
  OBVIOUS
<1>3. \A kk \in DOMAIN m : m[kk] \in Nat
  BY DEF MaxOf
<1>4. CASE k \in DOMAIN m => v > m[k]
  <2>1. DOMAIN n = DOMAIN m \cup {k} /\ n[k] = v /\ \A x \in DOMAIN m : x # k => n[x] = m[x]
    BY <1>4 DEF putMax, put
  <2>2. DOMAIN n = {x.key : x \in C \cup {b}}
    BY <2>1 DEF MaxOf
  <2>3. \A x \in C \cup {b} : ~ val[x] > n[x.key]
    BY <1>1, <1>2, <1>3, <1>4, <2>1 DEF MaxOf
  <2>4. \A kk \in DOMAIN n : \E x \in C \cup {b} : x.key = kk /\ val[x] = n[kk]
    BY <2>1 DEF MaxOf
  <2> QED
    BY <2>2, <2>3, <2>4 DEF MaxOf
<1>5. CASE ~ (k \in DOMAIN m => v > m[k])
  <2>1. n = m /\ k \in DOMAIN m /\ ~ v > m[k]
    BY <1>5 DEF putMax
  <2> QED
    BY <2>1 DEF MaxOf
<1> QED
  BY <1>4, <1>5

(* A fraction at most another one is less than a larger one. *)
LEMMA FractionOrder ==
  ASSUME NEW a \in Nat, NEW ad \in Nat \ {0}, NEW b \in Nat, NEW bd \in Nat \ {0},
         NEW c \in Nat, NEW cd \in Nat \ {0},
         a * bd <= b * ad, c * bd > b * cd
  PROVE  a * cd < c * ad
<1>1. (a * bd) * cd <= (b * ad) * cd
  BY SMT
<1>2. (b * cd) * ad < (c * bd) * ad
  BY SMT
<1>3. (a * cd) * bd < (c * ad) * bd
  BY <1>1, <1>2, SMT
<1> QED
  BY <1>3, SMT

Throughput == [size : Nat, dur : Nat \ {0}]

(* The same of the fastest instances (sizing.go:74-82). *)
LEMMA KeepFastestKeepsFastest ==
  ASSUME NEW C, NEW b, NEW val \in [C \cup {b} -> Throughput], NEW m,
         FastestOf(m, C, val)
  PROVE  FastestOf(keepFastest(m, b.key, val[b]), C \cup {b}, val)
<1> DEFINE k == b.key
           v == val[b]
           n == keepFastest(m, k, v)
<1>1. \A x \in C : val[x] \in Throughput /\ x.key \in DOMAIN m
  BY DEF FastestOf
<1>2. v \in Throughput
  OBVIOUS
<1>3. \A kk \in DOMAIN m : m[kk] \in Throughput
  BY DEF FastestOf
<1>4. CASE k \in DOMAIN m => faster(v, m[k])
  <2>1. DOMAIN n = DOMAIN m \cup {k} /\ n[k] = v /\ \A x \in DOMAIN m : x # k => n[x] = m[x]
    BY <1>4 DEF keepFastest, put
  <2>2. DOMAIN n = {x.key : x \in C \cup {b}}
    BY <2>1 DEF FastestOf
  <2>3. ASSUME NEW x \in C \cup {b}
        PROVE  ~ faster(val[x], n[x.key])
    <3>1. CASE x = b
      <4>1. n[x.key] = v /\ val[x] = v
        BY <3>1, <2>1
      <4>2. v.size \in Nat /\ v.dur \in Nat
        BY <1>2 DEF Throughput
      <4> QED
        BY <4>1, <4>2 DEF faster
    <3>2. CASE x \in C /\ x.key # k
      BY <3>2, <1>1, <2>1 DEF FastestOf
    <3>3. CASE x \in C /\ x.key = k
      <4> DEFINE w == val[x]
                 u == m[k]
      <4>1. w \in Throughput /\ u \in Throughput /\ k \in DOMAIN m
        BY <3>3, <1>1, <1>3
      <4>2. /\ w.size \in Nat /\ w.dur \in Nat \ {0}
            /\ u.size \in Nat /\ u.dur \in Nat \ {0}
            /\ v.size \in Nat /\ v.dur \in Nat \ {0}
        BY <4>1, <1>2 DEF Throughput
      <4>3. w.size * u.dur <= u.size * w.dur
        <5>1. ~ faster(w, u)
          BY <3>3 DEF FastestOf
        <5> HIDE DEF w, u
        <5> QED
          BY <5>1, <4>2 DEF faster
      <4>4. v.size * u.dur > u.size * v.dur
        BY <4>1, <1>4 DEF faster
      <4>5. w.size * v.dur <= v.size * w.dur
        <5> HIDE DEF w, u, v
        <5> QED
          BY <4>2, <4>3, <4>4, FractionOrder
      <4>6. n[x.key] = v
        BY <3>3, <2>1
      <4>7. ~ faster(w, v)
        <5> HIDE DEF w, u, v
        <5> QED
          BY <4>2, <4>5 DEF faster
      <4> QED
        BY <4>6, <4>7
    <3> QED
      BY <3>1, <3>2, <3>3
  <2>4. \A kk \in DOMAIN n : \E x \in C \cup {b} : x.key = kk /\ val[x] = n[kk]
    BY <2>1 DEF FastestOf
  <2> QED
    BY <2>2, <2>3, <2>4 DEF FastestOf
<1>5. CASE ~ (k \in DOMAIN m => faster(v, m[k]))
  <2>1. n = m /\ k \in DOMAIN m /\ ~ faster(v, m[k])
    BY <1>5 DEF keepFastest
  <2> QED
    BY <2>1 DEF FastestOf
<1> QED
  BY <1>4, <1>5

-----------------------------------------------------------------------------
(* What counts for a map has a value of the map's type. *)
LEMMA Readings ==
  ASSUME NEW bk \in Backup
  PROVE  /\ Sized(bk) => size(bk) \in Nat
         /\ Retained(bk) => retention(bk) \in Nat
         /\ Timed(bk) => job(bk) \in Throughput
<1>1. Sized(bk) => size(bk) \in Nat
  <2> SUFFICES ASSUME bk.size # Absent PROVE decoded(bk.size) \in Nat
    BY DEF Sized, size, Bytes, Reading, NoReading
  <2>1. bk.size.value \in Amount \cup {Absent}
    BY DEF Backup, Size
  <2> QED
    BY <2>1, QuantityAssumption DEF decoded
<1>2. /\ bk.saveTime \in Nat \cup {Absent}
      /\ bk.retentionTime \in Nat \cup {Absent}
      /\ bk.completionTime \in Nat \cup {Absent}
  BY QuantityAssumption DEF Backup, Time
<1>3. Retained(bk) => retention(bk) \in Nat
  BY <1>2 DEF Retained, retention, parseTime, NoReading
<1>4. Timed(bk) => bk.completionTime - bk.saveTime \in Nat \ {0}
  BY <1>2 DEF Timed, parseTime, NoReading
<1>5. Timed(bk) => job(bk) \in Throughput
  BY <1>1, <1>4 DEF Timed, job, Throughput
<1> QED
  BY <1>1, <1>3, <1>5

IInv ==
  /\ answer \in Seq(Backup)
  /\ i \in 0..Len(answer)
  /\ Maxima
  /\ FastestInstance

LEMMA InitIInv == Init => IInv
<1> SUFFICES ASSUME Init PROVE IInv
  OBVIOUS
<1>1. answer \in Seq(Backup) /\ i = 0
  BY AnswerAssumption DEF Init
<1>2. Seen = {}
  BY <1>1 DEF Seen
<1>3. \A m \in {fullMax, incrMax, retMax, jobBest} : DOMAIN m = {}
  BY DEF Init, Empty
<1> QED
  BY <1>1, <1>2, <1>3 DEF IInv, Maxima, FastestInstance, Best

(* One turn of the loop folds one more save set into each map. *)
LEMMA FoldIInv == IInv /\ Fold => IInv'
<1> SUFFICES ASSUME IInv, Fold PROVE IInv'
  OBVIOUS
<1> DEFINE b == answer[i + 1]
<1>1. b \in Backup /\ Seen \subseteq Backup
  BY DEF IInv, Fold, Seen
<1>2. Seen' = Seen \cup {b}
  BY DEF IInv, Fold, Seen
<1>3. (answer \in Seq(Backup) /\ i \in 0..Len(answer))'
  BY DEF IInv, Fold
<1>4. Best(fullMax, Full, size, greater)'
  <2> DEFINE C == {bk \in Seen : Full(bk)}
             f == [bk \in C \cup {b} |-> size(bk)]
  <2>1. CASE Full(b)
    <3>1. fullMax' = putMax(fullMax, b.key, size(b)) /\ {bk \in Seen' : Full(bk)} = C \cup {b}
      BY <2>1, <1>1, <1>2 DEF Fold
    <3>2. f \in [C \cup {b} -> Nat]
      BY <2>1, <1>1, Readings DEF Full
    <3>3. MaxOf(fullMax, C, f)
      BY DEF IInv, Maxima, Best, greater, MaxOf
    <3>4. MaxOf(putMax(fullMax, b.key, f[b]), C \cup {b}, f)
      BY <3>2, <3>3, PutMaxKeepsMaxima
    <3> QED
      BY <3>1, <3>4 DEF MaxOf, Best, greater
  <2>2. CASE ~ Full(b)
    <3>1. fullMax' = fullMax /\ {bk \in Seen' : Full(bk)} = C
      BY <2>2, <1>1, <1>2 DEF Fold
    <3> QED
      BY <3>1 DEF IInv, Maxima, Best, greater
  <2> QED
    BY <2>1, <2>2
<1>5. Best(incrMax, Incr, size, greater)'
  <2> DEFINE C == {bk \in Seen : Incr(bk)}
             f == [bk \in C \cup {b} |-> size(bk)]
  <2>1. CASE Incr(b)
    <3>1. incrMax' = putMax(incrMax, b.key, size(b)) /\ {bk \in Seen' : Incr(bk)} = C \cup {b}
      BY <2>1, <1>1, <1>2 DEF Fold
    <3>2. f \in [C \cup {b} -> Nat]
      BY <2>1, <1>1, Readings DEF Incr
    <3>3. MaxOf(incrMax, C, f)
      BY DEF IInv, Maxima, Best, greater, MaxOf
    <3>4. MaxOf(putMax(incrMax, b.key, f[b]), C \cup {b}, f)
      BY <3>2, <3>3, PutMaxKeepsMaxima
    <3> QED
      BY <3>1, <3>4 DEF MaxOf, Best, greater
  <2>2. CASE ~ Incr(b)
    <3>1. incrMax' = incrMax /\ {bk \in Seen' : Incr(bk)} = C
      BY <2>2, <1>1, <1>2 DEF Fold
    <3> QED
      BY <3>1 DEF IInv, Maxima, Best, greater
  <2> QED
    BY <2>1, <2>2
<1>6. Best(retMax, Retained, retention, greater)'
  <2> DEFINE C == {bk \in Seen : Retained(bk)}
             f == [bk \in C \cup {b} |-> retention(bk)]
  <2>1. CASE Retained(b)
    <3>1. retMax' = putMax(retMax, b.key, retention(b)) /\ {bk \in Seen' : Retained(bk)} = C \cup {b}
      BY <2>1, <1>1, <1>2 DEF Fold
    <3>2. f \in [C \cup {b} -> Nat]
      BY <2>1, <1>1, Readings
    <3>3. MaxOf(retMax, C, f)
      BY DEF IInv, Maxima, Best, greater, MaxOf
    <3>4. MaxOf(putMax(retMax, b.key, f[b]), C \cup {b}, f)
      BY <3>2, <3>3, PutMaxKeepsMaxima
    <3> QED
      BY <3>1, <3>4 DEF MaxOf, Best, greater
  <2>2. CASE ~ Retained(b)
    <3>1. retMax' = retMax /\ {bk \in Seen' : Retained(bk)} = C
      BY <2>2, <1>1, <1>2 DEF Fold
    <3> QED
      BY <3>1 DEF IInv, Maxima, Best, greater
  <2> QED
    BY <2>1, <2>2
<1>7. Best(jobBest, Timed, job, faster)'
  <2> DEFINE C == {bk \in Seen : Timed(bk)}
             f == [bk \in C \cup {b} |-> job(bk)]
  <2>1. CASE Timed(b)
    <3>1. jobBest' = keepFastest(jobBest, b.key, job(b)) /\ {bk \in Seen' : Timed(bk)} = C \cup {b}
      BY <2>1, <1>1, <1>2 DEF Fold
    <3>2. f \in [C \cup {b} -> Throughput]
      BY <2>1, <1>1, Readings
    <3>3. FastestOf(jobBest, C, f)
      BY DEF IInv, FastestInstance, Best, faster, FastestOf
    <3>4. FastestOf(keepFastest(jobBest, b.key, f[b]), C \cup {b}, f)
      BY <3>2, <3>3, KeepFastestKeepsFastest
    <3> QED
      BY <3>1, <3>4 DEF FastestOf, Best, faster
  <2>2. CASE ~ Timed(b)
    <3>1. jobBest' = jobBest /\ {bk \in Seen' : Timed(bk)} = C
      BY <2>2, <1>1, <1>2 DEF Fold
    <3> QED
      BY <3>1 DEF IInv, FastestInstance, Best, faster
  <2> QED
    BY <2>1, <2>2
<1> QED
  BY <1>3, <1>4, <1>5, <1>6, <1>7 DEF IInv, Maxima, FastestInstance

(* Nothing else of collectSystem touches the maps. *)
LEMMA MapsKept == IInv /\ UNCHANGED vars => IInv'
<1> SUFFICES ASSUME IInv, UNCHANGED vars PROVE IInv'
  OBVIOUS
<1>1. UNCHANGED <<answer, i, fullMax, incrMax, retMax, jobBest>> /\ Seen' = Seen
  BY DEF vars, Seen
<1>2. Maxima'
  BY <1>1 DEF IInv, Maxima, Best
<1>3. FastestInstance'
  BY <1>1 DEF IInv, FastestInstance, Best
<1> QED BY <1>1, <1>2, <1>3 DEF IInv

LEMMA SizingInvariant == CollectSpec => []IInv
<1>1. CollectInit => IInv
  BY InitIInv DEF CollectInit
<1>2. IInv /\ [CollectNext]_allVars => IInv'
  <2> SUFFICES ASSUME IInv, [CollectNext]_allVars PROVE IInv'
    OBVIOUS
  <2>1. CASE Folds
    BY <2>1, FoldIInv DEF Folds
  <2>2. CASE Succeeds \/ Fails \/ Returns \/ UNCHANGED allVars
    BY <2>2, MapsKept DEF Succeeds, Fails, Returns, NextCollector, allVars
  <2> QED BY <2>1, <2>2 DEF CollectNext
<1> QED BY <1>1, <1>2, PTL DEF CollectSpec

(* The exported sizes and retentions are the largest of their client and   *)
(* save set, for every answer (sizing.go:52-83, 117-121).                  *)
THEOREM MaximaAlways == CollectSpec => []Maxima
<1>1. IInv => Maxima
  BY DEF IInv
<1> QED BY <1>1, SizingInvariant, PTL

(* The exported durations and throughputs belong to a fastest instance     *)
(* (sizing.go:74-82).                                                      *)
THEOREM FastestInstanceAlways == CollectSpec => []FastestInstance
<1>1. IInv => FastestInstance
  BY DEF IInv
<1> QED BY <1>1, SizingInvariant, PTL

-----------------------------------------------------------------------------
(* Counts by a key: the maps of the alerts and of the modes of sessions.   *)

Tally(S) == {m \in UNION {[D -> Nat \ {0}] : D \in SUBSET S} : IsFiniteSet(DOMAIN m)}

LEMMA EmptyTally == \A S : NoEntries \in Tally(S)
<1> TAKE S
<1>1. NoEntries \in [{} -> Nat \ {0}] /\ DOMAIN NoEntries = {}
  BY DEF NoEntries
<1> QED BY <1>1, FS_EmptySet DEF Tally

LEMMA IncrementFacts ==
  ASSUME NEW S, NEW m \in Tally(S), NEW k \in S
  PROVE  /\ increment(m, k) \in Tally(S)
         /\ DOMAIN increment(m, k) = DOMAIN m \cup {k}
         /\ \A x \in DOMAIN m \cup {k} :
              increment(m, k)[x] = IF x # k THEN m[x]
                                   ELSE IF k \in DOMAIN m THEN m[k] + 1 ELSE 1
<1> DEFINE E == DOMAIN m \cup {k}
           n == increment(m, k)
<1>1. n = [x \in E |-> IF x # k THEN m[x] ELSE IF k \in DOMAIN m THEN m[k] + 1 ELSE 1]
  BY DEF increment, put
<1>2. m \in [DOMAIN m -> Nat \ {0}] /\ DOMAIN m \subseteq S /\ IsFiniteSet(DOMAIN m)
  BY DEF Tally
<1>3. n \in [E -> Nat \ {0}]
  BY <1>1, <1>2
<1>4. IsFiniteSet(E) /\ E \in SUBSET S
  BY <1>2, FS_AddElement
<1> QED BY <1>1, <1>3, <1>4 DEF Tally

LEMMA PrefixTop ==
  ASSUME NEW k \in Nat
  PROVE  Max(1..(k + 1)) = k + 1 /\ (1..(k + 1)) \ {k + 1} = 1..k /\ 1..(k + 1) # {}
<1>1. 1..(k + 1) # {} /\ k + 1 \in Nat /\ k + 1 \in 1..(k + 1)
  OBVIOUS
<1>2. Max(1..(k + 1)) \in 1..(k + 1) /\ \A x \in 1..(k + 1) : x <= Max(1..(k + 1))
  BY <1>1, IntervalMax
<1> QED BY <1>1, <1>2

LEMMA ByPrioritySteps ==
  ASSUME NEW items \in Seq(Item["alerts"])
  PROVE  \E f : /\ f[0] = NoEntries
                /\ \A k \in 0..(Len(items) - 1) :
                     f[k + 1] = increment(f[k], text(items[k + 1].priority))
                /\ byPriority(items) = f[Len(items)]
<1> DEFINE n == Len(items)
           key(k) == text(items[k].priority)
           e(g, s) == IF s = {} THEN NoEntries
                      ELSE increment(g[s \ {Max(s)}], key(Max(s)))
           IsFold(g) == g = [s \in SUBSET (DOMAIN items) |-> e(g, s)]
<1>1. byPriority(items) = (CHOOSE g : IsFold(g))[DOMAIN items]
  BY DEF byPriority, FoldLeft, MapThenFoldSet
<1>2. /\ n \in Nat /\ DOMAIN items = 1..n
      /\ \A k \in 1..n : key(k) \in GoodValue
  <2>1. n \in Nat /\ \A k \in 1..n : items[k] \in Item["alerts"]
    OBVIOUS
  <2>2. \A k \in 1..n : items[k].priority \in Text
    BY <2>1 DEF Item
  <2>3. "" \in GoodValue
    BY SamplesAssumption
  <2>4. \A v \in Text : text(v) \in GoodValue
    BY <2>3 DEF Text, text
  <2> QED BY <2>1, <2>2, <2>4
<1>3. \E g : IsFold(g)
  <2> DEFINE T == Tally(GoodValue)
             step == [k \in 1..n |-> [m \in T |-> increment(m, key(k))]]
  <2>1. step \in [1..n -> [T -> T]]
    <3>1. \A k \in 1..n : \A m \in T : increment(m, key(k)) \in T
      <4> HIDE DEF key
      <4> QED BY <1>2, IncrementFacts
    <3> HIDE DEF key, T
    <3> QED BY <3>1
  <2>2. PICK g : IsFoldOf(g, T, n, NoEntries, step)
    <3>1. NoEntries \in T
      BY EmptyTally
    <3> HIDE DEF T, step, n
    <3> QED BY <1>2, <2>1, <3>1, FoldExists, Zenon
  <2>3. \A s \in SUBSET (1..n) : g[s] = e(g, s)
    <3> SUFFICES ASSUME NEW s \in SUBSET (1..n), s # {}
                 PROVE  step[Max(s)][g[s \ {Max(s)}]] = increment(g[s \ {Max(s)}], key(Max(s)))
      BY <2>2 DEF IsFoldOf
    <3>1. Max(s) \in 1..n
      BY <1>2, IntervalMax
    <3>2. g[s \ {Max(s)}] \in T
      BY <2>2 DEF IsFoldOf
    <3> HIDE DEF key, T
    <3> QED BY <3>1, <3>2
  <2>4. g = [s \in SUBSET (DOMAIN items) |-> e(g, s)]
    <3> HIDE DEF e, T, n
    <3> QED BY <1>2, <2>2, <2>3 DEF IsFoldOf
  <2> QED BY <2>4
<1>4. PICK g : IsFold(g) /\ byPriority(items) = g[DOMAIN items]
  <2> HIDE DEF IsFold
  <2> QED BY <1>1, <1>3
<1> DEFINE f == [k \in 0..n |-> g[1..k]]
<1>5. f[0] = NoEntries
  <2>1. 1..0 = {} /\ {} \in SUBSET (1..n) /\ 0 \in 0..n
    BY <1>2
  <2> QED BY <1>2, <1>4, <2>1
<1>6. ASSUME NEW k \in 0..(n - 1) PROVE f[k + 1] = increment(f[k], key(k + 1))
  <2>1. 1..(k + 1) \in SUBSET (1..n) /\ k \in 0..n /\ k + 1 \in 0..n
    BY <1>2
  <2>2. g[1..(k + 1)] = e(g, 1..(k + 1))
    <3> HIDE DEF e
    <3> QED BY <1>2, <1>4, <2>1
  <2>3. e(g, 1..(k + 1)) = increment(g[1..k], key(k + 1))
    <3>1. k \in Nat
      OBVIOUS
    <3>2. Max(1..(k + 1)) = k + 1 /\ (1..(k + 1)) \ {k + 1} = 1..k /\ 1..(k + 1) # {}
      BY <3>1, PrefixTop
    <3> HIDE DEF key
    <3> QED BY <3>2
  <2> HIDE DEF e, key
  <2> QED BY <2>1, <2>2, <2>3
<1>7. byPriority(items) = f[n]
  BY <1>2, <1>4
<1> HIDE DEF f
<1> QED BY <1>5, <1>6, <1>7
-----------------------------------------------------------------------------
(* What the collectors emit.                                               *)

(* The labels of each metric, and the request from whose answer it comes.  *)
keysOf(name) ==
  CASE name = "nsr_alert_info" -> {"priority", "category", "message", "timestamp"}
    [] name = "nsr_alerts_active" -> {"priority"}
    [] name = "nsr_client_info" ->
         {"client_name", "resource_id", "ndmp", "scheduled_backup", "backup_command",
          "operating_system"}
    [] name = "nsr_client_parallelism" -> {"client_name", "resource_id"}
    [] name \in {"nsr_session_active", "nsr_session_bytes",
                 "nsr_session_transfer_bytes_per_second"} -> {"session_type", "client"}
    [] name = "nsr_active_sessions" -> {"session_type"}
    [] name \in {"nsr_volume_capacity_bytes", "nsr_volume_written_bytes"} ->
         {"volume_name", "pool", "type"}
    [] name = "nsr_volume_recycled_total" -> {"volume_name"}
    [] name = "nsr_volume_status" -> {"volume_name", "pool", "status"}
    [] name \in {"nsr_datadomain_capacity_total_bytes", "nsr_datadomain_capacity_used_bytes",
                 "nsr_datadomain_capacity_available_bytes",
                 "nsr_datadomain_logical_capacity_used_bytes"} ->
         {"dd_name", "model", "os_version"}
    [] name = "nsr_device_info" ->
         {"device_name", "media_type", "media_family", "status", "serial"}
    [] name = "nsr_storagenode_info" -> {"node", "enabled", "type", "version"}
    [] name = "nsr_storagenode_device_count" -> {"node"}
    [] name = "nsr_pool_info" -> {"pool", "pool_type", "enabled"}
    [] name = "nsr_vmware_info" -> {"vcenter", "cloud_deployment"}
    [] name = "nsr_policy_enabled" -> {"policy"}
    [] name = "nsr_group_info" -> {"group", "work_item_type"}
    [] name \in {"nsr_backup_source_size_bytes", "nsr_backup_change_size_bytes"} ->
         {"client", "saveset_name", "level"}
    [] name = "nsr_backup_retention_seconds" -> {"client", "saveset_name"}
    [] name \in {"nsr_job_duration_seconds", "nsr_job_bytes_per_second"} ->
         {"client", "job_name"}
    [] name = "nsr_job_status" ->
         {"job_id", "job_name", "job_type", "state", "completion_status", "client", "level"}
    [] name \in {"nsr_job_start_timestamp_seconds", "nsr_job_end_timestamp_seconds"} ->
         {"job_id", "job_name"}
    [] OTHER -> {}

(* Label lists with one label for each of these keys. *)
Labels(K) ==
  {l \in Seq([key : LabelKey, value : GoodValue]) :
     /\ {l[n].key : n \in 1..Len(l)} = K
     /\ \A n, m \in 1..Len(l) : l[n].key = l[m].key => n = m}

Emitted ==
  {s \in Sample :
     /\ s.name \in Catalog \ CycleMetric
     /\ s.help = s.name /\ s.type = newObservable(s.name)
     /\ s.labels \in Labels(keysOf(s.name))}

(* Only the metrics with one sample per item have a series twice. *)
OncePerSeries(p) ==
  \A n, m \in 1..Len(p) : seriesKey(p[n]) = seriesKey(p[m]) => n = m \/ p[n].name \in PerItem

(* Lists of samples of these metrics. *)
Batch(N) ==
  {p \in Seq(Emitted) : (\A n \in 1..Len(p) : p[n].name \in N) /\ OncePerSeries(p)}

LEMMA EmptyBatch == \A N : <<>> \in Batch(N)
<1>1. <<>> \in Seq(Emitted) /\ Len(<<>>) = 0
  OBVIOUS
<1> QED BY <1>1 DEF Batch, OncePerSeries

LEMMA BatchWidens ==
  ASSUME NEW N, NEW M, N \subseteq M
  PROVE  Batch(N) \subseteq Batch(M)
BY DEF Batch

(* Two lists whose series differ make one. *)
LEMMA ApartBatch ==
  ASSUME NEW N, NEW M, NEW p \in Batch(N), NEW t \in Batch(M),
         \A n \in 1..Len(p), m \in 1..Len(t) :
           seriesKey(p[n]) = seriesKey(t[m]) => p[n].name \in PerItem
  PROVE  p \o t \in Batch(N \cup M)
<1> DEFINE a == Len(p)
           b == Len(t)
           r == p \o t
<1>1. p \in Seq(Emitted) /\ t \in Seq(Emitted)
  BY DEF Batch
<1>2. /\ a \in Nat /\ b \in Nat /\ r \in Seq(Emitted) /\ Len(r) = a + b
      /\ \A n \in 1..(a + b) : /\ n <= a => n \in 1..a /\ r[n] = p[n]
                               /\ ~ n <= a => n - a \in 1..b /\ r[n] = t[n - a]
  BY <1>1
<1> HIDE DEF r
<1>3. \A n \in 1..a : p[n].name \in N
  BY DEF Batch
<1>4. \A m \in 1..b : t[m].name \in M
  BY DEF Batch
<1>5. OncePerSeries(p) /\ OncePerSeries(t)
  BY DEF Batch
<1> HIDE DEF a, b
<1>6. \A n \in 1..(a + b) : r[n].name \in N \cup M
  BY <1>2, <1>3, <1>4
<1>7. ASSUME NEW n \in 1..(a + b), NEW m \in 1..(a + b), seriesKey(r[n]) = seriesKey(r[m])
      PROVE  n = m \/ r[n].name \in PerItem
  <2>0. r[n].name = r[m].name
    BY <1>7 DEF seriesKey
  <2>1. CASE n <= a /\ m <= a
    BY <1>2, <1>5, <1>7, <2>1 DEF OncePerSeries, a
  <2>2. CASE ~ n <= a /\ ~ m <= a
    <3>1. n - a = m - a \/ r[n].name \in PerItem
      BY <1>2, <1>5, <1>7, <2>2 DEF OncePerSeries, b
    <3> QED BY <1>2, <3>1
  <2>3. CASE n <= a /\ ~ m <= a
    BY <1>2, <1>7, <2>3 DEF a, b
  <2>4. CASE ~ n <= a /\ m <= a
    BY <1>2, <1>7, <2>0, <2>4 DEF a, b
  <2> QED BY <2>1, <2>2, <2>3, <2>4
<1>8. OncePerSeries(r)
  BY <1>2, <1>7 DEF OncePerSeries
<1> QED BY <1>2, <1>6, <1>8 DEF Batch, r

LEMMA ConcatBatch ==
  ASSUME NEW N, NEW M, NEW p \in Batch(N), NEW t \in Batch(M), N \cap M \subseteq PerItem
  PROVE  p \o t \in Batch(N \cup M)
<1>1. ASSUME NEW n \in 1..Len(p), NEW m \in 1..Len(t), seriesKey(p[n]) = seriesKey(t[m])
      PROVE  p[n].name \in PerItem
  <2>1. p[n].name = t[m].name
    BY <1>1 DEF seriesKey
  <2>2. p[n].name \in N /\ t[m].name \in M
    BY DEF Batch
  <2> QED BY <2>1, <2>2
<1> QED BY <1>1, ApartBatch

(* What is emitted item by item, and entry by entry of a map. *)
LEMMA FlattenBatch ==
  ASSUME NEW N, NEW n \in Nat, NEW q \in [1..n -> Batch(N)],
         \A i_1, i_2 \in 1..n : i_1 # i_2 =>
           \A x \in ToSet(q[i_1]), y \in ToSet(q[i_2]) :
             seriesKey(x) = seriesKey(y) => x.name \in PerItem
  PROVE  FlattenSeq(q) \in Batch(N)
<1> DEFINE part(k) == FlattenSeq(Prefix(q, k))
           U(k) == UNION {ToSet(q[m]) : m \in 1..k}
           D == {k \in 0..n : part(k) \in Batch(N) /\ ToSet(part(k)) = U(k)}
<1>1. 0 \in D
  <2>1. ToSet(<<>>) = {} /\ U(0) = {} /\ 0 \in 0..n
    BY DEF ToSet
  <2> QED BY <2>1, FlattenEmpty, EmptyBatch
<1>0. q \in [1..n -> Seq(Emitted)]
  BY DEF Batch
<1>2. ASSUME NEW k \in 0..(n - 1), k \in D PROVE k + 1 \in D
  <2> DEFINE p == part(k)
             t == q[k + 1]
  <2>0. k + 1 \in 1..n /\ k + 1 \in 0..n
    OBVIOUS
  <2>1. part(k + 1) = p \o t
    BY <1>0, FlattenAppends
  <2>2. p \in Batch(N) /\ t \in Batch(N) /\ ToSet(p) = U(k)
    BY <1>2, <2>0
  <2>3. ASSUME NEW a \in 1..Len(p), NEW b \in 1..Len(t), seriesKey(p[a]) = seriesKey(t[b])
        PROVE  p[a].name \in PerItem
    <3>1. p[a] \in ToSet(p) /\ t[b] \in ToSet(t)
      <4>1. p \in Seq(Emitted) /\ t \in Seq(Emitted)
        BY <2>2 DEF Batch
      <4> HIDE DEF p, t
      <4> QED BY <4>1 DEF ToSet
    <3>2. PICK m \in 1..k : p[a] \in ToSet(q[m])
      <4> HIDE DEF p
      <4> QED BY <2>2, <3>1
    <3>3. m \in 1..n /\ m # k + 1
      OBVIOUS
    <3> HIDE DEF p
    <3> QED BY <2>0, <2>3, <3>1, <3>2, <3>3
  <2>4. p \o t \in Batch(N)
    <3> HIDE DEF p, t
    <3>1. p \o t \in Batch(N \cup N)
      BY <2>2, <2>3, ApartBatch
    <3>2. N \cup N = N
      OBVIOUS
    <3> QED BY <3>1, <3>2
  <2>5. ToSet(p \o t) = ToSet(p) \cup ToSet(t)
    <3> HIDE DEF p, t
    <3>1. p \in Seq(Emitted) /\ t \in Seq(Emitted)
      BY <2>2 DEF Batch
    <3> QED BY <3>1, ConcatRange
  <2>6. U(k + 1) = U(k) \cup ToSet(t)
    <3>1. 1..(k + 1) = 1..k \cup {k + 1}
      OBVIOUS
    <3> QED BY <3>1
  <2> HIDE DEF p, t, part, U
  <2> QED BY <2>0, <2>1, <2>2, <2>4, <2>5, <2>6
<1>3. n \in D
  <2> HIDE DEF D
  <2>1. \A k \in 0..n : k \in D
    BY <1>1, <1>2, IntervalInduction
  <2> QED BY <2>1
<1>4. Prefix(q, n) = q
  BY DEF Prefix
<1> QED BY <1>3, <1>4

-----------------------------------------------------------------------------
(* Lists of labels. *)

LEMMA NoLabels == <<>> \in Labels({})
<1>1. <<>> \in Seq([key : LabelKey, value : GoodValue]) /\ Len(<<>>) = 0
  OBVIOUS
<1> QED BY <1>1 DEF Labels

LEMMA Labels1 ==
  ASSUME NEW a \in LabelKey,
         NEW x \in GoodValue
  PROVE  <<lbl(a, x)>> \in Labels({a})
<1> DEFINE T == [key : LabelKey, value : GoodValue]
           l == <<lbl(a, x)>>
<1>1. lbl(a, x) \in T
  BY DEF lbl
<1>2. l \in Seq(T) /\ Len(l) = 1
  <2> HIDE DEF T
  <2> QED BY <1>1
<1>3. l[1].key = a
  BY DEF lbl
<1> HIDE DEF l
<1>4. \A n \in 1..1 : n = 1
  OBVIOUS
<1>5. {l[n].key : n \in 1..1} = {a}
  BY <1>3, <1>4
<1>6. \A n, m \in 1..1 : l[n].key = l[m].key => n = m
  BY <1>3, <1>4
<1>7. l \in Labels({a})
  BY <1>2, <1>5, <1>6 DEF Labels
<1> QED BY <1>7 DEF l

LEMMA Labels2 ==
  ASSUME NEW a \in LabelKey, NEW b \in LabelKey,
         a # b,
         NEW x \in GoodValue, NEW y \in GoodValue
  PROVE  <<lbl(a, x), lbl(b, y)>> \in Labels({a, b})
<1> DEFINE T == [key : LabelKey, value : GoodValue]
           l == <<lbl(a, x), lbl(b, y)>>
<1>1. lbl(a, x) \in T /\ lbl(b, y) \in T
  BY DEF lbl
<1>2. l \in Seq(T) /\ Len(l) = 2
  <2> HIDE DEF T
  <2> QED BY <1>1
<1>3. l[1].key = a /\ l[2].key = b
  BY DEF lbl
<1> HIDE DEF l
<1>4. \A n \in 1..2 : n = 1 \/ n = 2
  OBVIOUS
<1>5. {l[n].key : n \in 1..2} = {a, b}
  BY <1>3, <1>4
<1>6. \A n, m \in 1..2 : l[n].key = l[m].key => n = m
  BY <1>3, <1>4
<1>7. l \in Labels({a, b})
  BY <1>2, <1>5, <1>6 DEF Labels
<1> QED BY <1>7 DEF l

LEMMA Labels3 ==
  ASSUME NEW a \in LabelKey, NEW b \in LabelKey, NEW c \in LabelKey,
         a # b, c \notin {a, b},
         NEW x \in GoodValue, NEW y \in GoodValue, NEW z \in GoodValue
  PROVE  <<lbl(a, x), lbl(b, y), lbl(c, z)>> \in Labels({a, b, c})
<1> DEFINE T == [key : LabelKey, value : GoodValue]
           l == <<lbl(a, x), lbl(b, y), lbl(c, z)>>
<1>1. lbl(a, x) \in T /\ lbl(b, y) \in T /\ lbl(c, z) \in T
  BY DEF lbl
<1>2. l \in Seq(T) /\ Len(l) = 3
  <2> HIDE DEF T
  <2> QED BY <1>1
<1>3. l[1].key = a /\ l[2].key = b /\ l[3].key = c
  BY DEF lbl
<1> HIDE DEF l
<1>4. \A n \in 1..3 : n = 1 \/ n = 2 \/ n = 3
  OBVIOUS
<1>5. {l[n].key : n \in 1..3} = {a, b, c}
  BY <1>3, <1>4
<1>6. \A n, m \in 1..3 : l[n].key = l[m].key => n = m
  BY <1>3, <1>4
<1>7. l \in Labels({a, b, c})
  BY <1>2, <1>5, <1>6 DEF Labels
<1> QED BY <1>7 DEF l

LEMMA Labels4 ==
  ASSUME NEW a \in LabelKey, NEW b \in LabelKey, NEW c \in LabelKey,
         NEW d \in LabelKey,
         a # b, c \notin {a, b}, d \notin {a, b, c},
         NEW x \in GoodValue, NEW y \in GoodValue, NEW z \in GoodValue,
         NEW w \in GoodValue
  PROVE  <<lbl(a, x), lbl(b, y), lbl(c, z), lbl(d, w)>> \in Labels({a, b, c, d})
<1> DEFINE T == [key : LabelKey, value : GoodValue]
           l == <<lbl(a, x), lbl(b, y), lbl(c, z), lbl(d, w)>>
<1>1. lbl(a, x) \in T /\ lbl(b, y) \in T /\ lbl(c, z) \in T /\ lbl(d, w) \in T
  BY DEF lbl
<1>2. l \in Seq(T) /\ Len(l) = 4
  <2> HIDE DEF T
  <2> QED BY <1>1
<1>3. l[1].key = a /\ l[2].key = b /\ l[3].key = c /\ l[4].key = d
  BY DEF lbl
<1> HIDE DEF l
<1>4. \A n \in 1..4 : n = 1 \/ n = 2 \/ n = 3 \/ n = 4
  OBVIOUS
<1>5. {l[n].key : n \in 1..4} = {a, b, c, d}
  BY <1>3, <1>4
<1>6. \A n, m \in 1..4 : l[n].key = l[m].key => n = m
  BY <1>3, <1>4
<1>7. l \in Labels({a, b, c, d})
  BY <1>2, <1>5, <1>6 DEF Labels
<1> QED BY <1>7 DEF l

LEMMA Labels5 ==
  ASSUME NEW a \in LabelKey, NEW b \in LabelKey, NEW c \in LabelKey,
         NEW d \in LabelKey, NEW e \in LabelKey,
         a # b, c \notin {a, b}, d \notin {a, b, c}, e \notin {a, b, c, d},
         NEW x \in GoodValue, NEW y \in GoodValue, NEW z \in GoodValue,
         NEW w \in GoodValue, NEW u \in GoodValue
  PROVE  <<lbl(a, x), lbl(b, y), lbl(c, z), lbl(d, w), lbl(e, u)>> \in Labels({a, b, c, d, e})
<1> DEFINE T == [key : LabelKey, value : GoodValue]
           l == <<lbl(a, x), lbl(b, y), lbl(c, z), lbl(d, w), lbl(e, u)>>
<1>1. lbl(a, x) \in T /\ lbl(b, y) \in T /\ lbl(c, z) \in T /\ lbl(d, w) \in T /\ lbl(e, u) \in T
  BY DEF lbl
<1>2. l \in Seq(T) /\ Len(l) = 5
  <2> HIDE DEF T
  <2> QED BY <1>1
<1>3. l[1].key = a /\ l[2].key = b /\ l[3].key = c /\ l[4].key = d /\ l[5].key = e
  BY DEF lbl
<1> HIDE DEF l
<1>4. \A n \in 1..5 : n = 1 \/ n = 2 \/ n = 3 \/ n = 4 \/ n = 5
  OBVIOUS
<1>5. {l[n].key : n \in 1..5} = {a, b, c, d, e}
  BY <1>3, <1>4
<1>6. \A n, m \in 1..5 : l[n].key = l[m].key => n = m
  BY <1>3, <1>4
<1>7. l \in Labels({a, b, c, d, e})
  BY <1>2, <1>5, <1>6 DEF Labels
<1> QED BY <1>7 DEF l

LEMMA ConcatLabels ==
  ASSUME NEW K, NEW L, NEW p \in Labels(K), NEW t \in Labels(L), K \cap L = {}
  PROVE  p \o t \in Labels(K \cup L)
<1> DEFINE a == Len(p)
           b == Len(t)
           r == p \o t
           T == [key : LabelKey, value : GoodValue]
<1>1. /\ p \in Seq(T) /\ {p[n].key : n \in 1..a} = K
      /\ \A n, m \in 1..a : p[n].key = p[m].key => n = m
  BY DEF Labels
<1>2. /\ t \in Seq(T) /\ {t[n].key : n \in 1..b} = L
      /\ \A n, m \in 1..b : t[n].key = t[m].key => n = m
  BY DEF Labels
<1> HIDE DEF T
<1>3. /\ a \in Nat /\ b \in Nat /\ r \in Seq(T) /\ Len(r) = a + b
      /\ \A n \in 1..(a + b) : /\ n <= a => n \in 1..a /\ r[n] = p[n]
                               /\ ~ n <= a => n - a \in 1..b /\ r[n] = t[n - a]
  BY <1>1, <1>2
<1>4. \A n \in 1..a : n \in 1..(a + b) /\ r[n] = p[n]
  BY <1>3
<1>5. \A n \in 1..b : n + a \in 1..(a + b) /\ r[n + a] = t[n]
  BY <1>3
<1> HIDE DEF r, a, b
<1>6. {r[n].key : n \in 1..(a + b)} = K \cup L
  <2>1. \A n \in 1..(a + b) : r[n].key \in K \cup L
    BY <1>1, <1>2, <1>3
  <2>2. \A k \in K : \E n \in 1..(a + b) : r[n].key = k
    BY <1>1, <1>4
  <2>3. \A k \in L : \E n \in 1..(a + b) : r[n].key = k
    BY <1>2, <1>5
  <2> QED BY <2>1, <2>2, <2>3
<1>7. ASSUME NEW n \in 1..(a + b), NEW m \in 1..(a + b), r[n].key = r[m].key
      PROVE  n = m
  <2>1. CASE n <= a /\ m <= a
    BY <1>1, <1>3, <1>7, <2>1
  <2>2. CASE ~ n <= a /\ ~ m <= a
    <3>1. n - a = m - a
      BY <1>2, <1>3, <1>7, <2>2, ZenonT(60)
    <3> QED BY <1>3, <3>1
  <2>3. CASE n <= a /\ ~ m <= a
    <3>1. p[n].key \in K /\ t[m - a].key \in L
      BY <1>1, <1>2, <1>3, <2>3
    <3> QED BY <1>3, <1>7, <2>3, <3>1
  <2>4. CASE ~ n <= a /\ m <= a
    <3>1. p[m].key \in K /\ t[n - a].key \in L
      BY <1>1, <1>2, <1>3, <2>4
    <3> QED BY <1>3, <1>7, <2>4, <3>1
  <2> QED BY <2>1, <2>2, <2>3, <2>4
<1> QED BY <1>3, <1>6, <1>7 DEF Labels, r, T

-----------------------------------------------------------------------------
(* One sample. *)

LEMMA GoodTexts ==
  /\ \A v \in Text : text(v) \in GoodValue
  /\ \A v \in Text : text(v) # "" => v \in GoodValue
  /\ \A v : FormatBool(v) \in GoodValue
BY SamplesAssumption DEF Text, text, FormatBool

LEMMA SampleEmitted ==
  ASSUME NEW name \in Catalog \ CycleMetric, NEW v \in Nat,
         NEW labels \in Labels(keysOf(name))
  PROVE  [name |-> name, help |-> name, type |-> newObservable(name), labels |-> labels,
          value |-> v] \in Emitted
<1> DEFINE T == [key : LabelKey, value : GoodValue]
<1>1. T \subseteq Label
  BY SamplesAssumption, LabelsAssumption DEF Label
<1>2. labels \in Seq(T)
  BY DEF Labels
<1>3. labels \in Seq(Label)
  <2> HIDE DEF T
  <2> QED BY <1>1, <1>2
<1>4. name \in Name /\ name \in Help
  BY SamplesAssumption
<1>5. newObservable(name) \in MetricType
  BY DEF newObservable, MetricType
<1> QED BY <1>3, <1>4, <1>5 DEF Emitted, Sample

LEMMA SingleBatch ==
  ASSUME NEW s \in Emitted
  PROVE  <<s>> \in Batch({s.name})
<1>1. <<s>> \in Seq(Emitted) /\ Len(<<s>>) = 1
  OBVIOUS
<1> QED BY <1>1 DEF Batch, OncePerSeries

LEMMA GaugeBatch ==
  ASSUME NEW name \in CatalogGauges \ CycleMetric, NEW v \in Nat,
         NEW labels \in Labels(keysOf(name))
  PROVE  gauge(name, v, labels) \in Batch({name})
<1> DEFINE s == [name |-> name, help |-> name, type |-> newObservable(name),
                 labels |-> labels, value |-> v]
<1>1. name \in Catalog \ CycleMetric
  BY DEF Catalog
<1>2. s \in Emitted /\ s.name = name
  BY <1>1, SampleEmitted
<1>3. newObservable(name) = "Gauge"
  BY DEF newObservable, CatalogGauges, CatalogCounters
<1>4. gauge(name, v, labels) = <<s>>
  BY <1>3 DEF gauge
<1> HIDE DEF s
<1> QED BY <1>2, <1>4, SingleBatch

LEMMA CounterBatch ==
  ASSUME NEW name \in CatalogCounters, NEW v \in Nat,
         NEW labels \in Labels(keysOf(name))
  PROVE  counter(name, v, labels) \in Batch({name})
<1> DEFINE s == [name |-> name, help |-> name, type |-> newObservable(name),
                 labels |-> labels, value |-> v]
<1>1. name \in Catalog \ CycleMetric
  BY DEF Catalog, CatalogCounters, CycleMetric, upName, durationName, guardMetric
<1>2. s \in Emitted /\ s.name = name
  BY <1>1, SampleEmitted
<1>3. newObservable(name) = "Counter"
  BY DEF newObservable
<1>4. counter(name, v, labels) = <<s>>
  BY <1>3 DEF counter
<1> HIDE DEF s
<1> QED BY <1>2, <1>4, SingleBatch

(* What is readable is a number. *)
LEMMA ReadingsAreNumbers ==
  /\ \A v \in Number : v # Absent => v \in Nat
  /\ \A v \in Size : Bytes(v).ok => Bytes(v).value \in Nat
  /\ \A v \in HumanSize : parseHumanSize(v).ok => parseHumanSize(v).value \in Nat
  /\ \A v \in Time : parseTime(v).ok => parseTime(v).value \in Nat
<1>1. \A v \in Number : v # Absent => v \in Nat
  BY QuantityAssumption DEF Number
<1>2. ASSUME NEW v \in Size, Bytes(v).ok PROVE Bytes(v).value \in Nat
  <2>1. v # Absent /\ v.unit # "other"
    BY <1>2 DEF Bytes, NoReading
  <2>2. v.value \in Amount \cup {Absent}
    BY <2>1 DEF Size
  <2>3. decoded(v) \in Nat
    BY <2>2, QuantityAssumption DEF decoded
  <2>4. Bytes(v).value = IF v.unit = "KB" THEN decoded(v) * 1024 ELSE decoded(v)
    BY <2>1 DEF Bytes, Reading
  <2> QED BY <2>3, <2>4
<1>3. ASSUME NEW v \in HumanSize, parseHumanSize(v).ok PROVE parseHumanSize(v).value \in Nat
  <2>1. v # Absent /\ v.unit \in DOMAIN humanSizeUnits /\ v.value # Absent
    BY <1>3 DEF parseHumanSize, NoReading
  <2>2. v.value \in Nat
    BY <2>1, QuantityAssumption DEF HumanSize
  <2>3. humanSizeUnits[v.unit] \in Nat
    BY <2>1 DEF humanSizeUnits
  <2>4. parseHumanSize(v).value = v.value * humanSizeUnits[v.unit]
    BY <2>1 DEF parseHumanSize, Reading
  <2> HIDE DEF humanSizeUnits
  <2> QED BY <2>2, <2>3, <2>4
<1>4. ASSUME NEW v \in Time, parseTime(v).ok PROVE parseTime(v).value \in Nat
  BY <1>4, QuantityAssumption DEF Time, parseTime, NoReading, Reading
<1> QED BY <1>1, <1>2, <1>3, <1>4

-----------------------------------------------------------------------------
(* A sample, unless there is nothing to read. *)

LEMMA EmitGaugeBatch ==
  ASSUME NEW name \in CatalogGauges \ CycleMetric, NEW v \in Number,
         NEW labels \in Labels(keysOf(name))
  PROVE  emitGauge(name, v, labels) \in Batch({name})
BY GaugeBatch, EmptyBatch, ReadingsAreNumbers DEF emitGauge

LEMMA EmitCounterBatch ==
  ASSUME NEW name \in CatalogCounters, NEW v \in Number,
         NEW labels \in Labels(keysOf(name))
  PROVE  emitCounter(name, v, labels) \in Batch({name})
BY CounterBatch, EmptyBatch, ReadingsAreNumbers DEF emitCounter

LEMMA EmitReadingBatch ==
  ASSUME NEW name \in CatalogGauges \ CycleMetric, NEW r, r.ok => r.value \in Nat,
         NEW labels \in Labels(keysOf(name))
  PROVE  emitReading(name, r, labels) \in Batch({name})
BY GaugeBatch, EmptyBatch DEF emitReading

LEMMA EmitSizeCounterBatch ==
  ASSUME NEW name \in CatalogCounters, NEW s \in Size,
         NEW labels \in Labels(keysOf(name))
  PROVE  emitSizeCounter(name, s, labels) \in Batch({name})
BY CounterBatch, EmptyBatch, ReadingsAreNumbers DEF emitSizeCounter

LEMMA EmitHumanSizeBatch ==
  ASSUME NEW name \in CatalogGauges \ CycleMetric, NEW s \in HumanSize,
         NEW labels \in Labels(keysOf(name))
  PROVE  emitHumanSize(name, s, labels) \in Batch({name})
BY EmitReadingBatch, ReadingsAreNumbers DEF emitHumanSize

LEMMA TwoBatches ==
  ASSUME NEW a, NEW b, a # b, NEW p \in Batch({a}), NEW t \in Batch({b})
  PROVE  p \o t \in Batch({a, b})
<1>1. {a} \cap {b} = {} /\ {a} \cup {b} = {a, b}
  OBVIOUS
<1> QED BY <1>1, ConcatBatch

LEMMA OneMoreBatch ==
  ASSUME NEW N, NEW b, b \notin N, NEW p \in Batch(N), NEW t \in Batch({b})
  PROVE  p \o t \in Batch(N \cup {b})
<1>1. N \cap {b} = {}
  OBVIOUS
<1> QED BY <1>1, ConcatBatch

(* What is emitted item by item. *)
LEMMA EachBatch ==
  ASSUME NEW N, N \subseteq PerItem, NEW n \in Nat, NEW q \in [1..n -> Batch(N)]
  PROVE  FlattenSeq(q) \in Batch(N)
<1>1. ASSUME NEW m \in 1..n, NEW x \in ToSet(q[m]) PROVE x.name \in PerItem
  <2>1. q[m] \in Batch(N)
    OBVIOUS
  <2>2. q[m] \in Seq(Emitted) /\ \A k \in 1..Len(q[m]) : q[m][k].name \in N
    BY <2>1 DEF Batch
  <2> QED BY <2>2 DEF ToSet
<1> QED BY <1>1, FlattenBatch

-----------------------------------------------------------------------------
(* The samples of one item. *)

LEMMA AlertBatch ==
  ASSUME NEW a \in Item["alerts"]
  PROVE  alertSamples(a) \in Batch({"nsr_alert_info"})
<1> DEFINE K == {"priority", "category", "message", "timestamp"}
<1>1. "nsr_alert_info" \in CatalogGauges \ CycleMetric /\ keysOf("nsr_alert_info") = K
  BY DEF keysOf, CatalogGauges, CycleMetric, upName, durationName, guardMetric
<1>2. \A f \in {"priority", "category", "message", "timestamp"} : a[f] \in Text
  BY DEF Item
<1>3. /\ text(a.priority) \in GoodValue /\ text(a.category) \in GoodValue
      /\ text(a.message) \in GoodValue /\ text(a.timestamp) \in GoodValue
  BY <1>2, GoodTexts
<1>4. K \subseteq LabelKey
  BY DEF LabelKey
<1>5. <<lbl("priority", text(a.priority)), lbl("category", text(a.category)),
        lbl("message", text(a.message)), lbl("timestamp", text(a.timestamp))>> \in Labels(K)
  BY <1>3, <1>4, Labels4
<1> QED BY <1>1, <1>5, GaugeBatch DEF alertSamples

LEMMA ClientBatch ==
  ASSUME NEW cl \in Item["clients"]
  PROVE  clientSamples(cl) \in Batch({"nsr_client_info", "nsr_client_parallelism"})
<1> DEFINE K == {"client_name", "resource_id"}
           L == {"ndmp", "scheduled_backup", "backup_command", "operating_system"}
           id == <<lbl("client_name", cl.hostname), lbl("resource_id", text(cl.resourceId))>>
           more == <<lbl("ndmp", FormatBool(cl.ndmp)),
                     lbl("scheduled_backup", FormatBool(cl.scheduledBackup)),
                     lbl("backup_command", text(cl.backupCommand)),
                     lbl("operating_system", text(cl.os))>>
<1>1. /\ "nsr_client_info" \in CatalogGauges \ CycleMetric
      /\ keysOf("nsr_client_info") = K \cup L
  BY DEF keysOf, CatalogGauges, CycleMetric, upName, durationName, guardMetric
<1>2. /\ "nsr_client_parallelism" \in CatalogGauges \ CycleMetric
      /\ keysOf("nsr_client_parallelism") = K
  BY DEF keysOf, CatalogGauges, CycleMetric, upName, durationName, guardMetric
<1>3. /\ cl.hostname \in Text /\ cl.resourceId \in Text /\ cl.backupCommand \in Text
      /\ cl.os \in Text /\ cl.parallelism \in Number
  BY DEF Item
<1>4. K \subseteq LabelKey /\ L \subseteq LabelKey /\ K \cap L = {}
  BY DEF LabelKey
<1>5. CASE text(cl.hostname) # ""
  <2>1. id \in Labels(K)
    BY <1>3, <1>4, <1>5, GoodTexts, Labels2
  <2>2. more \in Labels(L)
    BY <1>3, <1>4, GoodTexts, Labels4
  <2>3. id \o more \in Labels(K \cup L)
    <3> HIDE DEF id, more, K, L
    <3> QED BY <2>1, <2>2, <1>4, ConcatLabels
  <2>4. gauge("nsr_client_info", 1, id \o more) \in Batch({"nsr_client_info"})
    BY <1>1, <2>3, GaugeBatch
  <2>5. emitGauge("nsr_client_parallelism", cl.parallelism, id)
          \in Batch({"nsr_client_parallelism"})
    BY <1>2, <1>3, <2>1, EmitGaugeBatch
  <2> QED BY <1>5, <2>4, <2>5, TwoBatches DEF clientSamples
<1> QED BY <1>5, EmptyBatch DEF clientSamples

LEMMA VolumeBatch ==
  ASSUME NEW v \in Item["volumes"]
  PROVE  volumeSamples(v)
           \in Batch({"nsr_volume_capacity_bytes", "nsr_volume_written_bytes",
                      "nsr_volume_recycled_total", "nsr_volume_status"})
<1> DEFINE name == lbl("volume_name", text(v.name))
           pool == lbl("pool", text(v.pool))
           vl == <<name, pool, lbl("type", text(v.type))>>
           c == emitReading("nsr_volume_capacity_bytes", Bytes(v.capacity), vl)
           w == emitReading("nsr_volume_written_bytes", Bytes(v.written), vl)
           r == emitCounter("nsr_volume_recycled_total", v.recycled, <<name>>)
           s == IF v.states = Absent THEN <<>>
                ELSE gauge("nsr_volume_status", 1, <<name, pool, lbl("status", v.states)>>)
<1>1. \A n \in {"nsr_volume_capacity_bytes", "nsr_volume_written_bytes"} :
        n \in CatalogGauges \ CycleMetric /\ keysOf(n) = {"volume_name", "pool", "type"}
  BY DEF keysOf, CatalogGauges, CycleMetric, upName, durationName, guardMetric
<1>2. /\ "nsr_volume_recycled_total" \in CatalogCounters
      /\ keysOf("nsr_volume_recycled_total") = {"volume_name"}
  BY DEF keysOf, CatalogCounters
<1>3. /\ "nsr_volume_status" \in CatalogGauges \ CycleMetric
      /\ keysOf("nsr_volume_status") = {"volume_name", "pool", "status"}
  BY DEF keysOf, CatalogGauges, CycleMetric, upName, durationName, guardMetric
<1>4. /\ v.name \in Text /\ v.pool \in Text /\ v.type \in Text /\ v.states \in Text
      /\ v.capacity \in Size /\ v.written \in Size /\ v.recycled \in Number
  BY DEF Item
<1>5. {"volume_name", "pool", "type", "status"} \subseteq LabelKey
  BY DEF LabelKey
<1>6. vl \in Labels({"volume_name", "pool", "type"}) /\ <<name>> \in Labels({"volume_name"})
  BY <1>4, <1>5, GoodTexts, Labels1, Labels3
<1>7. c \in Batch({"nsr_volume_capacity_bytes"}) /\ w \in Batch({"nsr_volume_written_bytes"})
  BY <1>1, <1>4, <1>6, EmitReadingBatch, ReadingsAreNumbers
<1>8. r \in Batch({"nsr_volume_recycled_total"})
  BY <1>2, <1>4, <1>6, EmitCounterBatch
<1>9. s \in Batch({"nsr_volume_status"})
  <2>1. CASE v.states # Absent
    <3>1. v.states \in GoodValue
      BY <1>4, <2>1 DEF Text
    <3>2. <<name, pool, lbl("status", v.states)>> \in Labels({"volume_name", "pool", "status"})
      BY <1>4, <1>5, <3>1, GoodTexts, Labels3
    <3> QED BY <1>3, <2>1, <3>2, GaugeBatch
  <2> QED BY <2>1, EmptyBatch
<1>10. volumeSamples(v) = c \o w \o r \o s
  BY DEF volumeSamples
<1> HIDE DEF c, w, r, s
<1>11. c \o w \in Batch({"nsr_volume_capacity_bytes", "nsr_volume_written_bytes"})
  BY <1>7, TwoBatches
<1>12. c \o w \o r \in Batch({"nsr_volume_capacity_bytes", "nsr_volume_written_bytes"}
                             \cup {"nsr_volume_recycled_total"})
  BY <1>8, <1>11, OneMoreBatch
<1>13. c \o w \o r \o s \in Batch({"nsr_volume_capacity_bytes", "nsr_volume_written_bytes"}
                                  \cup {"nsr_volume_recycled_total"}
                                  \cup {"nsr_volume_status"})
  BY <1>9, <1>12, OneMoreBatch
<1>14. {"nsr_volume_capacity_bytes", "nsr_volume_written_bytes"}
         \cup {"nsr_volume_recycled_total"} \cup {"nsr_volume_status"}
       = {"nsr_volume_capacity_bytes", "nsr_volume_written_bytes",
          "nsr_volume_recycled_total", "nsr_volume_status"}
  OBVIOUS
<1> QED BY <1>10, <1>13, <1>14

LEMMA DataDomainBatch ==
  ASSUME NEW d \in Item["datadomainsystems"]
  PROVE  datadomainSamples(d)
           \in Batch({"nsr_datadomain_capacity_total_bytes",
                      "nsr_datadomain_capacity_used_bytes",
                      "nsr_datadomain_capacity_available_bytes",
                      "nsr_datadomain_logical_capacity_used_bytes"})
<1> DEFINE K == {"dd_name", "model", "os_version"}
           T == "nsr_datadomain_capacity_total_bytes"
           U == "nsr_datadomain_capacity_used_bytes"
           A == "nsr_datadomain_capacity_available_bytes"
           G == "nsr_datadomain_logical_capacity_used_bytes"
           dl == <<lbl("dd_name", text(d.name)), lbl("model", text(d.model)),
                   lbl("os_version", text(d.osVersion))>>
           t == emitHumanSize(T, d.totalCapacity, dl)
           u == emitHumanSize(U, d.usedCapacity, dl)
           a == emitHumanSize(A, d.availableCapacity, dl)
           g == emitHumanSize(G, d.usedLogicalCapacity, dl)
<1>1. \A n \in {T, U, A, G} : n \in CatalogGauges \ CycleMetric /\ keysOf(n) = K
  BY DEF keysOf, CatalogGauges, CycleMetric, upName, durationName, guardMetric
<1>2. /\ d.name \in Text /\ d.model \in Text /\ d.osVersion \in Text
      /\ d.totalCapacity \in HumanSize /\ d.usedCapacity \in HumanSize
      /\ d.availableCapacity \in HumanSize /\ d.usedLogicalCapacity \in HumanSize
  BY DEF Item
<1>3. dl \in Labels(K)
  <2>1. K \subseteq LabelKey
    BY DEF LabelKey
  <2> QED BY <1>2, <2>1, GoodTexts, Labels3
<1> HIDE DEF K, dl
<1>4. t \in Batch({T}) /\ u \in Batch({U}) /\ a \in Batch({A}) /\ g \in Batch({G})
  BY <1>1, <1>2, <1>3, EmitHumanSizeBatch
<1>5. datadomainSamples(d) = t \o u \o a \o g
  BY DEF datadomainSamples, dl
<1> HIDE DEF t, u, a, g
<1>6. t \o u \in Batch({T, U})
  BY <1>4, TwoBatches
<1>7. t \o u \o a \in Batch({T, U} \cup {A})
  BY <1>4, <1>6, OneMoreBatch
<1>8. t \o u \o a \o g \in Batch({T, U} \cup {A} \cup {G})
  BY <1>4, <1>7, OneMoreBatch
<1>9. {T, U} \cup {A} \cup {G} = {T, U, A, G}
  OBVIOUS
<1> QED BY <1>5, <1>8, <1>9

LEMMA DeviceBatch ==
  ASSUME NEW d \in Item["devices"]
  PROVE  deviceSamples(d) \in Batch({"nsr_device_info"})
<1> DEFINE K == {"device_name", "media_type", "media_family", "status", "serial"}
           dl == <<lbl("device_name", d.name), lbl("media_type", text(d.mediaType)),
                   lbl("media_family", text(d.mediaFamily)), lbl("status", text(d.status)),
                   lbl("serial", text(d.deviceSerialNumber))>>
<1>1. "nsr_device_info" \in CatalogGauges \ CycleMetric /\ keysOf("nsr_device_info") = K
  BY DEF keysOf, CatalogGauges, CycleMetric, upName, durationName, guardMetric
<1>2. /\ d.name \in Text /\ d.mediaType \in Text /\ d.mediaFamily \in Text
      /\ d.status \in Text /\ d.deviceSerialNumber \in Text
  BY DEF Item
<1>3. CASE text(d.name) # ""
  <2>1. K \subseteq LabelKey
    BY DEF LabelKey
  <2>2. dl \in Labels(K)
    BY <1>2, <1>3, <2>1, GoodTexts, Labels5
  <2> QED BY <1>1, <1>3, <2>2, GaugeBatch DEF deviceSamples
<1> QED BY <1>3, EmptyBatch DEF deviceSamples

LEMMA StorageNodeBatch ==
  ASSUME NEW n \in Item["storagenodes"]
  PROVE  storageNodeSamples(n)
           \in Batch({"nsr_storagenode_info", "nsr_storagenode_device_count"})
<1> DEFINE K == {"node", "enabled", "type", "version"}
           nl == <<lbl("node", n.name), lbl("enabled", FormatBool(n.enabled)),
                   lbl("type", text(n.typeOfStorageNode)), lbl("version", text(n.version))>>
<1>1. /\ "nsr_storagenode_info" \in CatalogGauges \ CycleMetric
      /\ keysOf("nsr_storagenode_info") = K
  BY DEF keysOf, CatalogGauges, CycleMetric, upName, durationName, guardMetric
<1>2. /\ "nsr_storagenode_device_count" \in CatalogGauges \ CycleMetric
      /\ keysOf("nsr_storagenode_device_count") = {"node"}
  BY DEF keysOf, CatalogGauges, CycleMetric, upName, durationName, guardMetric
<1>3. /\ n.name \in Text /\ n.typeOfStorageNode \in Text /\ n.version \in Text
      /\ n.numberOfDevices \in Number
  BY DEF Item
<1>4. CASE text(n.name) # ""
  <2>1. K \subseteq LabelKey
    BY DEF LabelKey
  <2>2. nl \in Labels(K) /\ <<lbl("node", n.name)>> \in Labels({"node"})
    BY <1>3, <1>4, <2>1, GoodTexts, Labels1, Labels4
  <2>3. gauge("nsr_storagenode_info", 1, nl) \in Batch({"nsr_storagenode_info"})
    BY <1>1, <2>2, GaugeBatch
  <2>4. emitGauge("nsr_storagenode_device_count", n.numberOfDevices, <<lbl("node", n.name)>>)
          \in Batch({"nsr_storagenode_device_count"})
    BY <1>2, <1>3, <2>2, EmitGaugeBatch
  <2> QED BY <1>4, <2>3, <2>4, TwoBatches DEF storageNodeSamples
<1> QED BY <1>4, EmptyBatch DEF storageNodeSamples

LEMMA PoolBatch ==
  ASSUME NEW p \in Item["pools"]
  PROVE  poolSamples(p) \in Batch({"nsr_pool_info"})
<1> DEFINE K == {"pool", "pool_type", "enabled"}
           pl == <<lbl("pool", p.name), lbl("pool_type", text(p.poolType)),
                   lbl("enabled", FormatBool(p.enabled))>>
<1>1. "nsr_pool_info" \in CatalogGauges \ CycleMetric /\ keysOf("nsr_pool_info") = K
  BY DEF keysOf, CatalogGauges, CycleMetric, upName, durationName, guardMetric
<1>2. p.name \in Text /\ p.poolType \in Text
  BY DEF Item
<1>3. CASE text(p.name) # ""
  <2>1. K \subseteq LabelKey
    BY DEF LabelKey
  <2>2. pl \in Labels(K)
    BY <1>2, <1>3, <2>1, GoodTexts, Labels3
  <2> QED BY <1>1, <1>3, <2>2, GaugeBatch DEF poolSamples
<1> QED BY <1>3, EmptyBatch DEF poolSamples

LEMMA VCenterBatch ==
  ASSUME NEW v \in Item["vcenters"]
  PROVE  vcenterSamples(v) \in Batch({"nsr_vmware_info"})
<1> DEFINE K == {"vcenter", "cloud_deployment"}
           vl == <<lbl("vcenter", v.hostname),
                   lbl("cloud_deployment", FormatBool(v.cloudDeployment))>>
<1>1. "nsr_vmware_info" \in CatalogGauges \ CycleMetric /\ keysOf("nsr_vmware_info") = K
  BY DEF keysOf, CatalogGauges, CycleMetric, upName, durationName, guardMetric
<1>2. v.hostname \in Text
  BY DEF Item
<1>3. CASE text(v.hostname) # ""
  <2>1. K \subseteq LabelKey
    BY DEF LabelKey
  <2>2. vl \in Labels(K)
    BY <1>2, <1>3, <2>1, GoodTexts, Labels2
  <2> QED BY <1>1, <1>3, <2>2, GaugeBatch DEF vcenterSamples
<1> QED BY <1>3, EmptyBatch DEF vcenterSamples

LEMMA PolicyBatch ==
  ASSUME NEW p \in Item["protectionpolicies"]
  PROVE  policySamples(p) \in Batch({"nsr_policy_enabled"})
<1> DEFINE pl == <<lbl("policy", p.name)>>
           e == IF p.workflows # Absent /\ TRUE \in ToSet(p.workflows) THEN 1 ELSE 0
<1>1. /\ "nsr_policy_enabled" \in CatalogGauges \ CycleMetric
      /\ keysOf("nsr_policy_enabled") = {"policy"}
  BY DEF keysOf, CatalogGauges, CycleMetric, upName, durationName, guardMetric
<1>2. p.name \in Text
  BY DEF Item
<1>3. CASE text(p.name) # ""
  <2>1. pl \in Labels({"policy"})
    BY <1>2, <1>3, GoodTexts, Labels1 DEF LabelKey
  <2>2. gauge("nsr_policy_enabled", e, pl) \in Batch({"nsr_policy_enabled"})
    BY <1>1, <2>1, GaugeBatch
  <2> QED BY <1>3, <2>2 DEF policySamples
<1> QED BY <1>3, EmptyBatch DEF policySamples

LEMMA GroupBatch ==
  ASSUME NEW g \in Item["protectiongroups"]
  PROVE  groupInfo(g) \in Batch({"nsr_group_info"})
<1> DEFINE K == {"group", "work_item_type"}
           gl == <<lbl("group", g.name), lbl("work_item_type", text(g.workItemType))>>
<1>1. "nsr_group_info" \in CatalogGauges \ CycleMetric /\ keysOf("nsr_group_info") = K
  BY DEF keysOf, CatalogGauges, CycleMetric, upName, durationName, guardMetric
<1>2. g.name \in Text /\ g.workItemType \in Text
  BY DEF Item
<1>3. CASE text(g.name) # ""
  <2>1. K \subseteq LabelKey
    BY DEF LabelKey
  <2>2. gl \in Labels(K)
    BY <1>2, <1>3, <2>1, GoodTexts, Labels2
  <2> QED BY <1>1, <1>3, <2>2, GaugeBatch DEF groupInfo
<1> QED BY <1>3, EmptyBatch DEF groupInfo

LEMMA JobBatch ==
  ASSUME NEW j \in Item["jobs"]
  PROVE  jobSamples(j)
           \in Batch({"nsr_job_status", "nsr_job_start_timestamp_seconds",
                      "nsr_job_end_timestamp_seconds"})
<1> DEFINE K == {"job_id", "job_name"}
           L == {"job_type", "state", "completion_status", "client", "level"}
           S == "nsr_job_status"
           B == "nsr_job_start_timestamp_seconds"
           E == "nsr_job_end_timestamp_seconds"
           id == <<lbl("job_id", text(j.id)), lbl("job_name", text(j.name))>>
           more == <<lbl("job_type", text(j.type)), lbl("state", text(j.state)),
                     lbl("completion_status", text(j.completionStatus)),
                     lbl("client", text(j.clientHostname)), lbl("level", text(j.level))>>
           s == gauge(S, 1, id \o more)
           b == emitReading(B, parseTime(j.startTime), id)
           e == emitReading(E, parseTime(j.endTime), id)
<1>1. S \in CatalogGauges \ CycleMetric /\ keysOf(S) = K \cup L
  BY DEF keysOf, CatalogGauges, CycleMetric, upName, durationName, guardMetric
<1>2. \A n \in {B, E} : n \in CatalogGauges \ CycleMetric /\ keysOf(n) = K
  BY DEF keysOf, CatalogGauges, CycleMetric, upName, durationName, guardMetric
<1>3. /\ j.id \in Text /\ j.name \in Text /\ j.type \in Text /\ j.state \in Text
      /\ j.completionStatus \in Text /\ j.clientHostname \in Text /\ j.level \in Text
      /\ j.startTime \in Time /\ j.endTime \in Time
  BY DEF Item
<1>4. K \subseteq LabelKey /\ L \subseteq LabelKey /\ K \cap L = {}
  BY DEF LabelKey
<1>5. id \in Labels(K)
  BY <1>3, <1>4, GoodTexts, Labels2
<1>6. more \in Labels(L)
  BY <1>3, <1>4, GoodTexts, Labels5
<1>7. id \o more \in Labels(K \cup L)
  <2> HIDE DEF id, more, K, L
  <2> QED BY <1>4, <1>5, <1>6, ConcatLabels
<1>8. s \in Batch({S})
  <2> HIDE DEF id, more, K, L
  <2> QED BY <1>1, <1>7, GaugeBatch
<1>9. b \in Batch({B}) /\ e \in Batch({E})
  <2> HIDE DEF id, more, K, L
  <2> QED BY <1>2, <1>3, <1>5, EmitReadingBatch, ReadingsAreNumbers
<1>10. jobSamples(j) = <<>> \/ jobSamples(j) = s \o b \o e
  BY DEF jobSamples
<1> HIDE DEF s, b, e
<1>11. s \o b \in Batch({S, B})
  BY <1>8, <1>9, TwoBatches
<1>12. s \o b \o e \in Batch({S, B} \cup {E})
  BY <1>9, <1>11, OneMoreBatch
<1>13. {S, B} \cup {E} = {S, B, E}
  OBVIOUS
<1> QED BY <1>10, <1>12, <1>13, EmptyBatch

(* The server-wide metrics have no labels: one of each. *)
ServerMetric ==
  {"nsr_server_up_since_timestamp_seconds", "nsr_server_saves_total",
   "nsr_server_save_size_bytes", "nsr_server_recovers_total",
   "nsr_server_recover_size_bytes", "nsr_server_bad_saves_total",
   "nsr_server_bad_recovers_total", "nsr_server_current_saves",
   "nsr_server_current_recovers", "nsr_server_max_saves",
   "nsr_server_max_recovers"}

LEMMA StatisticsBatch ==
  ASSUME NEW st \in Item["serverstatistics"]
  PROVE  statisticsSamples(st) \in Batch(ServerMetric)
<1> DEFINE a == emitReading("nsr_server_up_since_timestamp_seconds", parseTime(st.upSince), <<>>)
           b == emitCounter("nsr_server_saves_total", st.saves, <<>>)
           c == emitSizeCounter("nsr_server_save_size_bytes", st.saveSize, <<>>)
           d == emitCounter("nsr_server_recovers_total", st.recovers, <<>>)
           e == emitSizeCounter("nsr_server_recover_size_bytes", st.recoverSize, <<>>)
           f == emitCounter("nsr_server_bad_saves_total", st.badSaves, <<>>)
           g == emitCounter("nsr_server_bad_recovers_total", st.badRecovers, <<>>)
           h == emitGauge("nsr_server_current_saves", st.currentSaves, <<>>)
           u == emitGauge("nsr_server_current_recovers", st.currentRecovers, <<>>)
           j == emitGauge("nsr_server_max_saves", st.maxSaves, <<>>)
           k == emitGauge("nsr_server_max_recovers", st.maxRecovers, <<>>)
<1>1. \A n \in ServerMetric : <<>> \in Labels(keysOf(n))
  BY NoLabels DEF ServerMetric, keysOf
<1>2. /\ st.upSince \in Time
      /\ st.saves \in Number /\ st.recovers \in Number
      /\ st.badSaves \in Number /\ st.badRecovers \in Number
      /\ st.currentSaves \in Number /\ st.currentRecovers \in Number
      /\ st.maxSaves \in Number /\ st.maxRecovers \in Number
      /\ st.saveSize \in Size /\ st.recoverSize \in Size
  BY DEF Item
<1>3. a \in Batch({"nsr_server_up_since_timestamp_seconds"})
  <2>1. "nsr_server_up_since_timestamp_seconds" \in CatalogGauges \ CycleMetric
    BY DEF CatalogGauges, CycleMetric, upName, durationName,
           guardMetric
  <2>2. "nsr_server_up_since_timestamp_seconds" \in ServerMetric
    BY DEF ServerMetric
  <2> QED BY <1>1, <1>2, <2>1, <2>2, EmitReadingBatch, ReadingsAreNumbers
<1>4. b \in Batch({"nsr_server_saves_total"})
  <2>1. "nsr_server_saves_total" \in CatalogCounters
    BY DEF CatalogCounters
  <2>2. "nsr_server_saves_total" \in ServerMetric
    BY DEF ServerMetric
  <2> QED BY <1>1, <1>2, <2>1, <2>2, EmitCounterBatch
<1>5. c \in Batch({"nsr_server_save_size_bytes"})
  <2>1. "nsr_server_save_size_bytes" \in CatalogCounters
    BY DEF CatalogCounters
  <2>2. "nsr_server_save_size_bytes" \in ServerMetric
    BY DEF ServerMetric
  <2> QED BY <1>1, <1>2, <2>1, <2>2, EmitSizeCounterBatch
<1>6. d \in Batch({"nsr_server_recovers_total"})
  <2>1. "nsr_server_recovers_total" \in CatalogCounters
    BY DEF CatalogCounters
  <2>2. "nsr_server_recovers_total" \in ServerMetric
    BY DEF ServerMetric
  <2> QED BY <1>1, <1>2, <2>1, <2>2, EmitCounterBatch
<1>7. e \in Batch({"nsr_server_recover_size_bytes"})
  <2>1. "nsr_server_recover_size_bytes" \in CatalogCounters
    BY DEF CatalogCounters
  <2>2. "nsr_server_recover_size_bytes" \in ServerMetric
    BY DEF ServerMetric
  <2> QED BY <1>1, <1>2, <2>1, <2>2, EmitSizeCounterBatch
<1>8. f \in Batch({"nsr_server_bad_saves_total"})
  <2>1. "nsr_server_bad_saves_total" \in CatalogCounters
    BY DEF CatalogCounters
  <2>2. "nsr_server_bad_saves_total" \in ServerMetric
    BY DEF ServerMetric
  <2> QED BY <1>1, <1>2, <2>1, <2>2, EmitCounterBatch
<1>9. g \in Batch({"nsr_server_bad_recovers_total"})
  <2>1. "nsr_server_bad_recovers_total" \in CatalogCounters
    BY DEF CatalogCounters
  <2>2. "nsr_server_bad_recovers_total" \in ServerMetric
    BY DEF ServerMetric
  <2> QED BY <1>1, <1>2, <2>1, <2>2, EmitCounterBatch
<1>10. h \in Batch({"nsr_server_current_saves"})
  <2>1. "nsr_server_current_saves" \in CatalogGauges \ CycleMetric
    BY DEF CatalogGauges, CycleMetric, upName, durationName,
           guardMetric
  <2>2. "nsr_server_current_saves" \in ServerMetric
    BY DEF ServerMetric
  <2> QED BY <1>1, <1>2, <2>1, <2>2, EmitGaugeBatch
<1>11. u \in Batch({"nsr_server_current_recovers"})
  <2>1. "nsr_server_current_recovers" \in CatalogGauges \ CycleMetric
    BY DEF CatalogGauges, CycleMetric, upName, durationName,
           guardMetric
  <2>2. "nsr_server_current_recovers" \in ServerMetric
    BY DEF ServerMetric
  <2> QED BY <1>1, <1>2, <2>1, <2>2, EmitGaugeBatch
<1>12. j \in Batch({"nsr_server_max_saves"})
  <2>1. "nsr_server_max_saves" \in CatalogGauges \ CycleMetric
    BY DEF CatalogGauges, CycleMetric, upName, durationName,
           guardMetric
  <2>2. "nsr_server_max_saves" \in ServerMetric
    BY DEF ServerMetric
  <2> QED BY <1>1, <1>2, <2>1, <2>2, EmitGaugeBatch
<1>13. k \in Batch({"nsr_server_max_recovers"})
  <2>1. "nsr_server_max_recovers" \in CatalogGauges \ CycleMetric
    BY DEF CatalogGauges, CycleMetric, upName, durationName,
           guardMetric
  <2>2. "nsr_server_max_recovers" \in ServerMetric
    BY DEF ServerMetric
  <2> QED BY <1>1, <1>2, <2>1, <2>2, EmitGaugeBatch
<1>14. statisticsSamples(st) = a \o b \o c \o d \o e \o f \o g \o h \o u \o j \o k
  BY DEF statisticsSamples
<1> HIDE DEF a, b, c, d, e, f, g, h, u, j, k
<1> DEFINE N2 == {"nsr_server_up_since_timestamp_seconds", "nsr_server_saves_total"}
           N3 == N2 \cup {"nsr_server_save_size_bytes"}
           N4 == N3 \cup {"nsr_server_recovers_total"}
           N5 == N4 \cup {"nsr_server_recover_size_bytes"}
           N6 == N5 \cup {"nsr_server_bad_saves_total"}
           N7 == N6 \cup {"nsr_server_bad_recovers_total"}
           N8 == N7 \cup {"nsr_server_current_saves"}
           N9 == N8 \cup {"nsr_server_current_recovers"}
           N10 == N9 \cup {"nsr_server_max_saves"}
           N11 == N10 \cup {"nsr_server_max_recovers"}
<1>15. a \o b \in Batch(N2)
  BY <1>3, <1>4, TwoBatches
<1>16. a \o b \o c \in Batch(N3)
  <2>1. "nsr_server_save_size_bytes" \notin N2
    OBVIOUS
  <2> HIDE DEF N2
  <2> QED BY <1>15, <1>5, <2>1, OneMoreBatch
<1>17. a \o b \o c \o d \in Batch(N4)
  <2>1. "nsr_server_recovers_total" \notin N3
    OBVIOUS
  <2> HIDE DEF N3
  <2> QED BY <1>16, <1>6, <2>1, OneMoreBatch
<1>18. a \o b \o c \o d \o e \in Batch(N5)
  <2>1. "nsr_server_recover_size_bytes" \notin N4
    OBVIOUS
  <2> HIDE DEF N4
  <2> QED BY <1>17, <1>7, <2>1, OneMoreBatch
<1>19. a \o b \o c \o d \o e \o f \in Batch(N6)
  <2>1. "nsr_server_bad_saves_total" \notin N5
    OBVIOUS
  <2> HIDE DEF N5
  <2> QED BY <1>18, <1>8, <2>1, OneMoreBatch
<1>20. a \o b \o c \o d \o e \o f \o g \in Batch(N7)
  <2>1. "nsr_server_bad_recovers_total" \notin N6
    OBVIOUS
  <2> HIDE DEF N6
  <2> QED BY <1>19, <1>9, <2>1, OneMoreBatch
<1>21. a \o b \o c \o d \o e \o f \o g \o h \in Batch(N8)
  <2>1. "nsr_server_current_saves" \notin N7
    OBVIOUS
  <2> HIDE DEF N7
  <2> QED BY <1>20, <1>10, <2>1, OneMoreBatch
<1>22. a \o b \o c \o d \o e \o f \o g \o h \o u \in Batch(N9)
  <2>1. "nsr_server_current_recovers" \notin N8
    OBVIOUS
  <2> HIDE DEF N8
  <2> QED BY <1>21, <1>11, <2>1, OneMoreBatch
<1>23. a \o b \o c \o d \o e \o f \o g \o h \o u \o j \in Batch(N10)
  <2>1. "nsr_server_max_saves" \notin N9
    OBVIOUS
  <2> HIDE DEF N9
  <2> QED BY <1>22, <1>12, <2>1, OneMoreBatch
<1>24. a \o b \o c \o d \o e \o f \o g \o h \o u \o j \o k \in Batch(N11)
  <2>1. "nsr_server_max_recovers" \notin N10
    OBVIOUS
  <2> HIDE DEF N10
  <2> QED BY <1>23, <1>13, <2>1, OneMoreBatch
<1>25. N11 = ServerMetric
  BY DEF ServerMetric
<1> QED BY <1>14, <1>24, <1>25

-----------------------------------------------------------------------------
(* The entries of a map, in any order.                                     *)

LEMMA ImageFinite ==
  ASSUME NEW D, IsFiniteSet(D), NEW h, DOMAIN h = D, h = [x \in D |-> h[x]]
  PROVE  IsFiniteSet({h[x] : x \in D})
<1> DEFINE R == {h[x] : x \in D}
<1>1. h \in [D -> R]
  OBVIOUS
<1>2. \A y \in R : \E x \in D : h[x] = y
  OBVIOUS
<1> HIDE DEF R
<1>3. h \in Surjection(D, R)
  BY <1>1, <1>2 DEF Surjection
<1>4. IsFiniteSet(R)
  BY <1>3, FS_Surjection
<1> QED BY <1>4 DEF R

LEMMA OrderFacts ==
  ASSUME NEW S, IsFiniteSet(S)
  PROVE  /\ Cardinality(S) \in Nat
         /\ SetToSeqs(S) # {}
         /\ \A order \in SetToSeqs(S) :
              /\ order \in [1..Cardinality(S) -> S]
              /\ \A n, m \in 1..Cardinality(S) : n # m => order[n] # order[m]
              /\ \A s \in S : \E n \in 1..Cardinality(S) : order[n] = s
<1> DEFINE c == Cardinality(S)
<1>1. c \in Nat /\ ExistsBijection(1..c, S)
  BY FS_CardinalityType
<1>2. SetToSeqs(S) # {}
  <2>1. PICK f : f \in Bijection(1..c, S)
    BY <1>1 DEF ExistsBijection
  <2>2. f \in [1..c -> S] /\ \A n, m \in 1..c : n # m => f[n] # f[m]
    BY <2>1 DEF Bijection, Injection, IsInjective
  <2> QED BY <2>2 DEF SetToSeqs
<1>3. ASSUME NEW order \in SetToSeqs(S)
      PROVE  /\ order \in [1..c -> S]
             /\ \A n, m \in 1..c : n # m => order[n] # order[m]
             /\ \A s \in S : \E n \in 1..c : order[n] = s
  <2>1. order \in [1..c -> S] /\ \A n, m \in 1..c : n # m => order[n] # order[m]
    BY DEF SetToSeqs
  <2>2. order \in Injection(1..c, S)
    BY <2>1 DEF Injection, IsInjective
  <2>3. Cardinality(1..c) = c
    BY <1>1, FS_Interval
  <2>4. order \in Surjection(1..c, S)
    BY <2>2, <2>3, FS_Injection
  <2> QED BY <2>1, <2>4 DEF Surjection
<1> HIDE DEF c
<1> QED BY <1>1, <1>2, <1>3 DEF c

LEMMA AnyOrderBatch ==
  ASSUME NEW N, NEW S \in SUBSET Batch(N), IsFiniteSet(S),
         \A a, b \in S : a # b =>
           \A x \in ToSet(a), y \in ToSet(b) : seriesKey(x) = seriesKey(y) => x.name \in PerItem
  PROVE  /\ inAnyOrder(S) # {}
         /\ \A f \in inAnyOrder(S) : f \in Batch(N) /\ ToSet(f) = UNION {ToSet(s) : s \in S}
<1> DEFINE c == Cardinality(S)
<1>1. inAnyOrder(S) # {}
  BY OrderFacts DEF inAnyOrder
<1>2. ASSUME NEW order \in SetToSeqs(S)
      PROVE  /\ FlattenSeq(order) \in Batch(N)
             /\ ToSet(FlattenSeq(order)) = UNION {ToSet(s) : s \in S}
  <2>1. /\ c \in Nat /\ order \in [1..c -> S]
        /\ \A n, m \in 1..c : n # m => order[n] # order[m]
        /\ \A s \in S : \E n \in 1..c : order[n] = s
    BY OrderFacts
  <2> HIDE DEF c
  <2>2. order \in [1..c -> Batch(N)]
    BY <2>1
  <2>3. FlattenSeq(order) \in Batch(N)
    BY <2>1, <2>2, FlattenBatch
  <2>4. order \in Seq(Seq(Emitted)) /\ Len(order) = c
    <3>1. order \in [1..c -> Seq(Emitted)]
      BY <2>2 DEF Batch
    <3> QED BY <2>1, <3>1
  <2>5. ToSet(FlattenSeq(order)) = UNION {ToSet(order[n]) : n \in 1..c}
    BY <2>4, FlattenOf
  <2>6. {ToSet(order[n]) : n \in 1..c} = {ToSet(s) : s \in S}
    BY <2>1
  <2> QED BY <2>3, <2>5, <2>6
<1> QED BY <1>1, <1>2 DEF inAnyOrder

(* Of its labels with this key, the value is v. *)
Identifies(key, x, v) ==
  /\ lbl(key, v) \in LabelPairs(x)
  /\ \A l \in LabelPairs(x) : l.key = key => l.value = v

(* h gives what is emitted for each entry of a map. *)
EntrySet(h) == {h[k] : k \in DOMAIN h}
EntrySamples(h) == UNION {ToSet(h[k]) : k \in DOMAIN h}

(* The samples of an entry carry its key in a label of theirs. *)
LEMMA EntriesBatch ==
  ASSUME NEW N, NEW D, IsFiniteSet(D), NEW h \in [D -> Batch(N)], NEW key,
         \A k \in D : \A x \in ToSet(h[k]) : Identifies(key, x, k)
  PROVE  /\ inAnyOrder(EntrySet(h)) # {}
         /\ \A f \in inAnyOrder(EntrySet(h)) : f \in Batch(N) /\ ToSet(f) = EntrySamples(h)
<1> DEFINE S == {h[k] : k \in D}
<1>1. IsFiniteSet(S)
  <2>1. DOMAIN h = D /\ h = [k \in D |-> h[k]]
    OBVIOUS
  <2> QED BY <2>1, ImageFinite
<1>2. ASSUME NEW a \in S, NEW b \in S, a # b, NEW x \in ToSet(a), NEW y \in ToSet(b),
             seriesKey(x) = seriesKey(y)
      PROVE  FALSE
  <2>1. PICK k \in D, l \in D : a = h[k] /\ b = h[l]
    OBVIOUS
  <2>2. LabelPairs(x) = LabelPairs(y)
    BY <1>2 DEF seriesKey
  <2>3. lbl(key, k) \in LabelPairs(x)
    BY <2>1 DEF Identifies
  <2>4. lbl(key, k).key = key => lbl(key, k).value = l
    BY <2>1, <2>2, <2>3 DEF Identifies
  <2>5. k = l
    BY <2>4 DEF lbl
  <2> QED BY <1>2, <2>1, <2>5
<1>3. S \in SUBSET Batch(N)
  OBVIOUS
<1>4. UNION {ToSet(s) : s \in S} = UNION {ToSet(h[k]) : k \in D}
  OBVIOUS
<1> HIDE DEF S
<1>5. /\ inAnyOrder(S) # {}
      /\ \A f \in inAnyOrder(S) : f \in Batch(N) /\ ToSet(f) = UNION {ToSet(s) : s \in S}
  BY <1>1, <1>2, <1>3, AnyOrderBatch
<1>6. S = EntrySet(h) /\ UNION {ToSet(h[k]) : k \in D} = EntrySamples(h)
  BY DEF S, EntrySet, EntrySamples
<1> QED BY <1>4, <1>5, <1>6

LEMMA TotalsBatch ==
  ASSUME NEW name \in CatalogGauges \ CycleMetric, NEW key \in LabelKey, keysOf(name) = {key},
         NEW m \in Tally(GoodValue)
  PROVE  /\ totals(name, key, m) # {}
         /\ \A f \in totals(name, key, m) :
              /\ f \in Batch({name})
              /\ ToSet(f) = UNION {ToSet(gauge(name, m[k], <<lbl(key, k)>>)) : k \in DOMAIN m}
<1> DEFINE h == [k \in DOMAIN m |-> gauge(name, m[k], <<lbl(key, k)>>)]
<1>1. m \in [DOMAIN m -> Nat \ {0}] /\ DOMAIN m \subseteq GoodValue /\ IsFiniteSet(DOMAIN m)
  BY DEF Tally
<1>2. \A k \in DOMAIN m : h[k] \in Batch({name})
  <2> SUFFICES ASSUME NEW k \in DOMAIN m
               PROVE  gauge(name, m[k], <<lbl(key, k)>>) \in Batch({name})
    OBVIOUS
  <2>1. <<lbl(key, k)>> \in Labels({key}) /\ m[k] \in Nat
    BY <1>1, Labels1
  <2> QED BY <2>1, GaugeBatch
<1>3. ASSUME NEW k \in DOMAIN m, NEW x \in ToSet(h[k])
      PROVE  Identifies(key, x, k)
  <2>1. x.labels = <<lbl(key, k)>>
    BY <1>3 DEF gauge, ToSet
  <2>2. LabelPairs(x) = {lbl(key, k)}
    BY <2>1 DEF LabelPairs
  <2> QED BY <2>2 DEF lbl, Identifies
<1>4. totals(name, key, m) = inAnyOrder({h[k] : k \in DOMAIN m})
  BY DEF totals
<1>5. h = [k \in DOMAIN m |-> h[k]]
  OBVIOUS
<1>6. \A k \in DOMAIN m : h[k] = gauge(name, m[k], <<lbl(key, k)>>)
  OBVIOUS
<1> HIDE DEF h
<1>7. h \in [DOMAIN m -> Batch({name})]
  BY <1>2, <1>5
<1>8. /\ inAnyOrder(EntrySet(h)) # {}
      /\ \A f \in inAnyOrder(EntrySet(h)) : f \in Batch({name}) /\ ToSet(f) = EntrySamples(h)
  BY <1>1, <1>3, <1>7, EntriesBatch
<1>9. /\ totals(name, key, m) = inAnyOrder(EntrySet(h))
      /\ EntrySamples(h)
           = UNION {ToSet(gauge(name, m[k], <<lbl(key, k)>>)) : k \in DOMAIN m}
  BY <1>4, <1>5, <1>6 DEF EntrySet, EntrySamples
<1> QED BY <1>8, <1>9

-----------------------------------------------------------------------------
(* The two folds.                                                          *)

LEMMA TextOfAlerts ==
  ASSUME NEW items \in Seq(Item["alerts"]), NEW n \in 1..Len(items)
  PROVE  text(items[n].priority) \in GoodValue
<1>1. items[n] \in Item["alerts"]
  OBVIOUS
<1>2. items[n].priority \in Text
  BY <1>1 DEF Item
<1> QED BY <1>2, GoodTexts

LEMMA ByPriorityType ==
  ASSUME NEW items \in Seq(Item["alerts"])
  PROVE  byPriority(items) \in Tally(GoodValue)
<1> DEFINE n == Len(items)
<1>1. PICK f : /\ f[0] = NoEntries
               /\ \A k \in 0..(n - 1) : f[k + 1] = increment(f[k], text(items[k + 1].priority))
               /\ byPriority(items) = f[n]
  BY ByPrioritySteps
<1> DEFINE D == {k \in 0..n : f[k] \in Tally(GoodValue)}
<1>2. n \in Nat
  OBVIOUS
<1>3. 0 \in D
  BY <1>1, <1>2, EmptyTally
<1>4. ASSUME NEW k \in 0..(n - 1), k \in D PROVE k + 1 \in D
  <2>1. k + 1 \in 1..n /\ k + 1 \in 0..n
    BY <1>2
  <2>2. f[k] \in Tally(GoodValue) /\ text(items[k + 1].priority) \in GoodValue
    BY <1>4, <2>1, TextOfAlerts
  <2>3. increment(f[k], text(items[k + 1].priority)) \in Tally(GoodValue)
    BY <2>2, IncrementFacts, ZenonT(60)
  <2> QED BY <1>1, <2>1, <2>3
<1>5. n \in D
  <2> HIDE DEF D, n
  <2>1. \A k \in 0..n : k \in D
    BY <1>2, <1>3, <1>4, IntervalInduction
  <2> QED BY <1>2, <2>1
<1> QED BY <1>1, <1>5

(* The groups of the sessions, and the order in which they were first seen.*)
SessionKey == [mode : GoodValue, client : GoodValue]
Group == [n : Nat, bytes : Nat, bps : Nat, hasB : BOOLEAN, hasR : BOOLEAN]

Grouped ==
  {acc \in [order : Seq(SessionKey), groups : UNION {[D -> Group] : D \in SUBSET SessionKey},
            byMode : Tally(GoodValue)] :
     /\ {acc.order[n] : n \in 1..Len(acc.order)} = DOMAIN acc.groups
     /\ \A n, m \in 1..Len(acc.order) : acc.order[n] = acc.order[m] => n = m}

keyOf(s) == [mode |-> text(s.mode), client |-> text(s.clientHostname)]

LEMMA SessionFields ==
  ASSUME NEW s \in Item["sessions"]
  PROVE  /\ keyOf(s) \in SessionKey
         /\ s.size \in Size /\ s.transferRate \in Size
<1>1. /\ s.mode \in Text /\ s.clientHostname \in Text
      /\ s.size \in Size /\ s.transferRate \in Size
  BY DEF Item
<1> QED BY <1>1, GoodTexts DEF keyOf, SessionKey

LEMMA SizeReading ==
  ASSUME NEW s \in Size
  PROVE  Bytes(s).ok \in BOOLEAN /\ Bytes(s).value \in Nat
<1>1. Bytes(s).ok \in BOOLEAN
  BY DEF Bytes, Reading, NoReading
<1>2. ~ Bytes(s).ok => Bytes(s).value = 0
  BY DEF Bytes, Reading, NoReading
<1> QED BY <1>1, <1>2, ReadingsAreNumbers

LEMMA JoinedType ==
  ASSUME NEW g \in Group, NEW s \in Item["sessions"]
  PROVE  joined(g, s) \in Group
<1> DEFINE b == Bytes(s.size)
           r == Bytes(s.transferRate)
<1>1. b.ok \in BOOLEAN /\ b.value \in Nat /\ r.ok \in BOOLEAN /\ r.value \in Nat
  BY SessionFields, SizeReading
<1>2. joined(g, s) = [n |-> g.n + 1, bytes |-> g.bytes + b.value, bps |-> g.bps + r.value,
                      hasB |-> g.hasB \/ b.ok, hasR |-> g.hasR \/ r.ok]
  BY DEF joined, BytesPerSecond
<1> HIDE DEF b, r
<1> QED BY <1>1, <1>2 DEF Group

LEMMA SessionStartGrouped == SessionStart \in Grouped
<1>1. SessionStart.order = <<>> /\ SessionStart.order \in Seq(SessionKey)
  BY DEF SessionStart
<1>2. /\ DOMAIN SessionStart.groups = {}
      /\ SessionStart.groups \in UNION {[D -> Group] : D \in SUBSET SessionKey}
  <2>1. NoEntries \in [{} -> Group] /\ DOMAIN NoEntries = {}
    BY DEF NoEntries
  <2> QED BY <2>1 DEF SessionStart
<1>3. SessionStart.byMode \in Tally(GoodValue)
  BY EmptyTally DEF SessionStart
<1>4. SessionStart = [order |-> SessionStart.order, groups |-> SessionStart.groups,
                      byMode |-> SessionStart.byMode]
  BY DEF SessionStart
<1> QED BY <1>1, <1>2, <1>3, <1>4 DEF Grouped

(* One more session. *)
LEMMA AddSessionFacts ==
  ASSUME NEW acc \in Grouped, NEW s \in Item["sessions"]
  PROVE  LET k == keyOf(s)
             new == addSession(acc, s)
         IN  /\ new \in Grouped
             /\ DOMAIN new.groups = DOMAIN acc.groups \cup {k}
             /\ \A x \in DOMAIN acc.groups : x # k => new.groups[x] = acc.groups[x]
             /\ new.groups[k] =
                  joined(IF k \in DOMAIN acc.groups THEN acc.groups[k] ELSE NoSession, s)
             /\ new.byMode = increment(acc.byMode, k.mode)
<1> DEFINE k == keyOf(s)
           new == addSession(acc, s)
           E == DOMAIN acc.groups
           g == joined(IF k \in E THEN acc.groups[k] ELSE NoSession, s)
<1>1. k \in SessionKey
  BY SessionFields
<1>2. /\ new.order = IF k \in E THEN acc.order ELSE Append(acc.order, k)
      /\ new.groups = put(acc.groups, k, g)
      /\ new.byMode = increment(acc.byMode, k.mode)
      /\ new = [order |-> new.order, groups |-> new.groups, byMode |-> new.byMode]
  BY DEF addSession, keyOf
<1>3. /\ acc.order \in Seq(SessionKey) /\ acc.byMode \in Tally(GoodValue)
      /\ acc.groups \in [E -> Group] /\ E \subseteq SessionKey
      /\ {acc.order[n] : n \in 1..Len(acc.order)} = E
      /\ \A n, m \in 1..Len(acc.order) : acc.order[n] = acc.order[m] => n = m
  BY DEF Grouped
<1>4. g \in Group
  <2>1. NoSession \in Group
    BY DEF NoSession, Group
  <2>2. (IF k \in E THEN acc.groups[k] ELSE NoSession) \in Group
    BY <1>3, <2>1
  <2> HIDE DEF k, E
  <2> QED BY <2>2, JoinedType
<1> HIDE DEF k, g, new
<1>5. /\ DOMAIN new.groups = E \cup {k}
      /\ \A x \in E : x # k => new.groups[x] = acc.groups[x]
      /\ new.groups[k] = g
  BY <1>2 DEF put
<1>6. new.groups \in [E \cup {k} -> Group]
  <2>1. new.groups = [x \in E \cup {k} |-> IF x = k THEN g ELSE acc.groups[x]]
    BY <1>2 DEF put
  <2> QED BY <1>3, <1>4, <2>1
<1>7. new.byMode \in Tally(GoodValue)
  <2>1. k.mode \in GoodValue
    BY <1>1 DEF SessionKey
  <2>2. acc.byMode \in Tally(GoodValue)
    BY <1>3
  <2>3. increment(acc.byMode, k.mode) \in Tally(GoodValue)
    BY <2>1, <2>2, IncrementFacts
  <2> QED BY <1>2, <2>3
<1>8. /\ new.order \in Seq(SessionKey)
      /\ {new.order[n] : n \in 1..Len(new.order)} = E \cup {k}
      /\ \A n, m \in 1..Len(new.order) : new.order[n] = new.order[m] => n = m
  <2>1. CASE k \in E
    BY <1>2, <1>3, <2>1
  <2>2. CASE k \notin E
    <3> DEFINE o == acc.order
               p == new.order
    <3>1. /\ p \in Seq(SessionKey) /\ Len(o) \in Nat /\ Len(p) = Len(o) + 1
          /\ p[Len(o) + 1] = k /\ \A n \in 1..Len(o) : p[n] = o[n]
      BY <1>1, <1>2, <1>3, <2>2
    <3>2. \A n \in 1..Len(o) : o[n] \in E
      BY <1>3
    <3>3. 1..Len(p) = 1..Len(o) \cup {Len(o) + 1}
      BY <3>1
    <3> HIDE DEF o, p, E
    <3>4. {p[n] : n \in 1..Len(p)} = {o[n] : n \in 1..Len(o)} \cup {k}
      BY <3>1, <3>3
    <3>5. \A n, m \in 1..Len(p) : p[n] = p[m] => n = m
      BY <1>3, <2>2, <3>1, <3>2, <3>3 DEF o
    <3> QED BY <1>3, <3>1, <3>4, <3>5 DEF o, p
  <2> QED BY <2>1, <2>2
<1>9. new \in Grouped
  <2>1. new.groups \in UNION {[D -> Group] : D \in SUBSET SessionKey}
    <3>1. E \cup {k} \in SUBSET SessionKey
      BY <1>1, <1>3
    <3> QED BY <1>6, <3>1
  <2> QED BY <1>2, <1>5, <1>7, <1>8, <2>1 DEF Grouped
<1> QED BY <1>2, <1>5, <1>9 DEF k, g, new

LEMMA SessionSteps ==
  ASSUME NEW items \in Seq(Item["sessions"])
  PROVE  \E f : /\ f \in [0..Len(items) -> Grouped]
                /\ f[0] = SessionStart
                /\ \A k \in 0..(Len(items) - 1) : f[k + 1] = addSession(f[k], items[k + 1])
                /\ FoldLeft(addSession, SessionStart, items) = f[Len(items)]
<1> DEFINE n == Len(items)
           e(g, s) == IF s = {} THEN SessionStart
                      ELSE addSession(g[s \ {Max(s)}], items[Max(s)])
           IsFold(g) == g = [s \in SUBSET (DOMAIN items) |-> e(g, s)]
<1>1. FoldLeft(addSession, SessionStart, items) = (CHOOSE g : IsFold(g))[DOMAIN items]
  BY DEF FoldLeft, MapThenFoldSet
<1>2. /\ n \in Nat /\ DOMAIN items = 1..n
      /\ \A k \in 1..n : items[k] \in Item["sessions"]
  OBVIOUS
<1>3. \E g : IsFold(g) /\ g \in [SUBSET (1..n) -> Grouped]
  <2> DEFINE step == [k \in 1..n |-> [m \in Grouped |-> addSession(m, items[k])]]
  <2>1. step \in [1..n -> [Grouped -> Grouped]]
    <3>1. \A k \in 1..n : \A m \in Grouped : addSession(m, items[k]) \in Grouped
      BY <1>2, AddSessionFacts
    <3> QED BY <3>1
  <2>2. PICK g : IsFoldOf(g, Grouped, n, SessionStart, step)
    <3> HIDE DEF step, n
    <3> QED BY <1>2, <2>1, SessionStartGrouped, FoldExists, Zenon
  <2>3. \A s \in SUBSET (1..n) : g[s] = e(g, s)
    <3> SUFFICES ASSUME NEW s \in SUBSET (1..n), s # {}
                 PROVE  step[Max(s)][g[s \ {Max(s)}]] = addSession(g[s \ {Max(s)}], items[Max(s)])
      BY <2>2 DEF IsFoldOf
    <3>1. Max(s) \in 1..n
      BY <1>2, IntervalMax
    <3>2. g[s \ {Max(s)}] \in Grouped
      BY <2>2 DEF IsFoldOf
    <3> QED BY <3>1, <3>2
  <2>4. g = [s \in SUBSET (DOMAIN items) |-> e(g, s)]
    <3> HIDE DEF e, n
    <3> QED BY <1>2, <2>2, <2>3 DEF IsFoldOf
  <2>5. g \in [SUBSET (1..n) -> Grouped]
    BY <2>2 DEF IsFoldOf
  <2> QED BY <2>4, <2>5
<1>4. PICK g : /\ IsFold(g)
               /\ FoldLeft(addSession, SessionStart, items) = g[DOMAIN items]
  <2> HIDE DEF IsFold
  <2> QED BY <1>1, <1>3
<1> DEFINE f == [k \in 0..n |-> g[1..k]]
<1>5. f[0] = SessionStart
  <2>1. 1..0 = {} /\ {} \in SUBSET (1..n) /\ 0 \in 0..n
    BY <1>2
  <2> QED BY <1>2, <1>4, <2>1
<1>6. ASSUME NEW k \in 0..(n - 1) PROVE f[k + 1] = addSession(f[k], items[k + 1])
  <2>1. 1..(k + 1) \in SUBSET (1..n) /\ k \in 0..n /\ k + 1 \in 0..n
    BY <1>2
  <2>2. g[1..(k + 1)] = e(g, 1..(k + 1))
    <3> HIDE DEF e
    <3> QED BY <1>2, <1>4, <2>1
  <2>3. e(g, 1..(k + 1)) = addSession(g[1..k], items[k + 1])
    <3>1. k \in Nat
      OBVIOUS
    <3>2. Max(1..(k + 1)) = k + 1 /\ (1..(k + 1)) \ {k + 1} = 1..k /\ 1..(k + 1) # {}
      BY <3>1, PrefixTop
    <3> QED BY <3>2
  <2> HIDE DEF e
  <2> QED BY <2>1, <2>2, <2>3
<1>7. FoldLeft(addSession, SessionStart, items) = f[n]
  BY <1>2, <1>4
<1> DEFINE D == {k \in 0..n : f[k] \in Grouped}
<1>8. \A k \in 0..n : k \in D
  <2>1. 0 \in D
    BY <1>2, <1>5, SessionStartGrouped
  <2>2. ASSUME NEW k \in 0..(n - 1), k \in D PROVE k + 1 \in D
    <3>1. k + 1 \in 1..n /\ k + 1 \in 0..n
      BY <1>2
    <3>2. addSession(f[k], items[k + 1]) \in Grouped
      <4> HIDE DEF f
      <4> QED BY <1>2, <2>2, <3>1, AddSessionFacts
    <3> HIDE DEF f
    <3> QED BY <1>6, <3>1, <3>2
  <2> HIDE DEF D, n
  <2> QED BY <1>2, <2>1, <2>2, IntervalInduction
<1>9. f \in [0..n -> Grouped]
  BY <1>8
<1> HIDE DEF f
<1> QED BY <1>5, <1>6, <1>7, <1>9

SessionMetric ==
  {"nsr_session_active", "nsr_session_bytes", "nsr_session_transfer_bytes_per_second"}

LEMMA GroupBatches ==
  ASSUME NEW k \in SessionKey, NEW g \in Group
  PROVE  /\ groupSamples(k, g) \in Batch(SessionMetric)
         /\ \A x \in ToSet(groupSamples(k, g)) :
              LabelPairs(x) = {lbl("session_type", k.mode), lbl("client", k.client)}
<1> DEFINE K == {"session_type", "client"}
           l == groupLabels(k)
           A == "nsr_session_active"
           B == "nsr_session_bytes"
           R == "nsr_session_transfer_bytes_per_second"
           a == gauge(A, g.n, l)
           b == IF g.hasB THEN gauge(B, g.bytes, l) ELSE <<>>
           r == IF g.hasR THEN gauge(R, g.bps, l) ELSE <<>>
<1>1. \A n \in {A, B, R} : n \in CatalogGauges \ CycleMetric /\ keysOf(n) = K
  BY DEF keysOf, CatalogGauges, CycleMetric, upName, durationName, guardMetric
<1>2. g.n \in Nat /\ g.bytes \in Nat /\ g.bps \in Nat
  BY DEF Group
<1>3. l \in Labels(K)
  <2>1. k.mode \in GoodValue /\ k.client \in GoodValue
    BY DEF SessionKey
  <2>2. K \subseteq LabelKey
    BY DEF LabelKey
  <2> QED BY <2>1, <2>2, Labels2 DEF groupLabels
<1>4. l = <<lbl("session_type", k.mode), lbl("client", k.client)>>
  BY DEF groupLabels
<1> HIDE DEF l, K
<1>5. a \in Batch({A}) /\ b \in Batch({B}) /\ r \in Batch({R})
  BY <1>1, <1>2, <1>3, GaugeBatch, EmptyBatch
<1>6. groupSamples(k, g) = a \o b \o r
  BY DEF groupSamples, l
<1>7. \A x \in ToSet(a) \cup ToSet(b) \cup ToSet(r) : x.labels = l
  BY DEF gauge, ToSet
<1> HIDE DEF a, b, r
<1>8. a \o b \in Batch({A, B})
  BY <1>5, TwoBatches
<1>9. a \o b \o r \in Batch({A, B} \cup {R})
  BY <1>5, <1>8, OneMoreBatch
<1>10. {A, B} \cup {R} = SessionMetric
  BY DEF SessionMetric
<1>11. ToSet(a \o b \o r) = ToSet(a) \cup ToSet(b) \cup ToSet(r)
  <2>1. a \in Seq(Emitted) /\ b \in Seq(Emitted) /\ r \in Seq(Emitted)
    BY <1>5 DEF Batch
  <2>2. a \o b \in Seq(Emitted) /\ ToSet(a \o b) = ToSet(a) \cup ToSet(b)
    BY <2>1, ConcatRange
  <2> DEFINE p == a \o b
  <2>3. p \in Seq(Emitted)
    BY <2>2
  <2> HIDE DEF p
  <2>4. ToSet(p \o r) = ToSet(p) \cup ToSet(r)
    BY <2>1, <2>3, ConcatRange
  <2> QED BY <2>2, <2>4 DEF p
<1>12. \A x : x.labels = l => LabelPairs(x) = {lbl("session_type", k.mode), lbl("client", k.client)}
  BY <1>4 DEF LabelPairs
<1> QED BY <1>6, <1>7, <1>9, <1>10, <1>11, <1>12

(* The groups in the order first seen: each has its own series. *)
LEMMA GroupsBatch ==
  ASSUME NEW acc \in Grouped
  PROVE  FlattenSeq([n \in 1..Len(acc.order) |-> groupSamples(acc.order[n], acc.groups[acc.order[n]])])
           \in Batch(SessionMetric)
<1> DEFINE c == Len(acc.order)
           k(n) == acc.order[n]
           q == [n \in 1..c |-> groupSamples(k(n), acc.groups[k(n)])]
           pairs(n) == {lbl("session_type", k(n).mode), lbl("client", k(n).client)}
<1>1. /\ c \in Nat /\ \A n, m \in 1..c : k(n) = k(m) => n = m
      /\ \A n \in 1..c : k(n) \in SessionKey /\ acc.groups[k(n)] \in Group
  <2>1. /\ acc.order \in Seq(SessionKey) /\ acc.groups \in [DOMAIN acc.groups -> Group]
        /\ {acc.order[n] : n \in 1..Len(acc.order)} = DOMAIN acc.groups
        /\ \A n, m \in 1..Len(acc.order) : acc.order[n] = acc.order[m] => n = m
    BY DEF Grouped
  <2> QED BY <2>1
<1>2. \A n \in 1..c : q[n] \in Batch(SessionMetric) /\ \A x \in ToSet(q[n]) : LabelPairs(x) = pairs(n)
  <2> HIDE DEF c, k
  <2> QED BY <1>1, GroupBatches
<1>3. ASSUME NEW n \in 1..c, NEW m \in 1..c, pairs(n) = pairs(m)
      PROVE  n = m
  <2>1. k(n) \in SessionKey /\ k(m) \in SessionKey
    BY <1>1
  <2> DEFINE a == lbl("session_type", k(n).mode)
             b == lbl("client", k(n).client)
             d == lbl("session_type", k(m).mode)
             e == lbl("client", k(m).client)
  <2>2. /\ a.key = "session_type" /\ b.key = "client" /\ d.key = "session_type"
        /\ e.key = "client" /\ a.value = k(n).mode /\ d.value = k(m).mode
        /\ b.value = k(n).client /\ e.value = k(m).client
    BY DEF lbl
  <2>3. {a, b} = {d, e}
    BY <1>3
  <2> HIDE DEF a, b, d, e, k
  <2>4. a = d /\ b = e
    BY <2>2, <2>3
  <2>5. k(n).mode = k(m).mode /\ k(n).client = k(m).client
    BY <2>2, <2>4
  <2>6. k(n) = k(m)
    BY <2>1, <2>5 DEF SessionKey
  <2> QED BY <1>1, <2>6
<1>4. \A n, m \in 1..c : n # m =>
        \A x \in ToSet(q[n]), y \in ToSet(q[m]) : seriesKey(x) = seriesKey(y) => x.name \in PerItem
  <2> SUFFICES ASSUME NEW n \in 1..c, NEW m \in 1..c, n # m, NEW x \in ToSet(q[n]),
                      NEW y \in ToSet(q[m]), seriesKey(x) = seriesKey(y)
               PROVE  FALSE
    OBVIOUS
  <2>1. LabelPairs(x) = LabelPairs(y)
    BY DEF seriesKey
  <2> HIDE DEF c, q, pairs
  <2> QED BY <1>2, <1>3, <2>1
<1>5. q \in [1..c -> Batch(SessionMetric)]
  <2>1. DOMAIN q = 1..c /\ q = [n \in 1..c |-> q[n]]
    OBVIOUS
  <2> HIDE DEF q
  <2> QED BY <1>2, <2>1
<1>6. FlattenSeq(q) \in Batch(SessionMetric)
  <2> HIDE DEF q, c
  <2> QED BY <1>1, <1>4, <1>5, FlattenBatch
<1> QED BY <1>6

-----------------------------------------------------------------------------
(* The four maps of the sizing collector.                                  *)

MapOf(m, V) ==
  /\ DOMAIN m \subseteq SaveSetKey /\ IsFiniteSet(DOMAIN m)
  /\ \A k \in DOMAIN m : m[k] \in V

LEMMA KeysSeen ==
  ASSUME IInv
  PROVE  /\ {b.key : b \in Seen} \subseteq SaveSetKey
         /\ IsFiniteSet({b.key : b \in Seen})
<1> DEFINE h == [j \in 1..i |-> answer[j].key]
<1>1. answer \in Seq(Backup) /\ i \in 0..Len(answer) /\ Len(answer) \in Nat
  BY DEF IInv
<1>2. \A j \in 1..i : answer[j] \in Backup
  BY <1>1
<1>3. {b.key : b \in Seen} = {h[j] : j \in 1..i}
  BY DEF Seen
<1>4. IsFiniteSet({h[j] : j \in 1..i})
  <2>1. IsFiniteSet(1..i)
    BY <1>1, FS_Interval
  <2>2. DOMAIN h = 1..i /\ h = [j \in 1..i |-> h[j]]
    OBVIOUS
  <2> HIDE DEF h
  <2> QED BY <2>1, <2>2, ImageFinite
<1>5. \A b \in Seen : b.key \in SaveSetKey
  BY <1>2 DEF Seen, Backup
<1> QED BY <1>3, <1>4, <1>5

LEMMA MapsTyped ==
  ASSUME IInv
  PROVE  /\ MapOf(fullMax, Nat) /\ MapOf(incrMax, Nat) /\ MapOf(retMax, Nat)
         /\ MapOf(jobBest, Throughput)
<1>1. \A bk \in Seen : bk \in Backup
  BY DEF IInv, Seen
<1> DEFINE Keys == {b.key : b \in Seen}
<1>2. Keys \subseteq SaveSetKey /\ IsFiniteSet(Keys)
  BY KeysSeen
<1>3. \A D : D \subseteq Keys => D \subseteq SaveSetKey /\ IsFiniteSet(D)
  BY <1>2, FS_Subset
<1>4. MapOf(fullMax, Nat)
  <2>1. DOMAIN fullMax \subseteq Keys
    BY DEF IInv, Maxima, Best
  <2>2. \A k \in DOMAIN fullMax : \E bk \in Seen : Full(bk) /\ size(bk) = fullMax[k]
    BY DEF IInv, Maxima, Best
  <2>3. \A bk \in Seen : Full(bk) => size(bk) \in Nat
    BY <1>1, Readings DEF Full
  <2> QED BY <1>3, <2>1, <2>2, <2>3 DEF MapOf
<1>5. MapOf(incrMax, Nat)
  <2>1. DOMAIN incrMax \subseteq Keys
    BY DEF IInv, Maxima, Best
  <2>2. \A k \in DOMAIN incrMax : \E bk \in Seen : Incr(bk) /\ size(bk) = incrMax[k]
    BY DEF IInv, Maxima, Best
  <2>3. \A bk \in Seen : Incr(bk) => size(bk) \in Nat
    BY <1>1, Readings DEF Incr
  <2> QED BY <1>3, <2>1, <2>2, <2>3 DEF MapOf
<1>6. MapOf(retMax, Nat)
  <2>1. DOMAIN retMax \subseteq Keys
    BY DEF IInv, Maxima, Best
  <2>2. \A k \in DOMAIN retMax : \E bk \in Seen : Retained(bk) /\ retention(bk) = retMax[k]
    BY DEF IInv, Maxima, Best
  <2>3. \A bk \in Seen : Retained(bk) => retention(bk) \in Nat
    BY <1>1, Readings
  <2> QED BY <1>3, <2>1, <2>2, <2>3 DEF MapOf
<1>7. MapOf(jobBest, Throughput)
  <2>1. DOMAIN jobBest \subseteq Keys
    BY DEF IInv, FastestInstance, Best
  <2>2. \A k \in DOMAIN jobBest : \E bk \in Seen : Timed(bk) /\ job(bk) = jobBest[k]
    BY DEF IInv, FastestInstance, Best
  <2>3. \A bk \in Seen : Timed(bk) => job(bk) \in Throughput
    BY <1>1, Readings
  <2> QED BY <1>3, <2>1, <2>2, <2>3 DEF MapOf
<1> QED BY <1>4, <1>5, <1>6, <1>7

(* The label of one of the sample's keys says the value. *)
LEMMA FirstLabel ==
  ASSUME NEW x, NEW a, NEW b, NEW c, NEW v, a # b, a # c,
         \/ x.labels = <<lbl(a, v), lbl(b, v)>>
         \/ \E w : x.labels = <<lbl(a, v), lbl(b, v), lbl(c, w)>>
  PROVE  Identifies(a, x, v)
<1>1. CASE x.labels = <<lbl(a, v), lbl(b, v)>>
  <2>1. LabelPairs(x) = {lbl(a, v), lbl(b, v)}
    BY <1>1 DEF LabelPairs
  <2> QED BY <2>1 DEF lbl, Identifies
<1>2. CASE \E w : x.labels = <<lbl(a, v), lbl(b, v), lbl(c, w)>>
  <2>1. PICK w : x.labels = <<lbl(a, v), lbl(b, v), lbl(c, w)>>
    BY <1>2
  <2>2. LabelPairs(x) = {lbl(a, v), lbl(b, v), lbl(c, w)}
    BY <2>1 DEF LabelPairs
  <2> QED BY <2>2 DEF lbl, Identifies
<1> QED BY <1>1, <1>2

LEMMA SizeOrdersBatch ==
  ASSUME NEW name \in {"nsr_backup_source_size_bytes", "nsr_backup_change_size_bytes"},
         NEW level \in {"Full", "Incr"}, NEW m, MapOf(m, Nat)
  PROVE  LET g(k) == gauge(name, m[k], <<lbl("client", k), lbl("saveset_name", k),
                                         lbl("level", level)>>)
         IN  /\ sizeOrders(name, level, m) # {}
             /\ \A f \in sizeOrders(name, level, m) :
                  f \in Batch({name}) /\ ToSet(f) = UNION {ToSet(g(k)) : k \in DOMAIN m}
<1> DEFINE K == {"client", "saveset_name", "level"}
           l(k) == <<lbl("client", k), lbl("saveset_name", k), lbl("level", level)>>
           h == [k \in DOMAIN m |-> gauge(name, m[k], l(k))]
<1>1. name \in CatalogGauges \ CycleMetric /\ keysOf(name) = K
  BY DEF keysOf, CatalogGauges, CycleMetric, upName, durationName, guardMetric
<1>2. ASSUME NEW k \in DOMAIN m
      PROVE  l(k) \in Labels(K) /\ m[k] \in Nat
  <2>1. k \in GoodValue /\ level \in GoodValue /\ m[k] \in Nat
    BY SamplesAssumption DEF MapOf
  <2>2. K \subseteq LabelKey
    BY DEF LabelKey
  <2> QED BY <2>1, <2>2, Labels3
<1>3. \A k \in DOMAIN m : h[k] \in Batch({name})
  <2> HIDE DEF K, l
  <2> QED BY <1>1, <1>2, GaugeBatch
<1>4. ASSUME NEW k \in DOMAIN m, NEW x \in ToSet(h[k])
      PROVE  Identifies("client", x, k)
  <2>1. x.labels = l(k)
    BY <1>4 DEF gauge, ToSet
  <2> QED BY <2>1, FirstLabel
<1>5. sizeOrders(name, level, m) = inAnyOrder({h[k] : k \in DOMAIN m})
  BY DEF sizeOrders
<1>6. h = [k \in DOMAIN m |-> h[k]] /\ IsFiniteSet(DOMAIN m)
  BY DEF MapOf
<1>7. \A k \in DOMAIN m : h[k] = gauge(name, m[k], l(k))
  OBVIOUS
<1> HIDE DEF h
<1>8. h \in [DOMAIN m -> Batch({name})]
  BY <1>3, <1>6
<1>9. /\ inAnyOrder(EntrySet(h)) # {}
      /\ \A f \in inAnyOrder(EntrySet(h)) : f \in Batch({name}) /\ ToSet(f) = EntrySamples(h)
  BY <1>4, <1>6, <1>8, EntriesBatch
<1>10. /\ sizeOrders(name, level, m) = inAnyOrder(EntrySet(h))
       /\ EntrySamples(h) = UNION {ToSet(gauge(name, m[k], l(k))) : k \in DOMAIN m}
  BY <1>5, <1>6, <1>7 DEF EntrySet, EntrySamples
<1> QED BY <1>9, <1>10

LEMMA RetentionOrdersBatch ==
  ASSUME NEW m, MapOf(m, Nat)
  PROVE  LET N == {"nsr_backup_retention_seconds"}
             g(k) == gauge("nsr_backup_retention_seconds", m[k],
                           <<lbl("client", k), lbl("saveset_name", k)>>)
         IN  /\ retentionOrders(m) # {}
             /\ \A f \in retentionOrders(m) :
                  f \in Batch(N) /\ ToSet(f) = UNION {ToSet(g(k)) : k \in DOMAIN m}
<1> DEFINE name == "nsr_backup_retention_seconds"
           K == {"client", "saveset_name"}
           l(k) == <<lbl("client", k), lbl("saveset_name", k)>>
           h == [k \in DOMAIN m |-> gauge(name, m[k], l(k))]
<1>1. name \in CatalogGauges \ CycleMetric /\ keysOf(name) = K
  BY DEF keysOf, CatalogGauges, CycleMetric, upName, durationName, guardMetric
<1>2. ASSUME NEW k \in DOMAIN m
      PROVE  l(k) \in Labels(K) /\ m[k] \in Nat
  <2>1. k \in GoodValue /\ m[k] \in Nat
    BY SamplesAssumption DEF MapOf
  <2>2. K \subseteq LabelKey
    BY DEF LabelKey
  <2> QED BY <2>1, <2>2, Labels2
<1>3. \A k \in DOMAIN m : h[k] \in Batch({name})
  <2> HIDE DEF K, l
  <2> QED BY <1>1, <1>2, GaugeBatch
<1>4. ASSUME NEW k \in DOMAIN m, NEW x \in ToSet(h[k])
      PROVE  Identifies("client", x, k)
  <2>1. x.labels = l(k)
    BY <1>4 DEF gauge, ToSet
  <2> QED BY <2>1, FirstLabel
<1>5. retentionOrders(m) = inAnyOrder({h[k] : k \in DOMAIN m})
  BY DEF retentionOrders
<1>6. h = [k \in DOMAIN m |-> h[k]] /\ IsFiniteSet(DOMAIN m)
  BY DEF MapOf
<1>7. \A k \in DOMAIN m : h[k] = gauge(name, m[k], l(k))
  OBVIOUS
<1> HIDE DEF h
<1>8. h \in [DOMAIN m -> Batch({name})]
  BY <1>3, <1>6
<1>9. /\ inAnyOrder(EntrySet(h)) # {}
      /\ \A f \in inAnyOrder(EntrySet(h)) : f \in Batch({name}) /\ ToSet(f) = EntrySamples(h)
  BY <1>4, <1>6, <1>8, EntriesBatch
<1>10. /\ retentionOrders(m) = inAnyOrder(EntrySet(h))
       /\ EntrySamples(h) = UNION {ToSet(gauge(name, m[k], l(k))) : k \in DOMAIN m}
  BY <1>5, <1>6, <1>7 DEF EntrySet, EntrySamples
<1> QED BY <1>9, <1>10

JobMetric == {"nsr_job_duration_seconds", "nsr_job_bytes_per_second"}

LEMMA PerMilleType ==
  ASSUME NEW j \in Throughput
  PROVE  perMille(j) \in Nat /\ (perMille(j) = 0 => j.size = 0)
<1> DEFINE a == j.size * 1000 + j.dur - 1
           d == j.dur
<1>1. j.size \in Nat /\ j.dur \in Nat \ {0}
  BY DEF Throughput
<1>2. a \in Nat /\ d \in Nat \ {0} /\ (a < d => j.size = 0)
  BY <1>1
<1> HIDE DEF a, d
<1>3. a \div d \in Int /\ a \div d >= 0 /\ (a \div d = 0 => a < d)
  BY <1>2, SMT
<1>4. perMille(j) = a \div d
  BY DEF perMille, a, d
<1> QED BY <1>2, <1>3, <1>4

LEMMA JobOrdersBatch ==
  ASSUME NEW m, MapOf(m, Throughput)
  PROVE  /\ jobOrders(m) # {}
         /\ \A f \in jobOrders(m) :
              /\ f \in Batch(JobMetric)
              /\ ToSet(f) = UNION {ToSet(jobGauges(k, m[k])) : k \in DOMAIN m}
<1> DEFINE D == "nsr_job_duration_seconds"
           P == "nsr_job_bytes_per_second"
           K == {"client", "job_name"}
           l(k) == <<lbl("client", k), lbl("job_name", k)>>
           h == [k \in DOMAIN m |-> jobGauges(k, m[k])]
<1>1. \A n \in {D, P} : n \in CatalogGauges \ CycleMetric /\ keysOf(n) = K
  BY DEF keysOf, CatalogGauges, CycleMetric, upName, durationName, guardMetric
<1>2. ASSUME NEW k \in DOMAIN m
      PROVE  /\ jobGauges(k, m[k]) \in Batch(JobMetric)
             /\ \A x \in ToSet(jobGauges(k, m[k])) : x.labels = l(k)
  <2>1. k \in GoodValue /\ m[k] \in Throughput
    BY SamplesAssumption DEF MapOf
  <2>2. m[k].dur \in Nat /\ perMille(m[k]) \in Nat
    BY <2>1, PerMilleType DEF Throughput
  <2>3. l(k) \in Labels(K)
    <3>1. K \subseteq LabelKey
      BY DEF LabelKey
    <3> QED BY <2>1, <3>1, Labels2
  <2> DEFINE a == gauge(D, m[k].dur, l(k))
             b == gauge(P, perMille(m[k]), l(k))
  <2>4. jobGauges(k, m[k]) = a \o b
    BY DEF jobGauges
  <2>5. a \in Batch({D}) /\ b \in Batch({P})
    <3> HIDE DEF K, l
    <3> QED BY <1>1, <2>2, <2>3, GaugeBatch
  <2>6. \A x \in ToSet(a) \cup ToSet(b) : x.labels = l(k)
    BY DEF gauge, ToSet
  <2> HIDE DEF a, b, l
  <2>7. a \o b \in Batch({D, P})
    BY <2>5, TwoBatches
  <2>8. ToSet(a \o b) = ToSet(a) \cup ToSet(b)
    <3>1. a \in Seq(Emitted) /\ b \in Seq(Emitted)
      BY <2>5 DEF Batch
    <3> QED BY <3>1, ConcatRange
  <2> QED BY <2>4, <2>6, <2>7, <2>8 DEF JobMetric
<1>3. \A k \in DOMAIN m : h[k] \in Batch(JobMetric)
  BY <1>2
<1>4. ASSUME NEW k \in DOMAIN m, NEW x \in ToSet(h[k])
      PROVE  Identifies("client", x, k)
  <2>1. x.labels = l(k)
    BY <1>2, <1>4
  <2> QED BY <2>1, FirstLabel
<1>5. h = [k \in DOMAIN m |-> h[k]] /\ IsFiniteSet(DOMAIN m)
  BY DEF MapOf
<1>6. \A k \in DOMAIN m : h[k] = jobGauges(k, m[k])
  OBVIOUS
<1> HIDE DEF h
<1>7. h \in [DOMAIN m -> Batch(JobMetric)]
  BY <1>3, <1>5
<1>8. /\ inAnyOrder(EntrySet(h)) # {}
      /\ \A f \in inAnyOrder(EntrySet(h)) : f \in Batch(JobMetric) /\ ToSet(f) = EntrySamples(h)
  BY <1>4, <1>5, <1>7, EntriesBatch
<1>9. /\ jobOrders(m) = inAnyOrder(EntrySet(h))
       /\ EntrySamples(h) = UNION {ToSet(jobGauges(k, m[k])) : k \in DOMAIN m}
  BY <1>5, <1>6 DEF EntrySet, EntrySamples, jobOrders
<1> QED BY <1>8, <1>9

-----------------------------------------------------------------------------
(* Which request a metric is of, and whose turn it is to send it. *)

requestOf(name) ==
  CASE name \in {"nsr_alert_info", "nsr_alerts_active"} -> "alerts"
    [] name \in {"nsr_client_info", "nsr_client_parallelism"} -> "clients"
    [] name \in SessionMetric \cup {"nsr_active_sessions"} -> "sessions"
    [] name \in {"nsr_volume_capacity_bytes", "nsr_volume_written_bytes",
                 "nsr_volume_recycled_total", "nsr_volume_status"} -> "volumes"
    [] name \in {"nsr_datadomain_capacity_total_bytes", "nsr_datadomain_capacity_used_bytes",
                 "nsr_datadomain_capacity_available_bytes",
                 "nsr_datadomain_logical_capacity_used_bytes"} -> "datadomainsystems"
    [] name = "nsr_device_info" -> "devices"
    [] name \in {"nsr_storagenode_info", "nsr_storagenode_device_count"} -> "storagenodes"
    [] name = "nsr_pool_info" -> "pools"
    [] name = "nsr_vmware_info" -> "vcenters"
    [] name = "nsr_policy_enabled" -> "protectionpolicies"
    [] name = "nsr_group_info" -> "protectiongroups"
    [] name \in {"nsr_backup_source_size_bytes", "nsr_backup_change_size_bytes",
                 "nsr_backup_retention_seconds"} \cup JobMetric -> "backups"
    [] name \in ServerMetric -> "serverstatistics"
    [] name \in {"nsr_job_status", "nsr_job_start_timestamp_seconds",
                 "nsr_job_end_timestamp_seconds"} -> "jobs"
    [] OTHER -> ""

MetricsOf(q) == {name \in Catalog : requestOf(name) = q}

turnOf(q) ==
  CASE q = "alerts" -> 1
    [] q = "clients" -> 2
    [] q = "sessions" -> 3
    [] q \in {"volumes", "datadomainsystems"} -> 4
    [] q = "devices" -> 5
    [] q = "storagenodes" -> 6
    [] q = "pools" -> 7
    [] q = "vcenters" -> 8
    [] q \in {"protectionpolicies", "protectiongroups"} -> 9
    [] q = "backups" -> 10
    [] q \in {"serverstatistics", "jobs"} -> 11

placeOf(q) == IF q \in {"datadomainsystems", "protectiongroups", "jobs"} THEN 2 ELSE 1

(* A request is sent once in a cycle. *)
LEMMA SentOnce ==
  /\ Len(Collectors) = 11 /\ DOMAIN Collectors = 1..11
  /\ \A c \in 1..11 :
       /\ Len(Collectors[c]) \in {1, 2} /\ DOMAIN Collectors[c] = 1..Len(Collectors[c])
       /\ \A k \in 1..Len(Collectors[c]) :
            LET q == Collectors[c][k]
            IN  turnOf(q) = c /\ placeOf(q) = k /\ q \in DOMAIN Item \cup {"backups"}
       /\ c = 10 <=> Collectors[c] = <<"backups">>
<1>1. Len(Collectors) = 11 /\ DOMAIN Collectors = 1..11
  BY DEF Collectors
<1> DEFINE P(c) ==
      /\ Len(Collectors[c]) \in {1, 2} /\ DOMAIN Collectors[c] = 1..Len(Collectors[c])
      /\ \A k \in 1..Len(Collectors[c]) :
           /\ turnOf(Collectors[c][k]) = c /\ placeOf(Collectors[c][k]) = k
           /\ Collectors[c][k] \in DOMAIN Item \cup {"backups"}
      /\ c = 10 <=> Collectors[c] = <<"backups">>
<1>2. ASSUME NEW c \in 1..11, NEW q, Collectors[c] = <<q>>, turnOf(q) = c, placeOf(q) = 1,
             q \in DOMAIN Item \cup {"backups"}, c = 10 <=> q = "backups"
      PROVE  P(c)
  <2>1. /\ Len(Collectors[c]) = 1 /\ DOMAIN Collectors[c] = 1..1
        /\ Collectors[c][1] = q
    BY <1>2
  <2>2. \A k \in 1..1 : k = 1
    OBVIOUS
  <2>3. Collectors[c] = <<"backups">> <=> q = "backups"
    BY <1>2
  <2> QED BY <1>2, <2>1, <2>2, <2>3
<1>3. ASSUME NEW c \in 1..11, NEW q, NEW r, Collectors[c] = <<q, r>>, c # 10,
             turnOf(q) = c, placeOf(q) = 1, turnOf(r) = c, placeOf(r) = 2,
             q \in DOMAIN Item, r \in DOMAIN Item
      PROVE  P(c)
  <2>1. /\ Len(Collectors[c]) = 2 /\ DOMAIN Collectors[c] = 1..2
        /\ Collectors[c][1] = q /\ Collectors[c][2] = r
    BY <1>3
  <2>2. \A k \in 1..2 : k = 1 \/ k = 2
    OBVIOUS
  <2>3. Collectors[c] # <<"backups">>
    <3>1. Len(<<"backups">>) = 1
      OBVIOUS
    <3> QED BY <2>1, <3>1
  <2> QED BY <1>3, <2>1, <2>2, <2>3
<1>4. /\ Collectors[1] = <<"alerts">> /\ Collectors[2] = <<"clients">>
      /\ Collectors[3] = <<"sessions">> /\ Collectors[4] = <<"volumes", "datadomainsystems">>
      /\ Collectors[5] = <<"devices">> /\ Collectors[6] = <<"storagenodes">>
      /\ Collectors[7] = <<"pools">> /\ Collectors[8] = <<"vcenters">>
      /\ Collectors[9] = <<"protectionpolicies", "protectiongroups">>
      /\ Collectors[10] = <<"backups">> /\ Collectors[11] = <<"serverstatistics", "jobs">>
  BY DEF Collectors
<1> DEFINE D == DOMAIN Item
<1>5. D = {"alerts", "clients", "sessions", "volumes", "datadomainsystems", "devices",
           "storagenodes", "pools", "vcenters", "protectionpolicies", "protectiongroups",
           "serverstatistics", "jobs"}
  BY DEF Item
<1> HIDE DEF P, D
<1>6. P(1) /\ P(2) /\ P(3)
  BY <1>2, <1>4, <1>5 DEF turnOf, placeOf, D
<1>7. P(5) /\ P(6) /\ P(7)
  BY <1>2, <1>4, <1>5 DEF turnOf, placeOf, D
<1>8. P(8) /\ P(10)
  BY <1>2, <1>4, <1>5 DEF turnOf, placeOf, D
<1>9. P(4) /\ P(9) /\ P(11)
  BY <1>3, <1>4, <1>5 DEF turnOf, placeOf, D
<1>10. \A c \in 1..11 : P(c)
  <2>1. \A c \in 1..11 : c \in {1, 2, 3, 4, 5, 6, 7, 8, 9, 10, 11}
    OBVIOUS
  <2> QED BY <1>6, <1>7, <1>8, <1>9, <2>1
<1> QED BY <1>1, <1>10 DEF P

LEMMA MetricsOfRequests ==
  /\ {"nsr_alert_info", "nsr_alerts_active"} \subseteq MetricsOf("alerts")
  /\ {"nsr_client_info", "nsr_client_parallelism"} \subseteq MetricsOf("clients")
  /\ SessionMetric \cup {"nsr_active_sessions"} \subseteq MetricsOf("sessions")
  /\ {"nsr_volume_capacity_bytes", "nsr_volume_written_bytes",
      "nsr_volume_recycled_total", "nsr_volume_status"} \subseteq MetricsOf("volumes")
  /\ {"nsr_datadomain_capacity_total_bytes", "nsr_datadomain_capacity_used_bytes",
      "nsr_datadomain_capacity_available_bytes",
      "nsr_datadomain_logical_capacity_used_bytes"} \subseteq MetricsOf("datadomainsystems")
  /\ {"nsr_device_info"} \subseteq MetricsOf("devices")
  /\ {"nsr_storagenode_info", "nsr_storagenode_device_count"}
       \subseteq MetricsOf("storagenodes")
  /\ {"nsr_pool_info"} \subseteq MetricsOf("pools")
  /\ {"nsr_vmware_info"} \subseteq MetricsOf("vcenters")
  /\ {"nsr_policy_enabled"} \subseteq MetricsOf("protectionpolicies")
  /\ {"nsr_group_info"} \subseteq MetricsOf("protectiongroups")
  /\ {"nsr_backup_source_size_bytes", "nsr_backup_change_size_bytes",
      "nsr_backup_retention_seconds"} \cup JobMetric \subseteq MetricsOf("backups")
  /\ ServerMetric \subseteq MetricsOf("serverstatistics")
  /\ {"nsr_job_status", "nsr_job_start_timestamp_seconds",
      "nsr_job_end_timestamp_seconds"} \subseteq MetricsOf("jobs")
BY DEF MetricsOf, requestOf, Catalog, CatalogGauges, CatalogCounters, SessionMetric,
       JobMetric, ServerMetric

(* The sizing collector's samples: four maps, of different metrics. *)
LEMMA SizingBatch ==
  ASSUME IInv, NEW new \in sizingEmissions(fullMax, incrMax, retMax, jobBest)
  PROVE  new \in Batch(MetricsOf("backups"))
<1> DEFINE F == "nsr_backup_source_size_bytes"
           C == "nsr_backup_change_size_bytes"
           R == "nsr_backup_retention_seconds"
<1>1. PICK f \in sizeOrders(F, "Full", fullMax), c \in sizeOrders(C, "Incr", incrMax),
           r \in retentionOrders(retMax), j \in jobOrders(jobBest) :
        new = f \o c \o r \o j
  BY DEF sizingEmissions
<1>2. /\ MapOf(fullMax, Nat) /\ MapOf(incrMax, Nat) /\ MapOf(retMax, Nat)
      /\ MapOf(jobBest, Throughput)
  BY MapsTyped
<1>3. f \in Batch({F}) /\ c \in Batch({C})
  BY <1>1, <1>2, SizeOrdersBatch
<1>4. r \in Batch({R}) /\ j \in Batch(JobMetric)
  BY <1>1, <1>2, RetentionOrdersBatch, JobOrdersBatch
<1>5. f \o c \in Batch({F, C})
  BY <1>3, TwoBatches
<1>6. f \o c \o r \in Batch({F, C} \cup {R})
  BY <1>4, <1>5, OneMoreBatch
<1>7. f \o c \o r \o j \in Batch(({F, C} \cup {R}) \cup JobMetric)
  <2>1. ({F, C} \cup {R}) \cap JobMetric = {}
    BY DEF JobMetric
  <2> DEFINE p == f \o c \o r
  <2>2. p \in Batch({F, C} \cup {R})
    BY <1>6
  <2> HIDE DEF p
  <2> QED BY <1>4, <2>1, <2>2, ConcatBatch DEF p
<1>8. ({F, C} \cup {R}) \cup JobMetric \subseteq MetricsOf("backups")
  BY MetricsOfRequests
<1> QED BY <1>1, <1>7, <1>8, BatchWidens

LEMMA SessionsBatch ==
  ASSUME NEW items \in Seq(Item["sessions"]), NEW new \in sessionEmissions(items)
  PROVE  new \in Batch(MetricsOf("sessions"))
<1> DEFINE acc == FoldLeft(addSession, SessionStart, items)
           emit(k) == groupSamples(k, acc.groups[k])
           A == "nsr_active_sessions"
<1>1. acc \in Grouped
  <2>1. PICK f : f \in [0..Len(items) -> Grouped] /\ acc = f[Len(items)]
    BY SessionSteps
  <2>2. Len(items) \in 0..Len(items)
    OBVIOUS
  <2> QED BY <2>1, <2>2
<1>2. PICK rest \in totals(A, "session_type", acc.byMode) : new = each(acc.order, emit) \o rest
  BY DEF sessionEmissions
<1>3. each(acc.order, emit)
        = FlattenSeq([n \in 1..Len(acc.order) |->
                        groupSamples(acc.order[n], acc.groups[acc.order[n]])])
  BY DEF each
<1>4. acc.byMode \in Tally(GoodValue)
  BY <1>1 DEF Grouped
<1> HIDE DEF acc
<1>5. each(acc.order, emit) \in Batch(SessionMetric)
  BY <1>1, <1>3, GroupsBatch
<1> DEFINE p == each(acc.order, emit)
<1> HIDE DEF p
<1>6. rest \in Batch({A})
  <2>1. A \in CatalogGauges \ CycleMetric /\ keysOf(A) = {"session_type"}
    BY DEF keysOf, CatalogGauges, CycleMetric, upName, durationName, guardMetric
  <2>2. "session_type" \in LabelKey
    BY DEF LabelKey
  <2> QED BY <1>2, <1>4, <2>1, <2>2, TotalsBatch
<1>7. p \o rest \in Batch(SessionMetric \cup {A})
  <2>1. A \notin SessionMetric
    BY DEF SessionMetric
  <2>2. p \in Batch(SessionMetric)
    BY <1>5 DEF p
  <2> QED BY <1>6, <2>1, <2>2, OneMoreBatch
<1>8. new = p \o rest
  BY <1>2 DEF p
<1> QED BY <1>7, <1>8, MetricsOfRequests, BatchWidens

LEMMA AlertsBatch ==
  ASSUME NEW items \in Seq(Item["alerts"]), NEW new \in Emissions("alerts", items)
  PROVE  new \in Batch(MetricsOf("alerts"))
<1> DEFINE I == "nsr_alert_info"
           A == "nsr_alerts_active"
           q == [n \in 1..Len(items) |-> alertSamples(items[n])]
           p == FlattenSeq(q)
<1>1. PICK rest \in totals(A, "priority", byPriority(items)) : new = p \o rest
  BY DEF Emissions, each
<1>2. q \in [1..Len(items) -> Batch({I})]
  BY AlertBatch
<1>3. p \in Batch({I})
  <2>1. {I} \subseteq PerItem /\ Len(items) \in Nat
    BY DEF PerItem
  <2> HIDE DEF q
  <2> QED BY <1>2, <2>1, EachBatch
<1>4. rest \in Batch({A})
  <2>1. A \in CatalogGauges \ CycleMetric /\ keysOf(A) = {"priority"}
    BY DEF keysOf, CatalogGauges, CycleMetric, upName, durationName, guardMetric
  <2>2. "priority" \in LabelKey
    BY DEF LabelKey
  <2>3. byPriority(items) \in Tally(GoodValue)
    BY ByPriorityType
  <2> QED BY <1>1, <2>1, <2>2, <2>3, TotalsBatch
<1> HIDE DEF p
<1>5. p \o rest \in Batch({I, A})
  BY <1>3, <1>4, TwoBatches
<1> QED BY <1>1, <1>5, MetricsOfRequests, BatchWidens

(* Item by item, of metrics with one sample per item. *)
LEMMA ItemsBatch ==
  ASSUME NEW q, NEW N, N \subseteq PerItem \cap MetricsOf(q), NEW items \in Seq(Item[q]),
         NEW e \in [1..Len(items) -> Batch(N)]
  PROVE  FlattenSeq(e) \in Batch(MetricsOf(q))
<1>1. FlattenSeq(e) \in Batch(N)
  BY EachBatch
<1> QED BY <1>1, BatchWidens

(* Whatever is appended for the answer to a request is of its metrics. *)
LEMMA EmissionsBatch ==
  ASSUME NEW q \in DOMAIN Item, NEW items \in Seq(Item[q]),
         q = "serverstatistics" => Len(items) = 1,
         NEW new \in Emissions(q, items)
  PROVE  new \in Batch(MetricsOf(q))
<1>0. Len(items) \in Nat /\ \A n \in 1..Len(items) : items[n] \in Item[q]
  OBVIOUS
<1>1. CASE q = "alerts"
  BY <1>1, AlertsBatch
<1>2. CASE q = "clients"
  <2> DEFINE N == {"nsr_client_info", "nsr_client_parallelism"}
             e == [n \in 1..Len(items) |-> clientSamples(items[n])]
  <2>1. new = FlattenSeq(e)
    BY <1>2 DEF Emissions, each
  <2>2. e \in [1..Len(items) -> Batch(N)]
    BY <1>0, <1>2, ClientBatch
  <2>3. N \subseteq PerItem \cap MetricsOf(q)
    BY <1>2, MetricsOfRequests DEF PerItem
  <2> HIDE DEF e, N
  <2> QED BY <2>1, <2>2, <2>3, ItemsBatch
<1>3. CASE q = "sessions"
  <2>1. new \in sessionEmissions(items)
    BY <1>3 DEF Emissions
  <2> QED BY <1>3, <2>1, SessionsBatch
<1>4. CASE q = "volumes"
  <2> DEFINE N == {"nsr_volume_capacity_bytes", "nsr_volume_written_bytes",
                   "nsr_volume_recycled_total", "nsr_volume_status"}
             e == [n \in 1..Len(items) |-> volumeSamples(items[n])]
  <2>1. new = FlattenSeq(e)
    BY <1>4 DEF Emissions, each
  <2>2. e \in [1..Len(items) -> Batch(N)]
    BY <1>0, <1>4, VolumeBatch
  <2>3. N \subseteq PerItem \cap MetricsOf(q)
    BY <1>4, MetricsOfRequests DEF PerItem
  <2> HIDE DEF e, N
  <2> QED BY <2>1, <2>2, <2>3, ItemsBatch
<1>5. CASE q = "datadomainsystems"
  <2> DEFINE N == {"nsr_datadomain_capacity_total_bytes",
                   "nsr_datadomain_capacity_used_bytes",
                   "nsr_datadomain_capacity_available_bytes",
                   "nsr_datadomain_logical_capacity_used_bytes"}
             e == [n \in 1..Len(items) |-> datadomainSamples(items[n])]
  <2>1. new = FlattenSeq(e)
    BY <1>5 DEF Emissions, each
  <2>2. e \in [1..Len(items) -> Batch(N)]
    BY <1>0, <1>5, DataDomainBatch
  <2>3. N \subseteq PerItem \cap MetricsOf(q)
    BY <1>5, MetricsOfRequests DEF PerItem
  <2> HIDE DEF e, N
  <2> QED BY <2>1, <2>2, <2>3, ItemsBatch
<1>6. CASE q = "devices"
  <2> DEFINE N == {"nsr_device_info"}
             e == [n \in 1..Len(items) |-> deviceSamples(items[n])]
  <2>1. new = FlattenSeq(e)
    BY <1>6 DEF Emissions, each
  <2>2. e \in [1..Len(items) -> Batch(N)]
    BY <1>0, <1>6, DeviceBatch
  <2>3. N \subseteq PerItem \cap MetricsOf(q)
    BY <1>6, MetricsOfRequests DEF PerItem
  <2> HIDE DEF e, N
  <2> QED BY <2>1, <2>2, <2>3, ItemsBatch
<1>7. CASE q = "storagenodes"
  <2> DEFINE N == {"nsr_storagenode_info", "nsr_storagenode_device_count"}
             e == [n \in 1..Len(items) |-> storageNodeSamples(items[n])]
  <2>1. new = FlattenSeq(e)
    BY <1>7 DEF Emissions, each
  <2>2. e \in [1..Len(items) -> Batch(N)]
    BY <1>0, <1>7, StorageNodeBatch
  <2>3. N \subseteq PerItem \cap MetricsOf(q)
    BY <1>7, MetricsOfRequests DEF PerItem
  <2> HIDE DEF e, N
  <2> QED BY <2>1, <2>2, <2>3, ItemsBatch
<1>8. CASE q = "pools"
  <2> DEFINE N == {"nsr_pool_info"}
             e == [n \in 1..Len(items) |-> poolSamples(items[n])]
  <2>1. new = FlattenSeq(e)
    BY <1>8 DEF Emissions, each
  <2>2. e \in [1..Len(items) -> Batch(N)]
    BY <1>0, <1>8, PoolBatch
  <2>3. N \subseteq PerItem \cap MetricsOf(q)
    BY <1>8, MetricsOfRequests DEF PerItem
  <2> HIDE DEF e, N
  <2> QED BY <2>1, <2>2, <2>3, ItemsBatch
<1>9. CASE q = "vcenters"
  <2> DEFINE N == {"nsr_vmware_info"}
             e == [n \in 1..Len(items) |-> vcenterSamples(items[n])]
  <2>1. new = FlattenSeq(e)
    BY <1>9 DEF Emissions, each
  <2>2. e \in [1..Len(items) -> Batch(N)]
    BY <1>0, <1>9, VCenterBatch
  <2>3. N \subseteq PerItem \cap MetricsOf(q)
    BY <1>9, MetricsOfRequests DEF PerItem
  <2> HIDE DEF e, N
  <2> QED BY <2>1, <2>2, <2>3, ItemsBatch
<1>10. CASE q = "protectionpolicies"
  <2> DEFINE N == {"nsr_policy_enabled"}
             e == [n \in 1..Len(items) |-> policySamples(items[n])]
  <2>1. new = FlattenSeq(e)
    BY <1>10 DEF Emissions, each
  <2>2. e \in [1..Len(items) -> Batch(N)]
    BY <1>0, <1>10, PolicyBatch
  <2>3. N \subseteq PerItem \cap MetricsOf(q)
    BY <1>10, MetricsOfRequests DEF PerItem
  <2> HIDE DEF e, N
  <2> QED BY <2>1, <2>2, <2>3, ItemsBatch
<1>11. CASE q = "protectiongroups"
  <2> DEFINE N == {"nsr_group_info"}
             e == [n \in 1..Len(items) |-> groupInfo(items[n])]
  <2>1. new = FlattenSeq(e)
    BY <1>11 DEF Emissions, each
  <2>2. e \in [1..Len(items) -> Batch(N)]
    BY <1>0, <1>11, GroupBatch
  <2>3. N \subseteq PerItem \cap MetricsOf(q)
    BY <1>11, MetricsOfRequests DEF PerItem
  <2> HIDE DEF e, N
  <2> QED BY <2>1, <2>2, <2>3, ItemsBatch
<1>12. CASE q = "jobs"
  <2> DEFINE N == {"nsr_job_status", "nsr_job_start_timestamp_seconds",
                   "nsr_job_end_timestamp_seconds"}
             e == [n \in 1..Len(items) |-> jobSamples(items[n])]
  <2>1. new = FlattenSeq(e)
    BY <1>12 DEF Emissions, each
  <2>2. e \in [1..Len(items) -> Batch(N)]
    BY <1>0, <1>12, JobBatch
  <2>3. N \subseteq PerItem \cap MetricsOf(q)
    BY <1>12, MetricsOfRequests DEF PerItem
  <2> HIDE DEF e, N
  <2> QED BY <2>1, <2>2, <2>3, ItemsBatch
<1>13. CASE q = "serverstatistics"
  <2> DEFINE e == [n \in 1..Len(items) |-> statisticsSamples(items[n])]
             s == statisticsSamples(items[1])
  <2>1. new = FlattenSeq(e)
    BY <1>13 DEF Emissions, each
  <2>2. Len(items) = 1 /\ items[1] \in Item[q]
    BY <1>0, <1>13
  <2>3. s \in Batch(ServerMetric)
    BY <1>13, <2>2, StatisticsBatch
  <2>4. e = [n \in 1..1 |-> s]
    BY <2>2
  <2> HIDE DEF s
  <2>5. FlattenSeq([n \in 1..1 |-> s]) \in Batch(ServerMetric)
    <3> DEFINE g == [n \in 1..1 |-> s]
    <3>1. g \in [1..1 -> Batch(ServerMetric)] /\ \A k, m \in 1..1 : k = m
      BY <2>3
    <3> HIDE DEF g
    <3>2. FlattenSeq(g) \in Batch(ServerMetric)
      BY <3>1, FlattenBatch
    <3> QED BY <3>2 DEF g
  <2> QED BY <1>13, <2>1, <2>4, <2>5, MetricsOfRequests, BatchWidens
<1>14. q \in {"alerts", "clients", "sessions", "volumes", "datadomainsystems", "devices",
              "storagenodes", "pools", "vcenters", "protectionpolicies", "protectiongroups",
              "serverstatistics", "jobs"}
  BY DEF Item
<1> QED
  BY <1>1, <1>2, <1>3, <1>4, <1>5, <1>6, <1>7, <1>8, <1>9, <1>10, <1>11, <1>12, <1>13, <1>14

(* A server is asked for every field that its items have. *)
LEMMA SentComplete ==
  ASSUME NEW q \in DOMAIN Item, NEW items \in Seq(Item[q])
  PROVE  Sent(q, items) = items
<1> DEFINE Complete(r) == \A x \in Item[r] :
             DOMAIN x = Fields[r] /\ x = [f \in DOMAIN x |-> x[f]]
<1>1. DOMAIN Fields = {"alerts", "clients", "sessions", "volumes", "datadomainsystems",
                       "devices", "storagenodes", "pools", "vcenters", "protectionpolicies",
                       "protectiongroups", "jobs"}
  BY DEF Fields
<1>2. Complete("alerts")
  BY DEF Item, Fields
<1>3. Complete("clients")
  BY DEF Item, Fields
<1>4. Complete("sessions")
  BY DEF Item, Fields
<1>5. Complete("volumes")
  BY DEF Item, Fields
<1>6. Complete("datadomainsystems")
  BY DEF Item, Fields
<1>7. Complete("devices")
  BY DEF Item, Fields
<1>8. Complete("storagenodes")
  BY DEF Item, Fields
<1>9. Complete("pools")
  BY DEF Item, Fields
<1>10. Complete("vcenters")
  BY DEF Item, Fields
<1>11. Complete("protectionpolicies")
  BY DEF Item, Fields
<1>12. Complete("protectiongroups")
  BY DEF Item, Fields
<1>13. Complete("jobs")
  BY DEF Item, Fields
<1>14. ASSUME q \in DOMAIN Fields PROVE Sent(q, items) = items
  <2>1. Complete(q)
    BY <1>1, <1>2, <1>3, <1>4, <1>5, <1>6, <1>7, <1>8, <1>9, <1>10, <1>11, <1>12, <1>13, <1>14
  <2> DEFINE l == [m \in 1..Len(items) |->
                     [f \in DOMAIN items[m] |->
                        IF f \in Fields[q] THEN items[m][f] ELSE Absent]]
  <2>2. Sent(q, items) = l
    BY <1>14 DEF Sent
  <2>3. ASSUME NEW m \in 1..Len(items) PROVE l[m] = items[m]
    <3> DEFINE x == items[m]
    <3>1. x \in Item[q]
      OBVIOUS
    <3>2. l[m] = [f \in DOMAIN x |-> IF f \in Fields[q] THEN x[f] ELSE Absent]
      OBVIOUS
    <3> HIDE DEF l, x
    <3>3. DOMAIN x = Fields[q] /\ x = [f \in DOMAIN x |-> x[f]]
      BY <2>1, <3>1
    <3>4. l[m] = [f \in DOMAIN x |-> x[f]]
      BY <3>2, <3>3
    <3>5. l[m] = x
      BY <3>3, <3>4
    <3> QED BY <3>5 DEF x
  <2>4. l = [m \in 1..Len(items) |-> l[m]] /\ items = [m \in 1..Len(items) |-> items[m]]
    OBVIOUS
  <2> HIDE DEF l
  <2> QED BY <2>2, <2>3, <2>4
<1>15. ASSUME q \notin DOMAIN Fields PROVE Sent(q, items) = items
  BY <1>15 DEF Sent
<1> QED BY <1>14, <1>15

-----------------------------------------------------------------------------
(* The cycle of one system. *)

(* The metrics of the collectors before collector c, its own, and those of *)
(* its first k requests.                                                   *)
Earlier(c) == {name \in Catalog : requestOf(name) \in Request /\ turnOf(requestOf(name)) < c}
OfTurn(c) == {name \in Catalog : requestOf(name) \in Request /\ turnOf(requestOf(name)) = c}
Built(c, k) ==
  {name \in Catalog : LET q == requestOf(name)
                      IN  q \in Request /\ turnOf(q) = c /\ placeOf(q) <= k}

CycleInv ==
  /\ server \in Server
  /\ answer = server["backups"]
  /\ rc \in 1..12
  /\ asked \in 0..2
  /\ rc # 12 => asked <= Len(Collectors[rc])
  /\ out \in Batch(Built(rc, asked))
  /\ samples \in Batch(Earlier(rc))
  /\ healthy \in BOOLEAN

LEMMA InitCycleInv == CollectInit => CycleInv
<1> SUFFICES ASSUME CollectInit PROVE CycleInv
  OBVIOUS
<1>1. rc = 1 /\ asked = 0 /\ Len(Collectors[1]) \in {1, 2}
  BY SentOnce DEF CollectInit
<1> QED BY <1>1, EmptyBatch DEF CollectInit, CycleInv

(* The turn passes: what the collectors before had is what was had before, *)
(* and a builder of no samples is begun.                                   *)
LEMMA TurnPasses ==
  ASSUME CycleInv, rc \in 1..11, NextCollector,
         samples' \in Batch(Earlier(rc) \cup OfTurn(rc)), healthy' \in BOOLEAN
  PROVE  CycleInv'
<1>1. rc' \in 1..12 /\ rc' = rc + 1 /\ asked' = 0 /\ out' = <<>>
  BY DEF NextCollector
<1>2. rc' # 12 => Len(Collectors[rc']) \in {1, 2}
  <2>1. rc' # 12 => rc' \in 1..11
    BY <1>1
  <2> QED BY <2>1, SentOnce
<1>3. \A q \in Request : turnOf(q) \in 1..11
  <2> SUFFICES ASSUME NEW q \in Request PROVE turnOf(q) \in 1..11
    OBVIOUS
  <2>1. PICK c \in DOMAIN Collectors : q \in ToSet(Collectors[c])
    BY DEF Request
  <2>2. c \in 1..11
    BY <2>1, SentOnce
  <2>3. PICK k \in 1..Len(Collectors[c]) : q = Collectors[c][k]
    BY <2>1, <2>2, SentOnce, ZenonT(60) DEF ToSet
  <2> QED BY <2>2, <2>3, SentOnce
<1>4. Earlier(rc) \cup OfTurn(rc) \subseteq Earlier(rc')
  BY <1>1, <1>3 DEF Earlier, OfTurn
<1>5. samples' \in Batch(Earlier(rc'))
  BY <1>4, BatchWidens
<1>6. out' \in Batch(Built(rc', asked'))
  BY <1>1, EmptyBatch
<1>7. server' = server /\ answer' = answer
  BY DEF NextCollector, vars
<1> QED BY <1>1, <1>2, <1>5, <1>6, <1>7 DEF CycleInv

LEMMA EarlierApart == \A c \in 1..11 : Earlier(c) \cap OfTurn(c) = {}
BY DEF Earlier, OfTurn

LEMMA SucceedsCycleInv == CycleInv /\ Succeeds => CycleInv'
<1> SUFFICES ASSUME CycleInv, Succeeds PROVE CycleInv'
  OBVIOUS
<1> DEFINE q == query
           B == Built(rc, asked)
           A == Built(rc, asked + 1)
<1>1. rc \in 1..11 /\ asked + 1 \in 1..Len(Collectors[rc]) /\ asked + 1 \in 0..2
  <2> DEFINE n == Len(Collectors[rc])
  <2>1. rc \in 1..11 /\ asked < n /\ asked \in 0..2
    BY SentOnce DEF CycleInv, Succeeds, Asking, Returned
  <2>2. n = 1 \/ n = 2
    BY <2>1, SentOnce
  <2> HIDE DEF n
  <2>3. asked + 1 \in 1..n /\ asked + 1 \in 0..2
    BY <2>1, <2>2
  <2> QED BY <2>1, <2>3 DEF n
<1>2. /\ turnOf(q) = rc /\ placeOf(q) = asked + 1 /\ q \in DOMAIN Item \cup {"backups"}
      /\ q \in Request
  <2>1. q = Collectors[rc][asked + 1]
    BY DEF query
  <2>2. q \in ToSet(Collectors[rc]) /\ rc \in DOMAIN Collectors
    BY <1>1, <2>1, SentOnce DEF ToSet
  <2> QED BY <1>1, <2>1, <2>2, SentOnce, ZenonT(60) DEF Request
<1> HIDE DEF q
<1>3. out \in Batch(B)
  BY DEF CycleInv
<1>4. B \subseteq A
  <2>1. \A r : placeOf(r) \in {1, 2}
    BY DEF placeOf
  <2>2. asked \in 0..2
    BY DEF CycleInv
  <2> QED BY <2>1, <2>2 DEF Built
<1>5. out' \in Batch(A)
  <2>1. CASE q = "backups"
    <3>1. out' = out \o <<>>
      BY <2>1 DEF Succeeds, q
    <3>2. out \in Seq(Emitted)
      BY <1>3 DEF Batch
    <3>3. out' = out
      BY <3>1, <3>2
    <3> HIDE DEF A, B
    <3> QED BY <1>3, <1>4, <3>3, BatchWidens
  <2>2. CASE q \in DOMAIN Item /\ q # "backups"
    <3>1. server[q] \in Seq(Item[q]) /\ (q = "serverstatistics" => Len(server[q]) = 1)
      BY <2>2, ServerAssumption DEF CycleInv
    <3>2. Sent(q, server[q]) = server[q]
      BY <2>2, <3>1, SentComplete
    <3>3. PICK new \in Emissions(q, server[q]) : out' = out \o new
      BY <2>2, <3>2 DEF Succeeds, q
    <3>4. new \in Batch(MetricsOf(q))
      BY <2>2, <3>1, <3>3, EmissionsBatch
    <3>5. MetricsOf(q) \subseteq A
      BY <1>1, <1>2 DEF MetricsOf, Built
    <3>6. B \cap MetricsOf(q) = {}
      <4>1. asked \in Int /\ ~ asked + 1 <= asked
        BY <1>1 DEF CycleInv
      <4> QED BY <1>2, <4>1 DEF MetricsOf, Built
    <3>7. out \o new \in Batch(B \cup MetricsOf(q))
      <4> HIDE DEF B
      <4> QED BY <1>3, <3>4, <3>6, ConcatBatch
    <3>8. B \cup MetricsOf(q) \subseteq A
      BY <1>4, <3>5
    <3> HIDE DEF A, B
    <3> QED BY <3>3, <3>7, <3>8, BatchWidens
  <2>3. "backups" \notin DOMAIN Item
    BY DEF Item
  <2> QED BY <1>2, <2>1, <2>2, <2>3
<1>6. /\ rc' = rc /\ asked' = asked + 1 /\ server' = server /\ answer' = answer
      /\ samples' = samples /\ healthy' = healthy
  BY DEF Succeeds, vars
<1> QED BY <1>1, <1>5, <1>6 DEF CycleInv

LEMMA FailsCycleInv == CycleInv /\ Fails => CycleInv'
<1> SUFFICES ASSUME CycleInv, Fails PROVE CycleInv'
  OBVIOUS
<1>1. rc \in 1..11
  BY SentOnce DEF CycleInv, Fails, Asking, Returned
<1>2. samples' \in Batch(Earlier(rc) \cup OfTurn(rc))
  <2>1. Earlier(rc) \subseteq Earlier(rc) \cup OfTurn(rc) /\ samples' \in Batch(Earlier(rc))
    BY DEF CycleInv, Fails
  <2> QED BY <2>1, BatchWidens
<1> QED BY <1>1, <1>2, TurnPasses DEF Fails

(* What a collector returns is its part of the samples. *)
LEMMA ReturnsBatch ==
  ASSUME IInv, CycleInv, Returns
  PROVE  rc \in 1..11 /\ \E new \in Batch(OfTurn(rc)) : samples' = samples \o new
<1>1. rc \in 1..11
  BY SentOnce DEF CycleInv, Returns, Answered, Returned
<1>2. \E new \in Batch(OfTurn(rc)) : samples' = samples \o new
  <2>1. CASE Collectors[rc] = <<"backups">>
    <3>1. rc = 10
      BY <1>1, <2>1, SentOnce
    <3>2. PICK new \in sizingEmissions(fullMax, incrMax, retMax, jobBest) :
            samples' = samples \o new
      BY <2>1 DEF Returns
    <3>3. new \in Batch(MetricsOf("backups"))
      BY <3>2, SizingBatch
    <3>4. MetricsOf("backups") \subseteq OfTurn(10)
      <4>1. "backups" \in ToSet(Collectors[10]) /\ 10 \in DOMAIN Collectors
        <5>1. Collectors[10] = <<"backups">> /\ 10 \in 1..11
          BY <2>1, <3>1
        <5> QED BY <5>1, SentOnce DEF ToSet
      <4>2. "backups" \in Request
        BY <4>1 DEF Request
      <4> QED BY <4>2 DEF MetricsOf, OfTurn, turnOf
    <3> QED BY <3>1, <3>2, <3>3, <3>4, BatchWidens
  <2>2. CASE Collectors[rc] # <<"backups">>
    <3>1. samples' = samples \o out
      BY <2>2 DEF Returns
    <3>2. Built(rc, asked) \subseteq OfTurn(rc)
      BY DEF Built, OfTurn
    <3>3. out \in Batch(OfTurn(rc))
      BY <3>2, BatchWidens DEF CycleInv
    <3> QED BY <3>1, <3>3
  <2> QED BY <2>1, <2>2
<1> QED BY <1>1, <1>2

LEMMA ReturnsCycleInv == IInv /\ CycleInv /\ Returns => CycleInv'
<1> SUFFICES ASSUME IInv, CycleInv, Returns PROVE CycleInv'
  OBVIOUS
<1>1. rc \in 1..11
  BY ReturnsBatch
<1>2. \E new \in Batch(OfTurn(rc)) : samples' = samples \o new
  BY ReturnsBatch
<1>3. samples' \in Batch(Earlier(rc) \cup OfTurn(rc))
  <2>1. samples \in Batch(Earlier(rc))
    BY DEF CycleInv
  <2>2. Earlier(rc) \cap OfTurn(rc) \subseteq PerItem
    BY <1>1, EarlierApart
  <2> QED BY <1>2, <2>1, <2>2, ConcatBatch
<1> QED BY <1>1, <1>3, TurnPasses DEF Returns, CycleInv

LEMMA CycleInvariant == CollectSpec => [](IInv /\ CycleInv)
<1>1. IInv /\ CycleInv /\ [CollectNext]_allVars => CycleInv'
  <2> SUFFICES ASSUME IInv, CycleInv, [CollectNext]_allVars PROVE CycleInv'
    OBVIOUS
  <2>1. CASE Succeeds
    BY <2>1, SucceedsCycleInv
  <2>2. CASE Fails
    BY <2>2, FailsCycleInv
  <2>3. CASE Folds
    BY <2>3 DEF Folds, Fold, CycleInv
  <2>4. CASE Returns
    BY <2>4, ReturnsCycleInv
  <2>5. CASE UNCHANGED allVars
    BY <2>5 DEF allVars, vars, CycleInv
  <2> QED BY <2>1, <2>2, <2>3, <2>4, <2>5 DEF CollectNext
<1> QED BY <1>1, InitCycleInv, SizingInvariant, PTL DEF CollectSpec

(* Whatever a server holds and whichever requests fail, what is built are  *)
(* samples, and no collector is asked for more than its requests.          *)
THEOREM CollectTypeOKAlways == CollectSpec => []CollectTypeOK
<1>1. IInv /\ CycleInv => CollectTypeOK
  <2> SUFFICES ASSUME IInv, CycleInv PROVE CollectTypeOK
    OBVIOUS
  <2>1. TypeOK
    <3>1. answer \in Seq(Backup) /\ i \in 0..Len(answer)
      BY DEF IInv
    <3> QED BY <3>1, MapsTyped DEF TypeOK, MapOf, Throughput
  <2>2. out \in Seq(Sample) /\ samples \in Seq(Sample)
    <3>1. Emitted \subseteq Sample
      BY DEF Emitted
    <3>2. out \in Seq(Emitted) /\ samples \in Seq(Emitted)
      BY DEF CycleInv, Batch
    <3> QED BY <3>1, <3>2
  <2>3. rc \in 1..(Len(Collectors) + 1)
    BY SentOnce DEF CycleInv
  <2>4. ~ Returned => asked \in 0..Len(Collectors[rc])
    <3> SUFFICES ASSUME ~ Returned PROVE asked \in 0..Len(Collectors[rc])
      OBVIOUS
    <3> DEFINE n == Len(Collectors[rc])
    <3>1. Len(Collectors) = 11 /\ rc \in 1..12
      BY SentOnce DEF CycleInv
    <3>2. rc \in 1..11 /\ rc # 12
      BY <3>1 DEF Returned
    <3>4. n = 1 \/ n = 2
      BY <3>2, SentOnce
    <3>5. asked \in 0..2 /\ asked <= n
      BY <3>2 DEF CycleInv
    <3> HIDE DEF n
    <3>3. asked \in 0..n
      BY <3>4, <3>5
    <3> QED BY <3>3 DEF n
  <2>5. DOMAIN server = Request /\ healthy \in BOOLEAN
    BY ServerAssumption DEF CycleInv
  <2> QED BY <2>1, <2>2, <2>3, <2>4, <2>5 DEF CollectTypeOK
<1> QED BY <1>1, CycleInvariant, PTL

-----------------------------------------------------------------------------
(* What the guard and the exports see of the cycle. *)

systemTag == [key |-> systemLabel, value |-> Polled]

LEMMA TaggedSample ==
  ASSUME NEW s \in Sample, NEW K, s.labels \in Labels(K)
  PROVE  LET t == withSystem(s, Polled)
         IN  /\ t \in Sample /\ validLabels(t.labels)
             /\ t.name = s.name /\ t.help = s.help /\ t.type = s.type
             /\ LabelPairs(t) = LabelPairs(s) \cup {systemTag}
             /\ systemTag \notin LabelPairs(s)
             /\ K \subseteq LabelKey
<1> DEFINE T == [key : LabelKey, value : GoodValue]
           l == s.labels
           g == systemTag
           r == Append(l, g)
           t == withSystem(s, Polled)
<1>1. /\ l \in Seq(T) /\ Len(l) \in Nat /\ {l[n].key : n \in 1..Len(l)} = K
      /\ \A n, m \in 1..Len(l) : l[n].key = l[m].key => n = m
  BY DEF Labels
<1>2. Polled \in GoodValue
  <2>1. PICK n \in 1..Len(Systems) : Polled = Systems[n]
    BY SamplesAssumption DEF System
  <2>2. Systems \in Seq(GoodValue)
    BY SystemsAssumption
  <2> QED BY <2>1, <2>2
<1>3. g.key = systemLabel /\ g.value \in GoodValue /\ g \in Label
  BY <1>2, LabelsAssumption DEF systemTag, Label
<1>4. \A x \in T : x \in Label /\ x.key \in GoodKey /\ x.key # systemLabel /\ x.value \in GoodValue
  BY SamplesAssumption, LabelsAssumption DEF Label
<1>5. l \in Seq(Label) /\ \A n \in 1..Len(l) : l[n] \in T
  <2> HIDE DEF T, l
  <2> QED BY <1>1, <1>4
<1>6. t = [s EXCEPT !.labels = r]
  BY DEF withSystem, systemTag
<1>7. /\ r \in Seq(Label) /\ Len(r) = Len(l) + 1 /\ r[Len(l) + 1] = g
      /\ \A n \in 1..Len(l) : r[n] = l[n]
  <2> HIDE DEF l, g
  <2> QED BY <1>3, <1>5
<1> HIDE DEF r
<1>8. /\ t \in Sample /\ t.name = s.name /\ t.help = s.help /\ t.type = s.type
      /\ t.labels = r
  BY <1>6, <1>7 DEF Sample
<1> HIDE DEF l, t, g
<1>9. systemLabel \in GoodKey
  BY LabelsAssumption
<1>10. \A n \in 1..(Len(l) + 1) : n \in 1..Len(l) \/ n = Len(l) + 1
  BY <1>1
<1>11. validLabels(r)
  <2>1. \A n \in 1..Len(r) : r[n].key \in GoodKey /\ r[n].value \in GoodValue
    BY <1>3, <1>4, <1>5, <1>7, <1>9, <1>10
  <2>2. ASSUME NEW n \in 1..Len(r), NEW m \in 1..Len(r), r[n].key = r[m].key
        PROVE  n = m
    <3>1. \A k \in 1..Len(l) : r[k].key # systemLabel
      BY <1>4, <1>5, <1>7
    <3>2. r[Len(l) + 1].key = systemLabel
      BY <1>3, <1>7
    <3> QED BY <1>1, <1>7, <1>10, <2>2, <3>1, <3>2
  <2> QED BY <2>1, <2>2 DEF validLabels
<1>12. LabelPairs(t) = LabelPairs(s) \cup {g}
  <2>1. {r[n] : n \in 1..Len(r)} = {l[n] : n \in 1..Len(l)} \cup {g}
    <3>1. \A n \in 1..Len(l) : n \in 1..Len(r)
      BY <1>1, <1>7
    <3>2. Len(l) + 1 \in 1..Len(r)
      BY <1>1, <1>7
    <3> QED BY <1>7, <1>10, <3>1, <3>2
  <2> QED BY <1>8, <2>1 DEF LabelPairs, l
<1>13. g \notin LabelPairs(s)
  <2>1. \A n \in 1..Len(l) : l[n] # g
    BY <1>3, <1>4, <1>5
  <2> QED BY <2>1 DEF LabelPairs, l
<1>14. K \subseteq LabelKey
  <2>1. \A n \in 1..Len(l) : l[n].key \in LabelKey
    BY <1>5
  <2> QED BY <1>1, <2>1
<1> QED BY <1>8, <1>11, <1>12, <1>13, <1>14 DEF t, g

helpOf(name) ==
  IF name = upName THEN upHelp ELSE IF name = durationName THEN durationHelp ELSE name

(* A sample that needs no repair. *)
Sound(s) ==
  /\ s \in Sample
  /\ s.name \in Catalog \ {guardMetric}
  /\ s.type = newObservable(s.name)
  /\ s.help = helpOf(s.name)
  /\ validLabels(s.labels)

LEMMA SampleSound ==
  ASSUME NEW s \in Emitted
  PROVE  Sound(withSystem(s, Polled)) /\ withSystem(s, Polled).name = s.name
<1>1. /\ s \in Sample /\ s.labels \in Labels(keysOf(s.name)) /\ s.name \in Catalog \ CycleMetric
      /\ s.help = s.name /\ s.type = newObservable(s.name)
  BY DEF Emitted
<1> DEFINE t == withSystem(s, Polled)
<1>2. /\ t \in Sample /\ validLabels(t.labels)
      /\ t.name = s.name /\ t.help = s.help /\ t.type = s.type
  BY <1>1, TaggedSample
<1> HIDE DEF t
<1>3. s.name # upName /\ s.name # durationName /\ s.name # guardMetric
  BY <1>1 DEF CycleMetric
<1>4. Sound(t)
  BY <1>1, <1>2, <1>3 DEF Sound, helpOf
<1> QED BY <1>2, <1>4 DEF t

LEMMA CycleSampleSound ==
  ASSUME NEW s \in {upSample(TRUE), upSample(FALSE), durationSample}
  PROVE  Sound(withSystem(s, Polled)) /\ withSystem(s, Polled).name = s.name
<1> DEFINE t == withSystem(s, Polled)
<1>1. /\ s.labels = <<>> /\ s.type = "Gauge" /\ s.help = helpOf(s.name)
      /\ s.name \in {upName, durationName}
  BY DEF upSample, durationSample, helpOf, upName, durationName
<1>2. /\ upName \in CatalogGauges /\ durationName \in CatalogGauges
      /\ upName \notin CatalogCounters /\ durationName \notin CatalogCounters
      /\ upName # guardMetric /\ durationName # guardMetric
  BY DEF CatalogGauges, CatalogCounters, upName, durationName, guardMetric
<1>3. s \in Sample
  <2>1. <<>> \in Seq(Label) /\ "Gauge" \in MetricType /\ 0 \in Nat /\ 1 \in Nat
    BY DEF MetricType
  <2>2. {upName, durationName} \subseteq Name /\ {upHelp, durationHelp} \subseteq Help
    BY <1>2, SamplesAssumption DEF Catalog
  <2>3. upSample(TRUE) \in Sample
    BY <2>1, <2>2 DEF Sample, upSample
  <2>4. upSample(FALSE) \in Sample
    BY <2>1, <2>2 DEF Sample, upSample
  <2>5. durationSample \in Sample
    BY <2>1, <2>2 DEF Sample, durationSample
  <2> QED BY <2>3, <2>4, <2>5
<1>4. /\ t \in Sample /\ validLabels(t.labels)
      /\ t.name = s.name /\ t.help = s.help /\ t.type = s.type
  <2>1. s.labels \in Labels({})
    BY <1>1, NoLabels
  <2> QED BY <1>3, <2>1, TaggedSample
<1> HIDE DEF t
<1>5. Sound(t)
  BY <1>1, <1>2, <1>4 DEF Sound, newObservable, Catalog
<1> QED BY <1>4, <1>5 DEF t

LEMMA CycleSound ==
  ASSUME CycleInv
  PROVE  LET L == Len(samples)
         IN  /\ L \in Nat /\ Len(cycle) = L + 2 /\ cycle \in Seq(Sample)
             /\ \A n \in 1..(L + 2) : Sound(cycle[n])
             /\ \A n \in 1..L : /\ samples[n] \in Emitted
                                /\ cycle[n] = withSystem(samples[n], Polled)
             /\ cycle[L + 1].name = upName /\ cycle[L + 2].name = durationName
<1> DEFINE L == Len(samples)
           u == upSample(healthy)
           d == durationSample
           a == samples \o <<u, d>>
<1>1. samples \in Seq(Emitted) /\ L \in Nat /\ healthy \in BOOLEAN
  BY DEF CycleInv, Batch
<1>2. \A n \in 1..L : samples[n] \in Emitted
  BY <1>1
<1>3. /\ Len(a) = L + 2 /\ a[L + 1] = u /\ a[L + 2] = d
      /\ \A n \in 1..L : a[n] = samples[n]
  <2> HIDE DEF u, d
  <2>1. Len(<<u, d>>) = 2 /\ <<u, d>> \in Seq({u, d})
    OBVIOUS
  <2> QED BY <1>1, <2>1
<1>4. cycle = [n \in 1..(L + 2) |-> withSystem(a[n], Polled)]
  BY <1>3 DEF cycle, Tagged
<1> HIDE DEF a
<1>5. \A n \in 1..(L + 2) : n \in 1..L \/ n = L + 1 \/ n = L + 2
  BY <1>1
<1>6. L + 1 \in 1..(L + 2) /\ L + 2 \in 1..(L + 2) /\ \A n \in 1..L : n \in 1..(L + 2)
  BY <1>1
<1> DEFINE c == cycle
<1>7. /\ \A n \in 1..L : c[n] = withSystem(samples[n], Polled)
      /\ c[L + 1] = withSystem(u, Polled) /\ c[L + 2] = withSystem(d, Polled)
      /\ DOMAIN c = 1..(L + 2) /\ c = [n \in 1..(L + 2) |-> c[n]]
  BY <1>3, <1>4, <1>6
<1> HIDE DEF c
<1>8. u \in {upSample(TRUE), upSample(FALSE), durationSample} /\ u.name = upName
  BY <1>1 DEF upSample
<1>9. d \in {upSample(TRUE), upSample(FALSE), durationSample} /\ d.name = durationName
  BY DEF durationSample
<1>10. /\ Sound(c[L + 1]) /\ c[L + 1].name = upName
       /\ Sound(c[L + 2]) /\ c[L + 2].name = durationName
  BY <1>7, <1>8, <1>9, CycleSampleSound
<1>11. \A n \in 1..L : Sound(c[n])
  BY <1>2, <1>7, SampleSound
<1>12. \A n \in 1..(L + 2) : Sound(c[n])
  BY <1>5, <1>10, <1>11
<1>13. c \in Seq(Sample) /\ Len(c) = L + 2
  <2>1. \A n \in 1..(L + 2) : c[n] \in Sample
    BY <1>12 DEF Sound
  <2>2. L + 2 \in Nat
    BY <1>1
  <2> HIDE DEF L
  <2> QED BY <1>7, <2>1, <2>2
<1> QED BY <1>1, <1>2, <1>7, <1>10, <1>12, <1>13 DEF c

LEMMA SnapshotSound ==
  ASSUME CycleInv, NEW s \in snapshot
  PROVE  validLabels(s.labels) /\ s.name \in Catalog /\ s.type = newObservable(s.name)
<1>1. cycle \in Seq(Sample) /\ \A n \in 1..Len(cycle) : Sound(cycle[n])
  BY CycleSound
<1> DEFINE f == cycle
<1> HIDE DEF f
<1>2. CASE s \in Kept(f)
  <2>1. PICK n \in 1..Len(f) : IsKept(f, n) /\ s = Repaired(f, n)
    BY <1>2 DEF Kept
  <2>2. validLabels(s.labels) /\ s.name = f[n].name /\ s.type = f[Leader(f, f[n].name)].type
    BY <1>1, <2>1, RepairedFacts DEF f
  <2>3. s.type = f[n].type
    BY <2>1, <2>2 DEF IsKept, Passes
  <2> QED BY <1>1, <2>1, <2>2, <2>3 DEF Sound, f
<1>3. CASE s \in SelfMetrics(RepairCounts(f))
  <2>1. RepairCounts(f) \in [System -> [Reason -> Nat]]
    BY <1>1, RepairCountsType DEF f
  <2>2. PICK sys \in System, r \in Reason : s = SelfMetric(RepairCounts(f), sys, r)
    BY <1>3 DEF SelfMetrics
  <2>3. s.name = guardMetric /\ s.type = "Gauge" /\ validLabels(s.labels)
    BY <2>1, <2>2, SelfMetricFacts
  <2>4. guardMetric \in Catalog /\ newObservable(guardMetric) = "Gauge"
    BY DEF guardMetric, Catalog, CatalogGauges, CatalogCounters, newObservable
  <2> QED BY <2>3, <2>4
<1> QED BY <1>2, <1>3 DEF snapshot, Guarded, f

(* A scrape and an OTLP push of one snapshot have the same series, types   *)
(* and values, whatever servers hold (otlp.go:31-46, prometheus.go:26-43). *)
THEOREM ExportsAgreeAlways == CollectSpec => []ExportsAgree
<1>1. CycleInv => ExportsAgree
  <2> SUFFICES ASSUME CycleInv PROVE rendered(snapshot) = observed(snapshot)
    BY DEF ExportsAgree
  <2>1. {t \in snapshot : validLabels(t.labels)} = snapshot
    BY SnapshotSound
  <2>2. {t \in snapshot : t.name \in Catalog} = snapshot
    BY SnapshotSound
  <2>3. \A s \in snapshot : Series(s, s.type) = Series(s, newObservable(s.name))
    BY SnapshotSound
  <2> DEFINE S == snapshot
  <2>4. rendered(S) = {Series(s, s.type) : s \in S}
    BY <2>1 DEF rendered
  <2>5. observed(S) = {Series(s, newObservable(s.name)) : s \in S}
    BY <2>2 DEF observed
  <2> HIDE DEF S
  <2>6. rendered(S) = observed(S)
    BY <2>3, <2>4, <2>5 DEF S
  <2> QED BY <2>6 DEF S
<1> QED BY <1>1, CycleInvariant, PTL

(* The keys of a sample's labels are its metric's. *)
LEMMA KeysOfLabels ==
  ASSUME NEW s \in Emitted
  PROVE  {l.key : l \in ToSet(s.labels)} = keysOf(s.name) /\ systemLabel \notin keysOf(s.name)
<1>1. s.labels \in Labels(keysOf(s.name)) /\ s \in Sample
  BY DEF Emitted
<1>2. s.labels \in Seq(Label) /\ {s.labels[n].key : n \in 1..Len(s.labels)} = keysOf(s.name)
  BY <1>1 DEF Labels, Sample
<1>3. ToSet(s.labels) = {s.labels[n] : n \in 1..Len(s.labels)}
  BY <1>2 DEF ToSet
<1>4. keysOf(s.name) \subseteq LabelKey
  BY <1>1, TaggedSample
<1>5. LabelKey \subseteq GoodKey \ {systemLabel}
  BY SamplesAssumption
<1>6. systemLabel \notin keysOf(s.name)
  BY <1>4, <1>5
<1> DEFINE ls == s.labels
           K == keysOf(s.name)
<1>7. {ls[n].key : n \in 1..Len(ls)} = K /\ ToSet(ls) = {ls[n] : n \in 1..Len(ls)}
  BY <1>2, <1>3
<1> HIDE DEF ls, K
<1>8. {l.key : l \in {ls[n] : n \in 1..Len(ls)}} = {ls[n].key : n \in 1..Len(ls)}
  OBVIOUS
<1>9. {l.key : l \in ToSet(ls)} = K
  BY <1>7, <1>8
<1> QED BY <1>6, <1>9 DEF ls, K

(* The label of the system distinguishes no samples of one system. *)
LEMMA TaggedApart ==
  ASSUME NEW s \in Emitted, NEW t \in Emitted,
         seriesKey(withSystem(s, Polled)) = seriesKey(withSystem(t, Polled))
  PROVE  seriesKey(s) = seriesKey(t)
<1> DEFINE a == withSystem(s, Polled)
           b == withSystem(t, Polled)
<1>1. /\ s \in Sample /\ s.labels \in Labels(keysOf(s.name))
      /\ t \in Sample /\ t.labels \in Labels(keysOf(t.name))
  BY DEF Emitted
<1>2. /\ a.name = s.name /\ LabelPairs(a) = LabelPairs(s) \cup {systemTag}
      /\ systemTag \notin LabelPairs(s)
  BY <1>1, TaggedSample
<1>3. /\ b.name = t.name /\ LabelPairs(b) = LabelPairs(t) \cup {systemTag}
      /\ systemTag \notin LabelPairs(t)
  BY <1>1, TaggedSample
<1>4. a.name = b.name /\ LabelPairs(a) = LabelPairs(b)
  BY DEF seriesKey
<1> HIDE DEF a, b
<1>5. LabelPairs(s) = LabelPairs(t)
  BY <1>2, <1>3, <1>4
<1> QED BY <1>2, <1>3, <1>4, <1>5 DEF seriesKey

LEMMA CycleRepairs ==
  ASSUME CycleInv, NEW n \in DOMAIN cycle
  PROVE  \/ Verdict(cycle, n) = "none"
         \/ Verdict(cycle, n) = "duplicate" /\ cycle[n].name \in PerItem
<1> DEFINE f == cycle
           L == Len(samples)
<1>1. /\ L \in Nat /\ Len(f) = L + 2 /\ f \in Seq(Sample)
      /\ \A k \in 1..(L + 2) : Sound(f[k])
      /\ \A k \in 1..L : samples[k] \in Emitted /\ f[k] = withSystem(samples[k], Polled)
      /\ f[L + 1].name = upName /\ f[L + 2].name = durationName
  BY CycleSound
<1>2. n \in 1..(L + 2)
  BY <1>1
<1> HIDE DEF f
<1> DEFINE j == Leader(f, f[n].name)
<1>3. j \in 1..(L + 2) /\ f[j].name = f[n].name
  <2>1. validLabels(f[n].labels)
    BY <1>1, <1>2 DEF Sound
  <2> QED BY <1>1, <1>2, <2>1, LeaderExists DEF IsLeader
<1> HIDE DEF j
<1>4. f[j].type = f[n].type /\ f[j].help = f[n].help
  BY <1>1, <1>2, <1>3 DEF Sound
<1>5. Passes(f, n) /\ validLabels(f[n].labels)
  BY <1>1, <1>2, <1>4 DEF Passes, Sound, j
<1>6. Repaired(f, n) = f[n]
  <2> DEFINE s == f[n]
  <2>1. s \in Sample /\ s.help = f[j].help
    BY <1>1, <1>2, <1>4
  <2>2. Repaired(f, n) = [s EXCEPT !.help = f[j].help]
    BY DEF Repaired, j
  <2> HIDE DEF s
  <2>3. [s EXCEPT !.help = f[j].help] = s
    BY <2>1 DEF Sample
  <2> QED BY <2>2, <2>3 DEF s
<1>7. CASE IsKept(f, n)
  BY <1>5, <1>6, <1>7 DEF Verdict, f
<1>8. CASE ~ IsKept(f, n)
  <2>1. Verdict(f, n) = "duplicate"
    BY <1>5, <1>8 DEF Verdict
  <2>2. PICK k \in 1..(n - 1) : seriesKey(f[k]) = seriesKey(f[n])
    BY <1>5, <1>8 DEF IsKept
  <2>3. k < n /\ k \in 1..(L + 1) /\ f[k].name = f[n].name
    BY <1>1, <1>2, <2>2 DEF seriesKey
  <2>4. \A m \in 1..L : /\ f[m].name = samples[m].name /\ f[m].name # upName
                        /\ f[m].name # durationName
    <3> SUFFICES ASSUME NEW m \in 1..L
                 PROVE  /\ f[m].name = samples[m].name /\ f[m].name # upName
                        /\ f[m].name # durationName
      OBVIOUS
    <3>1. samples[m] \in Emitted /\ f[m] = withSystem(samples[m], Polled)
      BY <1>1
    <3>2. f[m].name = samples[m].name
      BY <3>1, SampleSound
    <3> QED BY <3>1, <3>2 DEF Emitted, CycleMetric
  <2>5. upName # durationName
    BY DEF upName, durationName
  <2>6. n \in 1..L
    <3>1. n # L + 1
      <4> SUFFICES ASSUME n = L + 1 PROVE FALSE
        OBVIOUS
      <4>1. k \in 1..L
        BY <1>1, <2>3
      <4> QED BY <1>1, <2>3, <2>4, <4>1
    <3>2. n # L + 2
      <4> SUFFICES ASSUME n = L + 2 PROVE FALSE
        OBVIOUS
      <4>1. k \in 1..L \/ k = L + 1
        BY <1>1, <2>3
      <4>2. f[k].name = durationName
        BY <1>1, <2>3
      <4>3. k # L + 1
        BY <1>1, <2>5, <4>2
      <4> QED BY <2>4, <4>1, <4>2, <4>3
    <3>3. L \in Nat
      BY <1>1
    <3> HIDE DEF L
    <3> QED BY <1>2, <3>1, <3>2, <3>3
  <2>7. k \in 1..L /\ k # n
    BY <1>1, <2>3, <2>6
  <2>8. seriesKey(samples[k]) = seriesKey(samples[n])
    BY <1>1, <2>2, <2>6, <2>7, TaggedApart
  <2>9. samples[n].name \in PerItem
    <3>1. OncePerSeries(samples)
      BY DEF CycleInv, Batch
    <3> QED BY <2>6, <2>7, <2>8, <3>1 DEF OncePerSeries
  <2> QED BY <2>1, <2>4, <2>6, <2>9 DEF f
<1> QED BY <1>7, <1>8

(* The guard has nothing to repair but items that a server lists twice     *)
(* (metrics.go:15-25, ADR-0006, sessions.go:43-44, sizing.go:53-56).       *)
THEOREM ContractKeptAlways == CollectSpec => []ContractKept
<1>1. CycleInv => ContractKept
  <2> SUFFICES ASSUME CycleInv PROVE ContractKept
    OBVIOUS
  <2>1. samples \in Seq(Emitted) /\ \A n \in DOMAIN samples : samples[n] \in Emitted
    BY DEF CycleInv, Batch
  <2>2. \A n \in DOMAIN samples :
          /\ samples[n].name \notin CycleMetric
          /\ {l.key : l \in ToSet(samples[n].labels)} = keysOf(samples[n].name)
          /\ systemLabel \notin keysOf(samples[n].name)
    BY <2>1, KeysOfLabels DEF Emitted
  <2>3. \A n \in DOMAIN cycle :
          \/ Verdict(cycle, n) = "none"
          \/ Verdict(cycle, n) = "duplicate" /\ cycle[n].name \in PerItem
    BY CycleRepairs
  <2> DEFINE keys(n) == {l.key : l \in ToSet(samples[n].labels)}
  <2>4. \A n \in DOMAIN samples :
          keys(n) = keysOf(samples[n].name) /\ systemLabel \notin keys(n)
    BY <2>2
  <2> HIDE DEF keys
  <2>5. \A n, m \in DOMAIN samples : samples[n].name = samples[m].name => keys(n) = keys(m)
    BY <2>4
  <2> QED BY <2>2, <2>3, <2>4, <2>5 DEF ContractKept, keys
<1> QED BY <1>1, CycleInvariant, PTL

-----------------------------------------------------------------------------
(* The contributions. *)

LEMMA InitContributes == CollectInit => Promise!Init
BY DEF CollectInit, Promise!Init

LEMMA FailsContributes == CycleInv /\ Fails => Promise!Fails
<1> SUFFICES ASSUME CycleInv, Fails PROVE Promise!Fails
  OBVIOUS
<1>1. rc \in 1..Len(Collectors)
  BY SentOnce DEF CycleInv, Fails, Asking, Returned
<1> QED BY <1>1 DEF Fails, NextCollector, Promise!Fails

LEMMA ReturnsContributes ==
  ASSUME CycleInv, Returns, NEW new \in Seq(Emitted), samples' = samples \o new,
         ToSet(new) = Made(server, rc)
  PROVE  Promise!Contributes
<1>1. rc \in 1..Len(Collectors)
  BY SentOnce DEF CycleInv, Returns, Answered, Returned
<1>2. samples \in Seq(Emitted)
  BY DEF CycleInv, Batch
<1>3. SubSeq(samples', Len(samples) + 1, Len(samples')) = new
  BY <1>2
<1>4. {new[n] : n \in DOMAIN new} = Made(server, rc)
  BY DEF ToSet
<1>5. rc' = rc + 1 /\ server' = server /\ healthy' = healthy
  BY DEF Returns, NextCollector
<1> QED BY <1>1, <1>3, <1>4, <1>5 DEF Promise!Contributes

(* In whatever order entries are emitted, the samples are the same. *)
Agree(E) == E # {} /\ \A e, f \in E : ToSet(e) = ToSet(f)

LEMMA ConcatAgree ==
  ASSUME NEW p \in Seq(Emitted), NEW T \in SUBSET Seq(Emitted), Agree(T)
  PROVE  Agree({p \o t : t \in T})
<1>1. \A t \in T : ToSet(p \o t) = ToSet(p) \cup ToSet(t)
  BY ConcatRange
<1> QED BY <1>1, ZenonT(60) DEF Agree

LEMMA TotalsAgree ==
  ASSUME NEW name \in CatalogGauges \ CycleMetric, NEW key \in LabelKey, keysOf(name) = {key},
         NEW m \in Tally(GoodValue)
  PROVE  Agree(totals(name, key, m)) /\ totals(name, key, m) \in SUBSET Seq(Emitted)
<1>1. totals(name, key, m) # {} /\ \A f \in totals(name, key, m) :
        f \in Batch({name})
        /\ ToSet(f) = UNION {ToSet(gauge(name, m[k], <<lbl(key, k)>>)) : k \in DOMAIN m}
  BY TotalsBatch
<1>2. \A f \in totals(name, key, m) : f \in Seq(Emitted)
  BY <1>1 DEF Batch
<1> QED BY <1>1, <1>2 DEF Agree

LEMMA AlertsAgree ==
  ASSUME NEW items \in Seq(Item["alerts"])
  PROVE  Agree(Emissions("alerts", items))
<1> DEFINE I == "nsr_alert_info"
           A == "nsr_alerts_active"
           q == [n \in 1..Len(items) |-> alertSamples(items[n])]
           p == FlattenSeq(q)
           T == totals(A, "priority", byPriority(items))
<1>1. Emissions("alerts", items) = {p \o t : t \in T}
  BY DEF Emissions, each
<1>2. q \in [1..Len(items) -> Batch({I})]
  BY AlertBatch
<1>3. p \in Seq(Emitted)
  <2>1. {I} \subseteq PerItem /\ Len(items) \in Nat
    BY DEF PerItem
  <2> HIDE DEF q
  <2>2. p \in Batch({I})
    BY <1>2, <2>1, EachBatch
  <2> QED BY <2>2 DEF Batch
<1>4. Agree(T) /\ T \in SUBSET Seq(Emitted)
  <2>1. A \in CatalogGauges \ CycleMetric /\ keysOf(A) = {"priority"}
    BY DEF keysOf, CatalogGauges, CycleMetric, upName, durationName, guardMetric
  <2>2. "priority" \in LabelKey
    BY DEF LabelKey
  <2>3. byPriority(items) \in Tally(GoodValue)
    BY ByPriorityType
  <2> QED BY <2>1, <2>2, <2>3, TotalsAgree
<1> HIDE DEF p, T
<1> QED BY <1>1, <1>3, <1>4, ConcatAgree

LEMMA SessionsAgree ==
  ASSUME NEW items \in Seq(Item["sessions"])
  PROVE  Agree(sessionEmissions(items))
<1> DEFINE acc == FoldLeft(addSession, SessionStart, items)
           emit(k) == groupSamples(k, acc.groups[k])
           A == "nsr_active_sessions"
           p == each(acc.order, emit)
           T == totals(A, "session_type", acc.byMode)
<1>1. acc \in Grouped
  <2>1. PICK f : f \in [0..Len(items) -> Grouped] /\ acc = f[Len(items)]
    BY SessionSteps
  <2>2. Len(items) \in 0..Len(items)
    OBVIOUS
  <2> QED BY <2>1, <2>2
<1>2. sessionEmissions(items) = {p \o t : t \in T}
  BY DEF sessionEmissions
<1>3. p = FlattenSeq([n \in 1..Len(acc.order) |->
                        groupSamples(acc.order[n], acc.groups[acc.order[n]])])
  BY DEF each
<1>4. acc.byMode \in Tally(GoodValue)
  BY <1>1 DEF Grouped
<1> HIDE DEF acc
<1>5. p \in Seq(Emitted)
  <2>1. p \in Batch(SessionMetric)
    BY <1>1, <1>3, GroupsBatch
  <2> QED BY <2>1 DEF Batch
<1>6. Agree(T) /\ T \in SUBSET Seq(Emitted)
  <2>1. A \in CatalogGauges \ CycleMetric /\ keysOf(A) = {"session_type"}
    BY DEF keysOf, CatalogGauges, CycleMetric, upName, durationName, guardMetric
  <2>2. "session_type" \in LabelKey
    BY DEF LabelKey
  <2> QED BY <1>4, <2>1, <2>2, TotalsAgree
<1> HIDE DEF p, T
<1> QED BY <1>2, <1>5, <1>6, ConcatAgree

LEMMA EmissionsAgree ==
  ASSUME NEW q \in DOMAIN Item, NEW items \in Seq(Item[q])
  PROVE  Agree(Emissions(q, items))
<1>1. CASE q = "alerts"
  BY <1>1, AlertsAgree
<1>2. CASE q = "sessions"
  <2>1. Emissions(q, items) = sessionEmissions(items)
    BY <1>2 DEF Emissions
  <2> QED BY <1>2, <2>1, SessionsAgree
<1>3. \A x : Agree({x})
  BY DEF Agree
<1>4. CASE q \notin {"alerts", "sessions"}
  <2>1. q \in {"clients", "volumes", "datadomainsystems", "devices", "storagenodes", "pools",
              "vcenters", "protectionpolicies", "protectiongroups", "serverstatistics", "jobs"}
    BY <1>4 DEF Item
  <2>2. \E x : Emissions(q, items) = {x}
    BY <2>1 DEF Emissions
  <2> QED BY <1>3, <2>2
<1> QED BY <1>1, <1>2, <1>4

(* What the request's answer gives. *)
madeOf(q, held) == ToSet(CHOOSE seq \in Emissions(q, held[q]) : TRUE)

LEMMA AgreeChosen ==
  ASSUME NEW E, Agree(E), NEW e \in E
  PROVE  ToSet(e) = ToSet(CHOOSE seq \in E : TRUE)
<1>1. (CHOOSE seq \in E : TRUE) \in E
  OBVIOUS
<1> QED BY <1>1 DEF Agree

(* The builder holds what its requests so far give, of the collectors that *)
(* build request by request.                                               *)
BuilderInv ==
  rc \in 1..11 \ {10} =>
    ToSet(out) = UNION {madeOf(Collectors[rc][k], server) : k \in 1..asked}

LEMMA TurnBuilder == rc \in 1..11 /\ NextCollector => BuilderInv'
<1>1. ToSet(<<>>) = {} /\ 1..0 = {}
  BY DEF ToSet
<1> QED BY <1>1 DEF NextCollector, BuilderInv

LEMMA SucceedsBuilder == CycleInv /\ BuilderInv /\ Succeeds => BuilderInv'
<1> SUFFICES ASSUME CycleInv, BuilderInv, Succeeds, rc \in 1..11 \ {10}
             PROVE  ToSet(out') = UNION {madeOf(Collectors[rc][k], server) : k \in 1..(asked + 1)}
  BY DEF BuilderInv, Succeeds
<1> DEFINE made(k) == madeOf(Collectors[rc][k], server)
           q == query
<1>1. asked \in 0..2 /\ asked < Len(Collectors[rc]) /\ Len(Collectors[rc]) \in {1, 2}
  BY SentOnce DEF CycleInv, Succeeds, Asking
<1>2. asked + 1 \in 1..Len(Collectors[rc])
  <2> DEFINE n == Len(Collectors[rc])
  <2>1. asked \in 0..2 /\ asked < n /\ (n = 1 \/ n = 2)
    BY <1>1
  <2> HIDE DEF n
  <2>2. asked + 1 \in 1..n
    BY <2>1
  <2> QED BY <2>2 DEF n
<1>3. q = Collectors[rc][asked + 1]
  BY DEF query
<1>4. q \in DOMAIN Item /\ q # "backups"
  <2>1. turnOf(q) = rc /\ q \in DOMAIN Item \cup {"backups"}
    BY <1>2, <1>3, SentOnce
  <2>2. turnOf("backups") = 10
    BY DEF turnOf
  <2> QED BY <2>1, <2>2
<1> HIDE DEF q
<1>5. server[q] \in Seq(Item[q]) /\ (q = "serverstatistics" => Len(server[q]) = 1)
  BY <1>4, ServerAssumption DEF CycleInv
<1>6. Sent(q, server[q]) = server[q]
  BY <1>4, <1>5, SentComplete
<1>7. PICK new \in Emissions(q, server[q]) : out' = out \o new
  BY <1>4, <1>6 DEF Succeeds, q
<1>8. new \in Seq(Emitted) /\ out \in Seq(Emitted)
  <2>1. new \in Batch(MetricsOf(q))
    BY <1>4, <1>5, <1>7, EmissionsBatch
  <2> QED BY <2>1 DEF Batch, CycleInv
<1>9. ToSet(new) = madeOf(q, server)
  BY <1>4, <1>5, <1>7, EmissionsAgree, AgreeChosen DEF madeOf
<1>10. ToSet(out') = ToSet(out) \cup ToSet(new)
  BY <1>7, <1>8, ConcatRange
<1>11. ToSet(out) = UNION {made(k) : k \in 1..asked}
  BY DEF BuilderInv
<1>12. made(asked + 1) = ToSet(new)
  BY <1>3, <1>9
<1>13. 1..(asked + 1) = 1..asked \cup {asked + 1}
  BY <1>1
<1> HIDE DEF made
<1>14. ToSet(out') = UNION {made(k) : k \in 1..(asked + 1)}
  BY <1>10, <1>11, <1>12, <1>13
<1> QED BY <1>14 DEF made

LEMMA BuilderInvariant == CollectSpec => [](IInv /\ CycleInv /\ BuilderInv)
<1>1. CollectInit => BuilderInv
  <2>1. ToSet(<<>>) = {} /\ 1..0 = {}
    BY DEF ToSet
  <2> QED BY <2>1 DEF CollectInit, BuilderInv
<1>2. CycleInv /\ BuilderInv /\ [CollectNext]_allVars => BuilderInv'
  <2> SUFFICES ASSUME CycleInv, BuilderInv, [CollectNext]_allVars PROVE BuilderInv'
    OBVIOUS
  <2>1. CASE Succeeds
    BY <2>1, SucceedsBuilder
  <2>2. CASE Fails
    <3>1. rc \in 1..11
      BY <2>2, SentOnce DEF CycleInv, Fails, Asking, Returned
    <3> QED BY <2>2, <3>1, TurnBuilder DEF Fails
  <2>3. CASE Folds
    BY <2>3 DEF Folds, BuilderInv
  <2>4. CASE Returns
    <3>1. rc \in 1..11
      BY <2>4, SentOnce DEF CycleInv, Returns, Answered, Returned
    <3> QED BY <2>4, <3>1, TurnBuilder DEF Returns
  <2>5. CASE UNCHANGED allVars
    BY <2>5 DEF allVars, vars, BuilderInv
  <2> QED BY <2>1, <2>2, <2>3, <2>4, <2>5 DEF CollectNext
<1> QED BY <1>1, <1>2, CycleInvariant, PTL DEF CollectSpec

(* A collector that builds request by request contributes all of it. *)
LEMMA BuiltContributes ==
  ASSUME CycleInv, BuilderInv, Returns, Collectors[rc] # <<"backups">>
  PROVE  Promise!Contributes
<1>1. rc \in 1..11 \ {10}
  <2>1. rc \in 1..11
    BY SentOnce DEF CycleInv, Returns, Answered, Returned
  <2> QED BY <2>1, SentOnce
<1>2. ToSet(out) = UNION {madeOf(Collectors[rc][k], server) : k \in 1..asked}
  BY <1>1 DEF BuilderInv
<1>3. ToSet(Collectors[rc]) = {Collectors[rc][k] : k \in 1..asked}
  BY <1>1, SentOnce DEF ToSet, Returns, Answered
<1>4. Made(server, rc) = UNION {madeOf(q, server) : q \in ToSet(Collectors[rc])}
  BY DEF Made, madeOf
<1>5. Made(server, rc) = ToSet(out)
  BY <1>2, <1>3, <1>4
<1>6. out \in Seq(Emitted) /\ samples' = samples \o out
  BY DEF CycleInv, Batch, Returns
<1> QED BY <1>5, <1>6, ReturnsContributes

-----------------------------------------------------------------------------
(* The sizing collector's contribution. *)

(* Of equally fast instances the first is kept (sizing.go:79). *)
FirstFastest ==
  \A k \in DOMAIN jobBest : \E n \in 1..i :
    /\ Timed(answer[n]) /\ answer[n].key = k /\ job(answer[n]) = jobBest[k]
    /\ \A l \in 1..(n - 1) :
         Timed(answer[l]) /\ answer[l].key = k => faster(job(answer[n]), job(answer[l]))

LEMMA FasterThanBest ==
  ASSUME NEW u \in Throughput, NEW v \in Throughput, NEW w \in Throughput,
         ~ faster(w, u), faster(v, u)
  PROVE  faster(v, w)
<1>1. /\ w.size \in Nat /\ w.dur \in Nat \ {0} /\ u.size \in Nat /\ u.dur \in Nat \ {0}
      /\ v.size \in Nat /\ v.dur \in Nat \ {0}
  BY DEF Throughput
<1>2. w.size * u.dur <= u.size * w.dur /\ v.size * u.dur > u.size * v.dur
  BY <1>1 DEF faster
<1>3. w.size * v.dur < v.size * w.dur
  BY <1>1, <1>2, FractionOrder
<1> QED BY <1>1, <1>3 DEF faster

LEMMA FoldFirstFastest == IInv /\ FirstFastest /\ Fold => FirstFastest'
<1> SUFFICES ASSUME IInv, FirstFastest, Fold PROVE FirstFastest'
  OBVIOUS
<1> DEFINE b == answer[i + 1]
           k == b.key
           good(n, x, v) ==
             /\ Timed(answer[n]) /\ answer[n].key = x /\ job(answer[n]) = v
             /\ \A l \in 1..(n - 1) :
                  Timed(answer[l]) /\ answer[l].key = x => faster(job(answer[n]), job(answer[l]))
<1>1. /\ i' = i + 1 /\ answer' = answer /\ i \in Nat /\ i + 1 \in 1..Len(answer)
      /\ answer \in Seq(Backup)
  BY DEF IInv, Fold
<1>2. \A x \in DOMAIN jobBest : \E n \in 1..(i + 1) : good(n, x, jobBest[x])
  <2>1. \A x \in DOMAIN jobBest : \E n \in 1..i : good(n, x, jobBest[x])
    BY DEF FirstFastest
  <2>2. 1..i \subseteq 1..(i + 1)
    BY <1>1
  <2> HIDE DEF good
  <2> QED BY <2>1, <2>2
<1>3. CASE jobBest' = jobBest
  BY <1>1, <1>2, <1>3 DEF FirstFastest
<1>4. CASE jobBest' # jobBest
  <2>1. /\ Timed(b) /\ (k \in DOMAIN jobBest => faster(job(b), jobBest[k]))
        /\ jobBest' = put(jobBest, k, job(b))
    BY <1>4 DEF Fold, keepFastest
  <2>2. /\ DOMAIN jobBest' = DOMAIN jobBest \cup {k} /\ jobBest'[k] = job(b)
        /\ \A x \in DOMAIN jobBest : x # k => jobBest'[x] = jobBest[x]
    BY <2>1 DEF put
  <2>3. ASSUME NEW l \in 1..i, Timed(answer[l]), answer[l].key = k
        PROVE  faster(job(b), job(answer[l]))
    <3>1. answer[l] \in Seen
      BY DEF Seen
    <3>2. k \in DOMAIN jobBest /\ ~ faster(job(answer[l]), jobBest[k])
      BY <2>3, <3>1 DEF IInv, FastestInstance, Best
    <3>3. jobBest[k] \in Throughput
      BY <3>2, MapsTyped DEF MapOf
    <3>4. answer[l] \in Backup /\ b \in Backup
      BY <1>1
    <3>5. job(answer[l]) \in Throughput /\ job(b) \in Throughput
      BY <2>1, <2>3, <3>4, Readings
    <3> HIDE DEF b, k
    <3> QED BY <2>1, <3>2, <3>3, <3>5, FasterThanBest
  <2>4. good(i + 1, k, job(b))
    <3>1. (i + 1) - 1 = i
      BY <1>1
    <3> QED BY <2>1, <2>3, <3>1
  <2>5. i + 1 \in 1..(i + 1)
    BY <1>1
  <2> HIDE DEF good
  <2>6. \A x \in DOMAIN jobBest' : \E n \in 1..(i + 1) : good(n, x, jobBest'[x])
    BY <1>2, <2>2, <2>4, <2>5
  <2> QED BY <1>1, <2>6 DEF FirstFastest, good
<1> QED BY <1>3, <1>4

LEMMA FirstFastestInvariant == CollectSpec => []FirstFastest
<1>1. CollectInit => FirstFastest
  BY DEF CollectInit, Init, FirstFastest, Empty
<1>2. IInv /\ FirstFastest /\ [CollectNext]_allVars => FirstFastest'
  <2> SUFFICES ASSUME IInv, FirstFastest, [CollectNext]_allVars PROVE FirstFastest'
    OBVIOUS
  <2>1. CASE Folds
    BY <2>1, FoldFirstFastest DEF Folds
  <2>2. CASE Succeeds \/ Fails \/ Returns \/ UNCHANGED allVars
    BY <2>2 DEF Succeeds, Fails, Returns, NextCollector, allVars, vars, FirstFastest
  <2> QED BY <2>1, <2>2 DEF CollectNext
<1> QED BY <1>1, <1>2, SizingInvariant, PTL DEF CollectSpec

LEMMA MaxIs ==
  ASSUME NEW S \in SUBSET Nat, NEW v \in S, \A x \in S : ~ x > v
  PROVE  Max(S) = v
<1>1. \A y \in S : v >= y
  OBVIOUS
<1>2. Max(S) \in S /\ \A y \in S : Max(S) >= y
  BY <1>1 DEF Max
<1> DEFINE m == Max(S)
<1>3. m \in Nat /\ v \in Nat /\ m >= v /\ v >= m
  BY <1>1, <1>2
<1> HIDE DEF m
<1>4. m = v
  BY <1>3
<1> QED BY <1>4 DEF m

LEMMA MinIs ==
  ASSUME NEW S \in SUBSET Nat, NEW v \in S, \A x \in S : ~ x < v
  PROVE  Min(S) = v
<1>1. \A y \in S : v <= y
  OBVIOUS
<1>2. Min(S) \in S /\ \A y \in S : Min(S) <= y
  BY <1>1 DEF Min
<1> DEFINE m == Min(S)
<1>3. m \in Nat /\ v \in Nat /\ m <= v /\ v <= m
  BY <1>1, <1>2
<1> HIDE DEF m
<1>4. m = v
  BY <1>3
<1> QED BY <1>4 DEF m

(* Two maps with the same entries. *)
Alike(m, t) == DOMAIN m = DOMAIN t /\ \A k \in DOMAIN m : m[k] = t[k]

(* When all is folded, each map has what there is to be made of the list. *)
LEMMA FullMade ==
  ASSUME IInv, i = Len(answer)
  PROVE  Alike(fullMax, most(answer, Full, size))
<1> DEFINE those(k) == instances(answer, Full, k)
           S(k) == {size(answer[n]) : n \in those(k)}
<1>1. answer \in Seq(Backup) /\ DOMAIN answer = 1..i /\ \A n \in 1..i : answer[n] \in Backup
  BY DEF IInv
<1>2. \A n \in 1..i : answer[n] \in Seen
  BY DEF Seen
<1>3. \A bk \in Seen : \E n \in 1..i : bk = answer[n]
  BY DEF Seen
<1>4. DOMAIN fullMax = keysWith(answer, Full)
  <2>1. DOMAIN fullMax = {bk.key : bk \in {x \in Seen : Full(x)}}
    BY DEF IInv, Maxima, Best
  <2>2. \A n \in 1..i : answer[n].key \in SaveSetKey
    BY <1>1 DEF Backup
  <2>3. \A k \in DOMAIN fullMax : k \in SaveSetKey /\ those(k) # {}
    BY <1>1, <1>3, <2>1, <2>2 DEF instances
  <2>4. \A k : those(k) # {} => k \in DOMAIN fullMax
    BY <1>1, <1>2, <2>1 DEF instances
  <2> QED BY <2>3, <2>4 DEF keysWith
<1>5. ASSUME NEW k \in DOMAIN fullMax PROVE Max(S(k)) = fullMax[k]
  <2>1. S(k) \in SUBSET Nat
    BY <1>1, Readings DEF instances, Full
  <2>2. fullMax[k] \in S(k)
    <3>1. PICK bk \in Seen : Full(bk) /\ bk.key = k /\ size(bk) = fullMax[k]
      BY DEF IInv, Maxima, Best
    <3> QED BY <1>1, <1>3, <3>1 DEF instances
  <2>3. \A x \in S(k) : ~ x > fullMax[k]
    <3>1. \A bk \in Seen : Full(bk) => ~ size(bk) > fullMax[bk.key]
      BY DEF IInv, Maxima, Best, greater
    <3> QED BY <1>1, <1>2, <3>1 DEF instances
  <2> HIDE DEF S
  <2> QED BY <2>1, <2>2, <2>3, MaxIs
<1> QED BY <1>4, <1>5 DEF most, Alike

LEMMA IncrMade ==
  ASSUME IInv, i = Len(answer)
  PROVE  Alike(incrMax, most(answer, Incr, size))
<1> DEFINE those(k) == instances(answer, Incr, k)
           S(k) == {size(answer[n]) : n \in those(k)}
<1>1. answer \in Seq(Backup) /\ DOMAIN answer = 1..i /\ \A n \in 1..i : answer[n] \in Backup
  BY DEF IInv
<1>2. \A n \in 1..i : answer[n] \in Seen
  BY DEF Seen
<1>3. \A bk \in Seen : \E n \in 1..i : bk = answer[n]
  BY DEF Seen
<1>4. DOMAIN incrMax = keysWith(answer, Incr)
  <2>1. DOMAIN incrMax = {bk.key : bk \in {x \in Seen : Incr(x)}}
    BY DEF IInv, Maxima, Best
  <2>2. \A n \in 1..i : answer[n].key \in SaveSetKey
    BY <1>1 DEF Backup
  <2>3. \A k \in DOMAIN incrMax : k \in SaveSetKey /\ those(k) # {}
    BY <1>1, <1>3, <2>1, <2>2 DEF instances
  <2>4. \A k : those(k) # {} => k \in DOMAIN incrMax
    BY <1>1, <1>2, <2>1 DEF instances
  <2> QED BY <2>3, <2>4 DEF keysWith
<1>5. ASSUME NEW k \in DOMAIN incrMax PROVE Max(S(k)) = incrMax[k]
  <2>1. S(k) \in SUBSET Nat
    BY <1>1, Readings DEF instances, Incr
  <2>2. incrMax[k] \in S(k)
    <3>1. PICK bk \in Seen : Incr(bk) /\ bk.key = k /\ size(bk) = incrMax[k]
      BY DEF IInv, Maxima, Best
    <3> QED BY <1>1, <1>3, <3>1 DEF instances
  <2>3. \A x \in S(k) : ~ x > incrMax[k]
    <3>1. \A bk \in Seen : Incr(bk) => ~ size(bk) > incrMax[bk.key]
      BY DEF IInv, Maxima, Best, greater
    <3> QED BY <1>1, <1>2, <3>1 DEF instances
  <2> HIDE DEF S
  <2> QED BY <2>1, <2>2, <2>3, MaxIs
<1> QED BY <1>4, <1>5 DEF most, Alike

LEMMA RetainedMade ==
  ASSUME IInv, i = Len(answer)
  PROVE  Alike(retMax, most(answer, Retained, retention))
<1> DEFINE those(k) == instances(answer, Retained, k)
           S(k) == {retention(answer[n]) : n \in those(k)}
<1>1. answer \in Seq(Backup) /\ DOMAIN answer = 1..i /\ \A n \in 1..i : answer[n] \in Backup
  BY DEF IInv
<1>2. \A n \in 1..i : answer[n] \in Seen
  BY DEF Seen
<1>3. \A bk \in Seen : \E n \in 1..i : bk = answer[n]
  BY DEF Seen
<1>4. DOMAIN retMax = keysWith(answer, Retained)
  <2>1. DOMAIN retMax = {bk.key : bk \in {x \in Seen : Retained(x)}}
    BY DEF IInv, Maxima, Best
  <2>2. \A n \in 1..i : answer[n].key \in SaveSetKey
    BY <1>1 DEF Backup
  <2>3. \A k \in DOMAIN retMax : k \in SaveSetKey /\ those(k) # {}
    BY <1>1, <1>3, <2>1, <2>2 DEF instances
  <2>4. \A k : those(k) # {} => k \in DOMAIN retMax
    BY <1>1, <1>2, <2>1 DEF instances
  <2> QED BY <2>3, <2>4 DEF keysWith
<1>5. ASSUME NEW k \in DOMAIN retMax PROVE Max(S(k)) = retMax[k]
  <2>1. S(k) \in SUBSET Nat
    BY <1>1, Readings DEF instances
  <2>2. retMax[k] \in S(k)
    <3>1. PICK bk \in Seen : Retained(bk) /\ bk.key = k /\ retention(bk) = retMax[k]
      BY DEF IInv, Maxima, Best
    <3> QED BY <1>1, <1>3, <3>1 DEF instances
  <2>3. \A x \in S(k) : ~ x > retMax[k]
    <3>1. \A bk \in Seen : Retained(bk) => ~ retention(bk) > retMax[bk.key]
      BY DEF IInv, Maxima, Best, greater
    <3> QED BY <1>1, <1>2, <3>1 DEF instances
  <2> HIDE DEF S
  <2> QED BY <2>1, <2>2, <2>3, MaxIs
<1> QED BY <1>4, <1>5 DEF most, Alike

bestOf(list) == [k \in keysWith(list, Timed) |-> job(list[Min(fastest(list, k))])]

LEMMA TimedMade ==
  ASSUME IInv, FirstFastest, i = Len(answer)
  PROVE  Alike(jobBest, bestOf(answer))
<1> DEFINE those(k) == instances(answer, Timed, k)
<1>1. answer \in Seq(Backup) /\ DOMAIN answer = 1..i /\ \A n \in 1..i : answer[n] \in Backup
  BY DEF IInv
<1>2. \A n \in 1..i : answer[n] \in Seen
  BY DEF Seen
<1>3. \A bk \in Seen : \E n \in 1..i : bk = answer[n]
  BY DEF Seen
<1>4. DOMAIN jobBest = keysWith(answer, Timed)
  <2>1. DOMAIN jobBest = {bk.key : bk \in {x \in Seen : Timed(x)}}
    BY DEF IInv, FastestInstance, Best
  <2>2. \A n \in 1..i : answer[n].key \in SaveSetKey
    BY <1>1 DEF Backup
  <2>3. \A k \in DOMAIN jobBest : k \in SaveSetKey /\ those(k) # {}
    BY <1>1, <1>3, <2>1, <2>2 DEF instances
  <2>4. \A k : those(k) # {} => k \in DOMAIN jobBest
    BY <1>1, <1>2, <2>1 DEF instances
  <2> QED BY <2>3, <2>4 DEF keysWith
<1>5. ASSUME NEW k \in DOMAIN jobBest PROVE job(answer[Min(fastest(answer, k))]) = jobBest[k]
  <2>1. PICK n \in 1..i :
          /\ Timed(answer[n]) /\ answer[n].key = k /\ job(answer[n]) = jobBest[k]
          /\ \A l \in 1..(n - 1) :
               Timed(answer[l]) /\ answer[l].key = k => faster(job(answer[n]), job(answer[l]))
    BY DEF FirstFastest
  <2>2. \A bk \in Seen : Timed(bk) /\ bk.key = k => ~ faster(job(bk), jobBest[k])
    BY DEF IInv, FastestInstance, Best
  <2>3. those(k) \in SUBSET (1..i) /\ n \in those(k)
    BY <1>1, <2>1 DEF instances
  <2>4. \A l \in those(k) : ~ faster(job(answer[l]), job(answer[n]))
    BY <1>1, <1>2, <2>1, <2>2 DEF instances
  <2>5. n \in fastest(answer, k)
    BY <2>3, <2>4 DEF fastest
  <2>6. fastest(answer, k) \in SUBSET Nat
    BY <2>3 DEF fastest
  <2>7. \A l \in fastest(answer, k) : ~ l < n
    <3> SUFFICES ASSUME NEW l \in fastest(answer, k), l < n PROVE FALSE
      OBVIOUS
    <3>1. l \in those(k) /\ ~ faster(job(answer[n]), job(answer[l]))
      BY <2>3 DEF fastest
    <3>2. l \in 1..(n - 1) /\ Timed(answer[l]) /\ answer[l].key = k
      BY <1>1, <2>1, <2>3, <3>1 DEF instances
    <3> QED BY <2>1, <3>1, <3>2
  <2>8. Min(fastest(answer, k)) = n
    BY <2>5, <2>6, <2>7, MinIs
  <2> QED BY <2>1, <2>8
<1> QED BY <1>4, <1>5 DEF bestOf, Alike

(* The samples of maps with the same entries are the same, in whatever     *)
(* order they are emitted.                                                 *)
LEMMA AlikeSizes ==
  ASSUME NEW name \in {"nsr_backup_source_size_bytes", "nsr_backup_change_size_bytes"},
         NEW level \in {"Full", "Incr"}, NEW m, NEW t, MapOf(m, Nat), Alike(m, t)
  PROVE  /\ sizeOrders(name, level, m) # {}
         /\ \A e \in sizeOrders(name, level, m), f \in sizeOrders(name, level, t) :
              e \in Seq(Emitted) /\ f \in Seq(Emitted) /\ ToSet(e) = ToSet(f)
<1> DEFINE g(x, k) == gauge(name, x[k], <<lbl("client", k), lbl("saveset_name", k),
                                          lbl("level", level)>>)
<1>1. MapOf(t, Nat)
  BY DEF MapOf, Alike
<1>2. \A x : MapOf(x, Nat) =>
        /\ sizeOrders(name, level, x) # {}
        /\ \A f \in sizeOrders(name, level, x) :
             f \in Batch({name}) /\ ToSet(f) = UNION {ToSet(g(x, k)) : k \in DOMAIN x}
  BY SizeOrdersBatch
<1>3. \A f \in Batch({name}) : f \in Seq(Emitted)
  BY DEF Batch
<1>4. \A k \in DOMAIN m : g(m, k) = g(t, k)
  BY DEF Alike
<1> HIDE DEF g
<1>5. UNION {ToSet(g(m, k)) : k \in DOMAIN m} = UNION {ToSet(g(t, k)) : k \in DOMAIN t}
  BY <1>4 DEF Alike
<1> QED BY <1>1, <1>2, <1>3, <1>5

LEMMA AlikeRetentions ==
  ASSUME NEW m, NEW t, MapOf(m, Nat), Alike(m, t)
  PROVE  /\ retentionOrders(m) # {}
         /\ \A e \in retentionOrders(m), f \in retentionOrders(t) :
              e \in Seq(Emitted) /\ f \in Seq(Emitted) /\ ToSet(e) = ToSet(f)
<1> DEFINE N == {"nsr_backup_retention_seconds"}
           g(x, k) == gauge("nsr_backup_retention_seconds", x[k],
                            <<lbl("client", k), lbl("saveset_name", k)>>)
<1>1. MapOf(t, Nat)
  BY DEF MapOf, Alike
<1>2. \A x : MapOf(x, Nat) =>
        /\ retentionOrders(x) # {}
        /\ \A f \in retentionOrders(x) :
             f \in Batch(N) /\ ToSet(f) = UNION {ToSet(g(x, k)) : k \in DOMAIN x}
  BY RetentionOrdersBatch
<1>3. \A f \in Batch(N) : f \in Seq(Emitted)
  BY DEF Batch
<1>4. \A k \in DOMAIN m : g(m, k) = g(t, k)
  BY DEF Alike
<1> HIDE DEF g, N
<1>5. UNION {ToSet(g(m, k)) : k \in DOMAIN m} = UNION {ToSet(g(t, k)) : k \in DOMAIN t}
  BY <1>4 DEF Alike
<1> QED BY <1>1, <1>2, <1>3, <1>5

LEMMA AlikeJobs ==
  ASSUME NEW m, NEW t, MapOf(m, Throughput), Alike(m, t)
  PROVE  /\ jobOrders(m) # {}
         /\ \A e \in jobOrders(m), f \in jobOrders(t) :
              e \in Seq(Emitted) /\ f \in Seq(Emitted) /\ ToSet(e) = ToSet(f)
<1> DEFINE g(x, k) == jobGauges(k, x[k])
<1>1. MapOf(t, Throughput)
  BY DEF MapOf, Alike
<1>2. \A x : MapOf(x, Throughput) =>
        /\ jobOrders(x) # {}
        /\ \A f \in jobOrders(x) :
             f \in Batch(JobMetric) /\ ToSet(f) = UNION {ToSet(g(x, k)) : k \in DOMAIN x}
  BY JobOrdersBatch
<1>3. \A f \in Batch(JobMetric) : f \in Seq(Emitted)
  BY DEF Batch
<1>4. \A k \in DOMAIN m : g(m, k) = g(t, k)
  BY DEF Alike
<1> HIDE DEF g
<1>5. UNION {ToSet(g(m, k)) : k \in DOMAIN m} = UNION {ToSet(g(t, k)) : k \in DOMAIN t}
  BY <1>4 DEF Alike
<1> QED BY <1>1, <1>2, <1>3, <1>5

LEMMA ConcatFour ==
  ASSUME NEW a \in Seq(Emitted), NEW b \in Seq(Emitted), NEW c \in Seq(Emitted),
         NEW d \in Seq(Emitted)
  PROVE  /\ a \o b \o c \o d \in Seq(Emitted)
         /\ ToSet(a \o b \o c \o d) = ToSet(a) \cup ToSet(b) \cup ToSet(c) \cup ToSet(d)
<1> DEFINE p == a \o b
           q == p \o c
<1>1. p \in Seq(Emitted) /\ ToSet(p) = ToSet(a) \cup ToSet(b)
  BY ConcatRange
<1> HIDE DEF p
<1>2. q \in Seq(Emitted) /\ ToSet(q) = ToSet(p) \cup ToSet(c)
  BY <1>1, ConcatRange
<1> HIDE DEF q
<1>3. q \o d \in Seq(Emitted) /\ ToSet(q \o d) = ToSet(q) \cup ToSet(d)
  BY <1>2, ConcatRange
<1> QED BY <1>1, <1>2, <1>3 DEF p, q

LEMMA SizingPossible ==
  ASSUME NEW full, NEW incr, NEW ret, NEW best,
         MapOf(full, Nat), MapOf(incr, Nat), MapOf(ret, Nat), MapOf(best, Throughput)
  PROVE  sizingEmissions(full, incr, ret, best) # {}
<1> DEFINE A == sizeOrders("nsr_backup_source_size_bytes", "Full", full)
           B == sizeOrders("nsr_backup_change_size_bytes", "Incr", incr)
           C == retentionOrders(ret)
           D == jobOrders(best)
<1>1. A # {} /\ B # {} /\ C # {} /\ D # {}
  BY SizeOrdersBatch, RetentionOrdersBatch, JobOrdersBatch
<1>2. sizingEmissions(full, incr, ret, best)
        = {a \o b \o c \o d : a \in A, b \in B, c \in C, d \in D}
  BY DEF sizingEmissions
<1> HIDE DEF A, B, C, D
<1>3. PICK a \in A, b \in B, c \in C, d \in D : TRUE
  BY <1>1
<1> DEFINE S == {w \o x \o y \o z : w \in A, x \in B, y \in C, z \in D}
<1>4. a \o b \o c \o d \in S
  BY <1>3
<1> HIDE DEF S
<1>5. S # {}
  BY <1>4
<1> QED BY <1>2, <1>5 DEF S

LEMMA AlikeSizing ==
  ASSUME NEW m, NEW n, NEW o, NEW p, NEW full, NEW incr, NEW ret, NEW best,
         MapOf(m, Nat), MapOf(n, Nat), MapOf(o, Nat), MapOf(p, Throughput),
         Alike(m, full), Alike(n, incr), Alike(o, ret), Alike(p, best),
         NEW u \in sizingEmissions(m, n, o, p), NEW v \in sizingEmissions(full, incr, ret, best)
  PROVE  u \in Seq(Emitted) /\ ToSet(u) = ToSet(v)
<1> DEFINE F == "nsr_backup_source_size_bytes"
           C == "nsr_backup_change_size_bytes"
<1>0. \E w \in sizeOrders(F, "Full", full), x \in sizeOrders(C, "Incr", incr),
         y \in retentionOrders(ret), z \in jobOrders(best) :
        v = w \o x \o y \o z
  BY DEF sizingEmissions
<1>1. PICK a \in sizeOrders(F, "Full", m), b \in sizeOrders(C, "Incr", n),
           c \in retentionOrders(o), d \in jobOrders(p) :
        u = a \o b \o c \o d
  BY DEF sizingEmissions
<1>2. PICK w \in sizeOrders(F, "Full", full), x \in sizeOrders(C, "Incr", incr),
           y \in retentionOrders(ret), z \in jobOrders(best) :
        v = w \o x \o y \o z
  BY <1>0
<1>3. a \in Seq(Emitted) /\ w \in Seq(Emitted) /\ ToSet(a) = ToSet(w)
  BY <1>1, <1>2, AlikeSizes
<1>4. b \in Seq(Emitted) /\ x \in Seq(Emitted) /\ ToSet(b) = ToSet(x)
  BY <1>1, <1>2, AlikeSizes
<1>5. c \in Seq(Emitted) /\ y \in Seq(Emitted) /\ ToSet(c) = ToSet(y)
  BY <1>1, <1>2, AlikeRetentions
<1>6. d \in Seq(Emitted) /\ z \in Seq(Emitted) /\ ToSet(d) = ToSet(z)
  BY <1>1, <1>2, AlikeJobs
<1>7. u \in Seq(Emitted) /\ ToSet(u) = ToSet(a) \cup ToSet(b) \cup ToSet(c) \cup ToSet(d)
  BY <1>1, <1>3, <1>4, <1>5, <1>6, ConcatFour
<1>8. ToSet(v) = ToSet(w) \cup ToSet(x) \cup ToSet(y) \cup ToSet(z)
  BY <1>2, <1>3, <1>4, <1>5, <1>6, ConcatFour
<1> QED BY <1>3, <1>4, <1>5, <1>6, <1>7, <1>8

LEMMA SizingAgrees ==
  ASSUME IInv, FirstFastest, i = Len(answer),
         NEW new \in sizingEmissions(fullMax, incrMax, retMax, jobBest)
  PROVE  new \in Seq(Emitted) /\ ToSet(new) = sizingMade(answer)
<1> DEFINE full == most(answer, Full, size)
           incr == most(answer, Incr, size)
           ret == most(answer, Retained, retention)
           best == bestOf(answer)
           E == sizingEmissions(full, incr, ret, best)
           seq == CHOOSE e \in E : TRUE
<1>1. /\ MapOf(fullMax, Nat) /\ MapOf(incrMax, Nat) /\ MapOf(retMax, Nat)
      /\ MapOf(jobBest, Throughput)
  BY MapsTyped
<1>2. Alike(fullMax, full) /\ Alike(incrMax, incr) /\ Alike(retMax, ret) /\ Alike(jobBest, best)
  BY FullMade, IncrMade, RetainedMade, TimedMade
<1>3. sizingMade(answer) = ToSet(seq)
  BY DEF sizingMade, bestOf
<1> HIDE DEF full, incr, ret, best
<1>4. MapOf(full, Nat) /\ MapOf(incr, Nat) /\ MapOf(ret, Nat) /\ MapOf(best, Throughput)
  BY <1>1, <1>2 DEF MapOf, Alike
<1>5. E # {}
  BY <1>4, SizingPossible
<1>6. seq \in E
  BY <1>5
<1> HIDE DEF seq
<1>7. new \in Seq(Emitted) /\ ToSet(new) = ToSet(seq)
  BY <1>1, <1>2, <1>6, AlikeSizing
<1> QED BY <1>3, <1>7

(* collectSystem does what the collection loop is promised of it: a        *)
(* collector contributes what there is to be made of all the server holds, *)
(* once, or nothing, and then the system is not healthy                    *)
(* (collector.go:157-173).                                                 *)
THEOREM CollectImplementsContributions == CollectSpec => ImplementsContributions
<1>1. CycleInv /\ BuilderInv /\ IInv /\ FirstFastest /\ [CollectNext]_allVars
        => [Promise!Next]_Promise!vars
  <2> SUFFICES ASSUME CycleInv, BuilderInv, IInv, FirstFastest, [CollectNext]_allVars
               PROVE  Promise!Next \/ UNCHANGED Promise!vars
    OBVIOUS
  <2>1. CASE Succeeds
    BY <2>1 DEF Succeeds, Promise!vars
  <2>2. CASE Fails
    BY <2>2, FailsContributes DEF Promise!Next
  <2>3. CASE Folds
    BY <2>3 DEF Folds, Promise!vars
  <2>4. CASE Returns /\ Collectors[rc] # <<"backups">>
    BY <2>4, BuiltContributes DEF Promise!Next
  <2>5. CASE Returns /\ Collectors[rc] = <<"backups">>
    <3>1. i = Len(answer)
      BY <2>5 DEF Returns
    <3>2. PICK new \in sizingEmissions(fullMax, incrMax, retMax, jobBest) :
            samples' = samples \o new
      BY <2>5 DEF Returns
    <3>3. new \in Seq(Emitted) /\ ToSet(new) = sizingMade(answer)
      BY <3>1, <3>2, SizingAgrees
    <3>4. Made(server, rc) = sizingMade(answer)
      BY <2>5 DEF Made, CycleInv
    <3> QED BY <2>5, <3>2, <3>3, <3>4, ReturnsContributes DEF Promise!Next
  <2>6. CASE UNCHANGED allVars
    BY <2>6 DEF allVars, Promise!vars
  <2> QED BY <2>1, <2>2, <2>3, <2>4, <2>5, <2>6 DEF CollectNext
<1> QED BY <1>1, InitContributes, BuilderInvariant, FirstFastestInvariant, PTL
        DEF CollectSpec, ImplementsContributions, Promise!Spec

-----------------------------------------------------------------------------
(* Where zeros come from.                                                  *)

(* The metrics of numbers, of sizes and of capacities, by the field. *)
LEMMA ReadFromRows ==
  /\ \A name \in {"nsr_client_parallelism",
                 "nsr_volume_recycled_total",
                 "nsr_storagenode_device_count",
                 "nsr_server_up_since_timestamp_seconds",
                 "nsr_server_saves_total",
                 "nsr_server_recovers_total",
                 "nsr_server_bad_saves_total",
                 "nsr_server_bad_recovers_total",
                 "nsr_server_current_saves",
                 "nsr_server_current_recovers",
                 "nsr_server_max_saves",
                 "nsr_server_max_recovers",
                 "nsr_job_start_timestamp_seconds",
                 "nsr_job_end_timestamp_seconds"} :
       name \in Catalog /\ name \in DOMAIN readFrom /\ readFrom[name] \in NumberField
  /\ \A name \in {"nsr_session_bytes",
                 "nsr_session_transfer_bytes_per_second",
                 "nsr_volume_capacity_bytes",
                 "nsr_volume_written_bytes",
                 "nsr_backup_source_size_bytes",
                 "nsr_backup_change_size_bytes",
                 "nsr_job_bytes_per_second",
                 "nsr_server_save_size_bytes",
                 "nsr_server_recover_size_bytes"} :
       name \in Catalog /\ name \in DOMAIN readFrom /\ readFrom[name] \in SizeField
  /\ \A name \in {"nsr_datadomain_capacity_total_bytes",
                 "nsr_datadomain_capacity_used_bytes",
                 "nsr_datadomain_capacity_available_bytes",
                 "nsr_datadomain_logical_capacity_used_bytes"} :
       name \in Catalog /\ name \in DOMAIN readFrom /\ readFrom[name] \in HumanField
<1>1. /\ readFrom["nsr_client_parallelism"] = "parallelism"
      /\ readFrom["nsr_session_bytes"] = "size"
      /\ readFrom["nsr_session_transfer_bytes_per_second"] = "transferRate"
      /\ readFrom["nsr_volume_capacity_bytes"] = "capacity"
      /\ readFrom["nsr_volume_written_bytes"] = "written"
      /\ readFrom["nsr_volume_recycled_total"] = "recycled"
      /\ readFrom["nsr_datadomain_capacity_total_bytes"] = "totalCapacity"
      /\ readFrom["nsr_datadomain_capacity_used_bytes"] = "usedCapacity"
      /\ readFrom["nsr_datadomain_capacity_available_bytes"] = "availableCapacity"
      /\ readFrom["nsr_datadomain_logical_capacity_used_bytes"] = "usedLogicalCapacity"
      /\ readFrom["nsr_storagenode_device_count"] = "numberOfDevices"
      /\ readFrom["nsr_backup_source_size_bytes"] = "size"
      /\ readFrom["nsr_backup_change_size_bytes"] = "size"
      /\ readFrom["nsr_job_bytes_per_second"] = "size"
      /\ readFrom["nsr_server_up_since_timestamp_seconds"] = "upSince"
      /\ readFrom["nsr_server_saves_total"] = "saves"
      /\ readFrom["nsr_server_save_size_bytes"] = "saveSize"
      /\ readFrom["nsr_server_recovers_total"] = "recovers"
      /\ readFrom["nsr_server_recover_size_bytes"] = "recoverSize"
      /\ readFrom["nsr_server_bad_saves_total"] = "badSaves"
      /\ readFrom["nsr_server_bad_recovers_total"] = "badRecovers"
      /\ readFrom["nsr_server_current_saves"] = "currentSaves"
      /\ readFrom["nsr_server_current_recovers"] = "currentRecovers"
      /\ readFrom["nsr_server_max_saves"] = "maxSaves"
      /\ readFrom["nsr_server_max_recovers"] = "maxRecovers"
      /\ readFrom["nsr_job_start_timestamp_seconds"] = "startTime"
      /\ readFrom["nsr_job_end_timestamp_seconds"] = "endTime"
  BY DEF readFrom
<1>2. /\ "nsr_client_parallelism" \in DOMAIN readFrom
      /\ "nsr_session_bytes" \in DOMAIN readFrom
      /\ "nsr_session_transfer_bytes_per_second" \in DOMAIN readFrom
      /\ "nsr_volume_capacity_bytes" \in DOMAIN readFrom
      /\ "nsr_volume_written_bytes" \in DOMAIN readFrom
      /\ "nsr_volume_recycled_total" \in DOMAIN readFrom
      /\ "nsr_datadomain_capacity_total_bytes" \in DOMAIN readFrom
      /\ "nsr_datadomain_capacity_used_bytes" \in DOMAIN readFrom
      /\ "nsr_datadomain_capacity_available_bytes" \in DOMAIN readFrom
      /\ "nsr_datadomain_logical_capacity_used_bytes" \in DOMAIN readFrom
      /\ "nsr_storagenode_device_count" \in DOMAIN readFrom
      /\ "nsr_backup_source_size_bytes" \in DOMAIN readFrom
      /\ "nsr_backup_change_size_bytes" \in DOMAIN readFrom
      /\ "nsr_job_bytes_per_second" \in DOMAIN readFrom
      /\ "nsr_server_up_since_timestamp_seconds" \in DOMAIN readFrom
      /\ "nsr_server_saves_total" \in DOMAIN readFrom
      /\ "nsr_server_save_size_bytes" \in DOMAIN readFrom
      /\ "nsr_server_recovers_total" \in DOMAIN readFrom
      /\ "nsr_server_recover_size_bytes" \in DOMAIN readFrom
      /\ "nsr_server_bad_saves_total" \in DOMAIN readFrom
      /\ "nsr_server_bad_recovers_total" \in DOMAIN readFrom
      /\ "nsr_server_current_saves" \in DOMAIN readFrom
      /\ "nsr_server_current_recovers" \in DOMAIN readFrom
      /\ "nsr_server_max_saves" \in DOMAIN readFrom
      /\ "nsr_server_max_recovers" \in DOMAIN readFrom
      /\ "nsr_job_start_timestamp_seconds" \in DOMAIN readFrom
      /\ "nsr_job_end_timestamp_seconds" \in DOMAIN readFrom
  BY DEF readFrom
<1>7. /\ "nsr_client_parallelism" \in Catalog
      /\ "nsr_session_bytes" \in Catalog
      /\ "nsr_session_transfer_bytes_per_second" \in Catalog
      /\ "nsr_volume_capacity_bytes" \in Catalog
      /\ "nsr_volume_written_bytes" \in Catalog
      /\ "nsr_volume_recycled_total" \in Catalog
      /\ "nsr_datadomain_capacity_total_bytes" \in Catalog
      /\ "nsr_datadomain_capacity_used_bytes" \in Catalog
      /\ "nsr_datadomain_capacity_available_bytes" \in Catalog
      /\ "nsr_datadomain_logical_capacity_used_bytes" \in Catalog
      /\ "nsr_storagenode_device_count" \in Catalog
      /\ "nsr_backup_source_size_bytes" \in Catalog
      /\ "nsr_backup_change_size_bytes" \in Catalog
      /\ "nsr_job_bytes_per_second" \in Catalog
      /\ "nsr_server_up_since_timestamp_seconds" \in Catalog
      /\ "nsr_server_saves_total" \in Catalog
      /\ "nsr_server_save_size_bytes" \in Catalog
      /\ "nsr_server_recovers_total" \in Catalog
      /\ "nsr_server_recover_size_bytes" \in Catalog
      /\ "nsr_server_bad_saves_total" \in Catalog
      /\ "nsr_server_bad_recovers_total" \in Catalog
      /\ "nsr_server_current_saves" \in Catalog
      /\ "nsr_server_current_recovers" \in Catalog
      /\ "nsr_server_max_saves" \in Catalog
      /\ "nsr_server_max_recovers" \in Catalog
      /\ "nsr_job_start_timestamp_seconds" \in Catalog
      /\ "nsr_job_end_timestamp_seconds" \in Catalog
  BY DEF Catalog, CatalogGauges, CatalogCounters
<1>3. /\ \A f \in {"parallelism", "recycled", "numberOfDevices", "upSince", "saves", "recovers", "badSaves",
               "badRecovers", "currentSaves", "currentRecovers", "maxSaves", "maxRecovers",
               "startTime", "endTime"} : f \in NumberField
      /\ \A f \in {"size", "transferRate", "capacity", "written", "saveSize", "recoverSize"} :
           f \in SizeField
      /\ \A f \in {"totalCapacity", "usedCapacity", "availableCapacity", "usedLogicalCapacity"} :
           f \in HumanField
  BY DEF NumberField, SizeField, HumanField
<1>4. ASSUME NEW name \in {"nsr_client_parallelism",
                 "nsr_volume_recycled_total",
                 "nsr_storagenode_device_count",
                 "nsr_server_up_since_timestamp_seconds",
                 "nsr_server_saves_total",
                 "nsr_server_recovers_total",
                 "nsr_server_bad_saves_total",
                 "nsr_server_bad_recovers_total",
                 "nsr_server_current_saves",
                 "nsr_server_current_recovers",
                 "nsr_server_max_saves",
                 "nsr_server_max_recovers",
                 "nsr_job_start_timestamp_seconds",
                 "nsr_job_end_timestamp_seconds"}
      PROVE  name \in Catalog /\ name \in DOMAIN readFrom /\ readFrom[name] \in NumberField
  BY <1>1, <1>2, <1>3, <1>7
<1>5. ASSUME NEW name \in {"nsr_session_bytes",
                 "nsr_session_transfer_bytes_per_second",
                 "nsr_volume_capacity_bytes",
                 "nsr_volume_written_bytes",
                 "nsr_backup_source_size_bytes",
                 "nsr_backup_change_size_bytes",
                 "nsr_job_bytes_per_second",
                 "nsr_server_save_size_bytes",
                 "nsr_server_recover_size_bytes"}
      PROVE  name \in Catalog /\ name \in DOMAIN readFrom /\ readFrom[name] \in SizeField
  BY <1>1, <1>2, <1>3, <1>7
<1>6. ASSUME NEW name \in {"nsr_datadomain_capacity_total_bytes",
                 "nsr_datadomain_capacity_used_bytes",
                 "nsr_datadomain_capacity_available_bytes",
                 "nsr_datadomain_logical_capacity_used_bytes"}
      PROVE  name \in Catalog /\ name \in DOMAIN readFrom /\ readFrom[name] \in HumanField
  BY <1>1, <1>2, <1>3, <1>7
<1> QED BY <1>4, <1>5, <1>6

(* Each sample that is zero is of a metric and a field of the item in      *)
(* which the item sends a zero.                                            *)
Candid(p, item) == \A x \in ToSet(p) : x.value = 0 => ZeroSent(x.name, <<item>>)

(* The samples with labels in L of which that holds. *)
Frank(L, item) ==
  {x \in [name : Catalog, help : Catalog, type : {"Gauge", "Counter"}, labels : L, value : Nat] :
     x.value = 0 => ZeroSent(x.name, <<item>>)}

LEMMA FrankCandid ==
  ASSUME NEW L, NEW item, NEW p \in Seq(Frank(L, item))
  PROVE  Candid(p, item)
<1>1. \A n \in 1..Len(p) : p[n] \in Frank(L, item)
  OBVIOUS
<1>2. ToSet(p) = {p[n] : n \in 1..Len(p)}
  BY DEF ToSet
<1> QED BY <1>1, <1>2 DEF Candid, Frank

LEMMA NothingCandid == \A item : Candid(<<>>, item)
BY DEF Candid, ToSet

(* What is not zero needs no item. *)
LEMMA GaugeCandid ==
  ASSUME NEW name, NEW v, v # 0 \/ name = "nsr_policy_enabled", NEW labels, NEW item
  PROVE  Candid(gauge(name, v, labels), item)
<1> DEFINE s == [name |-> name, help |-> name, type |-> "Gauge", labels |-> labels, value |-> v]
<1>1. gauge(name, v, labels) = <<s>>
  BY DEF gauge
<1>2. s.value = v /\ s.name = name
  OBVIOUS
<1>3. v = 0 => ZeroSent(name, <<item>>)
  BY DEF ZeroSent
<1> HIDE DEF s
<1>4. ToSet(<<s>>) = {s}
  BY DEF ToSet
<1> QED BY <1>1, <1>2, <1>3, <1>4 DEF Candid

LEMMA GaugeFrank ==
  ASSUME NEW L, NEW labels \in L, NEW item, NEW name \in Catalog, NEW v \in Nat,
         v = 0 => ZeroSent(name, <<item>>)
  PROVE  /\ gauge(name, v, labels) \in Seq(Frank(L, item))
         /\ counter(name, v, labels) \in Seq(Frank(L, item))
<1>1. \A t \in {"Gauge", "Counter"} :
        [name |-> name, help |-> name, type |-> t, labels |-> labels, value |-> v]
          \in Frank(L, item)
  BY DEF Frank
<1> QED BY <1>1 DEF gauge, counter

LEMMA InfoFrank ==
  ASSUME NEW L, NEW labels \in L, NEW item, NEW name \in Catalog
  PROVE  gauge(name, 1, labels) \in Seq(Frank(L, item))
<1>1. 1 \in Nat /\ 1 # 0
  OBVIOUS
<1> QED BY <1>1, GaugeFrank

LEMMA NumberFrank ==
  ASSUME NEW L, NEW labels \in L, NEW item, NEW name \in Catalog, name \in DOMAIN readFrom,
         readFrom[name] \in NumberField, readFrom[name] \in DOMAIN item,
         item[readFrom[name]] \in Number
  PROVE  /\ emitGauge(name, item[readFrom[name]], labels) \in Seq(Frank(L, item))
         /\ emitCounter(name, item[readFrom[name]], labels) \in Seq(Frank(L, item))
         /\ emitReading(name, parseTime(item[readFrom[name]]), labels) \in Seq(Frank(L, item))
<1> DEFINE v == item[readFrom[name]]
<1>1. v = 0 => ZeroSent(name, <<item>>)
  BY DEF ZeroSent, sendsZero
<1>2. v # Absent => v \in Nat
  BY ReadingsAreNumbers
<1>3. v # Absent => parseTime(v).ok = TRUE /\ parseTime(v).value = v
  BY DEF parseTime, Reading
<1>4. v = Absent => parseTime(v).ok = FALSE
  BY DEF parseTime, NoReading
<1> HIDE DEF v
<1>5. CASE v = Absent
  <2>1. <<>> \in Seq(Frank(L, item))
    OBVIOUS
  <2> QED BY <1>4, <1>5, <2>1 DEF emitGauge, emitCounter, emitReading, v
<1>6. CASE v # Absent
  <2>1. /\ gauge(name, v, labels) \in Seq(Frank(L, item))
        /\ counter(name, v, labels) \in Seq(Frank(L, item))
    BY <1>1, <1>2, <1>6, GaugeFrank
  <2> QED BY <1>3, <1>6, <2>1 DEF emitGauge, emitCounter, emitReading, v
<1> QED BY <1>5, <1>6

LEMMA ReadingFrank ==
  ASSUME NEW L, NEW labels \in L, NEW item, NEW name \in Catalog, NEW r,
         r.ok => r.value \in Nat, r.ok /\ r.value = 0 => ZeroSent(name, <<item>>)
  PROVE  emitReading(name, r, labels) \in Seq(Frank(L, item))
<1>1. <<>> \in Seq(Frank(L, item))
  OBVIOUS
<1> QED BY <1>1, GaugeFrank DEF emitReading

LEMMA ZeroReadings ==
  /\ \A s : Bytes(s).ok /\ Bytes(s).value = 0 => Bytes(s) = Reading(0)
  /\ \A s : parseHumanSize(s).ok /\ parseHumanSize(s).value = 0 => parseHumanSize(s) = Reading(0)
BY DEF Bytes, parseHumanSize, Reading, NoReading

LEMMA SizeFrank ==
  ASSUME NEW L, NEW labels \in L, NEW item, NEW name \in Catalog, name \in DOMAIN readFrom,
         readFrom[name] \in SizeField, readFrom[name] \in DOMAIN item,
         item[readFrom[name]] \in Size
  PROVE  /\ emitReading(name, Bytes(item[readFrom[name]]), labels) \in Seq(Frank(L, item))
         /\ emitSizeCounter(name, item[readFrom[name]], labels) \in Seq(Frank(L, item))
<1> DEFINE r == Bytes(item[readFrom[name]])
<1>1. r.ok /\ r.value = 0 => ZeroSent(name, <<item>>)
  BY ZeroReadings DEF ZeroSent, sendsZero
<1>2. r.ok => r.value \in Nat
  BY ReadingsAreNumbers
<1>3. emitSizeCounter(name, item[readFrom[name]], labels)
        = IF r.ok THEN counter(name, r.value, labels) ELSE <<>>
  BY DEF emitSizeCounter
<1> HIDE DEF r
<1>4. <<>> \in Seq(Frank(L, item))
  OBVIOUS
<1>5. emitReading(name, r, labels) \in Seq(Frank(L, item))
  BY <1>1, <1>2, ReadingFrank
<1>6. r.ok => counter(name, r.value, labels) \in Seq(Frank(L, item))
  BY <1>1, <1>2, GaugeFrank
<1> QED BY <1>3, <1>4, <1>5, <1>6 DEF r

LEMMA CapacityFrank ==
  ASSUME NEW L, NEW labels \in L, NEW item, NEW name \in Catalog, name \in DOMAIN readFrom,
         readFrom[name] \in HumanField, readFrom[name] \in DOMAIN item,
         item[readFrom[name]] \in HumanSize
  PROVE  emitHumanSize(name, item[readFrom[name]], labels) \in Seq(Frank(L, item))
<1> DEFINE r == parseHumanSize(item[readFrom[name]])
<1>1. r.ok /\ r.value = 0 => ZeroSent(name, <<item>>)
  BY ZeroReadings DEF ZeroSent, sendsZero
<1>2. r.ok => r.value \in Nat
  BY ReadingsAreNumbers
<1> HIDE DEF r
<1>3. emitReading(name, r, labels) \in Seq(Frank(L, item))
  BY <1>1, <1>2, ReadingFrank
<1> QED BY <1>3 DEF emitHumanSize, r

-----------------------------------------------------------------------------
(* Item by item.                                                           *)

LEMMA ConcatFrank ==
  ASSUME NEW L, NEW item, NEW p \in Seq(Frank(L, item)), NEW t \in Seq(Frank(L, item))
  PROVE  p \o t \in Seq(Frank(L, item))
OBVIOUS

LEMMA InfoCandid ==
  /\ \A a : Candid(alertSamples(a), a)
  /\ \A d : Candid(deviceSamples(d), d)
  /\ \A p : Candid(poolSamples(p), p)
  /\ \A v : Candid(vcenterSamples(v), v)
  /\ \A p : Candid(policySamples(p), p)
  /\ \A g : Candid(groupInfo(g), g)
<1>1. \A name, labels, item : Candid(gauge(name, 1, labels), item)
  <2>1. 1 # 0
    OBVIOUS
  <2> QED BY <2>1, GaugeCandid
<1>2. \A a : Candid(alertSamples(a), a)
  BY <1>1 DEF alertSamples
<1>3. \A d : Candid(deviceSamples(d), d)
  BY <1>1, NothingCandid DEF deviceSamples
<1>4. \A p : Candid(poolSamples(p), p)
  BY <1>1, NothingCandid DEF poolSamples
<1>5. \A v : Candid(vcenterSamples(v), v)
  BY <1>1, NothingCandid DEF vcenterSamples
<1>6. \A p : Candid(policySamples(p), p)
  <2>1. \A v, labels, item : Candid(gauge("nsr_policy_enabled", v, labels), item)
    BY GaugeCandid
  <2> QED BY <2>1, NothingCandid DEF policySamples
<1>7. \A g : Candid(groupInfo(g), g)
  BY <1>1, NothingCandid DEF groupInfo
<1> QED BY <1>2, <1>3, <1>4, <1>5, <1>6, <1>7

LEMMA ClientCandid ==
  ASSUME NEW cl \in Item["clients"]
  PROVE  Candid(clientSamples(cl), cl)
<1> DEFINE P == "nsr_client_parallelism"
           id == <<lbl("client_name", cl.hostname), lbl("resource_id", text(cl.resourceId))>>
           all == id \o <<lbl("ndmp", FormatBool(cl.ndmp)),
                          lbl("scheduled_backup", FormatBool(cl.scheduledBackup)),
                          lbl("backup_command", text(cl.backupCommand)),
                          lbl("operating_system", text(cl.os))>>
           L == {id, all}
           a == gauge("nsr_client_info", 1, all)
           b == emitGauge(P, cl.parallelism, id)
<1>1. CASE text(cl.hostname) = ""
  BY <1>1, NothingCandid DEF clientSamples
<1>2. CASE text(cl.hostname) # ""
  <2>1. clientSamples(cl) = a \o b
    BY <1>2 DEF clientSamples
  <2>2. id \in L /\ all \in L
    OBVIOUS
  <2>3. "parallelism" \in DOMAIN cl /\ cl["parallelism"] \in Number /\ readFrom[P] = "parallelism"
    BY DEF Item, readFrom
  <2>4. "nsr_client_info" \in Catalog
    BY DEF Catalog, CatalogGauges
  <2> HIDE DEF id, all, L
  <2>5. a \in Seq(Frank(L, cl))
    BY <2>2, <2>4, InfoFrank
  <2>6. b \in Seq(Frank(L, cl))
    BY <2>2, <2>3, ReadFromRows, NumberFrank
  <2> HIDE DEF a, b
  <2> QED BY <2>1, <2>5, <2>6, ConcatFrank, FrankCandid
<1> QED BY <1>1, <1>2

LEMMA VolumeCandid ==
  ASSUME NEW v \in Item["volumes"]
  PROVE  Candid(volumeSamples(v), v)
<1> DEFINE name == lbl("volume_name", text(v.name))
           pool == lbl("pool", text(v.pool))
           vl == <<name, pool, lbl("type", text(v.type))>>
           sl == <<name, pool, lbl("status", v.states)>>
           nl == <<name>>
           L == {vl, sl, nl}
           c == emitReading("nsr_volume_capacity_bytes", Bytes(v.capacity), vl)
           w == emitReading("nsr_volume_written_bytes", Bytes(v.written), vl)
           r == emitCounter("nsr_volume_recycled_total", v.recycled, nl)
           s == IF v.states = Absent THEN <<>> ELSE gauge("nsr_volume_status", 1, sl)
<1>1. volumeSamples(v) = c \o w \o r \o s
  BY DEF volumeSamples
<1>2. vl \in L /\ sl \in L /\ nl \in L
  OBVIOUS
<1>3. /\ "capacity" \in DOMAIN v /\ v["capacity"] \in Size
      /\ "written" \in DOMAIN v /\ v["written"] \in Size
      /\ "recycled" \in DOMAIN v /\ v["recycled"] \in Number
  BY DEF Item
<1>4. /\ readFrom["nsr_volume_capacity_bytes"] = "capacity"
      /\ readFrom["nsr_volume_written_bytes"] = "written"
      /\ readFrom["nsr_volume_recycled_total"] = "recycled"
  BY DEF readFrom
<1>5. "nsr_volume_status" \in Catalog
  BY DEF Catalog, CatalogGauges
<1> HIDE DEF vl, sl, nl, L
<1>6. c \in Seq(Frank(L, v)) /\ w \in Seq(Frank(L, v))
  BY <1>2, <1>3, <1>4, ReadFromRows, SizeFrank
<1>7. r \in Seq(Frank(L, v))
  BY <1>2, <1>3, <1>4, ReadFromRows, NumberFrank
<1>8. s \in Seq(Frank(L, v))
  <2>1. <<>> \in Seq(Frank(L, v))
    OBVIOUS
  <2> QED BY <1>2, <1>5, <2>1, InfoFrank
<1> HIDE DEF c, w, r, s
<1> QED BY <1>1, <1>6, <1>7, <1>8, ConcatFrank, FrankCandid

LEMMA DataDomainCandid ==
  ASSUME NEW d \in Item["datadomainsystems"]
  PROVE  Candid(datadomainSamples(d), d)
<1> DEFINE T == "nsr_datadomain_capacity_total_bytes"
           U == "nsr_datadomain_capacity_used_bytes"
           A == "nsr_datadomain_capacity_available_bytes"
           G == "nsr_datadomain_logical_capacity_used_bytes"
           dl == <<lbl("dd_name", text(d.name)), lbl("model", text(d.model)),
                   lbl("os_version", text(d.osVersion))>>
           L == {dl}
           t == emitHumanSize(T, d.totalCapacity, dl)
           u == emitHumanSize(U, d.usedCapacity, dl)
           a == emitHumanSize(A, d.availableCapacity, dl)
           g == emitHumanSize(G, d.usedLogicalCapacity, dl)
<1>1. datadomainSamples(d) = t \o u \o a \o g
  BY DEF datadomainSamples
<1>2. dl \in L
  OBVIOUS
<1>3. /\ "totalCapacity" \in DOMAIN d /\ d["totalCapacity"] \in HumanSize
      /\ "usedCapacity" \in DOMAIN d /\ d["usedCapacity"] \in HumanSize
      /\ "availableCapacity" \in DOMAIN d /\ d["availableCapacity"] \in HumanSize
      /\ "usedLogicalCapacity" \in DOMAIN d /\ d["usedLogicalCapacity"] \in HumanSize
  BY DEF Item
<1>4. /\ readFrom[T] = "totalCapacity" /\ readFrom[U] = "usedCapacity"
      /\ readFrom[A] = "availableCapacity" /\ readFrom[G] = "usedLogicalCapacity"
  BY DEF readFrom
<1> HIDE DEF dl, L
<1>5. t \in Seq(Frank(L, d)) /\ u \in Seq(Frank(L, d))
  BY <1>2, <1>3, <1>4, ReadFromRows, CapacityFrank
<1>6. a \in Seq(Frank(L, d)) /\ g \in Seq(Frank(L, d))
  BY <1>2, <1>3, <1>4, ReadFromRows, CapacityFrank
<1> HIDE DEF t, u, a, g
<1> QED BY <1>1, <1>5, <1>6, ConcatFrank, FrankCandid

LEMMA StorageNodeCandid ==
  ASSUME NEW n \in Item["storagenodes"]
  PROVE  Candid(storageNodeSamples(n), n)
<1> DEFINE C == "nsr_storagenode_device_count"
           il == <<lbl("node", n.name), lbl("enabled", FormatBool(n.enabled)),
                   lbl("type", text(n.typeOfStorageNode)), lbl("version", text(n.version))>>
           nl == <<lbl("node", n.name)>>
           L == {il, nl}
           a == gauge("nsr_storagenode_info", 1, il)
           b == emitGauge(C, n.numberOfDevices, nl)
<1>1. CASE text(n.name) = ""
  BY <1>1, NothingCandid DEF storageNodeSamples
<1>2. CASE text(n.name) # ""
  <2>1. storageNodeSamples(n) = a \o b
    BY <1>2 DEF storageNodeSamples
  <2>2. il \in L /\ nl \in L
    OBVIOUS
  <2>3. /\ "numberOfDevices" \in DOMAIN n /\ n["numberOfDevices"] \in Number
        /\ readFrom[C] = "numberOfDevices"
    BY DEF Item, readFrom
  <2>4. "nsr_storagenode_info" \in Catalog
    BY DEF Catalog, CatalogGauges
  <2> HIDE DEF il, nl, L
  <2>5. a \in Seq(Frank(L, n))
    BY <2>2, <2>4, InfoFrank
  <2>6. b \in Seq(Frank(L, n))
    BY <2>2, <2>3, ReadFromRows, NumberFrank
  <2> HIDE DEF a, b
  <2> QED BY <2>1, <2>5, <2>6, ConcatFrank, FrankCandid
<1> QED BY <1>1, <1>2

LEMMA JobCandid ==
  ASSUME NEW j \in Item["jobs"]
  PROVE  Candid(jobSamples(j), j)
<1> DEFINE S == "nsr_job_start_timestamp_seconds"
           E == "nsr_job_end_timestamp_seconds"
           start == parseTime(j.startTime)
           id == <<lbl("job_id", text(j.id)), lbl("job_name", text(j.name))>>
           all == id \o <<lbl("job_type", text(j.type)), lbl("state", text(j.state)),
                          lbl("completion_status", text(j.completionStatus)),
                          lbl("client", text(j.clientHostname)), lbl("level", text(j.level))>>
           L == {id, all}
           a == gauge("nsr_job_status", 1, all)
           b == emitReading(S, parseTime(j.startTime), id)
           c == emitReading(E, parseTime(j.endTime), id)
<1>1. CASE start.ok /\ start.value < Cutoff
  BY <1>1, NothingCandid DEF jobSamples
<1>2. CASE ~ (start.ok /\ start.value < Cutoff)
  <2>1. jobSamples(j) = a \o b \o c
    BY <1>2 DEF jobSamples
  <2>2. id \in L /\ all \in L
    OBVIOUS
  <2>3. /\ "startTime" \in DOMAIN j /\ j["startTime"] \in Number
        /\ "endTime" \in DOMAIN j /\ j["endTime"] \in Number
    BY DEF Item, Time, Number
  <2>4. readFrom[S] = "startTime" /\ readFrom[E] = "endTime"
    BY DEF readFrom
  <2>5. "nsr_job_status" \in Catalog
    BY DEF Catalog, CatalogGauges
  <2> HIDE DEF id, all, L
  <2>6. a \in Seq(Frank(L, j))
    BY <2>2, <2>5, InfoFrank
  <2>7. b \in Seq(Frank(L, j)) /\ c \in Seq(Frank(L, j))
    BY <2>2, <2>3, <2>4, ReadFromRows, NumberFrank
  <2> HIDE DEF a, b, c
  <2> QED BY <2>1, <2>6, <2>7, ConcatFrank, FrankCandid
<1> QED BY <1>1, <1>2

LEMMA StatisticsCandid ==
  ASSUME NEW st \in Item["serverstatistics"]
  PROVE  Candid(statisticsSamples(st), st)
<1> DEFINE L == {<<>>}
           a == emitReading("nsr_server_up_since_timestamp_seconds", parseTime(st.upSince), <<>>)
           b == emitCounter("nsr_server_saves_total", st.saves, <<>>)
           c == emitSizeCounter("nsr_server_save_size_bytes", st.saveSize, <<>>)
           d == emitCounter("nsr_server_recovers_total", st.recovers, <<>>)
           e == emitSizeCounter("nsr_server_recover_size_bytes", st.recoverSize, <<>>)
           f == emitCounter("nsr_server_bad_saves_total", st.badSaves, <<>>)
           g == emitCounter("nsr_server_bad_recovers_total", st.badRecovers, <<>>)
           h == emitGauge("nsr_server_current_saves", st.currentSaves, <<>>)
           k == emitGauge("nsr_server_current_recovers", st.currentRecovers, <<>>)
           m == emitGauge("nsr_server_max_saves", st.maxSaves, <<>>)
           n == emitGauge("nsr_server_max_recovers", st.maxRecovers, <<>>)
<1>1. statisticsSamples(st) = a \o b \o c \o d \o e \o f \o g \o h \o k \o m \o n
  BY DEF statisticsSamples
<1>2. <<>> \in L
  OBVIOUS
<1>3. /\ \A x \in {"upSince", "saves", "recovers", "badSaves", "badRecovers", "currentSaves",
                   "currentRecovers", "maxSaves", "maxRecovers"} :
           x \in DOMAIN st /\ st[x] \in Number
      /\ \A x \in {"saveSize", "recoverSize"} : x \in DOMAIN st /\ st[x] \in Size
  BY DEF Item, Time, Number
<1>4. /\ readFrom["nsr_server_up_since_timestamp_seconds"] = "upSince"
      /\ readFrom["nsr_server_saves_total"] = "saves"
      /\ readFrom["nsr_server_save_size_bytes"] = "saveSize"
      /\ readFrom["nsr_server_recovers_total"] = "recovers"
      /\ readFrom["nsr_server_recover_size_bytes"] = "recoverSize"
      /\ readFrom["nsr_server_bad_saves_total"] = "badSaves"
      /\ readFrom["nsr_server_bad_recovers_total"] = "badRecovers"
      /\ readFrom["nsr_server_current_saves"] = "currentSaves"
      /\ readFrom["nsr_server_current_recovers"] = "currentRecovers"
      /\ readFrom["nsr_server_max_saves"] = "maxSaves"
      /\ readFrom["nsr_server_max_recovers"] = "maxRecovers"
  BY DEF readFrom
<1> HIDE DEF L
<1>5. c \in Seq(Frank(L, st)) /\ e \in Seq(Frank(L, st))
  BY <1>2, <1>3, <1>4, ReadFromRows, SizeFrank
<1>6. a \in Seq(Frank(L, st)) /\ b \in Seq(Frank(L, st)) /\ d \in Seq(Frank(L, st))
  BY <1>2, <1>3, <1>4, ReadFromRows, NumberFrank
<1>7. f \in Seq(Frank(L, st)) /\ g \in Seq(Frank(L, st)) /\ h \in Seq(Frank(L, st))
  BY <1>2, <1>3, <1>4, ReadFromRows, NumberFrank
<1>8. k \in Seq(Frank(L, st)) /\ m \in Seq(Frank(L, st)) /\ n \in Seq(Frank(L, st))
  BY <1>2, <1>3, <1>4, ReadFromRows, NumberFrank
<1> HIDE DEF a, b, c, d, e, f, g, h, k, m, n
<1>9. a \o b \o c \o d \o e \o f \in Seq(Frank(L, st))
  BY <1>5, <1>6, <1>7, ConcatFrank
<1>10. a \o b \o c \o d \o e \o f \o g \o h \o k \o m \o n \in Seq(Frank(L, st))
  BY <1>7, <1>8, <1>9, ConcatFrank
<1> QED BY <1>1, <1>10, FrankCandid

-----------------------------------------------------------------------------
(* Request by request. *)

Truthful(p, items) == \A x \in ToSet(p) : x.value = 0 => ZeroSent(x.name, items)

LEMMA FunctionIsSequence ==
  ASSUME NEW T, NEW c \in Nat, NEW e \in [1..c -> T]
  PROVE  e \in Seq(T) /\ Len(e) = c
OBVIOUS

LEMMA ItemsTruthful ==
  ASSUME NEW items, NEW e, Len(items) \in Nat, DOMAIN items = 1..Len(items),
         \A n \in 1..Len(items) : (\E N : e[n] \in Batch(N)) /\ Candid(e[n], items[n]),
         e = [n \in 1..Len(items) |-> e[n]]
  PROVE  Truthful(FlattenSeq(e), items)
<1> DEFINE c == Len(items)
<1>1. \A n \in 1..c : e[n] \in Seq(Emitted)
  BY DEF Batch
<1>2. e \in Seq(Seq(Emitted)) /\ Len(e) = c
  <2>1. e \in [1..c -> Seq(Emitted)] /\ c \in Nat
    BY <1>1
  <2> DEFINE T == Seq(Emitted)
  <2>2. e \in [1..c -> T] /\ c \in Nat
    BY <2>1
  <2> HIDE DEF c, T
  <2>3. e \in Seq(T) /\ Len(e) = c
    BY <2>2, FunctionIsSequence
  <2> QED BY <2>3 DEF T
<1>3. ToSet(FlattenSeq(e)) = UNION {ToSet(e[n]) : n \in 1..c}
  BY <1>2, FlattenOf
<1>4. ASSUME NEW x \in ToSet(FlattenSeq(e)), x.value = 0
      PROVE  ZeroSent(x.name, items)
  <2>1. PICK n \in 1..c : x \in ToSet(e[n])
    BY <1>3
  <2>2. ZeroSent(x.name, <<items[n]>>)
    BY <1>4, <2>1 DEF Candid
  <2>3. \A k \in DOMAIN <<items[n]>> : <<items[n]>>[k] = items[n]
    OBVIOUS
  <2> QED BY <2>1, <2>2, <2>3 DEF ZeroSent
<1> QED BY <1>4 DEF Truthful

LEMMA ConcatTruthful ==
  ASSUME NEW items, NEW p \in Seq(Emitted), NEW t \in Seq(Emitted),
         Truthful(p, items), Truthful(t, items)
  PROVE  Truthful(p \o t, items)
BY ConcatRange DEF Truthful

(* What is counted is not zero. *)
LEMMA TotalsTruthful ==
  ASSUME NEW name \in CatalogGauges \ CycleMetric, NEW key \in LabelKey, keysOf(name) = {key},
         NEW m \in Tally(GoodValue), NEW f \in totals(name, key, m), NEW items
  PROVE  Truthful(f, items)
<1>1. ToSet(f) = UNION {ToSet(gauge(name, m[k], <<lbl(key, k)>>)) : k \in DOMAIN m}
  BY TotalsBatch
<1>2. \A k \in DOMAIN m : m[k] # 0
  BY DEF Tally
<1>3. \A k \in DOMAIN m : \A x \in ToSet(gauge(name, m[k], <<lbl(key, k)>>)) : x.value = m[k]
  BY DEF gauge, ToSet
<1> QED BY <1>1, <1>2, <1>3 DEF Truthful

LEMMA AlertsTruthful ==
  ASSUME NEW items \in Seq(Item["alerts"]), NEW new \in Emissions("alerts", items)
  PROVE  Truthful(new, items)
<1> DEFINE A == "nsr_alerts_active"
           q == [n \in 1..Len(items) |-> alertSamples(items[n])]
           p == FlattenSeq(q)
<1>1. PICK rest \in totals(A, "priority", byPriority(items)) : new = p \o rest
  BY DEF Emissions, each
<1>2. \A n \in 1..Len(items) : items[n] \in Item["alerts"]
  OBVIOUS
<1>3. \A n \in 1..Len(items) : q[n] \in Batch({"nsr_alert_info"}) /\ Candid(q[n], items[n])
  BY <1>2, AlertBatch, InfoCandid
<1>4. q = [n \in 1..Len(items) |-> q[n]] /\ Len(items) \in Nat /\ DOMAIN items = 1..Len(items)
  OBVIOUS
<1>5. A \in CatalogGauges \ CycleMetric /\ keysOf(A) = {"priority"}
  BY DEF keysOf, CatalogGauges, CycleMetric, upName, durationName, guardMetric
<1>6. "priority" \in LabelKey
  BY DEF LabelKey
<1>7. byPriority(items) \in Tally(GoodValue)
  BY ByPriorityType
<1>8. rest \in Batch({A}) /\ Truthful(rest, items)
  BY <1>1, <1>5, <1>6, <1>7, TotalsBatch, TotalsTruthful
<1> HIDE DEF q
<1>9. Truthful(p, items)
  BY <1>3, <1>4, ItemsTruthful
<1>10. p \in Batch({"nsr_alert_info"})
  <2>1. {"nsr_alert_info"} \subseteq PerItem
    BY DEF PerItem
  <2>2. q \in [1..Len(items) -> Batch({"nsr_alert_info"})]
    BY <1>3, <1>4
  <2> QED BY <1>4, <2>1, <2>2, EachBatch
<1>11. p \in Seq(Emitted) /\ rest \in Seq(Emitted)
  BY <1>8, <1>10 DEF Batch
<1> HIDE DEF p
<1> QED BY <1>1, <1>8, <1>9, <1>11, ConcatTruthful

(* A group has a session, and no bytes or no rate only if one of its       *)
(* sessions says so.                                                       *)
RealGroup(g, items) ==
  /\ g.n # 0
  /\ g.hasB /\ g.bytes = 0 => \E m \in DOMAIN items : Bytes(items[m].size) = Reading(0)
  /\ g.hasR /\ g.bps = 0 => \E m \in DOMAIN items : Bytes(items[m].transferRate) = Reading(0)

LEMMA JoinedReal ==
  ASSUME NEW items \in Seq(Item["sessions"]), NEW m \in DOMAIN items,
         NEW g, g = NoSession \/ (g \in Group /\ RealGroup(g, items))
  PROVE  RealGroup(joined(g, items[m]), items)
<1> DEFINE b == Bytes(items[m].size)
           r == Bytes(items[m].transferRate)
           h == joined(g, items[m])
           zeroB == \E k \in DOMAIN items : Bytes(items[k].size) = Reading(0)
           zeroR == \E k \in DOMAIN items : Bytes(items[k].transferRate) = Reading(0)
<1>1. b.ok \in BOOLEAN /\ b.value \in Nat /\ r.ok \in BOOLEAN /\ r.value \in Nat
  BY SessionFields, SizeReading
<1>2. (b.ok /\ b.value = 0 => zeroB) /\ (r.ok /\ r.value = 0 => zeroR)
  BY ZeroReadings
<1>3. /\ g.n \in Nat /\ g.bytes \in Nat /\ g.bps \in Nat
      /\ (g.hasB /\ g.bytes = 0 => zeroB) /\ (g.hasR /\ g.bps = 0 => zeroR)
  BY DEF RealGroup, Group, NoSession
<1>4. /\ h.n = g.n + 1 /\ h.bytes = g.bytes + b.value /\ h.bps = g.bps + r.value
      /\ h.hasB = (g.hasB \/ b.ok) /\ h.hasR = (g.hasR \/ r.ok)
  BY DEF joined, BytesPerSecond
<1>5. RealGroup(h, items) = (h.n # 0 /\ (h.hasB /\ h.bytes = 0 => zeroB)
                                     /\ (h.hasR /\ h.bps = 0 => zeroR))
  BY DEF RealGroup
<1> HIDE DEF b, r, h, zeroB, zeroR
<1>6. h.n # 0
  BY <1>3, <1>4
<1>7. h.bytes = 0 => g.bytes = 0 /\ b.value = 0
  BY <1>1, <1>3, <1>4
<1>8. h.bps = 0 => g.bps = 0 /\ r.value = 0
  BY <1>1, <1>3, <1>4
<1>9. RealGroup(h, items)
  BY <1>2, <1>3, <1>4, <1>5, <1>6, <1>7, <1>8
<1> QED BY <1>9 DEF h

LEMMA GroupsReal ==
  ASSUME NEW items \in Seq(Item["sessions"])
  PROVE  LET acc == FoldLeft(addSession, SessionStart, items)
         IN  acc \in Grouped /\ \A x \in DOMAIN acc.groups : RealGroup(acc.groups[x], items)
<1> DEFINE n == Len(items)
<1>1. n \in Nat /\ DOMAIN items = 1..n /\ \A k \in 1..n : items[k] \in Item["sessions"]
  OBVIOUS
<1>2. PICK f : /\ f \in [0..n -> Grouped]
               /\ f[0] = SessionStart
               /\ \A k \in 0..(n - 1) : f[k + 1] = addSession(f[k], items[k + 1])
               /\ FoldLeft(addSession, SessionStart, items) = f[n]
  BY SessionSteps
<1> DEFINE R(k) == \A x \in DOMAIN f[k].groups : RealGroup(f[k].groups[x], items)
           D == {k \in 0..n : R(k)}
<1> HIDE DEF n
<1>3. 0 \in D
  <2>1. DOMAIN SessionStart.groups = {}
    BY DEF SessionStart, NoEntries
  <2> QED BY <1>1, <1>2, <2>1
<1>4. ASSUME NEW k \in 0..(n - 1), k \in D PROVE k + 1 \in D
  <2> DEFINE acc == f[k]
             s == items[k + 1]
             new == addSession(acc, s)
             key == keyOf(s)
  <2>1. k \in 0..n /\ k + 1 \in 0..n /\ k + 1 \in 1..n
    BY <1>1
  <2>2. acc \in Grouped /\ s \in Item["sessions"] /\ k + 1 \in DOMAIN items
    BY <1>1, <1>2, <2>1
  <2>3. f[k + 1] = new
    BY <1>2
  <2>4. /\ DOMAIN new.groups = DOMAIN acc.groups \cup {key}
        /\ \A x \in DOMAIN acc.groups : x # key => new.groups[x] = acc.groups[x]
        /\ new.groups[key] =
             joined(IF key \in DOMAIN acc.groups THEN acc.groups[key] ELSE NoSession, s)
    <3> HIDE DEF acc, s
    <3> QED BY <2>2, AddSessionFacts
  <2>5. \A x \in DOMAIN acc.groups : acc.groups[x] \in Group /\ RealGroup(acc.groups[x], items)
    <3>1. acc.groups \in UNION {[C -> Group] : C \in SUBSET SessionKey}
      BY <2>2 DEF Grouped
    <3> QED BY <1>4, <3>1
  <2> HIDE DEF acc, new, key
  <2>6. RealGroup(new.groups[key], items)
    <3> DEFINE g == IF key \in DOMAIN acc.groups THEN acc.groups[key] ELSE NoSession
    <3>1. key \in DOMAIN acc.groups => g \in Group /\ RealGroup(g, items)
      BY <2>5
    <3>3. key \notin DOMAIN acc.groups => g = NoSession
      OBVIOUS
    <3> HIDE DEF g
    <3>4. g = NoSession \/ (g \in Group /\ RealGroup(g, items))
      BY <3>1, <3>3
    <3>5. k + 1 \in DOMAIN items
      BY <2>2
    <3>2. RealGroup(joined(g, items[k + 1]), items)
      BY <3>4, <3>5, JoinedReal
    <3> QED BY <2>4, <3>2 DEF g
  <2>7. \A x \in DOMAIN new.groups : RealGroup(new.groups[x], items)
    BY <2>4, <2>5, <2>6
  <2> QED BY <2>1, <2>3, <2>7
<1>5. n \in D
  <2> HIDE DEF D
  <2>1. \A k \in 0..n : k \in D
    BY <1>1, <1>3, <1>4, IntervalInduction
  <2> QED BY <1>1, <2>1
<1>6. f[n] \in Grouped
  BY <1>1, <1>2
<1> QED BY <1>2, <1>5, <1>6

LEMMA GroupTruthful ==
  ASSUME NEW items \in Seq(Item["sessions"]), NEW k \in SessionKey, NEW g \in Group,
         RealGroup(g, items)
  PROVE  Truthful(groupSamples(k, g), items)
<1> DEFINE l == groupLabels(k)
           B == "nsr_session_bytes"
           R == "nsr_session_transfer_bytes_per_second"
           a == gauge("nsr_session_active", g.n, l)
           b == IF g.hasB THEN gauge(B, g.bytes, l) ELSE <<>>
           r == IF g.hasR THEN gauge(R, g.bps, l) ELSE <<>>
<1>1. groupSamples(k, g) = a \o b \o r
  BY DEF groupSamples
<1>2. groupSamples(k, g) \in Seq(Emitted)
  BY GroupBatches DEF Batch
<1>3. /\ readFrom[B] = "size" /\ readFrom[R] = "transferRate"
      /\ B \in DOMAIN readFrom /\ R \in DOMAIN readFrom
      /\ "size" \in SizeField /\ "transferRate" \in SizeField
  BY DEF readFrom, SizeField
<1>4. \A m \in DOMAIN items : "size" \in DOMAIN items[m] /\ "transferRate" \in DOMAIN items[m]
  <2>1. \A s \in Item["sessions"] : "size" \in DOMAIN s /\ "transferRate" \in DOMAIN s
    BY DEF Item
  <2> QED BY <2>1
<1>5. (g.hasB /\ g.bytes = 0 => ZeroSent(B, items)) /\ (g.hasR /\ g.bps = 0 => ZeroSent(R, items))
  <2>1. ASSUME NEW m \in DOMAIN items, Bytes(items[m].size) = Reading(0)
        PROVE  sendsZero(items[m], "size")
    BY <1>3, <1>4, <2>1 DEF sendsZero
  <2>2. ASSUME NEW m \in DOMAIN items, Bytes(items[m].transferRate) = Reading(0)
        PROVE  sendsZero(items[m], "transferRate")
    BY <1>3, <1>4, <2>2 DEF sendsZero
  <2> QED BY <1>3, <2>1, <2>2 DEF RealGroup, ZeroSent
<1>6. Truthful(a, items)
  <2>1. \A x \in ToSet(a) : x.value = g.n
    BY DEF gauge, ToSet
  <2> QED BY <2>1 DEF Truthful, RealGroup
<1>7. Truthful(b, items)
  <2>1. \A x \in ToSet(b) : g.hasB /\ x.value = g.bytes /\ x.name = B
    BY DEF gauge, ToSet
  <2> QED BY <1>5, <2>1 DEF Truthful
<1>8. Truthful(r, items)
  <2>1. \A x \in ToSet(r) : g.hasR /\ x.value = g.bps /\ x.name = R
    BY DEF gauge, ToSet
  <2> QED BY <1>5, <2>1 DEF Truthful
<1>9. ToSet(a \o b \o r) = ToSet(a) \cup ToSet(b) \cup ToSet(r)
  <2> DEFINE T == [name : {"nsr_session_active", B, R}, help : {"nsr_session_active", B, R},
                   type : {"Gauge"}, labels : {l}, value : Nat]
  <2>1. a \in Seq(T) /\ b \in Seq(T) /\ r \in Seq(T)
    <3>1. g.n \in Nat /\ g.bytes \in Nat /\ g.bps \in Nat
      BY DEF Group
    <3>2. \A v \in Nat : \A name \in {"nsr_session_active", B, R} : gauge(name, v, l) \in Seq(T)
      BY DEF gauge
    <3>3. <<>> \in Seq(T)
      OBVIOUS
    <3> HIDE DEF T, l
    <3> QED BY <3>1, <3>2, <3>3
  <2> HIDE DEF a, b, r, T
  <2>2. a \o b \in Seq(T) /\ ToSet(a \o b) = ToSet(a) \cup ToSet(b)
    BY <2>1, ConcatRange
  <2> DEFINE p == a \o b
  <2>3. p \in Seq(T) /\ ToSet(p) = ToSet(a) \cup ToSet(b)
    BY <2>2
  <2> HIDE DEF p
  <2>4. ToSet(p \o r) = ToSet(p) \cup ToSet(r)
    BY <2>1, <2>3, ConcatRange
  <2> QED BY <2>3, <2>4 DEF p
<1> HIDE DEF a, b, r
<1> QED BY <1>1, <1>6, <1>7, <1>8, <1>9 DEF Truthful

LEMMA SessionsTruthful ==
  ASSUME NEW items \in Seq(Item["sessions"]), NEW new \in sessionEmissions(items)
  PROVE  Truthful(new, items)
<1> DEFINE acc == FoldLeft(addSession, SessionStart, items)
           emit(k) == groupSamples(k, acc.groups[k])
           q == [n \in 1..Len(acc.order) |-> groupSamples(acc.order[n], acc.groups[acc.order[n]])]
           A == "nsr_active_sessions"
<1>1. acc \in Grouped /\ \A x \in DOMAIN acc.groups : RealGroup(acc.groups[x], items)
  BY GroupsReal
<1>2. PICK rest \in totals(A, "session_type", acc.byMode) : new = each(acc.order, emit) \o rest
  BY DEF sessionEmissions
<1>3. each(acc.order, emit) = FlattenSeq(q)
  BY DEF each
<1>4. acc.byMode \in Tally(GoodValue)
  BY <1>1 DEF Grouped
<1>5. rest \in Batch({A}) /\ Truthful(rest, items)
  <2>1. A \in CatalogGauges \ CycleMetric /\ keysOf(A) = {"session_type"}
    BY DEF keysOf, CatalogGauges, CycleMetric, upName, durationName, guardMetric
  <2>2. "session_type" \in LabelKey
    BY DEF LabelKey
  <2> HIDE DEF acc
  <2> QED BY <1>2, <1>4, <2>1, <2>2, TotalsBatch, TotalsTruthful
<1> DEFINE c == Len(acc.order)
           T == Seq(Emitted)
<1>6. /\ c \in Nat
      /\ \A n \in 1..c : /\ acc.order[n] \in SessionKey
                        /\ acc.order[n] \in DOMAIN acc.groups
                        /\ acc.groups[acc.order[n]] \in Group
  <2> HIDE DEF acc
  <2>1. /\ acc.order \in Seq(SessionKey) /\ acc.groups \in [DOMAIN acc.groups -> Group]
        /\ {acc.order[n] : n \in 1..Len(acc.order)} = DOMAIN acc.groups
    BY <1>1 DEF Grouped
  <2> QED BY <2>1
<1>7. \A n \in 1..c : q[n] = groupSamples(acc.order[n], acc.groups[acc.order[n]])
  OBVIOUS
<1>8. q = [n \in 1..c |-> q[n]]
  OBVIOUS
<1> HIDE DEF acc, q, c
<1>9. \A n \in 1..c : q[n] \in T /\ Truthful(q[n], items)
  BY <1>1, <1>6, <1>7, GroupBatches, GroupTruthful DEF Batch
<1>10. q \in Seq(T) /\ Len(q) = c
  <2>1. q \in [1..c -> T]
    BY <1>8, <1>9
  <2> HIDE DEF T
  <2> QED BY <1>6, <2>1, FunctionIsSequence
<1>11. /\ FlattenSeq(q) \in Seq(Emitted)
       /\ ToSet(FlattenSeq(q)) = UNION {ToSet(q[n]) : n \in 1..c}
  BY <1>10, FlattenOf
<1>12. Truthful(FlattenSeq(q), items)
  BY <1>9, <1>11 DEF Truthful
<1> DEFINE p == FlattenSeq(q)
<1>13. p \in Seq(Emitted) /\ Truthful(p, items) /\ new = p \o rest
  BY <1>2, <1>3, <1>11, <1>12
<1> HIDE DEF p
<1>14. rest \in Seq(Emitted)
  BY <1>5 DEF Batch
<1> QED BY <1>5, <1>13, <1>14, ConcatTruthful

LEMMA EmissionsTruthful ==
  ASSUME NEW q \in DOMAIN Item, NEW items \in Seq(Item[q]), NEW new \in Emissions(q, items)
  PROVE  Truthful(new, items)
<1>0. /\ Len(items) \in Nat /\ DOMAIN items = 1..Len(items)
      /\ \A n \in 1..Len(items) : items[n] \in Item[q]
  OBVIOUS
<1>1. CASE q = "alerts"
  BY <1>1, AlertsTruthful
<1>2. CASE q = "sessions"
  <2>1. new \in sessionEmissions(items)
    BY <1>2 DEF Emissions
  <2> QED BY <1>2, <2>1, SessionsTruthful
<1>3. CASE q = "clients"
  <2> DEFINE e == [n \in 1..Len(items) |-> clientSamples(items[n])]
  <2>1. new = FlattenSeq(e)
    BY <1>3 DEF Emissions, each
  <2>2. \A n \in 1..Len(items) : (\E N : e[n] \in Batch(N)) /\ Candid(e[n], items[n])
    BY <1>0, <1>3, ClientBatch, ClientCandid
  <2>3. e = [n \in 1..Len(items) |-> e[n]]
    OBVIOUS
  <2> HIDE DEF e
  <2> QED BY <1>0, <2>1, <2>2, <2>3, ItemsTruthful
<1>4. CASE q = "volumes"
  <2> DEFINE e == [n \in 1..Len(items) |-> volumeSamples(items[n])]
  <2>1. new = FlattenSeq(e)
    BY <1>4 DEF Emissions, each
  <2>2. \A n \in 1..Len(items) : (\E N : e[n] \in Batch(N)) /\ Candid(e[n], items[n])
    BY <1>0, <1>4, VolumeBatch, VolumeCandid
  <2>3. e = [n \in 1..Len(items) |-> e[n]]
    OBVIOUS
  <2> HIDE DEF e
  <2> QED BY <1>0, <2>1, <2>2, <2>3, ItemsTruthful
<1>5. CASE q = "datadomainsystems"
  <2> DEFINE e == [n \in 1..Len(items) |-> datadomainSamples(items[n])]
  <2>1. new = FlattenSeq(e)
    BY <1>5 DEF Emissions, each
  <2>2. \A n \in 1..Len(items) : (\E N : e[n] \in Batch(N)) /\ Candid(e[n], items[n])
    BY <1>0, <1>5, DataDomainBatch, DataDomainCandid
  <2>3. e = [n \in 1..Len(items) |-> e[n]]
    OBVIOUS
  <2> HIDE DEF e
  <2> QED BY <1>0, <2>1, <2>2, <2>3, ItemsTruthful
<1>6. CASE q = "devices"
  <2> DEFINE e == [n \in 1..Len(items) |-> deviceSamples(items[n])]
  <2>1. new = FlattenSeq(e)
    BY <1>6 DEF Emissions, each
  <2>2. \A n \in 1..Len(items) : (\E N : e[n] \in Batch(N)) /\ Candid(e[n], items[n])
    BY <1>0, <1>6, DeviceBatch, InfoCandid
  <2>3. e = [n \in 1..Len(items) |-> e[n]]
    OBVIOUS
  <2> HIDE DEF e
  <2> QED BY <1>0, <2>1, <2>2, <2>3, ItemsTruthful
<1>7. CASE q = "storagenodes"
  <2> DEFINE e == [n \in 1..Len(items) |-> storageNodeSamples(items[n])]
  <2>1. new = FlattenSeq(e)
    BY <1>7 DEF Emissions, each
  <2>2. \A n \in 1..Len(items) : (\E N : e[n] \in Batch(N)) /\ Candid(e[n], items[n])
    BY <1>0, <1>7, StorageNodeBatch, StorageNodeCandid
  <2>3. e = [n \in 1..Len(items) |-> e[n]]
    OBVIOUS
  <2> HIDE DEF e
  <2> QED BY <1>0, <2>1, <2>2, <2>3, ItemsTruthful
<1>8. CASE q = "pools"
  <2> DEFINE e == [n \in 1..Len(items) |-> poolSamples(items[n])]
  <2>1. new = FlattenSeq(e)
    BY <1>8 DEF Emissions, each
  <2>2. \A n \in 1..Len(items) : (\E N : e[n] \in Batch(N)) /\ Candid(e[n], items[n])
    BY <1>0, <1>8, PoolBatch, InfoCandid
  <2>3. e = [n \in 1..Len(items) |-> e[n]]
    OBVIOUS
  <2> HIDE DEF e
  <2> QED BY <1>0, <2>1, <2>2, <2>3, ItemsTruthful
<1>9. CASE q = "vcenters"
  <2> DEFINE e == [n \in 1..Len(items) |-> vcenterSamples(items[n])]
  <2>1. new = FlattenSeq(e)
    BY <1>9 DEF Emissions, each
  <2>2. \A n \in 1..Len(items) : (\E N : e[n] \in Batch(N)) /\ Candid(e[n], items[n])
    BY <1>0, <1>9, VCenterBatch, InfoCandid
  <2>3. e = [n \in 1..Len(items) |-> e[n]]
    OBVIOUS
  <2> HIDE DEF e
  <2> QED BY <1>0, <2>1, <2>2, <2>3, ItemsTruthful
<1>10. CASE q = "protectionpolicies"
  <2> DEFINE e == [n \in 1..Len(items) |-> policySamples(items[n])]
  <2>1. new = FlattenSeq(e)
    BY <1>10 DEF Emissions, each
  <2>2. \A n \in 1..Len(items) : (\E N : e[n] \in Batch(N)) /\ Candid(e[n], items[n])
    BY <1>0, <1>10, PolicyBatch, InfoCandid
  <2>3. e = [n \in 1..Len(items) |-> e[n]]
    OBVIOUS
  <2> HIDE DEF e
  <2> QED BY <1>0, <2>1, <2>2, <2>3, ItemsTruthful
<1>11. CASE q = "protectiongroups"
  <2> DEFINE e == [n \in 1..Len(items) |-> groupInfo(items[n])]
  <2>1. new = FlattenSeq(e)
    BY <1>11 DEF Emissions, each
  <2>2. \A n \in 1..Len(items) : (\E N : e[n] \in Batch(N)) /\ Candid(e[n], items[n])
    BY <1>0, <1>11, GroupBatch, InfoCandid
  <2>3. e = [n \in 1..Len(items) |-> e[n]]
    OBVIOUS
  <2> HIDE DEF e
  <2> QED BY <1>0, <2>1, <2>2, <2>3, ItemsTruthful
<1>12. CASE q = "serverstatistics"
  <2> DEFINE e == [n \in 1..Len(items) |-> statisticsSamples(items[n])]
  <2>1. new = FlattenSeq(e)
    BY <1>12 DEF Emissions, each
  <2>2. \A n \in 1..Len(items) : (\E N : e[n] \in Batch(N)) /\ Candid(e[n], items[n])
    BY <1>0, <1>12, StatisticsBatch, StatisticsCandid
  <2>3. e = [n \in 1..Len(items) |-> e[n]]
    OBVIOUS
  <2> HIDE DEF e
  <2> QED BY <1>0, <2>1, <2>2, <2>3, ItemsTruthful
<1>13. CASE q = "jobs"
  <2> DEFINE e == [n \in 1..Len(items) |-> jobSamples(items[n])]
  <2>1. new = FlattenSeq(e)
    BY <1>13 DEF Emissions, each
  <2>2. \A n \in 1..Len(items) : (\E N : e[n] \in Batch(N)) /\ Candid(e[n], items[n])
    BY <1>0, <1>13, JobBatch, JobCandid
  <2>3. e = [n \in 1..Len(items) |-> e[n]]
    OBVIOUS
  <2> HIDE DEF e
  <2> QED BY <1>0, <2>1, <2>2, <2>3, ItemsTruthful
<1>14. q \in {"alerts", "sessions", "clients", "volumes", "datadomainsystems", "devices",
              "storagenodes", "pools", "vcenters", "protectionpolicies", "protectiongroups",
              "serverstatistics", "jobs"}
  BY DEF Item
<1> QED
  BY <1>1, <1>2, <1>3, <1>4, <1>5, <1>6, <1>7, <1>8, <1>9, <1>10, <1>11, <1>12, <1>13, <1>14

(* A map of maxima has a zero only where a save set has one. *)
LEMMA SizeSent ==
  ASSUME IInv, NEW bk \in Seen, Sized(bk), size(bk) = 0,
         NEW name \in DOMAIN readFrom, readFrom[name] = "size"
  PROVE  ZeroSent(name, answer)
<1>1. PICK n \in 1..i : bk = answer[n]
  BY DEF Seen
<1>2. n \in DOMAIN answer /\ bk \in Backup
  BY <1>1 DEF IInv
<1>3. Bytes(bk.size) = Reading(0)
  BY ZeroReadings DEF Sized, size
<1>4. "size" \in DOMAIN bk
  BY <1>2 DEF Backup
<1>5. "size" \in SizeField
  BY DEF SizeField
<1>6. sendsZero(answer[n], "size")
  BY <1>1, <1>3, <1>4, <1>5 DEF sendsZero
<1> QED BY <1>2, <1>6 DEF ZeroSent

LEMMA SizingTruthful ==
  ASSUME IInv, NEW new \in sizingEmissions(fullMax, incrMax, retMax, jobBest)
  PROVE  Truthful(new, answer)
<1> DEFINE F == "nsr_backup_source_size_bytes"
           C == "nsr_backup_change_size_bytes"
           R == "nsr_backup_retention_seconds"
           P == "nsr_job_bytes_per_second"
<1>1. PICK f \in sizeOrders(F, "Full", fullMax), c \in sizeOrders(C, "Incr", incrMax),
           r \in retentionOrders(retMax), j \in jobOrders(jobBest) :
        new = f \o c \o r \o j
  BY DEF sizingEmissions
<1>2. /\ MapOf(fullMax, Nat) /\ MapOf(incrMax, Nat) /\ MapOf(retMax, Nat)
      /\ MapOf(jobBest, Throughput)
  BY MapsTyped
<1>3. /\ readFrom[F] = "size" /\ readFrom[C] = "size" /\ readFrom[P] = "size"
      /\ F \in DOMAIN readFrom /\ C \in DOMAIN readFrom /\ P \in DOMAIN readFrom
  BY DEF readFrom
<1>4. Truthful(f, answer) /\ f \in Seq(Emitted)
  <2> DEFINE g(k) == gauge(F, fullMax[k], <<lbl("client", k), lbl("saveset_name", k),
                                            lbl("level", "Full")>>)
  <2>1. f \in Batch({F}) /\ ToSet(f) = UNION {ToSet(g(k)) : k \in DOMAIN fullMax}
    BY <1>1, <1>2, SizeOrdersBatch
  <2>2. \A k \in DOMAIN fullMax : \A x \in ToSet(g(k)) : x.name = F /\ x.value = fullMax[k]
    BY DEF gauge, ToSet
  <2>3. ASSUME NEW k \in DOMAIN fullMax, fullMax[k] = 0
        PROVE  ZeroSent(F, answer)
    <3>1. PICK bk \in Seen : Full(bk) /\ size(bk) = fullMax[k]
      BY DEF IInv, Maxima, Best
    <3> QED BY <1>3, <2>3, <3>1, SizeSent DEF Full
  <2> HIDE DEF g
  <2> QED BY <2>1, <2>2, <2>3 DEF Truthful, Batch
<1>5. Truthful(c, answer) /\ c \in Seq(Emitted)
  <2> DEFINE g(k) == gauge(C, incrMax[k], <<lbl("client", k), lbl("saveset_name", k),
                                            lbl("level", "Incr")>>)
  <2>1. c \in Batch({C}) /\ ToSet(c) = UNION {ToSet(g(k)) : k \in DOMAIN incrMax}
    BY <1>1, <1>2, SizeOrdersBatch
  <2>2. \A k \in DOMAIN incrMax : \A x \in ToSet(g(k)) : x.name = C /\ x.value = incrMax[k]
    BY DEF gauge, ToSet
  <2>3. ASSUME NEW k \in DOMAIN incrMax, incrMax[k] = 0
        PROVE  ZeroSent(C, answer)
    <3>1. PICK bk \in Seen : Incr(bk) /\ size(bk) = incrMax[k]
      BY DEF IInv, Maxima, Best
    <3> QED BY <1>3, <2>3, <3>1, SizeSent DEF Incr
  <2> HIDE DEF g
  <2> QED BY <2>1, <2>2, <2>3 DEF Truthful, Batch
<1>6. Truthful(r, answer) /\ r \in Seq(Emitted)
  <2> DEFINE g(k) == gauge(R, retMax[k], <<lbl("client", k), lbl("saveset_name", k)>>)
  <2>1. r \in Batch({R}) /\ ToSet(r) = UNION {ToSet(g(k)) : k \in DOMAIN retMax}
    BY <1>1, <1>2, RetentionOrdersBatch
  <2>2. \A k \in DOMAIN retMax : \A x \in ToSet(g(k)) : x.value = retMax[k]
    BY DEF gauge, ToSet
  <2>3. ASSUME NEW k \in DOMAIN retMax
        PROVE  retMax[k] # 0
    <3>1. PICK bk \in Seen : Retained(bk) /\ retention(bk) = retMax[k]
      BY DEF IInv, Maxima, Best
    <3>2. bk \in Backup
      BY DEF IInv, Seen
    <3>3. bk.saveTime \in Nat \cup {Absent} /\ bk.retentionTime \in Nat \cup {Absent}
      BY <3>2, QuantityAssumption DEF Backup, Time
    <3>4. retention(bk) # 0
      BY <3>1, <3>3 DEF Retained, retention, parseTime, NoReading
    <3> QED BY <3>1, <3>4
  <2> HIDE DEF g
  <2> QED BY <2>1, <2>2, <2>3 DEF Truthful, Batch
<1>7. Truthful(j, answer) /\ j \in Seq(Emitted)
  <2>1. j \in Batch(JobMetric) /\ ToSet(j) = UNION {ToSet(jobGauges(k, jobBest[k])) : k \in DOMAIN jobBest}
    BY <1>1, <1>2, JobOrdersBatch
  <2>2. ASSUME NEW k \in DOMAIN jobBest, NEW x \in ToSet(jobGauges(k, jobBest[k])), x.value = 0
        PROVE  ZeroSent(x.name, answer)
    <3> DEFINE v == jobBest[k]
               l == <<lbl("client", k), lbl("job_name", k)>>
               D == "nsr_job_duration_seconds"
               s == [name |-> D, help |-> D, type |-> "Gauge", labels |-> l, value |-> v.dur]
               t == [name |-> P, help |-> P, type |-> "Gauge", labels |-> l,
                     value |-> perMille(v)]
    <3>1. PICK bk \in Seen : Timed(bk) /\ job(bk) = v
      BY DEF IInv, FastestInstance, Best
    <3>2. v \in Throughput
      BY <1>2 DEF MapOf
    <3>3. v.dur # 0 /\ (perMille(v) = 0 => v.size = 0)
      BY <3>2, PerMilleType DEF Throughput
    <3>4. v.size = size(bk)
      BY <3>1 DEF job
    <3>5. jobGauges(k, v) = <<s>> \o <<t>>
      BY DEF jobGauges, gauge
    <3>6. s.value = v.dur /\ t.value = perMille(v) /\ t.name = P
      OBVIOUS
    <3> HIDE DEF s, t
    <3>7. ToSet(<<s>> \o <<t>>) = {s, t}
      BY DEF ToSet
    <3>8. x = t /\ perMille(v) = 0
      BY <2>2, <3>3, <3>5, <3>6, <3>7
    <3>9. Sized(bk) /\ size(bk) = 0
      BY <3>1, <3>3, <3>4, <3>8 DEF Timed
    <3> QED BY <1>3, <3>6, <3>8, <3>9, SizeSent
  <2> QED BY <2>1, <2>2 DEF Truthful, Batch
<1>8. f \o c \in Seq(Emitted) /\ Truthful(f \o c, answer)
  BY <1>4, <1>5, ConcatTruthful
<1> DEFINE a == f \o c
<1>9. a \in Seq(Emitted) /\ Truthful(a, answer)
  BY <1>8
<1> HIDE DEF a
<1>10. a \o r \in Seq(Emitted) /\ Truthful(a \o r, answer)
  BY <1>6, <1>9, ConcatTruthful
<1> DEFINE b == a \o r
<1>11. b \in Seq(Emitted) /\ Truthful(b, answer)
  BY <1>10
<1> HIDE DEF b
<1>12. Truthful(b \o j, answer)
  BY <1>7, <1>11, ConcatTruthful
<1> QED BY <1>1, <1>12 DEF a, b

-----------------------------------------------------------------------------
(* Each sample that is zero is one of a zero that the server sends. *)
Earned(p, held) ==
  \A x \in ToSet(p) : x.value = 0 => \E q \in Request : ZeroSent(x.name, held[q])

(* Of what is already contributed and of what is being built. *)
TruthInv == Earned(out, server) /\ Earned(samples, server)

LEMMA ConcatEarned ==
  ASSUME NEW held, NEW p \in Seq(Emitted), NEW t \in Seq(Emitted), Earned(p, held), Earned(t, held)
  PROVE  Earned(p \o t, held)
BY ConcatRange DEF Earned

LEMMA EmptyEarned == \A held : Earned(<<>>, held)
BY DEF Earned, ToSet

LEMMA SucceedsTruth == CycleInv /\ TruthInv /\ Succeeds => TruthInv'
<1> SUFFICES ASSUME CycleInv, TruthInv, Succeeds PROVE TruthInv'
  OBVIOUS
<1> DEFINE q == query
<1>1. rc \in 1..11 /\ asked + 1 \in 1..Len(Collectors[rc])
  <2> DEFINE n == Len(Collectors[rc])
  <2>1. rc \in 1..11 /\ asked < n /\ asked \in 0..2
    BY SentOnce DEF CycleInv, Succeeds, Asking, Returned
  <2>2. n = 1 \/ n = 2
    BY <2>1, SentOnce
  <2> HIDE DEF n
  <2>3. asked + 1 \in 1..n
    BY <2>1, <2>2
  <2> QED BY <2>1, <2>3 DEF n
<1>2. q \in DOMAIN Item \cup {"backups"} /\ q \in Request
  <2>1. q = Collectors[rc][asked + 1]
    BY DEF query
  <2>2. q \in ToSet(Collectors[rc]) /\ rc \in DOMAIN Collectors
    BY <1>1, <2>1, SentOnce DEF ToSet
  <2> QED BY <1>1, <2>1, <2>2, SentOnce, ZenonT(60) DEF Request
<1> HIDE DEF q
<1>3. out \in Seq(Emitted) /\ Earned(out, server)
  BY DEF CycleInv, Batch, TruthInv
<1>4. Earned(out', server)
  <2>1. CASE q = "backups"
    <3>1. out' = out \o <<>>
      BY <2>1 DEF Succeeds, q
    <3> QED BY <1>3, <3>1
  <2>2. CASE q \in DOMAIN Item /\ q # "backups"
    <3>1. server[q] \in Seq(Item[q]) /\ (q = "serverstatistics" => Len(server[q]) = 1)
      BY <2>2, ServerAssumption DEF CycleInv
    <3>2. Sent(q, server[q]) = server[q]
      BY <2>2, <3>1, SentComplete
    <3>3. PICK new \in Emissions(q, server[q]) : out' = out \o new
      BY <2>2, <3>2 DEF Succeeds, q
    <3>4. new \in Seq(Emitted)
      BY <2>2, <3>1, <3>3, EmissionsBatch DEF Batch
    <3>5. Truthful(new, server[q])
      BY <2>2, <3>1, <3>3, EmissionsTruthful
    <3>6. Earned(new, server)
      BY <1>2, <3>5 DEF Truthful, Earned
    <3> QED BY <1>3, <3>3, <3>4, <3>6, ConcatEarned
  <2>3. "backups" \notin DOMAIN Item
    BY DEF Item
  <2> QED BY <1>2, <2>1, <2>2, <2>3
<1> QED BY <1>4 DEF Succeeds, TruthInv

LEMMA ReturnsTruth == IInv /\ CycleInv /\ TruthInv /\ Returns => TruthInv'
<1> SUFFICES ASSUME IInv, CycleInv, TruthInv, Returns PROVE TruthInv'
  OBVIOUS
<1>1. samples \in Seq(Emitted) /\ out \in Seq(Emitted)
  BY DEF CycleInv, Batch
<1>2. Earned(samples', server)
  <2>1. CASE Collectors[rc] = <<"backups">>
    <3>1. PICK new \in sizingEmissions(fullMax, incrMax, retMax, jobBest) :
            samples' = samples \o new
      BY <2>1 DEF Returns
    <3>2. new \in Seq(Emitted)
      BY <3>1, SizingBatch DEF Batch
    <3>3. Truthful(new, server["backups"])
      BY <3>1, SizingTruthful DEF CycleInv
    <3>4. "backups" \in Request
      <4>1. rc \in 1..11
        BY SentOnce DEF CycleInv, Returns, Answered, Returned
      <4>2. "backups" \in ToSet(Collectors[rc]) /\ rc \in DOMAIN Collectors
        BY <2>1, <4>1, SentOnce DEF ToSet
      <4> QED BY <4>2 DEF Request
    <3>5. Earned(new, server)
      BY <3>3, <3>4 DEF Truthful, Earned
    <3> QED BY <1>1, <3>1, <3>2, <3>5, ConcatEarned DEF TruthInv
  <2>2. CASE Collectors[rc] # <<"backups">>
    <3>1. samples' = samples \o out
      BY <2>2 DEF Returns
    <3> QED BY <1>1, <3>1, ConcatEarned DEF TruthInv
  <2> QED BY <2>1, <2>2
<1>3. out' = <<>> /\ server' = server
  BY DEF Returns, NextCollector
<1> QED BY <1>2, <1>3, EmptyEarned DEF TruthInv

LEMMA TruthInvariant == CollectSpec => [](CycleInv /\ TruthInv)
<1>1. CollectInit => TruthInv
  BY EmptyEarned DEF CollectInit, TruthInv
<1>2. IInv /\ CycleInv /\ TruthInv /\ [CollectNext]_allVars => TruthInv'
  <2> SUFFICES ASSUME IInv, CycleInv, TruthInv, [CollectNext]_allVars PROVE TruthInv'
    OBVIOUS
  <2>1. CASE Succeeds
    BY <2>1, SucceedsTruth
  <2>2. CASE Fails
    BY <2>2, EmptyEarned DEF Fails, NextCollector, TruthInv
  <2>3. CASE Folds
    BY <2>3 DEF Folds, TruthInv
  <2>4. CASE Returns
    BY <2>4, ReturnsTruth
  <2>5. CASE UNCHANGED allVars
    BY <2>5 DEF allVars, TruthInv
  <2> QED BY <2>1, <2>2, <2>3, <2>4, <2>5 DEF CollectNext
<1> QED BY <1>1, <1>2, CycleInvariant, PTL DEF CollectSpec

(* Whatever a server holds, and whichever requests fail, a sample is zero  *)
(* only if the field that its metric is read from was sent, and reads as   *)
(* zero: no field left out, and nothing unreadable, counted, timed or      *)
(* rounded, becomes one (ADR-0008, sizing.go:52-83, sessions.go:47-91).    *)
(* Two exceptions: a size that is sent as an object without a value reads  *)
(* as zero (quantity.go:12-14), and a policy's flag, which is no quantity, *)
(* is zero when none of its workflows is enabled (policies.go:55-70).      *)
THEOREM NoFalseZeroAlways == CollectSpec => []NoFalseZero
<1>1. CycleInv /\ TruthInv => NoFalseZero
  <2> SUFFICES ASSUME CycleInv, TruthInv, NEW n \in DOMAIN samples, samples[n].value = 0
               PROVE  \E q \in Request : ZeroSent(samples[n].name, server[q])
    BY DEF NoFalseZero
  <2>1. samples[n] \in ToSet(samples)
    BY DEF CycleInv, Batch, ToSet
  <2> QED BY <2>1 DEF TruthInv, Earned
<1> QED BY <1>1, TruthInvariant, PTL

-----------------------------------------------------------------------------
(* What the folds count. *)

entry(m, x) == IF x \in DOMAIN m THEN m[x] ELSE 0
With(key, x) == {m \in DOMAIN key : key[m] = x}

LEMMA TallyCounts ==
  ASSUME NEW S, NEW n \in Nat, NEW key \in [1..n -> S], NEW f,
         f[0] = NoEntries, \A k \in 0..(n - 1) : f[k + 1] = increment(f[k], key[k + 1])
  PROVE  /\ DOMAIN f[n] = {key[m] : m \in 1..n}
         /\ \A x \in DOMAIN f[n] : f[n][x] = Cardinality(With(key, x))
<1> DEFINE Counted(c) == /\ f[c] \in Tally(S)
                         /\ DOMAIN f[c] = {key[m] : m \in 1..c}
                         /\ \A x \in S : entry(f[c], x) = Cardinality(Upto(With(key, x), c))
           D == {c \in 0..n : Counted(c)}
<1>1. 0 \in D
  <2>1. f[0] \in Tally(S) /\ DOMAIN f[0] = {} /\ 1..0 = {} /\ 0 \in 0..n
    BY EmptyTally DEF NoEntries
  <2>2. \A x \in S : entry(f[0], x) = 0 /\ Cardinality(Upto(With(key, x), 0)) = 0
    BY <2>1, CountNext DEF entry
  <2> QED BY <2>1, <2>2
<1>2. ASSUME NEW c \in 0..(n - 1), c \in D PROVE c + 1 \in D
  <2> DEFINE m == f[c]
             k == key[c + 1]
             new == f[c + 1]
  <2>1. c \in Nat /\ c + 1 \in 1..n /\ c + 1 \in 0..n /\ c \in 0..n /\ k \in S
    OBVIOUS
  <2>2. Counted(c)
    BY <1>2
  <2>3. /\ new \in Tally(S)
        /\ DOMAIN new = DOMAIN m \cup {k}
        /\ \A x \in DOMAIN m \cup {k} :
             new[x] = IF x # k THEN m[x] ELSE IF k \in DOMAIN m THEN m[k] + 1 ELSE 1
    <3>1. new = increment(m, k)
      OBVIOUS
    <3>2. m \in Tally(S)
      BY <2>2
    <3>3. k \in S
      BY <2>1
    <3> HIDE DEF m, k, new
    <3>4. increment(m, k) \in Tally(S)
      BY <3>2, <3>3, IncrementFacts
    <3>5. increment(m, k) = [x \in DOMAIN m \cup {k} |->
                              IF x # k THEN m[x] ELSE IF k \in DOMAIN m THEN m[k] + 1 ELSE 1]
      BY DEF increment, put
    <3> QED BY <3>1, <3>4, <3>5
  <2>4. DOMAIN new = {key[j] : j \in 1..(c + 1)}
    <3>1. 1..(c + 1) = 1..c \cup {c + 1}
      BY <2>1
    <3>2. DOMAIN m = {key[j] : j \in 1..c}
      BY <2>2
    <3>3. {key[j] : j \in 1..(c + 1)} = {key[j] : j \in 1..c} \cup {k}
      <4> DEFINE I == 1..c
                 J == 1..(c + 1)
                 l == c + 1
      <4>1. J = I \cup {l}
        BY <3>1
      <4> HIDE DEF I, J, l
      <4>2. {key[j] : j \in J} = {key[j] : j \in I} \cup {key[l]}
        BY <4>1
      <4> QED BY <4>2 DEF I, J, l
    <3> HIDE DEF m, k, new
    <3> QED BY <2>3, <3>2, <3>3
  <2>5. ASSUME NEW x \in S PROVE entry(new, x) = Cardinality(Upto(With(key, x), c + 1))
    <3>1. entry(m, x) = Cardinality(Upto(With(key, x), c))
      BY <2>2
    <3>2. entry(new, x) = entry(m, x) + (IF x = k THEN 1 ELSE 0)
      <4>1. entry(m, x) \in Nat
        BY <2>1, <3>1, UptoNext
      <4> HIDE DEF m, k, new
      <4> QED BY <2>3, <4>1 DEF entry
    <3>3. c + 1 \in With(key, x) <=> x = k
      BY <2>1 DEF With
    <3> HIDE DEF m, k, new
    <3> QED BY <2>1, <3>1, <3>2, <3>3, CountNext
  <2>6. Counted(c + 1)
    BY <2>3, <2>4, <2>5
  <2> HIDE DEF Counted
  <2> QED BY <2>1, <2>6
<1>3. Counted(n)
  <2>1. \A c \in 0..n : c \in D
    <3> HIDE DEF D
    <3> QED BY <1>1, <1>2, IntervalInduction
  <2> HIDE DEF Counted
  <2> QED BY <2>1
<1>4. \A x : Upto(With(key, x), n) = With(key, x)
  BY DEF Upto, With
<1>5. \A x \in DOMAIN f[n] : x \in S
  BY <1>3
<1> QED BY <1>3, <1>4, <1>5 DEF entry

-----------------------------------------------------------------------------
(* The sessions of a mode and client, and what can be read of them. *)
ofKey(items, k) == {m \in DOMAIN items : keyOf(items[m]) = k}
sized(items, k) == {m \in ofKey(items, k) : Bytes(items[m].size).ok}
rated(items, k) == {m \in ofKey(items, k) : Bytes(items[m].transferRate).ok}
sizes(items) == [m \in DOMAIN items |-> Bytes(items[m].size).value]
rates(items) == [m \in DOMAIN items |-> Bytes(items[m].transferRate).value]

(* What a group says of the first c sessions. *)
GroupSums(g, items, k, c) ==
  /\ g.n = Cardinality(Upto(ofKey(items, k), c))
  /\ g.bytes = SumFunctionOnSet(sizes(items), Upto(sized(items, k), c))
  /\ g.bps = SumFunctionOnSet(rates(items), Upto(rated(items, k), c))
  /\ g.hasB = (Upto(sized(items, k), c) # {})
  /\ g.hasR = (Upto(rated(items, k), c) # {})

LEMMA SessionReadings ==
  ASSUME NEW items \in Seq(Item["sessions"])
  PROVE  /\ Len(items) \in Nat /\ DOMAIN items = 1..Len(items)
         /\ \A m \in DOMAIN items :
              /\ items[m] \in Item["sessions"]
              /\ sizes(items)[m] = Bytes(items[m].size).value
              /\ rates(items)[m] = Bytes(items[m].transferRate).value
              /\ sizes(items)[m] \in Nat /\ rates(items)[m] \in Nat
              /\ Bytes(items[m].size).ok \in BOOLEAN /\ Bytes(items[m].transferRate).ok \in BOOLEAN
              /\ ~ Bytes(items[m].size).ok => sizes(items)[m] = 0
              /\ ~ Bytes(items[m].transferRate).ok => rates(items)[m] = 0
<1>1. Len(items) \in Nat /\ DOMAIN items = 1..Len(items)
  OBVIOUS
<1>2. ASSUME NEW m \in DOMAIN items
      PROVE  /\ items[m] \in Item["sessions"]
             /\ items[m].size \in Size /\ items[m].transferRate \in Size
  <2>1. items[m] \in Item["sessions"]
    OBVIOUS
  <2> QED BY <2>1, SessionFields
<1>3. \A s : ~ Bytes(s).ok => Bytes(s).value = 0
  BY DEF Bytes, Reading, NoReading
<1>4. \A m \in DOMAIN items :
        /\ sizes(items)[m] = Bytes(items[m].size).value
        /\ rates(items)[m] = Bytes(items[m].transferRate).value
  BY DEF sizes, rates
<1> QED BY <1>1, <1>2, <1>3, <1>4, SizeReading

LEMMA NoneSummed ==
  ASSUME NEW items \in Seq(Item["sessions"]), NEW k
  PROVE  GroupSums(NoSession, items, k, 0)
<1>1. /\ Cardinality(Upto(ofKey(items, k), 0)) = 0
      /\ Upto(sized(items, k), 0) = {} /\ Upto(rated(items, k), 0) = {}
  BY CountNext, UptoNext
<1>2. SumFunctionOnSet(sizes(items), {}) = 0 /\ SumFunctionOnSet(rates(items), {}) = 0
  BY SumAdds, FS_EmptySet
<1> QED BY <1>1, <1>2 DEF GroupSums, NoSession

LEMMA JoinedSums ==
  ASSUME NEW items \in Seq(Item["sessions"]), NEW k, NEW c \in 0..(Len(items) - 1), NEW g,
         GroupSums(g, items, k, c), keyOf(items[c + 1]) = k
  PROVE  GroupSums(joined(g, items[c + 1]), items, k, c + 1)
<1> DEFINE l == c + 1
           s == items[l]
           A == ofKey(items, k)
           B == sized(items, k)
           R == rated(items, k)
<1>1. l \in DOMAIN items /\ c \in Nat
  OBVIOUS
<1>2. l \in A /\ (l \in B <=> Bytes(s.size).ok) /\ (l \in R <=> Bytes(s.transferRate).ok)
  BY <1>1 DEF ofKey, sized, rated
<1>3. /\ \A x \in B : sizes(items)[x] \in Nat
      /\ \A x \in R : rates(items)[x] \in Nat
  BY SessionReadings DEF ofKey, sized, rated
<1>4. /\ sizes(items)[l] = Bytes(s.size).value /\ rates(items)[l] = Bytes(s.transferRate).value
      /\ sizes(items)[l] \in Nat /\ rates(items)[l] \in Nat
      /\ Bytes(s.size).ok \in BOOLEAN /\ Bytes(s.transferRate).ok \in BOOLEAN
      /\ ~ Bytes(s.size).ok => sizes(items)[l] = 0
      /\ ~ Bytes(s.transferRate).ok => rates(items)[l] = 0
  BY <1>1, SessionReadings
<1>5. joined(g, s) = [n |-> g.n + 1, bytes |-> g.bytes + Bytes(s.size).value,
                      bps |-> g.bps + Bytes(s.transferRate).value,
                      hasB |-> g.hasB \/ Bytes(s.size).ok,
                      hasR |-> g.hasR \/ Bytes(s.transferRate).ok]
  BY DEF joined, BytesPerSecond
<1> HIDE DEF l, s, A, B, R
<1>6. Cardinality(Upto(A, l)) = g.n + 1
  BY <1>1, <1>2, CountNext DEF GroupSums, A, l
<1>7. SumFunctionOnSet(sizes(items), Upto(B, l)) = g.bytes + Bytes(s.size).value
  <2>1. /\ SumFunctionOnSet(sizes(items), Upto(B, c + 1))
             = SumFunctionOnSet(sizes(items), Upto(B, c))
                 + (IF c + 1 \in B THEN sizes(items)[c + 1] ELSE 0)
        /\ SumFunctionOnSet(sizes(items), Upto(B, c)) \in Nat
    BY <1>1, <1>3, SumNext
  <2>2. g.bytes = SumFunctionOnSet(sizes(items), Upto(B, c))
    BY DEF GroupSums, B
  <2> QED BY <1>2, <1>4, <2>1, <2>2 DEF l
<1>8. SumFunctionOnSet(rates(items), Upto(R, l)) = g.bps + Bytes(s.transferRate).value
  <2>1. /\ SumFunctionOnSet(rates(items), Upto(R, c + 1))
             = SumFunctionOnSet(rates(items), Upto(R, c))
                 + (IF c + 1 \in R THEN rates(items)[c + 1] ELSE 0)
        /\ SumFunctionOnSet(rates(items), Upto(R, c)) \in Nat
    BY <1>1, <1>3, SumNext
  <2>2. g.bps = SumFunctionOnSet(rates(items), Upto(R, c))
    BY DEF GroupSums, R
  <2> QED BY <1>2, <1>4, <2>1, <2>2 DEF l
<1>9. (Upto(B, l) # {}) = (g.hasB \/ Bytes(s.size).ok)
  <2>1. Upto(B, l) = IF l \in B THEN Upto(B, c) \cup {l} ELSE Upto(B, c)
    BY <1>1, UptoNext DEF l
  <2>2. g.hasB = (Upto(B, c) # {})
    BY DEF GroupSums, B
  <2> QED BY <1>2, <1>4, <2>1, <2>2
<1>10. (Upto(R, l) # {}) = (g.hasR \/ Bytes(s.transferRate).ok)
  <2>1. Upto(R, l) = IF l \in R THEN Upto(R, c) \cup {l} ELSE Upto(R, c)
    BY <1>1, UptoNext DEF l
  <2>2. g.hasR = (Upto(R, c) # {})
    BY DEF GroupSums, R
  <2> QED BY <1>2, <1>4, <2>1, <2>2
<1> DEFINE j == joined(g, s)
<1>11. /\ j.n = g.n + 1 /\ j.bytes = g.bytes + Bytes(s.size).value
       /\ j.bps = g.bps + Bytes(s.transferRate).value
       /\ j.hasB = (g.hasB \/ Bytes(s.size).ok)
       /\ j.hasR = (g.hasR \/ Bytes(s.transferRate).ok)
  BY <1>5
<1> HIDE DEF j
<1>12. GroupSums(j, items, k, l)
  BY <1>6, <1>7, <1>8, <1>9, <1>10, <1>11 DEF GroupSums, A, B, R
<1> QED BY <1>12 DEF j, s, l

LEMMA OtherSums ==
  ASSUME NEW items, NEW k, NEW c \in Nat, NEW g,
         GroupSums(g, items, k, c), keyOf(items[c + 1]) # k
  PROVE  GroupSums(g, items, k, c + 1)
<1>1. /\ c + 1 \notin ofKey(items, k) /\ c + 1 \notin sized(items, k)
      /\ c + 1 \notin rated(items, k)
  BY DEF ofKey, sized, rated
<1>2. /\ Upto(ofKey(items, k), c + 1) = Upto(ofKey(items, k), c)
      /\ Upto(sized(items, k), c + 1) = Upto(sized(items, k), c)
      /\ Upto(rated(items, k), c + 1) = Upto(rated(items, k), c)
  BY <1>1, UptoNext
<1> QED BY <1>2 DEF GroupSums

groupOf(acc, k) == IF k \in DOMAIN acc.groups THEN acc.groups[k] ELSE NoSession
modeKeys(items) == [m \in DOMAIN items |-> text(items[m].mode)]

LEMMA GroupCounts ==
  ASSUME NEW items \in Seq(Item["sessions"]), NEW acc,
         acc = FoldLeft(addSession, SessionStart, items)
  PROVE  /\ acc \in Grouped
         /\ DOMAIN acc.groups = {keyOf(items[m]) : m \in DOMAIN items}
         /\ \A k \in DOMAIN acc.groups : GroupSums(acc.groups[k], items, k, Len(items))
         /\ DOMAIN acc.byMode = {text(items[m].mode) : m \in DOMAIN items}
         /\ \A x \in DOMAIN acc.byMode :
              acc.byMode[x] = Cardinality({m \in DOMAIN items : text(items[m].mode) = x})
<1> DEFINE n == Len(items)
<1>1. n \in Nat /\ DOMAIN items = 1..n /\ \A m \in 1..n : items[m] \in Item["sessions"]
  OBVIOUS
<1>2. PICK f : /\ f \in [0..n -> Grouped]
               /\ f[0] = SessionStart
               /\ \A c \in 0..(n - 1) : f[c + 1] = addSession(f[c], items[c + 1])
               /\ acc = f[n]
  BY SessionSteps
<1> HIDE DEF n
<1>3. ASSUME NEW c \in 0..(n - 1)
      PROVE  /\ c \in 0..n /\ c + 1 \in 1..n /\ c + 1 \in 0..n /\ f[c] \in Grouped
             /\ items[c + 1] \in Item["sessions"]
             /\ f[c + 1] = addSession(f[c], items[c + 1])
  <2>1. c \in 0..n /\ c + 1 \in 1..n /\ c + 1 \in 0..n
    BY <1>1
  <2> QED BY <1>1, <1>2, <2>1
<1> DEFINE Summed(c) == /\ DOMAIN f[c].groups = {keyOf(items[m]) : m \in 1..c}
                        /\ \A k : GroupSums(groupOf(f[c], k), items, k, c)
           D == {c \in 0..n : Summed(c)}
<1>4. 0 \in D
  <2>1. DOMAIN f[0].groups = {} /\ 1..0 = {} /\ 0 \in 0..n
    BY <1>1, <1>2 DEF SessionStart, NoEntries
  <2>2. \A k : GroupSums(groupOf(f[0], k), items, k, 0)
    BY <2>1, NoneSummed DEF groupOf
  <2> QED BY <2>1, <2>2
<1>5. ASSUME NEW c \in 0..(n - 1), c \in D PROVE c + 1 \in D
  <2> DEFINE a == f[c]
             s == items[c + 1]
             k == keyOf(s)
             new == f[c + 1]
  <2>1. /\ c \in Nat /\ c + 1 \in 0..n /\ a \in Grouped /\ s \in Item["sessions"]
        /\ new = addSession(a, s)
    BY <1>3
  <2>2. Summed(c)
    BY <1>5
  <2>3. /\ DOMAIN new.groups = DOMAIN a.groups \cup {k}
        /\ \A x \in DOMAIN a.groups : x # k => new.groups[x] = a.groups[x]
        /\ new.groups[k] = joined(groupOf(a, k), s)
    <3> HIDE DEF a, s, new
    <3> QED BY <2>1, AddSessionFacts DEF groupOf
  <2>4. DOMAIN new.groups = {keyOf(items[m]) : m \in 1..(c + 1)}
    <3> DEFINE I == 1..c
               J == 1..(c + 1)
               l == c + 1
    <3>1. J = I \cup {l}
      BY <2>1
    <3> HIDE DEF I, J, l
    <3>2. {keyOf(items[m]) : m \in J} = {keyOf(items[m]) : m \in I} \cup {keyOf(items[l])}
      BY <3>1
    <3> QED BY <2>2, <2>3, <3>2 DEF I, J, l
  <2>5. ASSUME NEW x PROVE GroupSums(groupOf(new, x), items, x, c + 1)
    <3>1. GroupSums(groupOf(a, x), items, x, c)
      BY <2>2
    <3>2. CASE x = k
      <4>1. groupOf(new, x) = joined(groupOf(a, k), s)
        BY <2>3, <3>2 DEF groupOf
      <4>2. GroupSums(groupOf(a, k), items, k, c)
        BY <3>1, <3>2
      <4> DEFINE g == groupOf(a, k)
      <4> HIDE DEF g
      <4>3. c \in 0..(Len(items) - 1) /\ keyOf(items[c + 1]) = k /\ GroupSums(g, items, k, c)
        BY <4>2 DEF n, g
      <4>4. GroupSums(joined(g, items[c + 1]), items, k, c + 1)
        <5> HIDE DEF k
        <5> QED BY <4>3, JoinedSums
      <4> QED BY <3>2, <4>1, <4>4 DEF g
    <3>3. CASE x # k
      <4>1. groupOf(new, x) = groupOf(a, x)
        <5> HIDE DEF k, a, new
        <5> QED BY <2>3, <3>3 DEF groupOf
      <4>2. GroupSums(groupOf(a, x), items, x, c + 1)
        <5> DEFINE g == groupOf(a, x)
        <5> HIDE DEF g
        <5>1. GroupSums(g, items, x, c) /\ keyOf(items[c + 1]) # x
          BY <3>1, <3>3 DEF g
        <5>2. GroupSums(g, items, x, c + 1)
          BY <2>1, <5>1, OtherSums
        <5> QED BY <5>2 DEF g
      <4> QED BY <4>1, <4>2
    <3> QED BY <3>2, <3>3
  <2>6. Summed(c + 1)
    BY <2>4, <2>5
  <2> HIDE DEF Summed
  <2> QED BY <2>1, <2>6
<1>6. Summed(n)
  <2>1. \A c \in 0..n : c \in D
    <3> HIDE DEF D
    <3> QED BY <1>1, <1>4, <1>5, IntervalInduction
  <2> HIDE DEF Summed
  <2> QED BY <1>1, <2>1
<1>7. acc \in Grouped
  BY <1>1, <1>2
<1>8. DOMAIN acc.groups = {keyOf(items[m]) : m \in DOMAIN items}
  BY <1>1, <1>2, <1>6
<1>9. \A k \in DOMAIN acc.groups : GroupSums(acc.groups[k], items, k, n)
  <2> TAKE k \in DOMAIN acc.groups
  <2>1. GroupSums(groupOf(acc, k), items, k, n)
    BY <1>2, <1>6
  <2> QED BY <2>1 DEF groupOf
<1> DEFINE mode == modeKeys(items)
           h == [c \in 0..n |-> f[c].byMode]
<1>10. mode \in [1..n -> GoodValue] /\ \A m \in 1..n : mode[m] = text(items[m].mode)
  <2>1. \A m \in 1..n : keyOf(items[m]) \in SessionKey
    BY <1>1, SessionFields
  <2>2. \A m \in 1..n : text(items[m].mode) \in GoodValue
    BY <2>1 DEF keyOf, SessionKey
  <2> QED BY <1>1, <2>2 DEF modeKeys
<1>11. h[0] = NoEntries
  BY <1>1, <1>2 DEF SessionStart
<1>12. ASSUME NEW c \in 0..(n - 1) PROVE h[c + 1] = increment(h[c], mode[c + 1])
  <2>1. f[c + 1].byMode = increment(f[c].byMode, keyOf(items[c + 1]).mode)
    BY <1>3, AddSessionFacts
  <2>2. keyOf(items[c + 1]).mode = mode[c + 1]
    BY <1>3, <1>10 DEF keyOf
  <2>3. h[c + 1] = f[c + 1].byMode /\ h[c] = f[c].byMode
    BY <1>3
  <2> QED BY <2>1, <2>2, <2>3
<1>13. h[n] = acc.byMode
  BY <1>1, <1>2
<1>14. /\ DOMAIN h[n] = {mode[m] : m \in 1..n}
       /\ \A x \in DOMAIN h[n] : h[n][x] = Cardinality(With(mode, x))
  <2> HIDE DEF h, mode
  <2> QED BY <1>1, <1>10, <1>11, <1>12, TallyCounts, ZenonT(60)
<1>15. {mode[m] : m \in 1..n} = {text(items[m].mode) : m \in DOMAIN items}
  BY <1>1, <1>10
<1>16. \A x : With(mode, x) = {m \in DOMAIN items : text(items[m].mode) = x}
  BY <1>1, <1>10 DEF With
<1> HIDE DEF h, mode
<1>17. /\ DOMAIN acc.byMode = {text(items[m].mode) : m \in DOMAIN items}
       /\ \A x \in DOMAIN acc.byMode :
            acc.byMode[x] = Cardinality({m \in DOMAIN items : text(items[m].mode) = x})
  BY <1>13, <1>14, <1>15, <1>16
<1> QED BY <1>7, <1>8, <1>9, <1>17 DEF n

-----------------------------------------------------------------------------
(* The aggregates, as the samples of an emission say them. *)

gaugeOf(name, value, labels) ==
  [name |-> name, help |-> name, type |-> "Gauge", labels |-> labels, value |-> value]

(* The samples of a metric are those of a table, one for each entry. *)
Says(X, name, table, labels) ==
  {x \in X : x.name = name} = {gaugeOf(name, table[k], labels[k]) : k \in DOMAIN table}

keysIn(items) == {keyOf(items[m]) : m \in DOMAIN items}
modesIn(items) == {text(items[m].mode) : m \in DOMAIN items}
ofMode(items, x) == {m \in DOMAIN items : text(items[m].mode) = x}

activeTable(items) == [k \in keysIn(items) |-> Cardinality(ofKey(items, k))]
bytesTable(items) ==
  [k \in {k \in keysIn(items) : sized(items, k) # {}} |->
     SumFunctionOnSet(sizes(items), sized(items, k))]
rateTable(items) ==
  [k \in {k \in keysIn(items) : rated(items, k) # {}} |->
     SumFunctionOnSet(rates(items), rated(items, k))]
modeTable(items) == [x \in modesIn(items) |-> Cardinality(ofMode(items, x))]

pairLabels == [k \in SessionKey |-> groupLabels(k)]
oneLabel(key) == [x \in GoodValue |-> <<lbl(key, x)>>]

SessionsSay(X, items) ==
  /\ Says(X, "nsr_session_active", activeTable(items), pairLabels)
  /\ Says(X, "nsr_session_bytes", bytesTable(items), pairLabels)
  /\ Says(X, "nsr_session_transfer_bytes_per_second", rateTable(items), pairLabels)
  /\ Says(X, "nsr_active_sessions", modeTable(items), oneLabel("session_type"))

LEMMA SingleGauge ==
  ASSUME NEW name, NEW value, NEW labels
  PROVE  /\ gauge(name, value, labels) = <<gaugeOf(name, value, labels)>>
         /\ ToSet(gauge(name, value, labels)) = {gaugeOf(name, value, labels)}
BY DEF gauge, gaugeOf, ToSet

LEMMA GroupSet ==
  ASSUME NEW k \in SessionKey, NEW g \in Group
  PROVE  ToSet(groupSamples(k, g))
           = {gaugeOf("nsr_session_active", g.n, groupLabels(k))}
             \cup (IF g.hasB THEN {gaugeOf("nsr_session_bytes", g.bytes, groupLabels(k))} ELSE {})
             \cup (IF g.hasR THEN {gaugeOf("nsr_session_transfer_bytes_per_second", g.bps,
                                           groupLabels(k))} ELSE {})
<1> DEFINE l == groupLabels(k)
           A == "nsr_session_active"
           B == "nsr_session_bytes"
           R == "nsr_session_transfer_bytes_per_second"
           a == gauge(A, g.n, l)
           b == IF g.hasB THEN gauge(B, g.bytes, l) ELSE <<>>
           r == IF g.hasR THEN gauge(R, g.bps, l) ELSE <<>>
           T == {gaugeOf(A, g.n, l), gaugeOf(B, g.bytes, l), gaugeOf(R, g.bps, l)}
<1>1. groupSamples(k, g) = a \o b \o r
  BY DEF groupSamples
<1>2. a \in Seq(T) /\ b \in Seq(T) /\ r \in Seq(T)
  <2>1. \A x \in T : <<x>> \in Seq(T)
    OBVIOUS
  <2>2. <<>> \in Seq(T)
    OBVIOUS
  <2>3. /\ a = <<gaugeOf(A, g.n, l)>>
        /\ b = IF g.hasB THEN <<gaugeOf(B, g.bytes, l)>> ELSE <<>>
        /\ r = IF g.hasR THEN <<gaugeOf(R, g.bps, l)>> ELSE <<>>
    BY SingleGauge
  <2>4. gaugeOf(A, g.n, l) \in T /\ gaugeOf(B, g.bytes, l) \in T /\ gaugeOf(R, g.bps, l) \in T
    OBVIOUS
  <2> HIDE DEF a, b, r, T, l
  <2> QED BY <2>1, <2>2, <2>3, <2>4
<1>3. /\ ToSet(a) = {gaugeOf(A, g.n, l)}
      /\ ToSet(b) = IF g.hasB THEN {gaugeOf(B, g.bytes, l)} ELSE {}
      /\ ToSet(r) = IF g.hasR THEN {gaugeOf(R, g.bps, l)} ELSE {}
  <2>1. ToSet(<<>>) = {}
    BY DEF ToSet
  <2> QED BY <2>1, SingleGauge
<1> HIDE DEF a, b, r, T
<1> DEFINE p == a \o b
<1>4. p \in Seq(T) /\ ToSet(p) = ToSet(a) \cup ToSet(b)
  BY <1>2, ConcatRange
<1> HIDE DEF p
<1>5. ToSet(p \o r) = ToSet(p) \cup ToSet(r)
  BY <1>2, <1>4, ConcatRange
<1> QED BY <1>1, <1>3, <1>4, <1>5 DEF p

LEMMA TotalsSay ==
  ASSUME NEW name \in CatalogGauges \ CycleMetric, NEW key \in LabelKey, keysOf(name) = {key},
         NEW m \in Tally(GoodValue), NEW f \in totals(name, key, m)
  PROVE  ToSet(f) = {gaugeOf(name, m[x], oneLabel(key)[x]) : x \in DOMAIN m}
<1>1. ToSet(f) = UNION {ToSet(gauge(name, m[x], <<lbl(key, x)>>)) : x \in DOMAIN m}
  BY TotalsBatch
<1>2. \A x \in DOMAIN m : oneLabel(key)[x] = <<lbl(key, x)>>
  BY DEF Tally, oneLabel
<1>3. \A x \in DOMAIN m : ToSet(gauge(name, m[x], <<lbl(key, x)>>))
                            = {gaugeOf(name, m[x], oneLabel(key)[x])}
  BY <1>2, SingleGauge
<1> DEFINE a(x) == ToSet(gauge(name, m[x], <<lbl(key, x)>>))
           b(x) == gaugeOf(name, m[x], oneLabel(key)[x])
<1>4. ToSet(f) = UNION {a(x) : x \in DOMAIN m} /\ \A x \in DOMAIN m : a(x) = {b(x)}
  BY <1>1, <1>3
<1> HIDE DEF a, b
<1>5. ToSet(f) = {b(x) : x \in DOMAIN m}
  BY <1>4
<1> QED BY <1>5 DEF b

LEMMA SessionsSaid ==
  ASSUME NEW items \in Seq(Item["sessions"]), NEW new \in sessionEmissions(items)
  PROVE  SessionsSay(ToSet(new), items)
<1> DEFINE acc == FoldLeft(addSession, SessionStart, items)
           emit(k) == groupSamples(k, acc.groups[k])
           A == "nsr_session_active"
           B == "nsr_session_bytes"
           R == "nsr_session_transfer_bytes_per_second"
           M == "nsr_active_sessions"
<1>1. /\ acc \in Grouped
      /\ DOMAIN acc.groups = keysIn(items)
      /\ \A k \in DOMAIN acc.groups : GroupSums(acc.groups[k], items, k, Len(items))
      /\ DOMAIN acc.byMode = modesIn(items)
      /\ \A x \in DOMAIN acc.byMode : acc.byMode[x] = Cardinality(ofMode(items, x))
  BY GroupCounts DEF keysIn, modesIn, ofMode
<1>2. PICK rest \in totals(M, "session_type", acc.byMode) : new = each(acc.order, emit) \o rest
  BY DEF sessionEmissions
<1> DEFINE q == [n \in 1..Len(acc.order) |-> groupSamples(acc.order[n], acc.groups[acc.order[n]])]
           p == FlattenSeq(q)
<1>3. new = p \o rest
  BY <1>2 DEF each
<1>4. /\ acc.order \in Seq(SessionKey) /\ acc.groups \in [DOMAIN acc.groups -> Group]
      /\ {acc.order[n] : n \in 1..Len(acc.order)} = DOMAIN acc.groups
      /\ DOMAIN acc.groups \subseteq SessionKey
      /\ acc.byMode \in Tally(GoodValue)
  BY <1>1 DEF Grouped
<1> HIDE DEF acc
<1>5. q \in Seq(Seq(Emitted)) /\ Len(q) = Len(acc.order)
  <2> DEFINE c == Len(acc.order)
             T == Seq(Emitted)
  <2>1. \A n \in 1..c : q[n] \in T
    <3> SUFFICES ASSUME NEW n \in 1..c PROVE groupSamples(acc.order[n], acc.groups[acc.order[n]]) \in T
      OBVIOUS
    <3>1. acc.order[n] \in SessionKey /\ acc.groups[acc.order[n]] \in Group
      BY <1>4
    <3> HIDE DEF T
    <3>2. groupSamples(acc.order[n], acc.groups[acc.order[n]]) \in Batch(SessionMetric)
      BY <3>1, GroupBatches
    <3> QED BY <3>2 DEF Batch, T
  <2>2. q = [n \in 1..c |-> q[n]] /\ c \in Nat
    BY <1>4
  <2> HIDE DEF q, c, T
  <2>3. q \in [1..c -> T]
    BY <2>1, <2>2
  <2>4. q \in Seq(T) /\ Len(q) = c
    BY <2>2, <2>3, FunctionIsSequence
  <2> QED BY <2>4 DEF c, T
<1> DEFINE said(k) == ToSet(groupSamples(k, acc.groups[k]))
<1>6. ToSet(p) = UNION {said(k) : k \in keysIn(items)} /\ p \in Seq(Emitted)
  <2>1. ToSet(p) = UNION {ToSet(q[n]) : n \in 1..Len(acc.order)} /\ p \in Seq(Emitted)
    <3> HIDE DEF q
    <3> QED BY <1>5, FlattenOf
  <2>2. \A n \in 1..Len(acc.order) : ToSet(q[n]) = said(acc.order[n])
    OBVIOUS
  <2>3. {acc.order[n] : n \in 1..Len(acc.order)} = keysIn(items)
    BY <1>1, <1>4
  <2> DEFINE S == 1..Len(acc.order)
  <2>4. /\ ToSet(p) = UNION {ToSet(q[n]) : n \in S}
        /\ \A n \in S : ToSet(q[n]) = said(acc.order[n])
        /\ {acc.order[n] : n \in S} = keysIn(items)
    BY <2>1, <2>2, <2>3
  <2> HIDE DEF p, q, said, S
  <2>5. ToSet(p) = UNION {said(k) : k \in keysIn(items)}
    BY <2>4
  <2> QED BY <2>1, <2>5
<1>7. /\ ToSet(rest) = {gaugeOf(M, acc.byMode[x], oneLabel("session_type")[x]) : x \in DOMAIN acc.byMode}
      /\ rest \in Seq(Emitted)
  <2>1. M \in CatalogGauges \ CycleMetric /\ keysOf(M) = {"session_type"}
    BY DEF keysOf, CatalogGauges, CycleMetric, upName, durationName, guardMetric
  <2>2. "session_type" \in LabelKey
    BY DEF LabelKey
  <2>3. rest \in Batch({M})
    BY <1>2, <1>4, <2>1, <2>2, TotalsBatch
  <2> QED BY <1>2, <1>4, <2>1, <2>2, <2>3, TotalsSay DEF Batch
<1> HIDE DEF p, q
<1>8. ToSet(new) = ToSet(p) \cup ToSet(rest)
  BY <1>3, <1>6, <1>7, ConcatRange
<1>9. ASSUME NEW k \in keysIn(items)
      PROVE  said(k) = {gaugeOf(A, Cardinality(ofKey(items, k)), pairLabels[k])}
               \cup (IF sized(items, k) # {}
                     THEN {gaugeOf(B, SumFunctionOnSet(sizes(items), sized(items, k)), pairLabels[k])}
                     ELSE {})
               \cup (IF rated(items, k) # {}
                     THEN {gaugeOf(R, SumFunctionOnSet(rates(items), rated(items, k)), pairLabels[k])}
                     ELSE {})
  <2> DEFINE g == acc.groups[k]
  <2>1. k \in SessionKey /\ g \in Group /\ GroupSums(g, items, k, Len(items))
    BY <1>1, <1>4
  <2>2. pairLabels[k] = groupLabels(k)
    BY <2>1 DEF pairLabels
  <2>3. /\ Upto(ofKey(items, k), Len(items)) = ofKey(items, k)
        /\ Upto(sized(items, k), Len(items)) = sized(items, k)
        /\ Upto(rated(items, k), Len(items)) = rated(items, k)
    BY DEF Upto, ofKey, sized, rated
  <2> HIDE DEF g
  <2>4. /\ g.n = Cardinality(ofKey(items, k))
        /\ g.bytes = SumFunctionOnSet(sizes(items), sized(items, k))
        /\ g.bps = SumFunctionOnSet(rates(items), rated(items, k))
        /\ g.hasB = (sized(items, k) # {})
        /\ g.hasR = (rated(items, k) # {})
    BY <2>1, <2>3 DEF GroupSums
  <2>5. ToSet(groupSamples(k, g))
           = {gaugeOf(A, g.n, groupLabels(k))}
             \cup (IF g.hasB THEN {gaugeOf(B, g.bytes, groupLabels(k))} ELSE {})
             \cup (IF g.hasR THEN {gaugeOf(R, g.bps, groupLabels(k))} ELSE {})
    BY <2>1, GroupSet
  <2>6. said(k) = ToSet(groupSamples(k, g))
    BY DEF g
  <2> HIDE DEF said
  <2> QED BY <2>2, <2>4, <2>5, <2>6
<1> HIDE DEF said
<1>10. \A n, v, l : gaugeOf(n, v, l).name = n
  BY DEF gaugeOf
<1>11. ASSUME NEW x PROVE x \in ToSet(new) <=>
         \/ \E k \in keysIn(items) : x \in said(k)
         \/ \E y \in modesIn(items) :
              x = gaugeOf(M, Cardinality(ofMode(items, y)), oneLabel("session_type")[y])
  BY <1>1, <1>6, <1>7, <1>8
<1>12. ASSUME NEW k \in keysIn(items), NEW x \in said(k)
       PROVE  /\ x.name \in {A, B, R}
              /\ x.name = A <=> x = gaugeOf(A, Cardinality(ofKey(items, k)), pairLabels[k])
              /\ x.name = B <=> /\ sized(items, k) # {}
                                /\ x = gaugeOf(B, SumFunctionOnSet(sizes(items), sized(items, k)),
                                               pairLabels[k])
              /\ x.name = R <=> /\ rated(items, k) # {}
                                /\ x = gaugeOf(R, SumFunctionOnSet(rates(items), rated(items, k)),
                                               pairLabels[k])
  BY <1>9, <1>10
<1>13. Says(ToSet(new), A, activeTable(items), pairLabels)
  <2>1. /\ DOMAIN activeTable(items) = keysIn(items)
        /\ \A k \in keysIn(items) : activeTable(items)[k] = Cardinality(ofKey(items, k))
    BY DEF activeTable
  <2>2. ASSUME NEW x \in ToSet(new), x.name = A
        PROVE  \E k \in keysIn(items) : x = gaugeOf(A, Cardinality(ofKey(items, k)), pairLabels[k])
    BY <1>10, <1>11, <1>12, <2>2
  <2>3. \A k \in keysIn(items) :
          gaugeOf(A, Cardinality(ofKey(items, k)), pairLabels[k]) \in ToSet(new)
    BY <1>9, <1>11
  <2> QED BY <1>10, <2>1, <2>2, <2>3 DEF Says
<1>14. Says(ToSet(new), B, bytesTable(items), pairLabels)
  <2> DEFINE K == {k \in keysIn(items) : sized(items, k) # {}}
  <2>1. /\ DOMAIN bytesTable(items) = K
        /\ \A k \in K : bytesTable(items)[k] = SumFunctionOnSet(sizes(items), sized(items, k))
    BY DEF bytesTable
  <2>2. ASSUME NEW x \in ToSet(new), x.name = B
        PROVE  \E k \in K : x = gaugeOf(B, SumFunctionOnSet(sizes(items), sized(items, k)), pairLabels[k])
    BY <1>10, <1>11, <1>12, <2>2
  <2>3. \A k \in K :
          gaugeOf(B, SumFunctionOnSet(sizes(items), sized(items, k)), pairLabels[k]) \in ToSet(new)
    BY <1>9, <1>11
  <2> QED BY <1>10, <2>1, <2>2, <2>3 DEF Says
<1>15. Says(ToSet(new), R, rateTable(items), pairLabels)
  <2> DEFINE K == {k \in keysIn(items) : rated(items, k) # {}}
  <2>1. /\ DOMAIN rateTable(items) = K
        /\ \A k \in K : rateTable(items)[k] = SumFunctionOnSet(rates(items), rated(items, k))
    BY DEF rateTable
  <2>2. ASSUME NEW x \in ToSet(new), x.name = R
        PROVE  \E k \in K : x = gaugeOf(R, SumFunctionOnSet(rates(items), rated(items, k)), pairLabels[k])
    BY <1>10, <1>11, <1>12, <2>2
  <2>3. \A k \in K :
          gaugeOf(R, SumFunctionOnSet(rates(items), rated(items, k)), pairLabels[k]) \in ToSet(new)
    BY <1>9, <1>11
  <2> QED BY <1>10, <2>1, <2>2, <2>3 DEF Says
<1>16. Says(ToSet(new), M, modeTable(items), oneLabel("session_type"))
  <2>1. /\ DOMAIN modeTable(items) = modesIn(items)
        /\ \A y \in modesIn(items) : modeTable(items)[y] = Cardinality(ofMode(items, y))
    BY DEF modeTable
  <2>2. ASSUME NEW x \in ToSet(new), x.name = M
        PROVE  \E y \in modesIn(items) :
                 x = gaugeOf(M, Cardinality(ofMode(items, y)), oneLabel("session_type")[y])
    BY <1>11, <1>12, <2>2
  <2>3. \A y \in modesIn(items) :
          gaugeOf(M, Cardinality(ofMode(items, y)), oneLabel("session_type")[y]) \in ToSet(new)
    BY <1>11
  <2> QED BY <1>10, <2>1, <2>2, <2>3 DEF Says
<1> QED BY <1>13, <1>14, <1>15, <1>16 DEF SessionsSay

-----------------------------------------------------------------------------
(* The alerts, as the samples of an emission say them. *)
infoOf(a) == alertSamples(a)[1]
prioritiesIn(items) == {text(items[m].priority) : m \in DOMAIN items}
ofPriority(items, x) == {m \in DOMAIN items : text(items[m].priority) = x}
countTable(items) == [x \in prioritiesIn(items) |-> Cardinality(ofPriority(items, x))]

AlertsListed(list, items) ==
  /\ \A n \in 1..Len(items) : n \in DOMAIN list /\ list[n] = infoOf(items[n])
  /\ \A n \in DOMAIN list : list[n].name = "nsr_alert_info" => n \in 1..Len(items)
  /\ Says(ToSet(list), "nsr_alerts_active", countTable(items), oneLabel("priority"))

LEMMA PriorityCounts ==
  ASSUME NEW items \in Seq(Item["alerts"])
  PROVE  /\ byPriority(items) \in Tally(GoodValue)
         /\ byPriority(items) = countTable(items)
<1> DEFINE n == Len(items)
           key == [m \in 1..n |-> text(items[m].priority)]
           b == byPriority(items)
<1>1. n \in Nat /\ DOMAIN items = 1..n
  OBVIOUS
<1>2. b \in Tally(GoodValue)
  BY ByPriorityType
<1>3. PICK f : /\ f[0] = NoEntries
               /\ \A k \in 0..(n - 1) : f[k + 1] = increment(f[k], text(items[k + 1].priority))
               /\ b = f[n]
  BY ByPrioritySteps
<1> HIDE DEF n
<1>4. key \in [1..n -> GoodValue] /\ \A m \in 1..n : key[m] = text(items[m].priority)
  BY TextOfAlerts DEF n
<1>5. \A k \in 0..(n - 1) : f[k + 1] = increment(f[k], key[k + 1])
  <2> TAKE k \in 0..(n - 1)
  <2>1. k + 1 \in 1..n
    BY <1>1
  <2> HIDE DEF key
  <2> QED BY <1>3, <1>4, <2>1
<1> HIDE DEF key
<1>6. DOMAIN b = {key[m] : m \in 1..n} /\ \A x \in DOMAIN b : b[x] = Cardinality(With(key, x))
  <2> HIDE DEF b
  <2>1. f[0] = NoEntries /\ b = f[n]
    BY <1>3 DEF b
  <2>2. DOMAIN f[n] = {key[m] : m \in 1..n} /\ \A x \in DOMAIN f[n] : f[n][x] = Cardinality(With(key, x))
    BY <1>1, <1>4, <1>5, <2>1, TallyCounts, ZenonT(60)
  <2> QED BY <2>1, <2>2
<1>7. DOMAIN b = prioritiesIn(items)
  BY <1>1, <1>4, <1>6 DEF prioritiesIn
<1>8. \A x : With(key, x) = ofPriority(items, x)
  BY <1>1, <1>4 DEF With, ofPriority
<1>9. b = [x \in DOMAIN b |-> b[x]]
  BY <1>2 DEF Tally
<1> HIDE DEF b
<1>10. b = [x \in prioritiesIn(items) |-> Cardinality(ofPriority(items, x))]
  BY <1>6, <1>7, <1>8, <1>9
<1> QED BY <1>2, <1>10 DEF b, countTable

LEMMA AlertsSaid ==
  ASSUME NEW items \in Seq(Item["alerts"]), NEW new \in Emissions("alerts", items)
  PROVE  AlertsListed(new, items)
<1> DEFINE I == "nsr_alert_info"
           A == "nsr_alerts_active"
           n == Len(items)
           q == [m \in 1..n |-> alertSamples(items[m])]
           p == FlattenSeq(q)
           m == byPriority(items)
           e == [k \in 1..n |-> infoOf(items[k])]
<1>1. PICK rest \in totals(A, "priority", m) : new = p \o rest
  BY DEF Emissions, each
<1>2. n \in Nat /\ DOMAIN items = 1..n
  OBVIOUS
<1>3. q \in [1..n -> Batch({I})]
  BY AlertBatch
<1>4. \A a : alertSamples(a) = <<infoOf(a)>> /\ infoOf(a).name = I
  BY DEF alertSamples, infoOf, gauge
<1>5. \A k \in 1..n : q[k] = <<e[k]>> /\ e[k] \in Emitted /\ e[k] = infoOf(items[k])
  <2> TAKE k \in 1..n
  <2>1. q[k] = <<e[k]>> /\ e[k] = infoOf(items[k])
    BY <1>4
  <2>2. q[k] \in Seq(Emitted)
    <3> HIDE DEF q
    <3> QED BY <1>3 DEF Batch
  <2> HIDE DEF q, e
  <2>3. e[k] \in Emitted
    BY <2>1, <2>2
  <2> QED BY <2>1, <2>3
<1>6. q \in [1..n -> Seq(Emitted)]
  <2> HIDE DEF q
  <2> QED BY <1>3 DEF Batch
<1> HIDE DEF q, e, n
<1>7. p \in Seq(Emitted) /\ Len(p) = n /\ \A k \in 1..n : p[k] = e[k]
  <2> DEFINE T == Emitted
  <2>1. n \in Nat /\ q \in [1..n -> Seq(T)]
    BY <1>2, <1>6
  <2>2. \A k \in 1..n : q[k] = <<e[k]>> /\ e[k] \in T
    BY <1>5
  <2> HIDE DEF T
  <2>3. /\ FlattenSeq(q) \in Seq(T) /\ Len(FlattenSeq(q)) = n
        /\ \A k \in 1..n : FlattenSeq(q)[k] = e[k]
    BY <2>1, <2>2, FlattenSingles
  <2> QED BY <2>3 DEF T
<1>8. /\ ToSet(rest) = {gaugeOf(A, m[x], oneLabel("priority")[x]) : x \in DOMAIN m}
      /\ rest \in Seq(Emitted) /\ \A k \in 1..Len(rest) : rest[k].name = A
  <2>1. A \in CatalogGauges \ CycleMetric /\ keysOf(A) = {"priority"}
    BY DEF keysOf, CatalogGauges, CycleMetric, upName, durationName, guardMetric
  <2>2. "priority" \in LabelKey
    BY DEF LabelKey
  <2>3. m \in Tally(GoodValue)
    BY PriorityCounts
  <2>4. rest \in Batch({A})
    BY <1>1, <2>1, <2>2, <2>3, TotalsBatch
  <2> QED BY <1>1, <2>1, <2>2, <2>3, <2>4, TotalsSay DEF Batch
<1> HIDE DEF p
<1> DEFINE r == p \o rest
<1>9. /\ DOMAIN r = 1..(n + Len(rest)) /\ Len(rest) \in Nat
      /\ \A k \in 1..n : r[k] = p[k]
      /\ \A k \in 1..(n + Len(rest)) : k > n => k - n \in 1..Len(rest) /\ r[k] = rest[k - n]
  BY <1>2, <1>7, <1>8
<1>10. ToSet(r) = ToSet(p) \cup ToSet(rest)
  BY <1>7, <1>8, ConcatRange
<1> HIDE DEF r
<1>11. \A k \in 1..n : k \in DOMAIN r /\ r[k] = infoOf(items[k])
  BY <1>2, <1>5, <1>7, <1>9
<1>12. \A k \in DOMAIN r : r[k].name = I => k \in 1..n
  <2> SUFFICES ASSUME NEW k \in DOMAIN r, k \notin 1..n PROVE r[k].name # I
    OBVIOUS
  <2>1. k \in 1..(n + Len(rest)) /\ k > n
    BY <1>2, <1>9
  <2>2. r[k].name = A
    BY <1>8, <1>9, <2>1
  <2> QED BY <2>2
<1>13. Says(ToSet(r), A, countTable(items), oneLabel("priority"))
  <2>1. m = countTable(items)
    BY PriorityCounts
  <2>2. \A x \in ToSet(p) : x.name = I
    <3>1. \A x \in ToSet(p) : \E k \in 1..n : x = p[k]
      BY <1>2, <1>7 DEF ToSet
    <3> QED BY <1>4, <1>5, <1>7, <3>1
  <2>3. \A x \in ToSet(rest) : x.name = A
    BY <1>8 DEF gaugeOf
  <2>4. {x \in ToSet(r) : x.name = A} = ToSet(rest)
    BY <1>10, <2>2, <2>3
  <2> HIDE DEF m
  <2> QED BY <1>8, <2>1, <2>4 DEF Says
<1>14. AlertsListed(r, items)
  BY <1>11, <1>12, <1>13 DEF AlertsListed, n
<1> QED BY <1>1, <1>14 DEF r

-----------------------------------------------------------------------------
(* Samples of other requests change nothing. *)
NoneOf(q, list) == \A n \in DOMAIN list : requestOf(list[n].name) # q

LEMMA AggregateRequests ==
  /\ requestOf("nsr_alert_info") = "alerts" /\ requestOf("nsr_alerts_active") = "alerts"
  /\ requestOf("nsr_session_active") = "sessions" /\ requestOf("nsr_session_bytes") = "sessions"
  /\ requestOf("nsr_session_transfer_bytes_per_second") = "sessions"
  /\ requestOf("nsr_active_sessions") = "sessions"
<1>1. {"nsr_alert_info", "nsr_alerts_active"} \subseteq MetricsOf("alerts")
  BY MetricsOfRequests
<1>2. SessionMetric \cup {"nsr_active_sessions"} \subseteq MetricsOf("sessions")
  BY MetricsOfRequests
<1> QED BY <1>1, <1>2 DEF MetricsOf, SessionMetric

LEMMA NoneInTurn ==
  ASSUME NEW c \in 1..11, NEW list
  PROVE  /\ list \in Batch(OfTurn(c)) =>
              (c # 1 => NoneOf("alerts", list)) /\ (c # 3 => NoneOf("sessions", list))
         /\ list \in Batch(Earlier(c)) /\ c <= 3 => NoneOf("sessions", list)
         /\ list \in Batch(Earlier(1)) => list = <<>>
<1>1. turnOf("alerts") = 1 /\ turnOf("sessions") = 3
  BY DEF turnOf
<1>2. \A N : list \in Batch(N) => \A n \in DOMAIN list : list[n].name \in N
  BY DEF Batch
<1>3. list \in Batch(OfTurn(c)) => \A n \in DOMAIN list : turnOf(requestOf(list[n].name)) = c
  BY <1>2 DEF OfTurn
<1>4. list \in Batch(Earlier(c)) => \A n \in DOMAIN list : turnOf(requestOf(list[n].name)) < c
  BY <1>2 DEF Earlier
<1>5. ASSUME list \in Batch(Earlier(1)) PROVE list = <<>>
  <2>1. \A n \in DOMAIN list :
          requestOf(list[n].name) \in Request /\ turnOf(requestOf(list[n].name)) < 1
    BY <1>2, <1>5 DEF Earlier
  <2>2. \A q \in Request : turnOf(q) \in 1..11
    <3> SUFFICES ASSUME NEW q \in Request PROVE turnOf(q) \in 1..11
      OBVIOUS
    <3>1. PICK d \in DOMAIN Collectors : q \in ToSet(Collectors[d])
      BY DEF Request
    <3>2. d \in 1..11
      BY <3>1, SentOnce
    <3>3. PICK k \in 1..Len(Collectors[d]) : q = Collectors[d][k]
      BY <3>1, <3>2, SentOnce, ZenonT(60) DEF ToSet
    <3> QED BY <3>2, <3>3, SentOnce
  <2>3. ASSUME NEW n \in DOMAIN list PROVE FALSE
    <3>1. requestOf(list[n].name) \in Request /\ turnOf(requestOf(list[n].name)) < 1
      BY <2>1
    <3>2. turnOf(requestOf(list[n].name)) \in 1..11
      BY <2>2, <3>1
    <3> HIDE DEF turnOf, requestOf
    <3> QED BY <3>1, <3>2
  <2>4. list \in Seq(Emitted)
    BY <1>5 DEF Batch
  <2> QED BY <2>3, <2>4
<1> QED BY <1>1, <1>3, <1>4, <1>5 DEF NoneOf

LEMMA NoneInBoth ==
  ASSUME NEW q, NEW p \in Seq(Emitted), NEW t \in Seq(Emitted), NoneOf(q, p), NoneOf(q, t)
  PROVE  NoneOf(q, p \o t)
<1>1. \A n \in DOMAIN (p \o t) : (p \o t)[n] \in ToSet(p \o t)
  BY DEF ToSet
<1>2. \A x \in ToSet(p \o t) : x \in ToSet(p) \/ x \in ToSet(t)
  BY ConcatRange
<1>3. (\A x \in ToSet(p) : requestOf(x.name) # q) /\ (\A x \in ToSet(t) : requestOf(x.name) # q)
  BY DEF NoneOf, ToSet
<1> QED BY <1>1, <1>2, <1>3 DEF NoneOf

LEMMA SaysStill ==
  ASSUME NEW X, NEW Y, NEW name, NEW table, NEW labels, Says(X, name, table, labels),
         \A y \in Y : y.name # name
  PROVE  Says(X \cup Y, name, table, labels)
<1>1. {x \in X \cup Y : x.name = name} = {x \in X : x.name = name}
  OBVIOUS
<1> QED BY <1>1 DEF Says

LEMMA SessionsStill ==
  ASSUME NEW items, NEW p \in Seq(Emitted), NEW t \in Seq(Emitted),
         \/ SessionsSay(ToSet(p), items) /\ NoneOf("sessions", t)
         \/ SessionsSay(ToSet(t), items) /\ NoneOf("sessions", p)
  PROVE  SessionsSay(ToSet(p \o t), items)
<1>1. ASSUME NEW X, NEW Y, SessionsSay(X, items), \A y \in Y : requestOf(y.name) # "sessions"
      PROVE  SessionsSay(X \cup Y, items)
  <2>1. \A y \in Y : /\ y.name # "nsr_session_active" /\ y.name # "nsr_session_bytes"
                     /\ y.name # "nsr_session_transfer_bytes_per_second"
                     /\ y.name # "nsr_active_sessions"
    BY <1>1, AggregateRequests
  <2> QED BY <1>1, <2>1, SaysStill DEF SessionsSay
<1>2. ToSet(p \o t) = ToSet(p) \cup ToSet(t) /\ ToSet(p \o t) = ToSet(t) \cup ToSet(p)
  BY ConcatRange
<1>3. /\ NoneOf("sessions", t) => \A y \in ToSet(t) : requestOf(y.name) # "sessions"
      /\ NoneOf("sessions", p) => \A y \in ToSet(p) : requestOf(y.name) # "sessions"
  BY DEF NoneOf, ToSet
<1>4. CASE SessionsSay(ToSet(p), items) /\ NoneOf("sessions", t)
  <2>1. SessionsSay(ToSet(p) \cup ToSet(t), items)
    BY <1>1, <1>3, <1>4
  <2> QED BY <1>2, <2>1
<1>5. CASE SessionsSay(ToSet(t), items) /\ NoneOf("sessions", p)
  <2>1. SessionsSay(ToSet(t) \cup ToSet(p), items)
    BY <1>1, <1>3, <1>5
  <2> QED BY <1>2, <2>1
<1> QED BY <1>4, <1>5

LEMMA AlertsStill ==
  ASSUME NEW items, NEW p \in Seq(Emitted), NEW t \in Seq(Emitted),
         AlertsListed(p, items), NoneOf("alerts", t)
  PROVE  AlertsListed(p \o t, items)
<1> DEFINE r == p \o t
           n == Len(p)
<1>1. /\ n \in Nat /\ Len(t) \in Nat /\ DOMAIN p = 1..n /\ DOMAIN t = 1..Len(t)
      /\ DOMAIN r = 1..(n + Len(t))
      /\ \A k \in 1..n : r[k] = p[k]
      /\ \A k \in 1..(n + Len(t)) : k > n => k - n \in 1..Len(t) /\ r[k] = t[k - n]
      /\ \A k \in 1..n : k \in 1..(n + Len(t))
      /\ \A k \in 1..(n + Len(t)) : k \in 1..n \/ k > n
  OBVIOUS
<1>2. ToSet(r) = ToSet(p) \cup ToSet(t)
  BY ConcatRange
<1> HIDE DEF r, n
<1>3. \A k \in 1..Len(items) : k \in DOMAIN r /\ r[k] = infoOf(items[k])
  BY <1>1 DEF AlertsListed
<1>4. \A k \in DOMAIN r : r[k].name = "nsr_alert_info" => k \in 1..Len(items)
  BY <1>1, AggregateRequests DEF AlertsListed, NoneOf
<1>5. \A y \in ToSet(t) : y.name # "nsr_alerts_active"
  BY AggregateRequests DEF NoneOf, ToSet
<1>6. Says(ToSet(r), "nsr_alerts_active", countTable(items), oneLabel("priority"))
  <2>1. Says(ToSet(p), "nsr_alerts_active", countTable(items), oneLabel("priority"))
    BY DEF AlertsListed
  <2>2. Says(ToSet(p) \cup ToSet(t), "nsr_alerts_active", countTable(items), oneLabel("priority"))
    BY <1>5, <2>1, SaysStill
  <2> QED BY <1>2, <2>2
<1>7. AlertsListed(r, items)
  BY <1>3, <1>4, <1>6 DEF AlertsListed
<1> QED BY <1>7 DEF r

-----------------------------------------------------------------------------
(* What the samples, and the builder, have of alerts and of sessions. *)
AlertsKept(list, held) == NoneOf("alerts", list) \/ AlertsListed(list, held["alerts"])
SessionsKept(list, held) == NoneOf("sessions", list) \/ SessionsSay(ToSet(list), held["sessions"])

AddUpInv ==
  /\ asked = 0 => out = <<>>
  /\ rc = 1 /\ asked # 0 => AlertsListed(out, server["alerts"])
  /\ rc = 3 /\ asked # 0 => SessionsSay(ToSet(out), server["sessions"])
  /\ AlertsKept(samples, server)
  /\ SessionsKept(samples, server)

LEMMA SucceedsAddUp == CycleInv /\ AddUpInv /\ Succeeds => AddUpInv'
<1> SUFFICES ASSUME CycleInv, AddUpInv, Succeeds PROVE AddUpInv'
  OBVIOUS
<1>1. /\ rc' = rc /\ asked' = asked + 1 /\ server' = server /\ samples' = samples
      /\ asked \in 0..2 /\ asked < Len(Collectors[rc])
  BY DEF Succeeds, Asking, CycleInv
<1>2. asked + 1 # 0
  BY <1>1
<1>3. ASSUME rc \in {1, 3}
      PROVE  \E new \in Emissions(Collectors[rc][1], server[Collectors[rc][1]]) : out' = new
  <2>1. Collectors[1] = <<"alerts">> /\ Collectors[3] = <<"sessions">>
    BY DEF Collectors
  <2>2. Len(Collectors[rc]) = 1
    BY <1>3, <2>1
  <2>3. asked = 0
    BY <1>1, <2>2
  <2> DEFINE q == Collectors[rc][1]
  <2>4. query = q /\ q \in {"alerts", "sessions"}
    BY <1>3, <2>1, <2>3 DEF query
  <2>5. q \in DOMAIN Item /\ q # "backups"
    BY <2>4 DEF Item
  <2> HIDE DEF q
  <2>6. server[q] \in Seq(Item[q])
    BY <2>5, ServerAssumption DEF CycleInv
  <2>7. Sent(q, server[q]) = server[q]
    BY <2>5, <2>6, SentComplete
  <2>8. PICK new \in Emissions(q, server[q]) : out' = out \o new
    BY <2>4, <2>5, <2>7 DEF Succeeds
  <2>9. q # "serverstatistics"
    BY <2>4
  <2>10. new \in Seq(Emitted)
    BY <2>5, <2>6, <2>8, <2>9, EmissionsBatch DEF Batch
  <2>11. out' = new
    <3>1. out = <<>>
      BY <2>3 DEF AddUpInv
    <3> QED BY <2>8, <2>10, <3>1
  <2> QED BY <2>8, <2>11 DEF q
<1>4. ASSUME rc = 1 PROVE AlertsListed(out', server["alerts"])
  <2>1. Collectors[rc][1] = "alerts"
    BY <1>4 DEF Collectors
  <2>2. PICK new \in Emissions("alerts", server["alerts"]) : out' = new
    BY <1>3, <1>4, <2>1
  <2>3. server["alerts"] \in Seq(Item["alerts"])
    <3>1. "alerts" \in DOMAIN Item
      BY DEF Item
    <3> QED BY <3>1, ServerAssumption DEF CycleInv
  <2> QED BY <2>2, <2>3, AlertsSaid
<1>5. ASSUME rc = 3 PROVE SessionsSay(ToSet(out'), server["sessions"])
  <2>1. Collectors[rc][1] = "sessions"
    BY <1>5 DEF Collectors
  <2>2. PICK new \in Emissions("sessions", server["sessions"]) : out' = new
    BY <1>3, <1>5, <2>1
  <2>3. server["sessions"] \in Seq(Item["sessions"])
    <3>1. "sessions" \in DOMAIN Item
      BY DEF Item
    <3> QED BY <3>1, ServerAssumption DEF CycleInv
  <2>4. new \in sessionEmissions(server["sessions"])
    BY <2>2 DEF Emissions
  <2> QED BY <2>2, <2>3, <2>4, SessionsSaid
<1> QED BY <1>1, <1>2, <1>4, <1>5 DEF AddUpInv

LEMMA FailsAddUp == CycleInv /\ AddUpInv /\ Fails => AddUpInv'
BY DEF Fails, NextCollector, AddUpInv

LEMMA ReturnsAddUp == IInv /\ CycleInv /\ AddUpInv /\ Returns => AddUpInv'
<1> SUFFICES ASSUME IInv, CycleInv, AddUpInv, Returns PROVE AddUpInv'
  OBVIOUS
<1>1. rc \in 1..11 /\ \E new \in Batch(OfTurn(rc)) : samples' = samples \o new
  BY ReturnsBatch
<1>2. PICK new \in Batch(OfTurn(rc)) : samples' = samples \o new
  BY <1>1
<1>3. new \in Seq(Emitted) /\ samples \in Seq(Emitted) /\ out \in Seq(Emitted)
  BY DEF Batch, CycleInv
<1>4. ASSUME rc \in {1, 3} PROVE samples' = samples \o out /\ asked # 0
  <2>1. Collectors[1] = <<"alerts">> /\ Collectors[3] = <<"sessions">>
    BY DEF Collectors
  <2>2. Collectors[rc] # <<"backups">>
    <3>1. Collectors[1][1] = "alerts" /\ Collectors[3][1] = "sessions"
      BY <2>1
    <3>2. <<"backups">>[1] = "backups"
      OBVIOUS
    <3> QED BY <1>4, <3>1, <3>2
  <2>3. Len(Collectors[rc]) = 1
    <3>1. CASE rc = 1
      BY <2>1, <3>1
    <3>2. CASE rc = 3
      BY <2>1, <3>2
    <3> QED BY <1>4, <3>1, <3>2
  <2>4. asked = Len(Collectors[rc])
    BY DEF Returns, Answered
  <2>5. asked # 0
    BY <2>3, <2>4
  <2>6. samples' = samples \o out
    BY <2>2 DEF Returns
  <2> QED BY <2>5, <2>6
<1>5. AlertsKept(samples', server)
  <2>1. CASE rc = 1
    <3>1. samples = <<>>
      BY <2>1, NoneInTurn DEF CycleInv
    <3>2. samples' = out
      BY <1>3, <1>4, <2>1, <3>1
    <3> QED BY <1>4, <2>1, <3>2 DEF AddUpInv, AlertsKept
  <2>2. CASE rc # 1
    <3>1. NoneOf("alerts", new)
      BY <1>1, <2>2, NoneInTurn
    <3>2. AlertsKept(samples, server)
      BY DEF AddUpInv
    <3>3. AlertsKept(samples \o new, server)
      BY <1>3, <3>1, <3>2, NoneInBoth, AlertsStill DEF AlertsKept
    <3> QED BY <1>2, <3>3
  <2> QED BY <2>1, <2>2
<1>6. SessionsKept(samples', server)
  <2>1. CASE rc = 3
    <3>1. NoneOf("sessions", samples)
      BY <2>1, NoneInTurn DEF CycleInv
    <3>2. SessionsSay(ToSet(out), server["sessions"])
      BY <1>4, <2>1 DEF AddUpInv
    <3>3. SessionsSay(ToSet(samples \o out), server["sessions"])
      BY <1>3, <3>1, <3>2, SessionsStill
    <3> QED BY <1>4, <2>1, <3>3 DEF SessionsKept
  <2>2. CASE rc # 3
    <3>1. NoneOf("sessions", new)
      BY <1>1, <2>2, NoneInTurn
    <3>2. SessionsKept(samples, server)
      BY DEF AddUpInv
    <3>3. SessionsKept(samples \o new, server)
      BY <1>3, <3>1, <3>2, NoneInBoth, SessionsStill DEF SessionsKept
    <3> QED BY <1>2, <3>3
  <2> QED BY <2>1, <2>2
<1>7. asked' = 0 /\ out' = <<>> /\ server' = server
  BY DEF Returns, NextCollector
<1> QED BY <1>5, <1>6, <1>7 DEF AddUpInv

LEMMA AddUpInvariant == CollectSpec => [](CycleInv /\ AddUpInv)
<1>1. CollectInit => AddUpInv
  <2>1. NoneOf("alerts", <<>>) /\ NoneOf("sessions", <<>>)
    BY DEF NoneOf
  <2> QED BY <2>1 DEF CollectInit, AddUpInv, AlertsKept, SessionsKept
<1>2. IInv /\ CycleInv /\ AddUpInv /\ [CollectNext]_allVars => AddUpInv'
  <2> SUFFICES ASSUME IInv, CycleInv, AddUpInv, [CollectNext]_allVars PROVE AddUpInv'
    OBVIOUS
  <2>1. CASE Succeeds
    BY <2>1, SucceedsAddUp
  <2>2. CASE Fails
    BY <2>2, FailsAddUp
  <2>3. CASE Folds
    BY <2>3 DEF Folds, AddUpInv
  <2>4. CASE Returns
    BY <2>4, ReturnsAddUp
  <2>5. CASE UNCHANGED allVars
    BY <2>5 DEF allVars, AddUpInv
  <2> QED BY <2>1, <2>2, <2>3, <2>4, <2>5 DEF CollectNext
<1> QED BY <1>1, <1>2, CycleInvariant, PTL DEF CollectSpec

-----------------------------------------------------------------------------
(* The samples of a metric, by position, are those of a table: key says    *)
(* which entry each of them is.                                            *)
Tabled(P, table, key) ==
  /\ \A p \in P : key[p] \in DOMAIN table /\ samples[p].value = table[key[p]]
  /\ \A k \in DOMAIN table : \E p \in P : key[p] = k
  /\ \A p, q \in P : key[p] = key[q] => p = q

oneAt(key) == [p \in DOMAIN samples |-> labelOf(p, key)]
pairAt ==
  [p \in DOMAIN samples |->
     [mode |-> labelOf(p, "session_type"), client |-> labelOf(p, "client")]]

LEMMA Positions ==
  ASSUME CycleInv, NEW name
  PROVE  /\ at(name) \subseteq DOMAIN samples /\ IsFiniteSet(at(name))
         /\ \A p \in at(name) : samples[p].value \in Nat
         /\ name \notin PerItem =>
              \A p, q \in at(name) : samples[p].labels = samples[q].labels => p = q
<1> DEFINE n == Len(samples)
<1>1. /\ samples \in Seq(Emitted) /\ OncePerSeries(samples)
  BY DEF CycleInv, Batch
<1>2. n \in Nat /\ DOMAIN samples = 1..n /\ \A p \in 1..n : samples[p] \in Emitted
  BY <1>1
<1>3. at(name) \subseteq 1..n
  BY <1>2 DEF at
<1>4. IsFiniteSet(1..n)
  BY <1>2, FS_Interval
<1>5. IsFiniteSet(at(name))
  BY <1>3, <1>4, FS_Subset
<1>6. \A p \in at(name) : samples[p].value \in Nat
  BY <1>2, <1>3 DEF Emitted, Sample
<1>7. ASSUME name \notin PerItem, NEW p \in at(name), NEW q \in at(name),
             samples[p].labels = samples[q].labels
      PROVE  p = q
  <2>1. p \in 1..n /\ q \in 1..n /\ samples[p].name = name /\ samples[q].name = name
    BY <1>3 DEF at
  <2>2. seriesKey(samples[p]) = seriesKey(samples[q])
    BY <1>7, <2>1 DEF seriesKey, LabelPairs
  <2> QED BY <1>1, <1>7, <2>1, <2>2 DEF OncePerSeries
<1> QED BY <1>2, <1>3, <1>5, <1>6, <1>7

LEMMA TableAt ==
  ASSUME CycleInv, NEW name, name \notin PerItem, NEW table, NEW labels, NEW key,
         Says(ToSet(samples), name, table, labels),
         \A p \in at(name), k \in DOMAIN table : samples[p].labels = labels[k] => key[p] = k
  PROVE  Tabled(at(name), table, key)
<1>1. \A x \in ToSet(samples) : x.name = name =>
        \E k \in DOMAIN table : x = gaugeOf(name, table[k], labels[k])
  BY DEF Says
<1>2. ASSUME NEW p \in at(name)
      PROVE  /\ key[p] \in DOMAIN table
             /\ samples[p].value = table[key[p]] /\ samples[p].labels = labels[key[p]]
  <2>1. samples[p] \in ToSet(samples) /\ samples[p].name = name
    BY DEF at, ToSet
  <2>2. PICK k \in DOMAIN table : samples[p] = gaugeOf(name, table[k], labels[k])
    BY <1>1, <2>1
  <2>3. samples[p].value = table[k] /\ samples[p].labels = labels[k]
    BY <2>2 DEF gaugeOf
  <2> QED BY <2>3
<1>3. ASSUME NEW k \in DOMAIN table PROVE \E p \in at(name) : key[p] = k
  <2>1. gaugeOf(name, table[k], labels[k]) \in {x \in ToSet(samples) : x.name = name}
    BY DEF Says
  <2>2. PICK p \in DOMAIN samples : samples[p] = gaugeOf(name, table[k], labels[k])
    BY <2>1 DEF ToSet
  <2>3. samples[p].name = name /\ samples[p].labels = labels[k]
    BY <2>2 DEF gaugeOf
  <2>4. p \in at(name)
    BY <2>3 DEF at
  <2> QED BY <2>3, <2>4
<1>4. ASSUME NEW p \in at(name), NEW q \in at(name), key[p] = key[q] PROVE p = q
  <2>1. samples[p].labels = samples[q].labels
    BY <1>2, <1>4
  <2> QED BY <2>1, Positions
<1> QED BY <1>2, <1>3, <1>4 DEF Tabled

LEMMA LabelChosen ==
  ASSUME NEW p, NEW l, l \in ToSet(samples[p].labels),
         \A m \in ToSet(samples[p].labels) : m.key = l.key => m = l
  PROVE  labelOf(p, l.key) = l.value
<1> DEFINE P(m) == m \in ToSet(samples[p].labels) /\ m.key = l.key
           c == CHOOSE m : P(m)
<1>1. P(l)
  OBVIOUS
<1>2. P(c)
  <2> HIDE DEF P
  <2> QED BY <1>1
<1>3. c = l
  BY <1>2
<1>4. labelOf(p, l.key) = c.value
  BY DEF labelOf
<1> QED BY <1>3, <1>4

LEMMA LabelsOf ==
  /\ \A p, k : samples[p].labels = groupLabels(k) =>
       labelOf(p, "session_type") = k.mode /\ labelOf(p, "client") = k.client
  /\ \A p, key, x : samples[p].labels = <<lbl(key, x)>> => labelOf(p, key) = x
  /\ \A p, a : samples[p] = infoOf(a) => labelOf(p, "priority") = text(a.priority)
<1>1. ASSUME NEW p, NEW k, samples[p].labels = groupLabels(k)
      PROVE  labelOf(p, "session_type") = k.mode /\ labelOf(p, "client") = k.client
  <2> DEFINE s == lbl("session_type", k.mode)
             c == lbl("client", k.client)
  <2>1. ToSet(samples[p].labels) = {s, c}
    BY <1>1 DEF groupLabels, ToSet
  <2>2. /\ s.key = "session_type" /\ s.value = k.mode
        /\ c.key = "client" /\ c.value = k.client
    BY DEF lbl
  <2>3. s.key # c.key
    BY <2>2
  <2> HIDE DEF s, c
  <2>4. labelOf(p, s.key) = s.value /\ labelOf(p, c.key) = c.value
    BY <2>1, <2>3, LabelChosen
  <2> QED BY <2>2, <2>4
<1>2. ASSUME NEW p, NEW key, NEW x, samples[p].labels = <<lbl(key, x)>>
      PROVE  labelOf(p, key) = x
  <2> DEFINE l == lbl(key, x)
  <2>1. ToSet(samples[p].labels) = {l}
    BY <1>2 DEF ToSet
  <2>2. l.key = key /\ l.value = x
    BY DEF lbl
  <2> HIDE DEF l
  <2>3. labelOf(p, l.key) = l.value
    BY <2>1, LabelChosen
  <2> QED BY <2>2, <2>3
<1>3. ASSUME NEW p, NEW a, samples[p] = infoOf(a)
      PROVE  labelOf(p, "priority") = text(a.priority)
  <2> DEFINE l == lbl("priority", text(a.priority))
             c == lbl("category", text(a.category))
             m == lbl("message", text(a.message))
             t == lbl("timestamp", text(a.timestamp))
  <2>1. samples[p].labels = <<l, c, m, t>>
    BY <1>3 DEF infoOf, alertSamples, gauge
  <2>2. ToSet(samples[p].labels) = {l, c, m, t}
    BY <2>1 DEF ToSet
  <2>3. /\ l.key = "priority" /\ l.value = text(a.priority)
        /\ c.key = "category" /\ m.key = "message" /\ t.key = "timestamp"
    BY DEF lbl
  <2> HIDE DEF l, c, m, t
  <2>4. l.key # c.key /\ l.key # m.key /\ l.key # t.key
    BY <2>3
  <2>5. labelOf(p, l.key) = l.value
    BY <2>2, <2>4, LabelChosen
  <2> QED BY <2>3, <2>5
<1> QED BY <1>1, <1>2, <1>3

(* One sample, or none, says a sum. *)
LEMMA SumsSaid ==
  ASSUME NEW P, NEW readings, NEW f,
         IsFiniteSet(DOMAIN readings),
         \A m \in DOMAIN readings : f[m] \in Nat /\ readings[m].value = f[m],
         \A p, q \in P : p = q,
         P = {} <=> {m \in DOMAIN readings : readings[m].ok} = {},
         \A p \in P : /\ samples[p].value \in Nat
                      /\ samples[p].value
                           = SumFunctionOnSet(f, {m \in DOMAIN readings : readings[m].ok})
  PROVE  Sums(P, readings)
<1> DEFINE R == {m \in DOMAIN readings : readings[m].ok}
           g == [m \in R |-> readings[m].value]
           v == [n \in P |-> samples[n].value]
<1>1. IsFiniteSet(R)
  <2>1. R \subseteq DOMAIN readings
    OBVIOUS
  <2> QED BY <2>1, FS_Subset
<1>2. \A m \in R : f[m] \in Nat /\ g[m] = f[m]
  OBVIOUS
<1>3. \A p \in P : v[p] \in Nat /\ v[p] = SumFunctionOnSet(f, R)
  OBVIOUS
<1>4. P = {} <=> R = {}
  OBVIOUS
<1>5. total(P) = SumFunctionOnSet(v, P)
  BY DEF total
<1>6. Sums(P, readings) <=> /\ P = {} <=> R = {}
                            /\ Cardinality(P) <= 1
                            /\ total(P) = SumFunctionOnSet(g, R)
  BY DEF Sums
<1> HIDE DEF R, g, v
<1>7. SumFunctionOnSet(f, R) = SumFunctionOnSet(g, R)
  BY <1>1, <1>2, SumAgrees
<1>8. CASE P = {}
  <2>1. Cardinality(P) = 0 /\ IsFiniteSet(P)
    BY <1>8, FS_EmptySet
  <2>2. SumFunctionOnSet(v, P) = 0
    BY <1>3, <1>8, <2>1, SumAdds
  <2>3. SumFunctionOnSet(f, R) = 0
    BY <1>1, <1>2, <1>4, <1>8, SumAdds
  <2> QED BY <1>4, <1>5, <1>6, <1>7, <2>1, <2>2, <2>3
<1>9. CASE P # {}
  <2>1. PICK p : p \in P
    BY <1>9
  <2>2. P = {p}
    BY <2>1
  <2>3. IsFiniteSet(P) /\ Cardinality(P) = 1 /\ IsFiniteSet({})
    BY <2>2, FS_Singleton, FS_EmptySet
  <2>4. SumFunctionOnSet(v, P) = v[p] + SumFunctionOnSet(v, P \ {p})
    BY <1>3, <2>1, <2>3, SumAdds
  <2>5. P \ {p} = {}
    BY <2>2
  <2>6. SumFunctionOnSet(v, {}) = 0
    BY <2>3, SumAdds
  <2>7. SumFunctionOnSet(v, P) = v[p]
    BY <1>3, <2>1, <2>4, <2>5, <2>6
  <2> QED BY <1>3, <1>4, <1>5, <1>6, <1>7, <2>1, <2>3, <2>7
<1> QED BY <1>8, <1>9

-----------------------------------------------------------------------------
(* The tables of the sessions, at the positions of the samples. *)
SessionsTabled(items) ==
  /\ Tabled(at("nsr_session_active"), activeTable(items), pairAt)
  /\ Tabled(at("nsr_session_bytes"), bytesTable(items), pairAt)
  /\ Tabled(at("nsr_session_transfer_bytes_per_second"), rateTable(items), pairAt)
  /\ Tabled(at("nsr_active_sessions"), modeTable(items), oneAt("session_type"))

LEMMA SessionTables ==
  ASSUME CycleInv, NEW items \in Seq(Item["sessions"]), SessionsSay(ToSet(samples), items)
  PROVE  SessionsTabled(items)
<1>1. /\ "nsr_session_active" \notin PerItem /\ "nsr_session_bytes" \notin PerItem
      /\ "nsr_session_transfer_bytes_per_second" \notin PerItem
      /\ "nsr_active_sessions" \notin PerItem
  BY DEF PerItem
<1>2. keysIn(items) \subseteq SessionKey /\ modesIn(items) \subseteq GoodValue
  <2>1. ASSUME NEW s \in Item["sessions"]
        PROVE  s.mode \in Text /\ s.clientHostname \in Text
    <3>1. s \in [mode : Text, clientHostname : Text, size : Size, transferRate : Size]
      BY DEF Item
    <3> QED BY <3>1
  <2>2. \A m \in DOMAIN items : /\ text(items[m].mode) \in GoodValue
                                /\ text(items[m].clientHostname) \in GoodValue
    BY <2>1, SessionReadings, GoodTexts
  <2> QED BY <2>2 DEF keysIn, modesIn, keyOf, SessionKey
<1>3. ASSUME NEW name, NEW table, DOMAIN table \subseteq SessionKey,
             NEW p \in at(name), NEW k \in DOMAIN table, samples[p].labels = pairLabels[k]
      PROVE  pairAt[p] = k
  <2>1. samples[p].labels = groupLabels(k) /\ p \in DOMAIN samples /\ k \in SessionKey
    BY <1>3 DEF pairLabels, at
  <2>2. labelOf(p, "session_type") = k.mode /\ labelOf(p, "client") = k.client
    BY <2>1, LabelsOf
  <2> QED BY <2>1, <2>2 DEF pairAt, SessionKey
<1>4. ASSUME NEW p \in at("nsr_active_sessions"), NEW x \in DOMAIN modeTable(items),
             samples[p].labels = oneLabel("session_type")[x]
      PROVE  oneAt("session_type")[p] = x
  <2>1. x \in GoodValue /\ p \in DOMAIN samples
    BY <1>2 DEF modeTable, at
  <2>2. samples[p].labels = <<lbl("session_type", x)>>
    BY <1>4, <2>1 DEF oneLabel
  <2> QED BY <2>1, <2>2, LabelsOf DEF oneAt
<1>5. /\ DOMAIN activeTable(items) \subseteq SessionKey
      /\ DOMAIN bytesTable(items) \subseteq SessionKey
      /\ DOMAIN rateTable(items) \subseteq SessionKey
  BY <1>2 DEF activeTable, bytesTable, rateTable
<1>6. Tabled(at("nsr_session_active"), activeTable(items), pairAt)
  <2>1. Says(ToSet(samples), "nsr_session_active", activeTable(items), pairLabels)
    BY DEF SessionsSay
  <2> QED BY <1>1, <1>3, <1>5, <2>1, TableAt
<1>7. Tabled(at("nsr_session_bytes"), bytesTable(items), pairAt)
  <2>1. Says(ToSet(samples), "nsr_session_bytes", bytesTable(items), pairLabels)
    BY DEF SessionsSay
  <2> QED BY <1>1, <1>3, <1>5, <2>1, TableAt
<1>8. Tabled(at("nsr_session_transfer_bytes_per_second"), rateTable(items), pairAt)
  <2>1. Says(ToSet(samples), "nsr_session_transfer_bytes_per_second", rateTable(items), pairLabels)
    BY DEF SessionsSay
  <2> QED BY <1>1, <1>3, <1>5, <2>1, TableAt
<1>9. Tabled(at("nsr_active_sessions"), modeTable(items), oneAt("session_type"))
  <2>1. Says(ToSet(samples), "nsr_active_sessions", modeTable(items), oneLabel("session_type"))
    BY DEF SessionsSay
  <2> QED BY <1>1, <1>4, <2>1, TableAt
<1> QED BY <1>6, <1>7, <1>8, <1>9 DEF SessionsTabled

(* Samples that are alike are those of the same entry. *)
LEMMA LikePair ==
  ASSUME NEW P \in SUBSET DOMAIN samples, NEW n \in DOMAIN samples
  PROVE  /\ like(P, n, {"session_type", "client"}) = {p \in P : pairAt[p] = pairAt[n]}
         /\ \A key : like(P, n, {key}) = {p \in P : oneAt(key)[p] = oneAt(key)[n]}
         /\ oneAt("session_type")[n] = pairAt[n].mode
BY DEF like, pairAt, oneAt

LEMMA SessionsMatched ==
  ASSUME NEW n \in DOMAIN samples
  PROVE  sessionsOf(n) = ofKey(server["sessions"], pairAt[n])
BY DEF sessionsOf, ofKey, pairAt, keyOf

(* A mode's sessions are those of its groups. *)
LEMMA ModesAddUp ==
  ASSUME CycleInv, NEW items \in Seq(Item["sessions"]), SessionsTabled(items),
         NEW n \in at("nsr_active_sessions")
  PROVE  samples[n].value = total(like(at("nsr_session_active"), n, {"session_type"}))
<1> DEFINE A == at("nsr_session_active")
           M == at("nsr_active_sessions")
           x == oneAt("session_type")[n]
           S == ofMode(items, x)
           K == like(A, n, {"session_type"})
           v == [p \in K |-> samples[p].value]
           h == [m \in S |-> CHOOSE p \in A : pairAt[p] = keyOf(items[m])]
<1>1. A \subseteq DOMAIN samples /\ M \subseteq DOMAIN samples /\ IsFiniteSet(A)
  BY Positions
<1>2. /\ K = {p \in A : oneAt("session_type")[p] = x}
      /\ \A p \in A : oneAt("session_type")[p] = pairAt[p].mode
  <2>1. A \in SUBSET DOMAIN samples /\ n \in DOMAIN samples
    BY <1>1
  <2>2. \A p \in A : oneAt("session_type")[p] = pairAt[p].mode
    BY <1>1, LikePair
  <2>3. \A key : like(A, n, {key}) = {p \in A : oneAt(key)[p] = oneAt(key)[n]}
    BY <2>1, LikePair
  <2> QED BY <2>2, <2>3
<1>3. K \subseteq A /\ IsFiniteSet(K) /\ \A p \in A : p \in K <=> pairAt[p].mode = x
  <2>1. K \subseteq A /\ \A p \in A : p \in K <=> pairAt[p].mode = x
    BY <1>2
  <2> QED BY <1>1, <2>1, FS_Subset
<1>4. IsFiniteSet(S) /\ S \subseteq DOMAIN items /\ \A m \in DOMAIN items : m \in S <=> keyOf(items[m]).mode = x
  <2>1. S \subseteq DOMAIN items /\ \A m \in DOMAIN items : m \in S <=> keyOf(items[m]).mode = x
    BY DEF ofMode, keyOf
  <2>2. IsFiniteSet(DOMAIN items)
    <3>1. DOMAIN items = 1..Len(items) /\ Len(items) \in Nat
      OBVIOUS
    <3> QED BY <3>1, FS_Interval
  <2> QED BY <2>1, <2>2, FS_Subset
<1>5. /\ \A p \in A : samples[p].value = Cardinality(ofKey(items, pairAt[p]))
      /\ \A m \in DOMAIN items : \E p \in A : pairAt[p] = keyOf(items[m])
      /\ \A p, q \in A : pairAt[p] = pairAt[q] => p = q
  <2> DEFINE t == activeTable(items)
  <2>1. Tabled(A, t, pairAt)
    BY DEF SessionsTabled
  <2>2. DOMAIN t = keysIn(items) /\ \A k \in keysIn(items) : t[k] = Cardinality(ofKey(items, k))
    BY DEF activeTable
  <2>3. \A m \in DOMAIN items : keyOf(items[m]) \in keysIn(items)
    BY DEF keysIn
  <2> HIDE DEF t, A
  <2> QED BY <2>1, <2>2, <2>3 DEF Tabled
<1>6. samples[n].value = Cardinality(S)
  BY DEF SessionsTabled, Tabled, modeTable
<1>7. \A m \in S : h[m] \in A /\ pairAt[h[m]] = keyOf(items[m])
  BY <1>4, <1>5
<1>8. h \in [S -> K]
  <2>1. \A m \in S : h[m] \in K
    BY <1>3, <1>4, <1>7
  <2> QED BY <2>1
<1>9. \A p \in K : v[p] = Cardinality({m \in S : h[m] = p})
  <2> SUFFICES ASSUME NEW p \in K PROVE v[p] = Cardinality({m \in S : h[m] = p})
    OBVIOUS
  <2>1. p \in A /\ pairAt[p].mode = x
    BY <1>3
  <2>2. \A m \in S : h[m] = p <=> keyOf(items[m]) = pairAt[p]
    BY <1>5, <1>7, <2>1
  <2>3. {m \in S : h[m] = p} = {m \in S : keyOf(items[m]) = pairAt[p]}
    BY <2>2
  <2>4. {m \in S : keyOf(items[m]) = pairAt[p]} = ofKey(items, pairAt[p])
    BY <1>4, <2>1 DEF ofKey
  <2> QED BY <1>5, <2>1, <2>3, <2>4
<1>10. total(K) = SumFunctionOnSet(v, K)
  BY DEF total
<1> HIDE DEF S, K, v, h
<1>11. SumFunctionOnSet(v, K) = Cardinality(S)
  BY <1>3, <1>4, <1>8, <1>9, SumOfParts
<1> QED BY <1>6, <1>10, <1>11 DEF K

(* A client's bytes and rate are the sums of its readable sessions. *)
LEMMA ReadingsAddUp ==
  ASSUME CycleInv, NEW items \in Seq(Item["sessions"]), items = server["sessions"],
         SessionsTabled(items), NEW n \in at("nsr_session_active")
  PROVE  /\ Sums(like(at("nsr_session_bytes"), n, {"session_type", "client"}),
                 [m \in sessionsOf(n) |-> Bytes(items[m].size)])
         /\ Sums(like(at("nsr_session_transfer_bytes_per_second"), n, {"session_type", "client"}),
                 [m \in sessionsOf(n) |-> BytesPerSecond(items[m].transferRate)])
<1> DEFINE k == pairAt[n]
           O == ofKey(items, k)
<1>1. /\ at("nsr_session_bytes") \subseteq DOMAIN samples
      /\ at("nsr_session_transfer_bytes_per_second") \subseteq DOMAIN samples
      /\ n \in DOMAIN samples
      /\ \A p \in at("nsr_session_bytes") : samples[p].value \in Nat
      /\ \A p \in at("nsr_session_transfer_bytes_per_second") : samples[p].value \in Nat
  BY Positions
<1>2. sessionsOf(n) = O
  BY <1>1, SessionsMatched
<1>3. IsFiniteSet(O) /\ O \subseteq DOMAIN items
  <2>1. O \subseteq DOMAIN items
    BY DEF ofKey
  <2>2. DOMAIN items = 1..Len(items) /\ Len(items) \in Nat
    BY SessionReadings
  <2>3. IsFiniteSet(DOMAIN items)
    BY <2>2, FS_Interval
  <2> QED BY <2>1, <2>3, FS_Subset
<1>4. k \in keysIn(items)
  BY DEF SessionsTabled, Tabled, activeTable
<1>5. Sums(like(at("nsr_session_bytes"), n, {"session_type", "client"}),
           [m \in sessionsOf(n) |-> Bytes(items[m].size)])
  <2> DEFINE P == {p \in at("nsr_session_bytes") : pairAt[p] = k}
             r == [m \in O |-> Bytes(items[m].size)]
             R == {m \in DOMAIN r : r[m].ok}
  <2>1. like(at("nsr_session_bytes"), n, {"session_type", "client"}) = P
    BY <1>1, LikePair
  <2>2. R = sized(items, k)
    BY DEF sized
  <2>3. DOMAIN r = O /\ \A m \in DOMAIN r : sizes(items)[m] \in Nat /\ r[m].value = sizes(items)[m]
    BY <1>3, SessionReadings
  <2>4. /\ \A p \in at("nsr_session_bytes") :
             /\ pairAt[p] \in keysIn(items) /\ sized(items, pairAt[p]) # {}
             /\ samples[p].value = SumFunctionOnSet(sizes(items), sized(items, pairAt[p]))
        /\ sized(items, k) # {} => \E p \in at("nsr_session_bytes") : pairAt[p] = k
        /\ \A p, q \in at("nsr_session_bytes") : pairAt[p] = pairAt[q] => p = q
    BY <1>4 DEF SessionsTabled, Tabled, bytesTable
  <2>5. /\ \A p, q \in P : p = q
        /\ P = {} <=> R = {}
        /\ \A p \in P : samples[p].value \in Nat /\ samples[p].value = SumFunctionOnSet(sizes(items), R)
    BY <1>1, <2>2, <2>4, ZenonT(60)
  <2> HIDE DEF P, r
  <2>6. Sums(P, r)
    BY <1>3, <2>3, <2>5, SumsSaid, ZenonT(60)
  <2> QED BY <1>2, <2>1, <2>6 DEF r
<1>6. Sums(like(at("nsr_session_transfer_bytes_per_second"), n, {"session_type", "client"}),
           [m \in sessionsOf(n) |-> BytesPerSecond(items[m].transferRate)])
  <2> DEFINE Q == at("nsr_session_transfer_bytes_per_second")
             P == {p \in Q : pairAt[p] = k}
             r == [m \in O |-> BytesPerSecond(items[m].transferRate)]
             R == {m \in DOMAIN r : r[m].ok}
  <2>1. like(Q, n, {"session_type", "client"}) = P
    BY <1>1, LikePair
  <2>2. R = rated(items, k)
    BY DEF rated, BytesPerSecond
  <2>3. DOMAIN r = O /\ \A m \in DOMAIN r : rates(items)[m] \in Nat /\ r[m].value = rates(items)[m]
    BY <1>3, SessionReadings DEF BytesPerSecond
  <2>4. /\ \A p \in Q :
             /\ pairAt[p] \in keysIn(items) /\ rated(items, pairAt[p]) # {}
             /\ samples[p].value = SumFunctionOnSet(rates(items), rated(items, pairAt[p]))
        /\ rated(items, k) # {} => \E p \in Q : pairAt[p] = k
        /\ \A p, q \in Q : pairAt[p] = pairAt[q] => p = q
    BY <1>4 DEF SessionsTabled, Tabled, rateTable
  <2>5. /\ \A p, q \in P : p = q
        /\ P = {} <=> R = {}
        /\ \A p \in P : samples[p].value \in Nat /\ samples[p].value = SumFunctionOnSet(rates(items), R)
    BY <1>1, <2>2, <2>4, ZenonT(60)
  <2> HIDE DEF P, r
  <2>6. Sums(P, r)
    BY <1>3, <2>3, <2>5, SumsSaid, ZenonT(60)
  <2> QED BY <1>2, <2>1, <2>6 DEF r
<1> QED BY <1>5, <1>6

LEMMA SessionsCounted == CycleInv /\ SessionsKept(samples, server) => SessionsAddUp
<1> SUFFICES ASSUME CycleInv, SessionsKept(samples, server) PROVE SessionsAddUp
  OBVIOUS
<1> DEFINE items == server["sessions"]
           A == at("nsr_session_active")
           M == at("nsr_active_sessions")
<1>1. CASE NoneOf("sessions", samples)
  <2>1. A = {} /\ M = {}
    BY <1>1, AggregateRequests DEF NoneOf, at
  <2> QED BY <2>1 DEF SessionsAddUp
<1>2. CASE SessionsSay(ToSet(samples), items)
  <2>1. items \in Seq(Item["sessions"])
    <3>1. "sessions" \in DOMAIN Item
      BY DEF Item
    <3> QED BY <3>1, ServerAssumption DEF CycleInv
  <2>2. SessionsTabled(items)
    BY <1>2, <2>1, SessionTables
  <2>3. A \subseteq DOMAIN samples /\ M \subseteq DOMAIN samples
    BY Positions
  <2>4. ASSUME NEW n \in A PROVE Cardinality(like(M, n, {"session_type"})) = 1
    <3> DEFINE x == oneAt("session_type")[n]
    <3>1. like(M, n, {"session_type"}) = {p \in M : oneAt("session_type")[p] = x}
      BY <2>3, LikePair
    <3>2. x \in modesIn(items)
      <4>1. pairAt[n] \in keysIn(items) /\ x = pairAt[n].mode
        BY <2>2, <2>3, <2>4, LikePair DEF SessionsTabled, Tabled, activeTable
      <4> QED BY <4>1 DEF keysIn, modesIn, keyOf
    <3>3. /\ \E p \in M : oneAt("session_type")[p] = x
          /\ \A p, q \in M : oneAt("session_type")[p] = oneAt("session_type")[q] => p = q
      BY <2>2, <3>2 DEF SessionsTabled, Tabled, modeTable
    <3>4. PICK p \in M : {m \in M : oneAt("session_type")[m] = x} = {p}
      BY <3>3
    <3> QED BY <3>1, <3>4, FS_Singleton
  <2>5. ASSUME NEW n \in A PROVE samples[n].value = Cardinality(sessionsOf(n))
    <3>1. samples[n].value = Cardinality(ofKey(items, pairAt[n]))
      BY <2>2, <2>5 DEF SessionsTabled, Tabled, activeTable
    <3> QED BY <2>3, <2>5, <3>1, SessionsMatched
  <2> QED BY <2>1, <2>2, <2>4, <2>5, ModesAddUp, ReadingsAddUp DEF SessionsAddUp
<1>3. NoneOf("sessions", samples) \/ SessionsSay(ToSet(samples), items)
  BY DEF SessionsKept
<1> QED BY <1>1, <1>2, <1>3

-----------------------------------------------------------------------------
LEMMA AlertsCounted == CycleInv /\ AlertsKept(samples, server) => AlertsAddUp
<1> SUFFICES ASSUME CycleInv, AlertsKept(samples, server) PROVE AlertsAddUp
  OBVIOUS
<1> DEFINE items == server["alerts"]
           C == at("nsr_alerts_active")
           L == at("nsr_alert_info")
           o == oneAt("priority")
<1>1. /\ C \subseteq DOMAIN samples /\ IsFiniteSet(C)
      /\ L \subseteq DOMAIN samples /\ IsFiniteSet(L)
  BY Positions
<1>2. CASE NoneOf("alerts", samples)
  <2>1. C = {} /\ L = {}
    BY <1>2, AggregateRequests DEF NoneOf, at
  <2>2. total(C) = 0
    <3> DEFINE v == [n \in C |-> samples[n].value]
    <3>1. \A n \in C : v[n] \in Nat
      BY <2>1
    <3>2. total(C) = SumFunctionOnSet(v, C)
      BY DEF total
    <3> HIDE DEF v
    <3> QED BY <1>1, <2>1, <3>1, <3>2, SumAdds
  <2>3. Cardinality(L) = 0
    BY <2>1, FS_EmptySet
  <2> QED BY <2>1, <2>2, <2>3 DEF AlertsAddUp
<1>3. CASE AlertsListed(samples, items)
  <2>1. items \in Seq(Item["alerts"])
    <3>1. "alerts" \in DOMAIN Item
      BY DEF Item
    <3> QED BY <3>1, ServerAssumption DEF CycleInv
  <2>2. \A m \in DOMAIN items : text(items[m].priority) \in GoodValue
    <3>1. ASSUME NEW a \in Item["alerts"] PROVE a.priority \in Text
      <4>1. a \in [priority : Text, category : Text, message : Text, timestamp : Text]
        BY DEF Item
      <4> QED BY <4>1
    <3>2. \A m \in DOMAIN items : items[m] \in Item["alerts"]
      BY <2>1
    <3> QED BY <3>1, <3>2, GoodTexts
  <2>3. L = DOMAIN items /\ \A m \in L : samples[m] = infoOf(items[m])
    <3>1. DOMAIN items = 1..Len(items)
      BY <2>1
    <3>2. \A m \in DOMAIN items : infoOf(items[m]).name = "nsr_alert_info"
      BY DEF infoOf, alertSamples, gauge
    <3> QED BY <1>3, <3>1, <3>2 DEF AlertsListed, at
  <2>4. \A m \in L : o[m] = text(items[m].priority)
    BY <1>1, <2>3, LabelsOf DEF oneAt
  <2>5. Tabled(C, countTable(items), o)
    <3>1. "nsr_alerts_active" \notin PerItem
      BY DEF PerItem
    <3>2. Says(ToSet(samples), "nsr_alerts_active", countTable(items), oneLabel("priority"))
      BY <1>3 DEF AlertsListed
    <3>3. ASSUME NEW p \in C, NEW x \in DOMAIN countTable(items),
                 samples[p].labels = oneLabel("priority")[x]
          PROVE  o[p] = x
      <4>1. x \in GoodValue
        BY <2>2 DEF countTable, prioritiesIn
      <4>2. samples[p].labels = <<lbl("priority", x)>>
        BY <3>3, <4>1 DEF oneLabel
      <4> QED BY <1>1, <4>2, LabelsOf DEF oneAt
    <3> QED BY <3>1, <3>2, <3>3, TableAt
  <2>6. /\ \A p \in C : samples[p].value = Cardinality(ofPriority(items, o[p]))
        /\ \A m \in L : \E p \in C : o[p] = o[m]
        /\ \A p, q \in C : o[p] = o[q] => p = q
    <3> DEFINE t == countTable(items)
    <3>1. DOMAIN t = prioritiesIn(items)
      BY DEF countTable
    <3>2. \A x \in prioritiesIn(items) : t[x] = Cardinality(ofPriority(items, x))
      BY DEF countTable
    <3>3. \A m \in L : o[m] \in prioritiesIn(items)
      BY <2>3, <2>4 DEF prioritiesIn
    <3> HIDE DEF t, C, L, o, items
    <3> QED BY <2>5, <3>1, <3>2, <3>3 DEF Tabled, t
  <2>7. \A x : ofPriority(items, x) = {m \in L : o[m] = x}
    BY <2>3, <2>4 DEF ofPriority
  <2>8. ASSUME NEW n \in C
        PROVE  samples[n].value = Cardinality(like(L, n, {"priority"}))
    <3>1. like(L, n, {"priority"}) = {m \in L : o[m] = o[n]}
      BY <1>1 DEF like, oneAt
    <3> QED BY <2>6, <2>7, <3>1
  <2>9. total(C) = Cardinality(L)
    <3> DEFINE v == [p \in C |-> samples[p].value]
               h == [m \in L |-> CHOOSE p \in C : o[p] = o[m]]
    <3>1. \A m \in L : h[m] \in C /\ o[h[m]] = o[m]
      BY <2>6
    <3>2. h \in [L -> C]
      BY <3>1
    <3>3. ASSUME NEW p \in C PROVE v[p] = Cardinality({m \in L : h[m] = p})
      <4>1. \A m \in L : h[m] = p <=> o[m] = o[p]
        BY <2>6, <3>1
      <4>2. {m \in L : h[m] = p} = {m \in L : o[m] = o[p]}
        BY <4>1
      <4>3. v[p] = Cardinality(ofPriority(items, o[p]))
        BY <2>6
      <4>4. ofPriority(items, o[p]) = {m \in L : o[m] = o[p]}
        BY <2>7
      <4> HIDE DEF v, h, L, o, items, C
      <4> QED BY <4>2, <4>3, <4>4
    <3>4. total(C) = SumFunctionOnSet(v, C)
      BY DEF total
    <3> HIDE DEF v, h, C, L
    <3>5. SumFunctionOnSet(v, C) = Cardinality(L)
      BY <1>1, <3>2, <3>3, SumOfParts
    <3> QED BY <3>4, <3>5
  <2> QED BY <2>8, <2>9 DEF AlertsAddUp
<1>4. NoneOf("alerts", samples) \/ AlertsListed(samples, items)
  BY DEF AlertsKept
<1> QED BY <1>2, <1>3, <1>4

-----------------------------------------------------------------------------
(* AggregatesAddUp for every server and whichever requests fail: alerts    *)
(* and sessions are counted as often as they are listed, and bytes and     *)
(* rates are exported of readable sessions only, as their sum              *)
(* (alerts.go:36-54, sessions.go:47-91).                                   *)
THEOREM AggregatesAddUpAlways == CollectSpec => []AggregatesAddUp
<1>1. CycleInv /\ AddUpInv => AggregatesAddUp
  BY SessionsCounted, AlertsCounted DEF AddUpInv, AggregatesAddUp
<1> QED BY <1>1, AddUpInvariant, PTL
=============================================================================
