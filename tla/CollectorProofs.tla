-------------------------- MODULE CollectorProofs --------------------------
(***************************************************************************)
(* The collection loop, for any number of systems, collectors and          *)
(* concurrent polls and any behaviour of the servers: it is type correct,  *)
(* it polls within its limit and Wait separates the goroutines' writes     *)
(* from the reads, and what it publishes is one cycle's samples that       *)
(* Gather accepts.                                                         *)
(***************************************************************************)
EXTENDS Collector, SampleLemmas, SequenceTheorems

LEMMA SlotFacts ==
  /\ Len(Systems) \in Nat /\ Len(Systems) >= 1
  /\ \A i \in Slot : Systems[i] \in System
  /\ \A sys \in System : sys \in GoodValue /\ sys \in Value
BY SystemsAssumption, LabelsAssumption, CollectorAssumption DEF Slot, System

LEMMA StampType ==
  ASSUME NEW n \in 0..Stamps
  PROVE  NextStamp(n) \in Stamp /\ NextStamp(n) \in 0..Stamps /\ NextStamp(n) \in Nat
BY CycleAssumption DEF NextStamp, Stamp

(* Stamping, tagging and the two added samples yield samples. *)
LEMMA StampedFacts ==
  ASSUME NEW q \in Seq(Sample), NEW n \in Nat
  PROVE  /\ Stamped(q, n) \in Seq(Sample)
         /\ Len(Stamped(q, n)) = Len(q)
         /\ \A i \in 1..Len(q) : Stamped(q, n)[i].name = q[i].name /\ Stamped(q, n)[i].value = n
<1> DEFINE e(s) == [s EXCEPT !.value = n]
<1>1. ASSUME NEW s \in Sample
      PROVE  e(s) \in Sample /\ e(s).name = s.name /\ e(s).value = n
  BY DEF Sample
<1>2. Stamped(q, n) = [i \in 1..Len(q) |-> e(q[i])]
  BY DEF Stamped
<1>3. Len(q) \in Nat /\ \A i \in 1..Len(q) : q[i] \in Sample
  OBVIOUS
<1> HIDE DEF e
<1> QED BY <1>1, <1>2, <1>3

LEMMA TaggedFacts ==
  ASSUME NEW q \in Seq(Sample), NEW sys \in System
  PROVE  /\ Tagged(q, sys) \in Seq(Sample)
         /\ Len(Tagged(q, sys)) = Len(q)
         /\ \A i \in 1..Len(q) : Tagged(q, sys)[i].name = q[i].name
                              /\ Tagged(q, sys)[i].value = q[i].value
<1> DEFINE tag == [key |-> systemLabel, value |-> sys]
<1>1. tag \in Label
  BY SlotFacts, LabelsAssumption DEF Label
<1> HIDE DEF tag
<1>2. ASSUME NEW s \in Sample
      PROVE  /\ [s EXCEPT !.labels = Append(@, tag)] \in Sample
             /\ [s EXCEPT !.labels = Append(@, tag)].name = s.name
             /\ [s EXCEPT !.labels = Append(@, tag)].value = s.value
  <2>1. Append(s.labels, tag) \in Seq(Label)
    BY <1>1 DEF Sample
  <2> QED BY <2>1 DEF Sample
<1>3. ASSUME NEW s \in Sample
      PROVE  /\ withSystem(s, sys) \in Sample
             /\ withSystem(s, sys).name = s.name
             /\ withSystem(s, sys).value = s.value
  BY <1>2 DEF withSystem, tag
<1>4. \A i \in 1..Len(q) : q[i] \in Sample
  OBVIOUS
<1>5. Len(q) \in Nat
  OBVIOUS
<1> QED BY <1>3, <1>4, <1>5 DEF Tagged

LEMMA AddedSampleTypes ==
  /\ \A healthy \in BOOLEAN : upSample(healthy) \in Sample /\ upSample(healthy).name = upName
  /\ durationSample \in Sample /\ durationSample.name = durationName
<1>1. <<>> \in Seq(Label)
  OBVIOUS
<1> QED BY <1>1, CycleAssumption DEF upSample, durationSample, Sample, MetricType

-----------------------------------------------------------------------------
(* Type correctness, with what a goroutine and a slot may hold. *)

(* Samples of the cycle under way, before and after the goroutine added    *)
(* nsr_up and the duration.                                                *)
Fresh(q, n) ==
  \A k \in 1..Len(q) : q[k].name \notin CycleMetric /\ q[k].value = n
FreshOrAdded(q, n) ==
  \A k \in 1..Len(q) : q[k].name # guardMetric /\ (q[k].name \in CycleMetric \/ q[k].value = n)

SlotsAreThisCycle ==
  /\ \A i \in Slot : Fresh(gor[i].samples, cycle) /\ FreshOrAdded(perSys[i], cycle)
  /\ FreshOrAdded(all, cycle)

LEMMA ConcatFacts ==
  ASSUME NEW p \in Seq(Sample), NEW q \in Seq(Sample), NEW n
  PROVE  /\ p \o q \in Seq(Sample)
         /\ Fresh(p, n) /\ Fresh(q, n) => Fresh(p \o q, n)
         /\ FreshOrAdded(p, n) /\ FreshOrAdded(q, n) => FreshOrAdded(p \o q, n)
<1> DEFINE u == p \o q
<1>1. /\ u \in Seq(Sample) /\ Len(p) \in Nat /\ Len(q) \in Nat /\ Len(u) = Len(p) + Len(q)
      /\ \A k \in 1..Len(u) : u[k] = IF k <= Len(p) THEN p[k] ELSE q[k - Len(p)]
  BY ConcatProperties
<1> HIDE DEF u
<1>2. ASSUME NEW k \in 1..Len(u)
      PROVE  (\E j \in 1..Len(p) : u[k] = p[j]) \/ (\E j \in 1..Len(q) : u[k] = q[j])
  <2>1. CASE k <= Len(p)
    BY <1>1, <2>1
  <2>2. CASE k > Len(p)
    <3>1. k - Len(p) \in 1..Len(q)
      BY <1>1, <2>2
    <3> QED BY <1>1, <2>2, <3>1
  <2> QED BY <1>1, <2>1, <2>2
<1>3. Fresh(p, n) /\ Fresh(q, n) => Fresh(u, n)
  BY <1>2 DEF Fresh
<1>4. FreshOrAdded(p, n) /\ FreshOrAdded(q, n) => FreshOrAdded(u, n)
  BY <1>2 DEF FreshOrAdded
<1> QED BY <1>1, <1>3, <1>4 DEF u

(* What Answer appends. *)
LEMMA AnswerFacts ==
  ASSUME TypeOK, SlotsAreThisCycle, NEW i \in Slot, Fetching(i)
  PROVE  LET q == gor[i].samples \o Stamped(Emits[Systems[i]][gor[i].rc], cycle)
         IN  q \in Seq(Sample) /\ Fresh(q, cycle)
<1> DEFINE e == Emits[Systems[i]][gor[i].rc]
<1>1. gor[i] \in Goroutine /\ cycle \in Nat
  BY CycleAssumption DEF TypeOK
<1>2. gor[i].rc \in Collector /\ gor[i].samples \in Seq(Sample)
  BY <1>1, CycleAssumption DEF Goroutine, Fetching, Collector
<1>3. Systems[i] \in System
  BY SlotFacts
<1>4. e \in Seq(Sample)
  BY <1>2, <1>3, CycleAssumption
<1>5. \A k \in 1..Len(e) : e[k].name \notin CycleMetric
  BY <1>2, <1>3, EmitsAssumption
<1> HIDE DEF e
<1>6. Stamped(e, cycle) \in Seq(Sample) /\ Fresh(Stamped(e, cycle), cycle)
  BY <1>1, <1>4, <1>5, StampedFacts DEF Fresh
<1>7. Fresh(gor[i].samples, cycle)
  BY DEF SlotsAreThisCycle
<1> QED BY <1>2, <1>6, <1>7, ConcatFacts DEF e

(* What Finish leaves in the slot. *)
LEMMA FinishFacts ==
  ASSUME TypeOK, SlotsAreThisCycle, NEW i \in Slot
  PROVE  LET q == Tagged(gor[i].samples \o <<upSample(gor[i].healthy), durationSample>>,
                         Systems[i])
         IN  q \in Seq(Sample) /\ FreshOrAdded(q, cycle)
<1> DEFINE p == gor[i].samples
           a == <<upSample(gor[i].healthy), durationSample>>
           q == p \o a
<1>1. p \in Seq(Sample) /\ gor[i].healthy \in BOOLEAN
  BY DEF TypeOK, Goroutine
<1>2. upSample(gor[i].healthy) \in Sample /\ upSample(gor[i].healthy).name = upName
  BY <1>1, AddedSampleTypes
<1>3. a \in Seq(Sample) /\ Len(a) = 2 /\ a[1].name = upName /\ a[2].name = durationName
  BY <1>2, AddedSampleTypes
<1>4. FreshOrAdded(a, cycle)
  <2>1. \A k \in 1..Len(a) : a[k].name \in {upName, durationName}
    <3> HIDE DEF a
    <3> QED BY <1>3
  <2> QED BY <2>1 DEF FreshOrAdded, CycleMetric, upName, durationName, guardMetric
<1>5. FreshOrAdded(p, cycle)
  BY DEF SlotsAreThisCycle, Fresh, FreshOrAdded, CycleMetric
<1> HIDE DEF a, p
<1>6. q \in Seq(Sample) /\ FreshOrAdded(q, cycle)
  BY <1>1, <1>3, <1>4, <1>5, ConcatFacts DEF p
<1> HIDE DEF q
<1>7. Tagged(q, Systems[i]) \in Seq(Sample) /\ FreshOrAdded(Tagged(q, Systems[i]), cycle)
  BY <1>6, SlotFacts, TaggedFacts DEF FreshOrAdded
<1> QED BY <1>7 DEF q, a, p

-----------------------------------------------------------------------------
TypeInv == TypeOK /\ SlotsAreThisCycle

LEMMA EmptyFacts ==
  /\ <<>> \in Seq(Sample)
  /\ \A n : Fresh(<<>>, n) /\ FreshOrAdded(<<>>, n)
  /\ Queued \in Goroutine
<1>1. <<>> \in Seq(Sample) /\ Len(<<>>) = 0
  OBVIOUS
<1>2. \A n : Fresh(<<>>, n) /\ FreshOrAdded(<<>>, n)
  BY <1>1 DEF Fresh, FreshOrAdded
<1>3. 1 \in 1..(NumCollectors + 1)
  BY CycleAssumption
<1> QED BY <1>1, <1>2, <1>3 DEF Queued, Goroutine

LEMMA TypeInit == Init => TypeInv
<1> SUFFICES ASSUME Init PROVE TypeInv
  OBVIOUS
<1>0. 0 \in 0..Stamps /\ 1 \in 1..(Len(Systems) + 1)
  BY SlotFacts, CycleAssumption
<1>a. gor \in [Slot -> Goroutine] /\ perSys \in [Slot -> Seq(Sample)] /\ all \in Seq(Sample)
  BY EmptyFacts DEF Init
<1>b. store.samples = {} /\ store.collected = 0
  BY DEF Init, EmptySnapshot
<1>c. answered \in [System -> SUBSET Collector]
  BY DEF Init
<1>1. TypeOK
  BY <1>0, <1>a, <1>b, <1>c DEF Init, TypeOK
<1>2. SlotsAreThisCycle
  BY EmptyFacts DEF Init, SlotsAreThisCycle, Queued
<1> QED BY <1>1, <1>2 DEF TypeInv

LEMMA BeginCycleType ==
  ASSUME TypeInv, BeginCycle, ticker' \in {"none", "empty", "full"}
  PROVE  TypeInv'
<1>a. cycle' \in 0..Stamps /\ 1 \in 1..(Len(Systems) + 1)
  BY SlotFacts, StampType DEF TypeInv, TypeOK, BeginCycle
<1>b. /\ gor' \in [Slot -> Goroutine] /\ perSys' \in [Slot -> Seq(Sample)]
      /\ all' \in Seq(Sample)
  BY EmptyFacts DEF BeginCycle
<1>c. answered' \in [System -> SUBSET Collector]
  BY DEF BeginCycle
<1>1. TypeOK'
  BY <1>a, <1>b, <1>c DEF TypeInv, TypeOK, BeginCycle
<1>2. SlotsAreThisCycle'
  BY EmptyFacts DEF BeginCycle, SlotsAreThisCycle, Queued
<1> QED BY <1>1, <1>2 DEF TypeInv

(* One goroutine's step: the others, and their samples, are as before. *)
LEMMA GoroutineUpdate ==
  ASSUME TypeInv, NEW i \in Slot, NEW g \in Goroutine, Fresh(g.samples, cycle),
         gor' = [gor EXCEPT ![i] = g], UNCHANGED cycle
  PROVE  gor' \in [Slot -> Goroutine] /\ \A j \in Slot : Fresh(gor'[j].samples, cycle')
<1>1. gor \in [Slot -> Goroutine] /\ \A j \in Slot : Fresh(gor[j].samples, cycle)
  BY DEF TypeInv, TypeOK, SlotsAreThisCycle
<1>2. \A j \in Slot : gor'[j] = IF j = i THEN g ELSE gor[j]
  BY <1>1
<1> QED BY <1>1, <1>2

LEMMA TypeStep == TypeInv /\ [Next]_vars => TypeInv'
<1> SUFFICES ASSUME TypeInv, [Next]_vars
             PROVE  TypeInv'
  OBVIOUS
<1> USE SlotFacts
<1>1. CASE FirstCycle
  <2>1. ticker' \in {"none", "empty", "full"}
    BY <1>1 DEF FirstCycle, TypeInv, TypeOK
  <2> QED BY <1>1, <2>1, BeginCycleType DEF FirstCycle
<1>2. CASE Launch
  <2> DEFINE g == [gor[next] EXCEPT !.st = "running", !.late = ctxDone]
  <2>1. next \in Slot /\ gor[next] \in Goroutine /\ ctxDone \in BOOLEAN
    BY <1>2 DEF Launch, TypeInv, TypeOK, Slot, ctxDone
  <2>2. g \in Goroutine /\ g.samples = gor[next].samples
    BY <2>1 DEF Goroutine
  <2>3. gor' = [gor EXCEPT ![next] = g]
    BY <1>2 DEF Launch
  <2>4. Fresh(g.samples, cycle)
    BY <2>1, <2>2 DEF TypeInv, SlotsAreThisCycle
  <2> HIDE DEF g
  <2>5. gor' \in [Slot -> Goroutine] /\ \A j \in Slot : Fresh(gor'[j].samples, cycle')
    BY <1>2, <2>1, <2>2, <2>3, <2>4, GoroutineUpdate DEF Launch
  <2>6. TypeOK'
    BY <1>2, <2>1, <2>5 DEF Launch, TypeInv, TypeOK, Slot
  <2>7. SlotsAreThisCycle'
    BY <1>2, <2>5 DEF Launch, TypeInv, SlotsAreThisCycle
  <2> QED BY <2>6, <2>7 DEF TypeInv
<1>3. ASSUME NEW i \in Slot, Answer(i) PROVE TypeInv'
  <2> DEFINE q == gor[i].samples \o Stamped(Emits[Systems[i]][gor[i].rc], cycle)
             g == [gor[i] EXCEPT !.samples = q, !.rc = gor[i].rc + 1, !.late = ctxDone]
  <2>1. gor[i] \in Goroutine /\ ctxDone \in BOOLEAN
    BY DEF TypeInv, TypeOK, ctxDone
  <2>2. gor[i].rc \in Collector /\ gor[i].rc + 1 \in 1..(NumCollectors + 1)
    BY <1>3, <2>1, CycleAssumption DEF Answer, Fetching, Goroutine, Collector
  <2>3. q \in Seq(Sample) /\ Fresh(q, cycle)
    BY <1>3, AnswerFacts DEF TypeInv, Answer
  <2>4. gor' = [gor EXCEPT ![i] = g]
    BY <1>3 DEF Answer
  <2> HIDE DEF q
  <2>5. g \in Goroutine /\ g.samples = q
    BY <2>1, <2>2, <2>3 DEF Goroutine
  <2> HIDE DEF g
  <2>6. gor' \in [Slot -> Goroutine] /\ \A j \in Slot : Fresh(gor'[j].samples, cycle')
    BY <1>3, <2>3, <2>4, <2>5, GoroutineUpdate DEF Answer
  <2>7. answered' \in [System -> SUBSET Collector]
    BY <1>3, <2>2 DEF Answer, TypeInv, TypeOK
  <2>8. TypeOK'
    BY <1>3, <2>6, <2>7 DEF Answer, TypeInv, TypeOK
  <2>9. SlotsAreThisCycle'
    BY <1>3, <2>6 DEF Answer, TypeInv, SlotsAreThisCycle
  <2> QED BY <2>8, <2>9 DEF TypeInv
<1>4. ASSUME NEW i \in Slot, Fail(i) PROVE TypeInv'
  <2> DEFINE g == [gor[i] EXCEPT !.healthy = FALSE, !.rc = gor[i].rc + 1, !.late = ctxDone]
  <2>1. gor[i] \in Goroutine /\ ctxDone \in BOOLEAN
    BY DEF TypeInv, TypeOK, ctxDone
  <2>2. gor[i].rc + 1 \in 1..(NumCollectors + 1)
    BY <1>4, <2>1, CycleAssumption DEF Fail, Fetching, Goroutine
  <2>3. gor' = [gor EXCEPT ![i] = g]
    BY <1>4 DEF Fail
  <2>4. g \in Goroutine /\ g.samples = gor[i].samples
    BY <2>1, <2>2 DEF Goroutine
  <2>5. Fresh(g.samples, cycle)
    BY <2>4 DEF TypeInv, SlotsAreThisCycle
  <2> HIDE DEF g
  <2>6. gor' \in [Slot -> Goroutine] /\ \A j \in Slot : Fresh(gor'[j].samples, cycle')
    BY <1>4, <2>3, <2>4, <2>5, GoroutineUpdate DEF Fail
  <2>7. TypeOK'
    BY <1>4, <2>6 DEF Fail, TypeInv, TypeOK
  <2>8. SlotsAreThisCycle'
    BY <1>4, <2>6 DEF Fail, TypeInv, SlotsAreThisCycle
  <2> QED BY <2>7, <2>8 DEF TypeInv
<1>5. ASSUME NEW i \in Slot, Finish(i) PROVE TypeInv'
  <2> DEFINE q == Tagged(gor[i].samples \o <<upSample(gor[i].healthy), durationSample>>,
                         Systems[i])
             g == [gor[i] EXCEPT !.st = "done"]
  <2>1. gor[i] \in Goroutine
    BY DEF TypeInv, TypeOK
  <2>2. g \in Goroutine /\ g.samples = gor[i].samples
    BY <2>1 DEF Goroutine
  <2>3. gor' = [gor EXCEPT ![i] = g] /\ perSys' = [perSys EXCEPT ![i] = q]
    BY <1>5 DEF Finish
  <2>4. q \in Seq(Sample) /\ FreshOrAdded(q, cycle)
    BY FinishFacts DEF TypeInv
  <2>5. Fresh(g.samples, cycle)
    BY <2>2 DEF TypeInv, SlotsAreThisCycle
  <2> HIDE DEF g, q
  <2>6. gor' \in [Slot -> Goroutine] /\ \A j \in Slot : Fresh(gor'[j].samples, cycle')
    BY <1>5, <2>2, <2>3, <2>5, GoroutineUpdate DEF Finish
  <2>7. TypeOK'
    BY <1>5, <2>3, <2>4, <2>6 DEF Finish, TypeInv, TypeOK
  <2>8. SlotsAreThisCycle'
    BY <1>5, <2>3, <2>4, <2>6 DEF Finish, TypeInv, TypeOK, SlotsAreThisCycle
  <2> QED BY <2>7, <2>8 DEF TypeInv
<1>6. CASE Merge
  <2>1. merged \in Slot
    BY <1>6 DEF Merge, TypeInv, TypeOK, Slot
  <2>2. all \in Seq(Sample) /\ perSys[merged] \in Seq(Sample)
    BY <2>1 DEF TypeInv, TypeOK
  <2>3. FreshOrAdded(all, cycle) /\ FreshOrAdded(perSys[merged], cycle)
    BY <2>1 DEF TypeInv, SlotsAreThisCycle
  <2>4. all' \in Seq(Sample) /\ FreshOrAdded(all', cycle)
    BY <1>6, <2>2, <2>3, ConcatFacts DEF Merge
  <2>5. TypeOK'
    BY <1>6, <2>1, <2>4 DEF Merge, TypeInv, TypeOK, Slot
  <2>6. SlotsAreThisCycle'
    BY <1>6, <2>4 DEF Merge, TypeInv, SlotsAreThisCycle
  <2> QED BY <2>5, <2>6 DEF TypeInv
<1>7. CASE Publish
  <2>1. \A s \in Guarded(all) : s \in Sample
    BY GuardedType DEF TypeInv, TypeOK
  <2>2. TypeOK'
    BY <1>7, <2>1 DEF Publish, cycleVars, TypeInv, TypeOK
  <2>3. SlotsAreThisCycle'
    BY <1>7 DEF Publish, cycleVars, TypeInv, SlotsAreThisCycle
  <2> QED BY <2>2, <2>3 DEF TypeInv
<1>8. CASE TakeTick
  BY <1>8, BeginCycleType DEF TakeTick
<1>9. CASE DeadlinePasses \/ WaitReturns \/ TickerFires \/ Stop \/ Terminate \/ UNCHANGED vars
  <2>1. TypeOK'
    BY <1>9 DEF DeadlinePasses, WaitReturns, TickerFires, Stop, Terminate, vars, cycleVars,
                TypeInv, TypeOK
  <2>2. SlotsAreThisCycle'
    BY <1>9 DEF DeadlinePasses, WaitReturns, TickerFires, Stop, Terminate, vars, cycleVars,
                TypeInv, SlotsAreThisCycle
  <2> QED BY <2>1, <2>2 DEF TypeInv
<1> QED BY <1>1, <1>2, <1>3, <1>4, <1>5, <1>6, <1>7, <1>8, <1>9 DEF Next

(* Every state of the loop is type correct, in particular the slots that   *)
(* goroutines write concurrently and the snapshot that readers load        *)
(* (collector.go:107-155, store.go:13-16).                                 *)
THEOREM TypeCorrect == Spec => []TypeOK
<1>1. TypeInv => TypeOK
  BY DEF TypeInv
<1> QED BY <1>1, TypeInit, TypeStep, PTL DEF Spec

-----------------------------------------------------------------------------
(* The limit on concurrent polls, and Wait. *)

LEMMA RunningFinite ==
  /\ IsFiniteSet(Running) /\ Cardinality(Running) \in Nat
  /\ \A S \in SUBSET Running : Cardinality(S) <= Cardinality(Running)
<1>1. IsFiniteSet(1..Len(Systems))
  BY SlotFacts, FS_Interval
<1>2. Running \subseteq 1..Len(Systems)
  BY DEF Running, Slot
<1> HIDE DEF Running
<1>3. IsFiniteSet(Running)
  BY <1>1, <1>2, FS_Subset
<1> QED BY <1>3, FS_Subset, FS_CardinalityType

LEMMA NoneRunning ==
  ASSUME gor' = [i \in Slot |-> Queued]
  PROVE  Running' = {}
BY DEF Running, Queued

LEMMA LimitInit == Init => PolledWithinLimit
<1> SUFFICES ASSUME Init PROVE PolledWithinLimit
  OBVIOUS
<1>1. Running = {}
  BY DEF Init, Running, Queued
<1>2. MaxConcurrent \in Nat
  BY CollectorAssumption
<1> QED BY <1>1, <1>2, FS_EmptySet DEF PolledWithinLimit

LEMMA LimitStep ==
  TypeOK /\ PolledWithinLimit /\ [Next]_vars => PolledWithinLimit'
<1> SUFFICES ASSUME TypeOK, PolledWithinLimit, [Next]_vars
             PROVE  PolledWithinLimit'
  OBVIOUS
<1>0. MaxConcurrent \in Nat /\ gor \in [Slot -> Goroutine]
  BY CollectorAssumption DEF TypeOK
<1>1. CASE BeginCycle
  <2>1. Running' = {}
    BY <1>1, NoneRunning DEF BeginCycle
  <2> QED BY <1>0, <2>1, FS_EmptySet DEF PolledWithinLimit
<1>2. CASE Launch
  <2>1. next \in Slot
    BY <1>2, SlotFacts DEF Launch, TypeOK, Slot
  <2>2. Running' = Running \cup {next}
    BY <1>0, <1>2, <2>1 DEF Launch, Running
  <2>3. Cardinality(Running') <= Cardinality(Running) + 1
    <3> HIDE DEF Running
    <3>1. Cardinality(Running \cup {next})
            = IF next \in Running THEN Cardinality(Running) ELSE Cardinality(Running) + 1
      BY RunningFinite, FS_AddElement
    <3> QED BY <2>2, <3>1, RunningFinite
  <2>4. Cardinality(Running) < MaxConcurrent /\ run' = "launch"
    BY <1>2 DEF Launch
  <2>5. Cardinality(Running') <= MaxConcurrent
    <3> HIDE DEF Running
    <3>1. Cardinality(Running') \in Nat
      <4>1. IsFiniteSet(Running \cup {next})
        BY RunningFinite, FS_AddElement
      <4> QED BY <2>2, <4>1, FS_CardinalityType
    <3> QED BY <1>0, <2>3, <2>4, <3>1, RunningFinite
  <2> QED BY <2>4, <2>5 DEF PolledWithinLimit
<1>3. ASSUME NEW i \in Slot, Answer(i) \/ Fail(i) \/ Finish(i) PROVE PolledWithinLimit'
  <2>1. i \in Running
    BY <1>3 DEF Answer, Fail, Finish, Fetching, Fetched, Running
  <2>2. run = "launch" /\ run' = run
    BY <1>3, <2>1 DEF Answer, Fail, Finish, PolledWithinLimit
  <2>3. \A j \in Slot : gor'[j].st = "running" => gor[j].st = "running"
    <3>1. \A j \in Slot : j # i => gor'[j] = gor[j]
      BY <1>0, <1>3, Zenon DEF Answer, Fail, Finish
    <3> QED BY <2>1, <3>1 DEF Running
  <2>4. Running' \in SUBSET Running
    BY <2>3 DEF Running
  <2>5. Cardinality(Running') <= MaxConcurrent
    <3>1. IsFiniteSet(Running')
      BY <2>4, RunningFinite, FS_Subset
    <3>2. Cardinality(Running') \in Nat
      BY <3>1, FS_CardinalityType
    <3>3. Cardinality(Running') <= Cardinality(Running)
      BY <2>4, RunningFinite
    <3>4. Cardinality(Running) <= MaxConcurrent
      BY DEF PolledWithinLimit
    <3> QED BY <1>0, <3>2, <3>3, <3>4, RunningFinite
  <2> QED BY <2>2, <2>5 DEF PolledWithinLimit
<1>4. CASE WaitReturns
  <2>1. gor' = gor /\ Running = {}
    BY <1>4 DEF WaitReturns, cycleVars, AllFinished, Running
  <2>2. Running' = {}
    BY <2>1 DEF Running
  <2> QED BY <1>0, <2>2, FS_EmptySet DEF PolledWithinLimit
<1>5. CASE DeadlinePasses \/ TickerFires \/ Merge \/ Publish \/ Stop \/ Terminate
           \/ UNCHANGED vars
  <2>1. gor' = gor /\ (run' = "launch" <=> run = "launch")
    BY <1>5 DEF DeadlinePasses, TickerFires, Merge, Publish, Stop, Terminate, vars, cycleVars
  <2>2. Running' = Running
    BY <2>1 DEF Running
  <2> QED BY <2>1, <2>2 DEF PolledWithinLimit
<1> QED BY <1>1, <1>2, <1>3, <1>4, <1>5 DEF Next, FirstCycle, TakeTick

(* At no time are more than MaxConcurrent systems polled, and when the     *)
(* slots are read no goroutine of the cycle can still write one            *)
(* (collector.go:15-17, 116, 137-146).                                     *)
THEOREM PolledWithinLimitAlways == Spec => []PolledWithinLimit
BY TypeCorrect, LimitInit, LimitStep, PTL DEF Spec

-----------------------------------------------------------------------------
(* What is published. *)

StoreInv == StoreGatherable /\ StoreIsOneCycle

LEMMA GuardedKeepsCycle ==
  ASSUME NEW f \in Seq(Sample), NEW n, FreshOrAdded(f, n)
  PROVE  \A s \in Guarded(f) : s.name \in CycleMetric \/ s.value = n
<1>1. ASSUME NEW i \in 1..Len(f), IsKept(f, i)
      PROVE  Repaired(f, i).name \in CycleMetric \/ Repaired(f, i).value = n
  <2>1. Repaired(f, i).name = f[i].name /\ Repaired(f, i).value = f[i].value
    BY <1>1, RepairedFacts
  <2> QED BY <2>1 DEF FreshOrAdded
<1>2. ASSUME NEW sys \in System, NEW r \in Reason
      PROVE  SelfMetric(RepairCounts(f), sys, r).name \in CycleMetric
  BY DEF SelfMetric, CycleMetric
<1> QED BY <1>1, <1>2 DEF Guarded, Kept, SelfMetrics

LEMMA StoreInit == Init => StoreInv
BY DEF Init, EmptySnapshot, StoreInv, StoreGatherable, StoreIsOneCycle, GatherAccepts

LEMMA StoreStep == TypeInv /\ StoreInv /\ [Next]_vars => StoreInv'
<1> SUFFICES ASSUME TypeInv, StoreInv, [Next]_vars
             PROVE  StoreInv'
  OBVIOUS
<1>1. CASE Publish
  <2>1. store'.samples = Guarded(all) /\ store'.collected = cycle
    BY <1>1 DEF Publish
  <2>2. all \in Seq(Sample) /\ FreshOrAdded(all, cycle)
    BY DEF TypeInv, TypeOK, SlotsAreThisCycle
  <2>3. \A k \in 1..Len(all) : all[k].name # guardMetric
    BY <2>2 DEF FreshOrAdded
  <2>4. GatherAccepts(Guarded(all))
    BY <2>2, <2>3, GuardedGatherSafe
  <2>5. \A s \in Guarded(all) : s.name \in CycleMetric \/ s.value = cycle
    BY <2>2, GuardedKeepsCycle
  <2> QED BY <2>1, <2>4, <2>5 DEF StoreInv, StoreGatherable, StoreIsOneCycle
<1>2. CASE UNCHANGED store
  BY <1>2 DEF StoreInv, StoreGatherable, StoreIsOneCycle
<1>3. Publish \/ UNCHANGED store
  BY DEF Next, vars, FirstCycle, BeginCycle, Launch, Answer, Fail, Finish, DeadlinePasses,
         WaitReturns, Merge, TickerFires, TakeTick, Stop, Terminate
<1> QED BY <1>1, <1>2, <1>3

(* Readers never load a snapshot that makes the registry fail: whatever    *)
(* the servers answer, /metrics is not 500 because of a collector's        *)
(* samples (guard.go:42-46, collector.go:148-154).                         *)
THEOREM StoreGatherableAlways == Spec => []StoreGatherable
<1>1. StoreInv => StoreGatherable
  BY DEF StoreInv
<1> QED BY <1>1, TypeInit, TypeStep, StoreInit, StoreStep, PTL DEF Spec

(* Readers never load a mixture of two cycles: every fetched sample of a   *)
(* snapshot was fetched in the cycle the snapshot is stamped with          *)
(* (collector.go:111-113, 143-154).                                        *)
THEOREM StoreIsOneCycleAlways == Spec => []StoreIsOneCycle
<1>1. StoreInv => StoreIsOneCycle
  BY DEF StoreInv
<1> QED BY <1>1, TypeInit, TypeStep, StoreInit, StoreStep, PTL DEF Spec

-----------------------------------------------------------------------------
(* nsr_up: one for each system, and what it says. *)

UpOf(i) == withSystem(upSample(gor[i].healthy), Systems[i])

(* A goroutine thinks its system healthy as long as every collector it has *)
(* run answered.                                                           *)
HealthInv ==
  \A i \in Slot :
    /\ answered[Systems[i]] \subseteq 1..(gor[i].rc - 1)
    /\ gor[i].healthy <=> answered[Systems[i]] = 1..(gor[i].rc - 1)
    /\ gor[i].st = "done" => gor[i].rc = NumCollectors + 1

(* A slot that is written has its system's nsr_up and no other; all slots  *)
(* are written when they are read.                                         *)
DoneInv ==
  /\ \A i \in Slot : gor[i].st = "done" => OfName(perSys[i], upName) = {UpOf(i)}
  /\ run \in {"merge", "select", "stopped"} => \A i \in Slot : gor[i].st = "done"

(* The concatenation has those of the slots it has reached, and the        *)
(* snapshot has them all: the guard drops and rewrites none of them.       *)
MergedInv ==
  /\ run \in {"start", "launch"} => merged = 1
  /\ OfName(all, upName) = {UpOf(i) : i \in {j \in Slot : j < merged}}

PublishedInv ==
  Published => {s \in store.samples : s.name = upName} = {UpOf(i) : i \in Slot}

UpInv == HealthInv /\ DoneInv /\ MergedInv /\ PublishedInv

LEMMA UpOfFacts ==
  ASSUME TypeOK, NEW i \in Slot
  PROVE  /\ UpOf(i).name = upName /\ UpOf(i).type = "Gauge" /\ UpOf(i).help = upHelp
         /\ UpOf(i).value = (IF gor[i].healthy THEN 1 ELSE 0)
         /\ UpOf(i).labels = <<[key |-> systemLabel, value |-> Systems[i]]>>
BY DEF UpOf, withSystem, upSample

LEMMA OfNameConcat ==
  ASSUME NEW p \in Seq(Sample), NEW q \in Seq(Sample), NEW n
  PROVE  OfName(p \o q, n) = OfName(p, n) \cup OfName(q, n)
<1> DEFINE u == p \o q
<1>1. /\ Len(p) \in Nat /\ Len(q) \in Nat /\ Len(u) = Len(p) + Len(q)
      /\ \A k \in 1..Len(u) : u[k] = IF k <= Len(p) THEN p[k] ELSE q[k - Len(p)]
  BY ConcatProperties
<1> HIDE DEF u
<1>2. ASSUME NEW k \in 1..Len(u)
      PROVE  (\E j \in 1..Len(p) : u[k] = p[j]) \/ (\E j \in 1..Len(q) : u[k] = q[j])
  <2>1. CASE k <= Len(p)
    BY <1>1, <2>1
  <2>2. CASE k > Len(p)
    <3>1. k - Len(p) \in 1..Len(q)
      BY <1>1, <2>2
    <3> QED BY <1>1, <2>2, <3>1
  <2> QED BY <1>1, <2>1, <2>2
<1>3. ASSUME NEW j \in 1..Len(p) PROVE \E k \in 1..Len(u) : u[k] = p[j]
  BY <1>1
<1>4. ASSUME NEW j \in 1..Len(q) PROVE \E k \in 1..Len(u) : u[k] = q[j]
  <2>1. Len(p) + j \in 1..Len(u) /\ ~ (Len(p) + j <= Len(p)) /\ Len(p) + j - Len(p) = j
    BY <1>1
  <2> QED BY <1>1, <2>1
<1> DEFINE R(w) == {w[k] : k \in 1..Len(w)}
<1>5. R(u) = R(p) \cup R(q)
  <2>1. R(u) \subseteq R(p) \cup R(q)
    BY <1>2
  <2>2. R(p) \subseteq R(u) /\ R(q) \subseteq R(u)
    BY <1>3, <1>4
  <2> QED BY <2>1, <2>2
<1>6. \A w : OfName(w, n) = {s \in R(w) : s.name = n}
  BY DEF OfName
<1> HIDE DEF R
<1>7. OfName(u, n) = OfName(p, n) \cup OfName(q, n)
  BY <1>5, <1>6
<1> QED BY <1>7 DEF u

LEMMA OfNameEmpty == \A n : OfName(<<>>, n) = {}
<1>1. Len(<<>>) = 0
  OBVIOUS
<1> QED BY <1>1 DEF OfName

(* What Finish leaves in the slot. *)
LEMMA FinishedUp ==
  ASSUME TypeInv, NEW i \in Slot
  PROVE  OfName(Tagged(gor[i].samples \o <<upSample(gor[i].healthy), durationSample>>,
                       Systems[i]), upName) = {UpOf(i)}
<1> DEFINE p == gor[i].samples
           u == upSample(gor[i].healthy)
           a == <<u, durationSample>>
           q == p \o a
           sys == Systems[i]
<1>1. p \in Seq(Sample) /\ gor[i].healthy \in BOOLEAN /\ sys \in System
  BY SlotFacts DEF TypeInv, TypeOK, Goroutine
<1>2. u \in Sample /\ u.name = upName
  BY <1>1, AddedSampleTypes
<1>3. durationSample \in Sample /\ durationSample.name # upName
  BY AddedSampleTypes DEF durationName, upName
<1>4. \A k \in 1..Len(p) : p[k].name # upName
  BY DEF TypeInv, SlotsAreThisCycle, Fresh, CycleMetric
<1> HIDE DEF u, p, sys
<1>5. a \in Seq(Sample) /\ Len(a) = 2 /\ a[1] = u /\ a[2] = durationSample
  BY <1>2, <1>3
<1> HIDE DEF a
<1>6. OfName(p, upName) = {} /\ OfName(a, upName) = {u}
  <2>1. OfName(p, upName) = {}
    BY <1>4 DEF OfName
  <2>2. {a[k] : k \in 1..Len(a)} = {u, durationSample}
    BY <1>5
  <2> QED BY <1>2, <1>3, <2>1, <2>2 DEF OfName
<1>7. q \in Seq(Sample) /\ OfName(q, upName) = {u}
  <2>1. q \in Seq(Sample)
    BY <1>1, <1>5
  <2> QED BY <1>1, <1>5, <1>6, <2>1, OfNameConcat
<1> HIDE DEF q
<1>8. /\ Len(Tagged(q, sys)) = Len(q)
      /\ \A k \in 1..Len(q) : /\ Tagged(q, sys)[k] = withSystem(q[k], sys)
                              /\ Tagged(q, sys)[k].name = q[k].name
  <2>1. Len(q) \in Nat
    BY <1>7
  <2> QED BY <1>1, <1>7, <2>1, TaggedFacts DEF Tagged
<1>9. OfName(Tagged(q, sys), upName) = {withSystem(u, sys)}
  <2>1. \A k \in 1..Len(q) : q[k].name = upName => q[k] = u
    BY <1>7 DEF OfName
  <2>2. \E k \in 1..Len(q) : q[k] = u
    BY <1>7 DEF OfName
  <2> QED BY <1>2, <1>8, <2>1, <2>2 DEF OfName
<1> QED BY <1>9 DEF q, a, p, u, sys, UpOf

(* A list in which every nsr_up is a slot's own needs no repair of them. *)
LEMMA UpsSurviveGuard ==
  ASSUME TypeOK, NEW f \in Seq(Sample), OfName(f, upName) \subseteq {UpOf(i) : i \in Slot}
  PROVE  {s \in Guarded(f) : s.name = upName} = OfName(f, upName)
<1>1. \A s \in OfName(f, upName) : \E i \in Slot : s = UpOf(i)
  OBVIOUS
<1>2. ASSUME NEW s \in OfName(f, upName) PROVE validLabels(s.labels)
  <2>1. PICK i \in Slot : s = UpOf(i)
    BY <1>1
  <2> DEFINE l == [key |-> systemLabel, value |-> Systems[i]]
  <2>2. s.labels = <<l>> /\ l.key \in GoodKey /\ l.value \in GoodValue
    BY <2>1, UpOfFacts, SlotFacts, LabelsAssumption
  <2> HIDE DEF l
  <2> QED BY <2>2 DEF validLabels
<1>3. ASSUME NEW s \in OfName(f, upName), NEW t \in OfName(f, upName)
      PROVE  s.type = t.type /\ s.help = t.help
  BY <1>1, UpOfFacts
<1>4. ASSUME NEW s \in OfName(f, upName), NEW t \in OfName(f, upName),
             seriesKey(s) = seriesKey(t)
      PROVE  s = t
  <2>1. PICK i \in Slot, j \in Slot : s = UpOf(i) /\ t = UpOf(j)
    BY <1>1
  <2> DEFINE tag(k) == [key |-> systemLabel, value |-> Systems[k]]
  <2>2. s.labels = <<tag(i)>> /\ t.labels = <<tag(j)>>
    BY <2>1, UpOfFacts
  <2>3. tag(i).value = Systems[i] /\ tag(j).value = Systems[j]
    OBVIOUS
  <2> HIDE DEF tag
  <2>4. LabelPairs(s) = {tag(i)} /\ LabelPairs(t) = {tag(j)}
    BY <2>2 DEF LabelPairs
  <2>5. LabelPairs(s) = LabelPairs(t)
    BY <1>4 DEF seriesKey
  <2>6. Systems[i] = Systems[j]
    BY <2>3, <2>4, <2>5
  <2>7. i = j
    BY <2>6, SystemsAssumption DEF Slot
  <2> QED BY <2>1, <2>7
<1>5. upName # guardMetric
  BY DEF upName, guardMetric
<1> QED BY <1>2, <1>3, <1>4, <1>5, GuardedUntouched

(* A cycle begins with nothing done and nothing merged. *)
Begun ==
  /\ run \in {"start", "launch"} /\ merged = 1 /\ all = <<>>
  /\ gor = [i \in Slot |-> Queued]
  /\ answered = [sys \in System |-> {}]

LEMMA UpBegun == Begun => UpInv
<1> SUFFICES ASSUME Begun PROVE UpInv
  OBVIOUS
<1>1. \A i \in Slot : gor[i] = Queued /\ answered[Systems[i]] = {}
  BY SlotFacts DEF Begun
<1>2. HealthInv
  <2> SUFFICES ASSUME NEW i \in Slot
               PROVE  /\ answered[Systems[i]] = {} /\ gor[i].rc - 1 = 0
                      /\ gor[i].healthy = TRUE /\ gor[i].st # "done"
    <3>1. 1..0 = {}
      OBVIOUS
    <3> QED BY <3>1 DEF HealthInv
  <2> QED BY <1>1 DEF Queued
<1>3. DoneInv
  BY <1>1 DEF Begun, DoneInv, Queued
<1>4. MergedInv
  <2>1. {j \in Slot : j < 1} = {}
    BY SlotFacts DEF Slot
  <2>2. {UpOf(i) : i \in {j \in Slot : j < 1}} = {}
    BY <2>1
  <2> QED BY <2>2, OfNameEmpty DEF Begun, MergedInv
<1>5. PublishedInv
  BY DEF Begun, PublishedInv, Published
<1> QED BY <1>2, <1>3, <1>4, <1>5 DEF UpInv

LEMMA UpBegunNext == Begun' => UpInv'
BY UpBegun, PTL

LEMMA UpInit == Init => UpInv
BY UpBegun DEF Init, Begun

(* A step of a goroutine that runs collectors or is about to, or of the    *)
(* launch loop: nothing is merged yet.                                     *)
LEMMA UpWhileLaunching ==
  ASSUME TypeInv, UpInv, run = "launch", UNCHANGED <<run, merged, all>>
  PROVE  MergedInv' /\ PublishedInv'
<1>1. merged = 1 /\ OfName(all, upName) = {UpOf(i) : i \in {j \in Slot : j < merged}}
  BY DEF UpInv, MergedInv
<1>2. {j \in Slot : j < 1} = {}
  BY SlotFacts DEF Slot
<1>3. OfName(all, upName) = {}
  BY <1>1, <1>2
<1>4. {UpOf(i)' : i \in {j \in Slot : j < 1}} = {}
  BY <1>2
<1>5. MergedInv'
  BY <1>1, <1>3, <1>4 DEF MergedInv
<1> QED BY <1>5 DEF PublishedInv, Published

(* A collector of slot i is over: with an answer, or without one. *)
LEMMA UpCollectorOver ==
  ASSUME TypeInv, UpInv, NEW i \in Slot, NEW got \in BOOLEAN,
         run = "launch", UNCHANGED <<run, merged, all, perSys>>,
         gor' \in [Slot -> Goroutine], Fetching(i), gor'[i].st = "running",
         gor'[i].rc = gor[i].rc + 1,
         gor'[i].healthy = (IF got THEN gor[i].healthy ELSE FALSE),
         \A j \in Slot : j # i => gor'[j] = gor[j],
         answered' = [answered EXCEPT ![Systems[i]] =
                        IF got THEN @ \cup {gor[i].rc} ELSE @]
  PROVE  UpInv'
<1>1. /\ Systems[i] \in System /\ \A j \in Slot : Systems[j] \in System
      /\ \A j \in Slot : Systems[j] = Systems[i] => j = i
  BY SlotFacts, SystemsAssumption DEF Slot
<1>2. /\ \A j \in Slot : j # i => answered'[Systems[j]] = answered[Systems[j]]
      /\ answered'[Systems[i]] = IF got THEN answered[Systems[i]] \cup {gor[i].rc}
                                 ELSE answered[Systems[i]]
  BY <1>1 DEF TypeInv, TypeOK
<1>3. gor[i].rc \in Nat /\ gor[i].rc >= 1 /\ gor[i].healthy \in BOOLEAN
  BY CycleAssumption DEF TypeInv, TypeOK, Goroutine
<1>4. /\ answered[Systems[i]] \subseteq 1..(gor[i].rc - 1)
      /\ gor[i].healthy <=> answered[Systems[i]] = 1..(gor[i].rc - 1)
  BY DEF UpInv, HealthInv
<1>5. /\ answered'[Systems[i]] \subseteq 1..(gor'[i].rc - 1)
      /\ gor'[i].healthy <=> answered'[Systems[i]] = 1..(gor'[i].rc - 1)
  <2>1. /\ gor'[i].rc - 1 = gor[i].rc
        /\ 1..gor[i].rc = (1..(gor[i].rc - 1)) \cup {gor[i].rc}
        /\ gor[i].rc \notin 1..(gor[i].rc - 1)
    BY <1>3
  <2> DEFINE r == gor[i].rc
             A == answered[Systems[i]]
             N == 1..(r - 1)
  <2>2. A \subseteq N /\ r \notin N /\ 1..r = N \cup {r}
    BY <1>4, <2>1
  <2> HIDE DEF N
  <2>3. CASE got
    <3>1. A \cup {r} \subseteq 1..r /\ (A \cup {r} = 1..r <=> A = N)
      BY <2>2
    <3>2. gor'[i].healthy <=> A = N
      BY <1>4, <2>3 DEF N
    <3> QED BY <1>2, <2>1, <2>3, <3>1, <3>2
  <2>4. CASE ~ got
    <3>1. A \subseteq 1..r /\ A # 1..r
      BY <2>2
    <3> QED BY <1>2, <2>1, <2>4, <3>1
  <2> QED BY <2>3, <2>4
<1>6. HealthInv'
  <2>1. \A j \in Slot : j # i =>
          /\ answered'[Systems[j]] \subseteq 1..(gor'[j].rc - 1)
          /\ gor'[j].healthy <=> answered'[Systems[j]] = 1..(gor'[j].rc - 1)
          /\ gor'[j].st = "done" => gor'[j].rc = NumCollectors + 1
    BY <1>2 DEF UpInv, HealthInv
  <2> QED BY <1>5, <2>1 DEF HealthInv
<1>7. DoneInv'
  BY DEF UpInv, DoneInv, UpOf
<1> QED BY <1>6, <1>7, UpWhileLaunching DEF UpInv

LEMMA UpStep == TypeInv /\ PolledWithinLimit /\ UpInv /\ [Next]_vars => UpInv'
<1> SUFFICES ASSUME TypeInv, PolledWithinLimit, UpInv, [Next]_vars
             PROVE  UpInv'
  OBVIOUS
<1>0. gor \in [Slot -> Goroutine] /\ gor' \in [Slot -> Goroutine]
  BY TypeStep DEF TypeInv, TypeOK
<1>1. CASE FirstCycle \/ TakeTick
  BY <1>1, UpBegunNext DEF FirstCycle, TakeTick, BeginCycle, Begun
<1>2. CASE Launch
  <2>1. next \in Slot
    BY <1>2, SlotFacts DEF Launch, TypeInv, TypeOK, Slot
  <2>2. /\ gor'[next].st = "running"
        /\ \A j \in Slot : /\ j # next => gor'[j] = gor[j]
                           /\ gor'[j].rc = gor[j].rc
                           /\ gor'[j].healthy = gor[j].healthy
    BY <1>0, <1>2, <2>1 DEF Launch, Goroutine
  <2>3. HealthInv'
    BY <1>2, <2>2 DEF Launch, UpInv, HealthInv
  <2>4. DoneInv'
    BY <1>2, <2>2 DEF Launch, UpInv, DoneInv, UpOf
  <2> QED BY <1>2, <2>3, <2>4, UpWhileLaunching DEF Launch, UpInv
<1>3. ASSUME NEW i \in Slot, Answer(i) \/ Fail(i) \/ Finish(i) PROVE run = "launch"
  BY <1>3 DEF Answer, Fail, Finish, Fetching, Fetched, Running, PolledWithinLimit
<1>4. ASSUME NEW i \in Slot, Answer(i) PROVE UpInv'
  <2>1. /\ Fetching(i) /\ gor'[i].st = "running" /\ gor'[i].rc = gor[i].rc + 1
        /\ gor'[i].healthy = gor[i].healthy
        /\ \A j \in Slot : j # i => gor'[j] = gor[j]
    BY <1>0, <1>4 DEF Answer, Fetching, Goroutine
  <2>2. /\ answered' = [answered EXCEPT ![Systems[i]] = @ \cup {gor[i].rc}]
        /\ UNCHANGED <<run, merged, all, perSys>>
    BY <1>4 DEF Answer
  <2> QED BY <1>0, <1>3, <1>4, <2>1, <2>2, UpCollectorOver, TRUE \in BOOLEAN
<1>5. ASSUME NEW i \in Slot, Fail(i) PROVE UpInv'
  <2>1. /\ Fetching(i) /\ gor'[i].st = "running" /\ gor'[i].rc = gor[i].rc + 1
        /\ gor'[i].healthy = FALSE
        /\ \A j \in Slot : j # i => gor'[j] = gor[j]
    BY <1>0, <1>5 DEF Fail, Fetching, Goroutine
  <2>2. answered' = [answered EXCEPT ![Systems[i]] = @] /\ UNCHANGED <<run, merged, all, perSys>>
    BY <1>5 DEF Fail, TypeInv, TypeOK
  <2> QED BY <1>0, <1>3, <1>5, <2>1, <2>2, UpCollectorOver, FALSE \in BOOLEAN
<1>6. ASSUME NEW i \in Slot, Finish(i) PROVE UpInv'
  <2>1. /\ gor'[i].st = "done" /\ Fetched(i)
        /\ \A j \in Slot : /\ j # i => gor'[j] = gor[j]
                           /\ gor'[j].rc = gor[j].rc
                           /\ gor'[j].healthy = gor[j].healthy
    BY <1>0, <1>6 DEF Finish, Goroutine
  <2>2. gor[i].rc = NumCollectors + 1
    BY <1>0, <2>1, CycleAssumption DEF Fetched, Goroutine
  <2>3. HealthInv'
    BY <1>6, <2>1, <2>2 DEF Finish, UpInv, HealthInv
  <2>4. /\ \A j \in Slot : UpOf(j)' = UpOf(j)
        /\ \A j \in Slot : j # i => perSys'[j] = perSys[j]
        /\ OfName(perSys'[i], upName) = {UpOf(i)}
    BY <1>6, <2>1, FinishedUp DEF Finish, TypeInv, TypeOK, UpOf
  <2>5. DoneInv'
    BY <1>3, <1>6, <2>1, <2>4 DEF Finish, UpInv, DoneInv
  <2> QED BY <1>3, <1>6, <2>3, <2>5, UpWhileLaunching DEF Finish, UpInv
<1>7. CASE WaitReturns
  BY <1>7 DEF WaitReturns, AllFinished, cycleVars, UpInv, HealthInv, DoneInv, MergedInv,
              PublishedInv, Published, UpOf
<1>8. CASE Merge
  <2>1. merged \in Slot /\ merged' = merged + 1 /\ run' = "merge" /\ run = "merge"
    BY <1>8, SlotFacts DEF Merge, TypeInv, TypeOK, Slot
  <2>2. OfName(perSys[merged], upName) = {UpOf(merged)}
    BY <2>1 DEF UpInv, DoneInv
  <2>3. OfName(all', upName) = OfName(all, upName) \cup {UpOf(merged)}
    BY <1>8, <2>1, <2>2, OfNameConcat DEF Merge, TypeInv, TypeOK
  <2>4. {j \in Slot : j < merged + 1} = {j \in Slot : j < merged} \cup {merged}
    BY <2>1 DEF Slot
  <2>5. OfName(all', upName) = {UpOf(i) : i \in {j \in Slot : j < merged + 1}}
    BY <2>3, <2>4 DEF UpInv, MergedInv
  <2>6. \A j \in Slot : UpOf(j)' = UpOf(j)
    BY <1>8 DEF Merge, UpOf
  <2>7. MergedInv'
    BY <2>1, <2>5, <2>6 DEF MergedInv
  <2>8. HealthInv' /\ DoneInv' /\ PublishedInv'
    BY <1>8, <2>1 DEF Merge, UpInv, HealthInv, DoneInv, PublishedInv, Published, UpOf
  <2> QED BY <2>7, <2>8 DEF UpInv
<1>9. CASE Publish
  <2>1. {j \in Slot : j < merged} = Slot
    BY <1>9, SlotFacts DEF Publish, TypeInv, TypeOK, Slot
  <2>2. OfName(all, upName) = {UpOf(i) : i \in Slot}
    BY <2>1 DEF UpInv, MergedInv
  <2>3. {s \in store'.samples : s.name = upName} = {UpOf(i) : i \in Slot}
    BY <1>9, <2>2, UpsSurviveGuard DEF Publish, TypeInv, TypeOK
  <2>4. \A j \in Slot : UpOf(j)' = UpOf(j)
    BY <1>9 DEF Publish, cycleVars, UpOf
  <2>5. PublishedInv'
    BY <2>3, <2>4 DEF PublishedInv
  <2>6. HealthInv' /\ DoneInv' /\ MergedInv'
    BY <1>9 DEF Publish, cycleVars, UpInv, HealthInv, DoneInv, MergedInv, UpOf
  <2> QED BY <2>5, <2>6 DEF UpInv
<1>10. CASE DeadlinePasses \/ TickerFires \/ Stop \/ Terminate \/ UNCHANGED vars
  <2>1. UNCHANGED <<cycleVars, store>>
    BY <1>10 DEF DeadlinePasses, TickerFires, Stop, Terminate, vars, cycleVars
  <2>2. run' = run \/ (run = "select" /\ run' = "stopped")
    BY <1>10 DEF DeadlinePasses, TickerFires, Stop, Terminate, vars
  <2> QED BY <2>1, <2>2 DEF cycleVars, UpInv, HealthInv, DoneInv, MergedInv, PublishedInv,
                            Published, UpOf
<1> QED BY <1>1, <1>2, <1>4, <1>5, <1>6, <1>7, <1>8, <1>9, <1>10 DEF Next

LEMMA UpImplies == TypeOK /\ UpInv => OneUpPerSystem
<1> SUFFICES ASSUME TypeOK, UpInv, Published, NEW sys \in System
             PROVE  /\ Cardinality(UpSamples(sys)) = 1
                    /\ Up(sys) <=> answered[sys] = Collector
  BY DEF OneUpPerSystem
<1>1. PICK i \in Slot : sys = Systems[i]
  BY DEF System, Slot
<1>2. \A s \in store.samples : s.name = upName => \E j \in Slot : s = UpOf(j)
  BY DEF UpInv, PublishedInv
<1>3. \A j \in Slot : UpOf(j) \in store.samples /\ UpOf(j).name = upName
  BY DEF UpInv, PublishedInv
<1>4. ASSUME NEW j \in Slot PROVE SystemTags(UpOf(j), sys) # {} <=> j = i
  <2> DEFINE tag(x) == [key |-> systemLabel, value |-> x]
  <2>1. UpOf(j).labels = <<tag(Systems[j])>>
    BY UpOfFacts
  <2>2. tag(Systems[j]) = tag(sys) <=> Systems[j] = sys
    <3>1. tag(Systems[j]).value = Systems[j] /\ tag(sys).value = sys
      OBVIOUS
    <3> QED BY <3>1
  <2>3. Systems[j] = sys <=> j = i
    BY <1>1, SystemsAssumption DEF Slot
  <2> HIDE DEF tag
  <2>4. \A l : Len(<<l>>) = 1 /\ <<l>>[1] = l
    OBVIOUS
  <2>5. SystemTags(UpOf(j), sys) = {k \in 1..1 : <<tag(Systems[j])>>[k] = tag(sys)}
    BY <2>1, <2>4 DEF SystemTags, tag
  <2>6. 1..1 = {1}
    OBVIOUS
  <2> QED BY <2>2, <2>3, <2>4, <2>5, <2>6
<1>5. UpSamples(sys) = {UpOf(i)}
  BY <1>2, <1>3, <1>4 DEF UpSamples
<1>6. Up(sys) <=> gor[i].healthy
  <2>1. UpOf(i).value = IF gor[i].healthy THEN 1 ELSE 0
    BY UpOfFacts
  <2> QED BY <1>5, <2>1 DEF Up
<1>7. gor[i].rc = NumCollectors + 1
  BY DEF UpInv, HealthInv, DoneInv, Published
<1>8. gor[i].healthy <=> answered[sys] = Collector
  <2>1. gor[i].rc - 1 = NumCollectors
    BY <1>7, CycleAssumption
  <2> QED BY <1>1, <2>1 DEF UpInv, HealthInv, Collector
<1>9. Cardinality({UpOf(i)}) = 1
  BY FS_Singleton
<1> QED BY <1>5, <1>6, <1>8, <1>9

(* Every published snapshot says of each system once whether it is up, and *)
(* says up exactly when all of its collectors answered in that cycle: the  *)
(* sample is neither lost on its way through slots, concatenation and      *)
(* guard, nor taken from another system or cycle (collector.go:121-154,    *)
(* 157-173).                                                               *)
THEOREM OneUpPerSystemAlways == Spec => []OneUpPerSystem
<1>1. TypeInv => TypeOK
  BY DEF TypeInv
<1> QED BY <1>1, TypeInit, TypeStep, PolledWithinLimitAlways, UpInit, UpStep, UpImplies,
           PTL DEF Spec

-----------------------------------------------------------------------------
(* The loop implements the promise of module Snapshots. *)

(* What each collector contributes when those in got answer, and what each *)
(* system does.                                                            *)
Parts(sys, got, n) ==
  [c \in Collector |-> IF c \in got THEN Stamped(Emits[sys][c], n) ELSE <<>>]
Contributed == [i \in Slot |-> Contribution(Systems[i], answered[Systems[i]], cycle)]

(* A goroutine has the parts of the collectors it has run, a slot that is  *)
(* written has its system's contribution, and the concatenation has those  *)
(* of the slots it has reached, whatever the order they were written in.   *)
FetchedInv ==
  \A i \in Slot :
    gor[i].samples =
      FlattenSeq(Prefix(Parts(Systems[i], answered[Systems[i]], cycle), gor[i].rc - 1))

SlotInv == \A i \in Slot : gor[i].st = "done" => perSys[i] = Contributed[i]

ConcatInv == all = FlattenSeq(Prefix(Contributed, merged - 1))

(* A cycle under way is the one after that of the snapshot in the store. *)
StampInv ==
  cycle = IF run \in {"launch", "merge"} THEN NextStamp(store.collected)
          ELSE store.collected

RefInv == FetchedInv /\ SlotInv /\ ConcatInv /\ StampInv

(* The buffers and what they are to hold, which are all that RefInv is     *)
(* about but the stamp.                                                    *)
RefBuffers == FetchedInv /\ SlotInv /\ ConcatInv

LEMMA RefBegun == Begun => RefBuffers
<1> SUFFICES ASSUME Begun PROVE RefBuffers
  OBVIOUS
<1>1. \A i \in Slot : gor[i] = Queued /\ gor[i].rc - 1 = 0 /\ merged - 1 = 0
  BY DEF Begun, Queued
<1>2. FetchedInv
  BY <1>1, FlattenEmpty DEF FetchedInv, Queued
<1>3. SlotInv
  BY <1>1 DEF SlotInv, Queued
<1>4. ConcatInv
  <2>1. merged - 1 = 0 /\ all = <<>>
    BY DEF Begun
  <2> QED BY <2>1, FlattenEmpty DEF ConcatInv
<1> QED BY <1>2, <1>3, <1>4 DEF RefBuffers

LEMMA RefBegunNext == Begun' => RefBuffers'
BY RefBegun, PTL

LEMMA RefInit == Init => RefInv
<1>1. Init => Begun
  BY DEF Init, Begun
<1>2. Init => StampInv
  BY DEF Init, StampInv, EmptySnapshot
<1> QED BY <1>1, <1>2, RefBegun DEF RefInv, RefBuffers

LEMMA PartsType ==
  ASSUME NEW sys \in System, NEW got, NEW n \in Nat
  PROVE  Parts(sys, got, n) \in [1..NumCollectors -> Seq(Sample)]
<1>1. ASSUME NEW c \in Collector
      PROVE  Stamped(Emits[sys][c], n) \in Seq(Sample) /\ <<>> \in Seq(Sample)
  <2>1. Emits[sys][c] \in Seq(Sample)
    BY CycleAssumption
  <2> QED BY <2>1, StampedFacts, EmptyFacts
<1> QED BY <1>1 DEF Parts, Collector

(* When every collector was run, their parts are the contribution. *)
LEMMA AllPartsContribute ==
  ASSUME TypeOK, HealthInv, FetchedInv, NEW i \in Slot, gor[i].rc = NumCollectors + 1
  PROVE  Tagged(gor[i].samples \o <<upSample(gor[i].healthy), durationSample>>, Systems[i])
           = Contribution(Systems[i], answered[Systems[i]], cycle)
<1> DEFINE sys == Systems[i]
           P == Parts(sys, answered[sys], cycle)
<1>1. gor[i].rc - 1 = NumCollectors
  BY CycleAssumption
<1>2. Prefix(P, NumCollectors) = P
  BY DEF Prefix, Parts, Collector
<1>3. gor[i].samples = FlattenSeq(P)
  BY <1>1, <1>2 DEF FetchedInv
<1>4. gor[i].healthy <=> answered[sys] = Collector
  BY <1>1 DEF HealthInv, Collector
<1>5. upSample(gor[i].healthy) = upSample(answered[sys] = Collector)
  BY <1>4 DEF upSample
<1>6. Contribution(sys, answered[sys], cycle)
        = Tagged(FlattenSeq(P) \o <<upSample(answered[sys] = Collector), durationSample>>, sys)
  BY DEF Contribution, Parts
<1> QED BY <1>3, <1>5, <1>6

(* A collector of slot i is over: with an answer, or without one. *)
LEMMA RefCollectorOver ==
  ASSUME TypeInv, UpInv, RefInv, NEW i \in Slot, NEW got \in BOOLEAN,
         run = "launch", UNCHANGED <<run, merged, all, perSys, cycle, store>>,
         Fetching(i), gor'[i].st = "running", gor'[i].rc = gor[i].rc + 1,
         gor'[i].samples = (IF got THEN gor[i].samples \o Stamped(Emits[Systems[i]][gor[i].rc], cycle)
                            ELSE gor[i].samples),
         \A j \in Slot : j # i => gor'[j] = gor[j],
         answered' = [answered EXCEPT ![Systems[i]] =
                        IF got THEN @ \cup {gor[i].rc} ELSE @]
  PROVE  RefInv'
<1> DEFINE sys == Systems[i]
           r == gor[i].rc
           A == answered[sys]
           P == Parts(sys, A, cycle)
           Q == Parts(sys, answered'[sys], cycle)
<1>1. /\ sys \in System /\ \A j \in Slot : Systems[j] \in System
      /\ \A j \in Slot : Systems[j] = sys => j = i
  BY SlotFacts, SystemsAssumption DEF Slot
<1>2. /\ \A j \in Slot : j # i => answered'[Systems[j]] = answered[Systems[j]]
      /\ answered'[sys] = IF got THEN A \cup {r} ELSE A
  BY <1>1 DEF TypeInv, TypeOK
<1>3. r \in 1..NumCollectors /\ gor[i].samples \in Seq(Sample) /\ cycle \in Nat
  BY CycleAssumption DEF TypeInv, TypeOK, Goroutine, Fetching
<1>4. A \subseteq 1..(r - 1)
  BY DEF UpInv, HealthInv
<1>5. Prefix(Q, r - 1) = Prefix(P, r - 1)
  <2>1. \A c \in 1..(r - 1) : c \in Collector /\ (c \in answered'[sys] <=> c \in A)
    BY <1>2, <1>3, CycleAssumption DEF Collector
  <2>2. \A c \in 1..(r - 1) : Q[c] = P[c]
    BY <2>1 DEF Parts
  <2> HIDE DEF P, Q
  <2> QED BY <2>2 DEF Prefix
<1>6. Q[r] = IF got THEN Stamped(Emits[sys][r], cycle) ELSE <<>>
  <2>1. r \in answered'[sys] <=> got
    BY <1>2, <1>3, <1>4
  <2> QED BY <1>3, <2>1 DEF Parts, Collector
<1>7. gor'[i].samples = gor[i].samples \o Q[r]
  <2>1. CASE got
    <3> HIDE DEF Q
    <3> QED BY <1>6, <2>1
  <2>2. CASE ~ got
    <3>1. gor[i].samples \o <<>> = gor[i].samples
      BY <1>3, ConcatEmptySeq
    <3> HIDE DEF Q
    <3> QED BY <1>6, <2>2, <3>1
  <2> QED BY <2>1, <2>2
<1>8. gor'[i].samples = FlattenSeq(Prefix(Q, gor'[i].rc - 1))
  <2>1. Q \in [1..NumCollectors -> Seq(Sample)]
    BY <1>1, <1>3, PartsType
  <2>2. r - 1 \in 0..(NumCollectors - 1) /\ NumCollectors \in Nat /\ (r - 1) + 1 = r
    BY <1>3, CycleAssumption
  <2>3. gor[i].samples = FlattenSeq(Prefix(P, r - 1))
    BY DEF RefInv, FetchedInv
  <2> HIDE DEF P, Q
  <2>4. FlattenSeq(Prefix(Q, (r - 1) + 1)) = FlattenSeq(Prefix(Q, r - 1)) \o Q[(r - 1) + 1]
    BY <2>1, <2>2, FlattenAppends
  <2>5. gor'[i].rc - 1 = r
    BY <1>3
  <2> QED BY <1>5, <1>7, <2>2, <2>3, <2>4, <2>5
<1>9. FetchedInv'
  <2>1. ASSUME NEW j \in Slot, j # i
        PROVE  gor'[j].samples =
                 FlattenSeq(Prefix(Parts(Systems[j], answered'[Systems[j]], cycle'), gor'[j].rc - 1))
    BY <1>2, <2>1 DEF RefInv, FetchedInv
  <2> QED BY <1>8, <2>1 DEF FetchedInv
<1>10. SlotInv'
  <2> SUFFICES ASSUME NEW j \in Slot, gor'[j].st = "done"
               PROVE  perSys'[j] = Contribution(Systems[j], answered'[Systems[j]], cycle')
    BY DEF SlotInv, Contributed
  <2>1. j # i /\ gor[j].st = "done"
    OBVIOUS
  <2>2. perSys[j] = Contribution(Systems[j], answered[Systems[j]], cycle)
    BY <2>1 DEF RefInv, SlotInv, Contributed
  <2> QED BY <1>2, <2>1, <2>2
<1>11. ConcatInv'
  <2>1. merged - 1 = 0 /\ merged' - 1 = 0
    BY DEF UpInv, MergedInv
  <2>2. all = <<>>
    BY <2>1, FlattenEmpty DEF RefInv, ConcatInv
  <2>3. FlattenSeq(Prefix(Contributed', 0)) = <<>>
    BY FlattenEmpty
  <2> QED BY <2>1, <2>2, <2>3 DEF ConcatInv
<1>12. StampInv'
  BY DEF RefInv, StampInv
<1> QED BY <1>9, <1>10, <1>11, <1>12 DEF RefInv

LEMMA RefStep ==
  TypeInv /\ PolledWithinLimit /\ UpInv /\ RefInv /\ [Next]_vars => RefInv'
<1> SUFFICES ASSUME TypeInv, PolledWithinLimit, UpInv, RefInv, [Next]_vars
             PROVE  RefInv'
  OBVIOUS
<1>0. gor \in [Slot -> Goroutine] /\ gor' \in [Slot -> Goroutine]
  BY TypeStep DEF TypeInv, TypeOK
<1>1. CASE FirstCycle \/ TakeTick
  <2>1. Begun'
    BY <1>1 DEF FirstCycle, TakeTick, BeginCycle, Begun
  <2>2. StampInv'
    BY <1>1 DEF FirstCycle, TakeTick, BeginCycle, RefInv, StampInv
  <2> QED BY <2>1, <2>2, RefBegunNext DEF RefInv, RefBuffers
<1>2. CASE Launch
  <2>1. next \in Slot
    BY <1>2, SlotFacts DEF Launch, TypeInv, TypeOK, Slot
  <2>2. \A j \in Slot : /\ gor'[j].st = "done" => gor[j].st = "done"
                        /\ gor'[j].rc = gor[j].rc
                        /\ gor'[j].samples = gor[j].samples
    BY <1>0, <1>2, <2>1 DEF Launch, Goroutine
  <2> QED BY <1>2, <2>2 DEF Launch, RefInv, FetchedInv, SlotInv, ConcatInv, StampInv, Contributed
<1>3. ASSUME NEW i \in Slot, Answer(i) \/ Fail(i) \/ Finish(i) PROVE run = "launch"
  BY <1>3 DEF Answer, Fail, Finish, Fetching, Fetched, Running, PolledWithinLimit
<1>4. ASSUME NEW i \in Slot, Answer(i) PROVE RefInv'
  <2>1. /\ Fetching(i) /\ gor'[i].st = "running" /\ gor'[i].rc = gor[i].rc + 1
        /\ gor'[i].samples = gor[i].samples \o Stamped(Emits[Systems[i]][gor[i].rc], cycle)
        /\ \A j \in Slot : j # i => gor'[j] = gor[j]
    BY <1>0, <1>4 DEF Answer, Fetching, Goroutine
  <2>2. /\ answered' = [answered EXCEPT ![Systems[i]] = @ \cup {gor[i].rc}]
        /\ UNCHANGED <<run, merged, all, perSys, cycle, store>>
    BY <1>4 DEF Answer
  <2> QED BY <1>3, <1>4, <2>1, <2>2, RefCollectorOver, TRUE \in BOOLEAN
<1>5. ASSUME NEW i \in Slot, Fail(i) PROVE RefInv'
  <2>1. /\ Fetching(i) /\ gor'[i].st = "running" /\ gor'[i].rc = gor[i].rc + 1
        /\ gor'[i].samples = gor[i].samples
        /\ \A j \in Slot : j # i => gor'[j] = gor[j]
    BY <1>0, <1>5 DEF Fail, Fetching, Goroutine
  <2>2. /\ answered' = [answered EXCEPT ![Systems[i]] = @]
        /\ UNCHANGED <<run, merged, all, perSys, cycle, store>>
    BY <1>5 DEF Fail, TypeInv, TypeOK
  <2> QED BY <1>3, <1>5, <2>1, <2>2, RefCollectorOver, FALSE \in BOOLEAN
<1>6. ASSUME NEW i \in Slot, Finish(i) PROVE RefInv'
  <2>1. /\ Fetched(i) /\ UNCHANGED <<run, merged, all, cycle, store, answered>>
        /\ \A j \in Slot : /\ j # i => gor'[j] = gor[j]
                           /\ gor'[j].rc = gor[j].rc
                           /\ gor'[j].samples = gor[j].samples
    BY <1>0, <1>6 DEF Finish, Goroutine
  <2>2. gor[i].rc = NumCollectors + 1
    BY <1>0, <2>1, CycleAssumption DEF Fetched, Goroutine
  <2>3. perSys'[i] = Contribution(Systems[i], answered[Systems[i]], cycle)
    <3>1. perSys'[i] = Tagged(gor[i].samples \o <<upSample(gor[i].healthy), durationSample>>,
                              Systems[i])
      BY <1>6 DEF Finish, TypeInv, TypeOK
    <3> QED BY <2>2, <3>1, AllPartsContribute DEF TypeInv, UpInv, RefInv
  <2>4. \A j \in Slot : j # i => perSys'[j] = perSys[j]
    BY <1>6 DEF Finish, TypeInv, TypeOK
  <2>5. SlotInv'
    BY <2>1, <2>3, <2>4 DEF RefInv, SlotInv, Contributed
  <2>6. FetchedInv' /\ ConcatInv' /\ StampInv'
    BY <2>1 DEF RefInv, FetchedInv, ConcatInv, StampInv, Contributed
  <2> QED BY <2>5, <2>6 DEF RefInv
<1>7. CASE WaitReturns
  BY <1>7 DEF WaitReturns, cycleVars, RefInv, FetchedInv, SlotInv, ConcatInv, StampInv, Contributed
<1>8. CASE Merge
  <2>1. /\ merged - 1 \in 0..(Len(Systems) - 1) /\ merged' - 1 = (merged - 1) + 1
        /\ (merged - 1) + 1 = merged /\ merged \in Slot
    BY <1>8, SlotFacts DEF Merge, TypeInv, TypeOK, Slot
  <2>2. Contributed \in [1..Len(Systems) -> Seq(Sample)] /\ perSys[merged] = Contributed[merged]
    <3>1. \A i \in Slot : perSys[i] = Contributed[i] /\ perSys[i] \in Seq(Sample)
      BY <1>8 DEF Merge, UpInv, DoneInv, RefInv, SlotInv, TypeInv, TypeOK
    <3> QED BY <2>1, <3>1 DEF Contributed, Slot
  <2>3. all' = FlattenSeq(Prefix(Contributed, merged' - 1))
    <3> DEFINE k == merged - 1
    <3>1. FlattenSeq(Prefix(Contributed, k + 1))
            = FlattenSeq(Prefix(Contributed, k)) \o Contributed[k + 1]
      BY <2>1, <2>2, SlotFacts, FlattenAppends
    <3>2. all = FlattenSeq(Prefix(Contributed, k))
      BY DEF RefInv, ConcatInv
    <3> QED BY <1>8, <2>1, <2>2, <3>1, <3>2 DEF Merge
  <2>4. Contributed' = Contributed
    BY <1>8 DEF Merge, Contributed
  <2>5. ConcatInv'
    BY <2>3, <2>4 DEF ConcatInv
  <2>6. FetchedInv' /\ SlotInv' /\ StampInv'
    BY <1>8, <2>4 DEF Merge, RefInv, FetchedInv, SlotInv, StampInv
  <2> QED BY <2>5, <2>6 DEF RefInv
<1>9. CASE Publish
  <2>1. StampInv'
    BY <1>9 DEF Publish, StampInv
  <2>2. FetchedInv' /\ SlotInv' /\ ConcatInv'
    BY <1>9 DEF Publish, cycleVars, RefInv, FetchedInv, SlotInv, ConcatInv, Contributed
  <2> QED BY <2>1, <2>2 DEF RefInv
<1>10. CASE DeadlinePasses \/ TickerFires \/ Stop \/ Terminate \/ UNCHANGED vars
  <2>1. UNCHANGED <<cycleVars, store, cycle>>
    BY <1>10 DEF DeadlinePasses, TickerFires, Stop, Terminate, vars, cycleVars
  <2>2. run' = run \/ (run = "select" /\ run' = "stopped")
    BY <1>10 DEF DeadlinePasses, TickerFires, Stop, Terminate, vars
  <2> QED BY <2>1, <2>2 DEF cycleVars, RefInv, FetchedInv, SlotInv, ConcatInv, StampInv,
                            Contributed
<1> QED BY <1>1, <1>2, <1>4, <1>5, <1>6, <1>7, <1>8, <1>9, <1>10 DEF Next

(* What Publish puts in the store is the function of the answers that the  *)
(* promise names.                                                          *)
LEMMA PublishesSnapshot ==
  ASSUME TypeInv, RefInv, Publish
  PROVE  store' = SnapshotOf(answered, NextStamp(store.collected))
<1>1. merged - 1 = Len(Systems)
  BY SlotFacts DEF Publish, TypeInv, TypeOK
<1>2. Prefix(Contributed, Len(Systems)) = Contributed
  BY DEF Prefix, Contributed, Slot
<1>3. all = FlattenSeq(Contributed)
  BY <1>1, <1>2 DEF RefInv, ConcatInv
<1>4. cycle = NextStamp(store.collected)
  BY DEF Publish, RefInv, StampInv
<1>5. store' = [samples |-> Guarded(FlattenSeq(Contributed)), collected |-> cycle]
  BY <1>3 DEF Publish
<1> QED BY <1>4, <1>5 DEF SnapshotOf, Contributed

LEMMA PromiseInit == Init => Promise!Init
BY DEF Init, Promise!Init

LEMMA PromiseStep ==
  TypeInv /\ TypeInv' /\ PolledWithinLimit /\ RefInv /\ [Next]_vars
    => [Promise!Next]_(Promise!absVars)
<1> SUFFICES ASSUME TypeInv, TypeInv', PolledWithinLimit, RefInv, [Next]_vars
             PROVE  Promise!Next \/ UNCHANGED <<store, answered, run # "stopped">>
  BY DEF Promise!absVars
<1>1. answered' \in Promise!Answers
  BY DEF TypeInv, TypeOK, Promise!Answers
<1>2. CASE FirstCycle \/ TakeTick \/ \E i \in Slot : Answer(i)
  <2>1. run # "stopped" /\ run' # "stopped" /\ store' = store
    <3>1. CASE FirstCycle \/ TakeTick
      BY <3>1 DEF FirstCycle, TakeTick, BeginCycle
    <3>2. CASE \E i \in Slot : Answer(i)
      <4>1. Running # {}
        BY <3>2 DEF Answer, Fetching, Running
      <4> QED BY <3>2, <4>1 DEF Answer, PolledWithinLimit
    <3> QED BY <1>2, <3>1, <3>2
  <2> QED BY <1>1, <2>1 DEF Promise!Next, Promise!Answer
<1>3. CASE Publish
  <2>1. run # "stopped" /\ run' # "stopped" /\ answered' = answered
    BY <1>3 DEF Publish, cycleVars
  <2>2. store' = SnapshotOf(answered, NextStamp(store.collected))
    BY <1>3, PublishesSnapshot
  <2> QED BY <2>1, <2>2 DEF Promise!Next, Promise!Publish
<1>4. CASE Stop
  BY <1>4 DEF Stop, cycleVars, Promise!Next, Promise!Stop
<1>5. CASE Launch \/ (\E i \in Slot : Fail(i) \/ Finish(i)) \/ DeadlinePasses \/ WaitReturns
           \/ Merge \/ TickerFires \/ Terminate \/ UNCHANGED vars
  BY <1>5 DEF Launch, Fail, Finish, DeadlinePasses, WaitReturns, Merge, TickerFires, Terminate,
              vars, cycleVars
<1> QED BY <1>2, <1>3, <1>4, <1>5 DEF Next

(* The loop implements its promise to the export paths: every snapshot it  *)
(* swaps in is a function of which collectors answered in one cycle and of *)
(* the config order, never of the order in which goroutines finished, of a *)
(* buffer of another cycle or of what the deadline cut short               *)
(* (collector.go:107-155).                                                 *)
THEOREM LoopImplementsSnapshots == Spec => ImplementsSnapshots
<1>1. Spec => [](TypeInv /\ PolledWithinLimit)
  BY TypeInit, TypeStep, PolledWithinLimitAlways, PTL DEF Spec
<1>2. Spec => [](UpInv /\ RefInv)
  BY <1>1, UpInit, UpStep, RefInit, RefStep, PTL DEF Spec
<1> QED BY <1>1, <1>2, PromiseInit, PromiseStep, PTL DEF Spec, ImplementsSnapshots, Promise!Spec

-----------------------------------------------------------------------------
(* Isolation: when one system does not harm another. *)

Hung(b) == {sys \in System : b[sys] = "hung"}

(* Where the deadline is long for all work that waits on no hung server,   *)
(* and fewer servers hang than may be polled at a time, it passes only     *)
(* when every system that does not hang is done.                           *)
Isolated ==
  /\ Prompt
  /\ ~ CanTerminate
  /\ \A b \in Backends : Cardinality(Hung(b)) < MaxConcurrent

IsolationInv ==
  /\ ~ cancelled
  /\ \A i \in Slot : gor[i].st # "queued" <=> i < next
  /\ expired => \A i \in Slot : gor[i].st = "done" \/ backend[Systems[i]] = "hung"
  /\ \A i \in Slot : backend[Systems[i]] = "up" => gor[i].healthy

LEMMA IsolationBegun ==
  ASSUME gor = [i \in Slot |-> Queued], next = 1, ~ expired, ~ cancelled
  PROVE  IsolationInv
<1>1. \A i \in Slot : gor[i] = Queued /\ ~ (i < 1)
  BY SlotFacts DEF Slot
<1> QED BY <1>1 DEF IsolationInv, Queued

LEMMA HungFits ==
  ASSUME Isolated, TypeOK, \A i \in Running : backend[Systems[i]] = "hung"
  PROVE  Cardinality(Running) < MaxConcurrent
<1> DEFINE H == Hung(backend)
           at == [i \in Running |-> Systems[i]]
<1>1. IsFiniteSet(H)
  <2>1. IsFiniteSet(1..Len(Systems))
    BY SlotFacts, FS_Interval
  <2>2. IsFiniteSet(System)
    <3> DEFINE named == [i \in 1..Len(Systems) |-> Systems[i]]
    <3>1. \A i \in 1..Len(Systems) : Systems[i] \in System
      BY DEF System
    <3>2. \A sys \in System : \E i \in 1..Len(Systems) : named[i] = sys
      BY DEF System
    <3>3. named \in Surjection(1..Len(Systems), System)
      BY <3>1, <3>2 DEF Surjection
    <3> HIDE DEF named
    <3> QED BY <2>1, <3>3, FS_Surjection
  <2> QED BY <2>2, FS_Subset DEF Hung
<1>2. at \in Injection(Running, H)
  <2>1. \A i \in Running : Systems[i] \in H
    BY SlotFacts DEF Hung, Running
  <2>2. \A i, j \in Running : Systems[i] = Systems[j] => i = j
    BY SystemsAssumption DEF Running, Slot
  <2> HIDE DEF H
  <2> QED BY <2>1, <2>2 DEF Injection, IsInjective
<1>3. Cardinality(Running) <= Cardinality(H)
  <2> HIDE DEF H, at
  <2> QED BY <1>1, <1>2, FS_Injection
<1>4. Cardinality(H) < MaxConcurrent
  BY DEF Isolated, TypeOK
<1>5. Cardinality(Running) \in Nat /\ Cardinality(H) \in Nat /\ MaxConcurrent \in Nat
  BY <1>1, RunningFinite, FS_CardinalityType, CollectorAssumption
<1> HIDE DEF H, Running
<1> QED BY <1>3, <1>4, <1>5

LEMMA IsolationInit == Init => IsolationInv
BY IsolationBegun DEF Init

LEMMA IsolationStep ==
  ASSUME Isolated
  PROVE  TypeInv /\ PolledWithinLimit /\ IsolationInv /\ [Next]_vars => IsolationInv'
<1> SUFFICES ASSUME TypeInv, PolledWithinLimit, IsolationInv, [Next]_vars
             PROVE  IsolationInv'
  OBVIOUS
<1>0. /\ gor \in [Slot -> Goroutine] /\ gor' \in [Slot -> Goroutine]
      /\ next \in 1..(Len(Systems) + 1) /\ Len(Systems) \in Nat
  BY TypeStep, SlotFacts DEF TypeInv, TypeOK
<1>1. CASE FirstCycle \/ TakeTick
  <2>1. /\ gor' = [i \in Slot |-> Queued] /\ next' = 1 /\ ~ expired' /\ ~ cancelled'
    BY <1>1 DEF FirstCycle, TakeTick, BeginCycle, IsolationInv
  <2>2. \A i \in Slot : gor'[i] = Queued /\ ~ (i < 1)
    BY <2>1 DEF Slot
  <2> QED BY <2>1, <2>2 DEF IsolationInv, Queued
<1>2. CASE Launch
  <2>1. next \in Slot /\ next' = next + 1 /\ UNCHANGED <<expired, cancelled, backend>>
    BY <1>0, <1>2 DEF Launch, Slot
  <2>2. \A i \in Slot : IF i = next THEN gor'[i] = [gor[i] EXCEPT !.st = "running", !.late = ctxDone]
                        ELSE gor'[i] = gor[i]
    BY <1>0, <1>2, <2>1 DEF Launch
  <2>3. \A i \in Slot : /\ gor'[i].healthy = gor[i].healthy
                        /\ gor'[i].st = IF i = next THEN "running" ELSE gor[i].st
    BY <1>0, <2>2 DEF Goroutine
  <2>4. \A i \in Slot : i < next + 1 <=> i < next \/ i = next
    BY <1>0 DEF Slot
  <2>5. gor[next].st = "queued"
    BY <2>1 DEF IsolationInv, Slot
  <2>6. \A i \in Slot : gor'[i].st = "done" <=> gor[i].st = "done"
    BY <2>3, <2>5
  <2>7. expired => \A i \in Slot : gor'[i].st = "done" \/ backend[Systems[i]] = "hung"
    BY <2>6 DEF IsolationInv
  <2> QED BY <2>1, <2>3, <2>4, <2>7 DEF IsolationInv
<1>3. ASSUME NEW i \in Slot, Answer(i) PROVE IsolationInv'
  <2>1. \A j \in Slot : gor'[j].healthy = gor[j].healthy /\ gor'[j].st = gor[j].st
    BY <1>0, <1>3 DEF Answer, Goroutine
  <2> QED BY <1>3, <2>1 DEF Answer, IsolationInv
<1>4. ASSUME NEW i \in Slot, Fail(i) PROVE IsolationInv'
  <2>1. \A j \in Slot : /\ gor'[j].st = gor[j].st
                        /\ j # i => gor'[j].healthy = gor[j].healthy
    BY <1>0, <1>4 DEF Fail, Goroutine
  <2>2. backend[Systems[i]] # "up"
    <3>1. gor[i].st = "running" /\ (expired \/ backend[Systems[i]] = "faulty")
      BY <1>4 DEF Fail, Fetching, ctxDone, IsolationInv
    <3> QED BY <3>1 DEF IsolationInv
  <2> QED BY <1>4, <2>1, <2>2 DEF Fail, IsolationInv
<1>5. ASSUME NEW i \in Slot, Finish(i) PROVE IsolationInv'
  <2>1. \A j \in Slot : /\ gor'[j].st = IF j = i THEN "done" ELSE gor[j].st
                        /\ gor'[j].healthy = gor[j].healthy
    BY <1>0, <1>5 DEF Finish, Goroutine
  <2>2. gor[i].st = "running"
    BY <1>5 DEF Finish, Fetched
  <2> QED BY <1>5, <2>1, <2>2 DEF Finish, IsolationInv
<1>6. CASE DeadlinePasses
  <2>1. /\ \A i \in Running : Fetching(i) /\ backend[Systems[i]] = "hung"
        /\ next <= Len(Systems) => Cardinality(Running) >= MaxConcurrent
    BY <1>6 DEF DeadlinePasses, Isolated, OnlyHungWorkLeft
  <2>2. Cardinality(Running) < MaxConcurrent
    BY <2>1, HungFits DEF TypeInv
  <2>3. next > Len(Systems)
    <3>1. Cardinality(Running) \in Nat /\ MaxConcurrent \in Nat
      BY RunningFinite, CollectorAssumption
    <3> HIDE DEF Running
    <3> QED BY <1>0, <2>1, <2>2, <3>1
  <2>4. \A i \in Slot : gor[i].st # "queued"
    BY <1>0, <2>3 DEF IsolationInv, Slot
  <2>5. \A i \in Slot : gor[i].st = "done" \/ backend[Systems[i]] = "hung"
    BY <1>0, <2>1, <2>4 DEF Running, Goroutine
  <2> QED BY <1>6, <2>5 DEF DeadlinePasses, cycleVars, IsolationInv
<1>7. CASE WaitReturns \/ Merge \/ Publish \/ TickerFires \/ Stop \/ Terminate \/ UNCHANGED vars
  <2>1. UNCHANGED <<gor, next, expired, cancelled, backend>>
    BY <1>7 DEF WaitReturns, Merge, Publish, TickerFires, Stop, Terminate, vars, cycleVars,
                Isolated
  <2> QED BY <2>1 DEF IsolationInv
<1> QED BY <1>1, <1>2, <1>3, <1>4, <1>5, <1>6, <1>7 DEF Next

LEMMA IsolationImplies == TypeOK /\ UpInv /\ IsolationInv => HealthyReportedUp
<1> SUFFICES ASSUME TypeOK, UpInv, IsolationInv, Published, NEW sys \in System,
                    backend[sys] = "up"
             PROVE  Up(sys)
  BY DEF HealthyReportedUp
<1>1. PICK i \in Slot : sys = Systems[i]
  BY DEF System, Slot
<1>2. gor[i].healthy /\ gor[i].rc - 1 = NumCollectors
  <2>1. gor[i].st = "done"
    BY DEF UpInv, DoneInv, Published
  <2>2. gor[i].rc = NumCollectors + 1
    BY <2>1 DEF UpInv, HealthInv
  <2> QED BY <1>1, <2>2, CycleAssumption DEF IsolationInv
<1>3. answered[sys] = Collector
  BY <1>1, <1>2 DEF UpInv, HealthInv, Collector
<1> QED BY <1>3, UpImplies DEF OneUpPerSystem

(* A server that answers promptly is reported up, however many others are  *)
(* faulty, as long as fewer hang than are polled at a time and the process *)
(* is not being stopped: the semaphore and the deadline that systems share *)
(* do no harm below that number (collector.go:108-116).                    *)
THEOREM HealthyReportedUpWhenIsolated ==
  ASSUME Isolated
  PROVE  Spec => []HealthyReportedUp
<1>1. TypeInv /\ PolledWithinLimit /\ IsolationInv /\ [Next]_vars => IsolationInv'
  BY IsolationStep
<1>2. TypeInv /\ UpInv /\ IsolationInv => HealthyReportedUp
  BY IsolationImplies DEF TypeInv
<1>3. Spec => [](TypeInv /\ PolledWithinLimit)
  BY TypeInit, TypeStep, PolledWithinLimitAlways, PTL DEF Spec
<1>4. Spec => []UpInv
  BY <1>3, UpInit, UpStep, PTL DEF Spec
<1>5. Spec => []IsolationInv
  BY <1>1, <1>3, IsolationInit, PTL DEF Spec
<1> QED BY <1>2, <1>3, <1>4, <1>5, PTL
=============================================================================
