-------------------------- MODULE PollTimingProofs --------------------------
(***************************************************************************)
(* For any interval and timeout: the snapshot is never older than the sum  *)
(* of the two, and for any windows that reach as far back as two answered  *)
(* requests can be apart, no job and no save set leaves its window before  *)
(* it was fetched.                                                         *)
(***************************************************************************)
EXTENDS PollTiming, TLAPS

LEMMA TypeInit == Init => TypeOK
<1> SUFFICES ASSUME Init PROVE TypeOK
  OBVIOUS
<1>1. spent \in 0..Timeout /\ untilTick \in 0..Interval /\ missed \in 0..MaxMissed
  BY TimingAssumption DEF Init
<1>2. tick \in BOOLEAN /\ job \in BOOLEAN /\ saveSet \in BOOLEAN
  BY DEF Init
<1> QED BY <1>1, <1>2 DEF Init, TypeOK

LEMMA TypeStep == TypeOK /\ [Next]_vars => TypeOK'
<1> SUFFICES ASSUME TypeOK, [Next]_vars
             PROVE  TypeOK'
  OBVIOUS
<1> USE TimingAssumption DEF TypeOK, clock
<1>1. CASE FetchOk
  <2>1. job' \in BOOLEAN /\ saveSet' \in BOOLEAN
    BY <1>1 DEF FetchOk
  <2> QED BY <1>1, <2>1 DEF FetchOk
<1>2. CASE FetchFails
  BY <1>2 DEF FetchFails
<1>3. CASE EndCycle
  BY <1>3 DEF EndCycle
<1>4. CASE TickerFires
  BY <1>4 DEF TickerFires
<1>5. CASE TakeTick
  <2>1. 0 \in 0..Timeout
    OBVIOUS
  <2>2. spent' = 0 /\ tick' = FALSE
    BY <1>5, Zenon DEF TakeTick
  <2> QED BY <1>5, <2>1, <2>2 DEF TakeTick
<1>6. CASE ItemAppears
  BY <1>6 DEF ItemAppears
<1>7. CASE Advance
  BY <1>7 DEF Advance, Collecting, NoSnapshot, NoItem
<1>8. CASE UNCHANGED vars
  BY <1>8 DEF vars
<1> QED BY <1>1, <1>2, <1>3, <1>4, <1>5, <1>6, <1>7, <1>8 DEF Next

(* The countdowns never run below zero and no cycle outlasts its deadline  *)
(* (collector.go:92-99, 108).                                              *)
THEOREM TypeCorrect == Spec => []TypeOK
BY TypeInit, TypeStep, PTL DEF Spec

-----------------------------------------------------------------------------
(* While the loop waits, the snapshot's age and the time to the next tick  *)
(* add up to at most the interval; in a cycle the age exceeds the interval *)
(* by at most the time the cycle has taken.                                *)
AgeInv ==
  /\ phase = "first" => age = NoSnapshot
  /\ phase = "select" =>
       IF tick THEN age <= Interval ELSE age + untilTick <= Interval
  /\ phase = "cycle" => age <= Interval + spent

LEMMA AgeInit == Init => AgeInv
BY DEF Init, AgeInv

LEMMA AgeStep == TypeOK /\ AgeInv /\ [Next]_vars => AgeInv'
<1> SUFFICES ASSUME TypeOK, AgeInv, [Next]_vars
             PROVE  AgeInv'
  OBVIOUS
<1> USE TimingAssumption DEF TypeOK, AgeInv, clock, NoSnapshot
<1>1. CASE FetchOk
  BY <1>1 DEF FetchOk
<1>2. CASE FetchFails
  BY <1>2 DEF FetchFails
<1>3. CASE EndCycle
  BY <1>3 DEF EndCycle, Collecting
<1>4. CASE TickerFires
  BY <1>4 DEF TickerFires
<1>5. CASE TakeTick
  BY <1>5 DEF TakeTick
<1>6. CASE ItemAppears
  BY <1>6 DEF ItemAppears
<1>7. CASE Advance
  BY <1>7 DEF Advance, Collecting
<1>8. CASE UNCHANGED vars
  BY <1>8 DEF vars
<1> QED BY <1>1, <1>2, <1>3, <1>4, <1>5, <1>6, <1>7, <1>8 DEF Next

(* However long cycles take and however many ticks are lost, a reader      *)
(* never loads a snapshot older than an interval and a timeout             *)
(* (collector.go:88-102, 108).                                             *)
THEOREM AgeBoundedAlways == Spec => []AgeBounded
<1>1. TypeOK /\ AgeInv => AgeBounded
  BY TimingAssumption DEF TypeOK, AgeInv, AgeBounded, NoSnapshot
<1> QED BY <1>1, TypeInit, TypeStep, AgeInit, AgeStep, PTL DEF Spec

-----------------------------------------------------------------------------
(* The longest time from an answered request, or from the first cycle's    *)
(* start, to the start of the next cycle when k requests failed since.     *)
Gap(k) == Timeout + Interval + k * Period

(* Once the ticker runs the next cycle begins within an interval of this   *)
(* one's start, or finds a tick waiting when this one ends.                *)
TickInv ==
  /\ phase = "first" => ~ tick
  /\ phase = "cycle" /\ ~ tick => spent + untilTick <= Interval
  /\ phase = "select" => request # "due"
  /\ request = "ok" /\ phase # "select" => missed = 0

(* How old an item is that no answered request has listed.                 *)
Recent ==
  /\ phase = "first" => item <= spent
  /\ phase = "cycle" =>
       /\ request = "due" => item <= spent + Gap(missed)
       /\ request = "ok" => item <= spent
       /\ request = "failed" => item + Period <= spent + Gap(missed)
  /\ phase = "select" => item + (IF tick THEN 0 ELSE untilTick) <= Gap(missed)

WatchInv ==
  /\ JobsReachEnough /\ item # NoItem /\ ~ job => Recent
  /\ BackupsReachEnough /\ item # NoItem /\ ~ saveSet => Recent

LEMMA PeriodBounds ==
  /\ Period \in Nat
  /\ Interval <= Period /\ Timeout <= Period /\ Period <= Timeout + Interval
BY TimingAssumption DEF Period

LEMMA GapGrows ==
  ASSUME NEW k \in Nat
  PROVE  /\ Gap(k) \in Nat
         /\ Timeout + Interval <= Gap(k)
         /\ Gap(k + 1) = Gap(k) + Period
BY PeriodBounds, TimingAssumption DEF Gap

LEMMA GapBounded ==
  ASSUME NEW k \in 0..MaxMissed
  PROVE  Gap(k) + Timeout <= Reach
<1>1. k * Period <= MaxMissed * Period
  BY PeriodBounds, TimingAssumption
<1>2. k * Period \in Nat /\ MaxMissed * Period \in Nat
  BY PeriodBounds, TimingAssumption
<1> QED BY <1>1, <1>2, TimingAssumption DEF Gap, Reach

(* Jobs are asked for in hours rounded up, so the server lists every job   *)
(* the cutoff keeps (jobs.go:109-116).                                     *)
LEMMA FilterCovers == JobWindow <= jobWindowFilter
<1> DEFINE n == JobWindow + Hour - 1
           q == n \div Hour
<1>1. n \in Nat /\ Hour \in Nat \ {0}
  BY TimingAssumption
<1>2. q \in Nat /\ n < (q + 1) * Hour
  BY <1>1
<1>3. (q + 1) * Hour = q * Hour + Hour
  BY <1>1, <1>2
<1>4. q * Hour \in Nat
  BY <1>1, <1>2
<1>5. JobWindow <= q * Hour
  BY <1>2, <1>3, <1>4, TimingAssumption
<1> QED BY <1>5, TimingAssumption DEF jobWindowFilter

LEMMA RecentListed ==
  ASSUME TypeOK, TickInv, item # NoItem, Recent
  PROVE  item <= Reach
<1>1. missed \in 0..MaxMissed /\ missed \in Nat
  BY TimingAssumption DEF TypeOK
<1>2. Gap(missed) \in Nat /\ Gap(missed) + Timeout <= Reach
  BY <1>1, GapGrows, GapBounded
<1>3. item \in Nat /\ spent \in Nat /\ spent <= Timeout /\ untilTick \in Nat
  BY TimingAssumption DEF TypeOK, NoItem
<1>4. Reach \in Int /\ Timeout \in Nat
  BY PeriodBounds, TimingAssumption DEF Reach
<1> QED BY <1>2, <1>3, <1>4, PeriodBounds DEF TypeOK, Recent

LEMMA WatchListed ==
  ASSUME TypeOK, TickInv, WatchInv
  PROVE  NothingLost
<1>1. ASSUME JobsReachEnough, item # NoItem, ~ job
      PROVE  JobListed(item)
  <2>1. item <= Reach
    BY <1>1, RecentListed DEF WatchInv
  <2>2. item \in Int /\ Reach \in Int /\ jobWindowFilter \in Int /\ JobWindow \in Int
    BY <1>1, TimingAssumption, PeriodBounds DEF TypeOK, NoItem, Reach, jobWindowFilter
  <2> QED BY <1>1, <2>1, <2>2, FilterCovers DEF JobListed, JobsReachEnough
<1>2. ASSUME BackupsReachEnough, item # NoItem, ~ saveSet
      PROVE  BackupListed(item)
  <2>1. item <= Reach
    BY <1>2, RecentListed DEF WatchInv
  <2>2. item \in Int /\ Reach \in Int /\ backupWindowFilter \in Int
    BY <1>2, TimingAssumption, PeriodBounds DEF TypeOK, NoItem, Reach, backupWindowFilter
  <2> QED BY <1>2, <2>1, <2>2 DEF BackupListed, BackupsReachEnough
<1> QED BY <1>1, <1>2 DEF NothingLost, NoJobLost, NoSaveSetLost

LEMMA TickInit == Init => TickInv /\ WatchInv
BY DEF Init, TickInv, WatchInv

LEMMA TickStep == TypeOK /\ TickInv /\ [Next]_vars => TickInv'
<1> SUFFICES ASSUME TypeOK, TickInv, [Next]_vars
             PROVE  TickInv'
  OBVIOUS
<1> USE TimingAssumption DEF TypeOK, TickInv, clock
<1>1. CASE FetchOk
  BY <1>1 DEF FetchOk, Collecting
<1>2. CASE FetchFails
  BY <1>2 DEF FetchFails
<1>3. CASE EndCycle
  BY <1>3 DEF EndCycle
<1>4. CASE TickerFires
  BY <1>4 DEF TickerFires
<1>5. CASE TakeTick
  BY <1>5 DEF TakeTick
<1>6. CASE ItemAppears
  BY <1>6 DEF ItemAppears
<1>7. CASE Advance
  BY <1>7 DEF Advance, Collecting
<1>8. CASE UNCHANGED vars
  BY <1>8 DEF vars
<1> QED BY <1>1, <1>2, <1>3, <1>4, <1>5, <1>6, <1>7, <1>8 DEF Next

(* Every step but an answered request keeps an unlisted item recent.       *)
LEMMA RecentStep ==
  ASSUME TypeOK, TickInv, item # NoItem => Recent, [Next]_vars, ~ FetchOk, item' # NoItem
  PROVE  Recent'
<1>1. /\ phase \in {"first", "cycle", "select"}
      /\ request \in {"due", "ok", "failed"}
      /\ missed \in Nat
      /\ spent \in Nat /\ spent <= Timeout
      /\ untilTick \in Nat /\ untilTick <= Interval
      /\ item \in Nat \/ item = NoItem
  BY TimingAssumption DEF TypeOK
<1>2. /\ Gap(missed) \in Nat
      /\ Timeout + Interval <= Gap(missed)
      /\ Gap(missed + 1) = Gap(missed) + Period
  BY <1>1, GapGrows
<1>3. missed' = missed => Gap(missed') = Gap(missed)
  OBVIOUS
<1> USE <1>1, <1>2, PeriodBounds, TimingAssumption DEF TickInv, Recent, clock, NoItem
<1>4. CASE FetchFails
  BY <1>4 DEF FetchFails, Collecting
<1>5. CASE EndCycle
  BY <1>3, <1>5 DEF EndCycle, Collecting
<1>6. CASE TickerFires
  BY <1>3, <1>6 DEF TickerFires
<1>7. CASE TakeTick
  BY <1>3, <1>7 DEF TakeTick
<1>8. CASE ItemAppears
  BY <1>3, <1>8 DEF ItemAppears
<1>9. CASE Advance
  BY <1>3, <1>9 DEF Advance, Collecting
<1>10. CASE UNCHANGED vars
  BY <1>3, <1>10 DEF vars
<1> QED BY <1>4, <1>5, <1>6, <1>7, <1>8, <1>9, <1>10 DEF Next

LEMMA WatchStep == TypeOK /\ TickInv /\ WatchInv /\ [Next]_vars => WatchInv'
<1> SUFFICES ASSUME TypeOK, TickInv, WatchInv, [Next]_vars
             PROVE  WatchInv'
  OBVIOUS
<1>1. CASE FetchOk
  <2>1. NothingLost
    BY WatchListed
  <2>2. item' = item /\ (JobsReachEnough' = JobsReachEnough)
                     /\ (BackupsReachEnough' = BackupsReachEnough)
    BY <1>1 DEF FetchOk, clock
  <2>3. JobsReachEnough /\ item # NoItem => job'
    BY <1>1, <2>1 DEF FetchOk, NothingLost, NoJobLost
  <2>4. BackupsReachEnough /\ item # NoItem => saveSet'
    BY <1>1, <2>1 DEF FetchOk, NothingLost, NoSaveSetLost
  <2> QED BY <2>2, <2>3, <2>4 DEF WatchInv
<1>2. CASE ~ FetchOk
  <2>1. job' = job /\ saveSet' = saveSet
    BY <1>2 DEF Next, vars, FetchFails, EndCycle, TickerFires, TakeTick, ItemAppears, Advance
  <2> QED BY <1>2, <2>1, RecentStep DEF WatchInv
<1> QED BY <1>1, <1>2

(* No job and no save set leaves its window before it was fetched, however *)
(* the requests fall within their cycles and whichever MaxMissed of them   *)
(* fail in a row, once the window reaches back an interval, two timeouts   *)
(* and a period per failure (jobs.go:62-74, 109-116; sizing.go:140-146).   *)
THEOREM NothingLostAlways == Spec => []NothingLost
<1>1. TypeOK /\ TickInv /\ WatchInv => NothingLost
  BY WatchListed
<1> QED BY <1>1, TypeInit, TypeStep, TickInit, TickStep, WatchStep, PTL DEF Spec
=============================================================================
