----------------------------- MODULE PollTiming -----------------------------
(***************************************************************************)
(* The collection loop in discrete time: when cycles run, how old the      *)
(* snapshot gets, and whether something that happens on a server and is    *)
(* asked for through a lookback window (a job, collection.jobWindow, or a  *)
(* save set, collection.backupWindow) is fetched before it leaves the      *)
(* window (internal/nsr/collector.go, jobs.go, sizing.go).                 *)
(*                                                                         *)
(* One system, whose windowed request is sent at any moment of a cycle and *)
(* may fail.  The loop takes no time of its own: a tick that waits is      *)
(* taken at once, and a cycle lasts at most Timeout, the deadline of its   *)
(* context.  Ages and countdowns are relative to now, so no clock is       *)
(* bounded.                                                                *)
(***************************************************************************)
EXTENDS Integers

CONSTANTS
  Interval,      \* collection.interval
  Timeout,       \* collection.timeout
  JobWindow,     \* collection.jobWindow
  BackupWindow,  \* collection.backupWindow
  Hour,          \* one hour, in the unit of the others
  MaxMissed      \* how many times in a row the request may fail

(* Positive durations, and what Config.validate asks of the windows. *)
ASSUME TimingAssumption ==
  /\ Interval \in Nat \ {0}
  /\ Timeout \in Nat \ {0}
  /\ Hour \in Nat \ {0}
  /\ JobWindow \in Nat /\ JobWindow >= 2 * Interval
  /\ BackupWindow \in Nat /\ BackupWindow >= 2 * Interval
  /\ MaxMissed \in Nat

(* Mutant of jobWindowFilter: the hours are rounded down. *)
jobWindowFilterDown ==
  IF JobWindow < Hour THEN Hour ELSE (JobWindow \div Hour) * Hour

(* The range the server is asked for, in whole hours and at least one:     *)
(* rounded up for jobs, truncated for save sets.                           *)
jobWindowFilter ==
  IF JobWindow < Hour THEN Hour ELSE ((JobWindow + Hour - 1) \div Hour) * Hour

backupWindowFilter ==
  IF BackupWindow < Hour THEN Hour ELSE (BackupWindow \div Hour) * Hour

(* An item of this age is in the answer and survives the client's cutoff,  *)
(* which only jobs have.                                                   *)
JobListed(a) == a <= jobWindowFilter /\ a <= JobWindow
BackupListed(a) == a <= backupWindowFilter

VARIABLES
  phase,      \* "first" (no ticker yet), "cycle", "select"
  spent,      \* since the cycle began
  request,    \* the windowed request of this cycle: "due", "ok", "failed"
  untilTick,  \* until the ticker next fires
  tick,       \* the ticker's channel is full
  age,        \* of the published snapshot; NoSnapshot before the first
  item,       \* age of the watched item; NoItem before it exists
  job,        \* as a job, the item was fetched
  saveSet,    \* as a save set, the item was fetched
  missed      \* requests that failed in a row

clock == <<spent, untilTick, age, item>>
vars == <<phase, request, tick, job, saveSet, missed, clock>>

NoSnapshot == -1
NoItem == -1

Init ==
  /\ phase = "first"
  /\ spent = 0
  /\ request = "due"
  /\ untilTick = Interval
  /\ tick = FALSE
  /\ age = NoSnapshot
  /\ item = NoItem
  /\ job = FALSE
  /\ saveSet = FALSE
  /\ missed = 0

Collecting == phase \in {"first", "cycle"}

(* Get answers: what the windows let through is in the cycle's samples. *)
FetchOk ==
  /\ Collecting
  /\ request = "due"
  /\ request' = "ok"
  /\ job' = (job \/ (item # NoItem /\ JobListed(item)))
  /\ saveSet' = (saveSet \/ (item # NoItem /\ BackupListed(item)))
  /\ missed' = 0
  /\ UNCHANGED <<phase, tick, clock>>

FetchFails ==
  /\ Collecting
  /\ request = "due"
  /\ missed < MaxMissed
  /\ request' = "failed"
  /\ missed' = missed + 1
  /\ UNCHANGED <<phase, tick, job, saveSet, clock>>

(* The snapshot is swapped in.  After the first cycle the ticker starts. *)
EndCycle ==
  /\ Collecting
  /\ request # "due"
  /\ phase' = "select"
  /\ age' = 0
  /\ untilTick' = IF phase = "first" THEN Interval ELSE untilTick
  /\ UNCHANGED <<request, tick, job, saveSet, missed, spent, item>>

(* The channel holds one tick: a second one is lost. *)
TickerFires ==
  /\ phase # "first"
  /\ untilTick = 0
  /\ tick' = TRUE
  /\ untilTick' = Interval
  /\ UNCHANGED <<phase, request, job, saveSet, missed, spent, age, item>>

(* Mutant of TakeTick: the ticks that came during the cycle are dropped    *)
(* and the loop waits for a new one.                                       *)
TakeTickAfterReset ==
  /\ phase = "select"
  /\ tick
  /\ phase' = "cycle"
  /\ spent' = 0
  /\ request' = "due"
  /\ tick' = FALSE
  /\ untilTick' = Interval + Timeout
  /\ UNCHANGED <<job, saveSet, missed, age, item>>

TakeTick ==
  /\ phase = "select"
  /\ tick
  /\ phase' = "cycle"
  /\ spent' = 0
  /\ request' = "due"
  /\ tick' = FALSE
  /\ UNCHANGED <<job, saveSet, missed, untilTick, age, item>>

(* The watched job starts, or the save set is written, once. *)
ItemAppears ==
  /\ item = NoItem
  /\ item' = 0
  /\ UNCHANGED <<phase, request, tick, job, saveSet, missed, spent, untilTick, age>>

(* Fetched as both, or out of both windows: its age no longer matters. *)
Settled == (job \/ ~ JobListed(item)) /\ (saveSet \/ ~ BackupListed(item))

(* One unit of time, unless something must happen first. *)
Advance ==
  /\ Collecting => spent < Timeout
  /\ ~ (phase = "select" /\ tick)
  /\ phase # "first" => untilTick > 0
  /\ spent' = IF Collecting THEN spent + 1 ELSE spent
  /\ untilTick' = IF phase = "first" THEN untilTick ELSE untilTick - 1
  /\ age' = IF age = NoSnapshot THEN age ELSE age + 1
  /\ item' = IF item = NoItem \/ Settled THEN item ELSE item + 1
  /\ UNCHANGED <<phase, request, tick, job, saveSet, missed>>

Next ==
  \/ FetchOk
  \/ FetchFails
  \/ EndCycle
  \/ TickerFires
  \/ TakeTick
  \/ ItemAppears
  \/ Advance

Spec == Init /\ [][Next]_vars

-----------------------------------------------------------------------------
(* Properties *)

TypeOK ==
  /\ phase \in {"first", "cycle", "select"}
  /\ spent \in 0..Timeout
  /\ request \in {"due", "ok", "failed"}
  /\ untilTick \in 0..Interval
  /\ tick \in BOOLEAN
  /\ age \in Nat \cup {NoSnapshot}
  /\ item \in Nat \cup {NoItem}
  /\ job \in BOOLEAN
  /\ saveSet \in BOOLEAN
  /\ missed \in 0..MaxMissed

(* Ticks are lost when cycles are longer than the interval, yet the        *)
(* snapshot never gets older than an interval and a cycle                  *)
(* (collector.go:92-99): a tick comes within an interval of a publication, *)
(* and the next publication within a cycle of the tick.                    *)
AgeBounded == age <= Interval + Timeout

(* The longest time from the start of one cycle to the start of the next,  *)
(* once the ticker runs: a cycle longer than the interval finds a tick     *)
(* waiting.                                                                *)
Period == IF Interval >= Timeout THEN Interval ELSE Timeout

(* The longest time between two answered requests with MaxMissed failures  *)
(* between them: the first cycle's request may be sent at its start, the   *)
(* ticker starts only at that cycle's end, an interval later the second    *)
(* cycle begins, and the last request may be sent at its cycle's end.      *)
Reach == Timeout + Interval + MaxMissed * Period + Timeout

JobsReachEnough == JobWindow >= Reach
BackupsReachEnough == backupWindowFilter >= Reach

(* No job leaves its window before it was fetched (jobs.go:98-116). *)
NoJobLost == item # NoItem /\ ~ job => JobListed(item)

(* No save set leaves its window before it was fetched, which is what the  *)
(* floor of two intervals is for (docs/deployment/docker.md:56).  Alone it *)
(* does not hold: the window is truncated to hours (sizing.go:140-146).    *)
NoSaveSetLost == item # NoItem /\ ~ saveSet => BackupListed(item)

(* With windows of at least Reach, no job and no save set is lost, however *)
(* the requests fall within their cycles and whichever MaxMissed of them   *)
(* fail in a row (jobs.go:62-74, 109-116; sizing.go:140-146).              *)
NothingLost ==
  /\ JobsReachEnough => NoJobLost
  /\ BackupsReachEnough => NoSaveSetLost
=============================================================================
