----------------------------- MODULE Collector -----------------------------
(***************************************************************************)
(* The background collection loop (internal/nsr/collector.go) and the      *)
(* store it publishes to (internal/nsr/store.go).                          *)
(*                                                                         *)
(* Run drives cycles from a ticker until its context is cancelled; each    *)
(* cycle (CollectOnce) launches one goroutine per system, at most          *)
(* MaxConcurrent at a time and in config order, under one deadline for the *)
(* whole cycle.  A goroutine runs the resource collectors one after the    *)
(* other and goes on past the ones that fail.  When all have finished the  *)
(* slots are concatenated in config order, repaired by the guard and       *)
(* swapped into the store.                                                 *)
(*                                                                         *)
(* Not modelled here: durations, and the request-level retries of          *)
(* nsrclient, which a collector's answer or failure stands for.            *)
(***************************************************************************)
EXTENDS Cycle

CONSTANTS
  MaxConcurrent,  \* maxConcurrentSystems
  Backends,       \* how the NetWorker servers may behave during a cycle
  Prompt,         \* TRUE: the deadline is long for every server that answers
  CanTerminate    \* TRUE: SIGINT or SIGTERM may arrive

Behaviour == {"up", "faulty", "hung"}

ASSUME CollectorAssumption ==
  /\ MaxConcurrent \in Nat \ {0}
  /\ Systems # <<>>    \* Config.validate rejects an empty list
  /\ Backends \subseteq [System -> Behaviour]
  /\ Prompt \in BOOLEAN
  /\ CanTerminate \in BOOLEAN

VARIABLES
  run,        \* where Run is: "start", "launch", "merge", "select", "stopped"
  cycle,      \* stamp of the cycle under way or last completed
  backend,    \* how each server behaves during this cycle
  expired,    \* the cycle's deadline has passed
  cancelled,  \* the context given to Run is done
  ticker,     \* the ticker's channel: "none" (no ticker), "empty", "full"
  next,       \* the slot the launch loop has reached
  gor,        \* the goroutine of each slot
  perSys,     \* perSys[i]: what the goroutine of slot i left there
  merged,     \* the slot the concatenation loop has reached
  all,        \* the concatenation so far
  store,      \* SnapshotStore.current
  answered    \* history: the collectors that answered this cycle, per system

cycleVars == <<next, gor, perSys, merged, all, answered>>
vars == <<run, cycle, backend, expired, cancelled, ticker, store, cycleVars>>

Queued == [st |-> "queued", rc |-> 1, late |-> FALSE, healthy |-> TRUE, samples |-> <<>>]

Init ==
  /\ run = "start"
  /\ cycle = 0
  /\ backend \in Backends
  /\ expired = FALSE
  /\ cancelled = FALSE
  /\ ticker = "none"
  /\ next = 1
  /\ gor = [i \in Slot |-> Queued]
  /\ perSys = [i \in Slot |-> <<>>]
  /\ merged = 1
  /\ all = <<>>
  /\ store = EmptySnapshot
  /\ answered = [sys \in System |-> {}]

-----------------------------------------------------------------------------
(* Mutant of ctxDone: the cycle has no deadline. *)
ctxDoneOnlyWhenCancelled == cancelled

(* The cycle's context is done when its own deadline passes or when its    *)
(* parent is cancelled.                                                    *)
ctxDone == expired \/ cancelled

Running == {i \in Slot : gor[i].st = "running"}

(* A fetch is under way; or the goroutine has run every collector. *)
Fetching(i) == gor[i].st = "running" /\ gor[i].rc <= NumCollectors
Fetched(i)  == gor[i].st = "running" /\ gor[i].rc > NumCollectors

(* Mutant of BeginCycle: the buffer of the last cycle is reused. *)
BeginCycleReusingBuffer ==
  /\ run' = "launch"
  /\ cycle' = NextStamp(cycle)
  /\ backend' \in Backends
  /\ expired' = FALSE
  /\ next' = 1
  /\ gor' = [i \in Slot |-> Queued]
  /\ perSys' = [i \in Slot |-> <<>>]
  /\ merged' = 1
  /\ answered' = [sys \in System |-> {}]
  /\ UNCHANGED <<cancelled, store, all>>

BeginCycle ==
  /\ run' = "launch"
  /\ cycle' = NextStamp(cycle)
  /\ backend' \in Backends
  /\ expired' = FALSE
  /\ next' = 1
  /\ gor' = [i \in Slot |-> Queued]
  /\ perSys' = [i \in Slot |-> <<>>]
  /\ merged' = 1
  /\ all' = <<>>
  /\ answered' = [sys \in System |-> {}]
  /\ UNCHANGED <<cancelled, store>>

(* Run collects once before it creates its ticker. *)
FirstCycle == run = "start" /\ BeginCycle /\ UNCHANGED ticker

(* Mutant of Launch: the group has no limit. *)
LaunchUnlimited ==
  /\ run = "launch"
  /\ next <= Len(Systems)
  /\ gor' = [gor EXCEPT ![next].st = "running", ![next].late = ctxDone]
  /\ next' = next + 1
  /\ UNCHANGED <<run, cycle, backend, expired, cancelled, ticker, store,
                 perSys, merged, all, answered>>

(* g.Go: blocks while MaxConcurrent goroutines hold a token of the group,  *)
(* then starts the goroutine, whose first collector issues its request.    *)
Launch ==
  /\ run = "launch"
  /\ next <= Len(Systems)
  /\ Cardinality(Running) < MaxConcurrent
  /\ gor' = [gor EXCEPT ![next].st = "running", ![next].late = ctxDone]
  /\ next' = next + 1
  /\ UNCHANGED <<run, cycle, backend, expired, cancelled, ticker, store,
                 perSys, merged, all, answered>>

(* Mutant of Answer: the last collector decides on the system's health. *)
AnswerForgivingFailures(i) ==
  /\ Fetching(i)
  /\ ~ gor[i].late
  /\ backend[Systems[i]] # "hung"
  /\ gor' = [gor EXCEPT
       ![i].samples = @ \o Stamped(Emits[Systems[i]][gor[i].rc], cycle),
       ![i].rc = @ + 1,
       ![i].healthy = TRUE,
       ![i].late = ctxDone]
  /\ answered' = [answered EXCEPT ![Systems[i]] = @ \cup {gor[i].rc}]
  /\ UNCHANGED <<run, cycle, backend, expired, cancelled, ticker, store,
                 next, perSys, merged, all>>

(* The collector under way returns its samples.  A request issued once the *)
(* context was done ("late") fails at once; one that was in flight at that *)
(* moment may still win the race.                                          *)
Answer(i) ==
  /\ Fetching(i)
  /\ ~ gor[i].late
  /\ backend[Systems[i]] # "hung"
  /\ gor' = [gor EXCEPT
       ![i].samples = @ \o Stamped(Emits[Systems[i]][gor[i].rc], cycle),
       ![i].rc = @ + 1,
       ![i].late = ctxDone]
  /\ answered' = [answered EXCEPT ![Systems[i]] = @ \cup {gor[i].rc}]
  /\ UNCHANGED <<run, cycle, backend, expired, cancelled, ticker, store,
                 next, perSys, merged, all>>

(* Mutant of Fail: collectSystem gives up on the system and its samples. *)
FailAndGiveUp(i) ==
  /\ Fetching(i)
  /\ ctxDone \/ backend[Systems[i]] = "faulty"
  /\ gor' = [gor EXCEPT ![i].healthy = FALSE, ![i].rc = NumCollectors + 1,
                        ![i].samples = <<>>]
  /\ UNCHANGED <<run, cycle, backend, expired, cancelled, ticker, store,
                 next, perSys, merged, all, answered>>

(* Mutant of Fail: the goroutine returns the error to its group, which     *)
(* cancels the context of all the others.                                  *)
FailTheGroup(i) ==
  /\ Fetching(i)
  /\ ctxDone \/ backend[Systems[i]] = "faulty"
  /\ gor' = [gor EXCEPT ![i].healthy = FALSE, ![i].rc = @ + 1, ![i].late = TRUE]
  /\ expired' = TRUE
  /\ UNCHANGED <<run, cycle, backend, cancelled, ticker, store,
                 next, perSys, merged, all, answered>>

(* The collector under way returns an error: the system is degraded, the   *)
(* samples of its other collectors stay, and the next collector runs.      *)
Fail(i) ==
  /\ Fetching(i)
  /\ ctxDone \/ backend[Systems[i]] = "faulty"
  /\ gor' = [gor EXCEPT ![i].healthy = FALSE, ![i].rc = @ + 1, ![i].late = ctxDone]
  /\ UNCHANGED <<run, cycle, backend, expired, cancelled, ticker, store,
                 next, perSys, merged, all, answered>>

(* Mutant of Finish: slots are filled in the order goroutines finish. *)
FinishInArrivalOrder(i) ==
  /\ Fetched(i)
  /\ perSys' = [perSys EXCEPT ![Cardinality({j \in Slot : gor[j].st = "done"}) + 1] =
       Tagged(gor[i].samples \o <<upSample(gor[i].healthy), durationSample>>, Systems[i])]
  /\ gor' = [gor EXCEPT ![i].st = "done"]
  /\ UNCHANGED <<run, cycle, backend, expired, cancelled, ticker, store,
                 next, merged, all, answered>>

(* The rest of the goroutine: nsr_up and the duration are added, every     *)
(* sample is tagged, the slot is written and the token returned.           *)
Finish(i) ==
  /\ Fetched(i)
  /\ perSys' = [perSys EXCEPT ![i] =
       Tagged(gor[i].samples \o <<upSample(gor[i].healthy), durationSample>>, Systems[i])]
  /\ gor' = [gor EXCEPT ![i].st = "done"]
  /\ UNCHANGED <<run, cycle, backend, expired, cancelled, ticker, store,
                 next, merged, all, answered>>

(* Time passes.  Prompt says that the timeout is long enough for all the   *)
(* work that waits on no hung server: the deadline passes only when        *)
(* nothing else can happen.                                                *)
OnlyHungWorkLeft ==
  /\ \A i \in Running : Fetching(i) /\ backend[Systems[i]] = "hung"
  /\ next <= Len(Systems) => Cardinality(Running) >= MaxConcurrent
  /\ Running # {}

DeadlinePasses ==
  /\ run = "launch"
  /\ ~ expired
  /\ Prompt => OnlyHungWorkLeft
  /\ expired' = TRUE
  /\ UNCHANGED <<run, cycle, backend, cancelled, ticker, store, cycleVars>>

(* g.Wait returns. *)
AllFinished == next > Len(Systems) /\ \A i \in Slot : gor[i].st = "done"

WaitReturns ==
  /\ run = "launch"
  /\ AllFinished
  /\ run' = "merge"
  /\ UNCHANGED <<cycle, backend, expired, cancelled, ticker, store, cycleVars>>

(* One iteration of the concatenation loop. *)
Merge ==
  /\ run = "merge"
  /\ merged <= Len(Systems)
  /\ all' = all \o perSys[merged]
  /\ merged' = merged + 1
  /\ UNCHANGED <<run, cycle, backend, expired, cancelled, ticker, store,
                 next, gor, perSys, answered>>

(* Mutant of Publish: the samples are not guarded. *)
PublishUnguarded ==
  /\ run = "merge"
  /\ merged > Len(Systems)
  /\ store' = [samples |-> {all[k] : k \in 1..Len(all)}, collected |-> cycle]
  /\ run' = "select"
  /\ ticker' = IF ticker = "none" THEN "empty" ELSE ticker
  /\ UNCHANGED <<cycle, backend, expired, cancelled, cycleVars>>

(* guardSamples and Swap.  After the first cycle Run creates its ticker. *)
Publish ==
  /\ run = "merge"
  /\ merged > Len(Systems)
  /\ store' = [samples |-> Guarded(all), collected |-> cycle]
  /\ run' = "select"
  /\ ticker' = IF ticker = "none" THEN "empty" ELSE ticker
  /\ UNCHANGED <<cycle, backend, expired, cancelled, cycleVars>>

(* The ticker's channel holds one tick; a tick that finds it full is lost. *)
TickerFires ==
  /\ ticker = "empty"
  /\ ticker' = "full"
  /\ UNCHANGED <<run, cycle, backend, expired, cancelled, store, cycleVars>>

(* The two cases of Run's select; when both are ready Go picks either. *)
TakeTick ==
  /\ run = "select"
  /\ ticker = "full"
  /\ ticker' = "empty"
  /\ BeginCycle

(* Mutant of Stop: a waiting tick is served first. *)
StopWhenIdle ==
  /\ run = "select"
  /\ cancelled
  /\ ticker = "empty"
  /\ run' = "stopped"
  /\ ticker' = "none"
  /\ UNCHANGED <<cycle, backend, expired, cancelled, store, cycleVars>>

Stop ==
  /\ run = "select"
  /\ cancelled
  /\ run' = "stopped"
  /\ ticker' = "none"
  /\ UNCHANGED <<cycle, backend, expired, cancelled, store, cycleVars>>

(* SIGINT or SIGTERM, at any moment (signal.NotifyContext in main.go). *)
Terminate ==
  /\ CanTerminate
  /\ ~ cancelled
  /\ cancelled' = TRUE
  /\ UNCHANGED <<run, cycle, backend, expired, ticker, store, cycleVars>>

Next ==
  \/ FirstCycle
  \/ Launch
  \/ \E i \in Slot : Answer(i) \/ Fail(i) \/ Finish(i)
  \/ DeadlinePasses
  \/ WaitReturns
  \/ Merge
  \/ Publish
  \/ TickerFires
  \/ TakeTick
  \/ Stop
  \/ Terminate

Spec == Init /\ [][Next]_vars

(* What Go's scheduler, timers and select provide: a goroutine that can    *)
(* run does; the deadline timer and the ticker fire; select returns when a *)
(* case is ready and, because it picks among the ready cases at random,    *)
(* does not pass over a case that is ready again and again.                *)
LoopStep == FirstCycle \/ Launch \/ WaitReturns \/ Merge \/ Publish

Fairness ==
  /\ WF_vars(LoopStep)
  /\ \A i \in Slot : WF_vars(Answer(i) \/ Fail(i) \/ Finish(i))
  /\ WF_vars(DeadlinePasses)
  /\ WF_vars(TickerFires)
  /\ WF_vars(TakeTick \/ Stop)
  /\ SF_vars(Stop)

FairSpec == Spec /\ Fairness

-----------------------------------------------------------------------------
(* Properties *)

Goroutine == [st : {"queued", "running", "done"}, rc : 1..(NumCollectors + 1),
              late : BOOLEAN, healthy : BOOLEAN, samples : Seq(Sample)]

TypeOK ==
  /\ run \in {"start", "launch", "merge", "select", "stopped"}
  /\ cycle \in 0..Stamps
  /\ backend \in Backends
  /\ expired \in BOOLEAN
  /\ cancelled \in BOOLEAN
  /\ ticker \in {"none", "empty", "full"}
  /\ next \in 1..(Len(Systems) + 1)
  /\ gor \in [Slot -> Goroutine]
  /\ perSys \in [Slot -> Seq(Sample)]
  /\ merged \in 1..(Len(Systems) + 1)
  /\ all \in Seq(Sample)
  /\ store.collected \in 0..Stamps
  /\ \A s \in store.samples : s \in Sample
  /\ answered \in [System -> SUBSET Collector]

(* Never more than MaxConcurrent systems are polled at a time              *)
(* (collector.go:15-17, 116), and no goroutine of a cycle is still running *)
(* when its slots are read: Wait orders every write of a slot before the   *)
(* concatenation (collector.go:137-146).                                   *)
PolledWithinLimit ==
  /\ Cardinality(Running) <= MaxConcurrent
  /\ run # "launch" => Running = {}

(* Whatever fails, expires or is cancelled, the store never holds a set of *)
(* samples that would make /metrics answer 500 (guard.go:42-46), and every *)
(* fetched sample in it comes from one cycle, the one it is stamped with:  *)
(* no slot or buffer of an earlier cycle shows through.                    *)
StoreGatherable == GatherAccepts(store.samples)

StoreIsOneCycle ==
  \A s \in store.samples : s.name \in CycleMetric \/ s.value = store.collected

(* The snapshot in the store is the one of the cycle that answered and     *)
(* backend describe.                                                       *)
Published == run \in {"select", "stopped"}

UpSamples(sys) == {s \in store.samples : s.name = upName /\ SystemTags(s, sys) # {}}
Up(sys) == \E s \in UpSamples(sys) : s.value = 1

(* Each published snapshot says of every configured system, also of one    *)
(* that never answered or was never asked, whether it is up, once; and it  *)
(* says up exactly when every collector of that system answered in that    *)
(* cycle (collector.go:121-132, 157-173).                                  *)
OneUpPerSystem ==
  Published => \A sys \in System :
    /\ Cardinality(UpSamples(sys)) = 1
    /\ Up(sys) <=> answered[sys] = Collector

(* A server that answers promptly is reported up, and all its series are   *)
(* published, whatever the other servers do: collectSystem's goroutines    *)
(* share a semaphore and a deadline (collector.go:108-116).                *)
HealthyReportedUp ==
  Published => \A sys \in System : backend[sys] = "up" => Up(sys)

(* A cancelled loop ends, even when ticks keep arriving and a cycle is     *)
(* under way when the signal comes (collector.go:94-101).                  *)
StopsWhenCancelled == cancelled ~> run = "stopped"

(* The loop implements the promise of module Snapshots: each swap is the   *)
(* snapshot of one cycle's answers, in config order, and they keep coming. *)
Promise == INSTANCE Snapshots WITH
  published <- store, answered <- answered, alive <- run # "stopped"

ImplementsSnapshots == Promise!Spec
ImplementsFairSnapshots == Promise!FairSpec
=============================================================================
