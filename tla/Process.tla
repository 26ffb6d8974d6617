------------------------------ MODULE Process ------------------------------
(***************************************************************************)
(* The process around the collection loop (main.go, run): start-up,        *)
(* signals, the HTTP server and its scrapes, the OTLP reader, and the      *)
(* order in which they are taken down.  All of them meet in the snapshot   *)
(* store.                                                                  *)
(*                                                                         *)
(* Snapshots are numbered as they are published, 0 being the empty one the *)
(* store is seeded with; what is in them is Collector's subject.  The      *)
(* PeriodicReader, net/http and os/signal are modelled from how run uses   *)
(* them: a push is bounded by the reader's own timeout, as is the last one *)
(* of Shutdown, which waits for a push under way.                          *)
(***************************************************************************)
EXTENDS Integers, Sequences

CONSTANTS
  Endpoint,  \* what opentelemetry.endpoint may be, or "unset"
  Env,       \* what OTEL_EXPORTER_OTLP_ENDPOINT may be, or "unset"
  Scraper,   \* clients that scrape /metrics, one request at a time each
  Parts,     \* samples a scrape renders
  MaxCycles  \* bound: snapshots published

ASSUME ProcessAssumption == Parts \in Nat \ {0} /\ MaxCycles \in Nat

VARIABLES
  pc,        \* where run is
  exit,      \* how the process ended; "no" while it runs
  status,    \* what srv.Shutdown returned
  ctxDone,   \* the context of signal.NotifyContext is done
  watcher,   \* watchReload's goroutine: "off", "on", "done"
  hup,       \* a SIGHUP waits in its channel
  loop,      \* the collection loop: "off", "cycle", "select", "ended"
  store,     \* the current snapshot
  http,      \* the server: "off", "starting", "serving", "closed"
  scrape,    \* each scraper's request
  told,      \* history: /health has answered "ok"
  served,    \* history: the newest snapshot a scrape rendered
  endpoint,  \* opentelemetry.endpoint of the config
  env,       \* OTEL_EXPORTER_OTLP_ENDPOINT
  target,    \* where the OTLP exporter pushes to; "unset" when there is none
  backend,   \* the endpoint there takes what is pushed
  push,      \* the reader: "off", "idle", "push", "last"
  pushed,    \* the snapshot of the push under way; 0 when there is none
  delivered  \* history: the snapshot the endpoint was last given

mainVars == <<pc, exit, status, ctxDone>>
hupVars == <<watcher, hup>>
loopVars == <<loop, store>>
httpVars == <<http, scrape, told, served>>
otlpVars == <<endpoint, env, target, backend, push, pushed, delivered>>
vars == <<mainVars, hupVars, loopVars, httpVars, otlpVars>>

Snapshot == 0..MaxCycles

(* A request: how far it is, the snapshot it loaded, the snapshots its     *)
(* samples are from, and, when it came, the snapshot in the store and      *)
(* whether /health had answered "ok".                                      *)
Request ==
  [stage : {"none", "begun", "loaded", "rendered"},
   snap : Snapshot, shown : Seq(Snapshot), since : Snapshot, afterOk : BOOLEAN]

NoRequest ==
  [stage |-> "none", snap |-> 0, shown |-> <<>>, since |-> 0, afterOk |-> FALSE]

Init ==
  /\ pc = "load" /\ exit = "no" /\ status = "ok" /\ ctxDone = FALSE
  /\ watcher = "off" /\ hup = FALSE
  /\ loop = "off" /\ store = 0
  /\ http = "off" /\ scrape = [c \in Scraper |-> NoRequest]
  /\ told = FALSE /\ served = 0
  /\ endpoint \in Endpoint
  /\ env \in Env
  /\ target = "unset" /\ backend = TRUE
  /\ push = "off" /\ pushed = 0 /\ delivered = 0

Running == exit = "no"

Goto(from, to) == pc = from /\ pc' = to /\ UNCHANGED <<exit, ctxDone>>

Exit(how) ==
  /\ exit' = how
  /\ UNCHANGED <<pc, status, ctxDone, hupVars, loopVars, httpVars, otlpVars>>

-----------------------------------------------------------------------------
(* Start-up *)

LoadFails == pc = "load" /\ Exit("error")

(* setupOTLP, which goes on without OTLP when the exporter cannot be made. *)
(* The resolved endpoint only decides whether there is one: the exporter   *)
(* is built from the environment, and has a default.                       *)
Wire ==
  /\ Goto("load", "listen")
  /\ \/ target' = "unset" /\ push' = "off"
     \/ /\ endpoint # "unset" \/ env # "unset"
        /\ target' = IF env # "unset" THEN env ELSE "default"
        /\ push' = "idle"
  /\ UNCHANGED <<status, hupVars, loopVars, httpVars, endpoint, env, backend, pushed, delivered>>

Listen ==
  /\ Goto("listen", "notify")
  /\ http' = "starting"
  /\ UNCHANGED <<status, hupVars, loopVars, scrape, told, served, otlpVars>>

(* From here on SIGINT and SIGTERM cancel the context. *)
Notify ==
  /\ Goto("notify", "start")
  /\ UNCHANGED <<status, hupVars, loopVars, httpVars, otlpVars>>

StartLoop ==
  /\ Goto("start", "watch")
  /\ loop' = "cycle"
  /\ UNCHANGED <<status, hupVars, store, httpVars, otlpVars>>

(* From here on SIGHUP goes to the watcher. *)
Watch ==
  /\ Goto("watch", "wait")
  /\ watcher' = "on"
  /\ UNCHANGED <<status, hup, loopVars, httpVars, otlpVars>>

-----------------------------------------------------------------------------
(* Signals *)

TerminateHandled == pc \in {"start", "watch", "wait", "drain", "stop"}
HangupHandled == watcher # "off"

Cancel ==
  /\ TerminateHandled
  /\ ~ ctxDone
  /\ ctxDone' = TRUE
  /\ UNCHANGED <<pc, exit, status, hupVars, loopVars, httpVars, otlpVars>>

(* Before Notify and after Restore the default action applies. *)
Kill == ~ TerminateHandled /\ Exit("killed")

HangupKills == ~ HangupHandled /\ Exit("hungup")

(* The channel holds one signal; the ones that find it full are dropped. *)
Hangup ==
  /\ HangupHandled
  /\ ~ hup
  /\ hup' = TRUE
  /\ UNCHANGED <<mainVars, watcher, loopVars, httpVars, otlpVars>>

(* Mutant of Reload: an invalid config ends the watcher. *)
ReloadOrQuit ==
  /\ watcher = "on"
  /\ hup
  /\ hup' = FALSE
  /\ watcher' \in {"on", "done"}
  /\ UNCHANGED <<mainVars, loopVars, httpVars, otlpVars>>

(* The config is read again and the verdict logged; nothing is changed. *)
Reload ==
  /\ watcher = "on"
  /\ hup
  /\ hup' = FALSE
  /\ UNCHANGED <<mainVars, watcher, loopVars, httpVars, otlpVars>>

WatcherEnds ==
  /\ watcher = "on"
  /\ ctxDone
  /\ watcher' = "done"
  /\ UNCHANGED <<mainVars, hup, loopVars, httpVars, otlpVars>>

-----------------------------------------------------------------------------
(* The collection loop, of which Collector is the detail *)

Publish ==
  /\ loop = "cycle"
  /\ store < MaxCycles
  /\ store' = store + 1
  /\ loop' = "select"
  /\ UNCHANGED <<mainVars, hupVars, httpVars, otlpVars>>

(* A tick, which a select with both channels ready may prefer to Done. *)
NextCycle ==
  /\ loop = "select"
  /\ loop' = "cycle"
  /\ UNCHANGED <<mainVars, hupVars, store, httpVars, otlpVars>>

LoopEnds ==
  /\ loop = "select"
  /\ ctxDone
  /\ loop' = "ended"
  /\ UNCHANGED <<mainVars, hupVars, store, httpVars, otlpVars>>

-----------------------------------------------------------------------------
(* The HTTP server *)

ServerUp ==
  /\ http = "starting"
  /\ http' = "serving"
  /\ UNCHANGED <<mainVars, hupVars, loopVars, scrape, told, served, otlpVars>>

(* log.Fatal, unless Shutdown is what made ListenAndServe return. *)
ServerFails == http \in {"starting", "serving"} /\ Exit("fatal")

(* Mutant of HealthOk: "ok" as soon as the loop runs. *)
HealthOkOnceStarted ==
  /\ http = "serving"
  /\ loop # "off"
  /\ ~ told
  /\ told' = TRUE
  /\ UNCHANGED <<mainVars, hupVars, loopVars, http, scrape, served, otlpVars>>

HealthOk ==
  /\ http = "serving"
  /\ store # 0
  /\ ~ told
  /\ told' = TRUE
  /\ UNCHANGED <<mainVars, hupVars, loopVars, http, scrape, served, otlpVars>>

BeginScrape(c) ==
  /\ http = "serving"
  /\ scrape[c].stage = "none"
  /\ scrape' = [scrape EXCEPT ![c] =
       [NoRequest EXCEPT !.stage = "begun", !.since = store, !.afterOk = told]]
  /\ UNCHANGED <<mainVars, hupVars, loopVars, http, told, served, otlpVars>>

(* Mutant of LoadSnapshot: a cycle holds the store's lock. *)
LoadSnapshotLocked(c) ==
  /\ scrape[c].stage = "begun"
  /\ loop # "cycle"
  /\ scrape' = [scrape EXCEPT ![c].stage = "loaded", ![c].snap = store]
  /\ UNCHANGED <<mainVars, hupVars, loopVars, http, told, served, otlpVars>>

LoadSnapshot(c) ==
  /\ scrape[c].stage = "begun"
  /\ scrape' = [scrape EXCEPT ![c].stage = "loaded", ![c].snap = store]
  /\ UNCHANGED <<mainVars, hupVars, loopVars, http, told, served, otlpVars>>

(* The samples are all sent to the registry before one is written. *)
Rendered(c, snap) ==
  LET shown == Append(scrape[c].shown, snap)
  IN  [scrape EXCEPT ![c].shown = shown,
                     ![c].stage = IF Len(shown) = Parts THEN "rendered" ELSE @]

(* Mutants of Render: every sample asks the store; one sample too many. *)
RenderCurrent(c) ==
  /\ scrape[c].stage = "loaded"
  /\ scrape' = Rendered(c, store)
  /\ served' = IF store > served THEN store ELSE served
  /\ UNCHANGED <<mainVars, hupVars, loopVars, http, told, otlpVars>>

RenderAgain(c) ==
  /\ scrape[c].stage \in {"loaded", "rendered"}
  /\ Len(scrape[c].shown) <= Parts
  /\ scrape' = Rendered(c, scrape[c].snap)
  /\ UNCHANGED <<mainVars, hupVars, loopVars, http, told, served, otlpVars>>

Render(c) ==
  /\ scrape[c].stage = "loaded"
  /\ scrape' = Rendered(c, scrape[c].snap)
  /\ served' = IF scrape[c].snap > served THEN scrape[c].snap ELSE served
  /\ UNCHANGED <<mainVars, hupVars, loopVars, http, told, otlpVars>>

(* The client has read the answer. *)
EndScrape(c) ==
  /\ scrape[c].stage = "rendered"
  /\ scrape' = [scrape EXCEPT ![c] = NoRequest]
  /\ UNCHANGED <<mainVars, hupVars, loopVars, http, told, served, otlpVars>>

-----------------------------------------------------------------------------
(* The OTLP reader and the endpoint it pushes to *)

(* What a push leaves alone. *)
pushFrame == <<mainVars, hupVars, loopVars, httpVars, endpoint, env, target>>

(* An outage begins or ends, at any time once there is an exporter. *)
BackendTurns ==
  /\ target # "unset"
  /\ backend' = ~ backend
  /\ UNCHANGED <<pushFrame, push, pushed, delivered>>

(* Mutant of Observe: the callback has the snapshot of its registration. *)
ObserveRegistered == UNCHANGED pushed

(* The callback loads the store. *)
Observe == pushed' = store

PushBegins ==
  /\ push = "idle"
  /\ pc # "flush"
  /\ push' = "push"
  /\ Observe
  /\ UNCHANGED <<pushFrame, backend, delivered>>

PushDelivered ==
  /\ push = "push"
  /\ backend
  /\ push' = "idle"
  /\ delivered' = pushed
  /\ pushed' = 0
  /\ UNCHANGED <<pushFrame, backend>>

(* Refused and counted, or given up when the timeout or Shutdown comes; it *)
(* is not tried again.                                                     *)
PushFails ==
  /\ push = "push"
  /\ ~ backend
  /\ push' = "idle"
  /\ pushed' = 0
  /\ UNCHANGED <<pushFrame, backend, delivered>>

-----------------------------------------------------------------------------
(* Shutdown: Shutdown of the server, then the deferred calls, last first *)

BeginDrain ==
  /\ Goto("wait", "drain")
  /\ ctxDone
  /\ http' = "closed"
  /\ UNCHANGED <<status, hupVars, loopVars, scrape, told, served, otlpVars>>

NoneInFlight == \A c \in Scraper : scrape[c].stage = "none"

Drained ==
  /\ Goto("drain", "stop")
  /\ NoneInFlight
  /\ UNCHANGED <<status, hupVars, loopVars, httpVars, otlpVars>>

(* Mutant of DrainTimeout: Shutdown is given a context without deadline. *)
DrainTimeoutNever ==
  /\ Goto("drain", "stop")
  /\ NoneInFlight
  /\ status' = "error"
  /\ UNCHANGED <<hupVars, loopVars, httpVars, otlpVars>>

DrainTimeout ==
  /\ Goto("drain", "stop")
  /\ ~ NoneInFlight
  /\ status' = "error"
  /\ UNCHANGED <<hupVars, loopVars, httpVars, otlpVars>>

(* stop(): the signals have their default action again. *)
Restore ==
  /\ Goto("stop", "flush")
  /\ UNCHANGED <<status, hupVars, loopVars, httpVars, otlpVars>>

(* Mutant of Flush: the reader is shut down by the context. *)
FlushAtOnce ==
  /\ ctxDone
  /\ push = "idle"
  /\ push' = "last"
  /\ Observe
  /\ delivered' = IF backend THEN pushed' ELSE delivered
  /\ UNCHANGED <<pushFrame, backend>>

(* The last push, of which nobody learns how it ended. *)
Flush ==
  /\ pc = "flush"
  /\ push = "idle"
  /\ push' = "last"
  /\ Observe
  /\ delivered' = IF backend THEN pushed' ELSE delivered
  /\ UNCHANGED <<pushFrame, backend>>

Return == pc = "flush" /\ push \in {"off", "last"} /\ Exit(status)

-----------------------------------------------------------------------------
Start == LoadFails \/ Wire \/ Listen \/ Notify \/ StartLoop \/ Watch
Signal == Cancel \/ Kill \/ HangupKills \/ Hangup
Watching == Reload \/ WatcherEnds
Collecting == Publish \/ NextCycle \/ LoopEnds
Serving == ServerUp \/ ServerFails \/ HealthOk
Scraping(c) == BeginScrape(c) \/ LoadSnapshot(c) \/ Render(c) \/ EndScrape(c)
PushEnds == PushDelivered \/ PushFails
Pushing == PushBegins \/ PushEnds \/ BackendTurns
Stopping == BeginDrain \/ Drained \/ DrainTimeout \/ Restore \/ Flush \/ Return

Next ==
  /\ Running
  /\ \/ Start
     \/ Signal
     \/ Watching
     \/ Collecting
     \/ Serving
     \/ \E c \in Scraper : Scraping(c)
     \/ Pushing
     \/ Stopping

Spec == Init /\ [][Next]_vars

(* run and the handlers are scheduled, the 5 s of Shutdown and the         *)
(* reader's interval and timeout pass.  Nothing is asked of the loop,      *)
(* whose cycles may be slow, of clients, which may never read an answer,   *)
(* of the OTLP endpoint or of signals.                                     *)
FairSpec ==
  /\ Spec
  /\ WF_vars(Running /\ Start)
  /\ WF_vars(Running /\ Stopping)
  /\ WF_vars(Running /\ PushBegins)
  /\ WF_vars(Running /\ PushEnds)
  /\ WF_vars(Running /\ Watching)
  /\ \A c \in Scraper : WF_vars(Running /\ (LoadSnapshot(c) \/ Render(c)))

-----------------------------------------------------------------------------
(* Properties *)

TypeOK ==
  /\ pc \in {"load", "listen", "notify", "start", "watch", "wait",
             "drain", "stop", "flush"}
  /\ exit \in {"no", "ok", "error", "killed", "hungup", "fatal"}
  /\ status \in {"ok", "error"}
  /\ ctxDone \in BOOLEAN
  /\ watcher \in {"off", "on", "done"}
  /\ hup \in BOOLEAN
  /\ loop \in {"off", "cycle", "select", "ended"}
  /\ store \in Snapshot
  /\ http \in {"off", "starting", "serving", "closed"}
  /\ scrape \in [Scraper -> Request]
  /\ \A c \in Scraper : Len(scrape[c].shown) <= Parts
  /\ told \in BOOLEAN
  /\ served \in Snapshot
  /\ endpoint \in Endpoint
  /\ env \in Env
  /\ target \in Env \cup {"unset", "default"}
  /\ backend \in BOOLEAN
  /\ push \in {"off", "idle", "push", "last"}
  /\ pushed \in Snapshot
  /\ delivered \in Snapshot

(* A scrape's samples are all from one snapshot, though snapshots are      *)
(* swapped in while it renders, and from one at least as new as the store  *)
(* held when the scrape came (prometheus.go:26-43, store.go:34-39).        *)
OneFreshSnapshot ==
  \A c \in Scraper : \A i, j \in DOMAIN scrape[c].shown :
    /\ scrape[c].shown[i] = scrape[c].shown[j]
    /\ scrape[c].shown[i] >= scrape[c].since

(* Once /health has answered "ok", no scrape that comes later, from        *)
(* whichever client, finds the empty snapshot (main.go:137-143).           *)
HealthNeverAhead ==
  \A c \in Scraper : scrape[c].afterOk => \A i \in DOMAIN scrape[c].shown :
    scrape[c].shown[i] # 0

(* When the process ends in order with OTLP on, the last snapshot handed   *)
(* to the OTLP exporter is at least as new as every one that was served    *)
(* over HTTP: the server is drained before the reader is flushed, and a    *)
(* push under way is not mistaken for the last (main.go:95-113).           *)
FlushedLast == exit = "ok" /\ target # "unset" => push = "last" /\ pushed >= served

(* Once the context is cancelled the process ends, whatever clients, the   *)
(* loop and the OTLP backend do (main.go:104-113).                         *)
EndsWhenCancelled == ctxDone ~> ~ Running

(* A scrape is rendered without waiting for the collection loop, which may *)
(* be in a cycle that never ends: it takes the store's lock for one load   *)
(* (store.go:26-39, prometheus.go:26).  docs/deployment/docker.md:74-76    *)
(* and ADR-0012:50-51 say that it can block behind a slow cycle.           *)
ScrapesNeverWait ==
  \A c \in Scraper : scrape[c].stage = "begun" ~> scrape[c].stage = "rendered" \/ ~ Running

(* A SIGHUP that arrives while the watcher runs is acted on, after any     *)
(* number of valid and invalid configs, unless the process is ending       *)
(* (main.go:187-204).                                                      *)
HangupAnswered == hup ~> ~ hup \/ ctxDone \/ ~ Running

(* An outage of the OTLP endpoint loses nothing for good: if it ends, what *)
(* was published, or something newer, is delivered, however many pushes    *)
(* failed before and although none of them is tried again, unless the      *)
(* process ends first (otlp.go:39-49, otlp_errors.go:47-53).               *)
OutageOverDelivered ==
  <>[]backend =>
    \A n \in 1..MaxCycles :
      store = n /\ target # "unset" ~> delivered >= n \/ ~ Running

(* docs/deployment/docker.md:101-110 enables OTLP with an endpoint in      *)
(* config.yaml, over which the environment variable takes precedence.      *)
PushesToEndpoint == target # "unset" => target = IF env # "unset" THEN env ELSE endpoint
=============================================================================
