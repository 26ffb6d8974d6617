--------------------------- MODULE ProcessProofs ---------------------------
(***************************************************************************)
(* For any clients, any length of a scrape and any number of snapshots:    *)
(* a scrape shows one snapshot, at least as new as the store's when it     *)
(* came; none that follows a good /health is empty; and a process that     *)
(* ends in order hands OTLP everything it has served.                      *)
(***************************************************************************)
EXTENDS Process, TLAPS

(* What a request holds, as far as it has come. *)
RequestInv(r) ==
  /\ r.stage = "none" => r = NoRequest
  /\ r.stage = "begun" => r.shown = <<>> /\ r.snap = 0
  /\ r.stage = "loaded" => Len(r.shown) < Parts
  /\ r.stage \in {"loaded", "rendered"} => r.since <= r.snap
  /\ Len(r.shown) <= Parts
  /\ \A i \in DOMAIN r.shown : r.shown[i] = r.snap
  /\ r.since <= store
  /\ r.snap <= store
  /\ r.afterOk => r.since # 0

ScrapeInv ==
  /\ \A c \in Scraper : RequestInv(scrape[c])
  /\ told => store # 0
  /\ served <= store

(* Where run is says what the server takes in, what Shutdown has returned  *)
(* and how far the reader is.                                              *)
ServerInv ==
  /\ pc \in {"load", "listen"} => http = "off"
  /\ pc \in {"drain", "stop", "flush"} => http = "closed"
  /\ pc \in {"stop", "flush"} \/ status = "ok"

ExitInv == exit = "ok" => pc = "flush" /\ status = "ok" /\ push \in {"off", "last"}

ReaderInv ==
  /\ pc = "load" => push = "off"
  /\ push = "off" <=> target = "unset"
  /\ push = "last" => pc = "flush"

(* A drain in order leaves no scrape behind, and none comes any more, so   *)
(* the last push is not overtaken.                                         *)
DrainInv ==
  /\ pc \in {"stop", "flush"} /\ status = "ok" => NoneInFlight
  /\ push = "last" /\ status = "ok" => pushed >= served

ProcessInv ==
  TypeOK /\ ScrapeInv /\ ServerInv /\ ExitInv /\ ReaderInv /\ DrainInv

LEMMA NoRequestType == NoRequest \in Request /\ Len(NoRequest.shown) = 0
<1>1. 0 \in Snapshot
  BY ProcessAssumption DEF Snapshot
<1>2. <<>> \in Seq(Snapshot) /\ Len(<<>>) = 0
  OBVIOUS
<1> QED BY <1>1, <1>2 DEF NoRequest, Request

LEMMA NoRequestInv == store \in Snapshot => RequestInv(NoRequest)
<1> SUFFICES ASSUME store \in Snapshot PROVE RequestInv(NoRequest)
  OBVIOUS
<1>1. 0 <= store /\ 0 <= Parts
  BY ProcessAssumption DEF Snapshot
<1>2. Len(NoRequest.shown) = 0 /\ DOMAIN NoRequest.shown = {}
  BY DEF NoRequest
<1>3. /\ NoRequest.stage = "none" /\ NoRequest.snap = 0
      /\ NoRequest.since = 0 /\ NoRequest.afterOk = FALSE
  BY DEF NoRequest
<1> QED BY <1>1, <1>2, <1>3, Zenon DEF RequestInv

LEMMA InvInit == Init => ProcessInv
<1> SUFFICES ASSUME Init PROVE ProcessInv
  OBVIOUS
<1> USE ProcessAssumption DEF Init
<1>1. NoRequest \in Request /\ Len(NoRequest.shown) = 0
  BY NoRequestType
<1>2. scrape \in [Scraper -> Request] /\ \A c \in Scraper : scrape[c] = NoRequest
  BY <1>1
<1>3. TypeOK
  <2>1. 0 \in Snapshot /\ 0 <= Parts
    BY DEF Snapshot
  <2> QED BY <1>1, <1>2, <2>1 DEF TypeOK
<1>4. ScrapeInv
  BY <1>2, <1>3, NoRequestInv DEF ScrapeInv, TypeOK
<1>5. ServerInv /\ ExitInv /\ ReaderInv /\ DrainInv
  BY DEF ServerInv, ExitInv, ReaderInv, DrainInv
<1> QED BY <1>3, <1>4, <1>5 DEF ProcessInv

-----------------------------------------------------------------------------
(* Scrapes *)

LEMMA ScrapeFrame ==
  [Next]_vars => \/ UNCHANGED <<store, scrape, told, served>>
                 \/ Publish
                 \/ HealthOk
                 \/ \E c \in Scraper : Scraping(c)
<1> SUFFICES ASSUME [Next]_vars,
                    ~ Publish, ~ HealthOk, ~ \E c \in Scraper : Scraping(c)
             PROVE  UNCHANGED <<store, scrape, told, served>>
  OBVIOUS
<1> USE DEF mainVars, hupVars, loopVars, httpVars, otlpVars, pushFrame
<1>1. CASE Start
  BY <1>1 DEF Start, LoadFails, Exit, Wire, Listen, Notify, StartLoop, Watch
<1>2. CASE Signal
  BY <1>2 DEF Signal, Cancel, Kill, HangupKills, Hangup, Exit
<1>3. CASE Watching
  BY <1>3 DEF Watching, Reload, WatcherEnds
<1>4. CASE Collecting
  BY <1>4 DEF Collecting, NextCycle, LoopEnds
<1>5. CASE Serving
  BY <1>5 DEF Serving, ServerUp, ServerFails, Exit
<1>6. CASE Pushing
  BY <1>6 DEF Pushing, PushBegins, PushEnds, PushDelivered, PushFails, BackendTurns
<1>7. CASE Stopping
  BY <1>7 DEF Stopping, BeginDrain, Drained, DrainTimeout, Restore, Flush, Return, Exit
<1>8. CASE UNCHANGED vars
  BY <1>8 DEF vars
<1> QED BY <1>1, <1>2, <1>3, <1>4, <1>5, <1>6, <1>7, <1>8 DEF Next

(* One sample more of the snapshot a request has loaded. *)
LEMMA RenderedRequest ==
  ASSUME NEW r \in Request, RequestInv(r), r.stage = "loaded",
         NEW q,
         q = [r EXCEPT !.shown = Append(r.shown, r.snap),
                       !.stage = IF Len(r.shown) + 1 = Parts THEN "rendered" ELSE @]
  PROVE  q \in Request /\ RequestInv(q)
<1> USE ProcessAssumption
<1>1. r.shown \in Seq(Snapshot) /\ r.snap \in Snapshot
  BY DEF Request
<1>2. Append(r.shown, r.snap) \in Seq(Snapshot)
  BY <1>1
<1>3. Len(Append(r.shown, r.snap)) = Len(r.shown) + 1 /\ Len(r.shown) \in Nat
  BY <1>1
<1>4. q \in Request
  BY <1>2 DEF Request
<1>5. /\ q.shown = Append(r.shown, r.snap)
      /\ q.stage = IF Len(r.shown) + 1 = Parts THEN "rendered" ELSE "loaded"
      /\ q.snap = r.snap /\ q.since = r.since /\ q.afterOk = r.afterOk
  BY DEF Request
<1>6. \A i \in DOMAIN q.shown : q.shown[i] = q.snap
  BY <1>1, <1>5 DEF RequestInv
<1> QED BY <1>3, <1>4, <1>5, <1>6 DEF RequestInv

LEMMA ScrapingStep ==
  ASSUME TypeOK, ScrapeInv, NEW c \in Scraper, Scraping(c)
  PROVE  /\ UNCHANGED <<store, told>>
         /\ served' \in Snapshot /\ served' <= store
         /\ \E q \in Request : scrape' = [scrape EXCEPT ![c] = q] /\ RequestInv(q)
<1> DEFINE r == scrape[c]
<1> USE ProcessAssumption
<1>1. r \in Request /\ RequestInv(r) /\ scrape \in [Scraper -> Request]
  BY DEF TypeOK, ScrapeInv
<1>2. store \in Snapshot /\ served \in Snapshot /\ told \in BOOLEAN
      /\ served <= store /\ (told => store # 0)
  BY DEF TypeOK, ScrapeInv
<1>3. CASE BeginScrape(c)
  <2> DEFINE q == [NoRequest EXCEPT !.stage = "begun", !.since = store, !.afterOk = told]
  <2>1. q \in Request
    BY <1>2, NoRequestType DEF Request
  <2>2. /\ q.stage = "begun" /\ q.since = store /\ q.afterOk = told
        /\ q.snap = 0 /\ q.shown = <<>>
    BY DEF NoRequest
  <2>3. Len(q.shown) = 0 /\ DOMAIN q.shown = {}
    BY <2>2
  <2>4. store \in Nat
    BY <1>2, ProcessAssumption DEF Snapshot
  <2>5. RequestInv(q)
    BY <1>2, <2>2, <2>3, <2>4 DEF RequestInv
  <2>6. scrape' = [scrape EXCEPT ![c] = q] /\ UNCHANGED <<store, told, served>>
    BY <1>3 DEF BeginScrape, loopVars
  <2> QED BY <1>2, <2>1, <2>5, <2>6
<1>4. CASE LoadSnapshot(c)
  <2> DEFINE q == [r EXCEPT !.stage = "loaded", !.snap = store]
  <2>1. q \in Request
    BY <1>1, <1>2 DEF Request
  <2>2. /\ q.stage = "loaded" /\ q.snap = store
        /\ q.shown = r.shown /\ q.since = r.since /\ q.afterOk = r.afterOk
    BY <1>1 DEF Request
  <2>3. r.shown = <<>>
    BY <1>1, <1>4 DEF LoadSnapshot, RequestInv
  <2>4. RequestInv(q)
    BY <1>1, <1>2, <2>2, <2>3 DEF RequestInv, Snapshot
  <2>5. scrape' = [scrape EXCEPT ![c] = q]
    BY <1>1, <1>4 DEF LoadSnapshot
  <2> QED BY <1>2, <1>4, <2>1, <2>4, <2>5 DEF LoadSnapshot, loopVars
<1>5. CASE Render(c)
  <2> DEFINE q == [r EXCEPT !.shown = Append(r.shown, r.snap),
                            !.stage = IF Len(r.shown) + 1 = Parts THEN "rendered" ELSE @]
  <2>1. r.stage = "loaded"
    BY <1>5 DEF Render
  <2>2. q \in Request /\ RequestInv(q)
    BY <1>1, <2>1, RenderedRequest
  <2>3. Len(Append(r.shown, r.snap)) = Len(r.shown) + 1
    BY <1>1 DEF Request
  <2>4. scrape' = [scrape EXCEPT ![c] = q]
    BY <1>1, <1>5, <2>3 DEF Render, Rendered
  <2>5. served' \in {served, r.snap} /\ r.snap \in Snapshot /\ r.snap <= store
    BY <1>1, <1>5 DEF Render, Request, RequestInv
  <2> QED BY <1>2, <1>5, <2>2, <2>4, <2>5 DEF Render, loopVars
<1>6. CASE EndScrape(c)
  <2>1. NoRequest \in Request /\ RequestInv(NoRequest)
    BY <1>2, NoRequestType, NoRequestInv
  <2> QED BY <1>2, <1>6, <2>1 DEF EndScrape, loopVars
<1> QED BY <1>3, <1>4, <1>5, <1>6 DEF Scraping

LEMMA ScrapeStep == TypeOK /\ ScrapeInv /\ [Next]_vars => ScrapeInv'
<1> SUFFICES ASSUME TypeOK, ScrapeInv, [Next]_vars
             PROVE  ScrapeInv'
  OBVIOUS
<1>1. CASE UNCHANGED <<store, scrape, told, served>>
  BY <1>1 DEF ScrapeInv, RequestInv
<1>2. CASE Publish
  <2>1. store' = store + 1 /\ store \in Nat /\ UNCHANGED <<scrape, told, served>>
    BY <1>2, ProcessAssumption DEF Publish, TypeOK, Snapshot, httpVars
  <2>2. ASSUME NEW c \in Scraper
        PROVE  RequestInv(scrape[c])'
    <3>1. scrape[c] \in Request /\ RequestInv(scrape[c])
      BY DEF TypeOK, ScrapeInv
    <3> QED BY <2>1, <3>1, ProcessAssumption DEF RequestInv, Request, Snapshot
  <2>3. served \in Nat
    BY ProcessAssumption DEF TypeOK, Snapshot
  <2> QED BY <2>1, <2>2, <2>3 DEF ScrapeInv
<1>3. CASE HealthOk
  <2>1. UNCHANGED <<store, scrape, served>> /\ store # 0
    BY <1>3 DEF HealthOk, loopVars
  <2> QED BY <2>1 DEF ScrapeInv, RequestInv
<1>4. CASE \E c \in Scraper : Scraping(c)
  <2>1. PICK c \in Scraper : Scraping(c)
    BY <1>4
  <2>2. PICK q \in Request : scrape' = [scrape EXCEPT ![c] = q] /\ RequestInv(q)
    BY <2>1, ScrapingStep
  <2>3. UNCHANGED <<store, told>> /\ served' <= store
    BY <2>1, ScrapingStep
  <2>4. ASSUME NEW d \in Scraper
        PROVE  RequestInv(scrape[d])'
    <3>1. scrape'[d] = IF d = c THEN q ELSE scrape[d]
      BY <2>2 DEF TypeOK
    <3>2. RequestInv(scrape'[d])
      BY <2>2, <3>1 DEF ScrapeInv
    <3> QED BY <2>3, <3>2 DEF RequestInv
  <2> QED BY <2>3, <2>4 DEF ScrapeInv
<1> QED BY <1>1, <1>2, <1>3, <1>4, ScrapeFrame

-----------------------------------------------------------------------------
(* Types *)

LEMMA TypeStep == TypeOK /\ ScrapeInv /\ [Next]_vars => TypeOK'
<1> SUFFICES ASSUME TypeOK, ScrapeInv, [Next]_vars
             PROVE  TypeOK'
  OBVIOUS
<1> USE DEF TypeOK, mainVars, hupVars, loopVars, httpVars, otlpVars, pushFrame
<1>1. CASE Start
  <2>1. CASE LoadFails
    BY <2>1 DEF LoadFails, Exit
  <2>2. CASE Wire
    BY <2>2 DEF Wire, Goto
  <2>3. CASE Listen
    BY <2>3 DEF Listen, Goto
  <2>4. CASE Notify
    BY <2>4 DEF Notify, Goto
  <2>5. CASE StartLoop
    BY <2>5 DEF StartLoop, Goto
  <2>6. CASE Watch
    BY <2>6 DEF Watch, Goto
  <2> QED BY <1>1, <2>1, <2>2, <2>3, <2>4, <2>5, <2>6 DEF Start
<1>2. CASE Signal
  <2>1. CASE Cancel
    BY <2>1 DEF Cancel
  <2>2. CASE Kill
    BY <2>2 DEF Kill, Exit
  <2>3. CASE HangupKills
    BY <2>3 DEF HangupKills, Exit
  <2>4. CASE Hangup
    BY <2>4 DEF Hangup
  <2> QED BY <1>2, <2>1, <2>2, <2>3, <2>4 DEF Signal
<1>3. CASE Watching
  BY <1>3 DEF Watching, Reload, WatcherEnds
<1>4. CASE Collecting
  <2>1. CASE Publish
    <3>1. store' \in Snapshot
      BY <2>1, ProcessAssumption DEF Publish, Snapshot
    <3> QED BY <2>1, <3>1 DEF Publish
  <2>2. CASE NextCycle
    BY <2>2 DEF NextCycle
  <2>3. CASE LoopEnds
    BY <2>3 DEF LoopEnds
  <2> QED BY <1>4, <2>1, <2>2, <2>3 DEF Collecting
<1>5. CASE Serving
  BY <1>5 DEF Serving, ServerUp, ServerFails, HealthOk, Exit
<1>6. CASE \E c \in Scraper : Scraping(c)
  <2>1. PICK c \in Scraper : Scraping(c)
    BY <1>6
  <2>2. PICK q \in Request : scrape' = [scrape EXCEPT ![c] = q] /\ RequestInv(q)
    BY <2>1, ScrapingStep
  <2>3. scrape' \in [Scraper -> Request] /\ \A d \in Scraper : Len(scrape'[d].shown) <= Parts
    BY <2>2 DEF RequestInv
  <2>4. served' \in Snapshot
    BY <2>1, ScrapingStep
  <2>5. UNCHANGED <<mainVars, hupVars, loopVars, http, told, otlpVars>>
    BY <2>1 DEF Scraping, BeginScrape, LoadSnapshot, Render, EndScrape
  <2> QED BY <2>3, <2>4, <2>5
<1>7. CASE Pushing
  <2>1. CASE PushBegins
    BY <2>1 DEF PushBegins, Observe
  <2>2. CASE PushDelivered
    <3>1. 0 \in Snapshot
      BY ProcessAssumption DEF Snapshot
    <3> QED BY <2>2, <3>1 DEF PushDelivered
  <2>3. CASE PushFails
    <3>1. 0 \in Snapshot
      BY ProcessAssumption DEF Snapshot
    <3> QED BY <2>3, <3>1 DEF PushFails
  <2>4. CASE BackendTurns
    <3>1. backend' \in BOOLEAN
      BY <2>4, Zenon DEF BackendTurns
    <3> QED BY <2>4, <3>1 DEF BackendTurns
  <2> QED BY <1>7, <2>1, <2>2, <2>3, <2>4 DEF Pushing, PushEnds
<1>8. CASE Stopping
  <2>1. CASE BeginDrain
    BY <2>1 DEF BeginDrain, Goto
  <2>2. CASE Drained
    BY <2>2 DEF Drained, Goto
  <2>3. CASE DrainTimeout
    BY <2>3 DEF DrainTimeout, Goto
  <2>4. CASE Restore
    BY <2>4 DEF Restore, Goto
  <2>5. CASE Flush
    BY <2>5 DEF Flush, Observe
  <2>6. CASE Return
    BY <2>6 DEF Return, Exit
  <2> QED BY <1>8, <2>1, <2>2, <2>3, <2>4, <2>5, <2>6 DEF Stopping
<1>9. CASE UNCHANGED vars
  BY <1>9 DEF vars
<1> QED
  BY <1>1, <1>2, <1>3, <1>4, <1>5, <1>6, <1>7, <1>8, <1>9 DEF Next

-----------------------------------------------------------------------------
(* Start-up and shutdown *)

(* The steps that move run, the server or the reader, and when they may.   *)
LEMMA OrderFrame ==
  [Next]_vars =>
    \/ UNCHANGED <<pc, exit, status, http, target, push, pushed>>
    \/ /\ Running
       /\ Start \/ Kill \/ HangupKills \/ Serving \/ Pushing \/ Stopping
<1> SUFFICES ASSUME [Next]_vars
             PROVE  \/ UNCHANGED <<pc, exit, status, http, target, push, pushed>>
                    \/ /\ Running
                       /\ \/ Start \/ Kill \/ HangupKills
                          \/ Serving \/ Pushing \/ Stopping
  OBVIOUS
<1> USE DEF mainVars, hupVars, loopVars, httpVars, otlpVars, pushFrame
<1>1. CASE Signal
  BY <1>1 DEF Next, vars, Signal, Cancel, Hangup
<1>2. CASE Watching
  BY <1>2 DEF Watching, Reload, WatcherEnds
<1>3. CASE Collecting
  BY <1>3 DEF Collecting, Publish, NextCycle, LoopEnds
<1>4. CASE \E c \in Scraper : Scraping(c)
  BY <1>4 DEF Scraping, BeginScrape, LoadSnapshot, Render, EndScrape
<1>5. CASE UNCHANGED vars
  BY <1>5 DEF vars
<1> QED BY <1>1, <1>2, <1>3, <1>4, <1>5 DEF Next

LEMMA OrderStep ==
  /\ TypeOK /\ ServerInv /\ ExitInv /\ ReaderInv
  /\ [Next]_vars
  => (ServerInv /\ ExitInv /\ ReaderInv)'
<1> SUFFICES ASSUME TypeOK, ServerInv, ExitInv, ReaderInv, [Next]_vars
             PROVE  ServerInv' /\ ExitInv' /\ ReaderInv'
  OBVIOUS
<1> USE DEF ServerInv, ExitInv, ReaderInv,
            mainVars, hupVars, loopVars, httpVars, otlpVars, pushFrame
<1>1. CASE UNCHANGED <<pc, exit, status, http, target, push, pushed>>
  BY <1>1
<1>2. CASE Running /\ Start
  <2>1. CASE LoadFails
    BY <2>1 DEF LoadFails, Exit
  <2>2. CASE Wire
    BY <1>2, <2>2 DEF Wire, Goto, Running, TypeOK
  <2>3. CASE Listen
    BY <1>2, <2>3 DEF Listen, Goto, Running
  <2>4. CASE Notify
    BY <1>2, <2>4 DEF Notify, Goto, Running
  <2>5. CASE StartLoop
    BY <1>2, <2>5 DEF StartLoop, Goto, Running
  <2>6. CASE Watch
    BY <1>2, <2>6 DEF Watch, Goto, Running
  <2> QED BY <1>2, <2>1, <2>2, <2>3, <2>4, <2>5, <2>6 DEF Start
<1>3. CASE Kill
  BY <1>3 DEF Kill, Exit
<1>4. CASE HangupKills
  BY <1>4 DEF HangupKills, Exit
<1>5. CASE Running /\ Serving
  BY <1>5 DEF Serving, ServerUp, ServerFails, HealthOk, Exit, Running
<1>6. CASE Running /\ Pushing
  BY <1>6 DEF Pushing, PushBegins, PushEnds, PushDelivered, PushFails, BackendTurns, Running
<1>7. CASE Running /\ Stopping
  <2>1. CASE BeginDrain
    BY <1>7, <2>1 DEF BeginDrain, Goto, Running
  <2>2. CASE Drained
    BY <1>7, <2>2 DEF Drained, Goto, Running
  <2>3. CASE DrainTimeout
    BY <1>7, <2>3 DEF DrainTimeout, Goto, Running
  <2>4. CASE Restore
    BY <1>7, <2>4 DEF Restore, Goto, Running
  <2>5. CASE Flush
    BY <1>7, <2>5 DEF Flush, Observe, Running
  <2>6. CASE Return
    BY <2>6 DEF Return, Exit
  <2> QED BY <1>7, <2>1, <2>2, <2>3, <2>4, <2>5, <2>6 DEF Stopping
<1> QED BY <1>1, <1>2, <1>3, <1>4, <1>5, <1>6, <1>7, OrderFrame

(* A server that is closed takes in no request, and nothing renders for    *)
(* clients that have none.                                                 *)
LEMMA NoneComes ==
  ASSUME NoneInFlight, http = "closed", [Next]_vars
  PROVE  NoneInFlight' /\ served' = served
<1>1. CASE UNCHANGED <<store, scrape, told, served>>
  BY <1>1 DEF NoneInFlight
<1>2. CASE Publish
  BY <1>2 DEF NoneInFlight, Publish, httpVars
<1>3. CASE HealthOk
  BY <1>3 DEF HealthOk
<1>4. ~ \E c \in Scraper : Scraping(c)
  BY DEF NoneInFlight, Scraping, BeginScrape, LoadSnapshot, Render, EndScrape
<1> QED BY <1>1, <1>2, <1>3, <1>4, ScrapeFrame

LEMMA DrainStep ==
  /\ TypeOK /\ ScrapeInv /\ ServerInv /\ ReaderInv /\ DrainInv
  /\ [Next]_vars
  => DrainInv'
<1> SUFFICES ASSUME TypeOK, ScrapeInv, ServerInv, ReaderInv, DrainInv, [Next]_vars
             PROVE  DrainInv'
  OBVIOUS
<1> USE DEF DrainInv, mainVars, hupVars, loopVars, httpVars, otlpVars, pushFrame
<1>1. CASE UNCHANGED <<pc, exit, status, http, target, push, pushed>>
  BY <1>1, NoneComes DEF ServerInv, ReaderInv
<1>2. CASE Start \/ Kill \/ HangupKills \/ Serving \/ Pushing
  <2>1. /\ status' = status
        /\ pc' \in {"stop", "flush"} => pc' = pc
        /\ push' = "last" => push' = push /\ pushed' = pushed /\ pc' = pc
    BY <1>2
    DEF Start, LoadFails, Wire, Listen, Notify, StartLoop, Watch, Goto, Exit,
        Kill, HangupKills, Serving, ServerUp, ServerFails, HealthOk,
        Pushing, PushBegins, PushEnds, PushDelivered, PushFails, BackendTurns, ReaderInv
  <2> QED BY <2>1, NoneComes DEF ServerInv, ReaderInv
<1>3. CASE Stopping
  <2>1. CASE BeginDrain
    BY <2>1 DEF BeginDrain, Goto, ReaderInv
  <2>2. CASE Drained
    BY <2>2, NoneComes DEF Drained, Goto, ServerInv, ReaderInv
  <2>3. CASE DrainTimeout
    BY <2>3 DEF DrainTimeout, Goto
  <2>4. CASE Restore
    BY <2>4, NoneComes DEF Restore, Goto, ServerInv, ReaderInv
  <2>5. CASE Flush
    <3>1. status = "ok" => NoneInFlight /\ http = "closed"
      BY <2>5 DEF Flush, pushFrame, ServerInv
    <3>2. status' = status /\ served' = served /\ pushed' = store
      BY <2>5 DEF Flush, Observe
    <3>3. store \in Nat /\ served \in Nat /\ served <= store
      BY ProcessAssumption DEF TypeOK, ScrapeInv, Snapshot
    <3> QED BY <3>1, <3>2, <3>3, NoneComes
  <2>6. CASE Return
    BY <2>6, NoneComes DEF Return, Exit, ServerInv
  <2> QED BY <1>3, <2>1, <2>2, <2>3, <2>4, <2>5, <2>6 DEF Stopping
<1> QED BY <1>1, <1>2, <1>3, OrderFrame

LEMMA InvStep == ProcessInv /\ [Next]_vars => ProcessInv'
BY TypeStep, ScrapeStep, OrderStep, DrainStep DEF ProcessInv

-----------------------------------------------------------------------------
(* Whatever the signals, scrapes and pushes, nobody renders more than the  *)
(* samples of a snapshot and no export path holds one that was not         *)
(* published (prometheus.go:26-43, store.go:26-39).                        *)
THEOREM TypeCorrect == Spec => []TypeOK
<1>1. ProcessInv => TypeOK
  BY DEF ProcessInv
<1> QED BY <1>1, InvInit, InvStep, PTL DEF Spec

(* All samples of a scrape are from one snapshot, at least as new as the   *)
(* store's when the scrape came (prometheus.go:26-43, store.go:34-39).     *)
THEOREM OneFreshSnapshotAlways == Spec => []OneFreshSnapshot
<1>1. ProcessInv => OneFreshSnapshot
  <2> SUFFICES ASSUME ProcessInv, NEW c \in Scraper,
                      NEW i \in DOMAIN scrape[c].shown,
                      NEW j \in DOMAIN scrape[c].shown
               PROVE  /\ scrape[c].shown[i] = scrape[c].shown[j]
                      /\ scrape[c].shown[i] >= scrape[c].since
    BY DEF OneFreshSnapshot
  <2>1. scrape[c] \in Request /\ RequestInv(scrape[c])
    BY DEF ProcessInv, TypeOK, ScrapeInv
  <2>2. scrape[c].stage \in {"loaded", "rendered"}
    BY <2>1 DEF Request, RequestInv, NoRequest
  <2>3. scrape[c].since \in Int /\ scrape[c].snap \in Int
    BY <2>1, ProcessAssumption DEF Request, Snapshot
  <2> QED BY <2>1, <2>2, <2>3 DEF RequestInv
<1> QED BY <1>1, InvInit, InvStep, PTL DEF Spec

(* Once /health has answered "ok", no scrape that comes later shows the    *)
(* empty snapshot the store is seeded with (main.go:137-143).              *)
THEOREM HealthNeverAheadAlways == Spec => []HealthNeverAhead
<1>1. ProcessInv => HealthNeverAhead
  <2> SUFFICES ASSUME ProcessInv, NEW c \in Scraper, scrape[c].afterOk,
                      NEW i \in DOMAIN scrape[c].shown
               PROVE  scrape[c].shown[i] # 0
    BY DEF HealthNeverAhead
  <2>1. scrape[c] \in Request /\ RequestInv(scrape[c])
    BY DEF ProcessInv, TypeOK, ScrapeInv
  <2>2. scrape[c].stage \in {"loaded", "rendered"}
    BY <2>1 DEF Request, RequestInv, NoRequest
  <2>3. scrape[c].since \in Nat /\ scrape[c].snap \in Nat /\ scrape[c].since # 0
    BY <2>1, ProcessAssumption DEF Request, RequestInv, Snapshot
  <2> QED BY <2>1, <2>2, <2>3 DEF RequestInv
<1> QED BY <1>1, InvInit, InvStep, PTL DEF Spec

(* A process that ends in order with OTLP on has handed the exporter a     *)
(* snapshot at least as new as every one it served (main.go:95-113).       *)
THEOREM FlushedLastAlways == Spec => []FlushedLast
<1>1. ProcessInv => FlushedLast
  BY DEF ProcessInv, ExitInv, ReaderInv, DrainInv, FlushedLast
<1> QED BY <1>1, InvInit, InvStep, PTL DEF Spec
=============================================================================
