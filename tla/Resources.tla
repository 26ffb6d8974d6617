----------------------------- MODULE Resources -----------------------------
(***************************************************************************)
(* collectSystem (internal/nsr/collector.go) for one system and one cycle: *)
(* the eleven resource collectors in turn, request by request, any of      *)
(* which may fail.  What Collector takes as one answer with the samples    *)
(* Emits[sys][c] is here a collector's whole Collect.                      *)
(***************************************************************************)
EXTENDS Sizing, Mapping, Exports

CONSTANTS
  Polled,  \* the name of the system
  Server   \* what servers may hold: the list of items of each request

(* The fields of an item, as its Go type has them: what a server sends     *)
(* under a name is decoded as a text, a flag, a number or a size.  The     *)
(* statistics are one object.                                              *)
Text == {Absent} \cup GoodValue
Flag == {Absent} \cup BOOLEAN
Number == {Absent} \cup Amount

Item ==
  [alerts |-> [priority : Text, category : Text, message : Text, timestamp : Text],
   clients |-> [hostname : Text, ndmp : Flag, scheduledBackup : Flag, backupCommand : Text,
                parallelism : Number, os : Text, resourceId : Text],
   sessions |-> [mode : Text, clientHostname : Text, size : Size, transferRate : Size],
   volumes |-> [name : Text, pool : Text, type : Text, states : Text, capacity : Size,
                written : Size, recycled : Number],
   datadomainsystems |-> [name : Text, model : Text, osVersion : Text,
                          totalCapacity : HumanSize, usedCapacity : HumanSize,
                          availableCapacity : HumanSize, usedLogicalCapacity : HumanSize],
   devices |-> [name : Text, mediaType : Text, mediaFamily : Text, status : Text,
                deviceSerialNumber : Text],
   storagenodes |-> [name : Text, enabled : Flag, typeOfStorageNode : Text, version : Text,
                     numberOfDevices : Number],
   pools |-> [name : Text, poolType : Text, enabled : Flag],
   vcenters |-> [hostname : Text, cloudDeployment : Flag],
   protectionpolicies |-> [name : Text, workflows : {Absent} \cup Seq(BOOLEAN)],
   protectiongroups |-> [name : Text, workItemType : Text],
   serverstatistics |-> [upSince : Time, saves : Number, saveSize : Size, recovers : Number,
                         recoverSize : Size, badSaves : Number, badRecovers : Number,
                         currentSaves : Number, currentRecovers : Number,
                         maxSaves : Number, maxRecovers : Number],
   jobs |-> [id : Text, name : Text, type : Text, state : Text, completionStatus : Text,
             clientHostname : Text, startTime : Time, endTime : Time, level : Text]]

ASSUME ServerAssumption ==
  \A s \in Server :
    /\ DOMAIN s = Request
    /\ s["backups"] \in Answer
    /\ \A q \in DOMAIN Item : s[q] \in Seq(Item[q])
    /\ Len(s["serverstatistics"]) = 1

(* encoding/json makes valid UTF-8 of every text it decodes.               *)
ASSUME SamplesAssumption ==
  /\ Polled \in System
  /\ Catalog \subseteq Name \cap Help /\ {upHelp, durationHelp} \subseteq Help
  /\ LabelKey \subseteq GoodKey \ {systemLabel}
  /\ SaveSetKey \cup {"", "true", "false", "Full", "Incr"} \subseteq GoodValue

VARIABLES
  server,   \* what the server holds
  rc,       \* the collector whose turn it is
  asked,    \* its requests answered
  out,      \* its builder
  samples,  \* samples of collectSystem
  healthy

allVars == <<vars, server, rc, asked, out, samples, healthy>>

CollectInit ==
  /\ server \in Server
  /\ answer = server["backups"]
  /\ Init
  /\ rc = 1 /\ asked = 0
  /\ out = <<>> /\ samples = <<>>
  /\ healthy = TRUE

Returned == rc > Len(Collectors)
Asking == ~ Returned /\ asked < Len(Collectors[rc])
Answered == ~ Returned /\ asked = Len(Collectors[rc])
query == Collectors[rc][asked + 1]

(* Mutant of NextCollector: the count of requests is not reset. *)
NextCollectorAsked ==
  /\ rc' = rc + 1
  /\ asked' = asked
  /\ out' = <<>>
  /\ UNCHANGED <<vars, server>>

(* The next collector, with a builder of its own. *)
NextCollector ==
  /\ rc' = rc + 1
  /\ asked' = 0
  /\ out' = <<>>
  /\ UNCHANGED <<vars, server>>

(* A request is answered, and what the collector makes of the items is     *)
(* appended before it sends the next one.                                  *)
Succeeds ==
  /\ Asking
  /\ asked' = asked + 1
  /\ \E new \in IF query = "backups" THEN {<<>>}
                ELSE Emissions(query, Sent(query, server[query])) :
       out' = out \o new
  /\ UNCHANGED <<vars, server, rc, samples, healthy>>

(* Mutant of Fails: what the builder holds is kept. *)
FailsKeeping ==
  /\ Asking
  /\ samples' = samples \o out
  /\ healthy' = FALSE
  /\ NextCollector

(* It fails, or the answer cannot be decoded: Collect returns no samples.  *)
Fails ==
  /\ Asking
  /\ healthy' = FALSE
  /\ NextCollector
  /\ UNCHANGED samples

Folds ==
  /\ Answered
  /\ Collectors[rc] = <<"backups">>
  /\ Fold
  /\ UNCHANGED <<server, rc, asked, out, samples, healthy>>

(* A throughput is exported in thousandths of a byte per second, rounded   *)
(* up: values are integers here, and only that of no bytes is zero.        *)
perMille(j) == (j.size * 1000 + j.dur - 1) \div j.dur

(* The loops over the four maps, at the end of the sizing collector. *)
sizeOrders(name, level, m) ==
  inAnyOrder({gauge(name, m[k], <<lbl("client", k), lbl("saveset_name", k),
                                  lbl("level", level)>>) : k \in DOMAIN m})

retentionOrders(m) ==
  inAnyOrder({gauge("nsr_backup_retention_seconds", m[k],
                    <<lbl("client", k), lbl("saveset_name", k)>>) : k \in DOMAIN m})

jobGauges(k, j) ==
  LET l == <<lbl("client", k), lbl("job_name", k)>>
  IN  gauge("nsr_job_duration_seconds", j.dur, l)
      \o gauge("nsr_job_bytes_per_second", perMille(j), l)

jobOrders(m) == inAnyOrder({jobGauges(k, m[k]) : k \in DOMAIN m})

sizingEmissions(full, incr, ret, best) ==
  {f \o c \o r \o j :
     f \in sizeOrders("nsr_backup_source_size_bytes", "Full", full),
     c \in sizeOrders("nsr_backup_change_size_bytes", "Incr", incr),
     r \in retentionOrders(ret),
     j \in jobOrders(best)}

(* Collect returns the builder's samples. *)
Returns ==
  /\ Answered
  /\ IF Collectors[rc] = <<"backups">>
     THEN /\ i = Len(answer)
          /\ \E new \in sizingEmissions(fullMax, incrMax, retMax, jobBest) :
               samples' = samples \o new
     ELSE samples' = samples \o out
  /\ NextCollector
  /\ UNCHANGED healthy

CollectNext == Succeeds \/ Fails \/ Folds \/ Returns

CollectSpec == CollectInit /\ [][CollectNext]_allVars

-----------------------------------------------------------------------------
(* Properties *)

(* Of the collector whose turn it is no more requests are answered than it *)
(* has, and what it builds are samples.                                    *)
CollectTypeOK ==
  /\ TypeOK
  /\ DOMAIN server = Request
  /\ rc \in 1..(Len(Collectors) + 1)
  /\ ~ Returned => asked \in 0..Len(Collectors[rc])
  /\ out \in Seq(Sample)
  /\ samples \in Seq(Sample)
  /\ healthy \in BOOLEAN

(* What the sizing collector is to make of a list of save sets: maxima,    *)
(* and of equally fast instances the first.                                *)
instances(list, Counts(_), k) == {n \in DOMAIN list : Counts(list[n]) /\ list[n].key = k}
keysWith(list, Counts(_)) == {k \in SaveSetKey : instances(list, Counts, k) # {}}

most(list, Counts(_), value(_)) ==
  [k \in keysWith(list, Counts) |-> Max({value(list[n]) : n \in instances(list, Counts, k)})]

fastest(list, k) ==
  LET timed == instances(list, Timed, k)
  IN  {n \in timed : \A l \in timed : ~ faster(job(list[l]), job(list[n]))}

sizingMade(list) ==
  LET best == [k \in keysWith(list, Timed) |-> job(list[Min(fastest(list, k))])]
  IN  ToSet(CHOOSE seq \in sizingEmissions(most(list, Full, size), most(list, Incr, size),
                                           most(list, Retained, retention), best) : TRUE)

(* What collector c is to make of all the server holds. *)
Made(held, c) ==
  IF Collectors[c] = <<"backups">> THEN sizingMade(held["backups"])
  ELSE UNION {ToSet(CHOOSE seq \in Emissions(q, held[q]) : TRUE) : q \in ToSet(Collectors[c])}

(* The collection loop's view: builder, requests and maps are hidden. *)
Promise ==
  INSTANCE Contributions WITH
    NumCollectors <- Len(Collectors), Maps <- Made, held <- server, turn <- rc

(* A collector contributes all of its samples, or none and the system is   *)
(* not healthy: nothing of a collector whose second request fails, nothing *)
(* twice, nothing of another's builder; and the fields asked for are all   *)
(* that is needed of what the server holds (collector.go:157-173,          *)
(* storage.go:85, policies.go:73, jobs.go:99).                             *)
ImplementsContributions == Promise!Spec

-----------------------------------------------------------------------------
at(name) == {n \in DOMAIN samples : samples[n].name = name}

labelOf(n, k) ==
  (CHOOSE l \in ToSet(samples[n].labels) : l.key = k).value

total(P) == SumFunctionOnSet([n \in P |-> samples[n].value], P)

(* The sum of a quantity over some items is in the samples at P, once and  *)
(* only if one of them has the quantity.                                   *)
Sums(P, readings) ==
  LET readable == {m \in DOMAIN readings : readings[m].ok}
  IN  /\ P = {} <=> readable = {}
      /\ Cardinality(P) <= 1
      /\ total(P) = SumFunctionOnSet([m \in readable |-> readings[m].value], readable)

like(P, n, keys) == {m \in P : \A k \in keys : labelOf(m, k) = labelOf(n, k)}

(* The sessions of the mode and client that a sample's labels say. *)
sessionsOf(n) ==
  {m \in DOMAIN server["sessions"] :
     LET s == server["sessions"][m]
     IN  /\ text(s.mode) = labelOf(n, "session_type")
         /\ text(s.clientHostname) = labelOf(n, "client")}

(* A mode has as many sessions as its clients have together, and no mode   *)
(* with sessions is left out; a client's bytes and rate are those of its   *)
(* readable sessions, absent rather than zero when none is                 *)
(* (sessions.go:47-91).                                                    *)
SessionsAddUp ==
  LET active == at("nsr_session_active")
      modes == at("nsr_active_sessions")
      sessions == server["sessions"]
      pair == {"session_type", "client"}
  IN  /\ \A n \in active : Cardinality(like(modes, n, {"session_type"})) = 1
      /\ \A n \in modes :
           samples[n].value = total(like(active, n, {"session_type"}))
      /\ \A n \in active :
           /\ samples[n].value = Cardinality(sessionsOf(n))
           /\ Sums(like(at("nsr_session_bytes"), n, pair),
                   [m \in sessionsOf(n) |-> Bytes(sessions[m].size)])
           /\ Sums(like(at("nsr_session_transfer_bytes_per_second"), n, pair),
                   [m \in sessionsOf(n) |-> BytesPerSecond(sessions[m].transferRate)])

(* Alerts are as many as are listed, of each priority and altogether       *)
(* (alerts.go:36-54).                                                      *)
AlertsAddUp ==
  LET counts == at("nsr_alerts_active")
      listed == at("nsr_alert_info")
  IN  /\ \A n \in counts : samples[n].value = Cardinality(like(listed, n, {"priority"}))
      /\ total(counts) = Cardinality(listed)

(* The aggregates of one answer agree with each other and with its items.  *)
AggregatesAddUp == SessionsAddUp /\ AlertsAddUp

-----------------------------------------------------------------------------
(* What CollectOnce makes of the system. *)
cycle == Tagged(samples \o <<upSample(healthy), durationSample>>, Polled)
snapshot == Guarded(cycle)

(* The metrics with one sample per item: two items alike give two samples  *)
(* of one series.                                                          *)
PerItem ==
  {"nsr_alert_info", "nsr_client_info", "nsr_client_parallelism",
   "nsr_volume_capacity_bytes", "nsr_volume_written_bytes", "nsr_volume_recycled_total",
   "nsr_volume_status", "nsr_datadomain_capacity_total_bytes",
   "nsr_datadomain_capacity_used_bytes", "nsr_datadomain_capacity_available_bytes",
   "nsr_datadomain_logical_capacity_used_bytes", "nsr_device_info", "nsr_storagenode_info",
   "nsr_storagenode_device_count", "nsr_pool_info", "nsr_vmware_info", "nsr_policy_enabled",
   "nsr_group_info", "nsr_job_status", "nsr_job_start_timestamp_seconds",
   "nsr_job_end_timestamp_seconds"}

(* The collectors keep what the cycle and the exports assume of them: none *)
(* of the cycle's own metrics, no system label, one type and one set of    *)
(* label keys per name, and for aggregates and server-wide metrics one     *)
(* sample per series, so that the guard has nothing to repair but items    *)
(* listed twice (metrics.go:15-25, ADR-0006, sessions.go:43-44,            *)
(* sizing.go:53-56).                                                       *)
ContractKept ==
  Returned =>
    LET keys(n) == {l.key : l \in ToSet(samples[n].labels)}
    IN  /\ \A n \in DOMAIN samples :
             samples[n].name \notin CycleMetric /\ systemLabel \notin keys(n)
        /\ \A n, m \in DOMAIN samples :
             samples[n].name = samples[m].name => keys(n) = keys(m)
        /\ \A n \in DOMAIN cycle :
             LET verdict == Verdict(cycle, n)
             IN  verdict = "none" \/ (verdict = "duplicate" /\ cycle[n].name \in PerItem)

(* A scrape and an OTLP push of one snapshot have the same series, with    *)
(* the same types and values: no metric that a collector emits lacks an    *)
(* instrument, and none has one of another type (otlp.go:31-46,            *)
(* prometheus.go:26-43; catalog.go: "so the two export paths never drift").*)
ExportsAgree == Returned => rendered(snapshot) = observed(snapshot)

-----------------------------------------------------------------------------
SizeField == {"size", "transferRate", "capacity", "written", "saveSize", "recoverSize"}
HumanField == {"totalCapacity", "usedCapacity", "availableCapacity", "usedLogicalCapacity"}
NumberField ==
  {"parallelism", "recycled", "numberOfDevices", "saves", "recovers", "badSaves",
   "badRecovers", "currentSaves", "currentRecovers", "maxSaves", "maxRecovers",
   "startTime", "endTime", "upSince"}

(* The field that each quantity is read from; a flag of a policy is none.  *)
readFrom ==
  [nsr_client_parallelism |-> "parallelism",
   nsr_session_bytes |-> "size",
   nsr_session_transfer_bytes_per_second |-> "transferRate",
   nsr_volume_capacity_bytes |-> "capacity",
   nsr_volume_written_bytes |-> "written",
   nsr_volume_recycled_total |-> "recycled",
   nsr_datadomain_capacity_total_bytes |-> "totalCapacity",
   nsr_datadomain_capacity_used_bytes |-> "usedCapacity",
   nsr_datadomain_capacity_available_bytes |-> "availableCapacity",
   nsr_datadomain_logical_capacity_used_bytes |-> "usedLogicalCapacity",
   nsr_storagenode_device_count |-> "numberOfDevices",
   nsr_backup_source_size_bytes |-> "size",
   nsr_backup_change_size_bytes |-> "size",
   nsr_job_bytes_per_second |-> "size",
   nsr_server_up_since_timestamp_seconds |-> "upSince",
   nsr_server_saves_total |-> "saves",
   nsr_server_save_size_bytes |-> "saveSize",
   nsr_server_recovers_total |-> "recovers",
   nsr_server_recover_size_bytes |-> "recoverSize",
   nsr_server_bad_saves_total |-> "badSaves",
   nsr_server_bad_recovers_total |-> "badRecovers",
   nsr_server_current_saves |-> "currentSaves",
   nsr_server_current_recovers |-> "currentRecovers",
   nsr_server_max_saves |-> "maxSaves",
   nsr_server_max_recovers |-> "maxRecovers",
   nsr_job_start_timestamp_seconds |-> "startTime",
   nsr_job_end_timestamp_seconds |-> "endTime"]

(* The item has the field, and it reads as zero. *)
sendsZero(item, f) ==
  /\ f \in DOMAIN item
  /\ \/ f \in SizeField /\ Bytes(item[f]) = Reading(0)
     \/ f \in HumanField /\ parseHumanSize(item[f]) = Reading(0)
     \/ f \in NumberField /\ item[f] = 0

(* A zero of this metric is one that an item of the list sends. *)
ZeroSent(name, items) ==
  \/ name = "nsr_policy_enabled"
  \/ /\ name \in DOMAIN readFrom
     /\ \E n \in DOMAIN items : sendsZero(items[n], readFrom[name])

(* A sample is zero only if the field it is read from was sent and reads   *)
(* as zero: what is left out or cannot be read is not exported (ADR-0008), *)
(* nor is an aggregate of nothing, and no count, duration, retention or    *)
(* info metric is ever zero.  Two exceptions: a size sent as an object     *)
(* without a value reads as zero (quantity.go:12-14), and a policy's flag, *)
(* which is no quantity, is zero when none of its workflows is enabled.    *)
NoFalseZero ==
  \A n \in DOMAIN samples :
    samples[n].value = 0 => \E q \in Request : ZeroSent(samples[n].name, server[q])

(* The quantities that are exported item by item, and the labels that say  *)
(* of which item, each with the field it is of.                            *)
Quantities ==
  [clients |->
     [of |-> {<<"client_name", "hostname">>, <<"resource_id", "resourceId">>},
      metrics |-> {"nsr_client_parallelism"}],
   volumes |->
     [of |-> {<<"volume_name", "name">>},
      metrics |-> {"nsr_volume_capacity_bytes", "nsr_volume_written_bytes",
                   "nsr_volume_recycled_total"}],
   datadomainsystems |->
     [of |-> {<<"dd_name", "name">>, <<"model", "model">>},
      metrics |-> {"nsr_datadomain_capacity_total_bytes",
                   "nsr_datadomain_capacity_used_bytes",
                   "nsr_datadomain_capacity_available_bytes",
                   "nsr_datadomain_logical_capacity_used_bytes"}],
   storagenodes |->
     [of |-> {<<"node", "name">>}, metrics |-> {"nsr_storagenode_device_count"}],
   serverstatistics |->
     [of |-> {},
      metrics |-> {"nsr_server_up_since_timestamp_seconds", "nsr_server_saves_total",
                   "nsr_server_save_size_bytes", "nsr_server_recovers_total",
                   "nsr_server_recover_size_bytes", "nsr_server_bad_saves_total",
                   "nsr_server_bad_recovers_total", "nsr_server_current_saves",
                   "nsr_server_current_recovers", "nsr_server_max_saves",
                   "nsr_server_max_recovers"}],
   jobs |->
     [of |-> {<<"job_id", "id">>, <<"job_name", "name">>},
      metrics |-> {"nsr_job_start_timestamp_seconds", "nsr_job_end_timestamp_seconds"}]]

reading(item, f) ==
  IF f \in SizeField THEN Bytes(item[f])
  ELSE IF f \in HumanField THEN parseHumanSize(item[f]) ELSE parseTime(item[f])

(* Items nothing is exported of: those without a name, and old jobs.       *)
leftOut(q, item) ==
  \/ q = "clients" /\ text(item.hostname) = ""
  \/ q = "storagenodes" /\ text(item.name) = ""
  \/ q = "jobs" /\ parseTime(item.startTime).ok /\ item.startTime < Cutoff

(* When every request was answered, each quantity that an item has and     *)
(* that can be read is exported under that item's labels, zero included:   *)
(* only what is absent is left out (ADR-0008), neither a zero nor a field  *)
(* that fl= forgets (clients.go:62-84, storage.go:62-98,                   *)
(* storagenodes.go:43-58, jobs.go:84-141).                                 *)
ValuesExported ==
  Returned /\ healthy =>
    \A q \in DOMAIN Quantities : \A m \in DOMAIN server[q] :
      LET item == server[q][m]
      IN  ~ leftOut(q, item) =>
            \A name \in Quantities[q].metrics :
              LET r == reading(item, readFrom[name])
              IN  r.ok => \E n \in at(name) :
                            /\ samples[n].value = r.value
                            /\ \A l \in Quantities[q].of : labelOf(n, l[1]) = text(item[l[2]])
=============================================================================
