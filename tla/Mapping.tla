------------------------------ MODULE Mapping ------------------------------
(***************************************************************************)
(* What the resource collectors make of the answers of a server            *)
(* (internal/nsr/alerts.go ... vmware.go): the requests each of them       *)
(* sends, the fields it asks for, and the samples it appends.  The sizing  *)
(* collector's loop is Sizing.                                             *)
(*                                                                         *)
(* An item is a record of the fields of its JSON object, Absent when the   *)
(* object lacks them; texts are strings.  Each metric is emitted at one    *)
(* place with one help text, for which its name stands.                    *)
(***************************************************************************)
EXTENDS Quantity, SequencesExt

CONSTANT Cutoff  \* the start of the job window

ASSUME CutoffAssumption == Cutoff \in Nat

(* The collectors in the order they run, each with its requests. *)
Collectors ==
  << <<"alerts">>, <<"clients">>, <<"sessions">>, <<"volumes", "datadomainsystems">>,
     <<"devices">>, <<"storagenodes">>, <<"pools">>, <<"vcenters">>,
     <<"protectionpolicies", "protectiongroups">>, <<"backups">>,
     <<"serverstatistics", "jobs">> >>

Request == UNION {ToSet(Collectors[c]) : c \in DOMAIN Collectors}

(* fl=, the fields asked for; without it a server sends all it has. *)
Fields ==
  [alerts |-> {"priority", "category", "message", "timestamp"},
   clients |-> {"hostname", "ndmp", "scheduledBackup", "backupCommand", "parallelism",
                "os", "resourceId"},
   sessions |-> {"mode", "clientHostname", "size", "transferRate"},
   volumes |-> {"name", "pool", "type", "states", "capacity", "written", "recycled"},
   datadomainsystems |-> {"name", "model", "osVersion", "totalCapacity", "usedCapacity",
                          "availableCapacity", "usedLogicalCapacity"},
   devices |-> {"name", "mediaType", "mediaFamily", "status", "deviceSerialNumber"},
   storagenodes |-> {"name", "enabled", "typeOfStorageNode", "version", "numberOfDevices"},
   pools |-> {"name", "poolType", "enabled"},
   vcenters |-> {"hostname", "cloudDeployment"},
   protectionpolicies |-> {"name", "workflows"},
   protectiongroups |-> {"name", "workItemType"},
   jobs |-> {"id", "name", "type", "state", "completionStatus", "clientHostname",
             "startTime", "endTime", "level"}]

(* Mutant of Sent: the level of a job is not asked for. *)
SentWithoutLevel(q, items) ==
  IF q \notin DOMAIN Fields THEN items
  ELSE [n \in 1..Len(items) |->
          [f \in DOMAIN items[n] |-> IF f \in Fields[q] \ {"level"} THEN items[n][f] ELSE Absent]]

(* A server's answer to request q when it holds these items. *)
Sent(q, items) ==
  IF q \notin DOMAIN Fields THEN items
  ELSE [n \in 1..Len(items) |->
          [f \in DOMAIN items[n] |-> IF f \in Fields[q] THEN items[n][f] ELSE Absent]]

-----------------------------------------------------------------------------
(* The builder.  An operator that emits is the sequence it appends. *)

lbl(k, v) == [key |-> k, value |-> v]

(* The label keys of all metrics. *)
LabelKey ==
  {"priority", "category", "message", "timestamp", "client_name", "resource_id", "ndmp",
   "scheduled_backup", "backup_command", "operating_system", "session_type", "client",
   "volume_name", "pool", "type", "status", "dd_name", "model", "os_version", "device_name",
   "media_type", "media_family", "serial", "node", "enabled", "version", "pool_type",
   "vcenter", "cloud_deployment", "policy", "group", "work_item_type", "saveset_name",
   "level", "job_name", "job_id", "job_type", "state", "completion_status"}

gauge(name, value, labels) ==
  <<[name |-> name, help |-> name, type |-> "Gauge", labels |-> labels, value |-> value]>>

counter(name, value, labels) ==
  <<[name |-> name, help |-> name, type |-> "Counter", labels |-> labels, value |-> value]>>

(* Mutant of emitGauge: a value that is absent is exported as zero. *)
emitGaugeAlways(name, v, labels) == gauge(name, IF v = Absent THEN 0 ELSE v, labels)

(* Mutant of emitGauge: zero is taken for absent. *)
emitGaugeNonZero(name, v, labels) == IF v \in {Absent, 0} THEN <<>> ELSE gauge(name, v, labels)

emitGauge(name, v, labels) == IF v = Absent THEN <<>> ELSE gauge(name, v, labels)

emitCounter(name, v, labels) == IF v = Absent THEN <<>> ELSE counter(name, v, labels)

emitReading(name, r, labels) == IF r.ok THEN gauge(name, r.value, labels) ELSE <<>>

emitSizeCounter(name, s, labels) ==
  LET r == Bytes(s) IN IF r.ok THEN counter(name, r.value, labels) ELSE <<>>

emitHumanSize(name, s, labels) == emitReading(name, parseHumanSize(s), labels)

(* encoding/json leaves a text it does not find empty and a flag FALSE. *)
text(v) == IF v = Absent THEN "" ELSE v
FormatBool(v) == IF v = TRUE THEN "true" ELSE "false"

each(items, emit(_)) == FlattenSeq([n \in 1..Len(items) |-> emit(items[n])])

(* The entries of a Go map, emitted in any order. *)
inAnyOrder(S) == {FlattenSeq(order) : order \in SetToSeqs(S)}

NoEntries == [k \in {} |-> 0]

increment(m, k) == put(m, k, IF k \in DOMAIN m THEN m[k] + 1 ELSE 1)

totals(name, key, m) == inAnyOrder({gauge(name, m[k], <<lbl(key, k)>>) : k \in DOMAIN m})

-----------------------------------------------------------------------------
(* alerts *)

alertSamples(a) ==
  gauge("nsr_alert_info", 1,
        <<lbl("priority", text(a.priority)), lbl("category", text(a.category)),
          lbl("message", text(a.message)), lbl("timestamp", text(a.timestamp))>>)

byPriority(items) == FoldLeft(LAMBDA m, a : increment(m, text(a.priority)), NoEntries, items)

(* clients; resolveResourceID is "" for a client that has none *)

clientSamples(cl) ==
  LET id == <<lbl("client_name", cl.hostname), lbl("resource_id", text(cl.resourceId))>>
  IN  IF text(cl.hostname) = "" THEN <<>>
      ELSE gauge("nsr_client_info", 1,
                 id \o <<lbl("ndmp", FormatBool(cl.ndmp)),
                         lbl("scheduled_backup", FormatBool(cl.scheduledBackup)),
                         lbl("backup_command", text(cl.backupCommand)),
                         lbl("operating_system", text(cl.os))>>)
           \o emitGauge("nsr_client_parallelism", cl.parallelism, id)

-----------------------------------------------------------------------------
(* sessions: one pass groups them by mode and client, in the order first   *)
(* seen, and counts them by mode                                           *)

SessionStart == [order |-> <<>>, groups |-> NoEntries, byMode |-> NoEntries]

NoSession == [n |-> 0, bytes |-> 0, bps |-> 0, hasB |-> FALSE, hasR |-> FALSE]

(* Mutant of joined: a session whose size cannot be read is skipped. *)
joinedReadable(g, s) ==
  LET b == Bytes(s.size)
      r == BytesPerSecond(s.transferRate)
  IN  IF ~ b.ok THEN g
      ELSE [n |-> g.n + 1, bytes |-> g.bytes + b.value, bps |-> g.bps + r.value,
            hasB |-> TRUE, hasR |-> g.hasR \/ r.ok]

(* What cannot be read is not added: its value is zero. *)
joined(g, s) ==
  LET b == Bytes(s.size)
      r == BytesPerSecond(s.transferRate)
  IN  [n |-> g.n + 1, bytes |-> g.bytes + b.value, bps |-> g.bps + r.value,
       hasB |-> g.hasB \/ b.ok, hasR |-> g.hasR \/ r.ok]

addSession(acc, s) ==
  LET k == [mode |-> text(s.mode), client |-> text(s.clientHostname)]
      seen == k \in DOMAIN acc.groups
  IN  [order |-> IF seen THEN acc.order ELSE Append(acc.order, k),
       groups |-> put(acc.groups, k, joined(IF seen THEN acc.groups[k] ELSE NoSession, s)),
       byMode |-> increment(acc.byMode, k.mode)]

(* Mutant of groupLabels: the client is left out. *)
groupLabelsByMode(k) == <<lbl("session_type", k.mode)>>

groupLabels(k) == <<lbl("session_type", k.mode), lbl("client", k.client)>>

groupSamples(k, g) ==
  LET l == groupLabels(k)
  IN  gauge("nsr_session_active", g.n, l)
      \o (IF g.hasB THEN gauge("nsr_session_bytes", g.bytes, l) ELSE <<>>)
      \o (IF g.hasR THEN gauge("nsr_session_transfer_bytes_per_second", g.bps, l) ELSE <<>>)

sessionEmissions(items) ==
  LET acc == FoldLeft(addSession, SessionStart, items)
      emit(k) == groupSamples(k, acc.groups[k])
  IN  {each(acc.order, emit) \o rest :
         rest \in totals("nsr_active_sessions", "session_type", acc.byMode)}

-----------------------------------------------------------------------------
(* storage; states is the array joined to one text, Absent when empty *)

volumeSamples(v) ==
  LET name == lbl("volume_name", text(v.name))
      pool == lbl("pool", text(v.pool))
      vl == <<name, pool, lbl("type", text(v.type))>>
  IN  emitReading("nsr_volume_capacity_bytes", Bytes(v.capacity), vl)
      \o emitReading("nsr_volume_written_bytes", Bytes(v.written), vl)
      \o emitCounter("nsr_volume_recycled_total", v.recycled, <<name>>)
      \o (IF v.states = Absent THEN <<>>
          ELSE gauge("nsr_volume_status", 1, <<name, pool, lbl("status", v.states)>>))

datadomainSamples(d) ==
  LET dl == <<lbl("dd_name", text(d.name)), lbl("model", text(d.model)),
              lbl("os_version", text(d.osVersion))>>
  IN  emitHumanSize("nsr_datadomain_capacity_total_bytes", d.totalCapacity, dl)
      \o emitHumanSize("nsr_datadomain_capacity_used_bytes", d.usedCapacity, dl)
      \o emitHumanSize("nsr_datadomain_capacity_available_bytes", d.availableCapacity, dl)
      \o emitHumanSize("nsr_datadomain_logical_capacity_used_bytes", d.usedLogicalCapacity, dl)

-----------------------------------------------------------------------------
(* Inventory: an item without a name is skipped. *)

deviceSamples(d) ==
  IF text(d.name) = "" THEN <<>>
  ELSE gauge("nsr_device_info", 1,
             <<lbl("device_name", d.name), lbl("media_type", text(d.mediaType)),
               lbl("media_family", text(d.mediaFamily)), lbl("status", text(d.status)),
               lbl("serial", text(d.deviceSerialNumber))>>)

storageNodeSamples(n) ==
  IF text(n.name) = "" THEN <<>>
  ELSE gauge("nsr_storagenode_info", 1,
             <<lbl("node", n.name), lbl("enabled", FormatBool(n.enabled)),
               lbl("type", text(n.typeOfStorageNode)), lbl("version", text(n.version))>>)
       \o emitGauge("nsr_storagenode_device_count", n.numberOfDevices, <<lbl("node", n.name)>>)

poolSamples(p) ==
  IF text(p.name) = "" THEN <<>>
  ELSE gauge("nsr_pool_info", 1,
             <<lbl("pool", p.name), lbl("pool_type", text(p.poolType)),
               lbl("enabled", FormatBool(p.enabled))>>)

vcenterSamples(v) ==
  IF text(v.hostname) = "" THEN <<>>
  ELSE gauge("nsr_vmware_info", 1,
             <<lbl("vcenter", v.hostname),
               lbl("cloud_deployment", FormatBool(v.cloudDeployment))>>)

(* workflows is the sequence of their enabled flags. *)
policySamples(p) ==
  LET enabled == p.workflows # Absent /\ TRUE \in ToSet(p.workflows)
  IN  IF text(p.name) = "" THEN <<>>
      ELSE gauge("nsr_policy_enabled", IF enabled THEN 1 ELSE 0, <<lbl("policy", p.name)>>)

groupInfo(g) ==
  IF text(g.name) = "" THEN <<>>
  ELSE gauge("nsr_group_info", 1,
             <<lbl("group", g.name), lbl("work_item_type", text(g.workItemType))>>)

-----------------------------------------------------------------------------
(* jobs *)

statisticsSamples(st) ==
  emitReading("nsr_server_up_since_timestamp_seconds", parseTime(st.upSince), <<>>)
  \o emitCounter("nsr_server_saves_total", st.saves, <<>>)
  \o emitSizeCounter("nsr_server_save_size_bytes", st.saveSize, <<>>)
  \o emitCounter("nsr_server_recovers_total", st.recovers, <<>>)
  \o emitSizeCounter("nsr_server_recover_size_bytes", st.recoverSize, <<>>)
  \o emitCounter("nsr_server_bad_saves_total", st.badSaves, <<>>)
  \o emitCounter("nsr_server_bad_recovers_total", st.badRecovers, <<>>)
  \o emitGauge("nsr_server_current_saves", st.currentSaves, <<>>)
  \o emitGauge("nsr_server_current_recovers", st.currentRecovers, <<>>)
  \o emitGauge("nsr_server_max_saves", st.maxSaves, <<>>)
  \o emitGauge("nsr_server_max_recovers", st.maxRecovers, <<>>)

jobSamples(j) ==
  LET start == parseTime(j.startTime)
      id == <<lbl("job_id", text(j.id)), lbl("job_name", text(j.name))>>
  IN  IF start.ok /\ start.value < Cutoff THEN <<>>
      ELSE gauge("nsr_job_status", 1,
                 id \o <<lbl("job_type", text(j.type)), lbl("state", text(j.state)),
                         lbl("completion_status", text(j.completionStatus)),
                         lbl("client", text(j.clientHostname)), lbl("level", text(j.level))>>)
           \o emitReading("nsr_job_start_timestamp_seconds", start, id)
           \o emitReading("nsr_job_end_timestamp_seconds", parseTime(j.endTime), id)

-----------------------------------------------------------------------------
(* What may be appended for the answer to request q. *)
Emissions(q, items) ==
  CASE q = "alerts" ->
         {each(items, alertSamples) \o rest :
            rest \in totals("nsr_alerts_active", "priority", byPriority(items))}
    [] q = "clients" -> {each(items, clientSamples)}
    [] q = "sessions" -> sessionEmissions(items)
    [] q = "volumes" -> {each(items, volumeSamples)}
    [] q = "datadomainsystems" -> {each(items, datadomainSamples)}
    [] q = "devices" -> {each(items, deviceSamples)}
    [] q = "storagenodes" -> {each(items, storageNodeSamples)}
    [] q = "pools" -> {each(items, poolSamples)}
    [] q = "vcenters" -> {each(items, vcenterSamples)}
    [] q = "protectionpolicies" -> {each(items, policySamples)}
    [] q = "protectiongroups" -> {each(items, groupInfo)}
    [] q = "serverstatistics" -> {each(items, statisticsSamples)}
    [] q = "jobs" -> {each(items, jobSamples)}
=============================================================================
