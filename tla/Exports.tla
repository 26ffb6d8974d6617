------------------------------ MODULE Exports ------------------------------
(***************************************************************************)
(* The two export paths over one published snapshot: what a scrape renders *)
(* (internal/nsr/prometheus.go) and what the OTLP callback observes        *)
(* (internal/nsr/otlp.go, catalog.go).                                     *)
(***************************************************************************)
EXTENDS SystemSamples

(* Catalog: the metrics OTLP has an instrument for, and their types.  A    *)
(* metric's help text stands for nothing here.                             *)
CatalogCounters ==
  {"nsr_server_saves_total", "nsr_server_save_size_bytes", "nsr_server_recovers_total",
   "nsr_server_recover_size_bytes", "nsr_server_bad_saves_total",
   "nsr_server_bad_recovers_total", "nsr_volume_recycled_total"}

CatalogGauges ==
  {"nsr_up", "nsr_collection_duration_seconds", "nsr_guard_repaired_samples",
   "nsr_alert_info", "nsr_alerts_active", "nsr_client_info", "nsr_client_parallelism",
   "nsr_server_up_since_timestamp_seconds", "nsr_server_current_saves",
   "nsr_server_current_recovers", "nsr_server_max_saves", "nsr_server_max_recovers",
   "nsr_job_status", "nsr_job_start_timestamp_seconds", "nsr_job_end_timestamp_seconds",
   "nsr_session_active", "nsr_session_bytes", "nsr_session_transfer_bytes_per_second",
   "nsr_active_sessions", "nsr_volume_capacity_bytes", "nsr_volume_written_bytes",
   "nsr_volume_status", "nsr_datadomain_capacity_total_bytes",
   "nsr_datadomain_capacity_used_bytes", "nsr_datadomain_capacity_available_bytes",
   "nsr_datadomain_logical_capacity_used_bytes", "nsr_backup_source_size_bytes",
   "nsr_backup_change_size_bytes", "nsr_backup_retention_seconds",
   "nsr_job_duration_seconds", "nsr_job_bytes_per_second", "nsr_device_info",
   "nsr_storagenode_info", "nsr_storagenode_device_count", "nsr_pool_info",
   "nsr_vmware_info", "nsr_policy_enabled", "nsr_group_info"}

Catalog == CatalogCounters \cup CatalogGauges

(* Mutant of newObservable: every instrument is a gauge. *)
newGauge(name) == "Gauge"

newObservable(name) == IF name \in CatalogCounters THEN "Counter" ELSE "Gauge"

Series(s, type) ==
  [name |-> s.name, type |-> type, labels |-> LabelPairs(s), value |-> s.value]

(* PromCollector.Collect: a sample of which no metric can be made is left  *)
(* out.                                                                    *)
rendered(S) == {Series(s, s.type) : s \in {t \in S : validLabels(t.labels)}}

(* The callback: a sample without an instrument is skipped, and the type   *)
(* is the instrument's.                                                    *)
observed(S) == {Series(s, newObservable(s.name)) : s \in {t \in S : t.name \in Catalog}}
=============================================================================
