------------------------------- MODULE Guard -------------------------------
(***************************************************************************)
(* The data of the exporter (internal/models/sample.go) and what the       *)
(* series guard (internal/nsr/guard.go) must make of one cycle's samples.  *)
(*                                                                         *)
(* A sample is identified for the Prometheus registry by its series: the   *)
(* metric name and the set of its label pairs.  Gather fails for the whole *)
(* registry, and /metrics answers 500, when it is handed two samples of    *)
(* one series, two types or two help texts under one name, or a label list *)
(* it cannot parse.  The guard repairs those samples before they are       *)
(* published; the first sample seen of a name or of a series wins.         *)
(*                                                                         *)
(* This module is declarative: it says which samples survive.  GuardScan   *)
(* models the loop that computes it.                                       *)
(***************************************************************************)
EXTENDS Integers, Sequences, FiniteSets

CONSTANTS
  Systems,    \* the configured systems' names, in config order
  Name,       \* metric names
  Help,       \* help texts
  Key,        \* label keys
  Value,      \* label values
  GoodKey,    \* the keys that match validLabelName and have no "__" prefix
  GoodValue   \* the values that are valid UTF-8

System == {Systems[i] : i \in 1..Len(Systems)}

MetricType == {"Gauge", "Counter"}
Label == [key : Key, value : Value]
Sample == [name : Name, help : Help, type : MetricType,
           labels : Seq(Label), value : Nat]

systemLabel == "system"
reasonLabel == "reason"
guardMetric == "nsr_guard_repaired_samples"
guardHelp   == "guard help"

guardReasons == <<"duplicate", "type_mismatch", "help_mismatch", "invalid_label">>
Reason == {"duplicate", "type_mismatch", "help_mismatch", "invalid_label"}

(* Names are unique (Config.validate rejects a repeated system name) and   *)
(* come from YAML, so they are valid UTF-8.                                *)
ASSUME SystemsAssumption ==
  /\ Systems \in Seq(GoodValue)
  /\ \A i, j \in 1..Len(Systems) : Systems[i] = Systems[j] => i = j

ASSUME LabelsAssumption ==
  /\ GoodKey \subseteq Key
  /\ GoodValue \subseteq Value
  /\ {systemLabel, reasonLabel} \subseteq GoodKey
  /\ Reason \subseteq GoodValue
  /\ guardMetric \in Name
  /\ guardHelp \in Help

-----------------------------------------------------------------------------
(* withSystem: the identity label is appended to a copy of the labels. *)
withSystem(s, sys) ==
  [s EXCEPT !.labels = Append(@, [key |-> systemLabel, value |-> sys])]

(* validLabels: every key well formed, every value UTF-8, no key twice. *)
validLabels(labels) ==
  /\ \A i \in 1..Len(labels) : labels[i].key \in GoodKey /\ labels[i].value \in GoodValue
  /\ \A i, j \in 1..Len(labels) : labels[i].key = labels[j].key => i = j

(* seriesKey: the name and the label pairs, whatever their order.  The     *)
(* string the code builds is one-to-one with this pair as long as no label *)
(* value contains the control characters it uses as separators.            *)
LabelPairs(s) == {s.labels[i] : i \in 1..Len(s.labels)}
seriesKey(s) == <<s.name, LabelPairs(s)>>

(* The occurrences of the identity label in s that name the system sys. *)
SystemTags(s, sys) ==
  {i \in 1..Len(s.labels) : s.labels[i] = [key |-> systemLabel, value |-> sys]}

(* The guard's own gauge for one system and reason. *)
SelfMetric(counts, sys, r) ==
  [name |-> guardMetric, help |-> guardHelp, type |-> "Gauge",
   labels |-> << [key |-> reasonLabel, value |-> r],
                 [key |-> systemLabel, value |-> sys] >>,
   value |-> counts[sys][r]]

-----------------------------------------------------------------------------
(* What survives, of a sequence f of samples. *)

(* j is the first well-labelled sample of its name: it fixes the name's    *)
(* type and help (the code's nameState).                                   *)
IsLeader(f, n, j) ==
  /\ j \in 1..Len(f)
  /\ f[j].name = n
  /\ validLabels(f[j].labels)
  /\ \A k \in 1..(j - 1) : ~ (f[k].name = n /\ validLabels(f[k].labels))

Leader(f, n) == CHOOSE j \in 1..Len(f) : IsLeader(f, n, j)

(* Sample i is well labelled and has its name's type. *)
Passes(f, i) ==
  /\ validLabels(f[i].labels)
  /\ f[i].type = f[Leader(f, f[i].name)].type

(* It is the first of its series to pass. *)
IsKept(f, i) ==
  /\ Passes(f, i)
  /\ \A k \in 1..(i - 1) : seriesKey(f[k]) = seriesKey(f[i]) => ~ Passes(f, k)

(* Mutant of Repaired: help texts are left as they are. *)
Unrepaired(f, i) == f[i]

(* A kept sample carries its name's first help text. *)
Repaired(f, i) == [f[i] EXCEPT !.help = f[Leader(f, f[i].name)].help]

Kept(f) == {Repaired(f, i) : i \in {j \in 1..Len(f) : IsKept(f, j)}}

(* Why sample i was dropped or rewritten; "none" when it was left alone. *)
Verdict(f, i) ==
  IF ~ validLabels(f[i].labels) THEN "invalid_label"
  ELSE IF ~ Passes(f, i) THEN "type_mismatch"
  ELSE IF ~ IsKept(f, i) THEN "duplicate"
  ELSE IF Repaired(f, i) # f[i] THEN "help_mismatch"
  ELSE "none"

RepairCounts(f) ==
  LET verdict == [i \in 1..Len(f) |-> Verdict(f, i)]
      tagged  == [sys \in System |-> {i \in 1..Len(f) : SystemTags(f[i], sys) # {}}]
  IN  [sys \in System |->
         [r \in Reason |-> Cardinality({i \in tagged[sys] : verdict[i] = r})]]

SelfMetrics(counts) == {SelfMetric(counts, sys, r) : sys \in System, r \in Reason}

(* The samples guardSamples returns for f.  Their order is not observed:   *)
(* the registry sorts what it gathers and OTLP observations have no order. *)
Guarded(f) == Kept(f) \cup SelfMetrics(RepairCounts(f))

-----------------------------------------------------------------------------
(* What Gather requires of a set of samples. *)
GatherAccepts(S) ==
  /\ \A s \in S : validLabels(s.labels)
  /\ \A s, t \in S : s.name = t.name => s.type = t.type /\ s.help = t.help
  /\ \A s, t \in S : seriesKey(s) = seriesKey(t) => s = t
=============================================================================
