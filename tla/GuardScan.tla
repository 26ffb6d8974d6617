----------------------------- MODULE GuardScan -----------------------------
(***************************************************************************)
(* guardSamples (internal/nsr/guard.go:47-106) as the loop it is: one      *)
(* action per way an iteration can end, over the maps names, seen and      *)
(* counts, then the guard's own gauges are appended.                       *)
(***************************************************************************)
EXTENDS Guard

CONSTANTS
  Inputs,   \* the sample lists the guard may be called with
  Unknown   \* the state of a name that has not been seen

NameState == [typ : MetricType, help : Help]

(* Collectors must not emit the guard's metric, nor carry the system label *)
(* themselves: after withSystem a sample of a system carries it once.      *)
ASSUME InputsAssumption ==
  /\ Inputs \subseteq Seq(Sample)
  /\ \A f \in Inputs : \A i \in 1..Len(f) :
       /\ f[i].name # guardMetric
       /\ \A sys \in System : Cardinality(SystemTags(f[i], sys)) <= 1
  /\ Unknown \notin NameState

VARIABLES
  pc,      \* "scan" in the loop, "done" when the call has returned
  input,   \* the argument
  pos,     \* the iteration
  names,   \* first-seen type and help per name
  seen,    \* series kept so far
  counts,  \* repairs per system and reason
  out      \* the result under construction

vars == <<pc, input, pos, names, seen, counts, out>>

Init ==
  /\ pc = "scan"
  /\ input \in Inputs
  /\ pos = 1
  /\ names = [n \in Name |-> Unknown]
  /\ seen = {}
  /\ counts = [sys \in System |-> [r \in Reason |-> 0]]
  /\ out = <<>>

-----------------------------------------------------------------------------
Scanning == pc = "scan" /\ pos <= Len(input)
current == input[pos]

known(s) == names[s.name] # Unknown
TypeClash(s) == known(s) /\ names[s.name].typ # s.type
HelpClash(s) == known(s) /\ names[s.name].help # s.help

(* The sample counts once for every identity label it carries. *)
repair(s, r) ==
  counts' = [sys \in System |->
               [counts[sys] EXCEPT ![r] = @ + Cardinality(SystemTags(s, sys))]]

Register(s) ==
  names' = IF known(s) THEN names
           ELSE [names EXCEPT ![s.name] = [typ |-> s.type, help |-> s.help]]

Advance == pos' = pos + 1 /\ UNCHANGED <<pc, input>>

(* Mutant of DropInvalidLabel: the name is registered before its labels    *)
(* are checked, so a sample that is dropped decides the type of the rest.  *)
DropInvalidLabelAfterRegister ==
  /\ Scanning
  /\ ~ validLabels(current.labels)
  /\ repair(current, "invalid_label")
  /\ Register(current)
  /\ Advance
  /\ UNCHANGED <<seen, out>>

DropInvalidLabel ==
  /\ Scanning
  /\ ~ validLabels(current.labels)
  /\ repair(current, "invalid_label")
  /\ Advance
  /\ UNCHANGED <<names, seen, out>>

(* Mutant of DropTypeMismatch: the drop is not counted. *)
DropTypeMismatchSilently ==
  /\ Scanning
  /\ validLabels(current.labels)
  /\ TypeClash(current)
  /\ Advance
  /\ UNCHANGED <<names, seen, counts, out>>

DropTypeMismatch ==
  /\ Scanning
  /\ validLabels(current.labels)
  /\ TypeClash(current)
  /\ repair(current, "type_mismatch")
  /\ Advance
  /\ UNCHANGED <<names, seen, out>>

Admitted(s) == validLabels(s.labels) /\ ~ TypeClash(s)

(* Mutant of DropDuplicate: counted for the wrong reason. *)
DropDuplicateMiscounted ==
  /\ Scanning
  /\ Admitted(current)
  /\ seriesKey(current) \in seen
  /\ Register(current)
  /\ repair(current, "help_mismatch")
  /\ Advance
  /\ UNCHANGED <<seen, out>>

DropDuplicate ==
  /\ Scanning
  /\ Admitted(current)
  /\ seriesKey(current) \in seen
  /\ Register(current)
  /\ repair(current, "duplicate")
  /\ Advance
  /\ UNCHANGED <<seen, out>>

(* Mutant of Keep: the series is not remembered. *)
KeepUnseen ==
  /\ Scanning
  /\ Admitted(current)
  /\ seriesKey(current) \notin seen
  /\ ~ HelpClash(current)
  /\ Register(current)
  /\ out' = Append(out, current)
  /\ Advance
  /\ UNCHANGED <<seen, counts>>

Keep ==
  /\ Scanning
  /\ Admitted(current)
  /\ seriesKey(current) \notin seen
  /\ ~ HelpClash(current)
  /\ Register(current)
  /\ seen' = seen \cup {seriesKey(current)}
  /\ out' = Append(out, current)
  /\ Advance
  /\ UNCHANGED counts

KeepWithFirstHelp ==
  /\ Scanning
  /\ Admitted(current)
  /\ seriesKey(current) \notin seen
  /\ HelpClash(current)
  /\ Register(current)
  /\ seen' = seen \cup {seriesKey(current)}
  /\ repair(current, "help_mismatch")
  /\ out' = Append(out, [current EXCEPT !.help = names[current.name].help])
  /\ Advance

(* The gauges in the order of the nested loop over systems and reasons. *)
SelfMetricSeq(c) ==
  [k \in 1..(4 * Len(Systems)) |->
     SelfMetric(c, Systems[((k - 1) \div 4) + 1], guardReasons[((k - 1) % 4) + 1])]

AppendSelfMetrics ==
  /\ pc = "scan"
  /\ pos > Len(input)
  /\ out' = out \o SelfMetricSeq(counts)
  /\ pc' = "done"
  /\ UNCHANGED <<input, pos, names, seen, counts>>

Next ==
  \/ DropInvalidLabel
  \/ DropTypeMismatch
  \/ DropDuplicate
  \/ Keep
  \/ KeepWithFirstHelp
  \/ AppendSelfMetrics

Spec == Init /\ [][Next]_vars

-----------------------------------------------------------------------------
(* Properties *)

OutSet == {out[i] : i \in 1..Len(out)}

TypeOK ==
  /\ pc \in {"scan", "done"}
  /\ input \in Inputs
  /\ pos \in 1..(Len(input) + 1)
  /\ names \in [Name -> NameState \cup {Unknown}]
  /\ seen \subseteq Name \X SUBSET Label
  /\ counts \in [System -> [Reason -> Nat]]
  /\ out \in Seq(Sample)

(* What the guard returns, its own gauges included, never makes Gather     *)
(* fail, and no series is in it twice, not even with equal values          *)
(* (guard.go:42-46).  The partial result is as good as the final one.      *)
GatherSafe ==
  /\ GatherAccepts(OutSet)
  /\ \A i, j \in 1..Len(out) : seriesKey(out[i]) = seriesKey(out[j]) => i = j

(* The loop returns exactly the samples the declarative definition keeps:  *)
(* the first of every series among those of their name's first type, with  *)
(* the name's first help, and a gauge per system and reason that counts    *)
(* the samples of that system dropped or rewritten for that reason         *)
(* (guard.go:70-105).  Nothing is lost silently and nothing is invented.   *)
ReturnsGuarded == pc = "done" => OutSet = Guarded(input)

(* At every iteration the samples of each system read so far are the ones  *)
(* kept plus the ones its drop counters report (help_mismatch rewrites, it *)
(* drops nothing): an operator who reads 0 in the three gauges knows that  *)
(* nothing of that system is missing (guard.go:56-63, 95-104).             *)
OfSystem(s, sys) == SystemTags(s, sys) # {}

DroppedOf(sys) ==
  counts[sys]["duplicate"] + counts[sys]["type_mismatch"] + counts[sys]["invalid_label"]

Accounted ==
  \A sys \in System :
    Cardinality({i \in 1..(pos - 1) : OfSystem(input[i], sys)})
      = Cardinality({i \in 1..Len(out) : out[i].name # guardMetric /\ OfSystem(out[i], sys)})
        + DroppedOf(sys)

(* The inductive invariant behind the two properties above: after each     *)
(* iteration the three maps say, of the samples read so far, what the      *)
(* declarative definition says of them (guard.go:49-93).                   *)
NamesAreLeaders ==
  \A n \in Name :
    IF names[n] = Unknown
    THEN \A j \in 1..(pos - 1) : ~ (input[j].name = n /\ validLabels(input[j].labels))
    ELSE \E j \in 1..(pos - 1) :
           /\ IsLeader(input, n, j)
           /\ names[n] = [typ |-> input[j].type, help |-> input[j].help]

SeenIsPassed ==
  seen = {seriesKey(input[i]) : i \in {j \in 1..(pos - 1) : Passes(input, j)}}

CountsAreVerdicts ==
  \A sys \in System, r \in Reason :
    counts[sys][r] = Cardinality({i \in 1..(pos - 1) :
                       SystemTags(input[i], sys) # {} /\ Verdict(input, i) = r})

OutIsKept ==
  pc = "scan" =>
    OutSet = {Repaired(input, i) : i \in {j \in 1..(pos - 1) : IsKept(input, j)}}

ScanInv ==
  /\ NamesAreLeaders
  /\ SeenIsPassed
  /\ CountsAreVerdicts
  /\ OutIsKept
  /\ pc = "done" => pos = Len(input) + 1
=============================================================================
