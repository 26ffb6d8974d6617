---------------------------- MODULE GuardProofs ----------------------------
(***************************************************************************)
(* The guard's loop, for every list of samples: it is type correct, what   *)
(* it returns is what module Guard says, Gather accepts it, and its        *)
(* counters account for every sample it did not keep.                      *)
(*                                                                         *)
(* The argument: ScanInv relates the loop's three maps to the declarative  *)
(* definition, prefix by prefix.  Under it the branch an iteration takes   *)
(* is the verdict of its sample (lemma Branch), so every branch extends    *)
(* each conjunct of ScanInv by one sample.                                 *)
(***************************************************************************)
EXTENDS GuardScan, SampleLemmas, SequenceTheorems

LEMMA InputFacts ==
  ASSUME TypeOK
  PROVE  /\ input \in Seq(Sample)
         /\ Len(input) \in Nat
         /\ \A i \in 1..Len(input) : input[i] \in Sample /\ input[i].name # guardMetric
         /\ \A i \in 1..Len(input), sys \in System : Cardinality(SystemTags(input[i], sys)) <= 1
<1>1. input \in Seq(Sample)
  BY InputsAssumption DEF TypeOK
<1> QED BY <1>1, InputsAssumption DEF TypeOK

LEMMA CurrentFacts ==
  ASSUME TypeOK, Scanning
  PROVE  /\ pos \in 1..Len(input)
         /\ pos \in Nat /\ pos + 1 \in 1..(Len(input) + 1)
         /\ current \in Sample
         /\ current.name \in Name /\ current.help \in Help /\ current.type \in MetricType
         /\ current.labels \in Seq(Label)
         /\ seriesKey(current) \in Name \X SUBSET Label
<1>1. pos \in 1..Len(input) /\ pos \in Nat /\ pos + 1 \in 1..(Len(input) + 1)
  BY InputFacts DEF TypeOK, Scanning
<1>2. current \in Sample
  BY <1>1, InputFacts DEF current
<1>3. /\ current.name \in Name /\ current.help \in Help /\ current.type \in MetricType
      /\ current.labels \in Seq(Label)
  BY <1>2 DEF Sample
<1>4. LabelPairs(current) \subseteq Label
  BY <1>3 DEF LabelPairs
<1>5. seriesKey(current) \in Name \X SUBSET Label
  BY <1>3, <1>4 DEF seriesKey
<1> QED BY <1>1, <1>2, <1>3, <1>5

(* A sample of a system carries one identity label or none. *)
LEMMA TagCount ==
  ASSUME TypeOK, Scanning, NEW sys \in System
  PROVE  Cardinality(SystemTags(current, sys))
           = IF SystemTags(current, sys) # {} THEN 1 ELSE 0
<1>1. IsFiniteSet(SystemTags(current, sys))
  <2>1. SystemTags(current, sys) \subseteq 1..Len(current.labels)
    BY DEF SystemTags
  <2>2. IsFiniteSet(1..Len(current.labels))
    <3>1. 1 \in Int /\ Len(current.labels) \in Int
      BY CurrentFacts
    <3> QED BY <3>1, FS_Interval
  <2> QED BY <2>1, <2>2, FS_Subset
<1>2. Cardinality(SystemTags(current, sys)) \in Nat
  BY <1>1, FS_CardinalityType
<1>3. Cardinality(SystemTags(current, sys)) <= 1
  BY CurrentFacts, InputFacts DEF current
<1>4. Cardinality(SystemTags(current, sys)) = 0 <=> SystemTags(current, sys) = {}
  BY <1>1, FS_EmptySet
<1> QED BY <1>2, <1>3, <1>4

(* Under ScanInv the conditions the code tests are the declarative ones. *)
LEMMA Branch ==
  ASSUME TypeOK, ScanInv, Scanning
  PROVE  /\ Admitted(current) <=> Passes(input, pos)
         /\ Admitted(current) => (seriesKey(current) \in seen <=> ~ IsKept(input, pos))
         /\ Admitted(current) => IsLeader(input, current.name, Leader(input, current.name))
         /\ Admitted(current) /\ ~ known(current) => Leader(input, current.name) = pos
         /\ Admitted(current) /\ known(current) =>
              names[current.name].help = input[Leader(input, current.name)].help
<1>1. pos \in 1..Len(input) /\ input \in Seq(Sample) /\ current.name \in Name
  BY CurrentFacts, InputFacts
<1>2. ASSUME validLabels(current.labels), ~ known(current)
      PROVE  Leader(input, current.name) = pos
  <2>1. \A j \in 1..(pos - 1) :
          ~ (input[j].name = current.name /\ validLabels(input[j].labels))
    BY <1>1, <1>2 DEF ScanInv, NamesAreLeaders, known
  <2>2. IsLeader(input, current.name, pos)
    BY <1>1, <1>2, <2>1 DEF IsLeader, current
  <2> QED BY <1>1, <2>2, LeaderIsLeader
<1>3. ASSUME known(current)
      PROVE  names[current.name] = [typ |-> input[Leader(input, current.name)].type,
                                    help |-> input[Leader(input, current.name)].help]
  <2>1. PICK j \in 1..(pos - 1) :
          /\ IsLeader(input, current.name, j)
          /\ names[current.name] = [typ |-> input[j].type, help |-> input[j].help]
    BY <1>1, <1>3 DEF ScanInv, NamesAreLeaders, known
  <2>2. Leader(input, current.name) = j
    BY <1>1, <2>1, LeaderIsLeader
  <2> QED BY <2>1, <2>2
<1>4. Admitted(current) <=> Passes(input, pos)
  <2>1. CASE ~ validLabels(current.labels)
    BY <2>1 DEF Admitted, Passes, current
  <2>2. CASE validLabels(current.labels) /\ ~ known(current)
    <3>1. Leader(input, current.name) = pos
      BY <1>2, <2>2
    <3> QED BY <2>2, <3>1 DEF Admitted, Passes, TypeClash, current
  <2>3. CASE validLabels(current.labels) /\ known(current)
    <3>1. names[current.name].typ = input[Leader(input, current.name)].type
      BY <1>3, <2>3
    <3> QED BY <2>3, <3>1 DEF Admitted, Passes, TypeClash, current
  <2> QED BY <2>1, <2>2, <2>3
<1>5. Admitted(current) => (seriesKey(current) \in seen <=> ~ IsKept(input, pos))
  <2>1. seriesKey(current) \in seen <=>
          \E k \in 1..(pos - 1) : Passes(input, k) /\ seriesKey(input[k]) = seriesKey(input[pos])
    BY DEF ScanInv, SeenIsPassed, current
  <2> QED BY <1>4, <2>1 DEF IsKept
<1>6. Admitted(current) => IsLeader(input, current.name, Leader(input, current.name))
  BY <1>1, LeaderExists DEF Admitted, current
<1>7. Admitted(current) /\ ~ known(current) => Leader(input, current.name) = pos
  BY <1>2 DEF Admitted
<1>8. known(current) => names[current.name].help = input[Leader(input, current.name)].help
  BY <1>3
<1> QED BY <1>4, <1>5, <1>6, <1>7, <1>8

-----------------------------------------------------------------------------
(* Type correctness. *)

LEMMA RepairType ==
  ASSUME TypeOK, Scanning, NEW r \in Reason, repair(current, r)
  PROVE  counts' \in [System -> [Reason -> Nat]]
<1>1. \A sys \in System : Cardinality(SystemTags(current, sys)) \in Nat
  BY TagCount
<1>2. \A sys \in System : counts[sys] \in [Reason -> Nat]
  BY DEF TypeOK
<1> QED BY <1>1, <1>2 DEF repair

LEMMA RegisterType ==
  ASSUME TypeOK, Scanning, Register(current)
  PROVE  names' \in [Name -> NameState \cup {Unknown}]
<1>1. [typ |-> current.type, help |-> current.help] \in NameState
  BY CurrentFacts DEF NameState
<1> QED BY <1>1 DEF Register, TypeOK

LEMMA SelfMetricSeqType ==
  ASSUME TypeOK
  PROVE  /\ Len(Systems) \in Nat
         /\ \A k \in 1..(4 * Len(Systems)) :
              /\ ((k - 1) \div 4) + 1 \in 1..Len(Systems)
              /\ ((k - 1) % 4) + 1 \in 1..4
              /\ Systems[((k - 1) \div 4) + 1] \in System
              /\ guardReasons[((k - 1) % 4) + 1] \in Reason
         /\ SelfMetricSeq(counts) \in Seq(Sample)
         /\ Len(SelfMetricSeq(counts)) = 4 * Len(Systems)
<1>1. Len(Systems) \in Nat
  BY SystemsAssumption
<1>2. ASSUME NEW k \in 1..(4 * Len(Systems))
      PROVE  /\ ((k - 1) \div 4) + 1 \in 1..Len(Systems)
             /\ ((k - 1) % 4) + 1 \in 1..4
  BY <1>1
<1>3. \A m \in 1..4 : guardReasons[m] \in Reason
  BY DEF guardReasons, Reason
<1>4. ASSUME NEW k \in 1..(4 * Len(Systems))
      PROVE  /\ Systems[((k - 1) \div 4) + 1] \in System
             /\ guardReasons[((k - 1) % 4) + 1] \in Reason
  BY <1>2, <1>3 DEF System
<1>5. ASSUME NEW k \in 1..(4 * Len(Systems))
      PROVE  SelfMetric(counts, Systems[((k - 1) \div 4) + 1], guardReasons[((k - 1) % 4) + 1])
               \in Sample
  <2>1. counts \in [System -> [Reason -> Nat]]
    BY DEF TypeOK
  <2> QED BY <1>4, <2>1, SelfMetricFacts
<1>6. 4 * Len(Systems) \in Nat
  BY <1>1
<1>7. SelfMetricSeq(counts) \in Seq(Sample) /\ Len(SelfMetricSeq(counts)) = 4 * Len(Systems)
  BY <1>5, <1>6 DEF SelfMetricSeq
<1> QED BY <1>1, <1>2, <1>4, <1>7

(* Every variable keeps its type, whatever branch an iteration takes. *)
LEMMA TypeStep == TypeOK /\ [Next]_vars => TypeOK'
<1> SUFFICES ASSUME TypeOK, [Next]_vars PROVE TypeOK'
  OBVIOUS
<1>r. Reason = {"duplicate", "type_mismatch", "help_mismatch", "invalid_label"}
  BY DEF Reason
<1>1. CASE DropInvalidLabel
  <2>1. counts' \in [System -> [Reason -> Nat]]
    BY <1>1, <1>r, RepairType DEF DropInvalidLabel
  <2> QED BY <1>1, <2>1, CurrentFacts DEF DropInvalidLabel, Advance, TypeOK
<1>2. CASE DropTypeMismatch
  <2>1. counts' \in [System -> [Reason -> Nat]]
    BY <1>2, <1>r, RepairType DEF DropTypeMismatch
  <2> QED BY <1>2, <2>1, CurrentFacts DEF DropTypeMismatch, Advance, TypeOK
<1>3. CASE DropDuplicate
  <2>1. counts' \in [System -> [Reason -> Nat]]
    BY <1>3, <1>r, RepairType DEF DropDuplicate
  <2>2. names' \in [Name -> NameState \cup {Unknown}]
    BY <1>3, RegisterType DEF DropDuplicate
  <2> QED BY <1>3, <2>1, <2>2, CurrentFacts DEF DropDuplicate, Advance, TypeOK
<1>4. CASE Keep
  <2>1. names' \in [Name -> NameState \cup {Unknown}]
    BY <1>4, RegisterType DEF Keep
  <2>2. out' \in Seq(Sample) /\ seen' \subseteq Name \X SUBSET Label
    BY <1>4, CurrentFacts DEF Keep, TypeOK
  <2> QED BY <1>4, <2>1, <2>2, CurrentFacts DEF Keep, Advance, TypeOK
<1>5. CASE KeepWithFirstHelp
  <2>1. counts' \in [System -> [Reason -> Nat]]
    BY <1>5, <1>r, RepairType DEF KeepWithFirstHelp
  <2>2. names' \in [Name -> NameState \cup {Unknown}]
    BY <1>5, RegisterType DEF KeepWithFirstHelp
  <2>3. names[current.name].help \in Help
    <3>1. names[current.name] \in NameState
      BY <1>5, CurrentFacts DEF KeepWithFirstHelp, HelpClash, known, TypeOK
    <3> QED BY <3>1 DEF NameState
  <2>4. [current EXCEPT !.help = names[current.name].help] \in Sample
    <3>1. current \in Sample
      BY <1>5, CurrentFacts DEF KeepWithFirstHelp
    <3> DEFINE c == current
    <3> HIDE DEF c
    <3>2. \A h \in Help : [c EXCEPT !.help = h] \in Sample
      BY <3>1 DEF Sample, c
    <3> QED BY <2>3, <3>2 DEF c
  <2>5. out' \in Seq(Sample) /\ seen' \subseteq Name \X SUBSET Label
    BY <1>5, <2>4, CurrentFacts DEF KeepWithFirstHelp, TypeOK
  <2> QED BY <1>5, <2>1, <2>2, <2>5, CurrentFacts DEF KeepWithFirstHelp, Advance, TypeOK
<1>6. CASE AppendSelfMetrics
  <2>1. out' \in Seq(Sample)
    BY <1>6, SelfMetricSeqType DEF AppendSelfMetrics, TypeOK
  <2> QED BY <1>6, <2>1 DEF AppendSelfMetrics, TypeOK
<1>7. CASE UNCHANGED vars
  BY <1>7 DEF vars, TypeOK
<1> QED BY <1>1, <1>2, <1>3, <1>4, <1>5, <1>6, <1>7 DEF Next

LEMMA TypeInit == Init => TypeOK
<1> SUFFICES ASSUME Init PROVE TypeOK
  OBVIOUS
<1>1. input \in Inputs /\ Len(input) \in Nat
  BY InputsAssumption DEF Init
<1> QED BY <1>1 DEF Init, TypeOK

(* Every reachable state of the loop is well typed. *)
THEOREM TypeCorrect == Spec => []TypeOK
<1> QED BY TypeInit, TypeStep, PTL DEF Spec

-----------------------------------------------------------------------------
(* The inductive invariant. *)

(* One more verdict: the count of sample pos's reason grows by one for the *)
(* system it is tagged with, every other count stays.                      *)
LEMMA CountStep ==
  ASSUME TypeOK, ScanInv, Scanning, NEW sys \in System, NEW r \in Reason
  PROVE  Cardinality({i \in 1..pos : SystemTags(input[i], sys) # {} /\ Verdict(input, i) = r})
           = counts[sys][r]
             + IF SystemTags(current, sys) # {} /\ Verdict(input, pos) = r THEN 1 ELSE 0
<1> DEFINE P(i) == SystemTags(input[i], sys) # {} /\ Verdict(input, i) = r
           A == {i \in 1..(pos - 1) : P(i)}
           B == {i \in 1..pos : P(i)}
<1>1. pos \in Nat /\ pos \in 1..Len(input)
  BY CurrentFacts
<1>2. IsFiniteSet(A) /\ Cardinality(A) \in Nat
  <2>1. IsFiniteSet(1..(pos - 1))
    BY <1>1, FS_Interval
  <2>2. A \subseteq 1..(pos - 1)
    OBVIOUS
  <2> HIDE DEF A
  <2> QED BY <2>1, <2>2, FS_Subset, FS_CardinalityType
<1>3. counts[sys][r] = Cardinality(A)
  BY DEF ScanInv, CountsAreVerdicts
<1>4. P(pos) <=> SystemTags(current, sys) # {} /\ Verdict(input, pos) = r
  BY DEF current
<1>5. CASE P(pos)
  <2>1. B = A \cup {pos} /\ pos \notin A
    <3> HIDE DEF P
    <3> QED BY <1>1, <1>5
  <2>2. Cardinality(A \cup {pos}) = Cardinality(A) + 1
    <3> HIDE DEF A
    <3> QED BY <1>2, <2>1, FS_AddElement
  <2>3. Cardinality(B) = counts[sys][r] + 1
    <3> HIDE DEF A, B
    <3> QED BY <1>3, <2>1, <2>2
  <2> QED BY <1>4, <1>5, <2>3
<1>6. CASE ~ P(pos)
  <2>1. B = A
    <3> HIDE DEF P
    <3> QED BY <1>1, <1>6
  <2>2. counts[sys][r] \in Nat
    BY DEF TypeOK
  <2>3. Cardinality(B) = counts[sys][r] + 0
    <3> HIDE DEF A, B
    <3> QED BY <1>3, <2>1, <2>2
  <2> QED BY <1>4, <1>6, <2>3
<1> QED BY <1>5, <1>6

LEMMA CountsNext ==
  ASSUME TypeOK, Scanning, pos' = pos + 1, UNCHANGED input,
         \A sys \in System, r \in Reason :
           counts'[sys][r] = Cardinality({i \in 1..pos :
                       SystemTags(input[i], sys) # {} /\ Verdict(input, i) = r})
  PROVE  CountsAreVerdicts'
<1>1. pos' - 1 = pos /\ input' = input
  BY CurrentFacts
<1> QED BY <1>1, Zenon DEF CountsAreVerdicts

(* A repaired sample: its verdict is the reason it was counted under. *)
LEMMA CountsRepaired ==
  ASSUME TypeOK, ScanInv, Scanning, NEW r0 \in Reason,
         Verdict(input, pos) = r0, repair(current, r0), pos' = pos + 1, UNCHANGED input
  PROVE  CountsAreVerdicts'
<1> SUFFICES ASSUME NEW sys \in System, NEW r \in Reason
             PROVE  counts'[sys][r] = Cardinality({i \in 1..pos :
                       SystemTags(input[i], sys) # {} /\ Verdict(input, i) = r})
  BY CountsNext
<1>1. counts'[sys][r] = counts[sys][r] + IF r = r0 THEN Cardinality(SystemTags(current, sys)) ELSE 0
  BY DEF repair, TypeOK
<1> DEFINE new == Cardinality({i \in 1..pos :
                     SystemTags(input[i], sys) # {} /\ Verdict(input, i) = r})
<1>2. new = counts[sys][r]
             + IF SystemTags(current, sys) # {} /\ Verdict(input, pos) = r THEN 1 ELSE 0
  BY CountStep
<1>3. Cardinality(SystemTags(current, sys)) = IF SystemTags(current, sys) # {} THEN 1 ELSE 0
  BY TagCount
<1>4. counts[sys][r] \in Nat
  BY DEF TypeOK
<1> HIDE DEF new
<1>5. counts'[sys][r] = new
  BY <1>1, <1>2, <1>3, <1>4
<1> QED BY <1>5 DEF new

LEMMA CountsUntouched ==
  ASSUME TypeOK, ScanInv, Scanning,
         Verdict(input, pos) = "none", UNCHANGED counts, pos' = pos + 1, UNCHANGED input
  PROVE  CountsAreVerdicts'
<1> SUFFICES ASSUME NEW sys \in System, NEW r \in Reason
             PROVE  counts'[sys][r] = Cardinality({i \in 1..pos :
                       SystemTags(input[i], sys) # {} /\ Verdict(input, i) = r})
  BY CountsNext
<1>1. Verdict(input, pos) # r
  BY DEF Reason
<1>2. counts[sys][r] \in Nat
  BY DEF TypeOK
<1> DEFINE new == Cardinality({i \in 1..pos :
                     SystemTags(input[i], sys) # {} /\ Verdict(input, i) = r})
<1>3. new = counts[sys][r]
             + IF SystemTags(current, sys) # {} /\ Verdict(input, pos) = r THEN 1 ELSE 0
  BY CountStep
<1> HIDE DEF new
<1>4. counts'[sys][r] = new
  BY <1>1, <1>2, <1>3
<1> QED BY <1>4 DEF new

(* names: an unknown name gets its leader, a known one keeps it. *)
LEMMA NamesRegistered ==
  ASSUME TypeOK, ScanInv, Scanning, Admitted(current), Register(current),
         pos' = pos + 1, UNCHANGED input
  PROVE  NamesAreLeaders'
<1>1. pos \in 1..Len(input) /\ input \in Seq(Sample) /\ current.name \in Name
  BY CurrentFacts, InputFacts
<1>2. [typ |-> current.type, help |-> current.help] # Unknown
  BY CurrentFacts, InputsAssumption DEF NameState
<1> SUFFICES ASSUME NEW n \in Name
             PROVE  IF names'[n] = Unknown
                    THEN \A j \in 1..pos :
                           ~ (input[j].name = n /\ validLabels(input[j].labels))
                    ELSE \E j \in 1..pos :
                           /\ IsLeader(input, n, j)
                           /\ names'[n] = [typ |-> input[j].type, help |-> input[j].help]
  <2>1. pos' - 1 = pos /\ input' = input
    BY <1>1
  <2> QED BY <2>1, Zenon DEF NamesAreLeaders
<1>3. CASE n # current.name
  <2>1. names'[n] = names[n]
    BY <1>3 DEF Register, TypeOK
  <2> QED BY <1>1, <1>3, <2>1 DEF ScanInv, NamesAreLeaders, current
<1>4. CASE n = current.name /\ known(current)
  <2>1. names'[n] = names[n] /\ names[n] # Unknown
    BY <1>4 DEF Register, known
  <2> QED BY <1>1, <2>1 DEF ScanInv, NamesAreLeaders
<1>5. CASE n = current.name /\ ~ known(current)
  <2>1. names'[n] = [typ |-> current.type, help |-> current.help]
    BY <1>1, <1>5 DEF Register, TypeOK
  <2>2. IsLeader(input, n, pos)
    BY <1>5, Branch
  <2> QED BY <1>1, <1>2, <2>1, <2>2 DEF current
<1> QED BY <1>3, <1>4, <1>5

LEMMA NamesUntouched ==
  ASSUME TypeOK, ScanInv, Scanning, UNCHANGED names, pos' = pos + 1, UNCHANGED input,
         validLabels(current.labels) => known(current)
  PROVE  NamesAreLeaders'
<1>1. pos \in 1..Len(input)
  BY CurrentFacts
<1> SUFFICES ASSUME NEW n \in Name
             PROVE  IF names[n] = Unknown
                    THEN \A j \in 1..pos :
                           ~ (input[j].name = n /\ validLabels(input[j].labels))
                    ELSE \E j \in 1..pos :
                           /\ IsLeader(input, n, j)
                           /\ names[n] = [typ |-> input[j].type, help |-> input[j].help]
  <2>1. pos' - 1 = pos /\ input' = input /\ names' = names
    BY <1>1
  <2> QED BY <2>1, Zenon DEF NamesAreLeaders
<1> QED BY <1>1 DEF ScanInv, NamesAreLeaders, known, current

LEMMA SeenStep ==
  ASSUME TypeOK, ScanInv, Scanning, pos' = pos + 1, UNCHANGED input,
         seen' = IF Passes(input, pos) THEN seen \cup {seriesKey(current)} ELSE seen
  PROVE  SeenIsPassed'
<1>1. pos' - 1 = pos /\ input' = input /\ pos \in 1..Len(input) /\ pos \in Nat
  BY CurrentFacts
<1> DEFINE passed(m) == {seriesKey(input[i]) : i \in {j \in 1..m : Passes(input, j)}}
<1>2. seen = passed(pos - 1)
  BY DEF ScanInv, SeenIsPassed
<1>3. passed(pos) = passed(pos - 1) \cup (IF Passes(input, pos) THEN {seriesKey(input[pos])} ELSE {})
  BY <1>1
<1>4. seen' = passed(pos)
  BY <1>2, <1>3 DEF current
<1> QED BY <1>1, <1>4, Zenon DEF SeenIsPassed

LEMMA OutStep ==
  ASSUME TypeOK, ScanInv, Scanning, pos' = pos + 1, UNCHANGED input,
         OutSet' = IF IsKept(input, pos) THEN OutSet \cup {Repaired(input, pos)} ELSE OutSet
  PROVE  OutIsKept'
<1>1. pos' - 1 = pos /\ input' = input /\ pos \in 1..Len(input) /\ pos \in Nat
  BY CurrentFacts
<1> DEFINE kept(m) == {Repaired(input, i) : i \in {j \in 1..m : IsKept(input, j)}}
<1>2. OutSet = kept(pos - 1)
  BY DEF ScanInv, OutIsKept, Scanning
<1>3. kept(pos) = kept(pos - 1) \cup (IF IsKept(input, pos) THEN {Repaired(input, pos)} ELSE {})
  BY <1>1
<1>4. OutSet' = kept(pos)
  BY <1>2, <1>3
<1> QED BY <1>1, <1>4, Zenon DEF OutIsKept

LEMMA OutAppended ==
  ASSUME TypeOK, NEW s \in Sample, out' = Append(out, s)
  PROVE  OutSet' = OutSet \cup {s}
BY DEF TypeOK, OutSet

(* What a kept sample looks like in the output, in the code's terms. *)
LEMMA KeptOutput ==
  ASSUME TypeOK, ScanInv, Scanning, IsKept(input, pos)
  PROVE  /\ HelpClash(current) =>
              /\ Repaired(input, pos) = [current EXCEPT !.help = names[current.name].help]
              /\ Repaired(input, pos) # current
         /\ ~ HelpClash(current) => Repaired(input, pos) = current
<1>1. Admitted(current)
  BY Branch DEF IsKept
<1> DEFINE h == input[Leader(input, current.name)].help
<1>2. Repaired(input, pos) = [current EXCEPT !.help = h]
  BY DEF Repaired, current
<1>3. current \in Sample
  BY CurrentFacts
<1>4. [current EXCEPT !.help = h].help = h /\ [current EXCEPT !.help = current.help] = current
  <2> DEFINE c == current
  <2>1. c \in Sample
    BY <1>3
  <2> HIDE DEF c, h
  <2>2. [c EXCEPT !.help = h].help = h /\ [c EXCEPT !.help = c.help] = c
    BY <2>1 DEF Sample
  <2> QED BY <2>2 DEF c
<1>5. CASE known(current)
  <2>1. names[current.name].help = h
    BY <1>1, <1>5, Branch
  <2> HIDE DEF h
  <2>2. HelpClash(current) <=> h # current.help
    BY <1>5, <2>1 DEF HelpClash
  <2> QED BY <1>2, <1>4, <2>1, <2>2
<1>6. CASE ~ known(current)
  <2>1. h = current.help
    BY <1>1, <1>6, Branch DEF current
  <2>2. ~ HelpClash(current)
    BY <1>6 DEF HelpClash
  <2> HIDE DEF h
  <2> QED BY <1>2, <1>4, <2>1, <2>2
<1> QED BY <1>5, <1>6

LEMMA InvInit == Init => ScanInv
<1> SUFFICES ASSUME Init PROVE ScanInv
  OBVIOUS
<1>1. 1..(pos - 1) = {}
  BY DEF Init
<1>2. NamesAreLeaders
  BY <1>1 DEF Init, NamesAreLeaders
<1>3. SeenIsPassed /\ OutIsKept
  BY <1>1 DEF Init, SeenIsPassed, OutIsKept, OutSet
<1>4. CountsAreVerdicts
  <2> SUFFICES ASSUME NEW sys \in System, NEW r \in Reason
               PROVE  counts[sys][r] = Cardinality({i \in 1..(pos - 1) :
                         SystemTags(input[i], sys) # {} /\ Verdict(input, i) = r})
    BY DEF CountsAreVerdicts
  <2>1. {i \in 1..(pos - 1) : SystemTags(input[i], sys) # {} /\ Verdict(input, i) = r} = {}
    BY <1>1
  <2>2. counts[sys][r] = 0
    BY DEF Init
  <2> QED BY <2>1, <2>2, FS_EmptySet
<1> QED BY <1>2, <1>3, <1>4 DEF ScanInv, Init

(* Each branch extends ScanInv by the sample it handles. *)
LEMMA InvStep == TypeOK /\ ScanInv /\ [Next]_vars => ScanInv'
<1> SUFFICES ASSUME TypeOK, ScanInv, [Next]_vars PROVE ScanInv'
  OBVIOUS
<1>v. /\ ~ validLabels(current.labels) => Verdict(input, pos) = "invalid_label"
      /\ validLabels(current.labels) /\ ~ Passes(input, pos)
           => Verdict(input, pos) = "type_mismatch"
      /\ Passes(input, pos) /\ ~ IsKept(input, pos) => Verdict(input, pos) = "duplicate"
      /\ IsKept(input, pos) /\ Repaired(input, pos) # current
           => Verdict(input, pos) = "help_mismatch"
      /\ IsKept(input, pos) /\ Repaired(input, pos) = current => Verdict(input, pos) = "none"
      /\ IsKept(input, pos) => Passes(input, pos)
      /\ Passes(input, pos) => validLabels(current.labels)
  BY DEF Verdict, IsKept, Passes, current
<1>1. CASE DropInvalidLabel
  <2>1. Scanning /\ pos' = pos + 1 /\ UNCHANGED <<pc, input>>
    BY <1>1 DEF DropInvalidLabel, Advance
  <2>2. ~ Passes(input, pos) /\ ~ IsKept(input, pos) /\ Verdict(input, pos) = "invalid_label"
    BY <1>1, <1>v DEF DropInvalidLabel
  <2>3. NamesAreLeaders'
    BY <1>1, <2>1, NamesUntouched DEF DropInvalidLabel
  <2>4. SeenIsPassed' /\ OutIsKept'
    BY <1>1, <2>1, <2>2, SeenStep, OutStep DEF DropInvalidLabel, OutSet
  <2>5. CountsAreVerdicts'
    BY <1>1, <2>1, <2>2, CountsRepaired DEF DropInvalidLabel, Reason
  <2> QED BY <2>1, <2>3, <2>4, <2>5 DEF ScanInv, Scanning
<1>2. CASE DropTypeMismatch
  <2>1. Scanning /\ pos' = pos + 1 /\ UNCHANGED <<pc, input>>
    BY <1>2 DEF DropTypeMismatch, Advance
  <2>2. ~ Passes(input, pos) /\ ~ IsKept(input, pos) /\ Verdict(input, pos) = "type_mismatch"
    BY <1>2, <2>1, <1>v, Branch DEF DropTypeMismatch, Admitted
  <2>3. NamesAreLeaders'
    BY <1>2, <2>1, NamesUntouched DEF DropTypeMismatch, TypeClash
  <2>4. SeenIsPassed' /\ OutIsKept'
    BY <1>2, <2>1, <2>2, SeenStep, OutStep DEF DropTypeMismatch, OutSet
  <2>5. CountsAreVerdicts'
    BY <1>2, <2>1, <2>2, CountsRepaired DEF DropTypeMismatch, Reason
  <2> QED BY <2>1, <2>3, <2>4, <2>5 DEF ScanInv, Scanning
<1>3. CASE DropDuplicate
  <2>1. Scanning /\ pos' = pos + 1 /\ UNCHANGED <<pc, input>>
    BY <1>3 DEF DropDuplicate, Advance
  <2>2. Passes(input, pos) /\ ~ IsKept(input, pos) /\ Verdict(input, pos) = "duplicate"
    BY <1>3, <2>1, <1>v, Branch DEF DropDuplicate
  <2>3. NamesAreLeaders'
    BY <1>3, <2>1, NamesRegistered DEF DropDuplicate
  <2>4. seen' = seen \cup {seriesKey(current)}
    BY <1>3 DEF DropDuplicate
  <2>5. SeenIsPassed' /\ OutIsKept'
    BY <1>3, <2>1, <2>2, <2>4, SeenStep, OutStep DEF DropDuplicate, OutSet
  <2>6. CountsAreVerdicts'
    BY <1>3, <2>1, <2>2, CountsRepaired DEF DropDuplicate, Reason
  <2> QED BY <2>1, <2>3, <2>5, <2>6 DEF ScanInv, Scanning
<1>4. CASE Keep
  <2>1. Scanning /\ pos' = pos + 1 /\ UNCHANGED <<pc, input>>
    BY <1>4 DEF Keep, Advance
  <2>2. Passes(input, pos) /\ IsKept(input, pos)
    BY <1>4, <2>1, Branch DEF Keep
  <2>3. Repaired(input, pos) = current /\ Verdict(input, pos) = "none"
    BY <1>4, <2>1, <2>2, <1>v, KeptOutput DEF Keep
  <2>4. NamesAreLeaders'
    BY <1>4, <2>1, NamesRegistered DEF Keep
  <2>5. OutSet' = OutSet \cup {Repaired(input, pos)}
    BY <1>4, <2>1, <2>3, CurrentFacts, OutAppended DEF Keep
  <2>6. SeenIsPassed' /\ OutIsKept'
    BY <1>4, <2>1, <2>2, <2>5, SeenStep, OutStep DEF Keep
  <2>7. CountsAreVerdicts'
    BY <1>4, <2>1, <2>3, CountsUntouched DEF Keep
  <2> QED BY <2>1, <2>4, <2>6, <2>7 DEF ScanInv, Scanning
<1>5. CASE KeepWithFirstHelp
  <2>1. Scanning /\ pos' = pos + 1 /\ UNCHANGED <<pc, input>>
    BY <1>5 DEF KeepWithFirstHelp, Advance
  <2>2. Passes(input, pos) /\ IsKept(input, pos)
    BY <1>5, <2>1, Branch DEF KeepWithFirstHelp
  <2>3. /\ Repaired(input, pos) = [current EXCEPT !.help = names[current.name].help]
        /\ Verdict(input, pos) = "help_mismatch"
    BY <1>5, <2>1, <2>2, <1>v, KeptOutput DEF KeepWithFirstHelp
  <2>4. NamesAreLeaders'
    BY <1>5, <2>1, NamesRegistered DEF KeepWithFirstHelp
  <2>5. OutSet' = OutSet \cup {Repaired(input, pos)}
    <3>1. Repaired(input, pos) \in Sample
      BY <2>1, <2>2, CurrentFacts, InputFacts, RepairedFacts
    <3>2. out' = Append(out, Repaired(input, pos))
      BY <1>5, <2>3 DEF KeepWithFirstHelp
    <3> QED BY <3>1, <3>2, OutAppended
  <2>6. SeenIsPassed' /\ OutIsKept'
    BY <1>5, <2>1, <2>2, <2>5, SeenStep, OutStep DEF KeepWithFirstHelp
  <2>7. CountsAreVerdicts'
    BY <1>5, <2>1, <2>3, CountsRepaired DEF KeepWithFirstHelp, Reason
  <2> QED BY <2>1, <2>4, <2>6, <2>7 DEF ScanInv, Scanning
<1>6. CASE AppendSelfMetrics
  <2>1. pos = Len(input) + 1
    BY <1>6, InputFacts DEF AppendSelfMetrics, TypeOK
  <2> QED BY <1>6, <2>1 DEF AppendSelfMetrics, ScanInv, NamesAreLeaders, SeenIsPassed,
                CountsAreVerdicts, OutIsKept
<1>7. CASE UNCHANGED vars
  BY <1>7 DEF vars, ScanInv, NamesAreLeaders, SeenIsPassed, CountsAreVerdicts, OutIsKept, OutSet
<1> QED BY <1>1, <1>2, <1>3, <1>4, <1>5, <1>6, <1>7 DEF Next

(* The loop's maps agree with the declarative definition in every state. *)
THEOREM ScanInvariant == Spec => []ScanInv
<1> QED BY TypeInit, TypeStep, InvInit, InvStep, PTL DEF Spec

-----------------------------------------------------------------------------
(* What the loop returns. *)

LEMMA SelfMetricIndex ==
  ASSUME TypeOK, NEW j \in 1..(4 * Len(Systems)), NEW k \in 1..(4 * Len(Systems)),
         seriesKey(SelfMetricSeq(counts)[j]) = seriesKey(SelfMetricSeq(counts)[k])
  PROVE  j = k
<1> DEFINE s(i) == Systems[((i - 1) \div 4) + 1]
           r(i) == guardReasons[((i - 1) % 4) + 1]
<1>1. /\ s(j) \in System /\ s(k) \in System /\ r(j) \in Reason /\ r(k) \in Reason
      /\ ((j - 1) \div 4) + 1 \in 1..Len(Systems) /\ ((k - 1) \div 4) + 1 \in 1..Len(Systems)
      /\ ((j - 1) % 4) + 1 \in 1..4 /\ ((k - 1) % 4) + 1 \in 1..4
  BY SelfMetricSeqType
<1>2. /\ SelfMetricSeq(counts)[j] = SelfMetric(counts, s(j), r(j))
      /\ SelfMetricSeq(counts)[k] = SelfMetric(counts, s(k), r(k))
  BY DEF SelfMetricSeq
<1>3. counts \in [System -> [Reason -> Nat]]
  BY DEF TypeOK
<1>4. s(j) = s(k) /\ r(j) = r(k)
  <2> HIDE DEF s, r
  <2> QED BY <1>1, <1>2, <1>3, SelfMetricUnique
<1>5. (j - 1) \div 4 = (k - 1) \div 4
  BY <1>1, <1>4, SystemsAssumption
<1>6. \A m, n \in 1..4 : guardReasons[m] = guardReasons[n] => m = n
  BY DEF guardReasons
<1>7. (j - 1) % 4 = (k - 1) % 4
  <2> DEFINE m == ((j - 1) % 4) + 1
             n == ((k - 1) % 4) + 1
  <2>1. m = n
    <3> HIDE DEF m, n
    <3> QED BY <1>1, <1>4, <1>6 DEF m, n
  <2> QED BY <2>1
<1>8. j \in Int /\ k \in Int
  BY SelfMetricSeqType
<1> QED BY <1>5, <1>7, <1>8

LEMMA SelfMetricSeqSet ==
  ASSUME TypeOK
  PROVE  {SelfMetricSeq(counts)[k] : k \in 1..(4 * Len(Systems))} = SelfMetrics(counts)
<1> DEFINE S == {SelfMetricSeq(counts)[k] : k \in 1..(4 * Len(Systems))}
<1>1. ASSUME NEW k \in 1..(4 * Len(Systems))
      PROVE  SelfMetricSeq(counts)[k] \in SelfMetrics(counts)
  <2>1. PICK sys \in System, r \in Reason : SelfMetricSeq(counts)[k] = SelfMetric(counts, sys, r)
    BY SelfMetricSeqType DEF SelfMetricSeq
  <2> QED BY <2>1 DEF SelfMetrics
<1>2. ASSUME NEW sys \in System, NEW r \in Reason
      PROVE  \E k \in 1..(4 * Len(Systems)) : SelfMetricSeq(counts)[k] = SelfMetric(counts, sys, r)
  <2>1. PICK i \in 1..Len(Systems) : Systems[i] = sys
    BY DEF System
  <2>2. PICK m \in 1..4 : guardReasons[m] = r
    <3>1. /\ guardReasons[1] = "duplicate" /\ guardReasons[2] = "type_mismatch"
          /\ guardReasons[3] = "help_mismatch" /\ guardReasons[4] = "invalid_label"
      BY DEF guardReasons
    <3> QED BY <3>1 DEF Reason
  <2> DEFINE k == 4 * (i - 1) + m
  <2>3. Len(Systems) \in Nat
    BY SelfMetricSeqType
  <2>4. k \in 1..(4 * Len(Systems)) /\ (k - 1) \div 4 = i - 1 /\ (k - 1) % 4 = m - 1
    BY <2>3
  <2>5. ((k - 1) \div 4) + 1 = i /\ ((k - 1) % 4) + 1 = m
    BY <2>4, <2>3
  <2> HIDE DEF k
  <2>6. SelfMetricSeq(counts)[k] = SelfMetric(counts, sys, r)
    BY <2>1, <2>2, <2>4, <2>5 DEF SelfMetricSeq
  <2> QED BY <2>4, <2>6
<1>3. S \subseteq SelfMetrics(counts)
  BY <1>1
<1>4. SelfMetrics(counts) \subseteq S
  BY <1>2 DEF SelfMetrics
<1> QED BY <1>3, <1>4

LEMMA CountsAreFinal ==
  ASSUME TypeOK, CountsAreVerdicts, pos = Len(input) + 1
  PROVE  counts = RepairCounts(input)
<1> DEFINE verdict == [i \in 1..Len(input) |-> Verdict(input, i)]
           tagged  == [sys \in System |-> {i \in 1..Len(input) : SystemTags(input[i], sys) # {}}]
<1>1. pos - 1 = Len(input)
  BY InputFacts
<1>2. ASSUME NEW sys \in System, NEW r \in Reason
      PROVE  counts[sys][r] = Cardinality({i \in tagged[sys] : verdict[i] = r})
  <2>1. {i \in tagged[sys] : verdict[i] = r}
          = {i \in 1..Len(input) : SystemTags(input[i], sys) # {} /\ Verdict(input, i) = r}
    OBVIOUS
  <2>2. counts[sys][r] = Cardinality({i \in 1..Len(input) :
                            SystemTags(input[i], sys) # {} /\ Verdict(input, i) = r})
    BY <1>1, Zenon DEF CountsAreVerdicts
  <2> QED BY <2>1, <2>2
<1>3. counts = [sys \in System |-> [r \in Reason |-> counts[sys][r]]]
  BY DEF TypeOK
<1> HIDE DEF verdict, tagged
<1>4. counts = [sys \in System |->
                  [r \in Reason |-> Cardinality({i \in tagged[sys] : verdict[i] = r})]]
  BY <1>2, <1>3
<1> QED BY <1>4 DEF RepairCounts, verdict, tagged

LEMMA ConcatSet ==
  ASSUME NEW s \in Seq(Sample), NEW t \in Seq(Sample)
  PROVE  {(s \o t)[i] : i \in 1..Len(s \o t)}
           = {s[i] : i \in 1..Len(s)} \cup {t[i] : i \in 1..Len(t)}
<1> DEFINE u == s \o t
<1>1. /\ Len(u) = Len(s) + Len(t) /\ Len(s) \in Nat /\ Len(t) \in Nat
      /\ \A i \in 1..Len(u) : u[i] = IF i <= Len(s) THEN s[i] ELSE t[i - Len(s)]
  BY ConcatProperties
<1> HIDE DEF u
<1>2. ASSUME NEW i \in 1..Len(u)
      PROVE  (\E j \in 1..Len(s) : u[i] = s[j]) \/ (\E j \in 1..Len(t) : u[i] = t[j])
  <2>1. CASE i <= Len(s)
    BY <1>1, <2>1
  <2>2. CASE i > Len(s)
    <3>1. i - Len(s) \in 1..Len(t)
      BY <1>1, <2>2
    <3> QED BY <1>1, <2>2, <3>1
  <2> QED BY <1>1, <2>1, <2>2
<1>3. ASSUME NEW j \in 1..Len(s) PROVE \E i \in 1..Len(u) : u[i] = s[j]
  <2>1. j \in 1..Len(u)
    BY <1>1
  <2> QED BY <1>1, <2>1
<1>4. ASSUME NEW j \in 1..Len(t) PROVE \E i \in 1..Len(u) : u[i] = t[j]
  <2>1. /\ j + Len(s) \in 1..Len(u) /\ ~ (j + Len(s) <= Len(s))
        /\ (j + Len(s)) - Len(s) = j
    BY <1>1
  <2> QED BY <1>1, <2>1
<1> DEFINE U == {u[i] : i \in 1..Len(u)}
           S == {s[i] : i \in 1..Len(s)}
           T == {t[i] : i \in 1..Len(t)}
<1>5. U \subseteq S \cup T
  <2> SUFFICES ASSUME NEW x \in U PROVE x \in S \cup T
    OBVIOUS
  <2>1. PICK i \in 1..Len(u) : x = u[i]
    OBVIOUS
  <2> QED BY <1>2, <2>1
<1>6. S \subseteq U
  BY <1>3
<1>7. T \subseteq U
  BY <1>4
<1> QED BY <1>5, <1>6, <1>7 DEF u

(* The last action returns exactly what the declarative definition says. *)
LEMMA ReturnsStep == TypeOK /\ ScanInv /\ ReturnsGuarded /\ [Next]_vars => ReturnsGuarded'
<1> SUFFICES ASSUME TypeOK, ScanInv, ReturnsGuarded, [Next]_vars, pc' = "done"
             PROVE  OutSet' = Guarded(input')
  BY DEF ReturnsGuarded
<1>1. CASE AppendSelfMetrics
  <2>1. pos = Len(input) + 1 /\ pos - 1 = Len(input)
    BY <1>1, InputFacts DEF AppendSelfMetrics, TypeOK
  <2>2. OutSet = Kept(input)
    BY <1>1, <2>1 DEF AppendSelfMetrics, ScanInv, OutIsKept, Kept
  <2>3. counts = RepairCounts(input)
    BY <2>1, CountsAreFinal DEF ScanInv
  <2> DEFINE ms == SelfMetricSeq(counts)
  <2>4. ms \in Seq(Sample) /\ Len(ms) = 4 * Len(Systems) /\ Len(Systems) \in Nat
    BY SelfMetricSeqType
  <2>5. out' = out \o ms /\ out \in Seq(Sample)
    BY <1>1 DEF AppendSelfMetrics, TypeOK
  <2>6. {ms[k] : k \in 1..Len(ms)} = SelfMetrics(counts)
    BY <2>4, SelfMetricSeqSet
  <2>7. OutSet' = OutSet \cup {ms[k] : k \in 1..Len(ms)}
    <3> HIDE DEF ms
    <3>1. OutSet' = {(out \o ms)[i] : i \in 1..Len(out \o ms)}
      BY <2>5 DEF OutSet
    <3> QED BY <2>4, <2>5, <3>1, ConcatSet DEF OutSet
  <2>8. OutSet' = Kept(input) \cup SelfMetrics(RepairCounts(input))
    BY <2>2, <2>3, <2>6, <2>7
  <2> QED BY <1>1, <2>8 DEF Guarded, AppendSelfMetrics
<1>2. CASE UNCHANGED vars
  BY <1>2 DEF vars, ReturnsGuarded, OutSet
<1>3. CASE ~ AppendSelfMetrics /\ ~ UNCHANGED vars
  BY <1>3 DEF Next, DropInvalidLabel, DropTypeMismatch, DropDuplicate, Keep,
             KeepWithFirstHelp, Advance, Scanning
<1> QED BY <1>1, <1>2, <1>3

(* guardSamples computes the declarative definition, for every input. *)
THEOREM GuardIsCorrect == Spec => []ReturnsGuarded
<1>1. Init => ReturnsGuarded
  BY DEF Init, ReturnsGuarded
<1> QED BY <1>1, TypeInit, TypeStep, InvInit, InvStep, ReturnsStep, PTL DEF Spec

-----------------------------------------------------------------------------
(* The result is one Gather accepts, series by series and index by index. *)

(* Positions of out hold different series. *)
Distinct == \A i, j \in 1..Len(out) : seriesKey(out[i]) = seriesKey(out[j]) => i = j

LEMMA OutSeriesSeen ==
  ASSUME TypeOK, ScanInv, pc = "scan", NEW i \in 1..Len(out)
  PROVE  seriesKey(out[i]) \in seen /\ out[i].name # guardMetric
<1>1. out[i] \in OutSet
  BY DEF OutSet
<1>2. PICK k \in 1..(pos - 1) : IsKept(input, k) /\ out[i] = Repaired(input, k)
  BY <1>1 DEF ScanInv, OutIsKept
<1>3. k \in 1..Len(input)
  BY InputFacts DEF TypeOK
<1>4. seriesKey(out[i]) = seriesKey(input[k]) /\ out[i].name = input[k].name
  BY <1>2, <1>3, InputFacts, RepairedFacts
<1>5. Passes(input, k)
  BY <1>2 DEF IsKept
<1> QED BY <1>3, <1>4, <1>5, InputFacts DEF ScanInv, SeenIsPassed

LEMMA DistinctAppend ==
  ASSUME TypeOK, ScanInv, Distinct, pc = "scan", NEW s \in Sample,
         seriesKey(s) \notin seen, out' = Append(out, s)
  PROVE  Distinct'
<1>1. /\ Len(out') = Len(out) + 1 /\ Len(out) \in Nat
      /\ \A i \in 1..Len(out) : out'[i] = out[i]
      /\ out'[Len(out) + 1] = s
  BY DEF TypeOK
<1> SUFFICES ASSUME NEW i \in 1..Len(out'), NEW j \in 1..Len(out'),
                    seriesKey(out'[i]) = seriesKey(out'[j])
             PROVE  i = j
  BY DEF Distinct
<1>2. \A k \in 1..Len(out) : seriesKey(out[k]) # seriesKey(s)
  BY OutSeriesSeen
<1>3. CASE i \in 1..Len(out) /\ j \in 1..Len(out)
  BY <1>1, <1>3 DEF Distinct
<1>4. CASE i \in 1..Len(out) /\ j = Len(out) + 1
  BY <1>1, <1>2, <1>4
<1>5. CASE i = Len(out) + 1 /\ j \in 1..Len(out)
  BY <1>1, <1>2, <1>5
<1>6. CASE i = Len(out) + 1 /\ j = Len(out) + 1
  BY <1>6
<1> QED BY <1>1, <1>3, <1>4, <1>5, <1>6

LEMMA DistinctStep == TypeOK /\ ScanInv /\ Distinct /\ [Next]_vars => Distinct'
<1> SUFFICES ASSUME TypeOK, ScanInv, Distinct, [Next]_vars PROVE Distinct'
  OBVIOUS
<1>1. CASE UNCHANGED out
  BY <1>1 DEF Distinct
<1>2. CASE Keep
  BY <1>2, CurrentFacts, DistinctAppend DEF Keep, Scanning
<1>3. CASE KeepWithFirstHelp
  <2>1. Scanning /\ IsKept(input, pos)
    BY <1>3, Branch DEF KeepWithFirstHelp
  <2>2. out' = Append(out, Repaired(input, pos))
    BY <1>3, <2>1, KeptOutput DEF KeepWithFirstHelp
  <2>3. Repaired(input, pos) \in Sample /\ seriesKey(Repaired(input, pos)) = seriesKey(current)
    BY <2>1, CurrentFacts, InputFacts, RepairedFacts DEF current
  <2> QED BY <1>3, <2>2, <2>3, DistinctAppend DEF KeepWithFirstHelp, Scanning
<1>4. CASE AppendSelfMetrics
  <2> DEFINE ms == SelfMetricSeq(counts)
  <2>1. /\ out' = out \o ms /\ out \in Seq(Sample) /\ ms \in Seq(Sample)
        /\ Len(ms) = 4 * Len(Systems) /\ pc = "scan"
    BY <1>4, SelfMetricSeqType DEF AppendSelfMetrics, TypeOK
  <2>2. ASSUME NEW k \in 1..Len(ms) PROVE ms[k].name = guardMetric
    BY <2>1, <2>2 DEF SelfMetricSeq, SelfMetric
  <2>3. ASSUME NEW j \in 1..Len(ms), NEW k \in 1..Len(ms), seriesKey(ms[j]) = seriesKey(ms[k])
        PROVE  j = k
    BY <2>1, <2>3, SelfMetricIndex
  <2>4. ASSUME NEW i \in 1..Len(out), NEW k \in 1..Len(ms)
        PROVE  seriesKey(out[i]) # seriesKey(ms[k])
    BY <2>1, <2>2, OutSeriesSeen DEF seriesKey
  <2> HIDE DEF ms
  <2>5. /\ Len(out') = Len(out) + Len(ms) /\ Len(out) \in Nat /\ Len(ms) \in Nat
        /\ \A i \in 1..Len(out') : out'[i] = IF i <= Len(out) THEN out[i] ELSE ms[i - Len(out)]
    <3>1. LET u == out \o ms
          IN  /\ Len(u) = Len(out) + Len(ms)
              /\ \A i \in 1..Len(u) : u[i] = IF i <= Len(out) THEN out[i] ELSE ms[i - Len(out)]
      BY <2>1, ConcatProperties
    <3>2. Len(out) \in Nat /\ Len(ms) \in Nat
      BY <2>1
    <3> QED BY <2>1, <3>1, <3>2
  <2> SUFFICES ASSUME NEW i \in 1..Len(out'), NEW j \in 1..Len(out'),
                      seriesKey(out'[i]) = seriesKey(out'[j])
               PROVE  i = j
    BY DEF Distinct
  <2>6. CASE i <= Len(out) /\ j <= Len(out)
    BY <2>5, <2>6 DEF Distinct
  <2>7. CASE i <= Len(out) /\ j > Len(out)
    <3>1. i \in 1..Len(out) /\ j - Len(out) \in 1..Len(ms)
      BY <2>5, <2>7
    <3> QED BY <2>4, <2>5, <2>7, <3>1
  <2>8. CASE i > Len(out) /\ j <= Len(out)
    <3>1. j \in 1..Len(out) /\ i - Len(out) \in 1..Len(ms)
      BY <2>5, <2>8
    <3> QED BY <2>4, <2>5, <2>8, <3>1
  <2>9. CASE i > Len(out) /\ j > Len(out)
    <3>1. i - Len(out) \in 1..Len(ms) /\ j - Len(out) \in 1..Len(ms)
      BY <2>5, <2>9
    <3>2. out'[i] = ms[i - Len(out)] /\ out'[j] = ms[j - Len(out)]
      BY <2>5, <2>9
    <3>3. seriesKey(ms[i - Len(out)]) = seriesKey(ms[j - Len(out)])
      BY <3>2
    <3>4. i - Len(out) = j - Len(out)
      BY <2>3, <3>1, <3>3
    <3> QED BY <2>5, <3>4
  <2> QED BY <2>5, <2>6, <2>7, <2>8, <2>9
<1> QED BY <1>1, <1>2, <1>3, <1>4
      DEF Next, vars, DropInvalidLabel, DropTypeMismatch, DropDuplicate

LEMMA GatherSubset ==
  ASSUME NEW S, NEW T, T \subseteq S, GatherAccepts(S)
  PROVE  GatherAccepts(T)
BY DEF GatherAccepts

LEMMA SafeFromInvariants == TypeOK /\ ScanInv /\ ReturnsGuarded /\ Distinct => GatherSafe
<1> SUFFICES ASSUME TypeOK, ScanInv, ReturnsGuarded, Distinct PROVE GatherAccepts(OutSet)
  BY DEF GatherSafe, Distinct
<1>1. GatherAccepts(Guarded(input))
  BY InputFacts, GuardedGatherSafe
<1>2. OutSet \subseteq Guarded(input)
  <2>1. CASE pc = "scan"
    <3>1. 1..(pos - 1) \subseteq 1..Len(input)
      BY InputFacts DEF TypeOK
    <3> QED BY <2>1, <3>1 DEF ScanInv, OutIsKept, Guarded, Kept
  <2>2. CASE pc = "done"
    BY <2>2 DEF ReturnsGuarded
  <2> QED BY <2>1, <2>2 DEF TypeOK
<1> QED BY <1>1, <1>2, GatherSubset

(* In every state of every scan the samples kept so far, and at its end    *)
(* the returned list, are such that Gather does not fail.                  *)
THEOREM GuardIsGatherSafe == Spec => []GatherSafe
<1>1. Init => ReturnsGuarded /\ Distinct
  BY DEF Init, ReturnsGuarded, Distinct
<1> QED BY <1>1, TypeInit, TypeStep, InvInit, InvStep, ReturnsStep, DistinctStep,
           SafeFromInvariants, PTL DEF Spec

-----------------------------------------------------------------------------
(* The balance of samples read, kept and counted as dropped. *)

ReadOf(sys) == {i \in 1..(pos - 1) : OfSystem(input[i], sys)}
KeptOf(sys) == {i \in 1..Len(out) : out[i].name # guardMetric /\ OfSystem(out[i], sys)}

LEMMA OneMore ==
  ASSUME NEW n \in Nat, NEW S \in SUBSET (1..n)
  PROVE  Cardinality(S) \in Nat /\ Cardinality(S \cup {n + 1}) = Cardinality(S) + 1
<1>1. IsFiniteSet(S)
  <2>1. 1 \in Int /\ n \in Int
    OBVIOUS
  <2>2. IsFiniteSet(1..n)
    BY <2>1, FS_Interval
  <2> QED BY <2>2, FS_Subset
<1>2. n + 1 \notin S
  OBVIOUS
<1> QED BY <1>1, <1>2, FS_CardinalityType, FS_AddElement

LEMMA ReadNext ==
  ASSUME TypeOK, Scanning, Advance, NEW sys \in System
  PROVE  /\ Cardinality(ReadOf(sys)) \in Nat
         /\ Cardinality(ReadOf(sys)') =
              Cardinality(ReadOf(sys)) + IF OfSystem(current, sys) THEN 1 ELSE 0
<1>1. pos \in Nat /\ pos - 1 \in Nat /\ pos' - 1 = pos /\ input' = input
  BY CurrentFacts DEF Advance
<1>2. ReadOf(sys) \in SUBSET (1..(pos - 1))
  BY DEF ReadOf
<1>3. ReadOf(sys)' = IF OfSystem(current, sys) THEN ReadOf(sys) \cup {(pos - 1) + 1} ELSE ReadOf(sys)
  BY <1>1 DEF ReadOf, current
<1>4. /\ Cardinality(ReadOf(sys)) \in Nat
      /\ Cardinality(ReadOf(sys) \cup {(pos - 1) + 1}) = Cardinality(ReadOf(sys)) + 1
  BY <1>1, <1>2, OneMore
<1>5. CASE OfSystem(current, sys)
  BY <1>3, <1>4, <1>5
<1>6. CASE ~ OfSystem(current, sys)
  BY <1>3, <1>4, <1>6
<1> QED BY <1>5, <1>6

LEMMA KeptNext ==
  ASSUME TypeOK, NEW s \in Sample, s.name # guardMetric,
         out' = Append(out, s), NEW sys \in System
  PROVE  /\ Cardinality(KeptOf(sys)) \in Nat
         /\ Cardinality(KeptOf(sys)') =
              Cardinality(KeptOf(sys)) + IF OfSystem(s, sys) THEN 1 ELSE 0
<1>1. /\ Len(out') = Len(out) + 1 /\ Len(out) \in Nat
      /\ \A i \in 1..Len(out) : out'[i] = out[i]
      /\ out'[Len(out) + 1] = s
  BY DEF TypeOK
<1>2. KeptOf(sys) \in SUBSET (1..Len(out))
  BY DEF KeptOf
<1>3. KeptOf(sys)' = IF OfSystem(s, sys) THEN KeptOf(sys) \cup {Len(out) + 1} ELSE KeptOf(sys)
  BY <1>1 DEF KeptOf
<1>4. /\ Cardinality(KeptOf(sys)) \in Nat
      /\ Cardinality(KeptOf(sys) \cup {Len(out) + 1}) = Cardinality(KeptOf(sys)) + 1
  BY <1>1, <1>2, OneMore
<1>5. CASE OfSystem(s, sys)
  BY <1>3, <1>4, <1>5
<1>6. CASE ~ OfSystem(s, sys)
  BY <1>3, <1>4, <1>6
<1> QED BY <1>5, <1>6

LEMMA KeptUntouched ==
  ASSUME UNCHANGED out, NEW sys \in System
  PROVE  KeptOf(sys)' = KeptOf(sys)
BY DEF KeptOf

LEMMA KeptNat ==
  ASSUME TypeOK, NEW sys \in System
  PROVE  Cardinality(KeptOf(sys)) \in Nat /\ DroppedOf(sys) \in Nat
<1>1. KeptOf(sys) \in SUBSET (1..Len(out)) /\ Len(out) \in Nat
  BY DEF KeptOf, TypeOK
<1>2. Cardinality(KeptOf(sys)) \in Nat
  BY <1>1, OneMore
<1>3. \A r \in Reason : counts[sys][r] \in Nat
  BY DEF TypeOK
<1> QED BY <1>2, <1>3 DEF DroppedOf, Reason

(* A repair counts the sample as dropped, unless it is a rewrite. *)
LEMMA DroppedNext ==
  ASSUME TypeOK, Scanning, NEW r \in Reason, repair(current, r), NEW sys \in System
  PROVE  DroppedOf(sys)' =
           DroppedOf(sys) + IF OfSystem(current, sys) /\ r # "help_mismatch" THEN 1 ELSE 0
<1> DEFINE n == Cardinality(SystemTags(current, sys))
           c == counts[sys]
<1>1. n = IF OfSystem(current, sys) THEN 1 ELSE 0
  BY TagCount DEF OfSystem
<1>2. counts'[sys] = [c EXCEPT ![r] = @ + n] /\ c \in [Reason -> Nat]
  BY DEF repair, TypeOK
<1>3. \A q \in Reason : counts'[sys][q] = c[q] + IF q = r THEN n ELSE 0
  <2> HIDE DEF n, c
  <2> QED BY <1>2
<1> HIDE DEF n
<1>4. DroppedOf(sys)' = counts'[sys]["duplicate"] + counts'[sys]["type_mismatch"]
                         + counts'[sys]["invalid_label"]
  BY DEF DroppedOf
<1>5. \A q \in Reason : c[q] \in Nat
  BY <1>2
<1> QED BY <1>1, <1>3, <1>4, <1>5 DEF DroppedOf, Reason

LEMMA AccountedStep == TypeOK /\ ScanInv /\ Accounted /\ [Next]_vars => Accounted'
<1> SUFFICES ASSUME TypeOK, ScanInv, Accounted, [Next]_vars, NEW sys \in System
             PROVE  Cardinality(ReadOf(sys)') = Cardinality(KeptOf(sys)') + DroppedOf(sys)'
  BY DEF Accounted, ReadOf, KeptOf
<1>1. Cardinality(ReadOf(sys)) = Cardinality(KeptOf(sys)) + DroppedOf(sys)
  BY DEF Accounted, ReadOf, KeptOf
<1>2. Cardinality(KeptOf(sys)) \in Nat /\ DroppedOf(sys) \in Nat
  BY KeptNat
<1>3. ASSUME NEW r \in Reason \ {"help_mismatch"}, Scanning, repair(current, r), Advance, UNCHANGED out
      PROVE  Cardinality(ReadOf(sys)') = Cardinality(KeptOf(sys)') + DroppedOf(sys)'
  BY <1>1, <1>2, <1>3, ReadNext, KeptUntouched, DroppedNext
<1>4. CASE DropInvalidLabel
  BY <1>3, <1>4 DEF DropInvalidLabel, Reason
<1>5. CASE DropTypeMismatch
  BY <1>3, <1>5 DEF DropTypeMismatch, Reason
<1>6. CASE DropDuplicate
  BY <1>3, <1>6 DEF DropDuplicate, Reason
<1>7. CASE Keep
  <2>1. /\ Scanning /\ Advance /\ out' = Append(out, current)
        /\ DroppedOf(sys)' = DroppedOf(sys)
    BY <1>7 DEF Keep, DroppedOf
  <2>2. current \in Sample /\ current.name # guardMetric
    BY <2>1, CurrentFacts, InputFacts DEF current
  <2> QED BY <1>1, <1>2, <2>1, <2>2, ReadNext, KeptNext
<1>8. CASE KeepWithFirstHelp
  <2> DEFINE s == Repaired(input, pos)
  <2>1. Scanning /\ Advance /\ repair(current, "help_mismatch") /\ IsKept(input, pos)
    BY <1>8, Branch DEF KeepWithFirstHelp
  <2>2. out' = Append(out, s)
    BY <1>8, <2>1, KeptOutput DEF KeepWithFirstHelp
  <2>3. s \in Sample /\ s.name # guardMetric /\ s.labels = current.labels
    BY <2>1, CurrentFacts, InputFacts, RepairedFacts DEF current
  <2>4. OfSystem(s, sys) <=> OfSystem(current, sys)
    BY <2>3 DEF OfSystem, SystemTags
  <2>5. "help_mismatch" \in Reason
    BY DEF Reason
  <2> HIDE DEF s
  <2>6. Cardinality(KeptOf(sys)')
          = Cardinality(KeptOf(sys)) + IF OfSystem(s, sys) THEN 1 ELSE 0
    BY <2>2, <2>3, KeptNext
  <2>7. DroppedOf(sys)' = DroppedOf(sys)
    BY <1>2, <2>1, <2>5, DroppedNext
  <2>8. /\ Cardinality(ReadOf(sys)) \in Nat
        /\ Cardinality(ReadOf(sys)')
             = Cardinality(ReadOf(sys)) + IF OfSystem(current, sys) THEN 1 ELSE 0
    BY <2>1, ReadNext
  <2> QED BY <1>1, <1>2, <2>4, <2>6, <2>7, <2>8
<1>9. CASE AppendSelfMetrics
  <2> DEFINE ms == SelfMetricSeq(counts)
  <2>1. /\ out' = out \o ms /\ out \in Seq(Sample) /\ ms \in Seq(Sample)
        /\ Len(ms) = 4 * Len(Systems)
    BY <1>9, SelfMetricSeqType DEF AppendSelfMetrics, TypeOK
  <2>2. \A k \in 1..Len(ms) : ms[k].name = guardMetric
    BY <2>1 DEF SelfMetricSeq, SelfMetric
  <2> HIDE DEF ms
  <2>3. /\ Len(out') = Len(out) + Len(ms) /\ Len(out) \in Nat /\ Len(ms) \in Nat
        /\ \A i \in 1..Len(out') : out'[i] = IF i <= Len(out) THEN out[i] ELSE ms[i - Len(out)]
    <3>1. LET u == out \o ms
          IN  /\ Len(u) = Len(out) + Len(ms)
              /\ \A i \in 1..Len(u) : u[i] = IF i <= Len(out) THEN out[i] ELSE ms[i - Len(out)]
      BY <2>1, ConcatProperties
    <3>2. Len(out) \in Nat /\ Len(ms) \in Nat
      BY <2>1
    <3> QED BY <2>1, <3>1, <3>2
  <2>4. ASSUME NEW i \in 1..Len(out'), i > Len(out) PROVE out'[i].name = guardMetric
    <3>1. i - Len(out) \in 1..Len(ms)
      BY <2>3, <2>4
    <3> QED BY <2>2, <2>3, <2>4, <3>1
  <2>5. KeptOf(sys)' = KeptOf(sys)
    BY <2>3, <2>4 DEF KeptOf
  <2>6. ReadOf(sys)' = ReadOf(sys) /\ DroppedOf(sys)' = DroppedOf(sys)
    BY <1>9 DEF AppendSelfMetrics, ReadOf, DroppedOf
  <2> QED BY <1>1, <2>5, <2>6
<1>10. CASE UNCHANGED vars
  BY <1>1, <1>10 DEF vars, ReadOf, KeptOf, DroppedOf
<1> QED BY <1>4, <1>5, <1>6, <1>7, <1>8, <1>9, <1>10 DEF Next

(* Of every system the samples read are the ones kept plus the ones its    *)
(* three drop counters report, at every iteration and of every input: no   *)
(* sample is lost silently and none counted twice (guard.go:56-63,         *)
(* 95-104).                                                                *)
THEOREM AccountedAlways == Spec => []Accounted
<1>1. Init => Accounted
  <2> SUFFICES ASSUME Init, NEW sys \in System
               PROVE  Cardinality(ReadOf(sys)) = Cardinality(KeptOf(sys)) + DroppedOf(sys)
    BY DEF Accounted, ReadOf, KeptOf
  <2>1. ReadOf(sys) = {} /\ KeptOf(sys) = {} /\ DroppedOf(sys) = 0
    BY DEF Init, ReadOf, KeptOf, DroppedOf, Reason
  <2> QED BY <2>1, FS_EmptySet
<1> QED BY <1>1, TypeInit, TypeStep, InvInit, InvStep, AccountedStep, PTL DEF Spec
=============================================================================
