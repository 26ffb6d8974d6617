------------------------------ MODULE Quantity ------------------------------
(***************************************************************************)
(* NetWorker's unit/value objects and timestamps, as the collectors read   *)
(* them (internal/nsr/quantity.go, metrics.go).  A reading is what a       *)
(* function that returns a value and a flag returns.                       *)
(***************************************************************************)
EXTENDS Integers

CONSTANTS
  Absent,  \* a field that the JSON object lacks
  Amount   \* the values quantities have

ASSUME QuantityAssumption == Amount \subseteq Nat /\ Absent \notin Nat

(* "other" is a unit the API is not known to use. *)
Unit == {"KB", "Byte", "", "other"}

(* The Size and BitRate models: the object may be absent, and its value.   *)
Size == [unit : Unit, value : Amount \cup {Absent}] \cup {Absent}

Reading(v) == [ok |-> TRUE, value |-> v]
NoReading == [ok |-> FALSE, value |-> 0]

(* A value that is absent is decoded as zero: the field is no pointer. *)
decoded(s) == IF s.value = Absent THEN 0 ELSE s.value

Bytes(s) ==
  IF s = Absent \/ s.unit = "other" THEN NoReading
  ELSE IF s.unit = "KB" THEN Reading(decoded(s) * 1024)
  ELSE Reading(decoded(s))

(* A rate has units of its own names, with the same meaning. *)
BytesPerSecond(r) == Bytes(r)

(* Data Domain capacities are texts such as "112 GB": a number and a unit. *)
(* A text that is not two words is Absent, a first word that is no number  *)
(* is a value that is Absent.  The units left out are larger.              *)
humanSizeUnits == [B |-> 1, KB |-> 1024, MB |-> 1048576]

HumanSize ==
  [unit : DOMAIN humanSizeUnits \cup {"other"}, value : Amount \cup {Absent}] \cup {Absent}

parseHumanSize(s) ==
  IF s = Absent \/ s.unit \notin DOMAIN humanSizeUnits \/ s.value = Absent THEN NoReading
  ELSE Reading(s.value * humanSizeUnits[s.unit])

(* A timestamp is in seconds; "" and what no layout parses are Absent. *)
Time == Amount \cup {Absent}

parseTime(t) == IF t = Absent THEN NoReading ELSE Reading(t)

(* The assignment m[k] = v to a Go map. *)
put(m, k, v) == [x \in DOMAIN m \cup {k} |-> IF x = k THEN v ELSE m[x]]
=============================================================================
