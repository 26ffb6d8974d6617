----------------------------- MODULE Snapshots -----------------------------
(***************************************************************************)
(* What the collection loop promises the two export paths, with no         *)
(* goroutine, semaphore, deadline or ticker in it: while the loop lives it *)
(* publishes snapshot after snapshot, and each is a function of one        *)
(* cycle's answers alone -- which collector of which system answered --    *)
(* and of the config order, never of the order in which answers arrived.   *)
(* Collector is shown to implement this module, with SnapshotOf of Cycle.  *)
(***************************************************************************)
CONSTANTS
  System,            \* the systems
  Collector,         \* the resource collectors
  Stamp,             \* the stamps of cycles
  NextStamp(_),      \* the stamp of the cycle after this one
  EmptySnapshot,     \* what readers load before the first cycle
  SnapshotOf(_, _)   \* SnapshotOf(answers, n): what the cycle stamped n publishes

VARIABLES
  published,  \* the snapshot readers load
  answered,   \* the collectors that have answered for each system
  alive       \* the loop has not returned

absVars == <<published, answered, alive>>

Answers == [System -> SUBSET Collector]

Init ==
  /\ published = EmptySnapshot
  /\ answered = [sys \in System |-> {}]
  /\ alive = TRUE

Answer ==
  /\ alive
  /\ answered' \in Answers
  /\ UNCHANGED <<published, alive>>

Publish ==
  /\ alive
  /\ published' = SnapshotOf(answered, NextStamp(published.collected))
  /\ UNCHANGED <<answered, alive>>

Stop ==
  /\ alive
  /\ alive' = FALSE
  /\ UNCHANGED <<published, answered>>

Next == Answer \/ Publish \/ Stop

Spec == Init /\ [][Next]_absVars

(* A loop that lives on publishes for ever, whatever the systems do. *)
KeepsPublishing ==
  \A n \in Stamp : (alive ~> published.collected = n \/ ~ alive)

FairSpec == Spec /\ KeepsPublishing
=============================================================================
