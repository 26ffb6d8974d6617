--------------------------- MODULE Contributions ---------------------------
(***************************************************************************)
(* What the collection loop is promised of one system's collectors         *)
(* (collectSystem, internal/nsr/collector.go:157-173): they take turns,    *)
(* and each one adds everything that is to be made of what the server      *)
(* holds, or nothing, and then the system is not healthy.                  *)
(***************************************************************************)
EXTENDS Integers, Sequences

CONSTANTS
  NumCollectors,
  Maps(_, _)  \* Maps(held, c): the samples collector c is to make of what a server holds

VARIABLES
  held,     \* what the server holds
  turn,     \* the collector whose turn it is
  samples,  \* the samples of the system
  healthy

vars == <<held, turn, samples, healthy>>

Init == turn = 1 /\ samples = <<>> /\ healthy = TRUE

(* Within a contribution the order is free: Go maps have none. *)
Contributes ==
  /\ turn \in 1..NumCollectors
  /\ turn' = turn + 1
  /\ LET added == SubSeq(samples', Len(samples) + 1, Len(samples'))
     IN  /\ samples' = samples \o added
         /\ {added[n] : n \in DOMAIN added} = Maps(held, turn)
  /\ UNCHANGED <<held, healthy>>

Fails ==
  /\ turn \in 1..NumCollectors
  /\ turn' = turn + 1
  /\ healthy' = FALSE
  /\ UNCHANGED <<held, samples>>

Next == Contributes \/ Fails

Spec == Init /\ [][Next]_vars
=============================================================================
