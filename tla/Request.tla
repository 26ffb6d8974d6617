------------------------------ MODULE Request ------------------------------
(***************************************************************************)
(* What one nsrclient.Get means to the collector that calls it, with no    *)
(* attempts, waits or status codes in it: it ends, once, with an answer or *)
(* with an error, and with the answer if one came home.  These are the     *)
(* steps module Collector takes as Answer and Fail; Client is shown to     *)
(* implement them.                                                         *)
(***************************************************************************)

CONSTANTS
  Servers,  \* the sets of replies a server may choose from
  Answers   \* the replies that count as an answer

VARIABLES
  server,   \* the replies this server chooses from; none: it hangs
  ctxDone,  \* the cycle's context is done
  late,     \* it was already done when Get was called
  answered, \* history: an answer has come home
  outcome   \* "none", "nil" or "error"

reqVars == <<server, ctxDone, late, answered, outcome>>

Init ==
  /\ server \in Servers
  /\ ctxDone \in BOOLEAN
  /\ late = ctxDone
  /\ answered = FALSE
  /\ outcome = "none"

ContextEnds == ctxDone' = TRUE /\ UNCHANGED <<server, late, answered, outcome>>

(* Only a server that can answer, and a call made in time, is answered. *)
Arrives ==
  /\ outcome = "none"
  /\ ~ answered
  /\ ~ late
  /\ server \cap Answers # {}
  /\ answered' = TRUE
  /\ UNCHANGED <<server, ctxDone, late, outcome>>

(* An answer is what the caller is told. *)
Answer ==
  /\ outcome = "none"
  /\ answered
  /\ outcome' = "nil"
  /\ UNCHANGED <<server, ctxDone, late, answered>>

(* A call that was answered does not fail, whatever went wrong before; one *)
(* to a server that always answers is failed by the context only.          *)
Fail ==
  /\ outcome = "none"
  /\ ~ answered
  /\ ctxDone \/ ~ (server \subseteq Answers)
  /\ outcome' = "error"
  /\ UNCHANGED <<server, ctxDone, late, answered>>

Next == ContextEnds \/ Arrives \/ Answer \/ Fail

Spec == Init /\ [][Next]_reqVars

Ends == <>(outcome # "none")
=============================================================================
