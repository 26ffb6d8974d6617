------------------------------- MODULE Client -------------------------------
(***************************************************************************)
(* One call of nsrclient.Get (internal/nsrclient/client.go): the attempts, *)
(* the waits between them and the retry condition that New configures, the *)
(* context, and what Get makes of the last attempt.  resty's retry loop is *)
(* modelled from how New and Get use it.                                   *)
(*                                                                         *)
(* An attempt's own timeout is the cycle's (collector.go:47), so it never  *)
(* expires before the context does: a server that hangs holds the call     *)
(* until the context is done.                                              *)
(***************************************************************************)
EXTENDS Integers

CONSTANT RetryCount  \* SetRetryCount

ASSUME RetryAssumption == RetryCount \in Nat

(* How an attempt can go.  "broken" is a transport error, "accepted" any   *)
(* 2xx other than 200; the last four are status 200 with a body that has   *)
(* the collection's field, one that lacks it, one that does not decode and *)
(* one that is not declared as JSON, which is not decoded.                 *)
Reply == {"broken", "status_5xx", "status_4xx", "accepted",
          "data", "renamed", "garbled", "text"}

Servers == SUBSET Reply

(* The replies Get takes for an answer. *)
Answers == {"data", "renamed", "text"}

VARIABLES
  server,    \* the replies this server chooses from
  ctxDone,   \* the context is done
  late,      \* it was done when Get was called
  answered,  \* history: an answer has come home
  outcome,   \* what Get returned
  pc,        \* "send", "flight", "check", "wait", "done"
  attempts,  \* attempts made
  last,      \* how the last attempt went
  afterEnd,  \* history: attempts begun when the context was done
  refusals   \* history: attempts answered with a 4xx

vars == <<server, ctxDone, late, answered, outcome, pc, attempts, last, afterEnd, refusals>>

Promise == INSTANCE Request

Init ==
  /\ Promise!Init
  /\ pc = "send"
  /\ attempts = 0
  /\ last = "none"
  /\ afterEnd = 0
  /\ refusals = 0

Send ==
  /\ pc = "send"
  /\ pc' = "flight"
  /\ attempts' = attempts + 1
  /\ afterEnd' = afterEnd + (IF ctxDone THEN 1 ELSE 0)
  /\ UNCHANGED <<server, ctxDone, late, answered, outcome, last, refusals>>

(* An attempt begun with a context that is done fails before it is sent;   *)
(* one under way when the context ends may still bring its reply home.     *)
Replied ==
  /\ pc = "flight"
  /\ afterEnd = 0
  /\ \E reply \in server :
       /\ last' = reply
       /\ answered' = (answered \/ reply \in Answers)
       /\ refusals' = refusals + (IF reply = "status_4xx" THEN 1 ELSE 0)
  /\ pc' = "check"
  /\ UNCHANGED <<server, ctxDone, late, outcome, attempts, afterEnd>>

(* Mutant of Cancelled: no deadline reaches an attempt under way. *)
CancelledBeforeSent ==
  /\ pc = "flight"
  /\ ctxDone
  /\ afterEnd > 0
  /\ last' = "broken"
  /\ pc' = "check"
  /\ UNCHANGED <<server, ctxDone, late, answered, outcome, attempts, afterEnd, refusals>>

Cancelled ==
  /\ pc = "flight"
  /\ ctxDone
  /\ last' = "broken"
  /\ pc' = "check"
  /\ UNCHANGED <<server, ctxDone, late, answered, outcome, attempts, afterEnd, refusals>>

(* Mutant of retriable: every status that is not a success. *)
retriableStatus(r) == r \in {"broken", "garbled", "status_5xx", "status_4xx"}

(* The condition New adds: any error, an undecodable body included, and    *)
(* any status from 500 on.                                                 *)
retriable(r) == r \in {"broken", "garbled", "status_5xx"}

(* Get returns resty's error, or an error for a status other than 200. *)
outcomeOf(r) == IF r \in Answers THEN "nil" ELSE "error"

(* Mutant of GiveUp: a call that has used up its attempts has failed,      *)
(* whatever the last one brought.                                          *)
GiveUpExhausted ==
  /\ pc = "check"
  /\ ctxDone \/ ~ retriable(last) \/ attempts > RetryCount
  /\ pc' = "done"
  /\ outcome' = IF attempts > RetryCount THEN "error" ELSE outcomeOf(last)
  /\ UNCHANGED <<server, ctxDone, late, answered, attempts, last, afterEnd, refusals>>

(* No retry: the context is done, the reply is final or no attempt is left. *)
GiveUp ==
  /\ pc = "check"
  /\ ctxDone \/ ~ retriable(last) \/ attempts > RetryCount
  /\ pc' = "done"
  /\ outcome' = outcomeOf(last)
  /\ UNCHANGED <<server, ctxDone, late, answered, attempts, last, afterEnd, refusals>>

(* Mutant of Retry: the first attempt is not counted. *)
RetryOnceMore ==
  /\ pc = "check"
  /\ ~ ctxDone
  /\ retriable(last)
  /\ attempts <= RetryCount + 1
  /\ pc' = "wait"
  /\ UNCHANGED <<server, ctxDone, late, answered, outcome, attempts, last, afterEnd, refusals>>

(* Mutant of Retry: the context is not looked at between attempts. *)
RetryUnchecked ==
  /\ pc = "check"
  /\ retriable(last)
  /\ attempts <= RetryCount
  /\ pc' = "wait"
  /\ UNCHANGED <<server, ctxDone, late, answered, outcome, attempts, last, afterEnd, refusals>>

Retry ==
  /\ pc = "check"
  /\ ~ ctxDone
  /\ retriable(last)
  /\ attempts <= RetryCount
  /\ pc' = "wait"
  /\ UNCHANGED <<server, ctxDone, late, answered, outcome, attempts, last, afterEnd, refusals>>

(* The wait ends by itself or with the context; when both have happened    *)
(* the select picks either.                                                *)
WaitOver ==
  /\ pc = "wait"
  /\ pc' = "send"
  /\ UNCHANGED <<server, ctxDone, late, answered, outcome, attempts, last, afterEnd, refusals>>

WaitCancelled ==
  /\ pc = "wait"
  /\ ctxDone
  /\ pc' = "done"
  /\ outcome' = "error"
  /\ UNCHANGED <<server, ctxDone, late, answered, attempts, last, afterEnd, refusals>>

(* The cycle's deadline passes, or the process is told to stop. *)
ContextEnds ==
  /\ ~ ctxDone
  /\ ctxDone' = TRUE
  /\ UNCHANGED <<server, late, answered, outcome, pc, attempts, last, afterEnd, refusals>>

Step == Send \/ Replied \/ Cancelled \/ GiveUp \/ Retry \/ WaitOver \/ WaitCancelled
Next == Step \/ ContextEnds

Spec == Init /\ [][Next]_vars

(* The calling goroutine runs, and the cycle's context has a deadline. *)
FairSpec == Spec /\ WF_vars(Step) /\ WF_vars(ContextEnds)

-----------------------------------------------------------------------------
(* Properties *)

TypeOK ==
  /\ server \in Servers
  /\ ctxDone \in BOOLEAN
  /\ late \in BOOLEAN
  /\ answered \in BOOLEAN
  /\ outcome \in {"none", "nil", "error"}
  /\ pc \in {"send", "flight", "check", "wait", "done"}
  /\ attempts \in 0..RetryCount + 1
  /\ last \in Reply \cup {"none"}
  /\ afterEnd \in 0..RetryCount + 1
  /\ refusals \in 0..RetryCount + 1

(* A reply that says no is final: after a 4xx nothing more is sent, so a   *)
(* wrong password is tried once per request and not three times            *)
(* (client.go:43-59, ADR-0007), also when other attempts failed before it. *)
RefusedOnce == refusals <= 1 /\ (last = "status_4xx" => pc \in {"check", "done"})

(* Once the cycle is over the retries stop: at most one more attempt is    *)
(* begun, by a wait that ended together with the context, and it is not    *)
(* retried (client.go:51-59, 89).                                          *)
LateOnce == afterEnd <= 1 /\ (afterEnd = 1 => pc # "wait")

(* Get is one Answer or one Fail of Request: once an answer has come home  *)
(* the call returns it, whatever failed before and although the context    *)
(* ends meanwhile; without one it fails; and only the context fails a call *)
(* to a server that always answers (client.go:51-59, 88-104).              *)
ImplementsRequest == Promise!Spec

(* Every call ends, a server that hangs included. *)
CallEnds == Promise!Ends
=============================================================================
