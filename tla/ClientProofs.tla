---------------------------- MODULE ClientProofs ----------------------------
(***************************************************************************)
(* For any number of retries: a refusal is final, a call whose cycle is    *)
(* over begins at most one more attempt, and the attempts and waits of     *)
(* Client are, to the collector, the one answer or failure of Request.     *)
(***************************************************************************)
EXTENDS Client, TLAPS

Underway == {"flight", "check", "done"}

(* Attempts are counted as they are begun; one is left whenever the call   *)
(* is about to make one.                                                   *)
AttemptInv ==
  /\ attempts \in Nat
  /\ afterEnd <= attempts
  /\ pc \in {"send", "wait"} => attempts <= RetryCount
  /\ pc \in Underway => attempts <= RetryCount + 1
  /\ outcome = "none" <=> pc # "done"

(* An attempt is followed by another one only if it went wrong in a way    *)
(* that is worth a retry; so an answer that has come home is the last      *)
(* attempt's.                                                              *)
RetryInv ==
  /\ pc \in {"send", "flight"} => last = "none" \/ retriable(last)
  /\ pc \in {"check", "wait", "done"} => last # "none"
  /\ pc = "wait" => retriable(last)
  /\ refusals = IF last = "status_4xx" THEN 1 ELSE 0
  /\ answered <=> last \in Answers

(* What a done context leaves possible: an attempt begun with one is the   *)
(* last, and no reply comes home from it.                                  *)
LateInv ==
  /\ afterEnd \in {0, 1}
  /\ afterEnd = 1 => ctxDone /\ pc \in Underway
  /\ late => ctxDone /\ last \in {"none", "broken"}
  /\ late /\ pc = "flight" => afterEnd = 1
  /\ last \in server \cup {"none"} \/ (last = "broken" /\ ctxDone)

ClientInv == TypeOK /\ AttemptInv /\ RetryInv /\ LateInv

LEMMA InvInit == Init => ClientInv
<1> SUFFICES ASSUME Init PROVE ClientInv
  OBVIOUS
<1> USE RetryAssumption DEF Init, Promise!Init
<1>1. TypeOK
  <2>1. answered \in BOOLEAN /\ late \in BOOLEAN
    OBVIOUS
  <2>2. /\ server \in Servers /\ ctxDone \in BOOLEAN
        /\ attempts \in 0..RetryCount + 1
        /\ afterEnd \in 0..RetryCount + 1
        /\ refusals \in 0..RetryCount + 1
    OBVIOUS
  <2> QED BY <2>1, <2>2 DEF TypeOK
<1>2. AttemptInv
  BY DEF AttemptInv, Underway
<1>3. RetryInv
  BY DEF RetryInv, Answers
<1>4. LateInv
  BY DEF LateInv
<1> QED BY <1>1, <1>2, <1>3, <1>4 DEF ClientInv

LEMMA AttemptStep ==
  TypeOK /\ AttemptInv /\ RetryInv /\ [Next]_vars => (TypeOK /\ AttemptInv)'
<1> SUFFICES ASSUME TypeOK, AttemptInv, RetryInv, [Next]_vars
             PROVE  TypeOK' /\ AttemptInv'
  OBVIOUS
<1> USE RetryAssumption DEF TypeOK, AttemptInv, Underway
<1>1. CASE Send
  <2>1. afterEnd' \in {afterEnd, afterEnd + 1}
    BY <1>1 DEF Send
  <2>2. afterEnd <= attempts
    OBVIOUS
  <2> QED BY <1>1, <2>1, <2>2 DEF Send
<1>2. CASE Replied
  <2>1. refusals' \in {0, 1}
    BY <1>2 DEF Replied, RetryInv, retriable
  <2>2. last' \in Reply
    BY <1>2 DEF Replied, Servers
  <2>3. TypeOK'
    BY <1>2, <2>1, <2>2 DEF Replied
  <2> QED BY <1>2, <2>3 DEF Replied
<1>3. CASE Cancelled
  BY <1>3 DEF Cancelled, Reply
<1>4. CASE GiveUp
  BY <1>4 DEF GiveUp, outcomeOf
<1>5. CASE Retry
  BY <1>5 DEF Retry
<1>6. CASE WaitOver
  BY <1>6 DEF WaitOver
<1>7. CASE WaitCancelled
  BY <1>7 DEF WaitCancelled
<1>8. CASE ContextEnds
  BY <1>8 DEF ContextEnds
<1>9. CASE UNCHANGED vars
  BY <1>9 DEF vars
<1> QED
  BY <1>1, <1>2, <1>3, <1>4, <1>5, <1>6, <1>7, <1>8, <1>9 DEF Next, Step

LEMMA RetryStep == TypeOK /\ RetryInv /\ [Next]_vars => RetryInv'
<1> SUFFICES ASSUME TypeOK, RetryInv, [Next]_vars
             PROVE  RetryInv'
  OBVIOUS
<1> USE DEF RetryInv, retriable
<1>1. CASE Send
  BY <1>1 DEF Send
<1>2. CASE Replied
  <2>1. refusals' = IF last' = "status_4xx" THEN 1 ELSE 0
    BY <1>2 DEF Replied
  <2>2. last' # "none"
    BY <1>2 DEF Replied, TypeOK, Servers, Reply
  <2>3. last \notin Answers
    BY <1>2 DEF Replied, Answers
  <2>4. answered' <=> last' \in Answers
    BY <1>2, <2>3 DEF Replied
  <2> QED BY <1>2, <2>1, <2>2, <2>4 DEF Replied
<1>3. CASE Cancelled
  BY <1>3 DEF Cancelled, Answers
<1>4. CASE GiveUp
  BY <1>4 DEF GiveUp
<1>5. CASE Retry
  BY <1>5 DEF Retry
<1>6. CASE WaitOver
  BY <1>6 DEF WaitOver
<1>7. CASE WaitCancelled
  BY <1>7 DEF WaitCancelled
<1>8. CASE ContextEnds
  BY <1>8 DEF ContextEnds
<1>9. CASE UNCHANGED vars
  BY <1>9 DEF vars
<1> QED
  BY <1>1, <1>2, <1>3, <1>4, <1>5, <1>6, <1>7, <1>8, <1>9 DEF Next, Step

LEMMA LateStep == TypeOK /\ LateInv /\ [Next]_vars => LateInv'
<1> SUFFICES ASSUME TypeOK, LateInv, [Next]_vars
             PROVE  LateInv'
  OBVIOUS
<1> USE DEF LateInv, Underway
<1>1. CASE Send
  <2>1. afterEnd = 0 /\ afterEnd' = IF ctxDone THEN 1 ELSE 0
    BY <1>1 DEF Send
  <2> QED BY <1>1, <2>1 DEF Send
<1>2. CASE Replied
  <2>1. afterEnd # 1
    BY <1>2 DEF Replied
  <2>2. ~ late
    BY <1>2, <2>1, Zenon DEF Replied
  <2> QED BY <1>2, <2>1, <2>2 DEF Replied
<1>3. CASE Cancelled
  BY <1>3 DEF Cancelled
<1>4. CASE GiveUp
  BY <1>4 DEF GiveUp
<1>5. CASE Retry
  BY <1>5 DEF Retry
<1>6. CASE WaitOver
  BY <1>6 DEF WaitOver
<1>7. CASE WaitCancelled
  BY <1>7 DEF WaitCancelled
<1>8. CASE ContextEnds
  BY <1>8 DEF ContextEnds
<1>9. CASE UNCHANGED vars
  BY <1>9 DEF vars
<1> QED
  BY <1>1, <1>2, <1>3, <1>4, <1>5, <1>6, <1>7, <1>8, <1>9 DEF Next, Step

LEMMA InvStep == ClientInv /\ [Next]_vars => ClientInv'
BY AttemptStep, RetryStep, LateStep DEF ClientInv

(* No call makes more than RetryCount + 1 attempts, however the server and *)
(* the context behave (client.go:39-41, 89).                               *)
THEOREM TypeCorrect == Spec => []TypeOK
<1>1. ClientInv => TypeOK
  BY DEF ClientInv
<1> QED BY <1>1, InvInit, InvStep, PTL DEF Spec

(* A wrong password is sent once per request: after a 4xx the call makes   *)
(* no further attempt, whatever failed before it (client.go:43-59).        *)
THEOREM RefusedOnceAlways == Spec => []RefusedOnce
<1>1. ClientInv => RefusedOnce
  <2> SUFFICES ASSUME TypeOK, RetryInv PROVE RefusedOnce
    BY DEF ClientInv
  <2>1. refusals <= 1
    BY DEF RetryInv
  <2>2. last = "status_4xx" => pc \in {"check", "done"}
    BY DEF TypeOK, RetryInv, retriable
  <2> QED BY <2>1, <2>2 DEF RefusedOnce
<1> QED BY <1>1, InvInit, InvStep, PTL DEF Spec

(* At most one attempt is begun with a context that is done, and it is not *)
(* retried (client.go:51-59, 89).                                          *)
THEOREM LateOnceAlways == Spec => []LateOnce
<1>1. ClientInv => LateOnce
  BY DEF ClientInv, TypeOK, LateInv, LateOnce, Underway
<1> QED BY <1>1, InvInit, InvStep, PTL DEF Spec

-----------------------------------------------------------------------------
(* A reply that is an answer arrives, GiveUp and WaitCancelled end the     *)
(* call; every other step of Client is the context's or none of Request's. *)
LEMMA StepImplements ==
  ClientInv /\ [Next]_vars => [Promise!Next]_Promise!reqVars
<1> SUFFICES ASSUME ClientInv, [Next]_vars
             PROVE  Promise!Next \/ UNCHANGED Promise!reqVars
  OBVIOUS
<1> USE DEF ClientInv, TypeOK, AttemptInv, RetryInv, LateInv, Promise!reqVars
<1>1. CASE Send
  BY <1>1 DEF Send
<1>2. CASE Replied
  <2>1. ~ answered
    BY <1>2 DEF Replied, retriable, Answers
  <2>2. PICK reply \in server :
          last' = reply /\ answered' = (answered \/ reply \in Answers)
    BY <1>2 DEF Replied
  <2>3. CASE reply \in Answers
    <3>1. ~ late
      <4>1. afterEnd # 1
        BY <1>2 DEF Replied
      <4> QED BY <1>2, <4>1, Zenon DEF Replied
    <3>2. Promise!Arrives
      BY <1>2, <2>1, <2>2, <2>3, <3>1 DEF Replied, Promise!Arrives
    <3> QED BY <3>2 DEF Promise!Next
  <2>4. CASE reply \notin Answers
    BY <1>2, <2>1, <2>2, <2>4 DEF Replied
  <2> QED BY <2>3, <2>4
<1>3. CASE Cancelled
  BY <1>3 DEF Cancelled
<1>4. CASE GiveUp
  <2>1. CASE last \in Answers
    <3>1. Promise!Answer
      BY <1>4, <2>1 DEF GiveUp, outcomeOf, Promise!Answer
    <3> QED BY <3>1 DEF Promise!Next
  <2>2. CASE last \notin Answers
    <3>1. ctxDone \/ ~ (server \subseteq Answers)
      BY <1>4, <2>2 DEF GiveUp
    <3>2. Promise!Fail
      BY <1>4, <2>2, <3>1 DEF GiveUp, outcomeOf, Promise!Fail
    <3> QED BY <3>2 DEF Promise!Next
  <2> QED BY <2>1, <2>2
<1>5. CASE Retry
  BY <1>5 DEF Retry
<1>6. CASE WaitOver
  BY <1>6 DEF WaitOver
<1>7. CASE WaitCancelled
  <2>1. ~ answered
    BY <1>7 DEF WaitCancelled, retriable, Answers
  <2>2. Promise!Fail
    BY <1>7, <2>1 DEF WaitCancelled, Promise!Fail
  <2> QED BY <2>2 DEF Promise!Next
<1>8. CASE ContextEnds
  BY <1>8 DEF ContextEnds, Promise!ContextEnds, Promise!Next
<1>9. CASE UNCHANGED vars
  BY <1>9 DEF vars
<1> QED
  BY <1>1, <1>2, <1>3, <1>4, <1>5, <1>6, <1>7, <1>8, <1>9 DEF Next, Step

(* Get is one Answer or one Fail of Request (client.go:51-59, 88-104): an  *)
(* answer that has come home is returned, whatever failed before it and    *)
(* although the context ends meanwhile, only a server asked in time is     *)
(* taken for one that answered, and one that always answers is failed by   *)
(* the context alone.                                                      *)
THEOREM GetImplementsRequest == Spec => ImplementsRequest
<1>1. Init => Promise!Init
  BY DEF Init
<1> QED
  BY <1>1, InvInit, InvStep, StepImplements, PTL
  DEF Spec, ImplementsRequest, Promise!Spec
=============================================================================
