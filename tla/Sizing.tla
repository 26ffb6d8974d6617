------------------------------- MODULE Sizing -------------------------------
(***************************************************************************)
(* SizingCollector.Collect (internal/nsr/sizing.go): the loop that folds   *)
(* the save sets of one answer into the capacity series, one per client    *)
(* and save set name.                                                      *)
(*                                                                         *)
(* A throughput is a float; here it is the pair of a size and a duration,  *)
(* compared as a fraction.                                                 *)
(***************************************************************************)
EXTENDS Quantity, Sequences

CONSTANTS
  SaveSetKey,  \* client and save set name
  Answer       \* the sequences of save sets a server may answer with

Backup ==
  [key : SaveSetKey, full : BOOLEAN, size : Size,
   saveTime : Time, retentionTime : Time, completionTime : Time]

ASSUME AnswerAssumption == Answer \subseteq Seq(Backup)

VARIABLES
  answer,
  i,        \* save sets folded
  fullMax,  \* the four maps, from the keys seen so far
  incrMax,
  retMax,
  jobBest

vars == <<answer, i, fullMax, incrMax, retMax, jobBest>>

Empty == [k \in {} |-> 0]

(* Mutant of putMax: a key that is absent counts as zero. *)
putMaxAboveZero(m, k, v) ==
  IF (IF k \in DOMAIN m THEN v > m[k] ELSE v > 0) THEN put(m, k, v) ELSE m

putMax(m, k, v) == IF k \in DOMAIN m => v > m[k] THEN put(m, k, v) ELSE m

(* What an instance has to have to count for each of the four maps.  One   *)
(* whose size cannot be read counts for none of them.                      *)
Sized(bk) == Bytes(bk.size).ok
Full(bk) == Sized(bk) /\ bk.full
Incr(bk) == Sized(bk) /\ ~ bk.full
Retained(bk) ==
  /\ Sized(bk)
  /\ parseTime(bk.saveTime).ok /\ parseTime(bk.retentionTime).ok
  /\ bk.retentionTime > bk.saveTime

Timed(bk) ==
  /\ Sized(bk)
  /\ parseTime(bk.saveTime).ok /\ parseTime(bk.completionTime).ok
  /\ bk.completionTime > bk.saveTime

size(bk) == Bytes(bk.size).value
retention(bk) == bk.retentionTime - bk.saveTime
job(bk) == [size |-> size(bk), dur |-> bk.completionTime - bk.saveTime]

faster(a, b) == a.size * b.dur > b.size * a.dur

(* Mutant of keepFastest: the duration of the last instance. *)
keepFastestSize(m, k, j) ==
  IF k \in DOMAIN m /\ ~ faster(j, m[k])
  THEN put(m, k, [size |-> m[k].size, dur |-> j.dur])
  ELSE put(m, k, j)

keepFastest(m, k, j) == IF k \in DOMAIN m => faster(j, m[k]) THEN put(m, k, j) ELSE m

Init ==
  /\ answer \in Answer
  /\ i = 0
  /\ fullMax = Empty /\ incrMax = Empty /\ retMax = Empty /\ jobBest = Empty

(* One turn of the loop; the maps an instance does not count for stay. *)
Fold ==
  /\ i < Len(answer)
  /\ i' = i + 1
  /\ LET bk == answer[i + 1]
     IN  /\ fullMax' = IF Full(bk) THEN putMax(fullMax, bk.key, size(bk)) ELSE fullMax
         /\ incrMax' = IF Incr(bk) THEN putMax(incrMax, bk.key, size(bk)) ELSE incrMax
         /\ retMax' = IF Retained(bk) THEN putMax(retMax, bk.key, retention(bk)) ELSE retMax
         /\ jobBest' = IF Timed(bk) THEN keepFastest(jobBest, bk.key, job(bk)) ELSE jobBest
  /\ UNCHANGED answer

Next == Fold

Spec == Init /\ [][Next]_vars

-----------------------------------------------------------------------------
(* Properties *)

TypeOK ==
  /\ answer \in Seq(Backup)
  /\ i \in 0..Len(answer)
  /\ \A m \in {fullMax, incrMax, retMax} :
       DOMAIN m \subseteq SaveSetKey /\ \A k \in DOMAIN m : m[k] \in Nat
  /\ DOMAIN jobBest \subseteq SaveSetKey
  /\ \A k \in DOMAIN jobBest : jobBest[k] \in [size : Nat, dur : Nat \ {0}]

(* The save sets folded so far. *)
Seen == {answer[j] : j \in 1..i}

(* m has the key of every one that counts and no other, and under it the   *)
(* best value among them, which one of them has.                           *)
Best(m, Counts(_), value(_), better(_, _)) ==
  LET counted == {bk \in Seen : Counts(bk)}
  IN  /\ DOMAIN m = {bk.key : bk \in counted}
      /\ \A bk \in counted : ~ better(value(bk), m[bk.key])
      /\ \A k \in DOMAIN m : \E bk \in counted : bk.key = k /\ value(bk) = m[k]

greater(a, b) == a > b

(* Each size and retention exported is the largest of its client and save  *)
(* set, in whatever order the server lists them; one of zero bytes is      *)
(* exported, and a key none of whose instances can be read is not, rather  *)
(* than as zero (sizing.go:52-83, 117-121, ADR-0008).                      *)
Maxima ==
  /\ Best(fullMax, Full, size, greater)
  /\ Best(incrMax, Incr, size, greater)
  /\ Best(retMax, Retained, retention, greater)

(* The duration and the throughput exported for a save set belong to one   *)
(* and the same instance, and none is faster (sizing.go:74-82).            *)
FastestInstance == Best(jobBest, Timed, job, faster)
=============================================================================
