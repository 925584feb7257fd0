----------------------------- MODULE JobDelivery -----------------------------
(***************************************************************************)
(* One BullMQ job as QueueInfrastructureService configures its queues and  *)
(* workers: added once under a deterministic id, handed to one worker at a *)
(* time, retried up to a number of attempts, and taken back when its       *)
(* worker stops renewing the job's lock.  BullMQ itself is not under src/; *)
(* its rules are those its options select.                                 *)
(***************************************************************************)
EXTENDS Integers

CONSTANTS
  Worker,           \* worker slots (processes times QUEUE_WORKER_CONCURRENCY)
  Attempts,         \* attempts BullMQ gives a job (QUEUE_JOB_ATTEMPTS, 8)
  MaxStalledCount,  \* stalls after which BullMQ fails a job (2)
  Nobody            \* no worker holds the lock of a job

ASSUME DeliveryAssumption ==
  /\ Attempts \in Nat \ {0}
  /\ MaxStalledCount \in Nat
  /\ Nobody \notin Worker

BullJob == [state : {"absent", "waiting", "active", "completed", "failed"},
            made : 0..Attempts, stalled : 0..(MaxStalledCount + 1),
            owner : Worker \cup {Nobody}]

NoBullJob == [state |-> "absent", made |-> 0, stalled |-> 0, owner |-> Nobody]

(* Queue.add: a job that exists under the id, finished or not, is kept.    *)
Added(b) == IF b.state = "absent" THEN [b EXCEPT !.state = "waiting"] ELSE b

(* A waiting job goes to a worker.                                         *)
Taken(b, w) == [b EXCEPT !.state = "active", !.owner = w]

(* The worker's handler returned.                                          *)
Done(b) == [b EXCEPT !.state = "completed", !.owner = Nobody]

(* Faulty variant: one attempt too many.                                   *)
AfterFailureOnceMore(b) ==
  [b EXCEPT !.made = b.made + 1, !.owner = Nobody,
            !.state = IF b.made + 1 <= Attempts THEN "waiting" ELSE "failed"]

(* The worker's handler threw.                                             *)
AfterFailure(b) ==
  [b EXCEPT !.made = b.made + 1, !.owner = Nobody,
            !.state = IF b.made + 1 < Attempts THEN "waiting" ELSE "failed"]

(* The worker's process is gone, and with it the renewal of the lock.      *)
Abandoned(b) == [b EXCEPT !.owner = Nobody]

(* BullMQ finds an active job whose lock was not renewed.                  *)
AfterStall(b) ==
  [b EXCEPT !.owner = Nobody, !.stalled = b.stalled + 1,
            !.state = IF b.stalled < MaxStalledCount THEN "waiting" ELSE "failed"]

(* The result of w's handler reaches BullMQ, which ignores the report of a *)
(* worker that has lost the job's lock.                                    *)
Reported(b, w, returned) ==
  CASE b.owner # w             -> b
    [] b.owner = w /\ returned -> Done(b)
    [] OTHER                   -> AfterFailure(b)

=============================================================================
