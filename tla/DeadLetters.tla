------------------------------ MODULE DeadLetters ------------------------------
(***************************************************************************)
(* The jobs that failed for good: their copy in the dead-letter queue and  *)
(* the replay by an operator (createWorker's failed handler and            *)
(* replayDeadLetter in jobs/queue-infrastructure.service.ts,               *)
(* platform/queue-operations.controller.ts).                               *)
(***************************************************************************)
EXTENDS Integers

CONSTANTS
  Operator,  \* replay requests
  Runs,      \* bound: runs of the job
  Deaths,    \* bound: ends of a process
  Stalls     \* bound: requests that outlive their lease

VARIABLES
  source,  \* the job in its own queue
  dead,    \* is its copy in the dead-letter queue?
  copier,  \* is the worker's failed handler about to add the copy?
  lease,   \* who holds dead-letter-replay:queue:job
  ask,     \* ask[o]: where the request is
  ran,     \* runs of the job so far
  deaths, stalls

letterVars == <<source, dead, copier, lease, ask, ran, deaths, stalls>>

LettersTypeOK ==
  /\ source \in {"none", "waiting", "active", "failed", "completed"}
  /\ dead \in BOOLEAN /\ copier \in BOOLEAN /\ lease \in SUBSET Operator
  /\ ask \in [Operator -> {"new", "leased", "read", "remove", "add", "drop", "release", "over"}]
  /\ ran \in 0..Runs /\ deaths \in 0..Deaths /\ stalls \in 0..Stalls
LettersInit ==
  /\ source = "waiting" /\ dead = FALSE /\ copier = FALSE /\ lease = {}
  /\ ask = [o \in Operator |-> "new"] /\ ran = 0 /\ deaths = 0 /\ stalls = 0
-----------------------------------------------------------------------------
(* The worker takes the job; at its last attempt it fails for good, and    *)
(* the handler of the event copies it under the name of the job.           *)
Take ==
  /\ source = "waiting" /\ ran < Runs /\ source' = "active" /\ ran' = ran + 1
  /\ UNCHANGED <<dead, copier, lease, ask, deaths, stalls>>
Complete ==
  /\ source = "active" /\ source' = "completed"
  /\ UNCHANGED <<dead, copier, lease, ask, ran, deaths, stalls>>
Fail ==
  /\ source = "active" /\ source' = "failed" /\ copier' = TRUE
  /\ UNCHANGED <<dead, lease, ask, ran, deaths, stalls>>
(* A copy that is there already, under the same name, stays as it is.      *)
Copy ==
  /\ copier /\ copier' = FALSE /\ dead' = TRUE
  /\ UNCHANGED <<source, lease, ask, ran, deaths, stalls>>
WorkerDies ==
  /\ copier /\ deaths < Deaths /\ deaths' = deaths + 1 /\ copier' = FALSE
  /\ UNCHANGED <<source, dead, lease, ask, ran, stalls>>
-----------------------------------------------------------------------------
Goes(o, to) == ask' = [ask EXCEPT ![o] = to]

AcquireLease(o) ==
  /\ ask[o] = "new" /\ lease = {} /\ lease' = {o} /\ Goes(o, "leased")
  /\ UNCHANGED <<source, dead, copier, ran, deaths, stalls>>
GetDeadJob(o) ==
  /\ ask[o] = "leased" /\ Goes(o, IF dead THEN "read" ELSE "release")
  /\ UNCHANGED <<source, dead, copier, lease, ran, deaths, stalls>>
GetSourceJob(o) ==
  /\ ask[o] = "read"
  /\ Goes(o, CASE source = "none" -> "add" [] source = "failed" -> "remove" [] OTHER -> "release")
  /\ UNCHANGED <<source, dead, copier, lease, ran, deaths, stalls>>
(* A job that a worker holds cannot be removed.                            *)
RemoveSource(o) ==
  /\ ask[o] = "remove"
  /\ source' = IF source = "active" THEN source ELSE "none"
  /\ Goes(o, IF source = "active" THEN "release" ELSE "add")
  /\ UNCHANGED <<dead, copier, lease, ran, deaths, stalls>>

(* Faulty variant: the copy is removed before the job is added again.      *)
DropFirst(o) ==
  /\ ask[o] = "add" /\ dead' = FALSE /\ Goes(o, "drop")
  /\ UNCHANGED <<source, copier, lease, ran, deaths, stalls>>
AddAgain(o) ==
  /\ ask[o] = "add" /\ Goes(o, "drop")
  /\ source' = IF source = "none" THEN "waiting" ELSE source
  /\ UNCHANGED <<dead, copier, lease, ran, deaths, stalls>>
DropDeadJob(o) ==
  /\ ask[o] = "drop" /\ dead' = FALSE /\ Goes(o, "release")
  /\ UNCHANGED <<source, copier, lease, ran, deaths, stalls>>
ReleaseLease(o) ==
  /\ ask[o] = "release" /\ lease' = lease \ {o} /\ Goes(o, "over")
  /\ UNCHANGED <<source, dead, copier, ran, deaths, stalls>>
(* After 30 seconds Redis forgets the lease, whoever held it.              *)
LeaseExpires ==
  /\ lease # {} /\ lease' = {}
  /\ \/ \A o \in lease : ask[o] = "over"
     \/ stalls < Stalls
  /\ stalls' = IF \A o \in lease : ask[o] = "over" THEN stalls ELSE stalls + 1
  /\ UNCHANGED <<source, dead, copier, ask, ran, deaths>>
ApiDies(o) ==
  /\ ask[o] \notin {"new", "over"} /\ deaths < Deaths /\ deaths' = deaths + 1
  /\ Goes(o, "over")
  /\ UNCHANGED <<source, dead, copier, lease, ran, stalls>>

LettersNext ==
  \/ Take \/ Complete \/ Fail \/ Copy \/ WorkerDies \/ LeaseExpires
  \/ \E o \in Operator :
       \/ AcquireLease(o) \/ GetDeadJob(o) \/ GetSourceJob(o) \/ RemoveSource(o)
       \/ AddAgain(o) \/ DropDeadJob(o) \/ ReleaseLease(o) \/ ApiDies(o)
-----------------------------------------------------------------------------
(* A replay never loses the job: whoever dies and wherever, it is in its   *)
(* queue or its copy is kept and may be replayed again                     *)
(* (docs/queue-operations.md:25, "deletes the dead letter only after       *)
(* requeue"), as long as no request outlives its lease.                    *)
JobIsKept == source # "none" \/ dead

(* Refuted: "Terminal failures are copied to <queue>.dead-letter"          *)
(* (docs/queue-operations.md:19). The worker dies before it copies, or the *)
(* job fails again before the replay removes the old copy, which then      *)
(* takes the place of the new one and is removed.                          *)
FailureIsCopied == source = "failed" /\ ~ copier => dead
=============================================================================
