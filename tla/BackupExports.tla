---------------------------- MODULE BackupExports ----------------------------
(***************************************************************************)
(* One export of a school: requested under an idempotency key, written by  *)
(* a worker to R2 under a key that contains its checksum, expired by the   *)
(* daily retention unless a legal hold covers it.                          *)
(*                                                                         *)
(* Every await of BackupService is a step.  A snapshot contains the time   *)
(* it was taken, so that no two attempts write the same object.            *)
(***************************************************************************)
EXTENDS JobDelivery

CONSTANTS
  Handler,        \* API requests in flight at a time
  Snapshot,       \* objects the attempts may write
  Requests,       \* bound: requests with the idempotency key
  HoldChanges,    \* bound: legal holds placed and released
  LiveStalls,     \* may a job stall while its worker is still executing it?
  ExportFaults,   \* may an operation of an export fail?
  CrashAttempts,  \* the attempts during which a worker may crash
  MaxCrashes,     \* bound: crashes of workers and of retention runs
  None            \* no object

ASSUME ExportAssumption ==
  /\ None \notin Snapshot
  /\ {Requests, HoldChanges, MaxCrashes} \subseteq Nat
  /\ {LiveStalls, ExportFaults} \subseteq BOOLEAN

VARIABLES
  export,     \* the BackupExport row; expired says that expiresAt has passed
  objects,    \* the objects of the export in R2
  taken,      \* history: the snapshots taken so far
  handler,    \* what each API request in flight is doing
  requests,   \* requests so far
  bull,       \* the BullMQ job
  worker,     \* what each worker slot is doing
  retention,  \* what the retention run is doing
  hold,       \* does an active legal hold cover the export?
  holds,      \* times it was placed or released
  crashes,    \* crashes so far
  overlap     \* history: was the job taken from a worker that was executing it?

faultVars == <<crashes, overlap>>
vars == <<export, objects, taken, handler, requests, bull, worker, retention, hold, holds,
          faultVars>>
holdVars == <<hold, holds>>

ExportRow == [status : {"NONE", "PENDING", "RUNNING", "AVAILABLE", "FAILED", "EXPIRED"},
              key : Snapshot \cup {None}, expired : BOOLEAN]

WorkerSlot == [pc : {"idle", "read", "mark", "put", "available", "failed", "report"},
               attempt : 0..Attempts, snap : Snapshot \cup {None}, ok : BOOLEAN]

(* key is the storageKey the run has read; held says that a hold has been  *)
(* active since before it looked for one.                                  *)
RetentionRun == [pc : {"idle", "check", "delete", "mark"}, key : Snapshot \cup {None},
                 held : BOOLEAN]

IdleWorker == [pc |-> "idle", attempt |-> 0, snap |-> None, ok |-> FALSE]
NoRetention == [pc |-> "idle", key |-> None, held |-> FALSE]

TypeOK ==
  /\ export \in ExportRow
  /\ objects \subseteq taken /\ taken \subseteq Snapshot
  /\ handler \in [Handler -> {"idle", "requeue", "enqueue"}]
  /\ requests \in 0..Requests
  /\ bull \in BullJob
  /\ worker \in [Worker -> WorkerSlot]
  /\ retention \in RetentionRun
  /\ hold \in BOOLEAN /\ holds \in 0..HoldChanges
  /\ crashes \in 0..MaxCrashes /\ overlap \in BOOLEAN

Init ==
  /\ export = [status |-> "NONE", key |-> None, expired |-> FALSE]
  /\ objects = {} /\ taken = {}
  /\ handler = [h \in Handler |-> "idle"] /\ requests = 0
  /\ bull = NoBullJob
  /\ worker = [w \in Worker |-> IdleWorker]
  /\ retention = NoRetention
  /\ hold = FALSE /\ holds = 0 /\ crashes = 0 /\ overlap = FALSE

-----------------------------------------------------------------------------
(* requestExport.  The upsert returns the row the key has created before.  *)

(* Faulty variant: a new export is left to a second request to enqueue.    *)
RequestWithoutJob(h) ==
  /\ handler[h] = "idle" /\ requests < Requests /\ requests' = requests + 1
  /\ export' = IF export.status = "NONE" THEN [export EXCEPT !.status = "PENDING"] ELSE export
  /\ handler' = [handler EXCEPT ![h] =
       CASE export.status = "FAILED"  -> "requeue"
         [] export.status = "PENDING" -> "enqueue"
         [] OTHER                     -> "idle"]
  /\ UNCHANGED <<objects, taken, bull, worker, retention, holdVars, faultVars>>

RequestExport(h) ==
  /\ handler[h] = "idle" /\ requests < Requests /\ requests' = requests + 1
  /\ export' = IF export.status = "NONE" THEN [export EXCEPT !.status = "PENDING"] ELSE export
  /\ handler' = [handler EXCEPT ![h] =
       CASE export.status = "FAILED"              -> "requeue"
         [] export.status \in {"NONE", "PENDING"} -> "enqueue"
         [] OTHER                                 -> "idle"]
  /\ UNCHANGED <<objects, taken, bull, worker, retention, holdVars, faultVars>>

RequeueFailed(h) ==
  /\ handler[h] = "requeue"
  /\ export' = [export EXCEPT !.status = "PENDING"]
  /\ handler' = [handler EXCEPT ![h] = "enqueue"]
  /\ UNCHANGED <<objects, taken, requests, bull, worker, retention, holdVars, faultVars>>

EnqueueExport(h) ==
  /\ handler[h] = "enqueue"
  /\ bull' = Added(bull)
  /\ handler' = [handler EXCEPT ![h] = "idle"]
  /\ UNCHANGED <<export, objects, taken, requests, worker, retention, holdVars, faultVars>>

-----------------------------------------------------------------------------
(* executeExport.                                                          *)

Goto(w, pc) == worker' = [worker EXCEPT ![w].pc = pc]
End(w, ok) == worker' = [worker EXCEPT ![w].pc = "report", ![w].ok = ok]

Fetch(w) ==
  /\ worker[w].pc = "idle" /\ bull.state = "waiting"
  /\ bull' = Taken(bull, w)
  /\ worker' = [worker EXCEPT ![w] = [IdleWorker EXCEPT !.pc = "read", !.attempt = bull.made + 1]]
  /\ UNCHANGED <<export, objects, taken, handler, requests, retention, holdVars, faultVars>>

ReadExport(w) ==
  /\ worker[w].pc = "read"
  /\ IF export.status = "AVAILABLE" THEN End(w, TRUE) ELSE Goto(w, "mark")
  /\ UNCHANGED <<export, objects, taken, handler, requests, bull, retention, holdVars, faultVars>>

MarkRunning(w) ==
  /\ worker[w].pc = "mark"
  /\ export' = [export EXCEPT !.status = "RUNNING"]
  /\ Goto(w, "put")
  /\ UNCHANGED <<objects, taken, handler, requests, bull, retention, holdVars, faultVars>>

(* Faulty variant: the row names an object before it is uploaded.          *)
PutLater(w) ==
  /\ worker[w].pc = "put"
  /\ \E s \in Snapshot \ taken :
       /\ taken' = taken \cup {s}
       /\ worker' = [worker EXCEPT ![w].pc = "available", ![w].snap = s]
  /\ UNCHANGED <<export, objects, handler, requests, bull, retention, holdVars, faultVars>>

(* exportAll and putPrivateImmutable.                                      *)
PutSnapshot(w) ==
  /\ worker[w].pc = "put"
  /\ \E s \in Snapshot \ taken :
       /\ taken' = taken \cup {s} /\ objects' = objects \cup {s}
       /\ worker' = [worker EXCEPT ![w].pc = "available", ![w].snap = s]
  /\ UNCHANGED <<export, handler, requests, bull, retention, holdVars, faultVars>>

MarkAvailable(w) ==
  /\ worker[w].pc = "available"
  /\ export' = [status |-> "AVAILABLE", key |-> worker[w].snap, expired |-> FALSE]
  /\ End(w, TRUE)
  /\ UNCHANGED <<objects, taken, handler, requests, bull, retention, holdVars, faultVars>>

OperationFails(w) ==
  /\ ExportFaults /\ worker[w].pc \in {"put", "available"}
  /\ Goto(w, "failed")
  /\ UNCHANGED <<export, objects, taken, handler, requests, bull, retention, holdVars, faultVars>>

(* Faulty variant: the failure is left to the next attempt to record.      *)
LeaveRunning(w) ==
  /\ worker[w].pc = "failed"
  /\ End(w, FALSE)
  /\ UNCHANGED <<export, objects, taken, handler, requests, bull, retention, holdVars, faultVars>>

WriteFailed(w) ==
  /\ worker[w].pc = "failed"
  /\ export' = [export EXCEPT !.status = "FAILED"]
  /\ End(w, FALSE)
  /\ UNCHANGED <<objects, taken, handler, requests, bull, retention, holdVars, faultVars>>

Report(w) ==
  /\ worker[w].pc = "report"
  /\ bull' = Reported(bull, w, worker[w].ok)
  /\ worker' = [worker EXCEPT ![w] = IdleWorker]
  /\ UNCHANGED <<export, objects, taken, handler, requests, retention, holdVars, faultVars>>

Crash(w) ==
  /\ worker[w].pc # "idle" /\ worker[w].attempt \in CrashAttempts
  /\ crashes < MaxCrashes /\ crashes' = crashes + 1
  /\ worker' = [worker EXCEPT ![w] = IdleWorker]
  /\ bull' = IF bull.owner = w THEN Abandoned(bull) ELSE bull
  /\ UNCHANGED <<export, objects, taken, handler, requests, retention, holdVars, overlap>>

Stall ==
  /\ bull.state = "active"
  /\ bull.owner = Nobody \/ LiveStalls
  /\ bull' = AfterStall(bull)
  /\ overlap' = (overlap \/ bull.owner # Nobody)
  /\ UNCHANGED <<export, objects, taken, handler, requests, worker, retention, holdVars, crashes>>

-----------------------------------------------------------------------------
(* runRetention, once a day on one worker; createLegalHold and             *)
(* releaseLegalHold.                                                       *)

(* Seven days pass: longer than any request or job takes.                  *)
Expire ==
  /\ export.status = "AVAILABLE" /\ ~export.expired
  /\ \A w \in Worker : worker[w].pc = "idle"
  /\ bull.state \notin {"waiting", "active"}
  /\ \A h \in Handler : handler[h] = "idle"
  /\ export' = [export EXCEPT !.expired = TRUE]
  /\ UNCHANGED <<objects, taken, handler, requests, bull, worker, retention, holdVars, faultVars>>

(* Faulty variant: the next run does not find an export left by a crash.   *)
FindStored ==
  /\ retention.pc = "idle"
  /\ export.status = "AVAILABLE" /\ export.expired /\ export.key \in objects
  /\ retention' = [pc |-> "check", key |-> export.key, held |-> hold]
  /\ UNCHANGED <<export, objects, taken, handler, requests, bull, worker, holdVars, faultVars>>

FindExpired ==
  /\ retention.pc = "idle"
  /\ export.status = "AVAILABLE" /\ export.expired
  /\ retention' = [pc |-> "check", key |-> export.key, held |-> hold]
  /\ UNCHANGED <<export, objects, taken, handler, requests, bull, worker, holdVars, faultVars>>

(* Faulty variant: the retention does not look for holds.                  *)
SkipHoldCheck ==
  /\ retention.pc = "check"
  /\ retention' = [retention EXCEPT !.pc = "delete"]
  /\ UNCHANGED <<export, objects, taken, handler, requests, bull, worker, holdVars, faultVars>>

CheckHold ==
  /\ retention.pc = "check"
  /\ retention' = IF hold THEN NoRetention ELSE [retention EXCEPT !.pc = "delete"]
  /\ UNCHANGED <<export, objects, taken, handler, requests, bull, worker, holdVars, faultVars>>

DeleteObject ==
  /\ retention.pc = "delete"
  /\ objects' = objects \ {retention.key}
  /\ retention' = [retention EXCEPT !.pc = "mark"]
  /\ UNCHANGED <<export, taken, handler, requests, bull, worker, holdVars, faultVars>>

(* Compare-and-set on the status and the key.                              *)
MarkExpired ==
  /\ retention.pc = "mark"
  /\ export' = IF export.status = "AVAILABLE" /\ export.key = retention.key
               THEN [export EXCEPT !.status = "EXPIRED", !.key = None] ELSE export
  /\ retention' = NoRetention
  /\ UNCHANGED <<objects, taken, handler, requests, bull, worker, holdVars, faultVars>>

(* A crash, or an operation that throws, ends the run.                     *)
RetentionStops ==
  /\ retention.pc # "idle" /\ crashes < MaxCrashes /\ crashes' = crashes + 1
  /\ retention' = NoRetention
  /\ UNCHANGED <<export, objects, taken, handler, requests, bull, worker, holdVars, overlap>>

ChangeHold ==
  /\ holds < HoldChanges /\ holds' = holds + 1
  /\ hold' = ~hold
  /\ retention' = [retention EXCEPT !.held = FALSE]
  /\ UNCHANGED <<export, objects, taken, handler, requests, bull, worker, faultVars>>

-----------------------------------------------------------------------------
Handle(h) == RequeueFailed(h) \/ EnqueueExport(h)

Execute(w) ==
  \/ ReadExport(w) \/ MarkRunning(w) \/ PutSnapshot(w) \/ MarkAvailable(w)
  \/ WriteFailed(w) \/ Report(w)

RunRetention == FindExpired \/ CheckHold \/ DeleteObject \/ MarkExpired

Next ==
  \/ \E h \in Handler : RequestExport(h) \/ Handle(h)
  \/ \E w \in Worker : Fetch(w) \/ Execute(w) \/ OperationFails(w) \/ Crash(w)
  \/ Stall
  \/ Expire \/ RunRetention \/ RetentionStops \/ ChangeHold

Spec == Init /\ [][Next]_vars

(* The schedule starts a retention run every day and BullMQ keeps          *)
(* delivering; requests, holds and faults are not assumed to happen.       *)
Fairness ==
  /\ \A h \in Handler : WF_vars(Handle(h))
  /\ \A w \in Worker : WF_vars(Execute(w))
  /\ WF_vars(\E w \in Worker : Fetch(w))
  /\ WF_vars(Stall /\ bull.owner = Nobody)
  /\ WF_vars(RunRetention)

FairSpec == Spec /\ Fairness
-----------------------------------------------------------------------------
(* Properties.                                                             *)

(* An export that downloadExport hands out is in R2, whatever attempts     *)
(* failed, crashed or ran twice before it became AVAILABLE.                *)
DownloadableIsStored ==
  export.status = "AVAILABLE" /\ ~export.expired => export.key \in objects

(* The retention deletes no object that a hold has covered since the run   *)
(* found its export.                                                       *)
LastingHoldKeeps == [][retention.held => objects \subseteq objects']_vars

(* An export past its expiry is expired by some run, crashes of earlier    *)
(* runs notwithstanding, unless a hold covers it.                          *)
ExpiryHappens == (export.status = "AVAILABLE" /\ export.expired) ~> (export.status = "EXPIRED" \/ hold)

(* An export that was requested is executed, unless BullMQ is done with    *)
(* its job already.                                                        *)
Finished == bull.state \in {"completed", "failed"}
RequestedIsExecuted ==
  export.status = "PENDING" /\ ~Finished
    ~> export.status \in {"RUNNING", "AVAILABLE", "FAILED"} \/ Finished

(* What has started ends, crashes and stalls notwithstanding, unless a     *)
(* worker that had lost its job crashed after marking the export again.    *)
ExportSettles ==
  export.status = "RUNNING" ~> export.status \in {"AVAILABLE", "FAILED"} \/ (overlap /\ crashes > 0)

(* docs/school-backup-exports.md: reusing the original idempotency key     *)
(* requeues a failed export.                                               *)
ReuseRequeues ==
  export.status = "PENDING" ~> export.status \in {"RUNNING", "AVAILABLE", "FAILED"}

(* docs/data-classification-retention.md: a legal hold always overrides    *)
(* scheduled deletion.                                                     *)
HeldIsKept == [][hold => objects \subseteq objects']_vars

(* docs/data-classification-retention.md: the private object of an export  *)
(* is deleted after seven days, so an object is one an export still names. *)
NoForgottenObject ==
  (bull.state \in {"completed", "failed"} /\ \A w \in Worker : worker[w].pc = "idle")
    => objects \subseteq {export.key}
=============================================================================
