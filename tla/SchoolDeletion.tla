---------------------------- MODULE SchoolDeletion ----------------------------
(***************************************************************************)
(* The deletion of one school: requested, approved and executed by platform*)
(* administrators through the API, carried out by a worker that deletes    *)
(* the school's objects from R2 and its row, with all that depends on it,  *)
(* from the database, and reports what it deleted.                         *)
(*                                                                         *)
(* Every await of SchoolDeletionService is a step.  API handlers and       *)
(* workers hold what they read in their slot; none of the writes of a      *)
(* request row is conditional on its status.                               *)
(***************************************************************************)
EXTENDS FiniteSets, JobDelivery

CONSTANTS
  Request,        \* SchoolDeletionRequest rows
  Actor,          \* platform administrators
  Handler,        \* API requests in flight at a time
  Object,         \* private objects under the prefixes of the school
  Late,           \* those a client uploads after the start
  HoldChanges,    \* bound: legal holds placed and released in a behaviour
  LiveStalls,     \* may a job stall while its worker is still executing it?
  ApiFaults,      \* may the API crash in the middle of a request?
  WorkerFaults,   \* may an operation of the worker fail?
  CrashAttempts,  \* the attempts during which a worker may crash
  MaxCrashes,     \* bound: worker crashes in a behaviour
  Nil             \* no actor, no request

ASSUME DeletionAssumption ==
  /\ Nil \notin Actor \cup Request
  /\ IsFiniteSet(Object) /\ Late \subseteq Object
  /\ HoldChanges \in Nat /\ MaxCrashes \in Nat
  /\ {LiveStalls, ApiFaults, WorkerFaults} \subseteq BOOLEAN

VARIABLES
  school,    \* School.status, or DELETED
  request,   \* the SchoolDeletionRequest rows
  handler,   \* what each API request in flight is doing
  hold,      \* is a legal hold of the school active?
  holds,     \* times it was placed or released
  objects,   \* objects in R2
  bull,      \* the BullMQ job of each request
  worker,    \* what each worker slot is doing
  crashes,   \* worker crashes so far
  purged,    \* history: objects a worker has deleted
  late       \* history: objects uploaded since R2 was last found empty

vars == <<school, request, handler, hold, holds, objects, bull, worker, crashes, purged, late>>

Open == {"PENDING_APPROVAL", "APPROVED", "QUEUED", "EXECUTING"}

(* deleted is storageSummary.deletedObjects.                               *)
RequestRow == [status : Open \cup {"NONE", "COMPLETED", "FAILED"},
               requestedBy : Actor \cup {Nil}, approvedBy : Actor \cup {Nil},
               executedBy : Actor \cup {Nil},
               deleted : 0..(Cardinality(Object) * (Attempts + MaxStalledCount))]

HandlerSlot == [pc : {"idle", "hold", "existing", "schedule", "create",
                      "approveHold", "approve", "queue", "enqueue"},
                actor : Actor \cup {Nil}, req : Request \cup {Nil}]

(* prior is the deletedObjects the worker read, keys the objects it still  *)
(* has to delete; held says that the hold was active throughout.           *)
WorkerSlot == [pc : {"idle", "read", "mark", "hold", "list", "summary", "delete", "verify",
                     "school", "complete", "failed", "report"},
               req : Request \cup {Nil}, attempt : 0..Attempts,
               prior : 0..(Cardinality(Object) * (Attempts + MaxStalledCount)),
               keys : SUBSET Object, held : BOOLEAN, ok : BOOLEAN]

IdleHandler == [pc |-> "idle", actor |-> Nil, req |-> Nil]

IdleWorker == [pc |-> "idle", req |-> Nil, attempt |-> 0, prior |-> 0, keys |-> {},
               held |-> FALSE, ok |-> FALSE]

TypeOK ==
  /\ school \in {"ACTIVE", "DELETION_SCHEDULED", "DELETED"}
  /\ request \in [Request -> RequestRow]
  /\ handler \in [Handler -> HandlerSlot]
  /\ hold \in BOOLEAN /\ holds \in 0..HoldChanges
  /\ objects \subseteq Object /\ purged \subseteq Object /\ late \subseteq Object
  /\ bull \in [Request -> BullJob]
  /\ worker \in [Worker -> WorkerSlot]
  /\ crashes \in 0..MaxCrashes

Init ==
  /\ school = "ACTIVE"
  /\ request = [r \in Request |-> [status |-> "NONE", requestedBy |-> Nil,
                                   approvedBy |-> Nil, executedBy |-> Nil, deleted |-> 0]]
  /\ handler = [h \in Handler |-> IdleHandler]
  /\ hold = FALSE /\ holds = 0
  /\ objects = Object \ Late /\ purged = {} /\ late = {}
  /\ bull = [r \in Request |-> NoBullJob]
  /\ worker = [w \in Worker |-> IdleWorker]
  /\ crashes = 0

-----------------------------------------------------------------------------
(* The API: SchoolDeletionService.request, approve and execute.            *)

Begin(h, pc, a, r) == handler' = [handler EXCEPT ![h] = [pc |-> pc, actor |-> a, req |-> r]]
Step(h, pc) == handler' = [handler EXCEPT ![h].pc = pc]
Finish(h) == handler' = [handler EXCEPT ![h] = IdleHandler]

RequestDeletion(h, a) ==
  /\ handler[h].pc = "idle" /\ school # "DELETED"
  /\ Begin(h, "hold", a, Nil)
  /\ UNCHANGED <<school, request, hold, holds, objects, bull, worker, crashes, purged, late>>

CheckRequestHold(h) ==
  /\ handler[h].pc = "hold"
  /\ IF hold THEN Finish(h) ELSE Step(h, "existing")
  /\ UNCHANGED <<school, request, hold, holds, objects, bull, worker, crashes, purged, late>>

FindExisting(h) ==
  /\ handler[h].pc = "existing"
  /\ IF \E r \in Request : request[r].status \in Open THEN Finish(h) ELSE Step(h, "schedule")
  /\ UNCHANGED <<school, request, hold, holds, objects, bull, worker, crashes, purged, late>>

(* school.update throws when the row is gone.                              *)
ScheduleSchool(h) ==
  /\ handler[h].pc = "schedule"
  /\ IF school = "DELETED" THEN Finish(h) /\ UNCHANGED school
     ELSE Step(h, "create") /\ school' = "DELETION_SCHEDULED"
  /\ UNCHANGED <<request, hold, holds, objects, bull, worker, crashes, purged, late>>

CreateRequest(h) ==
  /\ handler[h].pc = "create"
  /\ \E r \in Request :
       /\ request[r].status = "NONE"
       /\ request' = [request EXCEPT ![r].status = "PENDING_APPROVAL",
                                     ![r].requestedBy = handler[h].actor]
  /\ Finish(h)
  /\ UNCHANGED <<school, hold, holds, objects, bull, worker, crashes, purged, late>>

(* Faulty variant: anybody may approve.                                    *)
ReadForApprovalByAnyone(h, a, r) ==
  /\ handler[h].pc = "idle"
  /\ request[r].status = "PENDING_APPROVAL"
  /\ Begin(h, "approveHold", a, r)
  /\ UNCHANGED <<school, request, hold, holds, objects, bull, worker, crashes, purged, late>>

ReadForApproval(h, a, r) ==
  /\ handler[h].pc = "idle"
  /\ request[r].status = "PENDING_APPROVAL" /\ request[r].requestedBy # a
  /\ Begin(h, "approveHold", a, r)
  /\ UNCHANGED <<school, request, hold, holds, objects, bull, worker, crashes, purged, late>>

CheckApprovalHold(h) ==
  /\ handler[h].pc = "approveHold"
  /\ IF hold THEN Finish(h) ELSE Step(h, "approve")
  /\ UNCHANGED <<school, request, hold, holds, objects, bull, worker, crashes, purged, late>>

(* The update names the row only.                                          *)
WriteApproval(h) ==
  /\ handler[h].pc = "approve"
  /\ request' = [request EXCEPT ![handler[h].req].status = "APPROVED",
                                ![handler[h].req].approvedBy = handler[h].actor]
  /\ Finish(h)
  /\ UNCHANGED <<school, hold, holds, objects, bull, worker, crashes, purged, late>>

ReadForExecution(h, a, r) ==
  /\ handler[h].pc = "idle"
  /\ request[r].status = "APPROVED"
  /\ a \notin {request[r].requestedBy, request[r].approvedBy}
  /\ Begin(h, "queue", a, r)
  /\ UNCHANGED <<school, request, hold, holds, objects, bull, worker, crashes, purged, late>>

WriteQueued(h) ==
  /\ handler[h].pc = "queue"
  /\ request' = [request EXCEPT ![handler[h].req].status = "QUEUED",
                                ![handler[h].req].executedBy = handler[h].actor]
  /\ Step(h, "enqueue")
  /\ UNCHANGED <<school, hold, holds, objects, bull, worker, crashes, purged, late>>

EnqueueDeletion(h) ==
  /\ handler[h].pc = "enqueue"
  /\ bull' = [bull EXCEPT ![handler[h].req] = Added(@)]
  /\ Finish(h)
  /\ UNCHANGED <<school, request, hold, holds, objects, worker, crashes, purged, late>>

ApiCrash(h) ==
  /\ ApiFaults /\ handler[h].pc # "idle"
  /\ Finish(h)
  /\ UNCHANGED <<school, request, hold, holds, objects, bull, worker, crashes, purged, late>>

-----------------------------------------------------------------------------
(* The worker: executeQueued.                                              *)

Goto(w, pc) == worker' = [worker EXCEPT ![w].pc = pc]
End(w, ok) == worker' = [worker EXCEPT ![w].pc = "report", ![w].ok = ok]

Fetch(w, r) ==
  /\ worker[w].pc = "idle" /\ bull[r].state = "waiting"
  /\ bull' = [bull EXCEPT ![r] = Taken(@, w)]
  /\ worker' = [worker EXCEPT ![w] =
       [IdleWorker EXCEPT !.pc = "read", !.req = r, !.attempt = bull[r].made + 1, !.held = hold]]
  /\ UNCHANGED <<school, request, handler, hold, holds, objects, crashes, purged, late>>

(* Faulty variant: a row left EXECUTING is not executed again.             *)
ReadRequestOnce(w) ==
  /\ worker[w].pc = "read"
  /\ LET row == request[worker[w].req]
     IN CASE row.status = "COMPLETED" -> End(w, TRUE)
          [] row.status \in {"QUEUED", "FAILED"} ->
               worker' = [worker EXCEPT ![w].pc = "mark", ![w].prior = row.deleted]
          [] OTHER -> End(w, FALSE)
  /\ UNCHANGED <<school, request, handler, hold, holds, objects, bull, crashes, purged, late>>

ReadRequest(w) ==
  /\ worker[w].pc = "read"
  /\ LET row == request[worker[w].req]
     IN CASE row.status = "COMPLETED" -> End(w, TRUE)
          [] row.status \in {"QUEUED", "EXECUTING", "FAILED"} ->
               worker' = [worker EXCEPT ![w].pc = "mark", ![w].prior = row.deleted]
          [] OTHER -> End(w, FALSE)
  /\ UNCHANGED <<school, request, handler, hold, holds, objects, bull, crashes, purged, late>>

MarkExecuting(w) ==
  /\ worker[w].pc = "mark"
  /\ request' = [request EXCEPT ![worker[w].req].status = "EXECUTING"]
  /\ Goto(w, "hold")
  /\ UNCHANGED <<school, handler, hold, holds, objects, bull, crashes, purged, late>>

(* Faulty variant: the hold is checked only by request and approve.        *)
CheckHoldNot(w) ==
  /\ worker[w].pc = "hold"
  /\ Goto(w, "list")
  /\ UNCHANGED <<school, request, handler, hold, holds, objects, bull, crashes, purged, late>>

CheckHold(w) ==
  /\ worker[w].pc = "hold"
  /\ Goto(w, IF hold THEN "failed" ELSE "list")
  /\ UNCHANGED <<school, request, handler, hold, holds, objects, bull, crashes, purged, late>>

ListObjects(w) ==
  /\ worker[w].pc = "list"
  /\ worker' = [worker EXCEPT ![w].pc = "summary", ![w].keys = objects]
  /\ UNCHANGED <<school, request, handler, hold, holds, objects, bull, crashes, purged, late>>

WriteSummary(w) ==
  /\ worker[w].pc = "summary"
  /\ request' = [request EXCEPT ![worker[w].req].deleted =
                   worker[w].prior + Cardinality(worker[w].keys)]
  /\ Goto(w, "delete")
  /\ UNCHANGED <<school, handler, hold, holds, objects, bull, crashes, purged, late>>

DeleteObject(w) ==
  /\ worker[w].pc = "delete" /\ worker[w].keys # {}
  /\ \E o \in worker[w].keys :
       /\ objects' = objects \ {o}
       /\ purged' = purged \cup ({o} \cap objects)
       /\ worker' = [worker EXCEPT ![w].keys = @ \ {o}]
  /\ UNCHANGED <<school, request, handler, hold, holds, bull, crashes, late>>

AllDeleted(w) ==
  /\ worker[w].pc = "delete" /\ worker[w].keys = {}
  /\ Goto(w, "verify")
  /\ UNCHANGED <<school, request, handler, hold, holds, objects, bull, crashes, purged, late>>

(* Faulty variant: the prefixes are not listed again.                      *)
VerifyNothing(w) ==
  /\ worker[w].pc = "verify"
  /\ Goto(w, "school")
  /\ late' = {}
  /\ UNCHANGED <<school, request, handler, hold, holds, objects, bull, crashes, purged>>

(* The prefixes are listed again.                                          *)
VerifyEmpty(w) ==
  /\ worker[w].pc = "verify"
  /\ IF objects = {} THEN Goto(w, "school") /\ late' = {} ELSE Goto(w, "failed") /\ UNCHANGED late
  /\ UNCHANGED <<school, request, handler, hold, holds, objects, bull, crashes, purged>>

DeleteSchool(w) ==
  /\ worker[w].pc = "school"
  /\ school' = "DELETED"
  /\ Goto(w, "complete")
  /\ UNCHANGED <<request, handler, hold, holds, objects, bull, crashes, purged, late>>

Complete(w) ==
  /\ worker[w].pc = "complete"
  /\ request' = [request EXCEPT ![worker[w].req].status = "COMPLETED"]
  /\ End(w, TRUE)
  /\ UNCHANGED <<school, handler, hold, holds, objects, bull, crashes, purged, late>>

(* Any operation in the try block may throw.                               *)
OperationFails(w) ==
  /\ WorkerFaults
  /\ worker[w].pc \in {"hold", "list", "summary", "delete", "verify", "school", "complete"}
  /\ Goto(w, "failed")
  /\ UNCHANGED <<school, request, handler, hold, holds, objects, bull, crashes, purged, late>>

WriteFailed(w) ==
  /\ worker[w].pc = "failed"
  /\ request' = [request EXCEPT ![worker[w].req].status = "FAILED"]
  /\ End(w, FALSE)
  /\ UNCHANGED <<school, handler, hold, holds, objects, bull, crashes, purged, late>>

Report(w) ==
  /\ worker[w].pc = "report"
  /\ bull' = [bull EXCEPT ![worker[w].req] = Reported(@, w, worker[w].ok)]
  /\ worker' = [worker EXCEPT ![w] = IdleWorker]
  /\ UNCHANGED <<school, request, handler, hold, holds, objects, crashes, purged, late>>

Crash(w) ==
  /\ worker[w].pc # "idle" /\ worker[w].attempt \in CrashAttempts
  /\ crashes < MaxCrashes /\ crashes' = crashes + 1
  /\ worker' = [worker EXCEPT ![w] = IdleWorker]
  /\ bull' = [r \in Request |-> IF bull[r].owner = w THEN Abandoned(bull[r]) ELSE bull[r]]
  /\ UNCHANGED <<school, request, handler, hold, holds, objects, purged, late>>

Stall(r) ==
  /\ bull[r].state = "active"
  /\ bull[r].owner = Nobody \/ LiveStalls
  /\ bull' = [bull EXCEPT ![r] = AfterStall(@)]
  /\ UNCHANGED <<school, request, handler, hold, holds, objects, worker, crashes, purged, late>>

-----------------------------------------------------------------------------
(* The rest of the platform: createLegalHold and releaseLegalHold, which   *)
(* need the school's row, and uploads.                                     *)

ChangeHold ==
  /\ holds < HoldChanges /\ holds' = holds + 1
  /\ hold \/ school # "DELETED"
  /\ hold' = ~hold
  /\ worker' = [w \in Worker |-> [worker[w] EXCEPT !.held = FALSE]]
  /\ UNCHANGED <<school, request, handler, objects, bull, crashes, purged, late>>

Upload(o) ==
  /\ o \in Late \ (objects \cup purged) /\ school # "DELETED"
  /\ objects' = objects \cup {o} /\ late' = late \cup {o}
  /\ UNCHANGED <<school, request, handler, hold, holds, bull, worker, crashes, purged>>

-----------------------------------------------------------------------------
Handle(h) ==
  \/ CheckRequestHold(h) \/ FindExisting(h) \/ ScheduleSchool(h) \/ CreateRequest(h)
  \/ CheckApprovalHold(h) \/ WriteApproval(h) \/ WriteQueued(h) \/ EnqueueDeletion(h)

ExecuteQueued(w) ==
  \/ ReadRequest(w) \/ MarkExecuting(w) \/ CheckHold(w) \/ ListObjects(w) \/ WriteSummary(w)
  \/ DeleteObject(w) \/ AllDeleted(w) \/ VerifyEmpty(w) \/ DeleteSchool(w) \/ Complete(w)
  \/ WriteFailed(w) \/ Report(w)

Next ==
  \/ \E h \in Handler :
       \/ Handle(h) \/ ApiCrash(h)
       \/ \E a \in Actor : \/ RequestDeletion(h, a)
                           \/ \E r \in Request : ReadForApproval(h, a, r) \/ ReadForExecution(h, a, r)
  \/ \E w \in Worker : ExecuteQueued(w) \/ OperationFails(w) \/ Crash(w)
                       \/ \E r \in Request : Fetch(w, r)
  \/ \E r \in Request : Stall(r)
  \/ ChangeHold
  \/ \E o \in Object : Upload(o)

Spec == Init /\ [][Next]_vars

(* Live handlers and workers keep going and BullMQ keeps delivering; the   *)
(* administrators and the faults are not assumed to do anything.           *)
Fairness ==
  /\ \A h \in Handler : WF_vars(Handle(h))
  /\ \A w \in Worker : WF_vars(ExecuteQueued(w))
  /\ \A r \in Request : /\ WF_vars(\E w \in Worker : Fetch(w, r))
                        /\ WF_vars(Stall(r) /\ bull[r].owner = Nobody)

FairSpec == Spec /\ Fairness
-----------------------------------------------------------------------------
(* Properties.                                                             *)

(* A request is reported COMPLETED only when the school's row is gone and  *)
(* so is every object but those uploaded after R2 was last found empty,    *)
(* whatever failed, stalled or was retried on the way.                     *)
CompletedMeansGone ==
  (\E r \in Request : request[r].status = "COMPLETED")
    => school = "DELETED" /\ objects \subseteq late

(* Nobody deletes a school alone: whoever asked for the deletion neither   *)
(* approved nor executed it.                                               *)
NotAlone ==
  school = "DELETED" =>
    \E r \in Request :
      /\ {request[r].requestedBy, request[r].approvedBy, request[r].executedBy} \subseteq Actor
      /\ request[r].requestedBy \notin {request[r].approvedBy, request[r].executedBy}

(* An attempt that has been under a legal hold since it was fetched does   *)
(* not get to deleting objects or the school.                              *)
HoldBlocksAttempt ==
  \A w \in Worker :
    worker[w].held => worker[w].pc \notin {"delete", "verify", "school", "complete"}

(* Nothing of a school goes unless two people wanted it and in no attempt  *)
(* that began under a legal hold, and COMPLETED says that everything is    *)
(* gone, late uploads too.                                                 *)
DeletionIsLawful == NotAlone /\ HoldBlocksAttempt /\ CompletedMeansGone

(* docs/school-deletion-workflow.md: any active legal hold blocks          *)
(* execution, so no step deletes the school while one is active.           *)
HeldSchoolKept ==
  [][school # "DELETED" /\ school' = "DELETED" => ~hold]_vars

(* The three identities of a request that has been queued are different.   *)
IndependentActors ==
  \A r \in Request :
    request[r].status \in {"QUEUED", "EXECUTING", "COMPLETED"} =>
      Cardinality({request[r].requestedBy, request[r].approvedBy, request[r].executedBy}) = 3

(* A completed request stays completed.                                    *)
CompletedIsFinal ==
  [][\A r \in Request : request[r].status = "COMPLETED" => request'[r].status = "COMPLETED"]_vars

(* The object count of the report is the number of objects deleted.        *)
ReportedCountIsTrue ==
  \A r \in Request : request[r].status = "COMPLETED" => request[r].deleted = Cardinality(purged)

(* A deletion whose job is with BullMQ is completed or fails.              *)
DeletionSettles ==
  \A r \in Request :
    request[r].status \in {"QUEUED", "EXECUTING"} /\ bull[r].state # "absent"
      ~> request[r].status \in {"COMPLETED", "FAILED"}
=============================================================================
