--------------------------- MODULE RestoreApproval ---------------------------
(***************************************************************************)
(* One request to restore a school from one of its exports: created by the *)
(* school, verified by a worker, approved by one platform administrator,   *)
(* submitted by another and executed by a worker, which first exports what *)
(* it is about to replace.                                                 *)
(*                                                                         *)
(* Every await of BackupService is a step.  What the school holds is a set *)
(* of edits made since the source export was taken, so that restoring it   *)
(* leaves none of them.                                                    *)
(***************************************************************************)
EXTENDS JobDelivery, Sequences

CONSTANTS
  Actor,          \* school and platform administrators
  Handler,        \* API requests in flight at a time
  Edit,           \* changes the school's users make
  Stallable,      \* the kinds of job that may stall while a worker executes them
  Crashable,      \* the kinds of job during which a worker may crash
  ApiFaults,      \* may the API crash in the middle of a request?
  WorkerFaults,   \* may an operation of the worker fail?
  CrashAttempts,  \* the attempts during which a worker may crash
  MaxCrashes,     \* bound: worker crashes in a behaviour
  Nil             \* no actor, no safety export

Kinds == {"verify", "execute"}

VARIABLES
  request,    \* the BackupRestoreRequest row
  submitter,  \* the actor in the envelope of the execute job
  source,     \* is the source export AVAILABLE?
  content,    \* the edits in the school's data
  safety,     \* the edits in the export pre-restore:<id>, or Nil
  handler,    \* what each API request in flight is doing
  bull,       \* the BullMQ jobs
  worker,     \* what each worker slot is doing
  crashes,    \* worker crashes so far
  submitted,  \* history: content when the execution was submitted
  approvers,  \* history: who approved the request, the first time and after it
  restored    \* history: was the school's data replaced?

vars == <<request, submitter, source, content, safety, handler, bull, worker, crashes,
          submitted, approvers, restored>>
apiVars == <<request, submitter, handler, bull, submitted, approvers>>
dataVars == <<content, safety, restored>>

RequestRow == [status : {"NONE", "PENDING_VERIFICATION", "VERIFYING", "VERIFIED", "REJECTED",
                         "APPROVED", "EXECUTING", "COMPLETED", "FAILED"},
               requestedBy : Actor \cup {Nil}, approvedBy : Actor \cup {Nil}]

HandlerSlot == [pc : {"idle", "enqueueVerify", "approve", "submit", "enqueueExecute"},
                actor : Actor \cup {Nil}]

(* snap is what exportAll returned, began the content when the attempt was *)
(* fetched.                                                                *)
WorkerSlot == [pc : {"idle", "verify", "mark", "check", "verified", "reject", "execute", "source",
                     "snapshot", "safety", "restore", "fail", "report"},
               kind : Kinds, attempt : 0..Attempts,
               snap : SUBSET Edit, began : SUBSET Edit, ok : BOOLEAN]

IdleHandler == [pc |-> "idle", actor |-> Nil]
IdleWorker == [pc |-> "idle", kind |-> "verify", attempt |-> 0, snap |-> {}, began |-> {},
               ok |-> FALSE]

TypeOK ==
  /\ request \in RequestRow
  /\ submitter \in Actor \cup {Nil}
  /\ {source, restored} \subseteq BOOLEAN
  /\ content \subseteq Edit /\ submitted \subseteq Edit /\ approvers \in Seq(Actor)
  /\ safety \in (SUBSET Edit) \cup {Nil}
  /\ handler \in [Handler -> HandlerSlot]
  /\ bull \in [Kinds -> BullJob]
  /\ worker \in [Worker -> WorkerSlot]
  /\ crashes \in 0..MaxCrashes

Init ==
  /\ request = [status |-> "NONE", requestedBy |-> Nil, approvedBy |-> Nil]
  /\ submitter = Nil /\ source = TRUE
  /\ content = {} /\ submitted = {} /\ approvers = <<>> /\ safety = Nil /\ restored = FALSE
  /\ handler = [h \in Handler |-> IdleHandler]
  /\ bull = [k \in Kinds |-> NoBullJob]
  /\ worker = [w \in Worker |-> IdleWorker]
  /\ crashes = 0

-----------------------------------------------------------------------------
(* The API.                                                                *)

Begin(h, pc, a) == handler' = [handler EXCEPT ![h] = [pc |-> pc, actor |-> a]]
Finish(h) == handler' = [handler EXCEPT ![h] = IdleHandler]

(* The upsert keeps the row a repeated key finds; such a repetition adds   *)
(* the job again while the row is PENDING_VERIFICATION.                    *)
RequestRestore(h, a) ==
  /\ handler[h].pc = "idle" /\ source
  /\ request.status \in {"NONE", "PENDING_VERIFICATION"}
  /\ request' = IF request.status = "NONE"
                THEN [request EXCEPT !.status = "PENDING_VERIFICATION", !.requestedBy = a]
                ELSE request
  /\ Begin(h, "enqueueVerify", a)
  /\ UNCHANGED <<submitter, source, dataVars, bull, worker, crashes, submitted, approvers>>

EnqueueVerify(h) ==
  /\ handler[h].pc = "enqueueVerify"
  /\ bull' = [bull EXCEPT !["verify"] = Added(@)]
  /\ Finish(h)
  /\ UNCHANGED <<request, submitter, source, dataVars, worker, crashes, submitted, approvers>>

ReadForApproval(h, a) ==
  /\ handler[h].pc = "idle"
  /\ request.status = "VERIFIED" /\ request.requestedBy # a
  /\ Begin(h, "approve", a)
  /\ UNCHANGED <<request, submitter, source, dataVars, bull, worker, crashes, submitted, approvers>>

(* Compare-and-set on the status.                                          *)
Approve(h) ==
  /\ handler[h].pc = "approve"
  /\ IF request.status = "VERIFIED"
     THEN /\ request' = [request EXCEPT !.status = "APPROVED", !.approvedBy = handler[h].actor]
          /\ approvers' = Append(approvers, handler[h].actor)
     ELSE UNCHANGED <<request, approvers>>
  /\ Finish(h)
  /\ UNCHANGED <<submitter, source, dataVars, bull, worker, crashes, submitted>>

(* Faulty variant: the executor is compared with the requester only.       *)
ReadForExecutionByApprover(h, a) ==
  /\ handler[h].pc = "idle"
  /\ request.status = "APPROVED" /\ a # request.requestedBy
  /\ Begin(h, "submit", a)
  /\ UNCHANGED <<request, submitter, source, dataVars, bull, worker, crashes, submitted, approvers>>

ReadForExecution(h, a) ==
  /\ handler[h].pc = "idle"
  /\ request.status = "APPROVED" /\ a \notin {request.requestedBy, request.approvedBy}
  /\ Begin(h, "submit", a)
  /\ UNCHANGED <<request, submitter, source, dataVars, bull, worker, crashes, submitted, approvers>>

SubmitExecution(h) ==
  /\ handler[h].pc = "submit"
  /\ IF request.status = "APPROVED"
     THEN /\ request' = [request EXCEPT !.status = "EXECUTING"]
          /\ handler' = [handler EXCEPT ![h].pc = "enqueueExecute"]
          /\ submitted' = content
     ELSE Finish(h) /\ UNCHANGED <<request, submitted>>
  /\ UNCHANGED <<submitter, source, dataVars, bull, worker, crashes, approvers>>

(* A job that exists keeps its envelope.                                   *)
EnqueueExecute(h) ==
  /\ handler[h].pc = "enqueueExecute"
  /\ bull' = [bull EXCEPT !["execute"] = Added(@)]
  /\ submitter' = IF bull["execute"].state = "absent" THEN handler[h].actor ELSE submitter
  /\ Finish(h)
  /\ UNCHANGED <<request, source, dataVars, worker, crashes, submitted, approvers>>

ApiCrash(h) ==
  /\ ApiFaults /\ handler[h].pc # "idle"
  /\ Finish(h)
  /\ UNCHANGED <<request, submitter, source, dataVars, bull, worker, crashes, submitted, approvers>>

-----------------------------------------------------------------------------
(* The operations worker.                                                  *)

Goto(w, pc) == worker' = [worker EXCEPT ![w].pc = pc]
End(w, ok) == worker' = [worker EXCEPT ![w].pc = "report", ![w].ok = ok]
SetStatus(s) == request' = [request EXCEPT !.status = s]

Fetch(w, k) ==
  /\ worker[w].pc = "idle" /\ bull[k].state = "waiting"
  /\ bull' = [bull EXCEPT ![k] = Taken(@, w)]
  /\ worker' = [worker EXCEPT ![w] =
       [IdleWorker EXCEPT !.pc = k, !.kind = k, !.attempt = bull[k].made + 1, !.began = content]]
  /\ UNCHANGED <<request, submitter, source, dataVars, handler, crashes, submitted, approvers>>

(* verifyRestore *)
ReadForVerification(w) ==
  /\ worker[w].pc = "verify"
  /\ IF request.status \in {"VERIFIED", "APPROVED", "EXECUTING", "COMPLETED"}
     THEN End(w, TRUE) ELSE Goto(w, "mark")
  /\ UNCHANGED <<apiVars, source, dataVars, crashes>>

MarkVerifying(w) ==
  /\ worker[w].pc = "mark"
  /\ SetStatus("VERIFYING") /\ Goto(w, "check")
  /\ UNCHANGED <<submitter, source, dataVars, handler, bull, crashes, submitted, approvers>>

(* The source is looked up, downloaded and verified.                       *)
CheckSnapshot(w) ==
  /\ worker[w].pc = "check"
  /\ Goto(w, IF source THEN "verified" ELSE "reject")
  /\ UNCHANGED <<apiVars, source, dataVars, crashes>>

WriteVerified(w) ==
  /\ worker[w].pc = "verified"
  /\ SetStatus("VERIFIED") /\ End(w, TRUE)
  /\ UNCHANGED <<submitter, source, dataVars, handler, bull, crashes, submitted, approvers>>

WriteRejected(w) ==
  /\ worker[w].pc = "reject"
  /\ SetStatus("REJECTED") /\ End(w, FALSE)
  /\ UNCHANGED <<submitter, source, dataVars, handler, bull, crashes, submitted, approvers>>

(* Faulty variant: a completed request is executed again.                  *)
ReadForRestoreAgain(w) ==
  /\ worker[w].pc = "execute"
  /\ IF request.status \in {"EXECUTING", "COMPLETED"} THEN Goto(w, "source") ELSE End(w, FALSE)
  /\ UNCHANGED <<apiVars, source, dataVars, crashes>>

(* executeRestore *)
ReadForRestore(w) ==
  /\ worker[w].pc = "execute"
  /\ CASE request.status = "COMPLETED" -> End(w, TRUE)
       [] request.status = "EXECUTING" -> Goto(w, "source")
       [] OTHER                        -> End(w, FALSE)
  /\ UNCHANGED <<apiVars, source, dataVars, crashes>>

CheckSource(w) ==
  /\ worker[w].pc = "source"
  /\ Goto(w, IF source THEN "snapshot" ELSE "fail")
  /\ UNCHANGED <<apiVars, source, dataVars, crashes>>

ExportSafety(w) ==
  /\ worker[w].pc = "snapshot"
  /\ worker' = [worker EXCEPT ![w].pc = "safety", ![w].snap = content]
  /\ UNCHANGED <<apiVars, source, dataVars, crashes>>

(* Faulty variant: the export is not recorded.                             *)
ForgetSafety(w) ==
  /\ worker[w].pc = "safety"
  /\ Goto(w, "restore")
  /\ UNCHANGED <<apiVars, source, content, safety, restored, crashes>>

(* The upsert keeps the record of an earlier attempt.                      *)
RecordSafety(w) ==
  /\ worker[w].pc = "safety"
  /\ safety' = IF safety = Nil THEN worker[w].snap ELSE safety
  /\ Goto(w, "restore")
  /\ UNCHANGED <<apiVars, source, content, restored, crashes>>

(* Faulty variant: the status is written after the transaction, so that an *)
(* attempt may fail in between.                                            *)
RestoreOnly(w) ==
  /\ worker[w].pc = "restore"
  /\ content' = {} /\ restored' = TRUE
  /\ \/ SetStatus("COMPLETED") /\ End(w, TRUE)
     \/ Goto(w, "fail") /\ UNCHANGED request
  /\ UNCHANGED <<submitter, source, safety, handler, bull, crashes, submitted, approvers>>

(* The transaction: the source replaces the content, the row COMPLETED.    *)
Restore(w) ==
  /\ worker[w].pc = "restore"
  /\ content' = {} /\ restored' = TRUE
  /\ SetStatus("COMPLETED") /\ End(w, TRUE)
  /\ UNCHANGED <<submitter, source, safety, handler, bull, crashes, submitted, approvers>>

OperationFails(w) ==
  /\ WorkerFaults
  /\ \/ worker[w].pc \in {"check", "verified"} /\ Goto(w, "reject")
     \/ worker[w].pc \in {"source", "snapshot", "safety", "restore"} /\ Goto(w, "fail")
  /\ UNCHANGED <<apiVars, source, dataVars, crashes>>

(* Faulty variant: the failure is left to the next attempt to record.      *)
LeaveExecuting(w) ==
  /\ worker[w].pc = "fail"
  /\ End(w, FALSE)
  /\ UNCHANGED <<apiVars, source, dataVars, crashes>>

(* Compare-and-set on EXECUTING.                                           *)
WriteFailed(w) ==
  /\ worker[w].pc = "fail"
  /\ IF request.status = "EXECUTING" THEN SetStatus("FAILED") ELSE UNCHANGED request
  /\ End(w, FALSE)
  /\ UNCHANGED <<submitter, source, dataVars, handler, bull, crashes, submitted, approvers>>

Report(w) ==
  /\ worker[w].pc = "report"
  /\ bull' = [bull EXCEPT ![worker[w].kind] = Reported(@, w, worker[w].ok)]
  /\ worker' = [worker EXCEPT ![w] = IdleWorker]
  /\ UNCHANGED <<request, submitter, source, dataVars, handler, crashes, submitted, approvers>>

Crash(w) ==
  /\ worker[w].pc # "idle"
  /\ worker[w].kind \in Crashable /\ worker[w].attempt \in CrashAttempts
  /\ crashes < MaxCrashes /\ crashes' = crashes + 1
  /\ worker' = [worker EXCEPT ![w] = IdleWorker]
  /\ bull' = [k \in Kinds |-> IF bull[k].owner = w THEN Abandoned(bull[k]) ELSE bull[k]]
  /\ UNCHANGED <<request, submitter, source, dataVars, handler, submitted, approvers>>

Stall(k) ==
  /\ bull[k].state = "active"
  /\ bull[k].owner = Nobody \/ k \in Stallable
  /\ bull' = [bull EXCEPT ![k] = AfterStall(@)]
  /\ UNCHANGED <<request, submitter, source, dataVars, handler, worker, crashes, submitted, approvers>>

-----------------------------------------------------------------------------
(* The rest of the platform: the school's users and the retention of the   *)
(* source, seven days after it was taken.                                  *)

ChangeContent(e) ==
  /\ e \notin content
  /\ content' = content \cup {e}
  /\ UNCHANGED <<apiVars, source, safety, restored, worker, crashes>>

SourceExpires ==
  /\ source /\ source' = FALSE
  /\ UNCHANGED <<apiVars, dataVars, worker, crashes>>

-----------------------------------------------------------------------------
Handle(h) == EnqueueVerify(h) \/ Approve(h) \/ SubmitExecution(h) \/ EnqueueExecute(h)

Execute(w) ==
  \/ ReadForVerification(w) \/ MarkVerifying(w) \/ CheckSnapshot(w) \/ WriteVerified(w)
  \/ WriteRejected(w) \/ ReadForRestore(w) \/ CheckSource(w) \/ ExportSafety(w)
  \/ RecordSafety(w) \/ Restore(w) \/ WriteFailed(w) \/ Report(w)

Next ==
  \/ \E h \in Handler :
       \/ Handle(h) \/ ApiCrash(h)
       \/ \E a \in Actor : RequestRestore(h, a) \/ ReadForApproval(h, a) \/ ReadForExecution(h, a)
  \/ \E w \in Worker : \/ Execute(w) \/ OperationFails(w) \/ Crash(w)
                       \/ \E k \in Kinds : Fetch(w, k)
  \/ \E k \in Kinds : Stall(k)
  \/ \E e \in Edit : ChangeContent(e)
  \/ SourceExpires

Spec == Init /\ [][Next]_vars

(* Handlers and workers that live keep going and BullMQ keeps delivering.  *)
Fairness ==
  /\ \A h \in Handler : WF_vars(Handle(h))
  /\ \A w \in Worker : WF_vars(Execute(w))
  /\ \A k \in Kinds : /\ WF_vars(\E w \in Worker : Fetch(w, k))
                      /\ WF_vars(Stall(k) /\ bull[k].owner = Nobody)

FairSpec == Spec /\ Fairness
-----------------------------------------------------------------------------
(* Properties.                                                             *)

(* A verification that fails half way is repeated, and may come after the  *)
(* restore has failed: the request is then verified and approved again.    *)
ApprovedOnce == Len(approvers) <= 1

(* A restore that replaced the school's data was asked for, approved and   *)
(* submitted by different people: the requester neither approved nor       *)
(* submitted it, and neither did the approver, unless it was approved      *)
(* again.                                                                  *)
ThreePeople ==
  restored => /\ {request.requestedBy, request.approvedBy, submitter} \subseteq Actor
              /\ \A i \in DOMAIN approvers : request.requestedBy # approvers[i]
              /\ submitter # request.requestedBy
              /\ ApprovedOnce => submitter # request.approvedBy

(* docs/restore-approval-workflow.md:17: "Execution requires a third       *)
(* platform administrator who is neither requester nor approver".          *)
ExecutorIsThird == restored => submitter \notin {request.requestedBy, request.approvedBy}

(* What the school held when its restore was submitted can be restored     *)
(* from the safety export once the restore has replaced it ...             *)
SubmissionIsSafe == restored /\ ApprovedOnce => safety # Nil /\ submitted \subseteq safety

(* ... and a request that ended FAILED left the school's data alone.       *)
FailedLeavesContent == request.status = "FAILED" /\ ApprovedOnce => ~restored

(* The same page: the worker "writes an immutable 30-day pre-restore safety *)
(* export before opening a transaction", however often it was approved.    *)
EverySubmissionIsSafe == restored => safety # Nil /\ submitted \subseteq safety

(* A completed restore does not replace what the school does next.         *)
RestoredOnce ==
  [][request.status = "COMPLETED" => content \subseteq content']_vars

(* The data replaced by an attempt is in the safety export at least as it  *)
(* was when the attempt began.                                             *)
SafetyIsPreRestore ==
  [][\A w \in Worker : worker[w].pc = "restore" /\ worker'[w].pc = "report"
       => worker[w].began \subseteq safety]_vars

(* An approved request does not go back to its verification.               *)
ApprovalStands ==
  [][request.status \in {"APPROVED", "EXECUTING", "COMPLETED"}
       => request'.status \in {"APPROVED", "EXECUTING", "COMPLETED", "FAILED"}]_vars

(* A restore that was submitted completes or fails, once its job is with   *)
(* BullMQ.                                                                 *)
RestoreSettles ==
  request.status = "EXECUTING" /\ bull["execute"].state # "absent"
    ~> request.status \in {"COMPLETED", "FAILED"}
=============================================================================
