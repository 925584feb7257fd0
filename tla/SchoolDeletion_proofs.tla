------------------------ MODULE SchoolDeletion_proofs ------------------------
(***************************************************************************)
(* Proofs about SchoolDeletion and RestoreApproval, for any number of      *)
(* requests, administrators, API requests, workers and objects, and any    *)
(* retry policy: whatever fails, crashes, stalls or is retried, a school   *)
(* is deleted on the word of two people, by no attempt that began under a  *)
(* legal hold, and entirely; a restore takes three people, exports first   *)
(* what it replaces, and replaces it once.  The modules are those that     *)
(* MCPeople instantiates, with any values of its constants.                *)
(***************************************************************************)
EXTENDS MCPeople, Sequences, FiniteSetTheorems, TLAPS

(* The shape of the state, as far as the argument needs it: counters are   *)
(* natural numbers, without the bounds of TypeOK.                          *)
RowShape == [status : Open \cup {"NONE", "COMPLETED", "FAILED"},
             requestedBy : Actor \cup {Nil}, approvedBy : Actor \cup {Nil},
             executedBy : Actor \cup {Nil}, deleted : Nat]

JobShape == [state : {"absent", "waiting", "active", "completed", "failed"},
             made : Nat, stalled : Nat, owner : Worker \cup {Nobody}]

SlotShape == [pc : {"idle", "read", "mark", "hold", "list", "summary", "delete", "verify",
                    "school", "complete", "failed", "report"},
              req : Request \cup {Nil}, attempt : Nat, prior : Nat,
              keys : SUBSET Object, held : BOOLEAN, ok : BOOLEAN]

Shape ==
  /\ request \in [Request -> RowShape]
  /\ handler \in [Handler -> HandlerSlot]
  /\ bull \in [Request -> JobShape]
  /\ worker \in [Worker -> SlotShape]
  /\ objects \subseteq Object /\ hold \in BOOLEAN

(* Who asked for a deletion is on the row from its creation, and neither   *)
(* of the others is the same person.                                       *)
RowIsSigned(row) ==
  /\ row.status = "NONE" => row.approvedBy = Nil /\ row.executedBy = Nil
  /\ row.status # "NONE" => row.requestedBy \in Actor
  /\ row.status = "APPROVED" => row.approvedBy \in Actor
  /\ row.requestedBy \in Actor => row.requestedBy \notin {row.approvedBy, row.executedBy}

(* A job exists only after somebody approved and somebody executed.        *)
JobIsBacked(row) ==
  row.status # "NONE" /\ row.approvedBy \in Actor /\ row.executedBy \in Actor

RequestInv ==
  \A r \in Request : /\ RowIsSigned(request[r])
                     /\ bull[r].state # "absent" => JobIsBacked(request[r])

(* What an API handler read stays true while it waits to write.            *)
SlotIsRight(slot) ==
  /\ slot.pc # "idle" => slot.actor \in Actor
  /\ slot.pc \in {"approveHold", "approve", "queue", "enqueue"} =>
       /\ slot.req \in Request
       /\ request[slot.req].status # "NONE"
       /\ slot.actor # request[slot.req].requestedBy
  /\ slot.pc \in {"queue", "enqueue"} => request[slot.req].approvedBy \in Actor
  /\ slot.pc = "enqueue" => request[slot.req].executedBy \in Actor

HandlerInv == \A h \in Handler : SlotIsRight(handler[h])

(* A busy worker has a job; one that is past the verification knows that   *)
(* only late uploads are left; one under a hold since it began has not     *)
(* got beyond the check.                                                   *)
BusyIsRight(slot) ==
  /\ slot.pc # "idle" => slot.req \in Request /\ bull[slot.req].state # "absent"
  /\ slot.pc \in {"school", "complete"} => objects \subseteq late
  /\ slot.pc = "complete" => school = "DELETED"
  /\ slot.held => hold /\ slot.pc \in {"read", "mark", "hold", "failed", "report"}

WorkerInv == \A w \in Worker : BusyIsRight(worker[w])

SchoolInv ==
  /\ school = "DELETED" => \E r \in Request : bull[r].state # "absent"
  /\ CompletedMeansGone

IInv == Shape /\ RequestInv /\ HandlerInv /\ WorkerInv /\ SchoolInv

USE DeletionAssumption, DeliveryAssumption

(* The invariant implies what the run checks.                              *)
LEMMA IInvIsLawful == IInv => DeletionIsLawful
<1> SUFFICES ASSUME IInv PROVE DeletionIsLawful
  OBVIOUS
<1>1. NotAlone
  BY DEF IInv, SchoolInv, RequestInv, RowIsSigned, JobIsBacked, NotAlone
<1>2. HoldBlocksAttempt
  BY DEF IInv, WorkerInv, BusyIsRight, HoldBlocksAttempt
<1>3. QED
  BY <1>1, <1>2 DEF IInv, SchoolInv, DeletionIsLawful

LEMMA InitIInv == Init => IInv
<1> SUFFICES ASSUME Init PROVE IInv
  OBVIOUS
<1>1. Shape
  BY DEF Init, Shape, RowShape, JobShape, SlotShape, HandlerSlot, Open, IdleHandler, IdleWorker,
         NoBullJob
<1>2. RequestInv /\ HandlerInv /\ WorkerInv
  BY DEF Init, RequestInv, RowIsSigned, HandlerInv, SlotIsRight, WorkerInv, BusyIsRight,
         NoBullJob, IdleHandler, IdleWorker
<1>3. SchoolInv
  BY DEF Init, SchoolInv, CompletedMeansGone
<1>4. QED
  BY <1>1, <1>2, <1>3 DEF IInv

-----------------------------------------------------------------------------
(* The parts of a step.                                                    *)

(* An API handler moves on, or is done or gone; nothing else changes.      *)
LEMMA HandlerMoves ==
  ASSUME NEW h \in Handler, NEW slot \in HandlerSlot, IInv,
         handler' = [handler EXCEPT ![h] = slot], SlotIsRight(slot),
         UNCHANGED request
  PROVE  handler' \in [Handler -> HandlerSlot] /\ HandlerInv'
<1>1. handler' \in [Handler -> HandlerSlot]
  BY DEF IInv, Shape
<1>2. ASSUME NEW g \in Handler PROVE SlotIsRight(handler[g])'
  <2>1. handler'[g] \in {slot, handler[g]}
    BY DEF IInv, Shape
  <2>2. SlotIsRight(handler[g])
    BY DEF IInv, HandlerInv
  <2>3. QED
    BY <2>1, <2>2 DEF SlotIsRight
<1>3. QED
  BY <1>1, <1>2 DEF HandlerInv

(* A worker moves on with its job.                                         *)
LEMMA WorkerMoves ==
  ASSUME NEW w \in Worker, NEW slot \in SlotShape, IInv,
         worker' = [worker EXCEPT ![w] = slot], BusyIsRight(slot),
         UNCHANGED <<bull, objects, late, school, hold>>
  PROVE  worker' \in [Worker -> SlotShape] /\ WorkerInv'
<1>1. worker' \in [Worker -> SlotShape]
  BY DEF IInv, Shape
<1>2. ASSUME NEW v \in Worker PROVE BusyIsRight(worker[v])'
  <2>1. worker'[v] \in {slot, worker[v]}
    BY DEF IInv, Shape
  <2>2. BusyIsRight(worker[v])
    BY DEF IInv, WorkerInv
  <2>3. QED
    BY <2>1, <2>2 DEF BusyIsRight
<1>3. QED
  BY <1>1, <1>2 DEF WorkerInv

(* A worker, or the API, writes a row that exists already, and neither     *)
(* who asked for the deletion nor what was signed changes or goes.         *)
LEMMA RowWritten ==
  ASSUME NEW r \in Request, NEW row \in RowShape, IInv,
         request' = [request EXCEPT ![r] = row],
         RowIsSigned(row), row.status # "NONE",
         row.requestedBy = request[r].requestedBy,
         request[r].approvedBy \in Actor => row.approvedBy \in Actor,
         request[r].executedBy \in Actor => row.executedBy \in Actor,
         UNCHANGED bull
  PROVE  /\ request' \in [Request -> RowShape] /\ RequestInv'
         /\ \A slot \in HandlerSlot : SlotIsRight(slot) => SlotIsRight(slot)'
<1>1. request' \in [Request -> RowShape]
  BY DEF IInv, Shape
<1>2. ASSUME NEW q \in Request
      PROVE  RowIsSigned(request[q])' /\ (bull[q].state # "absent" => JobIsBacked(request[q]))'
  BY DEF IInv, Shape, RequestInv, RowIsSigned, JobIsBacked
<1>3. ASSUME NEW slot \in HandlerSlot, SlotIsRight(slot) PROVE SlotIsRight(slot)'
  <2>1. CASE slot.req = r
    <3>1. request'[slot.req] = row
      BY <2>1 DEF IInv, Shape
    <3>2. QED
      BY <1>3, <2>1, <3>1 DEF SlotIsRight
  <2>2. CASE slot.req # r
    <3>1. slot.req \in Request => request'[slot.req] = request[slot.req]
      BY <2>2 DEF IInv, Shape
    <3>2. QED
      BY <1>3, <3>1 DEF SlotIsRight
  <2>3. QED
    BY <2>1, <2>2
<1>4. QED
  BY <1>1, <1>2, <1>3 DEF RequestInv

(* Goto and End keep what the worker has read.                             *)
LEMMA GoesOn ==
  ASSUME NEW w \in Worker, IInv, worker[w].pc # "idle",
         NEW pc \in {"mark", "hold", "list", "verify", "school", "complete", "failed", "delete",
                     "report"},
         NEW ok \in BOOLEAN, Goto(w, pc) \/ (pc = "report" /\ End(w, ok))
  PROVE  \E slot \in SlotShape :
           /\ worker' = [worker EXCEPT ![w] = slot]
           /\ slot.pc = pc /\ slot.req = worker[w].req /\ slot.held = worker[w].held
<1> DEFINE was == worker[w]
           gone == [was EXCEPT !.pc = pc]
           ended == [was EXCEPT !.pc = "report", !.ok = ok]
<1>1. was \in SlotShape
  BY DEF IInv, Shape
<1>2. \/ worker' = [worker EXCEPT ![w] = gone]
      \/ pc = "report" /\ worker' = [worker EXCEPT ![w] = ended]
  BY DEF Goto, End
<1>3. gone \in SlotShape /\ gone.pc = pc /\ gone.req = was.req /\ gone.held = was.held
  BY <1>1 DEF SlotShape
<1>4. ended \in SlotShape /\ ended.pc = "report" /\ ended.req = was.req /\ ended.held = was.held
  BY <1>1 DEF SlotShape
<1> HIDE DEF gone, ended
<1>5. QED
  BY <1>2, <1>3, <1>4 DEF was

(* A report leaves the job of a request with BullMQ.                       *)
LEMMA ReportMoves ==
  ASSUME NEW b \in JobShape, NEW w \in Worker, NEW ok \in BOOLEAN, b.state # "absent"
  PROVE  Reported(b, w, ok) \in JobShape /\ Reported(b, w, ok).state # "absent"
<1>1. b.made + 1 \in Nat
  BY DEF JobShape
<1>2. Done(b) \in JobShape /\ Done(b).state # "absent"
  BY DEF JobShape, Done
<1>3. AfterFailure(b) \in JobShape /\ AfterFailure(b).state # "absent"
  BY <1>1 DEF JobShape, AfterFailure
<1>4. Reported(b, w, ok) \in {b, Done(b), AfterFailure(b)}
  BY DEF Reported
<1>5. QED
  BY <1>2, <1>3, <1>4

(* Jobs of requests that had one move, so nothing but Shape is disturbed.  *)
LEMMA JobsMove ==
  ASSUME IInv, bull' \in [Request -> JobShape],
         \A r \in Request : bull'[r].state # "absent" <=> bull[r].state # "absent",
         UNCHANGED <<request, school, objects, late, hold>>
  PROVE  /\ RequestInv' /\ SchoolInv'
         /\ \A slot \in SlotShape : BusyIsRight(slot) => BusyIsRight(slot)'
<1>1. RequestInv'
  BY DEF IInv, RequestInv, RowIsSigned, JobIsBacked
<1>2. SchoolInv'
  BY DEF IInv, SchoolInv, CompletedMeansGone
<1>3. ASSUME NEW slot \in SlotShape, BusyIsRight(slot) PROVE BusyIsRight(slot)'
  BY <1>3 DEF BusyIsRight
<1>4. QED
  BY <1>1, <1>2, <1>3

-----------------------------------------------------------------------------
(* The steps of the API.                                                   *)

(* Every step of a handler that writes nothing but its own slot.           *)
LEMMA HandlerOnly ==
  ASSUME NEW h \in Handler, NEW slot \in HandlerSlot, IInv,
         handler' = [handler EXCEPT ![h] = slot], SlotIsRight(slot),
         UNCHANGED <<school, request, hold, holds, objects, bull, worker, crashes, purged, late>>
  PROVE  IInv'
<1>1. handler' \in [Handler -> HandlerSlot] /\ HandlerInv'
  BY HandlerMoves
<1>2. QED
  BY <1>1 DEF IInv, Shape, RequestInv, RowIsSigned, JobIsBacked, WorkerInv, BusyIsRight,
              SchoolInv, CompletedMeansGone

LEMMA Idles == IdleHandler \in HandlerSlot /\ SlotIsRight(IdleHandler)
BY DEF IdleHandler, HandlerSlot, SlotIsRight

(* A handler keeps its actor and its request from one step to the next.    *)
LEMMA StepOK ==
  ASSUME NEW h \in Handler, IInv,
         NEW pc \in {"existing", "schedule", "create", "approve", "enqueue"},
         pc = "approve" => handler[h].pc = "approveHold",
         pc = "enqueue" => handler[h].pc = "queue",
         handler[h].pc # "idle"
  PROVE  LET slot == [handler[h] EXCEPT !.pc = pc]
         IN /\ slot \in HandlerSlot
            /\ slot.pc = pc /\ slot.actor = handler[h].actor /\ slot.req = handler[h].req
            /\ pc # "enqueue" => SlotIsRight(slot)
<1> DEFINE was == handler[h]
           slot == [was EXCEPT !.pc = pc]
<1>1. was \in HandlerSlot /\ SlotIsRight(was)
  BY DEF IInv, Shape, HandlerInv
<1>2. slot \in HandlerSlot /\ slot.pc = pc /\ slot.actor = was.actor /\ slot.req = was.req
  BY <1>1 DEF HandlerSlot
<1> HIDE DEF slot
<1>3. pc # "enqueue" => SlotIsRight(slot)
  BY <1>1, <1>2 DEF SlotIsRight
<1> USE DEF slot
<1>4. QED
  BY <1>2, <1>3

LEMMA FinishOK ==
  ASSUME NEW h \in Handler, IInv, Finish(h),
         UNCHANGED <<school, request, hold, holds, objects, bull, worker, crashes, purged, late>>
  PROVE  IInv'
BY HandlerOnly, Idles DEF Finish

LEMMA ApiIInv ==
  ASSUME NEW h \in Handler, IInv,
         \/ Handle(h) \/ ApiCrash(h)
         \/ \E a \in Actor : \/ RequestDeletion(h, a)
                             \/ \E r \in Request : ReadForApproval(h, a, r) \/ ReadForExecution(h, a, r)
  PROVE  IInv'
<1> DEFINE was == handler[h]
           other == <<school, request, hold, holds, objects, bull, worker, crashes, purged, late>>
           at(pc) == [was EXCEPT !.pc = pc]
<1>0. was \in HandlerSlot /\ SlotIsRight(was)
  BY DEF IInv, Shape, HandlerInv
<1>1. CASE CheckRequestHold(h)
  <2>1. at("existing") \in HandlerSlot /\ SlotIsRight(at("existing"))
    BY <1>1, StepOK DEF CheckRequestHold
  <2>2. UNCHANGED other /\ (Finish(h) \/ handler' = [handler EXCEPT ![h] = at("existing")])
    BY <1>1 DEF CheckRequestHold, Step
  <2> HIDE DEF at
  <2>3. QED
    BY <2>1, <2>2, FinishOK, HandlerOnly
<1>2. CASE FindExisting(h)
  <2>1. at("schedule") \in HandlerSlot /\ SlotIsRight(at("schedule"))
    BY <1>2, StepOK DEF FindExisting
  <2>2. UNCHANGED other /\ (Finish(h) \/ handler' = [handler EXCEPT ![h] = at("schedule")])
    BY <1>2 DEF FindExisting, Step
  <2> HIDE DEF at
  <2>3. QED
    BY <2>1, <2>2, FinishOK, HandlerOnly
<1>3. CASE ScheduleSchool(h)
  <2>1. at("create") \in HandlerSlot /\ SlotIsRight(at("create"))
    BY <1>3, StepOK DEF ScheduleSchool
  <2>2. UNCHANGED <<request, hold, holds, objects, bull, worker, crashes, purged, late>>
    BY <1>3 DEF ScheduleSchool
  <2>3. CASE school = "DELETED"
    BY <1>3, <2>2, <2>3, FinishOK DEF ScheduleSchool
  <2>4. CASE school # "DELETED"
    <3>1. handler' = [handler EXCEPT ![h] = at("create")] /\ school' = "DELETION_SCHEDULED"
      BY <1>3, <2>4 DEF ScheduleSchool, Step
    <3> HIDE DEF at
    <3>2. handler' \in [Handler -> HandlerSlot] /\ HandlerInv'
      BY <2>1, <2>2, <3>1, HandlerMoves
    <3>3. Shape' /\ RequestInv'
      BY <2>2, <3>2 DEF IInv, Shape, RequestInv, RowIsSigned, JobIsBacked
    <3>4. WorkerInv' /\ SchoolInv'
      BY <2>2, <2>4, <3>1 DEF IInv, WorkerInv, BusyIsRight, SchoolInv, CompletedMeansGone
    <3>5. QED
      BY <3>2, <3>3, <3>4 DEF IInv
  <2>5. QED
    BY <2>3, <2>4
<1>4. CASE CreateRequest(h)
  <2>1. PICK r \in Request :
          /\ request[r].status = "NONE"
          /\ request' = [request EXCEPT ![r].status = "PENDING_APPROVAL",
                                        ![r].requestedBy = handler[h].actor]
    BY <1>4 DEF CreateRequest
  <2> DEFINE row == [request[r] EXCEPT !.status = "PENDING_APPROVAL", !.requestedBy = was.actor]
  <2>2. Finish(h) /\ UNCHANGED <<school, hold, holds, objects, bull, worker, crashes, purged, late>>
        /\ was.pc = "create"
    BY <1>4 DEF CreateRequest
  <2>3. request[r] \in RowShape /\ RowIsSigned(request[r]) /\ bull[r].state = "absent"
    BY <2>1 DEF IInv, Shape, RequestInv, JobIsBacked
  <2>4. was.actor \in Actor
    BY <1>0, <2>2 DEF SlotIsRight
  <2>5. /\ row \in RowShape /\ row.status = "PENDING_APPROVAL" /\ row.requestedBy = was.actor
        /\ row.approvedBy = request[r].approvedBy /\ row.executedBy = request[r].executedBy
    BY <2>3, <2>4 DEF RowShape, Open
  <2>6. request' = [request EXCEPT ![r] = row]
    BY <2>1
  <2> HIDE DEF row
  <2>7. RowIsSigned(row)
    BY <2>1, <2>3, <2>4, <2>5 DEF RowIsSigned
  <2>8. request' \in [Request -> RowShape] /\ RequestInv'
    BY <2>2, <2>3, <2>5, <2>6, <2>7 DEF IInv, Shape, RequestInv, RowIsSigned, JobIsBacked
  <2>9. \A slot \in HandlerSlot : SlotIsRight(slot) => SlotIsRight(slot)'
    <3>1. ASSUME NEW slot \in HandlerSlot, SlotIsRight(slot) PROVE SlotIsRight(slot)'
      <4>1. slot.req \in Request => request'[slot.req] = IF slot.req = r THEN row ELSE request[slot.req]
        BY <2>6 DEF IInv, Shape
      <4>2. QED
        BY <2>1, <3>1, <4>1 DEF SlotIsRight
    <3>2. QED
      BY <3>1
  <2>10. handler' \in [Handler -> HandlerSlot] /\ HandlerInv'
    <3>1. \A g \in Handler : handler'[g] \in {IdleHandler, handler[g]}
      BY <2>2 DEF Finish, IInv, Shape
    <3>2. IdleHandler \in HandlerSlot /\ SlotIsRight(IdleHandler)
      BY Idles
    <3>3. handler' \in [Handler -> HandlerSlot]
      BY <2>2, <3>2 DEF Finish, IInv, Shape
    <3>4. QED
      BY <2>9, <3>1, <3>2, <3>3 DEF IInv, Shape, HandlerInv
  <2>11. WorkerInv' /\ SchoolInv'
    BY <2>2, <2>5, <2>6 DEF IInv, Shape, WorkerInv, BusyIsRight, SchoolInv, CompletedMeansGone
  <2>12. QED
    BY <2>2, <2>8, <2>10, <2>11 DEF IInv, Shape
<1>5. CASE \E a \in Actor : RequestDeletion(h, a)
  <2>1. PICK a \in Actor : RequestDeletion(h, a)
    BY <1>5
  <2> DEFINE slot == [pc |-> "hold", actor |-> a, req |-> Nil]
  <2>2. slot \in HandlerSlot /\ SlotIsRight(slot)
    BY DEF HandlerSlot, SlotIsRight
  <2>3. UNCHANGED other /\ handler' = [handler EXCEPT ![h] = slot]
    BY <2>1 DEF RequestDeletion, Begin
  <2>4. QED
    BY <2>2, <2>3, HandlerOnly
<1>6. CASE \E a \in Actor, r \in Request : ReadForApproval(h, a, r)
  <2>1. PICK a \in Actor, r \in Request : ReadForApproval(h, a, r)
    BY <1>6
  <2> DEFINE slot == [pc |-> "approveHold", actor |-> a, req |-> r]
  <2>2. slot \in HandlerSlot /\ SlotIsRight(slot)
    BY <2>1 DEF ReadForApproval, HandlerSlot, SlotIsRight
  <2>3. UNCHANGED other /\ handler' = [handler EXCEPT ![h] = slot]
    BY <2>1 DEF ReadForApproval, Begin
  <2>4. QED
    BY <2>2, <2>3, HandlerOnly
<1>7. CASE CheckApprovalHold(h)
  <2>1. at("approve") \in HandlerSlot /\ SlotIsRight(at("approve"))
    BY <1>7, StepOK DEF CheckApprovalHold
  <2>2. UNCHANGED other /\ (Finish(h) \/ handler' = [handler EXCEPT ![h] = at("approve")])
    BY <1>7 DEF CheckApprovalHold, Step
  <2> HIDE DEF at
  <2>3. QED
    BY <2>1, <2>2, FinishOK, HandlerOnly
<1>8. CASE WriteApproval(h)
  <2> DEFINE r == was.req
             row == [request[r] EXCEPT !.status = "APPROVED", !.approvedBy = was.actor]
  <2>1. /\ r \in Request /\ was.actor \in Actor /\ was.actor # request[r].requestedBy
        /\ request[r].status # "NONE"
    BY <1>0, <1>8 DEF WriteApproval, SlotIsRight
  <2>2. request[r] \in RowShape /\ RowIsSigned(request[r])
    BY <2>1 DEF IInv, Shape, RequestInv
  <2>3. /\ row \in RowShape /\ row.status = "APPROVED" /\ row.approvedBy = was.actor
        /\ row.requestedBy = request[r].requestedBy /\ row.executedBy = request[r].executedBy
    BY <2>1, <2>2 DEF RowShape, Open
  <2>4. /\ request' = [request EXCEPT ![r] = row] /\ Finish(h)
        /\ UNCHANGED <<school, hold, holds, objects, bull, worker, crashes, purged, late>>
    BY <1>8 DEF WriteApproval
  <2> HIDE DEF row
  <2>5. RowIsSigned(row)
    BY <2>1, <2>2, <2>3 DEF RowIsSigned
  <2>6. /\ request' \in [Request -> RowShape] /\ RequestInv'
        /\ \A slot \in HandlerSlot : SlotIsRight(slot) => SlotIsRight(slot)'
    BY <2>1, <2>3, <2>4, <2>5, RowWritten
  <2>7. handler' \in [Handler -> HandlerSlot] /\ HandlerInv'
    <3>1. \A g \in Handler : handler'[g] \in {IdleHandler, handler[g]}
      BY <2>4 DEF Finish, IInv, Shape
    <3>2. QED
      BY <2>4, <2>6, <3>1, Idles DEF Finish, IInv, Shape, HandlerInv
  <2>8. WorkerInv' /\ SchoolInv'
    BY <2>1, <2>3, <2>4 DEF IInv, Shape, WorkerInv, BusyIsRight, SchoolInv, CompletedMeansGone
  <2>9. QED
    BY <2>4, <2>6, <2>7, <2>8 DEF IInv, Shape
<1>9. CASE \E a \in Actor, r \in Request : ReadForExecution(h, a, r)
  <2>1. PICK a \in Actor, r \in Request : ReadForExecution(h, a, r)
    BY <1>9
  <2> DEFINE slot == [pc |-> "queue", actor |-> a, req |-> r]
  <2>2. RowIsSigned(request[r]) /\ request[r].status = "APPROVED" /\ a # request[r].requestedBy
    BY <2>1 DEF ReadForExecution, IInv, RequestInv
  <2>3. slot \in HandlerSlot /\ SlotIsRight(slot)
    BY <2>2 DEF RowIsSigned, HandlerSlot, SlotIsRight
  <2>4. UNCHANGED other /\ handler' = [handler EXCEPT ![h] = slot]
    BY <2>1 DEF ReadForExecution, Begin
  <2>5. QED
    BY <2>3, <2>4, HandlerOnly
<1>10. CASE WriteQueued(h)
  <2> DEFINE r == was.req
             row == [request[r] EXCEPT !.status = "QUEUED", !.executedBy = was.actor]
  <2>1. /\ r \in Request /\ was.actor \in Actor /\ was.actor # request[r].requestedBy
        /\ request[r].status # "NONE" /\ request[r].approvedBy \in Actor /\ was.pc = "queue"
    BY <1>0, <1>10 DEF WriteQueued, SlotIsRight
  <2>2. request[r] \in RowShape /\ RowIsSigned(request[r])
    BY <2>1 DEF IInv, Shape, RequestInv
  <2>3. /\ row \in RowShape /\ row.status = "QUEUED" /\ row.executedBy = was.actor
        /\ row.requestedBy = request[r].requestedBy /\ row.approvedBy = request[r].approvedBy
    BY <2>1, <2>2 DEF RowShape, Open
  <2>4. /\ request' = [request EXCEPT ![r] = row] /\ handler' = [handler EXCEPT ![h] = at("enqueue")]
        /\ UNCHANGED <<school, hold, holds, objects, bull, worker, crashes, purged, late>>
    BY <1>10 DEF WriteQueued, Step
  <2>5. PICK slot \in HandlerSlot :
          /\ handler' = [handler EXCEPT ![h] = slot]
          /\ slot.pc = "enqueue" /\ slot.actor = was.actor /\ slot.req = r
    BY <2>1, <2>4, StepOK
  <2> HIDE DEF row, at
  <2>6. RowIsSigned(row)
    BY <2>1, <2>2, <2>3 DEF RowIsSigned
  <2>7. /\ request' \in [Request -> RowShape] /\ RequestInv'
        /\ \A any \in HandlerSlot : SlotIsRight(any) => SlotIsRight(any)'
    BY <2>1, <2>3, <2>4, <2>6, RowWritten
  <2>8. handler' \in [Handler -> HandlerSlot] /\ HandlerInv'
    <3>1. request'[r] = row
      BY <2>1, <2>4 DEF IInv, Shape
    <3>2. SlotIsRight(slot)'
      BY <2>1, <2>3, <2>5, <3>1 DEF SlotIsRight
    <3>3. handler' \in [Handler -> HandlerSlot]
      BY <2>5 DEF IInv, Shape
    <3>4. ASSUME NEW g \in Handler PROVE SlotIsRight(handler[g])'
      <4>1. CASE g = h
        <5>1. handler'[g] = slot
          BY <2>5, <4>1 DEF IInv, Shape
        <5>2. QED
          BY <3>2, <5>1 DEF SlotIsRight
      <4>2. CASE g # h
        <5>1. handler'[g] = handler[g] /\ handler[g] \in HandlerSlot /\ SlotIsRight(handler[g])
          BY <2>5, <4>2 DEF IInv, Shape, HandlerInv
        <5>2. QED
          BY <2>7, <5>1 DEF SlotIsRight
      <4>3. QED
        BY <4>1, <4>2
    <3>5. QED
      BY <3>3, <3>4 DEF HandlerInv
  <2>9. WorkerInv' /\ SchoolInv'
    BY <2>1, <2>3, <2>4 DEF IInv, Shape, WorkerInv, BusyIsRight, SchoolInv, CompletedMeansGone
  <2>10. QED
    BY <2>4, <2>7, <2>8, <2>9 DEF IInv, Shape
<1>11. CASE EnqueueDeletion(h)
  <2> DEFINE r == was.req
  <2>1. /\ r \in Request /\ request[r].status # "NONE" /\ request[r].approvedBy \in Actor
        /\ request[r].executedBy \in Actor
    BY <1>0, <1>11 DEF EnqueueDeletion, SlotIsRight
  <2>2. /\ bull' = [bull EXCEPT ![r] = Added(bull[r])] /\ Finish(h)
        /\ UNCHANGED <<school, request, hold, holds, objects, worker, crashes, purged, late>>
    BY <1>11 DEF EnqueueDeletion
  <2>3. Added(bull[r]) \in JobShape /\ Added(bull[r]).state # "absent"
    <3>1. bull[r] \in JobShape
      BY <2>1 DEF IInv, Shape
    <3>2. QED
      BY <3>1 DEF JobShape, Added
  <2>4. /\ bull' \in [Request -> JobShape]
        /\ \A q \in Request : bull[q].state # "absent" => bull'[q].state # "absent"
        /\ \A q \in Request : q # r => bull'[q] = bull[q]
    BY <2>1, <2>2, <2>3 DEF IInv, Shape
  <2>5. RequestInv'
    BY <2>1, <2>2, <2>4 DEF IInv, RequestInv, RowIsSigned, JobIsBacked
  <2>6. handler' \in [Handler -> HandlerSlot] /\ HandlerInv'
    BY <2>2, HandlerMoves, Idles DEF Finish
  <2>7. WorkerInv' /\ SchoolInv'
    BY <2>2, <2>4 DEF IInv, WorkerInv, BusyIsRight, SchoolInv, CompletedMeansGone
  <2>8. QED
    BY <2>2, <2>4, <2>5, <2>6, <2>7 DEF IInv, Shape
<1>12. CASE ApiCrash(h)
  BY <1>12, FinishOK DEF ApiCrash
<1>13. QED
  BY <1>1, <1>2, <1>3, <1>4, <1>5, <1>6, <1>7, <1>8, <1>9, <1>10, <1>11, <1>12 DEF Handle

-----------------------------------------------------------------------------
(* The steps of the worker.                                                *)

(* A worker moves on and writes nothing but its own slot.                  *)
LEMMA WorkerOnly ==
  ASSUME NEW w \in Worker, NEW slot \in SlotShape, IInv,
         worker' = [worker EXCEPT ![w] = slot], BusyIsRight(slot),
         UNCHANGED <<school, request, handler, hold, objects, bull, late>>
  PROVE  IInv'
<1>1. worker' \in [Worker -> SlotShape] /\ WorkerInv'
  BY WorkerMoves
<1>2. QED
  BY <1>1 DEF IInv, Shape, RequestInv, RowIsSigned, JobIsBacked, HandlerInv, SlotIsRight,
              SchoolInv, CompletedMeansGone

(* A worker moves on and writes the status, or the count, of its request.  *)
LEMMA WorkerWrites ==
  ASSUME NEW w \in Worker, NEW slot \in SlotShape, NEW row \in RowShape, IInv,
         worker[w].pc # "idle",
         worker' = [worker EXCEPT ![w] = slot], BusyIsRight(slot),
         request' = [request EXCEPT ![worker[w].req] = row],
         row.status \notin {"NONE", "APPROVED"} \/ row.status = request[worker[w].req].status,
         row.status = "COMPLETED" =>
           \/ request[worker[w].req].status = "COMPLETED"
           \/ school = "DELETED" /\ objects \subseteq late,
         row.requestedBy = request[worker[w].req].requestedBy,
         row.approvedBy = request[worker[w].req].approvedBy,
         row.executedBy = request[worker[w].req].executedBy,
         UNCHANGED <<school, handler, hold, objects, bull, late>>
  PROVE  IInv'
<1> DEFINE r == worker[w].req
<1>1. r \in Request /\ bull[r].state # "absent"
  BY DEF IInv, WorkerInv, BusyIsRight
<1>2. RowIsSigned(request[r]) /\ JobIsBacked(request[r])
  BY <1>1 DEF IInv, RequestInv
<1>3. row.status # "NONE" /\ RowIsSigned(row)
  BY <1>2 DEF RowIsSigned, JobIsBacked
<1>4. /\ request' \in [Request -> RowShape] /\ RequestInv'
      /\ \A s \in HandlerSlot : SlotIsRight(s) => SlotIsRight(s)'
  BY <1>1, <1>3, RowWritten
<1>5. worker' \in [Worker -> SlotShape] /\ WorkerInv'
  BY WorkerMoves
<1>6. HandlerInv'
  <2>1. ASSUME NEW h \in Handler PROVE SlotIsRight(handler[h])'
    <3>1. handler'[h] = handler[h] /\ handler[h] \in HandlerSlot /\ SlotIsRight(handler[h])
      BY DEF IInv, Shape, HandlerInv
    <3>2. QED
      BY <1>4, <3>1 DEF SlotIsRight
  <2>2. QED
    BY <2>1 DEF HandlerInv
<1>7. SchoolInv'
  <2>1. \A q \in Request : q # r => request'[q] = request[q]
    BY <1>1 DEF IInv, Shape
  <2>2. request'[r] = row
    BY <1>1 DEF IInv, Shape
  <2>3. QED
    BY <1>1, <2>1, <2>2 DEF IInv, SchoolInv, CompletedMeansGone
<1>8. QED
  BY <1>4, <1>5, <1>6, <1>7 DEF IInv, Shape

LEMMA CountIsNat ==
  ASSUME NEW keys \in SUBSET Object, NEW prior \in Nat
  PROVE  prior + Cardinality(keys) \in Nat
<1>1. IsFiniteSet(keys)
  BY FS_Subset
<1>2. Cardinality(keys) \in Nat
  BY <1>1, FS_CardinalityType
<1>3. QED
  BY <1>2

LEMMA WorkerIInv ==
  ASSUME NEW w \in Worker, IInv, ExecuteQueued(w) \/ OperationFails(w)
  PROVE  IInv'
<1> DEFINE was == worker[w]
           r == was.req
           alone == UNCHANGED <<school, request, handler, hold, objects, bull, late>>
           around == UNCHANGED <<school, handler, hold, objects, bull, late>>
<1>0. was \in SlotShape /\ BusyIsRight(was)
  BY DEF IInv, Shape, WorkerInv
<1>a. was.pc # "idle" => r \in Request /\ request[r] \in RowShape
  BY <1>0 DEF BusyIsRight, IInv, Shape
<1>1. CASE ReadRequest(w)
  <2> DEFINE marked == [was EXCEPT !.pc = "mark", !.prior = request[r].deleted]
  <2>1. alone /\ was.pc = "read"
        /\ \/ End(w, TRUE) \/ End(w, FALSE)
           \/ worker' = [worker EXCEPT ![w] = marked]
    BY <1>1 DEF ReadRequest
  <2>2. request[r].deleted \in Nat
    BY <1>a, <2>1 DEF RowShape
  <2>3. marked \in SlotShape /\ marked.pc = "mark" /\ marked.req = r /\ marked.held = was.held
    BY <1>0, <2>2 DEF SlotShape
  <2> HIDE DEF marked
  <2>4. PICK slot \in SlotShape : /\ worker' = [worker EXCEPT ![w] = slot]
                                  /\ slot.pc \in {"mark", "report"} /\ slot.req = r /\ slot.held = was.held
    <3>1. CASE worker' = [worker EXCEPT ![w] = marked]
      BY <2>3, <3>1
    <3>2. ASSUME NEW ok \in BOOLEAN, End(w, ok)
          PROVE  \E slot \in SlotShape :
                   /\ worker' = [worker EXCEPT ![w] = slot]
                   /\ slot.pc = "report" /\ slot.req = r /\ slot.held = was.held
      <4>1. was.pc # "idle"
        BY <2>1
      <4>2. QED
        BY <3>2, <4>1, GoesOn
    <3>3. QED
      BY <2>1, <3>1, <3>2
  <2>5. BusyIsRight(slot)
    BY <1>0, <2>1, <2>4 DEF BusyIsRight
  <2>6. QED
    BY <2>1, <2>4, <2>5, WorkerOnly
<1>2. CASE MarkExecuting(w)
  <2> DEFINE row == [request[r] EXCEPT !.status = "EXECUTING"]
  <2>1. around /\ was.pc = "mark" /\ Goto(w, "hold") /\ request' = [request EXCEPT ![r] = row]
    BY <1>2 DEF MarkExecuting
  <2>2. /\ row \in RowShape /\ row.status = "EXECUTING" /\ row.requestedBy = request[r].requestedBy
        /\ row.approvedBy = request[r].approvedBy /\ row.executedBy = request[r].executedBy
    BY <1>a, <2>1 DEF RowShape, Open
  <2> HIDE DEF row
  <2>3. PICK slot \in SlotShape : /\ worker' = [worker EXCEPT ![w] = slot]
                                  /\ slot.pc = "hold" /\ slot.req = r /\ slot.held = was.held
    BY <2>1, GoesOn
  <2>4. BusyIsRight(slot)
    BY <1>0, <2>1, <2>3 DEF BusyIsRight
  <2>5. QED
    BY <2>1, <2>2, <2>3, <2>4, WorkerWrites
<1>3. CASE CheckHold(w)
  <2>1. alone /\ was.pc = "hold" /\ Goto(w, IF hold THEN "failed" ELSE "list")
    BY <1>3 DEF CheckHold
  <2>2. PICK slot \in SlotShape : /\ worker' = [worker EXCEPT ![w] = slot]
                                  /\ slot.pc = IF hold THEN "failed" ELSE "list"
                                  /\ slot.req = r /\ slot.held = was.held
    BY <2>1, GoesOn
  <2>3. BusyIsRight(slot)
    BY <1>0, <2>1, <2>2 DEF BusyIsRight
  <2>4. QED
    BY <2>1, <2>2, <2>3, WorkerOnly
<1>4. CASE ListObjects(w)
  <2> DEFINE slot == [was EXCEPT !.pc = "summary", !.keys = objects]
  <2>1. alone /\ was.pc = "list" /\ worker' = [worker EXCEPT ![w] = slot]
    BY <1>4 DEF ListObjects
  <2>2. objects \subseteq Object
    BY DEF IInv, Shape
  <2>3. slot \in SlotShape /\ slot.pc = "summary" /\ slot.req = r /\ slot.held = was.held
    BY <1>0, <2>2 DEF SlotShape
  <2> HIDE DEF slot
  <2>4. BusyIsRight(slot)
    BY <1>0, <2>1, <2>3 DEF BusyIsRight
  <2>5. QED
    BY <2>1, <2>3, <2>4, WorkerOnly
<1>5. CASE WriteSummary(w)
  <2> DEFINE count == was.prior + Cardinality(was.keys)
             row == [request[r] EXCEPT !.deleted = count]
  <2>1. around /\ was.pc = "summary" /\ Goto(w, "delete") /\ request' = [request EXCEPT ![r] = row]
    BY <1>5 DEF WriteSummary
  <2>2. count \in Nat
    BY <1>0, CountIsNat DEF SlotShape
  <2> HIDE DEF count
  <2>3. /\ row \in RowShape /\ row.status = request[r].status
        /\ row.requestedBy = request[r].requestedBy
        /\ row.approvedBy = request[r].approvedBy /\ row.executedBy = request[r].executedBy
    BY <1>a, <2>1, <2>2 DEF RowShape
  <2> HIDE DEF row
  <2>4. PICK slot \in SlotShape : /\ worker' = [worker EXCEPT ![w] = slot]
                                  /\ slot.pc = "delete" /\ slot.req = r /\ slot.held = was.held
    BY <2>1, GoesOn
  <2>5. BusyIsRight(slot)
    BY <1>0, <2>1, <2>4 DEF BusyIsRight
  <2>6. QED
    BY <2>1, <2>3, <2>4, <2>5, WorkerWrites
<1>6. CASE DeleteObject(w)
  <2>1. PICK o \in was.keys :
          /\ objects' = objects \ {o}
          /\ worker' = [worker EXCEPT ![w].keys = @ \ {o}]
    BY <1>6 DEF DeleteObject
  <2> DEFINE slot == [was EXCEPT !.keys = was.keys \ {o}]
  <2>2. was.pc = "delete" /\ UNCHANGED <<school, request, handler, hold, bull, late>>
    BY <1>6 DEF DeleteObject
  <2>3. worker' = [worker EXCEPT ![w] = slot]
    BY <2>1
  <2>4. slot \in SlotShape /\ slot.pc = "delete" /\ slot.req = r /\ slot.held = was.held
    BY <1>0, <2>2 DEF SlotShape
  <2> HIDE DEF slot
  <2>5. worker' \in [Worker -> SlotShape]
    BY <2>3, <2>4 DEF IInv, Shape
  <2>6. WorkerInv'
    <3>1. ASSUME NEW v \in Worker PROVE BusyIsRight(worker[v])'
      <4>1. worker'[v] = IF v = w THEN slot ELSE worker[v]
        BY <2>3 DEF IInv, Shape
      <4>2. BusyIsRight(worker[v])
        BY DEF IInv, WorkerInv
      <4>3. QED
        BY <1>0, <2>1, <2>2, <2>4, <4>1, <4>2 DEF BusyIsRight
    <3>2. QED
      BY <3>1 DEF WorkerInv
  <2>7. Shape' /\ RequestInv' /\ HandlerInv'
    BY <2>1, <2>2, <2>5
       DEF IInv, Shape, RequestInv, RowIsSigned, JobIsBacked, HandlerInv, SlotIsRight
  <2>8. SchoolInv'
    BY <2>1, <2>2 DEF IInv, SchoolInv, CompletedMeansGone
  <2>9. QED
    BY <2>6, <2>7, <2>8 DEF IInv
<1>7. CASE AllDeleted(w)
  <2>1. alone /\ was.pc = "delete" /\ Goto(w, "verify")
    BY <1>7 DEF AllDeleted
  <2>2. PICK slot \in SlotShape : /\ worker' = [worker EXCEPT ![w] = slot]
                                  /\ slot.pc = "verify" /\ slot.req = r /\ slot.held = was.held
    BY <2>1, GoesOn
  <2>3. BusyIsRight(slot)
    BY <1>0, <2>1, <2>2 DEF BusyIsRight
  <2>4. QED
    BY <2>1, <2>2, <2>3, WorkerOnly
<1>8. CASE VerifyEmpty(w)
  <2>1. was.pc = "verify" /\ UNCHANGED <<school, request, handler, hold, objects, bull>>
    BY <1>8 DEF VerifyEmpty
  <2>2. CASE objects = {}
    <3>1. Goto(w, "school")
      BY <1>8, <2>2 DEF VerifyEmpty
    <3>2. PICK slot \in SlotShape : /\ worker' = [worker EXCEPT ![w] = slot]
                                    /\ slot.pc = "school" /\ slot.req = r /\ slot.held = was.held
      BY <2>1, <3>1, GoesOn
    <3>3. worker' \in [Worker -> SlotShape]
      BY <3>2 DEF IInv, Shape
    <3>4. WorkerInv'
      <4>1. ASSUME NEW v \in Worker PROVE BusyIsRight(worker[v])'
        <5>1. worker'[v] = IF v = w THEN slot ELSE worker[v]
          BY <3>2 DEF IInv, Shape
        <5>2. BusyIsRight(worker[v])
          BY DEF IInv, WorkerInv
        <5>3. QED
          BY <1>0, <2>1, <2>2, <3>2, <5>1, <5>2 DEF BusyIsRight
      <4>2. QED
        BY <4>1 DEF WorkerInv
    <3>5. QED
      BY <2>1, <2>2, <3>3, <3>4
         DEF IInv, Shape, RequestInv, RowIsSigned, JobIsBacked, HandlerInv, SlotIsRight,
             SchoolInv, CompletedMeansGone
  <2>3. CASE objects # {}
    <3>1. Goto(w, "failed") /\ UNCHANGED late
      BY <1>8, <2>3 DEF VerifyEmpty
    <3>2. PICK slot \in SlotShape : /\ worker' = [worker EXCEPT ![w] = slot]
                                    /\ slot.pc = "failed" /\ slot.req = r /\ slot.held = was.held
      BY <2>1, <3>1, GoesOn
    <3>3. BusyIsRight(slot)
      BY <1>0, <2>1, <3>2 DEF BusyIsRight
    <3>4. QED
      BY <2>1, <3>1, <3>2, <3>3, WorkerOnly
  <2>4. QED
    BY <2>2, <2>3
<1>9. CASE DeleteSchool(w)
  <2>1. /\ was.pc = "school" /\ school' = "DELETED" /\ Goto(w, "complete")
        /\ UNCHANGED <<request, handler, hold, objects, bull, late>>
    BY <1>9 DEF DeleteSchool
  <2>2. PICK slot \in SlotShape : /\ worker' = [worker EXCEPT ![w] = slot]
                                  /\ slot.pc = "complete" /\ slot.req = r /\ slot.held = was.held
    BY <2>1, GoesOn
  <2>3. worker' \in [Worker -> SlotShape]
    BY <2>2 DEF IInv, Shape
  <2>4. WorkerInv'
    <3>1. ASSUME NEW v \in Worker PROVE BusyIsRight(worker[v])'
      <4>1. worker'[v] = IF v = w THEN slot ELSE worker[v]
        BY <2>2 DEF IInv, Shape
      <4>2. BusyIsRight(worker[v])
        BY DEF IInv, WorkerInv
      <4>3. QED
        BY <1>0, <2>1, <2>2, <4>1, <4>2 DEF BusyIsRight
    <3>2. QED
      BY <3>1 DEF WorkerInv
  <2>5. SchoolInv'
    BY <1>0, <2>1 DEF BusyIsRight, IInv, SchoolInv, CompletedMeansGone
  <2>6. QED
    BY <2>1, <2>3, <2>4, <2>5
       DEF IInv, Shape, RequestInv, RowIsSigned, JobIsBacked, HandlerInv, SlotIsRight
<1>10. CASE Complete(w)
  <2> DEFINE row == [request[r] EXCEPT !.status = "COMPLETED"]
  <2>1. around /\ was.pc = "complete" /\ End(w, TRUE) /\ request' = [request EXCEPT ![r] = row]
    BY <1>10 DEF Complete
  <2>2. /\ row \in RowShape /\ row.status = "COMPLETED" /\ row.requestedBy = request[r].requestedBy
        /\ row.approvedBy = request[r].approvedBy /\ row.executedBy = request[r].executedBy
    BY <1>a, <2>1 DEF RowShape
  <2>3. school = "DELETED" /\ objects \subseteq late
    BY <1>0, <2>1 DEF BusyIsRight
  <2> HIDE DEF row
  <2>4. PICK slot \in SlotShape : /\ worker' = [worker EXCEPT ![w] = slot]
                                  /\ slot.pc = "report" /\ slot.req = r /\ slot.held = was.held
    BY <2>1, GoesOn
  <2>5. BusyIsRight(slot)
    BY <1>0, <2>1, <2>4 DEF BusyIsRight
  <2>6. QED
    BY <2>1, <2>2, <2>3, <2>4, <2>5, WorkerWrites
<1>11. CASE OperationFails(w)
  <2>1. /\ alone /\ Goto(w, "failed")
        /\ was.pc \in {"hold", "list", "summary", "delete", "verify", "school", "complete"}
    BY <1>11 DEF OperationFails
  <2>2. PICK slot \in SlotShape : /\ worker' = [worker EXCEPT ![w] = slot]
                                  /\ slot.pc = "failed" /\ slot.req = r /\ slot.held = was.held
    BY <2>1, GoesOn
  <2>3. BusyIsRight(slot)
    BY <1>0, <2>1, <2>2 DEF BusyIsRight
  <2>4. QED
    BY <2>1, <2>2, <2>3, WorkerOnly
<1>12. CASE WriteFailed(w)
  <2> DEFINE row == [request[r] EXCEPT !.status = "FAILED"]
  <2>1. around /\ was.pc = "failed" /\ End(w, FALSE) /\ request' = [request EXCEPT ![r] = row]
    BY <1>12 DEF WriteFailed
  <2>2. /\ row \in RowShape /\ row.status = "FAILED" /\ row.requestedBy = request[r].requestedBy
        /\ row.approvedBy = request[r].approvedBy /\ row.executedBy = request[r].executedBy
    BY <1>a, <2>1 DEF RowShape
  <2> HIDE DEF row
  <2>3. PICK slot \in SlotShape : /\ worker' = [worker EXCEPT ![w] = slot]
                                  /\ slot.pc = "report" /\ slot.req = r /\ slot.held = was.held
    BY <2>1, GoesOn
  <2>4. BusyIsRight(slot)
    BY <1>0, <2>1, <2>3 DEF BusyIsRight
  <2>5. QED
    BY <2>1, <2>2, <2>3, <2>4, WorkerWrites
<1>13. CASE Report(w)
  <2> DEFINE b == Reported(bull[r], w, was.ok)
  <2>1. /\ was.pc = "report" /\ bull' = [bull EXCEPT ![r] = b]
        /\ worker' = [worker EXCEPT ![w] = IdleWorker]
        /\ UNCHANGED <<school, request, handler, hold, objects, late>>
    BY <1>13 DEF Report
  <2>2. r \in Request /\ bull[r] \in JobShape /\ bull[r].state # "absent" /\ was.ok \in BOOLEAN
    BY <1>0, <2>1 DEF BusyIsRight, SlotShape, IInv, Shape
  <2>3. b \in JobShape /\ b.state # "absent"
    BY <2>2, ReportMoves
  <2> HIDE DEF b
  <2>4. /\ bull' \in [Request -> JobShape]
        /\ \A q \in Request : bull'[q].state # "absent" <=> bull[q].state # "absent"
    BY <2>1, <2>2, <2>3 DEF IInv, Shape
  <2>5. /\ RequestInv' /\ SchoolInv'
        /\ \A slot \in SlotShape : BusyIsRight(slot) => BusyIsRight(slot)'
    BY <2>1, <2>4, JobsMove
  <2>6. IdleWorker \in SlotShape /\ BusyIsRight(IdleWorker)
    BY DEF IdleWorker, SlotShape, BusyIsRight
  <2>7. worker' \in [Worker -> SlotShape]
    BY <2>1, <2>6 DEF IInv, Shape
  <2>8. WorkerInv'
    <3>1. ASSUME NEW v \in Worker PROVE BusyIsRight(worker[v])'
      <4>1. worker'[v] \in {IdleWorker, worker[v]} /\ worker[v] \in SlotShape
        BY <2>1 DEF IInv, Shape
      <4>2. BusyIsRight(worker[v])
        BY DEF IInv, WorkerInv
      <4>3. PICK slot \in SlotShape : slot = worker'[v] /\ BusyIsRight(slot)
        BY <2>6, <4>1, <4>2
      <4>4. BusyIsRight(slot)'
        BY <2>5, <4>3
      <4>5. QED
        BY <4>3, <4>4 DEF BusyIsRight
    <3>2. QED
      BY <3>1 DEF WorkerInv
  <2>9. HandlerInv'
    BY <2>1 DEF IInv, HandlerInv, SlotIsRight
  <2>10. QED
    BY <2>1, <2>4, <2>5, <2>7, <2>8, <2>9 DEF IInv, Shape
<1>14. QED
  BY <1>1, <1>2, <1>3, <1>4, <1>5, <1>6, <1>7, <1>8, <1>9, <1>10, <1>11, <1>12, <1>13
     DEF ExecuteQueued

LEMMA FetchIInv ==
  ASSUME NEW w \in Worker, NEW r \in Request, IInv, Fetch(w, r)
  PROVE  IInv'
<1> DEFINE b == Taken(bull[r], w)
           slot == [IdleWorker EXCEPT !.pc = "read", !.req = r,
                                      !.attempt = bull[r].made + 1, !.held = hold]
<1>1. /\ bull[r].state = "waiting"
      /\ bull' = [bull EXCEPT ![r] = b] /\ worker' = [worker EXCEPT ![w] = slot]
      /\ UNCHANGED <<school, request, handler, hold, objects, late>>
  BY DEF Fetch
<1>2. bull[r] \in JobShape /\ bull[r].made + 1 \in Nat
  BY DEF IInv, Shape, JobShape
<1>3. b \in JobShape /\ b.state # "absent"
  BY <1>2 DEF JobShape, Taken
<1>4. /\ bull' \in [Request -> JobShape]
      /\ \A q \in Request : bull'[q].state # "absent" <=> bull[q].state # "absent"
  BY <1>1, <1>3 DEF IInv, Shape
<1>5. /\ RequestInv' /\ SchoolInv'
      /\ \A s \in SlotShape : BusyIsRight(s) => BusyIsRight(s)'
  BY <1>1, <1>4, JobsMove
<1>6. slot.pc = "read" /\ slot.req = r /\ slot.held = hold
  BY DEF IdleWorker
<1>7. hold \in BOOLEAN
  BY DEF IInv, Shape
<1>8. slot \in SlotShape
  BY <1>2, <1>7 DEF IdleWorker, SlotShape
<1>9. BusyIsRight(slot)
  BY <1>1, <1>6 DEF BusyIsRight
<1> HIDE DEF slot
<1>10. worker' \in [Worker -> SlotShape]
  BY <1>1, <1>8 DEF IInv, Shape
<1>11. WorkerInv'
  <2>1. ASSUME NEW v \in Worker PROVE BusyIsRight(worker[v])'
    <3>1. worker'[v] \in {slot, worker[v]} /\ worker[v] \in SlotShape
      BY <1>1 DEF IInv, Shape
    <3>2. BusyIsRight(worker[v])
      BY DEF IInv, WorkerInv
    <3>3. PICK s \in SlotShape : s = worker'[v] /\ BusyIsRight(s)
      BY <1>8, <1>9, <3>1, <3>2
    <3>4. BusyIsRight(s)'
      BY <1>5, <3>3
    <3>5. QED
      BY <3>3, <3>4 DEF BusyIsRight
  <2>2. QED
    BY <2>1 DEF WorkerInv
<1>12. HandlerInv'
  BY <1>1 DEF IInv, HandlerInv, SlotIsRight
<1>13. QED
  BY <1>1, <1>4, <1>5, <1>10, <1>11, <1>12 DEF IInv, Shape

(* The faults, the holds and the uploads.                                  *)
LEMMA CrashIInv ==
  ASSUME NEW w \in Worker, IInv, Crash(w)
  PROVE  IInv'
<1>1. /\ worker' = [worker EXCEPT ![w] = IdleWorker]
      /\ bull' = [r \in Request |-> IF bull[r].owner = w THEN Abandoned(bull[r]) ELSE bull[r]]
      /\ UNCHANGED <<school, request, handler, hold, objects, late>>
  BY DEF Crash
<1>2. \A r \in Request : /\ Abandoned(bull[r]) \in JobShape
                         /\ Abandoned(bull[r]).state = bull[r].state
  <2>1. ASSUME NEW b \in JobShape PROVE Abandoned(b) \in JobShape /\ Abandoned(b).state = b.state
    BY DEF JobShape, Abandoned
  <2>2. QED
    BY <2>1 DEF IInv, Shape
<1>3. /\ bull' \in [Request -> JobShape]
      /\ \A q \in Request : bull'[q].state # "absent" <=> bull[q].state # "absent"
  BY <1>1, <1>2 DEF IInv, Shape
<1>4. /\ RequestInv' /\ SchoolInv'
      /\ \A s \in SlotShape : BusyIsRight(s) => BusyIsRight(s)'
  BY <1>1, <1>3, JobsMove
<1>5. IdleWorker \in SlotShape /\ BusyIsRight(IdleWorker)
  BY DEF IdleWorker, SlotShape, BusyIsRight
<1>6. worker' \in [Worker -> SlotShape]
  BY <1>1, <1>5 DEF IInv, Shape
<1>7. WorkerInv'
  <2>1. ASSUME NEW v \in Worker PROVE BusyIsRight(worker[v])'
    <3>1. worker'[v] \in {IdleWorker, worker[v]} /\ worker[v] \in SlotShape
      BY <1>1 DEF IInv, Shape
    <3>2. BusyIsRight(worker[v])
      BY DEF IInv, WorkerInv
    <3>3. PICK s \in SlotShape : s = worker'[v] /\ BusyIsRight(s)
      BY <1>5, <3>1, <3>2
    <3>4. BusyIsRight(s)'
      BY <1>4, <3>3
    <3>5. QED
      BY <3>3, <3>4 DEF BusyIsRight
  <2>2. QED
    BY <2>1 DEF WorkerInv
<1>8. HandlerInv'
  BY <1>1 DEF IInv, HandlerInv, SlotIsRight
<1>9. QED
  BY <1>1, <1>3, <1>4, <1>6, <1>7, <1>8 DEF IInv, Shape

LEMMA StallIInv ==
  ASSUME NEW r \in Request, IInv, Stall(r)
  PROVE  IInv'
<1> DEFINE b == AfterStall(bull[r])
<1>1. /\ bull[r].state = "active" /\ bull' = [bull EXCEPT ![r] = b]
      /\ UNCHANGED <<school, request, handler, hold, objects, worker, late>>
  BY DEF Stall
<1>2. bull[r] \in JobShape /\ bull[r].stalled + 1 \in Nat
  BY DEF IInv, Shape, JobShape
<1>3. b \in JobShape /\ b.state # "absent"
  BY <1>2 DEF JobShape, AfterStall
<1> HIDE DEF b
<1>4. /\ bull' \in [Request -> JobShape]
      /\ \A q \in Request : bull'[q].state # "absent" <=> bull[q].state # "absent"
  BY <1>1, <1>3 DEF IInv, Shape
<1>5. RequestInv' /\ SchoolInv'
  BY <1>1, <1>4, JobsMove
<1>6. WorkerInv' /\ HandlerInv'
  BY <1>1, <1>4 DEF IInv, WorkerInv, BusyIsRight, HandlerInv, SlotIsRight
<1>7. QED
  BY <1>1, <1>4, <1>5, <1>6 DEF IInv, Shape

LEMMA ChangeHoldIInv ==
  ASSUME IInv, ChangeHold
  PROVE  IInv'
<1>1. /\ worker' = [w \in Worker |-> [worker[w] EXCEPT !.held = FALSE]]
      /\ UNCHANGED <<school, request, handler, objects, bull, late>>
  BY DEF ChangeHold
<1>2. ASSUME NEW w \in Worker
      PROVE  worker'[w] \in SlotShape /\ BusyIsRight(worker[w])'
  <2>1. worker[w] \in SlotShape /\ BusyIsRight(worker[w])
    BY DEF IInv, Shape, WorkerInv
  <2>2. worker'[w] = [worker[w] EXCEPT !.held = FALSE]
    BY <1>1
  <2>3. /\ worker'[w] \in SlotShape /\ worker'[w].pc = worker[w].pc
        /\ worker'[w].req = worker[w].req /\ worker'[w].held = FALSE
    BY <2>1, <2>2 DEF SlotShape
  <2>4. QED
    BY <1>1, <2>1, <2>3 DEF BusyIsRight
<1>3. worker' \in [Worker -> SlotShape] /\ WorkerInv'
  BY <1>1, <1>2 DEF WorkerInv
<1>4. hold' \in BOOLEAN
  BY DEF ChangeHold
<1>5. QED
  BY <1>1, <1>3, <1>4 DEF IInv, Shape, RequestInv, RowIsSigned, JobIsBacked, HandlerInv, SlotIsRight,
                    SchoolInv, CompletedMeansGone

LEMMA UploadIInv ==
  ASSUME NEW o \in Object, IInv, Upload(o)
  PROVE  IInv'
BY DEF Upload, IInv, Shape, RequestInv, RowIsSigned, JobIsBacked, HandlerInv, SlotIsRight,
       WorkerInv, BusyIsRight, SchoolInv, CompletedMeansGone

LEMMA NextIInv == IInv /\ [Next]_vars => IInv'
<1> SUFFICES ASSUME IInv, [Next]_vars PROVE IInv'
  OBVIOUS
<1>1. CASE Next
  BY <1>1, ApiIInv, WorkerIInv, FetchIInv, CrashIInv, StallIInv, ChangeHoldIInv, UploadIInv DEF Next
<1>2. CASE UNCHANGED vars
  BY <1>2 DEF vars, IInv, Shape, RequestInv, RowIsSigned, JobIsBacked, HandlerInv, SlotIsRight,
              WorkerInv, BusyIsRight, SchoolInv, CompletedMeansGone
<1>3. QED
  BY <1>1, <1>2

(* SchoolDeletionService, with its queue and its faults, deletes a school  *)
(* only on the word of two people and in no attempt that began under a     *)
(* legal hold, and says COMPLETED only when everything is gone.            *)
THEOREM DeletionLawful == Spec => []DeletionIsLawful
<1>1. Init => IInv
  BY InitIInv
<1>2. IInv /\ [Next]_vars => IInv'
  BY NextIInv
<1>3. IInv => DeletionIsLawful
  BY IInvIsLawful
<1>4. QED
  BY <1>1, <1>2, <1>3, PTL DEF Spec
-----------------------------------------------------------------------------
Envelope ==
  {b \in [state : {"absent", "waiting", "active", "completed", "failed"},
          made : Int, stalled : Int, owner : Worker \cup {Nobody}] :
     b.state = "absent" => b.owner = Nobody}
Attempt == [pc : {"idle", "verify", "mark", "check", "verified", "reject", "execute", "source",
                  "snapshot", "safety", "restore", "fail", "report"},
            kind : Restores!Kinds, attempt : Int,
            snap : SUBSET Edit, began : SUBSET Edit, ok : BOOLEAN]

RestoreShape ==
  /\ rRequest \in Restores!RequestRow
  /\ submitter \in Actor \cup {Nil}
  /\ content \subseteq Edit /\ submitted \subseteq Edit
  /\ approvers \in Seq(Actor)
  /\ safety \in (SUBSET Edit) \cup {Nil}
  /\ rHandler \in [RestoreCall -> Restores!HandlerSlot]
  /\ rBull \in [Restores!Kinds -> Envelope]
  /\ rWorker \in [Worker -> Attempt]
  /\ restored \in BOOLEAN

(* Nothing goes on before a request is made, and whoever made it has not   *)
(* approved it.                                                            *)
Asked ==
  /\ IF rRequest.status = "NONE"
     THEN /\ approvers = <<>>
          /\ \A k \in Restores!Kinds : rBull[k].state = "absent"
          /\ \A h \in RestoreCall : rHandler[h].pc = "idle"
          /\ \A w \in Worker : rWorker[w].pc = "idle"
     ELSE rRequest.requestedBy \in Actor
  /\ \A i \in DOMAIN approvers : approvers[i] # rRequest.requestedBy
  /\ Len(approvers) >= 1 => rRequest.approvedBy = approvers[Len(approvers)]
  /\ rRequest.status \in {"APPROVED", "EXECUTING", "COMPLETED"} => Len(approvers) >= 1

(* Who may be named as the one who submits it.                             *)
Third(a) ==
  /\ Len(approvers) >= 1
  /\ a \in Actor /\ a # rRequest.requestedBy
  /\ Len(approvers) = 1 => a # approvers[1]

Started == rBull["execute"].state # "absent"

Underway ==
  /\ \A h \in RestoreCall :
       /\ rHandler[h].pc = "approve" =>
            rHandler[h].actor \in Actor /\ rHandler[h].actor # rRequest.requestedBy
       /\ rHandler[h].pc \in {"submit", "enqueueExecute"} => Third(rHandler[h].actor)
  /\ \A w \in Worker : rWorker[w].pc \in {"execute", "source", "snapshot", "safety", "restore"} => Started
  /\ Started => Third(submitter)
  /\ restored => Started

(* A request approved once has been submitted at most once.                *)
Unsubmitted ==
  \/ approvers = <<>>
  \/ Len(approvers) = 1 /\ rRequest.status = "APPROVED"

Submitted ==
  Unsubmitted => /\ ~ Started /\ safety = Nil
                 /\ \A h \in RestoreCall : rHandler[h].pc # "enqueueExecute"

(* What was submitted is there until it is replaced, and is exported first. *)
Exported ==
  /\ ~ restored => submitted \subseteq content
  /\ restored => safety # Nil
  /\ \A w \in Worker : rWorker[w].pc = "restore" => safety # Nil
  /\ Restores!ApprovedOnce =>
       /\ \A w \in Worker : rWorker[w].pc = "safety" /\ safety = Nil => submitted \subseteq rWorker[w].snap
       /\ safety # Nil => submitted \subseteq safety
       /\ restored => rRequest.status \notin {"APPROVED", "EXECUTING", "FAILED"}

RestoreInv == RestoreShape /\ Asked /\ Underway /\ Submitted /\ Exported

LEMMA InitRestoreInv == ASSUME Nil \notin SUBSET Edit, Restores!Init PROVE RestoreInv
<1>1. /\ rRequest.status = "NONE" /\ approvers = <<>> /\ Len(approvers) = 0 /\ DOMAIN approvers = {}
      /\ approvers \in Seq(Actor)
  BY DEF Restores!Init
<1>2. rBull \in [Restores!Kinds -> Envelope] /\ \A k \in Restores!Kinds : rBull[k].state = "absent"
  BY DEF Restores!Init, Restores!NoBullJob, Envelope
<1>3. rWorker \in [Worker -> Attempt] /\ \A w \in Worker : rWorker[w].pc = "idle"
  BY DEF Restores!Init, Restores!IdleWorker, Attempt, Restores!Kinds
<1>4. rHandler \in [RestoreCall -> Restores!HandlerSlot] /\ \A h \in RestoreCall : rHandler[h].pc = "idle"
  BY DEF Restores!Init, Restores!IdleHandler, Restores!HandlerSlot
<1>t. rRequest \in Restores!RequestRow
  BY DEF Restores!Init, Restores!RequestRow
<1>u. submitter = Nil /\ content = {} /\ submitted = {} /\ safety = Nil /\ restored = FALSE
  BY DEF Restores!Init
<1>5. RestoreShape
  BY <1>t, <1>u, <1>1, <1>2, <1>3, <1>4 DEF RestoreShape
<1>6. ~ Started
  BY <1>2 DEF Started, Restores!Kinds
<1>7. Asked /\ Underway /\ Submitted /\ Exported
  BY <1>1, <1>2, <1>3, <1>4, <1>6 DEF Restores!Init, Asked, Underway, Submitted, Exported
<1>8. QED
  BY <1>5, <1>7 DEF RestoreInv
-----------------------------------------------------------------------------
(* What a worker has got to is sound.                                      *)
Sound(t) ==
  /\ t.pc \in {"execute", "source", "snapshot", "safety", "restore"} => Started
  /\ Restores!ApprovedOnce /\ t.pc = "safety" /\ safety = Nil => submitted \subseteq t.snap
  /\ t.pc = "restore" => safety # Nil

(* A step of the workers and of BullMQ that replaces nothing.              *)
LEMMA RestoreWorks ==
  ASSUME RestoreInv, rRequest.status # "NONE",
         rWorker' \in [Worker -> Attempt],
         \A w \in Worker : rWorker'[w] = rWorker[w] \/ Sound(rWorker'[w]),
         rBull' \in [Restores!Kinds -> Envelope],
         \A k \in Restores!Kinds : rBull'[k].state = "absent" <=> rBull[k].state = "absent",
         NEW s, rRequest' = [rRequest EXCEPT !.status = s],
         \/ s = rRequest.status
         \/ s \in {"VERIFYING", "VERIFIED", "REJECTED"}
         \/ s = "FAILED" /\ rRequest.status = "EXECUTING",
         UNCHANGED <<submitter, content, safety, rHandler, submitted, approvers, restored>>
  PROVE  RestoreInv'
<1>1. /\ rRequest' \in Restores!RequestRow /\ rRequest'.status = s /\ s # "NONE"
      /\ rRequest'.requestedBy = rRequest.requestedBy /\ rRequest'.approvedBy = rRequest.approvedBy
  BY DEF RestoreInv, RestoreShape, Restores!RequestRow
<1>2. RestoreShape'
  BY <1>1 DEF RestoreInv, RestoreShape
<1>3. Started' <=> Started
  BY DEF Started, Restores!Kinds
<1>4. Restores!ApprovedOnce' <=> Restores!ApprovedOnce
  BY DEF Restores!ApprovedOnce
<1>5. \A w \in Worker : Sound(rWorker[w])
  BY DEF RestoreInv, Underway, Exported, Sound
<1>6. \A w \in Worker : Sound(rWorker'[w])
  BY <1>5
<1>7. Asked'
  BY <1>1 DEF RestoreInv, Asked
<1>8. Underway'
  <2>1. \A a : Third(a)' <=> Third(a)
    BY <1>1 DEF Third
  <2>2. QED
    BY <1>1, <1>3, <1>6, <2>1 DEF RestoreInv, Underway, Sound
<1>9. Submitted'
  <2>1. Unsubmitted' => Unsubmitted
    BY <1>1 DEF Unsubmitted
  <2>2. QED
    BY <1>3, <2>1 DEF RestoreInv, Submitted
<1>10. Exported'
  BY <1>1, <1>4, <1>6 DEF RestoreInv, Exported, Sound
<1>11. QED
  BY <1>2, <1>7, <1>8, <1>9, <1>10 DEF RestoreInv

(* One worker moves.                                                       *)
LEMMA RestoreWorker ==
  ASSUME RestoreInv, NEW w \in Worker, NEW new \in Attempt,
         rWorker[w].pc # "idle" \/ \E k \in Restores!Kinds : rBull[k].state # "absent",
         rWorker' = [rWorker EXCEPT ![w] = new], Sound(new),
         rBull' \in [Restores!Kinds -> Envelope],
         \A k \in Restores!Kinds : rBull'[k].state = "absent" <=> rBull[k].state = "absent",
         NEW s, rRequest' = [rRequest EXCEPT !.status = s],
         \/ s = rRequest.status
         \/ s \in {"VERIFYING", "VERIFIED", "REJECTED"}
         \/ s = "FAILED" /\ rRequest.status = "EXECUTING",
         UNCHANGED <<submitter, content, safety, rHandler, submitted, approvers, restored>>
  PROVE  RestoreInv'
<1>1. rWorker' \in [Worker -> Attempt] /\ \A v \in Worker : rWorker'[v] = rWorker[v] \/ Sound(rWorker'[v])
  BY DEF RestoreInv, RestoreShape
<1>2. rRequest.status # "NONE"
  BY DEF RestoreInv, Asked
<1>3. QED
  BY <1>1, <1>2, RestoreWorks

LEMMA SameRequest ==
  ASSUME RestoreInv, rRequest' = rRequest PROVE rRequest' = [rRequest EXCEPT !.status = rRequest.status]
BY DEF RestoreInv, RestoreShape, Restores!RequestRow

(* The steps of a worker that replace nothing: each goes on where it may.  *)
LEMMA RestoreMoves ==
  ASSUME RestoreInv, NEW w \in Worker, NEW pc, NEW ok \in BOOLEAN,
         pc \in {"verify", "mark", "check", "verified", "reject", "source", "snapshot",
                 "restore", "fail", "report"},
         pc \in {"source", "snapshot", "restore"} => Started,
         pc = "restore" => safety # Nil,
         rWorker[w].pc # "idle",
         \/ rWorker' = [rWorker EXCEPT ![w].pc = pc]
         \/ rWorker' = [rWorker EXCEPT ![w].pc = pc, ![w].ok = ok],
         \/ rRequest' = rRequest
         \/ \E s \in {"VERIFYING", "VERIFIED", "REJECTED"} : rRequest' = [rRequest EXCEPT !.status = s]
         \/ rRequest.status = "EXECUTING" /\ rRequest' = [rRequest EXCEPT !.status = "FAILED"],
         UNCHANGED <<submitter, content, safety, rHandler, rBull, submitted, approvers, restored>>
  PROVE  RestoreInv'
<1>1. PICK x \in Attempt : x = rWorker[w]
  BY DEF RestoreInv, RestoreShape
<1>2. PICK new \in Attempt : /\ new = [x EXCEPT !.pc = pc] \/ new = [x EXCEPT !.pc = pc, !.ok = ok]
                             /\ rWorker' = [rWorker EXCEPT ![w] = new]
  <2>1. [x EXCEPT !.pc = pc] \in Attempt /\ [x EXCEPT !.pc = pc, !.ok = ok] \in Attempt
    BY DEF Attempt
  <2>2. \/ rWorker' = [rWorker EXCEPT ![w] = [x EXCEPT !.pc = pc]]
        \/ rWorker' = [rWorker EXCEPT ![w] = [x EXCEPT !.pc = pc, !.ok = ok]]
    BY <1>1 DEF RestoreInv, RestoreShape
  <2>3. QED
    BY <2>1, <2>2
<1>3. new.pc = pc
  BY <1>2 DEF Attempt
<1>4. Sound(new)
  BY <1>3 DEF Sound
<1>5. rBull' \in [Restores!Kinds -> Envelope]
  BY DEF RestoreInv, RestoreShape
<1>6. PICK s : /\ rRequest' = [rRequest EXCEPT !.status = s]
               /\ \/ s = rRequest.status
                  \/ s \in {"VERIFYING", "VERIFIED", "REJECTED"}
                  \/ s = "FAILED" /\ rRequest.status = "EXECUTING"
  BY SameRequest
<1>7. QED
  BY <1>2, <1>4, <1>5, <1>6, RestoreWorker

LEMMA StalledEnvelope ==
  ASSUME NEW b \in Envelope
  PROVE  Restores!AfterStall(b) \in Envelope /\ Restores!AfterStall(b).state # "absent"
<1>1. PICK n \in Int, s \in {"waiting", "failed"} :
        n = b.stalled + 1 /\ s = IF b.stalled < MaxStalledCount THEN "waiting" ELSE "failed"
  BY DEF Envelope
<1>2. Restores!AfterStall(b) = [b EXCEPT !.owner = Nobody, !.stalled = n, !.state = s]
  BY <1>1 DEF Restores!AfterStall
<1>3. QED
  BY <1>2 DEF Envelope

LEMMA RestoreJobsMove ==
  ASSUME NEW b \in Envelope, NEW w \in Worker, NEW ok \in BOOLEAN
  PROVE  /\ Restores!Added(b) \in Envelope /\ Restores!Added(b).state # "absent"
         /\ Restores!Taken(b, w) \in Envelope /\ Restores!Taken(b, w).state # "absent"
         /\ Restores!Abandoned(b) \in Envelope /\ Restores!Abandoned(b).state = b.state
         /\ Restores!AfterStall(b) \in Envelope /\ Restores!AfterStall(b).state # "absent"
         /\ Restores!Reported(b, w, ok) \in Envelope
         /\ Restores!Reported(b, w, ok).state = "absent" <=> b.state = "absent"
<1>1. Restores!Done(b) \in Envelope /\ Restores!Done(b).state # "absent"
  BY DEF Restores!Done, Envelope
<1>2. Restores!AfterFailure(b) \in Envelope /\ Restores!AfterFailure(b).state # "absent"
  <2>1. PICK n \in Int, s \in {"waiting", "failed"} :
          n = b.made + 1 /\ s = IF b.made + 1 < Attempts THEN "waiting" ELSE "failed"
    BY DEF Envelope
  <2>2. Restores!AfterFailure(b) = [b EXCEPT !.made = n, !.owner = Nobody, !.state = s]
    BY <2>1 DEF Restores!AfterFailure
  <2>3. QED
    BY <2>2 DEF Envelope
<1>3. Restores!AfterStall(b) \in Envelope /\ Restores!AfterStall(b).state # "absent"
  BY StalledEnvelope
<1>4. \/ Restores!Reported(b, w, ok) = b
      \/ b.owner = w /\ Restores!Reported(b, w, ok) = Restores!Done(b)
      \/ b.owner = w /\ Restores!Reported(b, w, ok) = Restores!AfterFailure(b)
  BY DEF Restores!Reported
<1>5. /\ Restores!Added(b) \in Envelope /\ Restores!Added(b).state # "absent"
      /\ Restores!Taken(b, w) \in Envelope /\ Restores!Taken(b, w).state # "absent"
      /\ Restores!Abandoned(b) \in Envelope /\ Restores!Abandoned(b).state = b.state
  BY DEF Restores!Added, Restores!Taken, Restores!Abandoned, Envelope
<1>6. b.owner = w => b.state # "absent"
  BY DEF Envelope
<1>7. QED
  BY <1>1, <1>2, <1>3, <1>4, <1>5, <1>6

Fetched(k, n, c) == [Restores!IdleWorker EXCEPT !.pc = k, !.kind = k, !.attempt = n, !.began = c]

LEMMA FetchedAttempt ==
  ASSUME NEW k \in Restores!Kinds, NEW n \in Int, NEW c \in SUBSET Edit
  PROVE  Fetched(k, n, c) \in Attempt /\ Fetched(k, n, c).pc = k
<1>1. Restores!IdleWorker \in Attempt
  BY DEF Restores!IdleWorker, Attempt, Restores!Kinds
<1>2. \A x \in Attempt : [x EXCEPT !.pc = k] \in Attempt /\ [x EXCEPT !.pc = k].pc = k
  BY DEF Attempt, Restores!Kinds
<1>3. \A x \in Attempt : [x EXCEPT !.kind = k] \in Attempt /\ [x EXCEPT !.kind = k].pc = x.pc
  BY DEF Attempt
<1>4. \A x \in Attempt : [x EXCEPT !.attempt = n] \in Attempt /\ [x EXCEPT !.attempt = n].pc = x.pc
  BY DEF Attempt
<1>5. \A x \in Attempt : [x EXCEPT !.began = c] \in Attempt /\ [x EXCEPT !.began = c].pc = x.pc
  BY DEF Attempt
<1> DEFINE x1 == [Restores!IdleWorker EXCEPT !.pc = k]
           x2 == [x1 EXCEPT !.kind = k]
           x3 == [x2 EXCEPT !.attempt = n]
           x4 == [x3 EXCEPT !.began = c]
<1>6. x1 \in Attempt /\ x1.pc = k
  BY <1>1, <1>2
<1>7. x2 \in Attempt /\ x2.pc = k
  <2> HIDE DEF x1
  <2>1. QED
    BY <1>3, <1>6
<1>8. x3 \in Attempt /\ x3.pc = k
  <2> HIDE DEF x2
  <2>1. QED
    BY <1>4, <1>7
<1>9. x4 \in Attempt /\ x4.pc = k
  <2> HIDE DEF x3
  <2>1. QED
    BY <1>5, <1>8
<1>10. QED
  BY <1>9 DEF Fetched

(* The step of one worker.                                                 *)
LEMMA WorkersKeepRestoreInv ==
  ASSUME RestoreInv, Nil \notin SUBSET Edit, NEW w \in Worker,
         Restores!Execute(w) \/ Restores!OperationFails(w) \/ Restores!Crash(w)
           \/ \E k \in Restores!Kinds : Restores!Fetch(w, k)
  PROVE  RestoreInv'
<1> USE DEF Restores!apiVars, Restores!dataVars, Restores!Goto, Restores!End, Restores!SetStatus
<1>a. rBull \in [Restores!Kinds -> Envelope] /\ rWorker \in [Worker -> Attempt]
  BY DEF RestoreInv, RestoreShape
<1>s. rRequest' = rRequest => rRequest' = [rRequest EXCEPT !.status = rRequest.status]
  BY SameRequest
<1>e. rWorker[w].pc \in {"execute", "source", "snapshot", "safety", "restore"} => Started
  BY DEF RestoreInv, Underway
<1>1. CASE Restores!ReadForVerification(w) \/ Restores!CheckSnapshot(w)
  BY <1>1, <1>s, RestoreMoves DEF Restores!ReadForVerification, Restores!CheckSnapshot
<1>2. CASE Restores!MarkVerifying(w) \/ Restores!WriteVerified(w) \/ Restores!WriteRejected(w)
  BY <1>2, RestoreMoves DEF Restores!MarkVerifying, Restores!WriteVerified, Restores!WriteRejected
<1>3. CASE Restores!ReadForRestore(w)
  <2>1. /\ \/ rWorker' = [rWorker EXCEPT ![w].pc = "report", ![w].ok = TRUE]
           \/ rWorker' = [rWorker EXCEPT ![w].pc = "report", ![w].ok = FALSE]
           \/ rWorker' = [rWorker EXCEPT ![w].pc = "source"]
        /\ rWorker[w].pc = "execute"
    BY <1>3 DEF Restores!ReadForRestore
  <2>2. UNCHANGED <<rRequest, submitter, content, safety, rHandler, rBull, submitted, approvers, restored>>
    BY <1>3 DEF Restores!ReadForRestore
  <2>3. QED
    BY <1>s, <1>e, <2>1, <2>2, RestoreMoves
<1>4. CASE Restores!CheckSource(w)
  <2>1. PICK pc \in {"snapshot", "fail"} : rWorker' = [rWorker EXCEPT ![w].pc = pc]
    BY <1>4 DEF Restores!CheckSource
  <2>2. /\ rWorker[w].pc = "source"
        /\ UNCHANGED <<rRequest, submitter, content, safety, rHandler, rBull, submitted, approvers, restored>>
    BY <1>4 DEF Restores!CheckSource
  <2>3. QED
    BY <1>s, <1>e, <2>1, <2>2, RestoreMoves
<1>5. CASE Restores!WriteFailed(w)
  <2>1. /\ rWorker[w].pc = "fail" /\ rWorker' = [rWorker EXCEPT ![w].pc = "report", ![w].ok = FALSE]
        /\ UNCHANGED <<submitter, content, safety, rHandler, rBull, submitted, approvers, restored>>
    BY <1>5 DEF Restores!WriteFailed
  <2>2. \/ rRequest.status = "EXECUTING" /\ rRequest' = [rRequest EXCEPT !.status = "FAILED"]
        \/ rRequest' = rRequest
    BY <1>5 DEF Restores!WriteFailed
  <2> DEFINE pc == "report"
  <2>3. /\ pc \in {"verify", "mark", "check", "verified", "reject", "source", "snapshot",
                   "restore", "fail", "report"}
        /\ pc \notin {"source", "snapshot", "restore"} /\ rWorker[w].pc # "idle"
        /\ rWorker' = [rWorker EXCEPT ![w].pc = pc, ![w].ok = FALSE]
    BY <2>1
  <2> HIDE DEF pc
  <2>4. QED
    BY <2>1, <2>2, <2>3, RestoreMoves
<1>6. CASE Restores!OperationFails(w)
  <2>1. PICK pc \in {"reject", "fail"} : rWorker' = [rWorker EXCEPT ![w].pc = pc]
    BY <1>6 DEF Restores!OperationFails
  <2>2. /\ rWorker[w].pc # "idle"
        /\ UNCHANGED <<rRequest, submitter, content, safety, rHandler, rBull, submitted, approvers, restored>>
    BY <1>6 DEF Restores!OperationFails
  <2>3. QED
    BY <1>s, <2>1, <2>2, RestoreMoves
<1>7. CASE Restores!ExportSafety(w)
  <2>1. PICK x \in Attempt : x = rWorker[w]
    BY <1>a
  <2>2. PICK new \in Attempt : new = [x EXCEPT !.pc = "safety", !.snap = content]
    BY DEF RestoreInv, RestoreShape, Attempt
  <2>3. new.pc = "safety" /\ new.snap = content /\ rWorker' = [rWorker EXCEPT ![w] = new]
    BY <1>7, <1>a, <2>1, <2>2 DEF Restores!ExportSafety, Attempt
  <2>4. Sound(new)
    BY <1>7, <1>e, <2>3 DEF Restores!ExportSafety, Sound, RestoreInv, Exported
  <2>5. QED
    BY <1>7, <1>a, <1>s, <2>3, <2>4, RestoreWorker DEF Restores!ExportSafety
<1>8. CASE Restores!RecordSafety(w)
  <2>1. PICK x \in Attempt : x = rWorker[w]
    BY <1>a
  <2>2. PICK new \in Attempt : new = [x EXCEPT !.pc = "restore"]
    BY DEF Attempt
  <2>3. new.pc = "restore" /\ rWorker' = [rWorker EXCEPT ![w] = new]
    BY <1>8, <1>a, <2>1, <2>2 DEF Restores!RecordSafety, Attempt
  <2>4. /\ rWorker[w].pc = "safety" /\ Started
        /\ UNCHANGED <<rRequest, submitter, content, rHandler, rBull, submitted, approvers, restored>>
        /\ safety' = IF safety = Nil THEN rWorker[w].snap ELSE safety
    BY <1>8, <1>e DEF Restores!RecordSafety
  <2>5. rWorker[w].snap \in SUBSET Edit
    BY <1>a DEF Attempt
  <2>6. safety' # Nil /\ safety' \in (SUBSET Edit) \cup {Nil} /\ (safety # Nil => safety' = safety)
    BY <2>4, <2>5 DEF RestoreInv, RestoreShape
  <2>7. rWorker' \in [Worker -> Attempt] /\ \A v \in Worker : v # w => rWorker'[v] = rWorker[v]
    BY <1>a, <2>3
  <2>8. rWorker'[w].pc = "restore"
    BY <1>a, <2>3
  <2>9. RestoreShape' /\ Asked' /\ Underway'
    <3>1. RestoreShape'
      BY <2>4, <2>6, <2>7 DEF RestoreInv, RestoreShape
    <3>2. Asked'
      BY <2>4, <2>7, <2>8 DEF RestoreInv, Asked, Started, Restores!Kinds
    <3>3. Underway'
      BY <2>4, <2>7, <2>8 DEF RestoreInv, Underway, Started, Third
    <3>4. QED
      BY <3>1, <3>2, <3>3
  <2>10. Submitted'
    BY <2>4 DEF RestoreInv, Submitted, Unsubmitted, Started
  <2>11. Exported'
    <3>1. Restores!ApprovedOnce => submitted \subseteq safety'
      BY <2>4, <2>6 DEF RestoreInv, Exported
    <3>2. Restores!ApprovedOnce' <=> Restores!ApprovedOnce
      BY <2>4 DEF Restores!ApprovedOnce
    <3>3. QED
      BY <2>4, <2>6, <2>7, <2>8, <3>1, <3>2 DEF RestoreInv, Exported
  <2>12. QED
    BY <2>9, <2>10, <2>11 DEF RestoreInv
<1>9. CASE Restores!Restore(w)
  <2>1. PICK x \in Attempt : x = rWorker[w]
    BY <1>a
  <2>2. PICK new \in Attempt : new = [x EXCEPT !.pc = "report", !.ok = TRUE]
    BY DEF Attempt
  <2>3. new.pc = "report" /\ rWorker' = [rWorker EXCEPT ![w] = new]
    BY <1>9, <1>a, <2>1, <2>2 DEF Restores!Restore, Attempt
  <2>4. /\ rWorker[w].pc = "restore" /\ Started /\ safety # Nil
        /\ UNCHANGED <<submitter, safety, rHandler, rBull, submitted, approvers>>
        /\ rRequest' = [rRequest EXCEPT !.status = "COMPLETED"] /\ content' = {} /\ restored' = TRUE
    BY <1>9, <1>e DEF Restores!Restore, RestoreInv, Exported
  <2>5. /\ rRequest' \in Restores!RequestRow /\ rRequest'.status = "COMPLETED"
        /\ rRequest'.requestedBy = rRequest.requestedBy /\ rRequest'.approvedBy = rRequest.approvedBy
    BY <2>4 DEF RestoreInv, RestoreShape, Restores!RequestRow
  <2>6. rWorker' \in [Worker -> Attempt] /\ \A v \in Worker : v # w => rWorker'[v] = rWorker[v]
    BY <1>a, <2>3
  <2>7. rWorker'[w].pc = "report"
    BY <1>a, <2>3
  <2>8. RestoreShape'
    BY <2>4, <2>5, <2>6 DEF RestoreInv, RestoreShape
  <2>9. Asked'
    BY <2>4, <2>5, <2>6, <2>7 DEF RestoreInv, Asked, Underway, Third, Started
  <2>10. Underway'
    BY <2>4, <2>5, <2>6, <2>7 DEF RestoreInv, Underway, Started, Third
  <2>11. Submitted'
    BY <2>4, <2>5 DEF RestoreInv, Submitted, Unsubmitted, Started
  <2>12. Exported'
    BY <2>4, <2>5, <2>6, <2>7 DEF RestoreInv, Exported, Restores!ApprovedOnce
  <2>13. QED
    BY <2>8, <2>9, <2>10, <2>11, <2>12 DEF RestoreInv
<1>10. Restores!IdleWorker \in Attempt /\ Sound(Restores!IdleWorker)
  BY DEF Restores!IdleWorker, Attempt, Restores!Kinds, Sound
<1>11. CASE Restores!Report(w)
  <2>1. PICK k \in Restores!Kinds, ok \in BOOLEAN : k = rWorker[w].kind /\ ok = rWorker[w].ok
    BY <1>a DEF Attempt
  <2>2. PICK b \in Envelope : b = Restores!Reported(rBull[k], w, ok) /\ (b.state = "absent" <=> rBull[k].state = "absent")
    <3>1. rBull[k] \in Envelope
      BY <1>a
    <3>2. QED
      BY <3>1, RestoreJobsMove
  <2>3. /\ rWorker[w].pc # "idle" /\ rWorker' = [rWorker EXCEPT ![w] = Restores!IdleWorker]
        /\ UNCHANGED <<rRequest, submitter, content, safety, rHandler, submitted, approvers, restored>>
    BY <1>11 DEF Restores!Report
  <2>4. rBull' = [rBull EXCEPT ![k] = b]
    BY <1>11, <2>1, <2>2 DEF Restores!Report
  <2>5. /\ rBull' \in [Restores!Kinds -> Envelope]
        /\ \A l \in Restores!Kinds : rBull'[l].state = "absent" <=> rBull[l].state = "absent"
    BY <1>a, <2>2, <2>4
  <2>6. QED
    BY <1>s, <1>10, <2>3, <2>5, RestoreWorker
<1>12. CASE Restores!Crash(w)
  <2>1. rBull' \in [Restores!Kinds -> Envelope] /\ \A k \in Restores!Kinds : rBull'[k].state = rBull[k].state
    BY <1>12, <1>a, RestoreJobsMove DEF Restores!Crash
  <2>2. QED
    BY <1>12, <1>s, <1>10, <2>1, RestoreWorker DEF Restores!Crash
<1>13. ASSUME NEW k \in Restores!Kinds, Restores!Fetch(w, k) PROVE RestoreInv'
  <2>1. PICK n \in Int : n = rBull[k].made + 1
    BY <1>a DEF Envelope
  <2>2. PICK t \in Attempt : t.pc = k /\ t = Fetched(k, n, content)
    <3>1. content \in SUBSET Edit
      BY DEF RestoreInv, RestoreShape
    <3>2. QED
      BY <3>1, FetchedAttempt
  <2>3. rWorker' = [rWorker EXCEPT ![w] = t]
    BY <1>13, <2>1, <2>2, Zenon DEF Restores!Fetch, Fetched
  <2>4. /\ rBull[k].state = "waiting"
        /\ rBull' = [rBull EXCEPT ![k] = Restores!Taken(rBull[k], w)]
        /\ UNCHANGED <<rRequest, submitter, content, safety, rHandler, submitted, approvers, restored>>
    BY <1>13, Zenon DEF Restores!Fetch
  <2>5. PICK b \in Envelope : b = Restores!Taken(rBull[k], w) /\ b.state # "absent"
    BY <1>a, RestoreJobsMove
  <2>6. /\ rBull' \in [Restores!Kinds -> Envelope]
        /\ \A l \in Restores!Kinds : rBull'[l].state = "absent" <=> rBull[l].state = "absent"
    BY <1>a, <2>4, <2>5
  <2>7. Sound(t)
    BY <2>2, <2>4 DEF Sound, Started, Restores!Kinds
  <2>8. QED
    BY <1>s, <2>3, <2>4, <2>6, <2>7, RestoreWorker
<1>14. QED
  BY <1>1, <1>2, <1>3, <1>4, <1>5, <1>6, <1>7, <1>8, <1>9, <1>11, <1>12, <1>13 DEF Restores!Execute

(* A request of the API goes on, or ends, without writing the row.         *)
Handled(t) ==
  /\ t.pc = "approve" => t.actor \in Actor /\ t.actor # rRequest.requestedBy
  /\ t.pc \in {"submit", "enqueueExecute"} => Third(t.actor)
  /\ t.pc = "enqueueExecute" => ~ Unsubmitted

LEMMA RestoreHandles ==
  ASSUME RestoreInv, rRequest.status # "NONE", NEW h \in RestoreCall, NEW t \in Restores!HandlerSlot,
         rHandler' = [rHandler EXCEPT ![h] = t], Handled(t),
         rBull' \in [Restores!Kinds -> Envelope], Started' <=> Started,
         UNCHANGED <<rRequest, submitter, content, safety, rWorker, submitted, approvers, restored>>
  PROVE  RestoreInv'
<1>1. rHandler' \in [RestoreCall -> Restores!HandlerSlot] /\ \A g \in RestoreCall : rHandler'[g] = IF g = h THEN t ELSE rHandler[g]
  BY DEF RestoreInv, RestoreShape
<1>2. RestoreShape'
  BY <1>1 DEF RestoreInv, RestoreShape
<1>3. Asked'
  BY DEF RestoreInv, Asked
<1>4. Underway'
  BY <1>1 DEF RestoreInv, Underway, Third, Handled
<1>5. Submitted'
  BY <1>1 DEF RestoreInv, Submitted, Unsubmitted, Handled
<1>6. Exported'
  BY DEF RestoreInv, Exported, Restores!ApprovedOnce
<1>7. QED
  BY <1>2, <1>3, <1>4, <1>5, <1>6 DEF RestoreInv

LEMMA HandlersKeepRestoreInv ==
  ASSUME RestoreInv, NEW h \in RestoreCall,
         Restores!Handle(h) \/ Restores!ApiCrash(h)
           \/ \E a \in Actor : \/ Restores!RequestRestore(h, a) \/ Restores!ReadForApproval(h, a)
                               \/ Restores!ReadForExecution(h, a)
  PROVE  RestoreInv'
<1> USE DEF Restores!dataVars, Restores!Begin, Restores!Finish
<1>a. /\ rBull \in [Restores!Kinds -> Envelope] /\ rHandler \in [RestoreCall -> Restores!HandlerSlot]
      /\ rRequest \in Restores!RequestRow /\ approvers \in Seq(Actor)
  BY DEF RestoreInv, RestoreShape
<1>b. rHandler[h].pc # "idle" => rRequest.status # "NONE"
  BY DEF RestoreInv, Asked
<1>c. Restores!IdleHandler \in Restores!HandlerSlot /\ Handled(Restores!IdleHandler)
  BY DEF Restores!IdleHandler, Restores!HandlerSlot, Handled
<1>d. rBull' = rBull => Started' <=> Started
  BY DEF Started
<1>1. CASE Restores!ApiCrash(h)
  BY <1>1, <1>a, <1>b, <1>c, <1>d, RestoreHandles DEF Restores!ApiCrash
<1>2. CASE Restores!EnqueueVerify(h)
  <2>1. PICK b \in Envelope : b = Restores!Added(rBull["verify"])
    BY <1>a DEF Restores!Added, Envelope, Restores!Kinds
  <2>2. rBull' = [rBull EXCEPT !["verify"] = b]
    BY <1>2, <2>1 DEF Restores!EnqueueVerify
  <2>3. rBull' \in [Restores!Kinds -> Envelope] /\ rBull'["execute"] = rBull["execute"]
    BY <1>a, <2>2 DEF Restores!Kinds
  <2>4. QED
    BY <1>2, <1>b, <1>c, <2>3, RestoreHandles DEF Restores!EnqueueVerify, Started
<1>3. ASSUME NEW a \in Actor, Restores!RequestRestore(h, a) PROVE RestoreInv'
  <2>1. PICK t \in Restores!HandlerSlot : t = [pc |-> "enqueueVerify", actor |-> a]
    <3>1. [pc |-> "enqueueVerify", actor |-> a] \in Restores!HandlerSlot
      BY DEF Restores!HandlerSlot
    <3>2. QED
      BY <3>1
  <2>0. t.pc = "enqueueVerify" /\ t.actor = a
    BY <2>1
  <2>2. /\ rHandler' = [rHandler EXCEPT ![h] = t] /\ Handled(t)
        /\ UNCHANGED <<submitter, content, safety, rBull, rWorker, submitted, approvers, restored>>
        /\ rRequest' = IF rRequest.status = "NONE"
                      THEN [rRequest EXCEPT !.status = "PENDING_VERIFICATION", !.requestedBy = a]
                      ELSE rRequest
    <3>1. Handled(t)
      BY <2>0 DEF Handled
    <3>2. QED
      BY <1>3, <2>1, <3>1, Zenon DEF Restores!RequestRestore
  <2>3. CASE rRequest.status # "NONE"
    <3>1. rRequest' = rRequest
      BY <2>2, <2>3, Zenon
    <3>2. QED
      BY <1>a, <1>d, <2>2, <2>3, <3>1, RestoreHandles
  <2>4. CASE rRequest.status = "NONE"
    <3>1. rRequest' = [rRequest EXCEPT !.status = "PENDING_VERIFICATION", !.requestedBy = a]
      BY <2>2, <2>4, Zenon
    <3>2. /\ rRequest' \in Restores!RequestRow
          /\ rRequest'.status = "PENDING_VERIFICATION" /\ rRequest'.requestedBy = a
      BY <1>a, <3>1 DEF Restores!RequestRow
    <3>3. /\ approvers = <<>> /\ ~ Started
          /\ \A g \in RestoreCall : rHandler[g].pc = "idle"
          /\ \A v \in Worker : rWorker[v].pc = "idle"
      BY <2>4 DEF RestoreInv, Asked, Started, Restores!Kinds
    <3>4. /\ rHandler' \in [RestoreCall -> Restores!HandlerSlot]
          /\ \A g \in RestoreCall : rHandler'[g].pc \in {"idle", "enqueueVerify"}
      BY <1>a, <2>0, <2>2, <3>3
    <3>5. RestoreShape'
      BY <2>2, <3>2, <3>4 DEF RestoreInv, RestoreShape
    <3>6. Asked'
      BY <2>2, <3>2, <3>3 DEF Asked
    <3>7. Underway'
      BY <2>2, <3>3, <3>4 DEF RestoreInv, Underway, Started
    <3>8. Submitted'
      BY <2>2, <3>3, <3>4 DEF RestoreInv, Submitted, Unsubmitted, Started
    <3>9. Exported'
      BY <2>2, <3>2, <3>3 DEF RestoreInv, Exported, Restores!ApprovedOnce
    <3>10. QED
      BY <3>5, <3>6, <3>7, <3>8, <3>9 DEF RestoreInv
  <2>5. QED
    BY <2>3, <2>4
<1>4. ASSUME NEW a \in Actor, Restores!ReadForApproval(h, a) PROVE RestoreInv'
  <2>1. PICK t \in Restores!HandlerSlot : t = [pc |-> "approve", actor |-> a]
    <3>1. [pc |-> "approve", actor |-> a] \in Restores!HandlerSlot
      BY DEF Restores!HandlerSlot
    <3>2. QED
      BY <3>1
  <2>0. t.pc = "approve" /\ t.actor = a
    BY <2>1
  <2>2. rRequest.status = "VERIFIED" /\ rRequest.requestedBy # a
    BY <1>4 DEF Restores!ReadForApproval
  <2>3. Handled(t)
    BY <2>0, <2>2 DEF Handled
  <2>4. QED
    BY <1>4, <1>a, <1>d, <2>1, <2>2, <2>3, RestoreHandles DEF Restores!ReadForApproval
<1>5. ASSUME NEW a \in Actor, Restores!ReadForExecution(h, a) PROVE RestoreInv'
  <2>1. PICK t \in Restores!HandlerSlot : t = [pc |-> "submit", actor |-> a]
    <3>1. [pc |-> "submit", actor |-> a] \in Restores!HandlerSlot
      BY DEF Restores!HandlerSlot
    <3>2. QED
      BY <3>1
  <2>0. t.pc = "submit" /\ t.actor = a
    BY <2>1
  <2>2. rRequest.status = "APPROVED" /\ a \notin {rRequest.requestedBy, rRequest.approvedBy}
    BY <1>5 DEF Restores!ReadForExecution
  <2>3. Third(a)
    BY <2>2 DEF RestoreInv, Asked, Third
  <2>4. Handled(t)
    BY <2>0, <2>3 DEF Handled
  <2>5. QED
    BY <1>5, <1>a, <1>d, <2>1, <2>2, <2>4, RestoreHandles DEF Restores!ReadForExecution
<1>6. CASE Restores!Approve(h)
  <2>1. /\ rHandler[h].pc = "approve" /\ rHandler' = [rHandler EXCEPT ![h] = Restores!IdleHandler]
        /\ UNCHANGED <<submitter, content, safety, rBull, rWorker, submitted, restored>>
    BY <1>6 DEF Restores!Approve
  <2>2. CASE rRequest.status # "VERIFIED"
    BY <1>6, <1>a, <1>b, <1>c, <1>d, <2>2, RestoreHandles DEF Restores!Approve
  <2>3. CASE rRequest.status = "VERIFIED"
    <3>1. PICK a \in Actor : a = rHandler[h].actor /\ a # rRequest.requestedBy
      BY <2>1 DEF RestoreInv, Underway
    <3>2. /\ rRequest' = [rRequest EXCEPT !.status = "APPROVED", !.approvedBy = a]
          /\ approvers' = Append(approvers, a)
      BY <1>6, <2>3, <3>1 DEF Restores!Approve
    <3>3. /\ rRequest' \in Restores!RequestRow /\ rRequest'.status = "APPROVED"
          /\ rRequest'.approvedBy = a /\ rRequest'.requestedBy = rRequest.requestedBy
      BY <1>a, <3>2 DEF Restores!RequestRow
    <3>4. /\ approvers' \in Seq(Actor) /\ Len(approvers') = Len(approvers) + 1 /\ Len(approvers) \in Nat
          /\ DOMAIN approvers' = 1..Len(approvers') /\ DOMAIN approvers = 1..Len(approvers)
          /\ approvers'[Len(approvers')] = a
          /\ \A i \in 1..Len(approvers) : approvers'[i] = approvers[i]
      BY <1>a, <3>2
    <3>5. /\ rHandler' \in [RestoreCall -> Restores!HandlerSlot]
          /\ \A g \in RestoreCall : rHandler'[g] = IF g = h THEN Restores!IdleHandler ELSE rHandler[g]
      BY <1>a, <1>c, <2>1
    <3>6. RestoreShape'
      BY <2>1, <3>3, <3>4, <3>5 DEF RestoreInv, RestoreShape
    <3>7. Asked'
      BY <2>1, <2>3, <3>1, <3>3, <3>4 DEF RestoreInv, Asked
    <3>8. \A x : Third(x) => Third(x)'
      BY <3>3, <3>4 DEF Third
    <3>9. Started' <=> Started
      BY <2>1 DEF Started
    <3>10. Underway'
      BY <2>1, <3>3, <3>5, <3>8, <3>9 DEF RestoreInv, Underway, Restores!IdleHandler
    <3>11. Unsubmitted' => Unsubmitted
      <4>1. Unsubmitted' => Len(approvers) = 0
        BY <3>4 DEF Unsubmitted
      <4>2. Len(approvers) = 0 => approvers = <<>>
        BY <1>a
      <4>3. QED
        BY <4>1, <4>2 DEF Unsubmitted
    <3>12. Submitted'
      BY <2>1, <3>5, <3>9, <3>11 DEF RestoreInv, Submitted, Restores!IdleHandler
    <3>13. Exported'
      <4>1. Restores!ApprovedOnce' => Unsubmitted /\ Restores!ApprovedOnce
        <5>1. Restores!ApprovedOnce' => Len(approvers) = 0
          BY <3>4 DEF Restores!ApprovedOnce
        <5>2. Len(approvers) = 0 => approvers = <<>>
          BY <1>a
        <5>3. QED
          BY <5>1, <5>2 DEF Restores!ApprovedOnce, Unsubmitted
      <4>2. Unsubmitted => ~ restored
        BY DEF RestoreInv, Submitted, Underway
      <4>3. QED
        BY <2>1, <4>1, <4>2 DEF RestoreInv, Exported
    <3>14. QED
      BY <3>6, <3>7, <3>10, <3>12, <3>13 DEF RestoreInv
  <2>4. QED
    BY <2>2, <2>3
<1>7. CASE Restores!SubmitExecution(h)
  <2>1. /\ rHandler[h].pc = "submit"
        /\ UNCHANGED <<submitter, content, safety, rBull, rWorker, approvers, restored>>
    BY <1>7 DEF Restores!SubmitExecution
  <2>2. CASE rRequest.status # "APPROVED"
    BY <1>7, <1>a, <1>b, <1>c, <1>d, <2>2, RestoreHandles DEF Restores!SubmitExecution
  <2>3. CASE rRequest.status = "APPROVED"
    <3>1. PICK x \in Restores!HandlerSlot : x = rHandler[h]
      BY <1>a
    <3>2. PICK t \in Restores!HandlerSlot : t = [x EXCEPT !.pc = "enqueueExecute"]
      BY DEF Restores!HandlerSlot
    <3>3. t.pc = "enqueueExecute" /\ t.actor = x.actor
      BY <3>2 DEF Restores!HandlerSlot
    <3>4. /\ rHandler' = [rHandler EXCEPT ![h] = t]
          /\ rRequest' = [rRequest EXCEPT !.status = "EXECUTING"] /\ submitted' = content
      BY <1>7, <1>a, <2>3, <3>1, <3>2 DEF Restores!SubmitExecution
    <3>5. /\ rRequest' \in Restores!RequestRow /\ rRequest'.status = "EXECUTING"
          /\ rRequest'.approvedBy = rRequest.approvedBy /\ rRequest'.requestedBy = rRequest.requestedBy
      BY <1>a, <3>4 DEF Restores!RequestRow
    <3>6. /\ rHandler' \in [RestoreCall -> Restores!HandlerSlot]
          /\ \A g \in RestoreCall : rHandler'[g] = IF g = h THEN t ELSE rHandler[g]
      BY <1>a, <3>4
    <3>7. RestoreShape'
      BY <2>1, <3>4, <3>5, <3>6 DEF RestoreInv, RestoreShape
    <3>8. Len(approvers) >= 1
      BY <2>3 DEF RestoreInv, Asked
    <3>9. Asked'
      BY <2>1, <2>3, <3>5, <3>8 DEF RestoreInv, Asked
    <3>10. \A y : Third(y)' <=> Third(y)
      BY <2>1, <3>5 DEF Third
    <3>11. Third(t.actor)
      BY <2>1, <3>1, <3>3 DEF RestoreInv, Underway
    <3>12. Started' <=> Started
      BY <2>1 DEF Started
    <3>13. Underway'
      BY <2>1, <3>3, <3>5, <3>6, <3>10, <3>11, <3>12 DEF RestoreInv, Underway
    <3>14. Submitted'
      <4>1. Len(<<>>) = 0
        OBVIOUS
      <4>2. ~ Unsubmitted'
        BY <2>1, <3>5, <3>8, <4>1 DEF Unsubmitted
      <4>3. QED
        BY <4>2 DEF Submitted
    <3>15. Restores!ApprovedOnce' => Restores!ApprovedOnce /\ Unsubmitted
      <4>1. Len(approvers) \in Nat /\ Len(approvers)' = Len(approvers)
        BY <1>a, <2>1
      <4>2. QED
        BY <2>3, <3>8, <4>1 DEF Restores!ApprovedOnce, Unsubmitted
    <3>16. Unsubmitted => /\ ~ restored /\ safety = Nil
                          /\ \A v \in Worker : rWorker[v].pc # "safety"
      BY DEF RestoreInv, Submitted, Underway
    <3>17. Exported'
      BY <2>1, <3>4, <3>15, <3>16 DEF RestoreInv, Exported
    <3>18. QED
      BY <3>7, <3>9, <3>13, <3>14, <3>17 DEF RestoreInv
  <2>4. QED
    BY <2>2, <2>3
<1>8. CASE Restores!EnqueueExecute(h)
  <2>1. /\ rHandler[h].pc = "enqueueExecute" /\ rHandler' = [rHandler EXCEPT ![h] = Restores!IdleHandler]
        /\ UNCHANGED <<rRequest, content, safety, rWorker, submitted, approvers, restored>>
        /\ submitter' = IF rBull["execute"].state = "absent" THEN rHandler[h].actor ELSE submitter
    BY <1>8 DEF Restores!EnqueueExecute
  <2>0. PICK c \in Envelope : c = rBull["execute"]
    BY <1>a DEF Restores!Kinds
  <2>2. PICK b \in Envelope : b = Restores!Added(rBull["execute"]) /\ b.state # "absent"
    <3>1. Restores!Added(c) \in Envelope /\ Restores!Added(c).state # "absent"
      BY DEF Restores!Added, Envelope
    <3>2. QED
      BY <2>0, <3>1
  <2>3. rBull' = [rBull EXCEPT !["execute"] = b]
    BY <1>8, <2>2 DEF Restores!EnqueueExecute
  <2>4. rBull' \in [Restores!Kinds -> Envelope] /\ Started'
    BY <1>a, <2>2, <2>3 DEF Restores!Kinds, Started
  <2>5. Third(submitter') /\ rRequest.status # "NONE"
    BY <1>b, <2>1 DEF RestoreInv, Underway, Started
  <2>6. /\ rHandler' \in [RestoreCall -> Restores!HandlerSlot]
        /\ \A g \in RestoreCall : rHandler'[g] = IF g = h THEN Restores!IdleHandler ELSE rHandler[g]
    BY <1>a, <1>c, <2>1
  <2>7. RestoreShape'
    BY <2>1, <2>4, <2>5, <2>6 DEF RestoreInv, RestoreShape, Third
  <2>8. Asked'
    BY <2>1, <2>5 DEF RestoreInv, Asked
  <2>9. \A y : Third(y)' <=> Third(y)
    BY <2>1 DEF Third
  <2>10. Underway'
    BY <2>1, <2>4, <2>5, <2>6, <2>9 DEF RestoreInv, Underway, Restores!IdleHandler
  <2>11. ~ Unsubmitted /\ (Unsubmitted' <=> Unsubmitted)
    BY <2>1 DEF RestoreInv, Submitted, Unsubmitted
  <2>12. Submitted' /\ Exported'
    BY <2>1, <2>11 DEF RestoreInv, Submitted, Exported, Restores!ApprovedOnce
  <2>13. QED
    BY <2>7, <2>8, <2>10, <2>12 DEF RestoreInv
<1>9. QED
  BY <1>1, <1>2, <1>3, <1>4, <1>5, <1>6, <1>7, <1>8 DEF Restores!Handle

LEMMA NextRestoreInv ==
  ASSUME RestoreInv, Nil \notin SUBSET Edit, [Restores!Next]_Restores!vars PROVE RestoreInv'
<1> USE DEF Restores!apiVars, Restores!dataVars
<1>a. rBull \in [Restores!Kinds -> Envelope] /\ rWorker \in [Worker -> Attempt]
  BY DEF RestoreInv, RestoreShape
<1>1. CASE \E h \in RestoreCall :
             \/ Restores!Handle(h) \/ Restores!ApiCrash(h)
             \/ \E a \in Actor : \/ Restores!RequestRestore(h, a) \/ Restores!ReadForApproval(h, a)
                                 \/ Restores!ReadForExecution(h, a)
  BY <1>1, HandlersKeepRestoreInv
<1>2. CASE \E w \in Worker : \/ Restores!Execute(w) \/ Restores!OperationFails(w) \/ Restores!Crash(w)
                             \/ \E k \in Restores!Kinds : Restores!Fetch(w, k)
  BY <1>2, WorkersKeepRestoreInv
<1>3. ASSUME NEW k \in Restores!Kinds, Restores!Stall(k) PROVE RestoreInv'
  <2>1. PICK c \in Envelope : c = rBull[k]
    BY <1>a
  <2>2. PICK b \in Envelope : b = Restores!AfterStall(rBull[k]) /\ b.state # "absent"
    BY <2>1, StalledEnvelope
  <2>3. /\ rBull[k].state = "active" /\ rBull' = [rBull EXCEPT ![k] = b]
        /\ UNCHANGED <<rRequest, submitter, content, safety, rHandler, rWorker, submitted, approvers, restored>>
    BY <1>3, <2>2, Zenon DEF Restores!Stall
  <2>4. /\ rBull' \in [Restores!Kinds -> Envelope]
        /\ \A l \in Restores!Kinds : rBull'[l].state = "absent" <=> rBull[l].state = "absent"
    BY <1>a, <2>2, <2>3
  <2>5. rRequest.status # "NONE"
    BY <2>3 DEF RestoreInv, Asked
  <2>6. QED
    BY <1>a, <2>3, <2>4, <2>5, SameRequest, RestoreWorks
<1>4. ASSUME NEW e \in Edit, Restores!ChangeContent(e) PROVE RestoreInv'
  <2>1. /\ content \subseteq content' /\ content' \subseteq Edit
        /\ UNCHANGED <<rRequest, submitter, safety, rHandler, rBull, rWorker, submitted, approvers, restored>>
    BY <1>4 DEF Restores!ChangeContent, RestoreInv, RestoreShape
  <2>2. RestoreShape' /\ Asked' /\ Underway' /\ Submitted'
    BY <2>1 DEF RestoreInv, RestoreShape, Asked, Underway, Submitted, Unsubmitted, Third, Started
  <2>3. Exported'
    BY <2>1 DEF RestoreInv, Exported, Restores!ApprovedOnce
  <2>4. QED
    BY <2>2, <2>3 DEF RestoreInv
<1>5. CASE Restores!SourceExpires \/ UNCHANGED Restores!vars
  <2>1. UNCHANGED <<rRequest, submitter, content, safety, rHandler, rBull, rWorker, submitted, approvers, restored>>
    BY <1>5 DEF Restores!SourceExpires, Restores!vars
  <2>2. RestoreShape' /\ Asked' /\ Underway' /\ Submitted'
    BY <2>1 DEF RestoreInv, RestoreShape, Asked, Underway, Submitted, Unsubmitted, Third, Started
  <2>3. Exported'
    BY <2>1 DEF RestoreInv, Exported, Restores!ApprovedOnce
  <2>4. QED
    BY <2>2, <2>3 DEF RestoreInv
<1>6. QED
  BY <1>1, <1>2, <1>3, <1>4, <1>5 DEF Restores!Next

(* What the theorems about restores follow from.                           *)
LEMMA RestoresAreLawful ==
  ASSUME Nil \notin SUBSET Edit
  PROVE  Restores!Spec =>
           [](Restores!ThreePeople /\ Restores!SubmissionIsSafe /\ Restores!FailedLeavesContent)
<1>1. Restores!Init => RestoreInv
  BY InitRestoreInv
<1>2. RestoreInv /\ [Restores!Next]_Restores!vars => RestoreInv'
  BY NextRestoreInv
<1>3. RestoreInv => Restores!ThreePeople /\ Restores!SubmissionIsSafe /\ Restores!FailedLeavesContent
  <2> SUFFICES ASSUME RestoreInv
               PROVE  Restores!ThreePeople /\ Restores!SubmissionIsSafe /\ Restores!FailedLeavesContent
    OBVIOUS
  <2>1. Restores!ThreePeople
    <3>1. SUFFICES ASSUME restored PROVE Restores!ThreePeople
      BY DEF Restores!ThreePeople
    <3>2. Third(submitter)
      BY <3>1 DEF RestoreInv, Underway
    <3>3. /\ approvers \in Seq(Actor) /\ Len(approvers) \in Nat /\ Len(approvers) >= 1
          /\ approvers[Len(approvers)] \in Actor
      BY <3>2 DEF RestoreInv, RestoreShape, Third
    <3>4. rRequest.approvedBy = approvers[Len(approvers)]
      BY <3>3 DEF RestoreInv, Asked
    <3>5. rRequest.requestedBy \in Actor /\ \A i \in DOMAIN approvers : approvers[i] # rRequest.requestedBy
      <4>1. approvers # <<>>
        BY <3>3
      <4>2. QED
        BY <4>1 DEF RestoreInv, Asked
    <3>6. ASSUME Restores!ApprovedOnce PROVE submitter # rRequest.approvedBy
      <4>1. Len(approvers) <= 1
        BY <3>6 DEF Restores!ApprovedOnce
      <4>2. PICK n \in Nat : n = Len(approvers)
        BY <3>3
      <4>3. n <= 1 /\ n >= 1
        BY <3>3, <4>1, <4>2
      <4>4. n = 1
        BY <4>3
      <4>5. Len(approvers) = 1
        BY <4>2, <4>4
      <4>6. rRequest.approvedBy = approvers[1]
        BY <3>4, <4>5
      <4>7. Len(approvers) = 1 => submitter # approvers[1]
        BY <3>2 DEF Third
      <4>8. QED
        BY <4>5, <4>6, <4>7
    <3>7. QED
      BY <3>2, <3>3, <3>4, <3>5, <3>6 DEF Restores!ThreePeople, Third
  <2>2. Restores!SubmissionIsSafe /\ Restores!FailedLeavesContent
    BY DEF RestoreInv, Exported, Restores!SubmissionIsSafe, Restores!FailedLeavesContent
  <2>3. QED
    BY <2>1, <2>2
<1>4. QED
  BY <1>1, <1>2, <1>3, PTL DEF Restores!Spec

(* Whatever stalls, crashes and fails, whoever submits a restore is a      *)
(* third person beside the requester and the approver, unless it was       *)
(* approved again (approveRestore, submitRestoreExecution).                *)
THEOREM RestoreTakesThree == ASSUME Nil \notin SUBSET Edit PROVE Restores!Spec => []ThreePeople
  BY RestoresAreLawful, PTL DEF ThreePeople

(* A restore, approved once, replaces nothing that was there when it was   *)
(* submitted and is not in the safety export, and one that FAILED has      *)
(* replaced nothing (executeRestore).                                      *)
THEOREM RestoreStaysSafe == ASSUME Nil \notin SUBSET Edit PROVE Restores!Spec => []RestoreIsSafe
  BY RestoresAreLawful, PTL DEF RestoreIsSafe

-----------------------------------------------------------------------------
(* When only a job whose worker is gone is handed out again, one worker    *)
(* has each job, a verification has not verified before it writes so, and  *)
(* an execution goes on only while the row is EXECUTING.                   *)
Verifies == {"mark", "check", "verified", "reject"}
Executes == {"source", "snapshot", "safety", "restore", "fail"}

Going(t, s) ==
  /\ t.pc \in Verifies \cup {"verify"} => t.kind = "verify"
  /\ t.pc \in Executes \cup {"execute"} => t.kind = "execute"
  /\ t.pc \in Verifies => s \notin {"VERIFIED", "APPROVED", "EXECUTING", "COMPLETED"}
  /\ t.pc \in Executes => s = "EXECUTING"

Held(k, w) == rBull[k].state = "active" /\ rBull[k].owner = w

Sole ==
  \A w \in Worker : /\ rWorker[w].pc # "idle" => Held(rWorker[w].kind, w)
                    /\ Going(rWorker[w], rRequest.status)

LEMMA InitSole == ASSUME Restores!Init PROVE Sole
<1>1. rRequest.status = "NONE" /\ \A w \in Worker : rWorker[w].pc = "idle"
  BY DEF Restores!Init, Restores!IdleWorker
<1>2. \A t, s : t.pc = "idle" => Going(t, s)
  BY DEF Going, Verifies, Executes
<1>3. SUFFICES ASSUME NEW w \in Worker
               PROVE  /\ rWorker[w].pc # "idle" => Held(rWorker[w].kind, w)
                      /\ Going(rWorker[w], rRequest.status)
  BY Zenon DEF Sole
<1>4. rWorker[w].pc = "idle"
  BY <1>1
<1>5. QED
  BY <1>2, <1>4

(* One worker moves; the others keep their jobs.                           *)
LEMMA SoleWorker ==
  ASSUME rWorker \in [Worker -> Attempt], Sole, NEW w \in Worker, NEW new \in Attempt,
         rWorker' = [rWorker EXCEPT ![w] = new],
         \A k \in Restores!Kinds :
           rBull[k].state = "active" /\ rBull[k].owner \in Worker \ {w} => rBull'[k] = rBull[k],
         new.pc # "idle" => Held(new.kind, w)',
         Going(new, rRequest'.status),
         rRequest'.status = rRequest.status \/ rWorker[w].pc \in Verifies \cup Executes
  PROVE  Sole'
<1> SUFFICES ASSUME NEW v \in Worker
             PROVE  (/\ rWorker[v].pc # "idle" => Held(rWorker[v].kind, v)
                     /\ Going(rWorker[v], rRequest.status))'
  BY DEF Sole, Held
<1>1. CASE v = w
  BY <1>1
<1>2. CASE v # w
  <2>1. rWorker'[v] = rWorker[v] /\ rWorker[v] \in Attempt /\ rWorker[w] \in Attempt
    BY <1>2
  <2>2. rWorker[v].kind \in Restores!Kinds
    BY <2>1 DEF Attempt
  <2>3. Going(rWorker[v], rRequest.status) /\ Going(rWorker[w], rRequest.status)
    BY DEF Sole
  <2>4. rWorker[v].pc # "idle" => Held(rWorker[v].kind, v)
    BY DEF Sole
  <2>5. rWorker[w].pc # "idle" => Held(rWorker[w].kind, w)
    BY DEF Sole
  <2>6. rWorker'[v].pc # "idle" => (Held(rWorker[v].kind, v))'
    BY <1>2, <2>1, <2>2, <2>4 DEF Held
  <2>7. rWorker[w].pc \in Verifies \cup Executes => rWorker[v].pc \notin Verifies \cup Executes
    BY <1>2, <2>3, <2>4, <2>5 DEF Held, Going, Verifies, Executes
  <2>8. Going(rWorker[v], rRequest'.status)
    BY <2>3, <2>7 DEF Going
  <2>9. QED
    BY <2>1, <2>6, <2>8
<1>3. QED
  BY <1>1, <1>2

(* A worker goes on with the job it has.                                   *)
LEMMA SoleMoves ==
  ASSUME rWorker \in [Worker -> Attempt], Sole, NEW w \in Worker, rWorker[w].pc # "idle",
         NEW pc, NEW ok \in BOOLEAN,
         \/ pc = "report"
         \/ /\ pc \in Verifies /\ rWorker[w].pc \in Verifies \cup {"verify"}
            /\ rRequest'.status \notin {"VERIFIED", "APPROVED", "EXECUTING", "COMPLETED"}
         \/ /\ pc \in Executes /\ rWorker[w].pc \in Executes \cup {"execute"}
            /\ rRequest'.status = "EXECUTING",
         \/ rWorker' = [rWorker EXCEPT ![w].pc = pc]
         \/ rWorker' = [rWorker EXCEPT ![w].pc = pc, ![w].ok = ok]
         \/ /\ rWorker' = [rWorker EXCEPT ![w].pc = pc, ![w].snap = content]
            /\ content \in SUBSET Edit,
         rRequest'.status = rRequest.status \/ rWorker[w].pc \in Verifies \cup Executes,
         rBull' = rBull
  PROVE  Sole'
<1>1. PICK x \in Attempt : x = rWorker[w]
  OBVIOUS
<1>2. pc \in {"mark", "check", "verified", "reject", "source", "snapshot", "safety", "restore",
              "fail", "report"}
  BY DEF Verifies, Executes
<1>3. PICK new \in Attempt : /\ \/ new = [x EXCEPT !.pc = pc]
                                \/ new = [x EXCEPT !.pc = pc, !.ok = ok]
                                \/ new = [x EXCEPT !.pc = pc, !.snap = content]
                             /\ rWorker' = [rWorker EXCEPT ![w] = new]
  <2>1. /\ [x EXCEPT !.pc = pc] \in Attempt
        /\ [x EXCEPT !.pc = pc, !.ok = ok] \in Attempt
        /\ content \in SUBSET Edit => [x EXCEPT !.pc = pc, !.snap = content] \in Attempt
    BY <1>2 DEF Attempt
  <2>2. \/ rWorker' = [rWorker EXCEPT ![w] = [x EXCEPT !.pc = pc]]
        \/ rWorker' = [rWorker EXCEPT ![w] = [x EXCEPT !.pc = pc, !.ok = ok]]
        \/ /\ rWorker' = [rWorker EXCEPT ![w] = [x EXCEPT !.pc = pc, !.snap = content]]
           /\ content \in SUBSET Edit
    BY <1>1
  <2>3. QED
    BY <2>1, <2>2
<1>4. new.pc = pc /\ new.kind = rWorker[w].kind
  BY <1>1, <1>3 DEF Attempt
<1>5. Going(rWorker[w], rRequest.status) /\ Held(rWorker[w].kind, w)
  BY DEF Sole
<1>6. Going(new, rRequest'.status)
  BY <1>4, <1>5 DEF Going, Verifies, Executes
<1>7. Held(new.kind, w)'
  BY <1>4, <1>5 DEF Held
<1>8. QED
  BY <1>3, <1>6, <1>7, SoleWorker

LEMMA FetchedKind ==
  ASSUME NEW k \in Restores!Kinds, NEW n \in Int, NEW c \in SUBSET Edit
  PROVE  Fetched(k, n, c).kind = k
<1>1. Restores!IdleWorker \in Attempt
  BY DEF Restores!IdleWorker, Attempt, Restores!Kinds
<1>2. \A x \in Attempt : /\ [x EXCEPT !.pc = k] \in Attempt
                         /\ [x EXCEPT !.kind = k] \in Attempt /\ [x EXCEPT !.kind = k].kind = k
  BY DEF Attempt, Restores!Kinds
<1>3. \A x \in Attempt : [x EXCEPT !.attempt = n] \in Attempt /\ [x EXCEPT !.attempt = n].kind = x.kind
  BY DEF Attempt
<1>4. \A x \in Attempt : [x EXCEPT !.began = c].kind = x.kind
  BY DEF Attempt
<1> DEFINE x1 == [Restores!IdleWorker EXCEPT !.pc = k]
           x2 == [x1 EXCEPT !.kind = k]
           x3 == [x2 EXCEPT !.attempt = n]
           x4 == [x3 EXCEPT !.began = c]
<1>5. x1 \in Attempt
  BY <1>1, <1>2
<1>6. x2 \in Attempt /\ x2.kind = k
  <2> HIDE DEF x1
  <2>1. QED
    BY <1>2, <1>5
<1>7. x3 \in Attempt /\ x3.kind = k
  <2> HIDE DEF x2
  <2>1. QED
    BY <1>3, <1>6
<1>8. x4.kind = k
  <2> HIDE DEF x3
  <2>1. QED
    BY <1>4, <1>7
<1>9. QED
  BY <1>8 DEF Fetched

LEMMA WorkersKeepSole ==
  ASSUME RestoreInv, Sole, NEW w \in Worker,
         Restores!Execute(w) \/ Restores!OperationFails(w) \/ Restores!Crash(w)
           \/ \E k \in Restores!Kinds : Restores!Fetch(w, k)
  PROVE  Sole'
<1> USE DEF Restores!apiVars, Restores!dataVars, Restores!Goto, Restores!End, Restores!SetStatus
<1>a. /\ rBull \in [Restores!Kinds -> Envelope] /\ rWorker \in [Worker -> Attempt]
      /\ rRequest \in Restores!RequestRow /\ content \in SUBSET Edit
  BY DEF RestoreInv, RestoreShape
<1>b. Going(rWorker[w], rRequest.status)
  BY DEF Sole
<1>c. \A s : rRequest' = [rRequest EXCEPT !.status = s] => rRequest'.status = s
  BY <1>a DEF Restores!RequestRow
<1>1. CASE Restores!ReadForVerification(w)
  <2>1. PICK pc \in {"report", "mark"} :
          /\ \/ rWorker' = [rWorker EXCEPT ![w].pc = pc]
             \/ rWorker' = [rWorker EXCEPT ![w].pc = pc, ![w].ok = TRUE]
          /\ pc = "mark" => rRequest.status \notin {"VERIFIED", "APPROVED", "EXECUTING", "COMPLETED"}
    BY <1>1 DEF Restores!ReadForVerification
  <2>2. rWorker[w].pc = "verify" /\ rRequest' = rRequest /\ rBull' = rBull
    BY <1>1 DEF Restores!ReadForVerification
  <2>3. pc = "report" \/ pc \in Verifies
    BY DEF Verifies
  <2>4. QED
    BY <1>a, <2>1, <2>2, <2>3, SoleMoves
<1>2. CASE Restores!MarkVerifying(w)
  <2>1. /\ rWorker[w].pc = "mark" /\ rBull' = rBull
        /\ \E pc \in {"check"}, ok \in BOOLEAN :
             \/ rWorker' = [rWorker EXCEPT ![w].pc = pc]
             \/ rWorker' = [rWorker EXCEPT ![w].pc = pc, ![w].ok = ok]
    BY <1>2 DEF Restores!MarkVerifying
  <2>2. rRequest'.status = "VERIFYING"
    BY <1>2, <1>c DEF Restores!MarkVerifying
  <2>3. {"mark", "check"} \subseteq Verifies
    BY DEF Verifies
  <2>4. QED
    BY <1>a, <2>1, <2>2, <2>3, SoleMoves
<1>3. CASE Restores!CheckSnapshot(w)
  <2>1. PICK pc \in {"verified", "reject"}, ok \in BOOLEAN :
          \/ rWorker' = [rWorker EXCEPT ![w].pc = pc]
          \/ rWorker' = [rWorker EXCEPT ![w].pc = pc, ![w].ok = ok]
    BY <1>3 DEF Restores!CheckSnapshot
  <2>2. rWorker[w].pc = "check" /\ rRequest' = rRequest /\ rBull' = rBull
    BY <1>3 DEF Restores!CheckSnapshot
  <2>3. pc \in Verifies /\ rWorker[w].pc \in Verifies
    BY <2>2 DEF Verifies
  <2>4. rRequest.status \notin {"VERIFIED", "APPROVED", "EXECUTING", "COMPLETED"}
    BY <1>b, <2>3 DEF Going
  <2>5. QED
    BY <1>a, <2>1, <2>2, <2>3, <2>4, SoleMoves
<1>4. CASE Restores!WriteVerified(w) \/ Restores!WriteRejected(w)
  <2>1. PICK pc \in {"report"}, ok \in BOOLEAN :
          \/ rWorker' = [rWorker EXCEPT ![w].pc = pc]
          \/ rWorker' = [rWorker EXCEPT ![w].pc = pc, ![w].ok = ok]
    BY <1>4 DEF Restores!WriteVerified, Restores!WriteRejected
  <2>2. rWorker[w].pc \in Verifies /\ rBull' = rBull
    BY <1>4 DEF Restores!WriteVerified, Restores!WriteRejected, Verifies
  <2>3. rWorker[w].pc # "idle"
    BY <2>2 DEF Verifies
  <2>4. QED
    BY <1>a, <2>1, <2>2, <2>3, SoleMoves
<1>5. CASE Restores!ReadForRestore(w)
  <2>1. PICK pc \in {"report", "source"}, ok \in BOOLEAN :
          /\ \/ rWorker' = [rWorker EXCEPT ![w].pc = pc]
             \/ rWorker' = [rWorker EXCEPT ![w].pc = pc, ![w].ok = ok]
          /\ pc = "source" => rRequest.status = "EXECUTING"
    BY <1>5 DEF Restores!ReadForRestore
  <2>2. rWorker[w].pc = "execute" /\ rRequest' = rRequest /\ rBull' = rBull
    BY <1>5 DEF Restores!ReadForRestore
  <2>3. pc = "report" \/ pc \in Executes
    BY DEF Executes
  <2>4. QED
    BY <1>a, <2>1, <2>2, <2>3, SoleMoves
<1>6. CASE Restores!CheckSource(w) \/ Restores!RecordSafety(w)
  <2>1. PICK pc \in {"snapshot", "fail", "restore"}, ok \in BOOLEAN :
          \/ rWorker' = [rWorker EXCEPT ![w].pc = pc]
          \/ rWorker' = [rWorker EXCEPT ![w].pc = pc, ![w].ok = ok]
    BY <1>6 DEF Restores!CheckSource, Restores!RecordSafety
  <2>2. rWorker[w].pc \in {"source", "safety"} /\ rRequest' = rRequest /\ rBull' = rBull
    BY <1>6 DEF Restores!CheckSource, Restores!RecordSafety
  <2>3. pc \in Executes /\ rWorker[w].pc \in Executes
    BY <2>2 DEF Executes
  <2>4. rRequest.status = "EXECUTING"
    BY <1>b, <2>3 DEF Going
  <2>5. QED
    BY <1>a, <2>1, <2>2, <2>3, <2>4, SoleMoves
<1>7. CASE Restores!ExportSafety(w)
  <2>1. /\ rWorker[w].pc = "snapshot" /\ rRequest' = rRequest /\ rBull' = rBull
        /\ \E pc \in {"safety"}, ok \in BOOLEAN :
             \/ rWorker' = [rWorker EXCEPT ![w].pc = pc]
             \/ rWorker' = [rWorker EXCEPT ![w].pc = pc, ![w].ok = ok]
             \/ rWorker' = [rWorker EXCEPT ![w].pc = pc, ![w].snap = content]
    BY <1>7 DEF Restores!ExportSafety
  <2>2. "safety" \in Executes /\ rWorker[w].pc \in Executes
    BY <2>1 DEF Executes
  <2>3. rRequest.status = "EXECUTING"
    BY <1>b, <2>2 DEF Going
  <2>4. QED
    BY <1>a, <2>1, <2>2, <2>3, SoleMoves
<1>8. CASE Restores!Restore(w) \/ Restores!WriteFailed(w)
  <2>1. PICK pc \in {"report"}, ok \in BOOLEAN :
          \/ rWorker' = [rWorker EXCEPT ![w].pc = pc]
          \/ rWorker' = [rWorker EXCEPT ![w].pc = pc, ![w].ok = ok]
    BY <1>8 DEF Restores!Restore, Restores!WriteFailed
  <2>2. rWorker[w].pc \in Executes /\ rBull' = rBull
    BY <1>8 DEF Restores!Restore, Restores!WriteFailed, Executes
  <2>3. rWorker[w].pc # "idle"
    BY <2>2 DEF Executes
  <2>4. QED
    BY <1>a, <2>1, <2>2, <2>3, SoleMoves
<1>9. CASE Restores!OperationFails(w)
  <2>1. PICK pc \in {"reject", "fail"}, ok \in BOOLEAN :
          /\ \/ rWorker' = [rWorker EXCEPT ![w].pc = pc]
             \/ rWorker' = [rWorker EXCEPT ![w].pc = pc, ![w].ok = ok]
          /\ \/ pc = "reject" /\ rWorker[w].pc \in {"check", "verified"}
             \/ pc = "fail" /\ rWorker[w].pc \in {"source", "snapshot", "safety", "restore"}
    BY <1>9 DEF Restores!OperationFails
  <2>2. rRequest' = rRequest /\ rBull' = rBull
    BY <1>9 DEF Restores!OperationFails
  <2>3. \/ /\ pc \in Verifies /\ rWorker[w].pc \in Verifies
        \/ /\ pc \in Executes /\ rWorker[w].pc \in Executes
    BY <2>1 DEF Verifies, Executes
  <2>4. /\ rWorker[w].pc \in Verifies =>
             rRequest.status \notin {"VERIFIED", "APPROVED", "EXECUTING", "COMPLETED"}
        /\ rWorker[w].pc \in Executes => rRequest.status = "EXECUTING"
    BY <1>b DEF Going
  <2>5. rWorker[w].pc # "idle"
    BY <2>1
  <2>6. QED
    BY <1>a, <2>1, <2>2, <2>3, <2>4, <2>5, SoleMoves
<1>10. /\ Restores!IdleWorker \in Attempt /\ Restores!IdleWorker.pc = "idle"
       /\ \A s : Going(Restores!IdleWorker, s)
  BY DEF Restores!IdleWorker, Attempt, Restores!Kinds, Going, Verifies, Executes
<1>11. CASE Restores!Report(w)
  <2>1. /\ rWorker[w].pc = "report" /\ rWorker' = [rWorker EXCEPT ![w] = Restores!IdleWorker]
        /\ rRequest' = rRequest
        /\ rBull' = [rBull EXCEPT ![rWorker[w].kind] =
                       Restores!Reported(rBull[rWorker[w].kind], w, rWorker[w].ok)]
    BY <1>11, Zenon DEF Restores!Report
  <2>2. Held(rWorker[w].kind, w)
    BY <2>1 DEF Sole
  <2>3. \A k \in Restores!Kinds :
          rBull[k].state = "active" /\ rBull[k].owner \in Worker \ {w} => rBull'[k] = rBull[k]
    BY <1>a, <2>1, <2>2 DEF Held
  <2>4. QED
    BY <1>a, <1>10, <2>1, <2>3, SoleWorker
<1>12. CASE Restores!Crash(w)
  <2>1. /\ rWorker' = [rWorker EXCEPT ![w] = Restores!IdleWorker] /\ rRequest' = rRequest
        /\ rBull' = [k \in Restores!Kinds |-> IF rBull[k].owner = w
                                              THEN Restores!Abandoned(rBull[k]) ELSE rBull[k]]
    BY <1>12 DEF Restores!Crash
  <2>2. \A k \in Restores!Kinds : rBull[k].owner \in Worker \ {w} => rBull'[k] = rBull[k]
    BY <2>1
  <2>3. QED
    BY <1>a, <1>10, <2>1, <2>2, SoleWorker
<1>13. ASSUME NEW k \in Restores!Kinds, Restores!Fetch(w, k) PROVE Sole'
  <2>1. PICK n \in Int : n = rBull[k].made + 1
    BY <1>a DEF Envelope
  <2>2. PICK b : b = Restores!Taken(rBull[k], w)
    OBVIOUS
  <2>3. PICK new \in Attempt : new = Fetched(k, n, content) /\ new.pc = k /\ new.kind = k
    BY <1>a, FetchedAttempt, FetchedKind
  <2>4. /\ rBull[k].state = "waiting" /\ rBull' = [rBull EXCEPT ![k] = b] /\ rRequest' = rRequest
        /\ rWorker' = [rWorker EXCEPT ![w] = new]
    BY <1>13, <2>1, <2>2, <2>3, Zenon DEF Restores!Fetch, Fetched
  <2>5. b.state = "active" /\ b.owner = w
    <3>1. rBull[k] \in Envelope
      BY <1>a
    <3>2. \A c \in Envelope : Restores!Taken(c, w).state = "active" /\ Restores!Taken(c, w).owner = w
      BY DEF Envelope, Restores!Taken
    <3>3. QED
      BY <2>2, <3>1, <3>2
  <2>6. rBull'[k] = b /\ \A l \in Restores!Kinds : l # k => rBull'[l] = rBull[l]
    BY <1>a, <2>4
  <2>7. Going(new, rRequest'.status) /\ Held(new.kind, w)'
    BY <2>3, <2>5, <2>6 DEF Going, Held, Verifies, Executes, Restores!Kinds
  <2>8. QED
    BY <1>a, <2>4, <2>6, <2>7, SoleWorker
<1>14. QED
  BY <1>1, <1>2, <1>3, <1>4, <1>5, <1>6, <1>7, <1>8, <1>9, <1>11, <1>12, <1>13 DEF Restores!Execute

(* The workers stay where they are.                                        *)
LEMMA SoleStays ==
  ASSUME RestoreInv, Sole, rWorker' = rWorker,
         \A k \in Restores!Kinds : rBull[k].state = "active" /\ rBull[k].owner \in Worker => rBull'[k] = rBull[k],
         \/ rRequest'.status = rRequest.status
         \/ rRequest.status = "NONE"
         \/ rRequest.status \in {"VERIFIED", "APPROVED"}
  PROVE  Sole'
<1> SUFFICES ASSUME NEW w \in Worker
             PROVE  (/\ rWorker[w].pc # "idle" => Held(rWorker[w].kind, w)
                     /\ Going(rWorker[w], rRequest.status))'
  BY DEF Sole, Held
<1>1. rWorker[w].kind \in Restores!Kinds
  BY DEF RestoreInv, RestoreShape, Attempt
<1>2. (rWorker[w].pc # "idle" => Held(rWorker[w].kind, w)) /\ Going(rWorker[w], rRequest.status)
  BY DEF Sole
<1>3. (rWorker[w].pc # "idle" => Held(rWorker[w].kind, w))'
  BY <1>1, <1>2 DEF Held
<1>4. rRequest.status = "NONE" => rWorker[w].pc = "idle"
  BY DEF RestoreInv, Asked
<1>5. Going(rWorker[w], rRequest'.status)
  BY <1>2, <1>4 DEF Going, Verifies, Executes
<1>6. QED
  BY <1>3, <1>5

LEMMA HandlersKeepSole ==
  ASSUME RestoreInv, Sole, NEW h \in RestoreCall,
         Restores!Handle(h) \/ Restores!ApiCrash(h)
           \/ \E a \in Actor : \/ Restores!RequestRestore(h, a) \/ Restores!ReadForApproval(h, a)
                               \/ Restores!ReadForExecution(h, a)
  PROVE  Sole'
<1> USE DEF Restores!dataVars
<1>a. rBull \in [Restores!Kinds -> Envelope]
  BY DEF RestoreInv, RestoreShape
<1>1. rWorker' = rWorker
  BY Zenon DEF Restores!Handle, Restores!ApiCrash, Restores!RequestRestore, Restores!ReadForApproval,
         Restores!ReadForExecution, Restores!EnqueueVerify, Restores!Approve,
         Restores!SubmitExecution, Restores!EnqueueExecute
<1>2. \/ rBull' = rBull
      \/ \E k \in Restores!Kinds : rBull' = [rBull EXCEPT ![k] = Restores!Added(rBull[k])]
  BY Zenon DEF Restores!Handle, Restores!ApiCrash, Restores!RequestRestore, Restores!ReadForApproval,
         Restores!ReadForExecution, Restores!EnqueueVerify, Restores!Approve,
         Restores!SubmitExecution, Restores!EnqueueExecute, Restores!Kinds
<1>3. \A b : b.state = "active" => Restores!Added(b) = b
  BY DEF Restores!Added
<1>4. \A k \in Restores!Kinds : rBull[k].state = "active" => rBull'[k] = rBull[k]
  BY <1>a, <1>2, <1>3
<1>5. \/ rRequest' = rRequest
      \/ rRequest.status \in {"NONE", "VERIFIED", "APPROVED"}
  BY Zenon DEF Restores!Handle, Restores!ApiCrash, Restores!RequestRestore, Restores!ReadForApproval,
         Restores!ReadForExecution, Restores!EnqueueVerify, Restores!Approve,
         Restores!SubmitExecution, Restores!EnqueueExecute
<1>6. QED
  BY <1>1, <1>4, <1>5, SoleStays

LEMMA NextSole ==
  ASSUME Stallable = {}, RestoreInv, Sole, [Restores!Next]_Restores!vars
  PROVE  Sole' /\ (rRequest.status = "COMPLETED" => content \subseteq content')
<1> USE DEF Restores!apiVars, Restores!dataVars
<1>1. CASE \E h \in RestoreCall :
             \/ Restores!Handle(h) \/ Restores!ApiCrash(h)
             \/ \E a \in Actor : \/ Restores!RequestRestore(h, a) \/ Restores!ReadForApproval(h, a)
                                 \/ Restores!ReadForExecution(h, a)
  <2>1. Sole'
    BY <1>1, HandlersKeepSole
  <2>2. content' = content
    BY <1>1, Zenon DEF Restores!Handle, Restores!ApiCrash, Restores!RequestRestore,
         Restores!ReadForApproval, Restores!ReadForExecution, Restores!EnqueueVerify,
         Restores!Approve, Restores!SubmitExecution, Restores!EnqueueExecute
  <2>3. QED
    BY <2>1, <2>2
<1>2. ASSUME NEW w \in Worker,
             Restores!Execute(w) \/ Restores!OperationFails(w) \/ Restores!Crash(w)
               \/ \E k \in Restores!Kinds : Restores!Fetch(w, k)
      PROVE  Sole' /\ (rRequest.status = "COMPLETED" => content \subseteq content')
  <2>1. Sole'
    BY <1>2, WorkersKeepSole
  <2>2. CASE Restores!Restore(w)
    <3>1. rWorker[w].pc \in Executes
      BY <2>2 DEF Restores!Restore, Executes
    <3>2. rRequest.status = "EXECUTING"
      BY <3>1 DEF Sole, Going
    <3>3. QED
      BY <2>1, <3>2
  <2>3. CASE ~ Restores!Restore(w)
    <3>1. content' = content
      BY <1>2, <2>3, Zenon DEF Restores!Execute, Restores!ReadForVerification, Restores!MarkVerifying,
           Restores!CheckSnapshot, Restores!WriteVerified, Restores!WriteRejected,
           Restores!ReadForRestore, Restores!CheckSource, Restores!ExportSafety,
           Restores!RecordSafety, Restores!WriteFailed, Restores!Report,
           Restores!OperationFails, Restores!Crash, Restores!Fetch
    <3>2. QED
      BY <2>1, <3>1
  <2>4. QED
    BY <2>2, <2>3
<1>3. ASSUME NEW k \in Restores!Kinds, Restores!Stall(k)
      PROVE  Sole' /\ (rRequest.status = "COMPLETED" => content \subseteq content')
  <2>1. /\ rBull[k].owner = Nobody /\ rBull' = [rBull EXCEPT ![k] = Restores!AfterStall(rBull[k])]
        /\ UNCHANGED <<rRequest, content, rWorker>>
    BY <1>3 DEF Restores!Stall
  <2>2. \A l \in Restores!Kinds : rBull[l].owner \in Worker => rBull'[l] = rBull[l]
    BY <2>1, DeliveryAssumption DEF RestoreInv, RestoreShape
  <2>3. QED
    BY <2>1, <2>2, SoleStays
<1>4. CASE \/ \E e \in Edit : Restores!ChangeContent(e)
           \/ Restores!SourceExpires \/ UNCHANGED Restores!vars
  <2>1. UNCHANGED <<rRequest, rBull, rWorker>> /\ content \subseteq content'
    BY <1>4 DEF Restores!ChangeContent, Restores!SourceExpires, Restores!vars
  <2>2. QED
    BY <2>1, SoleStays
<1>5. QED
  BY <1>1, <1>2, <1>3, <1>4 DEF Restores!Next

(* A completed restore does not replace what the school does next: its job *)
(* may be handed out again only once its worker is gone, and the worker    *)
(* that takes it over finds the row COMPLETED (executeRestore).            *)
THEOREM CompletedRestoresStand ==
  ASSUME Stallable = {}, Nil \notin SUBSET Edit
  PROVE  Restores!Spec => RestoredOnce
<1>1. Restores!Init => RestoreInv /\ Sole
  BY InitRestoreInv, InitSole
<1>2. RestoreInv /\ Sole /\ [Restores!Next]_Restores!vars => RestoreInv' /\ Sole'
  BY NextRestoreInv, NextSole
<1>3. RestoreInv /\ Sole /\ [Restores!Next]_Restores!vars
        => [rRequest.status = "COMPLETED" => content \subseteq content']_Restores!vars
  BY NextSole
<1>4. QED
  BY <1>1, <1>2, <1>3, PTL DEF Restores!Spec, RestoredOnce, Restores!RestoredOnce
=============================================================================
