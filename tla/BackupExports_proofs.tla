------------------------ MODULE BackupExports_proofs ------------------------
(***************************************************************************)
(* Proofs about BackupExports, for any number of requests, workers,        *)
(* snapshots and crashes and any retry policy: an export that can be       *)
(* downloaded is in R2, although attempts overlap and the retention        *)
(* deletes objects at the same time, and a hold that lasts keeps it.       *)
(***************************************************************************)
EXTENDS BackupExports, JobDelivery_proofs, TLAPS

Uploaded(w) == worker[w].pc = "available"

(* What a worker has uploaded and not yet recorded is in R2, is its own,   *)
(* and is not what the row names or the retention is about to delete.      *)
UploadInv ==
  \A w \in Worker :
    Uploaded(w) =>
      /\ worker[w].snap \in objects
      /\ worker[w].snap # export.key
      /\ retention.pc # "idle" => worker[w].snap # retention.key
      /\ \A v \in Worker \ {w} : Uploaded(v) => worker[v].snap # worker[w].snap

(* No snapshot is taken twice, and the retention is not after the object   *)
(* of an export that has not expired.                                      *)
KeyInv ==
  /\ {export.key, retention.key} \subseteq taken \cup {None}
  /\ retention.pc # "idle" /\ export.status = "AVAILABLE" /\ ~export.expired =>
       export.key # retention.key

IInv == TypeOK /\ BullOK(bull) /\ UploadInv /\ KeyInv /\ DownloadableIsStored

USE ExportAssumption, DeliveryAssumption

LEMMA InitIInv == Init => IInv
<1> SUFFICES ASSUME Init PROVE IInv
  OBVIOUS
<1>1. TypeOK
  <2>1. NoBullJob \in BullJob /\ IdleWorker \in WorkerSlot /\ NoRetention \in RetentionRun
    BY DEF NoBullJob, BullJob, IdleWorker, WorkerSlot, NoRetention, RetentionRun
  <2>2. Requests \in Nat /\ HoldChanges \in Nat /\ MaxCrashes \in Nat
    OBVIOUS
  <2>3. export \in ExportRow /\ worker \in [Worker -> WorkerSlot]
        /\ handler \in [Handler -> {"idle", "requeue", "enqueue"}]
    BY <2>1 DEF Init, ExportRow
  <2>4. /\ objects \subseteq taken /\ taken \subseteq Snapshot
        /\ requests \in 0..Requests /\ holds \in 0..HoldChanges /\ crashes \in 0..MaxCrashes
    BY <2>2 DEF Init
  <2>5. hold \in BOOLEAN /\ overlap \in BOOLEAN
    BY DEF Init
  <2>6. QED
    BY <2>1, <2>3, <2>4, <2>5 DEF Init, TypeOK
<1>2. BullOK(bull) /\ UploadInv /\ KeyInv /\ DownloadableIsStored
  BY DEF Init, BullOK, NoBullJob, UploadInv, Uploaded, IdleWorker, KeyInv, NoRetention,
         DownloadableIsStored
<1>3. QED
  BY <1>1, <1>2 DEF IInv

-----------------------------------------------------------------------------
(* The parts of a step.                                                    *)

(* A worker that does not hold an uploaded snapshot moves on.              *)
LEMMA WorkerMoves ==
  ASSUME NEW w \in Worker, NEW slot \in WorkerSlot, IInv,
         worker' = [worker EXCEPT ![w] = slot], slot.pc # "available",
         UNCHANGED <<objects, retention>>, export'.key = export.key
  PROVE  worker' \in [Worker -> WorkerSlot] /\ UploadInv'
<1>1. worker' \in [Worker -> WorkerSlot]
  BY DEF IInv, TypeOK
<1>2. \A v \in Worker : Uploaded(v)' => v # w /\ Uploaded(v) /\ worker'[v].snap = worker[v].snap
  BY DEF IInv, TypeOK, Uploaded
<1>3. QED
  BY <1>1, <1>2 DEF IInv, UploadInv

(* Goto and End.                                                           *)
LEMMA GoesOn ==
  ASSUME NEW w \in Worker, IInv,
         NEW pc \in {"mark", "put", "failed", "report"}, NEW ok \in BOOLEAN,
         Goto(w, pc) \/ (pc = "report" /\ End(w, ok))
  PROVE  \E slot \in WorkerSlot : worker' = [worker EXCEPT ![w] = slot] /\ slot.pc = pc
<1> DEFINE was == worker[w]
           gone == [was EXCEPT !.pc = pc]
           ended == [was EXCEPT !.pc = "report", !.ok = ok]
<1>1. was \in WorkerSlot
  BY DEF IInv, TypeOK
<1>2. \/ worker' = [worker EXCEPT ![w] = gone]
      \/ pc = "report" /\ worker' = [worker EXCEPT ![w] = ended]
  BY DEF Goto, End
<1>3. gone \in WorkerSlot /\ gone.pc = pc
  BY <1>1 DEF WorkerSlot
<1>4. ended \in WorkerSlot /\ ended.pc = "report"
  BY <1>1 DEF WorkerSlot
<1> HIDE DEF gone, ended
<1>5. QED
  BY <1>2, <1>3, <1>4

(* The status of the row changes, and not to AVAILABLE.                    *)
LEMMA StatusOnly ==
  ASSUME IInv, NEW status \in {"PENDING", "RUNNING", "FAILED"},
         export' = [export EXCEPT !.status = status],
         UNCHANGED <<objects, taken, retention>>
  PROVE  export' \in ExportRow /\ KeyInv' /\ DownloadableIsStored' /\ export'.key = export.key
<1>1. /\ export' \in ExportRow /\ export'.status = status /\ export'.key = export.key
      /\ export'.expired = export.expired
  BY DEF IInv, TypeOK, ExportRow
<1>2. QED
  BY <1>1 DEF IInv, KeyInv, DownloadableIsStored

(* Neither the row nor an object nor the retention changes.                *)
LEMMA WorkerOnly ==
  ASSUME NEW w \in Worker, NEW slot \in WorkerSlot, IInv,
         worker' = [worker EXCEPT ![w] = slot], slot.pc # "available",
         bull' \in BullJob, BullOK(bull'), crashes' \in 0..MaxCrashes,
         UNCHANGED <<export, objects, taken, handler, requests, retention, hold, holds, overlap>>
  PROVE  IInv'
<1>1. worker' \in [Worker -> WorkerSlot] /\ UploadInv'
  BY WorkerMoves
<1>2. TypeOK'
  BY <1>1 DEF IInv, TypeOK
<1>3. KeyInv' /\ DownloadableIsStored'
  BY DEF IInv, KeyInv, DownloadableIsStored
<1>4. BullOK(bull)'
  BY DEF BullOK
<1>5. QED
  BY <1>1, <1>2, <1>3, <1>4 DEF IInv

-----------------------------------------------------------------------------
LEMMA ApiIInv ==
  ASSUME NEW h \in Handler, IInv, RequestExport(h) \/ Handle(h)
  PROVE  IInv'
<1>1. CASE RequestExport(h)
  <2>1. /\ requests' = requests + 1 /\ requests < Requests
        /\ export' \in {export, [export EXCEPT !.status = "PENDING"]}
        /\ handler' \in [Handler -> {"idle", "requeue", "enqueue"}]
        /\ UNCHANGED <<objects, taken, bull, worker, retention, hold, holds, crashes, overlap>>
    BY <1>1 DEF RequestExport, holdVars, faultVars, IInv, TypeOK
  <2>2. export' \in ExportRow /\ KeyInv' /\ DownloadableIsStored' /\ export'.key = export.key
    <3>1. CASE export' = export
      BY <2>1, <3>1 DEF IInv, TypeOK, KeyInv, DownloadableIsStored
    <3>2. CASE export' = [export EXCEPT !.status = "PENDING"]
      BY <2>1, <3>2, StatusOnly
    <3>3. QED
      BY <2>1, <3>1, <3>2
  <2>3. requests' \in 0..Requests
    BY <2>1 DEF IInv, TypeOK
  <2>4. QED
    BY <2>1, <2>2, <2>3 DEF IInv, TypeOK, UploadInv, Uploaded, BullOK
<1>2. CASE RequeueFailed(h)
  <2>1. /\ export' = [export EXCEPT !.status = "PENDING"]
        /\ handler' \in [Handler -> {"idle", "requeue", "enqueue"}]
        /\ UNCHANGED <<objects, taken, requests, bull, worker, retention, hold, holds, crashes, overlap>>
    BY <1>2 DEF RequeueFailed, holdVars, faultVars, IInv, TypeOK
  <2>2. export' \in ExportRow /\ KeyInv' /\ DownloadableIsStored' /\ export'.key = export.key
    BY <2>1, StatusOnly
  <2>3. QED
    BY <2>1, <2>2 DEF IInv, TypeOK, UploadInv, Uploaded, BullOK
<1>3. CASE EnqueueExport(h)
  <2>1. /\ bull' = Added(bull)
        /\ handler' \in [Handler -> {"idle", "requeue", "enqueue"}]
        /\ UNCHANGED <<export, objects, taken, requests, worker, retention, hold, holds, crashes, overlap>>
    BY <1>3 DEF EnqueueExport, holdVars, faultVars, IInv, TypeOK
  <2>2. bull' \in BullJob /\ BullOK(bull)'
    <3>1. bull' \in BullJob /\ BullOK(bull')
      BY <2>1, AddedOK DEF IInv, TypeOK
    <3>2. QED
      BY <3>1 DEF BullOK
  <2>3. QED
    BY <2>1, <2>2 DEF IInv, TypeOK, UploadInv, Uploaded, KeyInv, DownloadableIsStored
<1>4. QED
  BY <1>1, <1>2, <1>3 DEF Handle

LEMMA WorkerIInv ==
  ASSUME NEW w \in Worker, IInv, Execute(w) \/ OperationFails(w)
  PROVE  IInv'
<1> DEFINE was == worker[w]
           still == UNCHANGED <<handler, requests, hold, holds, crashes, overlap>>
<1>0. was \in WorkerSlot
  BY DEF IInv, TypeOK
<1>a. crashes \in 0..MaxCrashes /\ bull \in BullJob /\ BullOK(bull)
  BY DEF IInv, TypeOK
<1>b. Requests \in Nat /\ HoldChanges \in Nat /\ MaxCrashes \in Nat
  OBVIOUS
<1>1. CASE ReadExport(w)
  <2>1. /\ End(w, TRUE) \/ Goto(w, "mark")
        /\ UNCHANGED <<export, objects, taken, handler, requests, bull, retention, hold, holds, crashes, overlap>>
    BY <1>1 DEF ReadExport, holdVars, faultVars
  <2>2. PICK slot \in WorkerSlot : /\ worker' = [worker EXCEPT ![w] = slot]
                                   /\ slot.pc \in {"mark", "report"}
    BY <2>1, GoesOn
  <2>3. QED
    BY <1>a, <2>1, <2>2, WorkerOnly
<1>2. CASE MarkRunning(w)
  <2>1. /\ Goto(w, "put") /\ export' = [export EXCEPT !.status = "RUNNING"]
        /\ UNCHANGED <<objects, taken, bull, retention>> /\ still
    BY <1>2 DEF MarkRunning, holdVars, faultVars
  <2>2. PICK slot \in WorkerSlot : worker' = [worker EXCEPT ![w] = slot] /\ slot.pc = "put"
    BY <2>1, GoesOn
  <2>3. export' \in ExportRow /\ KeyInv' /\ DownloadableIsStored' /\ export'.key = export.key
    BY <2>1, StatusOnly
  <2>4. worker' \in [Worker -> WorkerSlot] /\ UploadInv'
    BY <2>1, <2>2, <2>3, WorkerMoves
  <2>5. QED
    BY <2>1, <2>3, <2>4 DEF IInv, TypeOK, BullOK
<1>3. CASE PutSnapshot(w)
  <2>1. PICK s \in Snapshot \ taken :
          /\ taken' = taken \cup {s} /\ objects' = objects \cup {s}
          /\ worker' = [worker EXCEPT ![w].pc = "available", ![w].snap = s]
    BY <1>3 DEF PutSnapshot
  <2> DEFINE slot == [was EXCEPT !.pc = "available", !.snap = s]
  <2>2. UNCHANGED <<export, bull, retention>> /\ still
    BY <1>3 DEF PutSnapshot, holdVars, faultVars
  <2>3. worker' = [worker EXCEPT ![w] = slot]
    BY <2>1
  <2>4. slot \in WorkerSlot /\ slot.pc = "available" /\ slot.snap = s
    BY <1>0 DEF WorkerSlot
  <2> HIDE DEF slot
  <2>5. worker' \in [Worker -> WorkerSlot]
        /\ \A v \in Worker : worker'[v] = IF v = w THEN slot ELSE worker[v]
    BY <2>3, <2>4 DEF IInv, TypeOK
  <2>6. s \notin {export.key, retention.key} /\ \A v \in Worker : Uploaded(v) => worker[v].snap # s
    BY <2>1 DEF IInv, TypeOK, KeyInv, UploadInv
  <2>7. UploadInv'
    BY <2>1, <2>2, <2>4, <2>5, <2>6 DEF IInv, UploadInv, Uploaded
  <2>8. KeyInv' /\ DownloadableIsStored'
    BY <2>1, <2>2 DEF IInv, KeyInv, DownloadableIsStored
  <2>9. TypeOK'
    BY <2>1, <2>2, <2>5 DEF IInv, TypeOK
  <2>10. QED
    BY <2>2, <2>7, <2>8, <2>9 DEF IInv, BullOK
<1>4. CASE MarkAvailable(w)
  <2>1. /\ was.pc = "available" /\ End(w, TRUE)
        /\ export' = [status |-> "AVAILABLE", key |-> was.snap, expired |-> FALSE]
        /\ UNCHANGED <<objects, taken, bull, retention>> /\ still
    BY <1>4 DEF MarkAvailable, holdVars, faultVars
  <2>2. PICK slot \in WorkerSlot : worker' = [worker EXCEPT ![w] = slot] /\ slot.pc = "report"
    BY <2>1, GoesOn
  <2>3. /\ was.snap \in objects /\ was.snap \in taken
        /\ retention.pc # "idle" => was.snap # retention.key
    BY <2>1 DEF IInv, TypeOK, UploadInv, Uploaded
  <2>4. export' \in ExportRow /\ export'.key = was.snap
    BY <1>0, <2>1 DEF ExportRow, WorkerSlot
  <2>5. KeyInv' /\ DownloadableIsStored'
    BY <2>1, <2>3, <2>4 DEF IInv, KeyInv, DownloadableIsStored
  <2>6. worker' \in [Worker -> WorkerSlot]
        /\ \A v \in Worker : worker'[v] = IF v = w THEN slot ELSE worker[v]
    BY <2>2 DEF IInv, TypeOK
  <2>7. UploadInv'
    BY <2>1, <2>2, <2>4, <2>6 DEF IInv, UploadInv, Uploaded
  <2>8. TypeOK'
    BY <2>1, <2>4, <2>6 DEF IInv, TypeOK
  <2>9. QED
    BY <2>1, <2>5, <2>7, <2>8 DEF IInv, BullOK
<1>5. CASE OperationFails(w)
  <2>1. /\ Goto(w, "failed")
        /\ UNCHANGED <<export, objects, taken, handler, requests, bull, retention, hold, holds, crashes, overlap>>
    BY <1>5 DEF OperationFails, holdVars, faultVars
  <2>2. PICK slot \in WorkerSlot : worker' = [worker EXCEPT ![w] = slot] /\ slot.pc = "failed"
    BY <2>1, GoesOn
  <2>3. QED
    BY <1>a, <2>1, <2>2, WorkerOnly
<1>6. CASE WriteFailed(w)
  <2>1. /\ End(w, FALSE) /\ export' = [export EXCEPT !.status = "FAILED"]
        /\ UNCHANGED <<objects, taken, bull, retention>> /\ still
    BY <1>6 DEF WriteFailed, holdVars, faultVars
  <2>2. PICK slot \in WorkerSlot : worker' = [worker EXCEPT ![w] = slot] /\ slot.pc = "report"
    BY <2>1, GoesOn
  <2>3. export' \in ExportRow /\ KeyInv' /\ DownloadableIsStored' /\ export'.key = export.key
    BY <2>1, StatusOnly
  <2>4. worker' \in [Worker -> WorkerSlot] /\ UploadInv'
    BY <2>1, <2>2, <2>3, WorkerMoves
  <2>5. QED
    BY <2>1, <2>3, <2>4 DEF IInv, TypeOK, BullOK
<1>7. CASE Report(w)
  <2>1. /\ was.pc = "report" /\ bull' = Reported(bull, w, was.ok)
        /\ worker' = [worker EXCEPT ![w] = IdleWorker]
        /\ UNCHANGED <<export, objects, taken, handler, requests, retention, hold, holds, crashes, overlap>>
    BY <1>7 DEF Report, holdVars, faultVars
  <2>2. bull' \in BullJob /\ BullOK(bull')
    <3>1. CASE bull.owner = w
      <4>1. bull.state # "absent" /\ was.ok \in BOOLEAN
        BY <1>0, <1>a, <3>1 DEF BullOK, WorkerSlot
      <4>2. QED
        BY <1>a, <2>1, <4>1, ReportedOK
    <3>2. CASE bull.owner # w
      BY <1>a, <2>1, <3>2 DEF Reported
    <3>3. QED
      BY <3>1, <3>2
  <2>3. IdleWorker \in WorkerSlot /\ IdleWorker.pc = "idle"
    BY DEF IdleWorker, WorkerSlot
  <2>4. QED
    BY <1>a, <2>1, <2>2, <2>3, WorkerOnly
<1>8. QED
  BY <1>1, <1>2, <1>3, <1>4, <1>5, <1>6, <1>7 DEF Execute

LEMMA DeliveryIInv ==
  ASSUME NEW w \in Worker, IInv, Fetch(w) \/ Crash(w)
  PROVE  IInv'
<1>0. /\ crashes \in 0..MaxCrashes /\ bull \in BullJob /\ BullOK(bull) /\ MaxCrashes \in Nat
  BY DEF IInv, TypeOK
<1>1. CASE Fetch(w)
  <2> DEFINE slot == [IdleWorker EXCEPT !.pc = "read", !.attempt = bull.made + 1]
  <2>1. /\ bull.state = "waiting" /\ bull' = Taken(bull, w)
        /\ worker' = [worker EXCEPT ![w] = slot]
        /\ UNCHANGED <<export, objects, taken, handler, requests, retention, hold, holds, crashes, overlap>>
    BY <1>1 DEF Fetch, holdVars, faultVars
  <2>2. bull' \in BullJob /\ BullOK(bull')
    BY <1>0, <2>1, TakenOK
  <2>3. bull.made + 1 \in 0..Attempts
    BY <1>0, <2>1 DEF BullJob, BullOK
  <2>4. slot \in WorkerSlot /\ slot.pc = "read"
    BY <2>3 DEF IdleWorker, WorkerSlot
  <2> HIDE DEF slot
  <2>5. QED
    BY <1>0, <2>1, <2>2, <2>4, WorkerOnly
<1>2. CASE Crash(w)
  <2>1. /\ crashes < MaxCrashes /\ crashes' = crashes + 1
        /\ worker' = [worker EXCEPT ![w] = IdleWorker]
        /\ bull' = IF bull.owner = w THEN Abandoned(bull) ELSE bull
        /\ UNCHANGED <<export, objects, taken, handler, requests, retention, hold, holds, overlap>>
    BY <1>2 DEF Crash, holdVars
  <2>2. bull' \in BullJob /\ BullOK(bull')
    BY <1>0, <2>1, AbandonedOK
  <2>3. crashes' \in 0..MaxCrashes
    BY <1>0, <2>1
  <2>4. IdleWorker \in WorkerSlot /\ IdleWorker.pc = "idle"
    BY DEF IdleWorker, WorkerSlot
  <2>5. QED
    BY <2>1, <2>2, <2>3, <2>4, WorkerOnly
<1>3. QED
  BY <1>1, <1>2

LEMMA RetentionIInv ==
  ASSUME IInv, Stall \/ Expire \/ RunRetention \/ RetentionStops \/ ChangeHold
  PROVE  IInv'
<1>0. /\ crashes \in 0..MaxCrashes /\ bull \in BullJob /\ BullOK(bull)
      /\ MaxCrashes \in Nat /\ HoldChanges \in Nat /\ holds \in 0..HoldChanges
      /\ retention \in RetentionRun /\ export \in ExportRow
  BY DEF IInv, TypeOK
<1> DEFINE rest == UNCHANGED <<taken, handler, requests, bull, worker>>
<1>1. CASE Stall
  <2>1. /\ bull.state = "active" /\ bull' = AfterStall(bull)
        /\ overlap' = (overlap \/ bull.owner # Nobody)
        /\ UNCHANGED <<export, objects, taken, handler, requests, worker, retention, hold, holds, crashes>>
    BY <1>1 DEF Stall, holdVars
  <2>2. bull' \in BullJob /\ BullOK(bull')
    BY <1>0, <2>1, StallOK
  <2>3. overlap' \in BOOLEAN
    BY <2>1
  <2>4. TypeOK'
    BY <2>1, <2>2, <2>3 DEF IInv, TypeOK
  <2>5. QED
    BY <2>1, <2>2, <2>4 DEF IInv, UploadInv, Uploaded, KeyInv, DownloadableIsStored, BullOK
<1>2. CASE Expire
  <2>1. /\ export' = [export EXCEPT !.expired = TRUE]
        /\ rest /\ UNCHANGED <<objects, retention, hold, holds, crashes, overlap>>
    BY <1>2 DEF Expire, holdVars, faultVars
  <2>2. /\ export' \in ExportRow /\ export'.expired = TRUE /\ export'.key = export.key
    BY <1>0, <2>1 DEF ExportRow
  <2>3. QED
    BY <2>1, <2>2 DEF IInv, TypeOK, UploadInv, Uploaded, KeyInv, DownloadableIsStored, BullOK
<1>3. CASE FindExpired
  <2>1. /\ export.expired /\ retention' = [pc |-> "check", key |-> export.key, held |-> hold]
        /\ rest /\ UNCHANGED <<export, objects, hold, holds, crashes, overlap>>
    BY <1>3 DEF FindExpired, holdVars, faultVars
  <2>2. retention' \in RetentionRun /\ retention'.key = export.key
    BY <1>0, <2>1 DEF RetentionRun, ExportRow, IInv, TypeOK
  <2>3. QED
    BY <2>1, <2>2 DEF IInv, TypeOK, UploadInv, Uploaded, KeyInv, DownloadableIsStored, BullOK
<1>4. ASSUME retention' = NoRetention, rest, crashes' \in 0..MaxCrashes,
             UNCHANGED <<export, objects, hold, holds, overlap>>
      PROVE  IInv'
  <2>1. NoRetention \in RetentionRun /\ NoRetention.key = None /\ NoRetention.pc = "idle"
    BY DEF NoRetention, RetentionRun
  <2>2. QED
    BY <1>4, <2>1 DEF IInv, TypeOK, UploadInv, Uploaded, KeyInv, DownloadableIsStored, BullOK
<1>5. CASE CheckHold
  <2> DEFINE on == [retention EXCEPT !.pc = "delete"]
  <2>1. /\ retention.pc = "check" /\ retention' \in {NoRetention, on}
        /\ rest /\ UNCHANGED <<export, objects, hold, holds, crashes, overlap>>
    BY <1>5 DEF CheckHold, holdVars, faultVars
  <2>2. on \in RetentionRun /\ on.key = retention.key /\ on.pc = "delete"
    BY <1>0 DEF RetentionRun
  <2> HIDE DEF on
  <2>3. CASE retention' = on
    BY <2>1, <2>2, <2>3 DEF IInv, TypeOK, UploadInv, Uploaded, KeyInv, DownloadableIsStored, BullOK
  <2>4. QED
    BY <1>0, <1>4, <2>1, <2>3
<1>6. CASE DeleteObject
  <2> DEFINE on == [retention EXCEPT !.pc = "mark"]
  <2>1. /\ retention.pc = "delete" /\ retention' = on /\ objects' = objects \ {retention.key}
        /\ rest /\ UNCHANGED <<export, hold, holds, crashes, overlap>>
    BY <1>6 DEF DeleteObject, holdVars, faultVars
  <2>2. on \in RetentionRun /\ on.key = retention.key /\ on.pc = "mark"
    BY <1>0 DEF RetentionRun
  <2> HIDE DEF on
  <2>3. TypeOK'
    BY <2>1, <2>2 DEF IInv, TypeOK
  <2>4. UploadInv' /\ KeyInv'
    BY <2>1, <2>2 DEF IInv, UploadInv, Uploaded, KeyInv
  <2>5. DownloadableIsStored'
    BY <2>1 DEF IInv, KeyInv, DownloadableIsStored
  <2>6. QED
    BY <2>1, <2>3, <2>4, <2>5 DEF IInv, BullOK
<1>7. CASE MarkExpired
  <2> DEFINE row == [export EXCEPT !.status = "EXPIRED", !.key = None]
  <2>1. /\ retention' = NoRetention /\ export' \in {export, row}
        /\ rest /\ UNCHANGED <<objects, hold, holds, crashes, overlap>>
    BY <1>7 DEF MarkExpired, holdVars, faultVars
  <2>2. row \in ExportRow /\ row.status = "EXPIRED" /\ row.key = None
    BY <1>0 DEF ExportRow
  <2>3. NoRetention \in RetentionRun /\ NoRetention.key = None /\ NoRetention.pc = "idle"
    BY DEF NoRetention, RetentionRun
  <2> HIDE DEF row
  <2>4. \A w \in Worker : Uploaded(w) => worker[w].snap # None
    BY DEF IInv, TypeOK, UploadInv
  <2>5. CASE export' = row
    BY <2>1, <2>2, <2>3, <2>4, <2>5
       DEF IInv, TypeOK, UploadInv, Uploaded, KeyInv, DownloadableIsStored, BullOK
  <2>6. QED
    BY <1>0, <1>4, <2>1, <2>5
<1>8. CASE RetentionStops
  <2>1. /\ crashes < MaxCrashes /\ crashes' = crashes + 1 /\ retention' = NoRetention
        /\ rest /\ UNCHANGED <<export, objects, hold, holds, overlap>>
    BY <1>8 DEF RetentionStops, holdVars
  <2>2. crashes' \in 0..MaxCrashes
    BY <1>0, <2>1
  <2>3. QED
    BY <1>4, <2>1, <2>2
<1>9. CASE ChangeHold
  <2> DEFINE run == [retention EXCEPT !.held = FALSE]
  <2>1. /\ holds < HoldChanges /\ holds' = holds + 1 /\ retention' = run
        /\ rest /\ UNCHANGED <<export, objects, crashes, overlap>>
    BY <1>9 DEF ChangeHold, faultVars
  <2>2. hold' \in BOOLEAN
    BY <1>9 DEF ChangeHold
  <2>3. run \in RetentionRun /\ run.key = retention.key /\ run.pc = retention.pc
    BY <1>0 DEF RetentionRun
  <2> HIDE DEF run
  <2>4. holds' \in 0..HoldChanges
    BY <1>0, <2>1
  <2>5. QED
    BY <2>1, <2>2, <2>3, <2>4
       DEF IInv, TypeOK, UploadInv, Uploaded, KeyInv, DownloadableIsStored, BullOK
<1>10. QED
  BY <1>1, <1>2, <1>3, <1>5, <1>6, <1>7, <1>8, <1>9 DEF RunRetention

LEMMA NextIInv == IInv /\ [Next]_vars => IInv'
<1> SUFFICES ASSUME IInv, [Next]_vars PROVE IInv'
  OBVIOUS
<1>1. CASE Next
  BY <1>1, ApiIInv, WorkerIInv, DeliveryIInv, RetentionIInv DEF Next
<1>2. CASE UNCHANGED vars
  BY <1>2 DEF vars, faultVars, IInv, TypeOK, UploadInv, Uploaded, KeyInv, DownloadableIsStored,
              BullOK
<1>3. QED
  BY <1>1, <1>2

(* Every state of BackupExports is well typed; in particular no job gets   *)
(* more attempts or stalls than BullMQ allows it.                          *)
THEOREM ExportsTypeCorrect == Spec => []TypeOK
<1>1. IInv => TypeOK
  BY DEF IInv
<1>2. QED
  BY InitIInv, NextIInv, <1>1, PTL DEF Spec

(* What BackupService.downloadExport hands out is in R2.                   *)
THEOREM DownloadsAreStored == Spec => []DownloadableIsStored
<1>1. IInv => DownloadableIsStored
  BY DEF IInv
<1>2. QED
  BY InitIInv, NextIInv, <1>1, PTL DEF Spec

-----------------------------------------------------------------------------
(* A run that has been under a hold since it found its export has not got  *)
(* beyond the check, which ends it.                                        *)
HeldInv == retention.held => hold /\ retention.pc = "check"

LEMMA NextHeldInv == IInv /\ HeldInv /\ [Next]_vars => HeldInv'
<1> SUFFICES ASSUME IInv, HeldInv, [Next]_vars PROVE HeldInv'
  OBVIOUS
<1>0. retention \in RetentionRun /\ hold \in BOOLEAN
  BY DEF IInv, TypeOK
<1>1. CASE UNCHANGED <<retention, hold>>
  BY <1>1 DEF HeldInv
<1>2. CASE FindExpired
  BY <1>2 DEF FindExpired, HeldInv, holdVars
<1>3. CASE retention' = NoRetention
  BY <1>3 DEF HeldInv, NoRetention
<1>4. CASE CheckHold
  BY <1>0, <1>3, <1>4 DEF CheckHold, RetentionRun, HeldInv, holdVars
<1>5. CASE DeleteObject
  BY <1>0, <1>5 DEF DeleteObject, RetentionRun, HeldInv, holdVars
<1>6. CASE MarkExpired \/ RetentionStops
  BY <1>3, <1>6 DEF MarkExpired, RetentionStops
<1>7. CASE ChangeHold
  BY <1>0, <1>7 DEF ChangeHold, RetentionRun, HeldInv
<1>8. CASE \E h \in Handler : RequestExport(h) \/ Handle(h)
  BY <1>1, <1>8 DEF RequestExport, Handle, RequeueFailed, EnqueueExport, holdVars
<1>9. CASE \E w \in Worker : Fetch(w) \/ Execute(w) \/ OperationFails(w) \/ Crash(w)
  BY <1>1, <1>9 DEF Fetch, Execute, ReadExport, MarkRunning, PutSnapshot, MarkAvailable,
                    WriteFailed, Report, OperationFails, Crash, holdVars
<1>10. CASE Stall \/ Expire \/ UNCHANGED vars
  BY <1>1, <1>10 DEF Stall, Expire, vars, holdVars
<1>11. QED
  BY <1>2, <1>4, <1>5, <1>6, <1>7, <1>8, <1>9, <1>10 DEF Next, RunRetention

(* runRetention deletes nothing that a legal hold has covered since it     *)
(* found the export.                                                       *)
THEOREM HoldsOutlastRetention == Spec => LastingHoldKeeps
<1>1. Init => HeldInv
  BY DEF Init, HeldInv, NoRetention
<1>2. HeldInv /\ [Next]_vars => [retention.held => objects \subseteq objects']_vars
  <2> SUFFICES ASSUME HeldInv, Next, retention.held PROVE objects \subseteq objects'
    BY DEF vars, faultVars
  <2>1. retention.pc = "check"
    BY DEF HeldInv
  <2>2. CASE \E h \in Handler : RequestExport(h) \/ Handle(h)
    BY <2>2 DEF RequestExport, Handle, RequeueFailed, EnqueueExport
  <2>3. CASE \E w \in Worker : Fetch(w) \/ Execute(w) \/ OperationFails(w) \/ Crash(w)
    BY <2>3 DEF Fetch, Execute, ReadExport, MarkRunning, PutSnapshot, MarkAvailable,
                WriteFailed, Report, OperationFails, Crash
  <2>4. CASE Stall \/ Expire \/ RunRetention \/ RetentionStops \/ ChangeHold
    BY <2>1, <2>4 DEF Stall, Expire, RunRetention, FindExpired, CheckHold, DeleteObject, MarkExpired,
                      RetentionStops, ChangeHold
  <2>5. QED
    BY <2>2, <2>3, <2>4 DEF Next
<1>3. QED
  BY InitIInv, NextIInv, NextHeldInv, <1>1, <1>2, PTL DEF Spec, LastingHoldKeeps
=============================================================================
