------------------------ MODULE LifecycleJobs_proofs ------------------------
(***************************************************************************)
(* Proofs about LifecycleJobs, for any number of jobs, workers and         *)
(* installations and any retry policy.                                     *)
(***************************************************************************)
EXTENDS LifecycleJobs, JobDelivery_proofs, TLAPS

(* What a command may do to the row it reads: the result is a row, the     *)
(* NotFoundException means the row is gone, and a row that is gone stays   *)
(* gone.                                                                   *)
LEMMA OutcomesOK ==
  ASSUME NEW op \in Ops, NEW row \in Row, NEW v \in Version \cup {NoVersion},
         op # "ROLLBACK" => v \in Version,
         NEW o \in Outcomes(op, v, row)
  PROVE  /\ o \in Outcome
         /\ o.kind = "absent" => row.state = "ABSENT" /\ o.row = row
         /\ row.state = "ABSENT" => o.row = row /\ o.kind = "absent"
<1> USE DEF Row, Outcome, Returned, Thrown, Absent, States
<1>0. CASE row.state = "ABSENT"
  BY <1>0 DEF Outcomes
<1>1. CASE row.state # "ABSENT" /\ op = "INSTALL"
  <2> DEFINE after == [row EXCEPT !.state = "INSTALLED", !.version = v, !.installedAt = TRUE]
  <2>1. o \in Install(row, v)
    BY <1>1 DEF Outcomes
  <2>2. o \in {Returned(row), Thrown(row), Returned(after)}
    BY <2>1 DEF Install
  <2>3. after \in Row
    BY <1>1
  <2> HIDE DEF after
  <2>4. QED
    BY <1>1, <2>2, <2>3
<1>2. CASE row.state # "ABSENT" /\ op = "UPGRADE"
  <2> DEFINE after1 == [row EXCEPT !.version = v]
             after2 == [row EXCEPT !.version = v, !.previous = row.version]
  <2>1. o \in Upgrade(row, v)
    BY <1>2 DEF Outcomes
  <2>2. o \in {Returned(row), Thrown(row), Returned(after1), Returned(after2)}
    BY <2>1 DEF Upgrade
  <2>3. after1 \in Row /\ after2 \in Row
    BY <1>2
  <2> HIDE DEF after1, after2
  <2>4. QED
    BY <1>2, <2>2, <2>3
<1>3. CASE row.state # "ABSENT" /\ op = "ROLLBACK"
  <2> DEFINE to    == IF v # NoVersion THEN v ELSE row.previous
             after == [row EXCEPT !.version = to, !.previous = row.version]
  <2>1. o \in Rollback(row, v)
    BY <1>3 DEF Outcomes
  <2>2. \/ o \in {Returned(row), Thrown(row)}
        \/ to # NoVersion /\ o = Returned(after)
    BY <2>1 DEF Rollback
  <2>3. to # NoVersion => after \in Row
    BY <1>3
  <2> HIDE DEF after, to
  <2>4. QED
    BY <1>3, <2>2, <2>3
<1>4. CASE row.state # "ABSENT" /\ op = "ACTIVATE"
  <2>1. o \in Activate(row)
    BY <1>4 DEF Outcomes
  <2>2. QED
    BY <1>4, <2>1 DEF Activate
<1>5. CASE row.state # "ABSENT" /\ op = "DEACTIVATE"
  <2>1. o \in Deactivate(row)
    BY <1>5 DEF Outcomes
  <2>2. QED
    BY <1>5, <2>1 DEF Deactivate
<1>6. CASE row.state # "ABSENT" /\ op = "UNINSTALL"
  <2>1. o \in Uninstall(row)
    BY <1>6 DEF Outcomes
  <2>2. QED
    BY <1>6, <2>1 DEF Uninstall
<1>7. CASE row.state # "ABSENT" /\ op = "PURGE_INSTALLATION"
  <2>1. o \in RemoveUninstalled(row)
    BY <1>7 DEF Outcomes
  <2>2. QED
    BY <1>7, <2>1 DEF RemoveUninstalled
<1>8. QED
  BY <1>0, <1>1, <1>2, <1>3, <1>4, <1>5, <1>6, <1>7 DEF Ops

-----------------------------------------------------------------------------
(* Type correctness.  Attempt and stall counters stay in range because     *)
(* BullMQ delivers only jobs that have an attempt and a stall left; the    *)
(* command applied to an installation has a version because a job is       *)
(* delivered only after its row, with its payload, was created.            *)

BullInv == \A j \in Job : BullOK(bull[j])

WorkerInv ==
  \A w \in Worker :
    worker[w].pc # "idle" =>
      /\ worker[w].job \in Job
      /\ worker[w].attempt \in 1..Attempts
      /\ bull[worker[w].job].state # "absent"

Created(j) == jobs[j].status # "NONE"

SubmissionInv ==
  \A j \in Job :
    /\ submission[j].pc \in {"created", "undo"} \/ bull[j].state # "absent" => Created(j)
    /\ submission[j].pc = "read" => ~Created(j)
    /\ submission[j].pc = "created" => bull[j].state = "absent"
    /\ OpOf[j] # "ROLLBACK" =>
         /\ submission[j].pc = "read" => submission[j].target \in Version
         /\ Created(j) => jobs[j].target \in Version

IInv == TypeOK /\ BullInv /\ WorkerInv /\ SubmissionInv

USE ConstantsAssumption, DeliveryAssumption

LEMMA InitIInv == Init => IInv
<1> SUFFICES ASSUME Init PROVE IInv
  OBVIOUS
<1>1. TypeOK
  BY DEF Init, TypeOK, JobRow, JobStatus, Submission, BullJob, NoBullJob, WorkerSlot, Idle,
         InitialRows
<1>2. BullInv /\ WorkerInv /\ SubmissionInv
  BY DEF Init, BullInv, BullOK, NoBullJob, WorkerInv, SubmissionInv, Created, Idle
<1>3. QED
  BY <1>1, <1>2 DEF IInv

(* A worker moves on with the job it has: Goto and End.                    *)
LEMMA GotoOK ==
  ASSUME NEW w \in Worker, TypeOK,
         NEW pc \in {"claim", "lock", "run", "unlock", "record", "report"},
         NEW outcome \in {"returned", "thrown", "absent"},
         Goto(w, pc) \/ End(w, pc, outcome)
  PROVE  \E r \in WorkerSlot :
           /\ worker' = [worker EXCEPT ![w] = r]
           /\ r.pc = pc /\ r.job = worker[w].job /\ r.attempt = worker[w].attempt
           /\ r.outcome = IF Goto(w, pc) THEN worker[w].outcome ELSE outcome
<1> DEFINE slot == worker[w]
           r1 == [slot EXCEPT !.pc = pc]
           r2 == [slot EXCEPT !.pc = pc, !.outcome = outcome]
<1>1. slot \in WorkerSlot
  BY DEF TypeOK
<1> HIDE DEF slot
<1>2. r1 \in WorkerSlot /\ r1.pc = pc /\ r1.job = slot.job /\ r1.attempt = slot.attempt
      /\ r1.outcome = slot.outcome
  BY <1>1 DEF WorkerSlot
<1>3. r2 \in WorkerSlot /\ r2.pc = pc /\ r2.job = slot.job /\ r2.attempt = slot.attempt
      /\ r2.outcome = outcome
  BY <1>1 DEF WorkerSlot
<1>4. Goto(w, pc) => worker' = [worker EXCEPT ![w] = r1]
  BY DEF Goto, slot
<1>5. End(w, pc, outcome) => worker' = [worker EXCEPT ![w] = r2]
  BY DEF End, slot
<1> HIDE DEF r1, r2
<1>6. QED
  BY <1>2, <1>3, <1>4, <1>5 DEF slot

(* ... which keeps the workers' part of the invariant.                     *)
LEMMA WorkerStep ==
  ASSUME NEW w \in Worker, IInv, worker[w].pc # "idle",
         NEW pc \in {"claim", "lock", "run", "unlock", "record", "report"},
         NEW outcome \in {"returned", "thrown", "absent"},
         Goto(w, pc) \/ End(w, pc, outcome),
         UNCHANGED bull
  PROVE  worker' \in [Worker -> WorkerSlot] /\ WorkerInv'
<1>1. PICK r \in WorkerSlot :
        /\ worker' = [worker EXCEPT ![w] = r]
        /\ r.job = worker[w].job /\ r.attempt = worker[w].attempt
  BY GotoOK DEF IInv
<1>2. QED
  BY <1>1 DEF IInv, TypeOK, WorkerInv

(* A job row changes its status, not its payload.                          *)
LEMMA JobStep ==
  ASSUME NEW j \in Job, NEW r \in JobRow, IInv,
         jobs' = [jobs EXCEPT ![j] = r],
         Created(j), r.status # "NONE", r.target = jobs[j].target,
         UNCHANGED <<submission, bull>>
  PROVE  jobs' \in [Job -> JobRow] /\ SubmissionInv'
BY DEF IInv, TypeOK, SubmissionInv, Created

(* A delivered job moves on inside BullMQ.                                 *)
LEMMA BullStep ==
  ASSUME NEW j \in Job, NEW r \in BullJob, IInv,
         bull' = [bull EXCEPT ![j] = r],
         BullOK(r), r.state # "absent", bull[j].state # "absent"
  PROVE  /\ bull' \in [Job -> BullJob] /\ BullInv'
         /\ \A k \in Job : bull'[k].state # "absent" <=> bull[k].state # "absent"
BY DEF IInv, TypeOK, BullInv

LEMMA NextIInv == IInv /\ [Next]_vars => IInv'
<1> SUFFICES ASSUME IInv, [Next]_vars PROVE IInv'
  OBVIOUS
<1> USE DEF IInv
<1>1. ASSUME NEW j \in Job, ReadInstallation(j) PROVE IInv'
  <2> DEFINE t == IF OpOf[j] = "ROLLBACK" THEN installation[InstallationOf[j]].previous
                                         ELSE VersionOf[j]
             r == [pc |-> "read", target |-> t]
  <2>1. submission' = [submission EXCEPT ![j] = r]
    BY <1>1 DEF ReadInstallation
  <2>2. r \in Submission /\ r.pc = "read" /\ (OpOf[j] # "ROLLBACK" => r.target \in Version)
    BY DEF TypeOK, Row, Submission
  <2>3. ~Created(j)
    BY <1>1 DEF ReadInstallation, Created
  <2> HIDE DEF r
  <2>4. TypeOK'
    BY <1>1, <2>1, <2>2 DEF ReadInstallation, TypeOK
  <2>5. BullInv' /\ WorkerInv'
    BY <1>1 DEF ReadInstallation, BullInv, WorkerInv
  <2>6. SubmissionInv'
    BY <1>1, <2>1, <2>2, <2>3 DEF ReadInstallation, TypeOK, SubmissionInv, Created
  <2>7. QED
    BY <2>4, <2>5, <2>6
<1>2. ASSUME NEW j \in Job, CreateJob(j) PROVE IInv'
  <2> DEFINE row == [jobs[j] EXCEPT !.status = "QUEUED", !.target = submission[j].target]
             accepted == [submission[j] EXCEPT !.pc = "created"]
             refused == [submission[j] EXCEPT !.pc = "idle"]
  <2>1. jobs[j] \in JobRow /\ submission[j] \in Submission
    BY DEF TypeOK
  <2>2. row \in JobRow /\ row.status = "QUEUED" /\ row.target = submission[j].target
    BY <2>1 DEF JobRow, JobStatus, Submission
  <2>3. /\ accepted \in Submission /\ accepted.pc = "created"
        /\ refused \in Submission /\ refused.pc = "idle"
        /\ accepted.target = submission[j].target
    BY <2>1 DEF Submission
  <2>4. \/ jobs' = [jobs EXCEPT ![j] = row] /\ submission' = [submission EXCEPT ![j] = accepted]
        \/ jobs' = jobs /\ submission' = [submission EXCEPT ![j] = refused]
    BY <1>2 DEF CreateJob
  <2>5. submission[j].pc = "read" /\ UNCHANGED <<bull, worker, lock, installation, crashes, returned, author>>
    BY <1>2 DEF CreateJob
  <2> HIDE DEF row, accepted, refused
  <2>6. TypeOK'
    BY <2>2, <2>3, <2>4, <2>5 DEF TypeOK
  <2>7. BullInv' /\ WorkerInv'
    BY <2>5 DEF BullInv, WorkerInv
  <2>8. SubmissionInv'
    BY <2>2, <2>3, <2>4, <2>5 DEF TypeOK, SubmissionInv, Created
  <2>9. QED
    BY <2>6, <2>7, <2>8
<1>3. ASSUME NEW j \in Job, Enqueue(j) PROVE IInv'
  <2> DEFINE waiting == Added(bull[j])
             left(pc) == [submission[j] EXCEPT !.pc = pc]
  <2>1. bull[j] \in BullJob /\ submission[j] \in Submission /\ submission[j].pc = "created"
    BY <1>3 DEF TypeOK, Enqueue
  <2>2. bull[j].state = "absent" /\ Created(j)
    BY <2>1 DEF SubmissionInv
  <2>3. waiting \in BullJob /\ BullOK(waiting) /\ waiting.state = "waiting"
    BY <2>1, <2>2 DEF BullJob, BullInv, BullOK, Added
  <2>4. \A pc \in {"idle", "undo"} : left(pc) \in Submission /\ left(pc).pc = pc
    BY <2>1 DEF Submission
  <2>5. /\ bull' \in {bull, [bull EXCEPT ![j] = waiting]}
        /\ \E pc \in {"idle", "undo"} : submission' = [submission EXCEPT ![j] = left(pc)]
        /\ UNCHANGED <<jobs, worker, lock, installation, crashes, returned, author>>
    BY <1>3 DEF Enqueue
  <2> HIDE DEF waiting, left
  <2>6. bull' \in [Job -> BullJob] /\ BullInv'
        /\ \A k \in Job : k # j => bull'[k] = bull[k]
    BY <2>3, <2>5 DEF TypeOK, BullInv
  <2>7. TypeOK'
    <3>1. submission' \in [Job -> Submission]
      BY <2>4, <2>5 DEF TypeOK
    <3>2. QED
      BY <2>5, <2>6, <3>1 DEF TypeOK
  <2>8. WorkerInv'
    BY <2>2, <2>5, <2>6 DEF WorkerInv
  <2>9. SubmissionInv'
    BY <2>2, <2>4, <2>5, <2>6 DEF TypeOK, SubmissionInv, Created
  <2>10. QED
    BY <2>6, <2>7, <2>8, <2>9
<1>4. ASSUME NEW j \in Job, UndoSubmission(j) PROVE IInv'
  <2> DEFINE row == [jobs[j] EXCEPT !.status = "DELETED"]
             left == [submission[j] EXCEPT !.pc = "idle"]
  <2>1. jobs[j] \in JobRow /\ submission[j] \in Submission /\ submission[j].pc = "undo"
    BY <1>4 DEF TypeOK, UndoSubmission
  <2>2. row \in JobRow /\ row.status = "DELETED" /\ row.target = jobs[j].target
    BY <2>1 DEF JobRow, JobStatus
  <2>3. left \in Submission /\ left.pc = "idle"
    BY <2>1 DEF Submission
  <2>4. /\ jobs' = [jobs EXCEPT ![j] = row] /\ submission' = [submission EXCEPT ![j] = left]
        /\ UNCHANGED <<bull, worker, lock, installation, crashes, returned, author>>
    BY <1>4 DEF UndoSubmission
  <2> HIDE DEF row, left
  <2>5. TypeOK' /\ BullInv' /\ WorkerInv'
    BY <2>2, <2>3, <2>4 DEF TypeOK, BullInv, WorkerInv
  <2>6. SubmissionInv'
    BY <2>1, <2>2, <2>3, <2>4 DEF TypeOK, SubmissionInv, Created
  <2>7. QED
    BY <2>5, <2>6
<1>5. ASSUME NEW j \in Job, ApiCrash(j) PROVE IInv'
  <2> DEFINE left == [submission[j] EXCEPT !.pc = "idle"]
  <2>1. left \in Submission /\ left.pc = "idle"
    BY DEF TypeOK, Submission
  <2>2. /\ submission' = [submission EXCEPT ![j] = left]
        /\ UNCHANGED <<jobs, bull, worker, lock, installation, crashes, returned, author>>
    BY <1>5 DEF ApiCrash
  <2> HIDE DEF left
  <2>3. QED
    BY <2>1, <2>2 DEF TypeOK, BullInv, WorkerInv, SubmissionInv, Created
<1>6. ASSUME NEW j \in Job, Stall(j) PROVE IInv'
  <2> DEFINE r == AfterStall(bull[j])
  <2>1. bull[j] \in BullJob /\ bull[j].state = "active" /\ BullOK(bull[j])
    BY <1>6 DEF Stall, TypeOK, BullInv
  <2>2. r \in BullJob /\ BullOK(r) /\ r.state # "absent"
    BY <2>1, StallOK
  <2>3. bull' = [bull EXCEPT ![j] = r]
        /\ UNCHANGED <<jobs, submission, worker, lock, installation, crashes, returned, author>>
    BY <1>6 DEF Stall
  <2> HIDE DEF r
  <2>4. /\ bull' \in [Job -> BullJob] /\ BullInv'
        /\ \A k \in Job : bull'[k].state # "absent" <=> bull[k].state # "absent"
    BY <2>1, <2>2, <2>3, BullStep
  <2>5. QED
    BY <2>3, <2>4 DEF TypeOK, WorkerInv, SubmissionInv, Created
<1>7. ASSUME NEW j \in Job, GoesStale(j) PROVE IInv'
  <2> DEFINE r == [jobs[j] EXCEPT !.stale = TRUE]
  <2>1. r \in JobRow /\ r.status = jobs[j].status /\ r.target = jobs[j].target
    <3>1. ASSUME NEW row \in JobRow
          PROVE  LET q == [row EXCEPT !.stale = TRUE]
                 IN q \in JobRow /\ q.status = row.status /\ q.target = row.target
      BY DEF JobRow
    <3>2. jobs[j] \in JobRow
      BY DEF TypeOK
    <3>3. QED
      BY <3>1, <3>2
  <2>2. jobs[j].status = "RUNNING" /\ jobs' = [jobs EXCEPT ![j] = r]
        /\ UNCHANGED <<submission, bull, worker, lock, installation, crashes, returned, author>>
    BY <1>7 DEF GoesStale
  <2> HIDE DEF r
  <2>3. jobs' \in [Job -> JobRow] /\ SubmissionInv'
    BY <2>1, <2>2, JobStep DEF Created
  <2>4. QED
    BY <2>2, <2>3 DEF TypeOK, BullInv, WorkerInv
<1>8. ASSUME NEW i \in Installation, ApiChange(i) PROVE IInv'
  <2>1. Requested(installation[i]) \in Row /\ Approved(installation[i]) \in Row
    <3>1. ASSUME NEW row \in Row PROVE Requested(row) \in Row /\ Approved(row) \in Row
      BY DEF Requested, Approved, Row, States
    <3>2. installation[i] \in Row
      BY DEF TypeOK
    <3>3. QED
      BY <3>1, <3>2
  <2>2. installation' \in [Installation -> Row] /\ author' \in [Installation -> Job \cup {Api}]
    BY <1>8, <2>1 DEF ApiChange, TypeOK
  <2>3. UNCHANGED <<jobs, submission, bull, worker, lock, crashes, returned>>
    BY <1>8 DEF ApiChange
  <2>4. QED
    BY <2>2, <2>3 DEF TypeOK, BullInv, WorkerInv, SubmissionInv, Created
<1>9. ASSUME NEW i \in Installation, LockExpires(i) PROVE IInv'
  BY <1>9 DEF LockExpires, TypeOK, BullInv, WorkerInv, SubmissionInv, Created
<1>10. ASSUME NEW w \in Worker, NEW j \in Job, Fetch(w, j) PROVE IInv'
  <2> DEFINE b == Taken(bull[j], w)
             r == [Idle EXCEPT !.pc = "read", !.job = j, !.attempt = bull[j].made + 1]
  <2>1. bull[j] \in BullJob /\ bull[j].state = "waiting" /\ BullOK(bull[j])
    BY <1>10 DEF Fetch, TypeOK, BullInv
  <2>2. b \in BullJob /\ BullOK(b) /\ b.state # "absent"
    BY <2>1, TakenOK
  <2>3. r \in WorkerSlot /\ r.job = j /\ r.attempt \in 1..Attempts
    <3>1. bull[j].made + 1 \in 1..Attempts
      BY <2>1 DEF BullJob, BullOK
    <3>2. ASSUME NEW n \in 0..Attempts
          PROVE  LET s == [Idle EXCEPT !.pc = "read", !.job = j, !.attempt = n]
                 IN s \in WorkerSlot /\ s.job = j /\ s.attempt = n
      BY DEF WorkerSlot, Idle
    <3>3. bull[j].made + 1 \in 0..Attempts
      BY <3>1
    <3> HIDE DEF Idle
    <3>4. QED
      BY <3>1, <3>2, <3>3
  <2>4. /\ bull' = [bull EXCEPT ![j] = b] /\ worker' = [worker EXCEPT ![w] = r]
        /\ UNCHANGED <<jobs, submission, lock, installation, crashes, returned, author>>
    BY <1>10 DEF Fetch
  <2> HIDE DEF b, r
  <2>5. /\ bull' \in [Job -> BullJob] /\ BullInv'
        /\ \A k \in Job : bull'[k].state # "absent" <=> bull[k].state # "absent"
    BY <2>1, <2>2, <2>4, BullStep
  <2>6. QED
    BY <2>1, <2>3, <2>4, <2>5 DEF TypeOK, WorkerInv, SubmissionInv, Created
<1>11. ASSUME NEW w \in Worker, ReadJob(w) PROVE IInv'
  <2>1. /\ worker[w].pc = "read"
        /\ Goto(w, "claim") \/ \E o \in {"returned", "thrown"} : End(w, "report", o)
        /\ UNCHANGED <<jobs, submission, bull, lock, installation, crashes, returned, author>>
    BY <1>11 DEF ReadJob
  <2>2. worker' \in [Worker -> WorkerSlot] /\ WorkerInv'
    BY <2>1, WorkerStep
  <2>3. QED
    BY <2>1, <2>2 DEF TypeOK, BullInv, SubmissionInv, Created
<1>12. ASSUME NEW w \in Worker, Claim(w) PROVE IInv'
  <2> DEFINE j == worker[w].job
             r == [jobs[j] EXCEPT !.status = "RUNNING", !.stale = FALSE,
                                  !.attempts = worker[w].attempt]
  <2>1. /\ worker[w].pc = "claim"
        /\ \/ jobs' = [jobs EXCEPT ![j] = r] /\ Goto(w, "lock")
           \/ jobs' = jobs /\ End(w, "report", "thrown")
        /\ UNCHANGED <<submission, bull, lock, installation, crashes, returned, author>>
    BY <1>12 DEF Claim
  <2>2. j \in Job /\ worker[w].attempt \in 1..Attempts /\ Created(j)
    BY <2>1 DEF WorkerInv, SubmissionInv
  <2>3. jobs[j] \in JobRow
    BY <2>2 DEF TypeOK
  <2>4. r \in JobRow /\ r.status # "NONE" /\ r.target = jobs[j].target
    <3>1. ASSUME NEW row \in JobRow, NEW n \in 0..Attempts
          PROVE  LET c == [row EXCEPT !.status = "RUNNING", !.stale = FALSE, !.attempts = n]
                 IN c \in JobRow /\ c.status # "NONE" /\ c.target = row.target
      <4> DEFINE c == [row EXCEPT !.status = "RUNNING", !.stale = FALSE, !.attempts = n]
             c1 == [row EXCEPT !.status = "RUNNING"]
             c2 == [c1 EXCEPT !.stale = FALSE]
      <4>1. c1 \in JobRow /\ c1.status = "RUNNING" /\ c1.target = row.target
        BY DEF JobRow, JobStatus
      <4>2. c = [c2 EXCEPT !.attempts = n]
        OBVIOUS
      <4> HIDE DEF c1, c
      <4>3. c2 \in JobRow /\ c2.status = "RUNNING" /\ c2.target = row.target
        BY <4>1 DEF JobRow
      <4> HIDE DEF c2
      <4>4. c \in JobRow /\ c.status = "RUNNING" /\ c.target = row.target
        BY <4>2, <4>3 DEF JobRow
      <4>5. QED
        BY <4>4 DEF c
    <3>2. worker[w].attempt \in 0..Attempts
      BY <2>2
    <3>3. QED
      BY <2>3, <3>1, <3>2
  <2> HIDE DEF r, j
  <2>5. worker' \in [Worker -> WorkerSlot] /\ WorkerInv'
    BY <2>1, WorkerStep
  <2>6. jobs' \in [Job -> JobRow] /\ SubmissionInv'
    <3>1. CASE jobs' = [jobs EXCEPT ![j] = r]
      BY <2>1, <2>2, <2>4, <3>1, JobStep
    <3>2. CASE jobs' = jobs
      BY <2>1, <3>2 DEF TypeOK, SubmissionInv, Created
    <3>3. QED
      BY <2>1, <3>1, <3>2
  <2>7. QED
    BY <2>1, <2>5, <2>6 DEF TypeOK, BullInv
<1>13. ASSUME NEW w \in Worker, Acquire(w) PROVE IInv'
  <2>1. /\ worker[w].pc = "lock"
        /\ \/ lock' = [lock EXCEPT ![InstallationOf[worker[w].job]] = w] /\ Goto(w, "run")
           \/ lock' = lock /\ End(w, "record", "thrown")
        /\ UNCHANGED <<jobs, submission, bull, installation, crashes, returned, author>>
    BY <1>13 DEF Acquire
  <2>2. worker' \in [Worker -> WorkerSlot] /\ WorkerInv'
    BY <2>1, WorkerStep
  <2>3. lock' \in [Installation -> Worker \cup {Free, Orphan}]
    BY <2>1 DEF TypeOK
  <2>4. QED
    BY <2>1, <2>2, <2>3 DEF TypeOK, BullInv, SubmissionInv, Created
<1>14. ASSUME NEW w \in Worker, Run(w) PROVE IInv'
  <2> DEFINE j == worker[w].job
             i == InstallationOf[j]
  <2>1. worker[w].pc = "run"
    BY <1>14 DEF Run
  <2>2. j \in Job /\ Created(j) /\ i \in Installation
    BY <2>1 DEF WorkerInv, SubmissionInv
  <2>3. PICK o \in Outcomes(OpOf[j], jobs[j].target, installation[i]) :
          /\ installation' = [installation EXCEPT ![i] = o.row]
          /\ author' = IF o.row = installation[i] THEN author ELSE [author EXCEPT ![i] = j]
          /\ returned' = IF o.kind = "returned" THEN returned \cup {j} ELSE returned
          /\ End(w, "unlock", o.kind)
    BY <1>14 DEF Run
  <2>4. UNCHANGED <<jobs, submission, bull, lock, crashes>>
    BY <1>14 DEF Run
  <2>5. /\ jobs[j].target \in Version \cup {NoVersion} /\ installation[i] \in Row
        /\ OpOf[j] \in Ops /\ (OpOf[j] # "ROLLBACK" => jobs[j].target \in Version)
    BY <2>2 DEF TypeOK, JobRow, SubmissionInv
  <2>6. o.row \in Row /\ o.kind \in {"returned", "thrown", "absent"}
    BY <2>3, <2>5, OutcomesOK DEF Outcome
  <2>7. worker' \in [Worker -> WorkerSlot] /\ WorkerInv'
    BY <2>1, <2>3, <2>4, <2>6, WorkerStep
  <2> HIDE DEF j, i
  <2>8. installation' \in [Installation -> Row] /\ returned' \subseteq Job
        /\ author' \in [Installation -> Job \cup {Api}]
    BY <2>2, <2>3, <2>6 DEF TypeOK
  <2>9. QED
    BY <2>4, <2>7, <2>8 DEF TypeOK, BullInv, SubmissionInv, Created
<1>15. ASSUME NEW w \in Worker, Release(w) PROVE IInv'
  <2>1. /\ worker[w].pc = "unlock" /\ Goto(w, "record")
        /\ \/ lock' = lock
           \/ \E left \in {Free, Orphan} :
                lock' = [lock EXCEPT ![InstallationOf[worker[w].job]] = left]
        /\ UNCHANGED <<jobs, submission, bull, installation, crashes, returned, author>>
    BY <1>15 DEF Release
  <2>2. worker' \in [Worker -> WorkerSlot] /\ WorkerInv'
    BY <2>1, WorkerStep
  <2>3. lock' \in [Installation -> Worker \cup {Free, Orphan}]
    BY <2>1 DEF TypeOK
  <2>4. QED
    BY <2>1, <2>2, <2>3 DEF TypeOK, BullInv, SubmissionInv, Created
<1>16. ASSUME NEW w \in Worker, Record(w) PROVE IInv'
  <2> DEFINE j == worker[w].job
             s == IF Succeeds(w) THEN "SUCCEEDED" ELSE "FAILED"
             r == [jobs[j] EXCEPT !.status = s]
  <2>1. /\ worker[w].pc = "record"
        /\ jobs' \in {jobs, [jobs EXCEPT ![j] = r]}
        /\ \E o \in {"returned", "thrown"} : End(w, "report", o)
        /\ UNCHANGED <<submission, bull, lock, installation, crashes, returned, author>>
    BY <1>16 DEF Record
  <2>2. j \in Job /\ Created(j)
    BY <2>1 DEF WorkerInv, SubmissionInv
  <2>3. jobs[j] \in JobRow
    BY <2>2 DEF TypeOK
  <2>4. r \in JobRow /\ r.status # "NONE" /\ r.target = jobs[j].target
    BY <2>3 DEF JobRow, JobStatus
  <2> HIDE DEF r, j
  <2>5. worker' \in [Worker -> WorkerSlot] /\ WorkerInv'
    BY <2>1, WorkerStep
  <2>6. jobs' \in [Job -> JobRow] /\ SubmissionInv'
    <3>1. CASE jobs' = [jobs EXCEPT ![j] = r]
      BY <2>1, <2>2, <2>4, <3>1, JobStep
    <3>2. CASE jobs' = jobs
      BY <2>1, <3>2 DEF TypeOK, SubmissionInv, Created
    <3>3. QED
      BY <2>1, <3>1, <3>2
  <2>7. QED
    BY <2>1, <2>5, <2>6 DEF TypeOK, BullInv
<1>17. ASSUME NEW w \in Worker, Report(w) PROVE IInv'
  <2> DEFINE j == worker[w].job
             r == Reported(bull[j], w, worker[w].outcome = "returned")
  <2>1. /\ worker[w].pc = "report" /\ worker' = [worker EXCEPT ![w] = Idle]
        /\ UNCHANGED <<jobs, submission, lock, installation, crashes, returned, author>>
        /\ bull' = [bull EXCEPT ![j] = r]
    BY <1>17 DEF Report
  <2>2. j \in Job /\ bull[j].state # "absent"
    BY <2>1 DEF WorkerInv
  <2>3. bull[j] \in BullJob /\ BullOK(bull[j])
    BY <2>2 DEF TypeOK, BullInv
  <2>4. (worker[w].outcome = "returned") \in BOOLEAN
    OBVIOUS
  <2>5. r \in BullJob /\ BullOK(r) /\ r.state # "absent"
    BY <2>2, <2>3, <2>4, ReportedOK
  <2>6. Idle \in WorkerSlot /\ Idle.pc = "idle"
    BY DEF Idle, WorkerSlot
  <2> HIDE DEF j, r
  <2>7. /\ bull' \in [Job -> BullJob] /\ BullInv'
        /\ \A k \in Job : bull'[k].state # "absent" <=> bull[k].state # "absent"
    BY <2>1, <2>2, <2>5, BullStep
  <2> HIDE DEF Idle
  <2>8. worker' \in [Worker -> WorkerSlot] /\ WorkerInv'
    BY <2>1, <2>6, <2>7 DEF TypeOK, WorkerInv
  <2>9. QED
    BY <2>1, <2>7, <2>8 DEF TypeOK, SubmissionInv, Created
<1>18. ASSUME NEW w \in Worker, Crash(w) PROVE IInv'
  <2> DEFINE b(k) == IF bull[k].owner = w THEN Abandoned(bull[k]) ELSE bull[k]
  <2>1. /\ worker' = [worker EXCEPT ![w] = Idle] /\ bull' = [k \in Job |-> b(k)]
        /\ lock' = [i \in Installation |-> IF lock[i] = w THEN Orphan ELSE lock[i]]
        /\ crashes < MaxCrashes /\ crashes' = crashes + 1
        /\ UNCHANGED <<jobs, submission, installation, returned, author>>
    BY <1>18 DEF Crash
  <2>2. \A k \in Job : bull[k] \in BullJob /\ BullOK(bull[k])
    BY DEF TypeOK, BullInv
  <2>3. \A k \in Job : b(k) \in BullJob /\ BullOK(b(k)) /\ b(k).state = bull[k].state
    BY <2>2, AbandonedOK
  <2>4. Idle \in WorkerSlot /\ Idle.pc = "idle"
    BY DEF Idle, WorkerSlot
  <2> HIDE DEF b, Idle
  <2>5. bull' \in [Job -> BullJob] /\ BullInv' /\ SubmissionInv'
    BY <2>1, <2>3 DEF BullInv, SubmissionInv, Created
  <2>6. worker' \in [Worker -> WorkerSlot] /\ WorkerInv'
    BY <2>1, <2>3, <2>4 DEF TypeOK, WorkerInv
  <2>7. QED
    BY <2>1, <2>5, <2>6 DEF TypeOK
<1>19. CASE UNCHANGED vars
  BY <1>19 DEF vars, TypeOK, BullInv, WorkerInv, SubmissionInv, Created
<1>20. QED
  BY <1>1, <1>2, <1>3, <1>4, <1>5, <1>6, <1>7, <1>8, <1>9, <1>10, <1>11, <1>12, <1>13,
     <1>14, <1>15, <1>16, <1>17, <1>18, <1>19 DEF Next, Submit, Execute

(* Every reachable state is well typed: attempts never exceed the number   *)
(* BullMQ was given, and no command runs without the payload it needs.     *)
THEOREM TypeCorrect == Spec => []TypeOK
<1>1. Spec => []IInv
  BY InitIInv, NextIInv, PTL DEF Spec
<1>2. IInv => TypeOK
  BY DEF IInv
<1>3. QED
  BY <1>1, <1>2, PTL

-----------------------------------------------------------------------------
(* Mutual exclusion.  A worker that runs a command holds the lock of the   *)
(* installation: it set the key when it was free, only its own release may *)
(* delete it, and while no command is slow the key does not expire under   *)
(* it.  The key has one value, so two workers cannot both be there.        *)

LockInv ==
  \A w \in Worker : worker[w].pc = "run" => lock[InstallationOf[worker[w].job]] = w

LEMMA NextLockInv ==
  ASSUME ~SlowCommands, IInv, LockInv, [Next]_vars
  PROVE  LockInv'
<1> USE DEF IInv
<1>1. CASE UNCHANGED <<worker, lock>>
  BY <1>1 DEF LockInv
<1>2. ASSUME NEW w \in Worker, worker[w].pc # "run", UNCHANGED lock,
             NEW pc \in {"claim", "lock", "unlock", "record", "report"},
             NEW o \in {"returned", "thrown", "absent"}, Goto(w, pc) \/ End(w, pc, o)
      PROVE  LockInv'
  <2>1. PICK r \in WorkerSlot : worker' = [worker EXCEPT ![w] = r] /\ r.pc = pc
    BY <1>2, GotoOK
  <2>2. QED
    BY <1>2, <2>1 DEF LockInv, TypeOK
<1>3. ASSUME NEW i \in Installation, LockExpires(i) PROVE LockInv'
  <2>1. lock[i] = Orphan /\ lock' = [lock EXCEPT ![i] = Free] /\ UNCHANGED worker
    BY <1>3 DEF LockExpires
  <2>2. QED
    BY <2>1 DEF LockInv, TypeOK, WorkerInv
<1>4. ASSUME NEW w \in Worker, NEW j \in Job, Fetch(w, j) PROVE LockInv'
  <2> DEFINE r == [Idle EXCEPT !.pc = "read", !.job = j, !.attempt = bull[j].made + 1]
  <2>1. worker' = [worker EXCEPT ![w] = r] /\ r.pc = "read" /\ UNCHANGED lock
    BY <1>4 DEF Fetch, Idle
  <2> HIDE DEF r
  <2>2. QED
    BY <2>1 DEF LockInv, TypeOK
<1>5. ASSUME NEW w \in Worker, ReadJob(w) PROVE LockInv'
  <2>1. /\ worker[w].pc = "read" /\ UNCHANGED lock
        /\ Goto(w, "claim") \/ \E o \in {"returned", "thrown"} : End(w, "report", o)
    BY <1>5 DEF ReadJob
  <2>2. QED
    BY <2>1, <1>2
<1>6. ASSUME NEW w \in Worker, Claim(w) PROVE LockInv'
  <2>1. /\ worker[w].pc = "claim" /\ UNCHANGED lock
        /\ Goto(w, "lock") \/ End(w, "report", "thrown")
    BY <1>6 DEF Claim
  <2>2. QED
    BY <2>1, <1>2
<1>7. ASSUME NEW w \in Worker, Acquire(w) PROVE LockInv'
  <2> DEFINE i == InstallationOf[worker[w].job]
  <2>1. /\ worker[w].pc = "lock"
        /\ \/ lock[i] = Free /\ lock' = [lock EXCEPT ![i] = w] /\ Goto(w, "run")
           \/ End(w, "record", "thrown") /\ UNCHANGED lock
    BY <1>7 DEF Acquire
  <2>2. CASE End(w, "record", "thrown") /\ UNCHANGED lock
    BY <2>1, <2>2, <1>2
  <2>3. CASE lock[i] = Free /\ lock' = [lock EXCEPT ![i] = w] /\ Goto(w, "run")
    <3>1. PICK r \in WorkerSlot : worker' = [worker EXCEPT ![w] = r] /\ r.job = worker[w].job
      BY <2>3, GotoOK
    <3>2. i \in Installation
      BY <2>1 DEF WorkerInv
    <3>3. ASSUME NEW x \in Worker, worker'[x].pc = "run"
          PROVE  lock'[InstallationOf[worker'[x].job]] = x
      <4>1. CASE x = w
        BY <2>3, <3>1, <3>2, <4>1 DEF TypeOK
      <4>2. CASE x # w
        <5>1. worker'[x] = worker[x]
          BY <3>1, <4>2 DEF TypeOK
        <5>2. lock[InstallationOf[worker[x].job]] = x
          BY <3>3, <5>1 DEF LockInv
        <5>3. InstallationOf[worker[x].job] # i
          BY <2>3, <5>2
        <5>4. InstallationOf[worker[x].job] \in Installation
          BY <3>3, <5>1 DEF WorkerInv
        <5> HIDE DEF i
        <5>5. QED
          BY <2>3, <3>2, <5>1, <5>2, <5>3, <5>4 DEF TypeOK
      <4>3. QED
        BY <4>1, <4>2
    <3>4. QED
      BY <3>3 DEF LockInv
  <2>4. QED
    BY <2>1, <2>2, <2>3
<1>8. ASSUME NEW w \in Worker, Run(w) PROVE LockInv'
  <2> DEFINE j == worker[w].job
  <2>1. worker[w].pc = "run" /\ UNCHANGED lock
    BY <1>8 DEF Run
  <2>2. PICK o \in Outcomes(OpOf[j], jobs[j].target, installation[InstallationOf[j]]) :
          End(w, "unlock", o.kind)
    BY <1>8 DEF Run
  <2>3. worker' = [worker EXCEPT ![w] = [worker[w] EXCEPT !.pc = "unlock", !.outcome = o.kind]]
    BY <2>2 DEF End
  <2>4. \A x \in Worker : worker'[x].pc = "run" => worker'[x] = worker[x]
    BY <2>3 DEF TypeOK, WorkerSlot
  <2>5. QED
    BY <2>1, <2>4 DEF LockInv
<1>9. ASSUME NEW w \in Worker, Release(w) PROVE LockInv'
  <2> DEFINE i == InstallationOf[worker[w].job]
  <2>1. /\ worker[w].pc = "unlock" /\ Goto(w, "record")
        /\ \/ UNCHANGED lock
           \/ lock[i] = w /\ \E left \in {Free, Orphan} : lock' = [lock EXCEPT ![i] = left]
    BY <1>9 DEF Release
  <2>2. PICK r \in WorkerSlot : worker' = [worker EXCEPT ![w] = r] /\ r.pc = "record"
    BY <2>1, GotoOK
  <2>3. \A x \in Worker : worker'[x].pc = "run" => worker'[x] = worker[x] /\ x # w
    BY <2>2 DEF TypeOK
  <2>4. ASSUME NEW x \in Worker, worker'[x].pc = "run"
        PROVE  lock'[InstallationOf[worker'[x].job]] = x
    <3>1. worker'[x] = worker[x] /\ x # w
      BY <2>3, <2>4
    <3>2. lock[InstallationOf[worker[x].job]] = x
      BY <2>4, <3>1 DEF LockInv
    <3>3. InstallationOf[worker[x].job] \in Installation
      BY <2>4, <3>1 DEF WorkerInv
    <3>4. lock[i] = w => InstallationOf[worker[x].job] # i
      BY <3>1, <3>2
    <3> HIDE DEF i
    <3>5. CASE UNCHANGED lock
      BY <3>1, <3>2, <3>5
    <3>6. ASSUME lock[i] = w, NEW left \in {Free, Orphan}, lock' = [lock EXCEPT ![i] = left]
          PROVE  lock'[InstallationOf[worker'[x].job]] = x
      BY <3>1, <3>2, <3>3, <3>4, <3>6 DEF TypeOK
    <3>7. QED
      BY <2>1, <3>5, <3>6
  <2>5. QED
    BY <2>4 DEF LockInv
<1>10. ASSUME NEW w \in Worker, Record(w) PROVE LockInv'
  <2>1. /\ worker[w].pc = "record" /\ UNCHANGED lock
        /\ \E o \in {"returned", "thrown"} : End(w, "report", o)
    BY <1>10 DEF Record
  <2>2. QED
    BY <2>1, <1>2
<1>11. ASSUME NEW w \in Worker, Report(w) PROVE LockInv'
  <2>1. worker' = [worker EXCEPT ![w] = Idle] /\ Idle.pc = "idle" /\ UNCHANGED lock
    BY <1>11 DEF Report, Idle
  <2>2. QED
    BY <2>1 DEF LockInv, TypeOK
<1>12. ASSUME NEW w \in Worker, Crash(w) PROVE LockInv'
  <2>1. /\ worker' = [worker EXCEPT ![w] = Idle] /\ Idle.pc = "idle"
        /\ lock' = [i \in Installation |-> IF lock[i] = w THEN Orphan ELSE lock[i]]
    BY <1>12 DEF Crash, Idle
  <2>2. QED
    BY <2>1 DEF LockInv, TypeOK, WorkerInv
<1>13. QED
  BY <1>1, <1>3, <1>4, <1>5, <1>6, <1>7, <1>8, <1>9, <1>10, <1>11, <1>12
     DEF Next, Submit, Execute, vars, ReadInstallation, CreateJob, Enqueue, UndoSubmission,
         ApiCrash, ApiChange, Stall, GoesStale

(* Two commands of one installation never run at the same time, whatever   *)
(* the numbers of jobs, workers, retries, stalls and crashes, provided no  *)
(* command outlasts the lock (EXTENSION_COMMAND_LOCK_MS).                  *)
THEOREM CommandsExclude == ~SlowCommands => (Spec => []MutualExclusion)
<1> SUFFICES ASSUME ~SlowCommands PROVE Spec => []MutualExclusion
  OBVIOUS
<1>1. Init => LockInv
  BY DEF Init, LockInv, Idle
<1>2. IInv /\ LockInv /\ [Next]_vars => LockInv'
  BY NextLockInv
<1>3. LockInv => MutualExclusion
  BY DEF LockInv, MutualExclusion
<1>4. Spec => [](IInv /\ LockInv)
  BY InitIInv, NextIInv, <1>1, <1>2, PTL DEF Spec
<1>5. QED
  BY <1>3, <1>4, PTL

-----------------------------------------------------------------------------
(* Recorded success is real.  What a worker carries from its command to    *)
(* its final write stays true meanwhile: a command that returned has       *)
(* returned, and an installation that was gone is gone for good, because   *)
(* neither a command nor a handler of the API brings a row back.           *)

Gone(j) == installation[InstallationOf[j]].state = "ABSENT"

(* What the outcome a worker still has to record says.                     *)
OutcomeTrue(w) ==
  /\ worker[w].outcome = "returned" => worker[w].job \in returned
  /\ worker[w].outcome = "absent" => Gone(worker[w].job)

OutcomeInv ==
  \A w \in Worker : worker[w].pc \in {"unlock", "record"} => OutcomeTrue(w)

SuccessInv == OutcomeInv /\ SuccessIsReal

(* A step that neither takes a returned job nor a missing row back, gives  *)
(* no job success and no worker an outcome to record, changes nothing.     *)
LEMMA SuccessKept ==
  ASSUME IInv, SuccessInv,
         \A j \in Job : jobs'[j].status = "SUCCEEDED" => jobs[j].status = "SUCCEEDED",
         returned \subseteq returned',
         \A i \in Installation :
           installation[i].state = "ABSENT" => installation'[i].state = "ABSENT",
         \A w \in Worker : worker'[w].pc \in {"unlock", "record"} =>
           /\ worker'[w].job = worker[w].job
           /\ \/ worker'[w].outcome = "thrown"
              \/ /\ worker[w].pc \in {"unlock", "record"}
                 /\ worker'[w].outcome = worker[w].outcome
              \/ OutcomeTrue(w)'
  PROVE  SuccessInv'
<1>1. \A j \in Job : Gone(j) => Gone(j)'
  BY DEF Gone
<1>2. SuccessIsReal'
  BY <1>1 DEF SuccessInv, SuccessIsReal, Gone
<1>3. ASSUME NEW w \in Worker, worker'[w].pc \in {"unlock", "record"} PROVE OutcomeTrue(w)'
  <2>1. CASE worker'[w].outcome = "thrown"
    BY <2>1 DEF OutcomeTrue
  <2>2. CASE /\ worker[w].pc \in {"unlock", "record"}
             /\ worker'[w].outcome = worker[w].outcome
    <3>1. OutcomeTrue(w) /\ worker'[w].job = worker[w].job /\ worker[w].job \in Job
      BY <1>3, <2>2 DEF SuccessInv, OutcomeInv, IInv, WorkerInv
    <3>2. worker'[w].outcome = "returned" => worker'[w].job \in returned'
      BY <2>2, <3>1 DEF OutcomeTrue
    <3>3. worker'[w].outcome = "absent" => Gone(worker[w].job)'
      BY <1>1, <2>2, <3>1 DEF OutcomeTrue
    <3>4. QED
      BY <3>1, <3>2, <3>3 DEF OutcomeTrue, Gone
  <2>3. QED
    BY <1>3, <2>1, <2>2
<1>4. QED
  BY <1>2, <1>3 DEF SuccessInv, OutcomeInv

LEMMA NextSuccessInv ==
  ASSUME IInv, SuccessInv, [Next]_vars
  PROVE  SuccessInv'
<1> USE DEF IInv
<1>1. ASSUME NEW j \in Job, Submit(j) \/ ApiCrash(j) \/ Stall(j) \/ GoesStale(j)
      PROVE  SuccessInv'
  <2>1. UNCHANGED <<worker, installation, returned>>
    BY <1>1 DEF Submit, ReadInstallation, CreateJob, Enqueue, UndoSubmission, ApiCrash, Stall,
                GoesStale
  <2> DEFINE c1 == [jobs[j] EXCEPT !.stale = TRUE]
             c2 == [jobs[j] EXCEPT !.status = "DELETED"]
             c3 == [jobs[j] EXCEPT !.status = "QUEUED", !.target = submission[j].target]
  <2>2. jobs' \in {jobs, [jobs EXCEPT ![j] = c1], [jobs EXCEPT ![j] = c2],
                   [jobs EXCEPT ![j] = c3]}
    BY <1>1 DEF Submit, ReadInstallation, CreateJob, Enqueue, UndoSubmission, ApiCrash, Stall,
                GoesStale
  <2>3. /\ c1.status = jobs[j].status
        /\ c2.status = "DELETED"
        /\ c3.status = "QUEUED"
    BY DEF TypeOK, JobRow
  <2> HIDE DEF c1, c2, c3
  <2>4. ASSUME NEW k \in Job, jobs'[k].status = "SUCCEEDED" PROVE jobs[k].status = "SUCCEEDED"
    BY <2>2, <2>3, <2>4 DEF TypeOK
  <2>5. QED
    BY <2>1, <2>4, SuccessKept
<1>2. ASSUME NEW i \in Installation, ApiChange(i) \/ LockExpires(i) PROVE SuccessInv'
  <2>1. UNCHANGED <<worker, jobs, returned>>
    BY <1>2 DEF ApiChange, LockExpires
  <2>2. \A k \in Installation :
          installation[k].state = "ABSENT" => installation'[k].state = "ABSENT"
    BY <1>2 DEF ApiChange, LockExpires, TypeOK, CanRequest, CanApprove
  <2>3. QED
    BY <2>1, <2>2, SuccessKept
<1>3. ASSUME NEW w \in Worker, NEW r, worker' = [worker EXCEPT ![w] = r],
             r.pc \notin {"unlock", "record"} \/ (r.job = worker[w].job /\ r.outcome = "thrown"),
             \A j \in Job : jobs'[j].status = "SUCCEEDED" => jobs[j].status = "SUCCEEDED",
             UNCHANGED <<installation, returned>>
      PROVE  SuccessInv'
  <2>1. ASSUME NEW x \in Worker, worker'[x].pc \in {"unlock", "record"}
        PROVE  /\ worker'[x].job = worker[x].job
               /\ worker'[x].outcome = "thrown" \/ worker'[x] = worker[x]
    BY <1>3, <2>1 DEF TypeOK
  <2>2. QED
    BY <1>3, <2>1, SuccessKept
<1>4. ASSUME NEW w \in Worker, NEW j \in Job, Fetch(w, j) PROVE SuccessInv'
  <2> DEFINE r == [Idle EXCEPT !.pc = "read", !.job = j, !.attempt = bull[j].made + 1]
  <2>1. worker' = [worker EXCEPT ![w] = r] /\ UNCHANGED <<jobs, installation, returned>>
    BY <1>4 DEF Fetch
  <2>2. r.pc = "read"
    BY DEF Idle
  <2> HIDE DEF r
  <2>3. QED
    BY <1>3, <2>1, <2>2
<1>5. ASSUME NEW w \in Worker, ReadJob(w) PROVE SuccessInv'
  <2>1. PICK pc \in {"claim", "report"}, o \in {"returned", "thrown"} : Goto(w, pc) \/ End(w, pc, o)
    BY <1>5 DEF ReadJob
  <2>2. PICK r \in WorkerSlot : worker' = [worker EXCEPT ![w] = r] /\ r.pc = pc
    BY <2>1, GotoOK
  <2>3. UNCHANGED <<jobs, installation, returned>>
    BY <1>5 DEF ReadJob
  <2>4. QED
    BY <1>3, <2>2, <2>3
<1>6. ASSUME NEW w \in Worker, Claim(w) PROVE SuccessInv'
  <2> DEFINE j == worker[w].job
             c == [jobs[j] EXCEPT !.status = "RUNNING", !.stale = FALSE,
                                  !.attempts = worker[w].attempt]
  <2>1. Goto(w, "lock") \/ End(w, "report", "thrown")
    BY <1>6 DEF Claim
  <2>2. PICK r \in WorkerSlot :
          worker' = [worker EXCEPT ![w] = r] /\ r.pc \notin {"unlock", "record"}
    BY <2>1, GotoOK
  <2>3. UNCHANGED <<installation, returned>> /\ jobs' \in {jobs, [jobs EXCEPT ![j] = c]}
        /\ j \in Job
    BY <1>6 DEF Claim, WorkerInv
  <2>4. c.status = "RUNNING"
    BY <2>3 DEF TypeOK, JobRow
  <2> HIDE DEF j, c
  <2>5. \A k \in Job : jobs'[k].status = "SUCCEEDED" => jobs[k].status = "SUCCEEDED"
    BY <2>3, <2>4 DEF TypeOK
  <2>6. QED
    BY <1>3, <2>2, <2>3, <2>5
<1>7. ASSUME NEW w \in Worker, Acquire(w) PROVE SuccessInv'
  <2>1. /\ UNCHANGED <<jobs, installation, returned>>
        /\ Goto(w, "run") \/ End(w, "record", "thrown")
    BY <1>7 DEF Acquire
  <2>2. CASE Goto(w, "run")
    <3>1. PICK r \in WorkerSlot : worker' = [worker EXCEPT ![w] = r] /\ r.pc = "run"
      BY <2>2, GotoOK
    <3>2. QED
      BY <1>3, <2>1, <3>1
  <2>3. CASE End(w, "record", "thrown")
    <3> DEFINE r == [worker[w] EXCEPT !.pc = "record", !.outcome = "thrown"]
    <3>1. worker' = [worker EXCEPT ![w] = r]
      BY <2>3 DEF End
    <3>2. r.job = worker[w].job /\ r.outcome = "thrown"
      BY DEF TypeOK, WorkerSlot
    <3> HIDE DEF r
    <3>3. QED
      BY <1>3, <2>1, <3>1, <3>2
  <2>4. QED
    BY <2>1, <2>2, <2>3
<1>8. ASSUME NEW w \in Worker, Run(w) PROVE SuccessInv'
  <2> DEFINE j == worker[w].job
             i == InstallationOf[j]
  <2>1. worker[w].pc = "run" /\ UNCHANGED jobs
    BY <1>8 DEF Run
  <2>2. j \in Job /\ Created(j) /\ i \in Installation
    BY <2>1 DEF WorkerInv, SubmissionInv
  <2>3. PICK o \in Outcomes(OpOf[j], jobs[j].target, installation[i]) :
          /\ installation' = [installation EXCEPT ![i] = o.row]
          /\ returned' = IF o.kind = "returned" THEN returned \cup {j} ELSE returned
          /\ End(w, "unlock", o.kind)
    BY <1>8 DEF Run
  <2>4. /\ jobs[j].target \in Version \cup {NoVersion} /\ installation[i] \in Row
        /\ OpOf[j] \in Ops /\ (OpOf[j] # "ROLLBACK" => jobs[j].target \in Version)
    BY <2>2 DEF TypeOK, JobRow, SubmissionInv
  <2>5. /\ o.kind = "absent" => installation[i].state = "ABSENT" /\ o.row = installation[i]
        /\ installation[i].state = "ABSENT" => o.row = installation[i]
        /\ o.kind \in {"returned", "thrown", "absent"}
    BY <2>3, <2>4, OutcomesOK DEF Outcome
  <2> DEFINE r == [worker[w] EXCEPT !.pc = "unlock", !.outcome = o.kind]
  <2>6. worker' = [worker EXCEPT ![w] = r]
    BY <2>3 DEF End
  <2>7. r.job = j /\ r.outcome = o.kind
    BY DEF TypeOK, WorkerSlot
  <2> HIDE DEF r, i, j
  <2>8. \A k \in Installation : installation[k].state = "ABSENT" => installation'[k].state = "ABSENT"
    BY <2>2, <2>3, <2>5 DEF TypeOK
  <2>9. returned \subseteq returned'
    BY <2>3
  <2>10. worker'[w] = r /\ \A x \in Worker : x # w => worker'[x] = worker[x]
    BY <2>6 DEF TypeOK
  <2>11. OutcomeTrue(w)'
    <3>1. r.outcome = "returned" => r.job \in returned'
      BY <2>3, <2>7
    <3>2. o.kind = "absent" => installation'[i].state = "ABSENT"
      BY <2>2, <2>5, <2>8
    <3>3. worker'[w].job = j /\ worker'[w].outcome = o.kind
      BY <2>7, <2>10
    <3>4. o.kind = "absent" => installation'[InstallationOf[j]].state = "ABSENT"
      BY <3>2 DEF i
    <3>5. QED
      BY <2>7, <3>1, <3>3, <3>4 DEF OutcomeTrue, Gone
  <2>12. \A x \in Worker : worker'[x].pc \in {"unlock", "record"} =>
           /\ worker'[x].job = worker[x].job
           /\ worker'[x] = worker[x] \/ OutcomeTrue(x)'
    BY <2>7, <2>10, <2>11 DEF j
  <2>13. QED
    BY <2>1, <2>8, <2>9, <2>12, SuccessKept
<1>9. ASSUME NEW w \in Worker, Release(w) PROVE SuccessInv'
  <2>1. worker[w].pc = "unlock" /\ Goto(w, "record") /\ UNCHANGED <<jobs, installation, returned>>
    BY <1>9 DEF Release
  <2>2. PICK r \in WorkerSlot :
          /\ worker' = [worker EXCEPT ![w] = r] /\ r.pc = "record"
          /\ r.job = worker[w].job /\ r.outcome = worker[w].outcome
    BY <2>1, GotoOK
  <2>3. \A x \in Worker : worker'[x].pc \in {"unlock", "record"} =>
           /\ worker'[x].job = worker[x].job
           /\ worker[x].pc \in {"unlock", "record"}
           /\ worker'[x].outcome = worker[x].outcome
    BY <2>1, <2>2 DEF TypeOK
  <2>4. QED
    BY <2>1, <2>3, SuccessKept
<1>10. ASSUME NEW w \in Worker, Record(w) PROVE SuccessInv'
  <2> DEFINE j == worker[w].job
             s == IF Succeeds(w) THEN "SUCCEEDED" ELSE "FAILED"
             c == [jobs[j] EXCEPT !.status = s]
  <2>1. /\ worker[w].pc = "record" /\ UNCHANGED <<installation, returned>>
        /\ jobs' \in {jobs, [jobs EXCEPT ![j] = c]}
        /\ \E o \in {"returned", "thrown"} : End(w, "report", o)
        /\ j \in Job
    BY <1>10 DEF Record, WorkerInv
  <2>2. PICK r \in WorkerSlot : worker' = [worker EXCEPT ![w] = r] /\ r.pc = "report"
    BY <2>1, GotoOK
  <2>3. OutcomeTrue(w)
    BY <2>1 DEF SuccessInv, OutcomeInv
  <2>4. c.status = s
    BY <2>1 DEF TypeOK, JobRow
  <2>5. s = "SUCCEEDED" => j \in returned \/ (OpOf[j] = "PURGE_INSTALLATION" /\ Gone(j))
    BY <2>3 DEF Succeeds, OutcomeTrue
  <2> HIDE DEF j, s, c
  <2>6. ASSUME NEW k \in Job, jobs'[k].status = "SUCCEEDED"
        PROVE  k \in returned \/ (OpOf[k] = "PURGE_INSTALLATION" /\ Gone(k))
    <3>1. CASE jobs'[k].status = jobs[k].status
      BY <2>6, <3>1 DEF SuccessInv, SuccessIsReal, Gone
    <3>2. CASE k = j /\ jobs'[k] = c
      BY <2>4, <2>5, <2>6, <3>2
    <3>3. QED
      BY <2>1, <3>1, <3>2 DEF TypeOK
  <2>7. SuccessIsReal'
    BY <2>1, <2>6 DEF SuccessIsReal, Gone
  <2>8. OutcomeInv'
    BY <2>1, <2>2 DEF SuccessInv, OutcomeInv, OutcomeTrue, Gone, TypeOK
  <2>9. QED
    BY <2>7, <2>8 DEF SuccessInv
<1>11. ASSUME NEW w \in Worker, Report(w) \/ Crash(w) PROVE SuccessInv'
  <2>1. worker' = [worker EXCEPT ![w] = Idle] /\ UNCHANGED <<jobs, installation, returned>>
    BY <1>11 DEF Report, Crash
  <2>2. Idle.pc = "idle"
    BY DEF Idle
  <2>3. QED
    BY <1>3, <2>1, <2>2
<1>12. CASE UNCHANGED vars
  BY <1>12, SuccessKept DEF vars
<1>13. QED
  BY <1>1, <1>2, <1>4, <1>5, <1>6, <1>7, <1>8, <1>9, <1>10, <1>11, <1>12 DEF Next, Execute

(* A job recorded SUCCEEDED had its command return, or is a purge of an    *)
(* installation that is gone: for every number of workers, attempts,       *)
(* stalls and crashes, and also when commands outlast their lock.          *)
THEOREM RecordedSuccessIsReal == Spec => []SuccessIsReal
<1>1. Init => SuccessInv
  BY DEF Init, SuccessInv, OutcomeInv, SuccessIsReal, Idle
<1>2. IInv /\ SuccessInv /\ [Next]_vars => SuccessInv'
  BY NextSuccessInv
<1>3. SuccessInv => SuccessIsReal
  BY DEF SuccessInv
<1>4. Spec => [](IInv /\ SuccessInv)
  BY InitIInv, NextIInv, <1>1, <1>2, PTL DEF Spec
<1>5. QED
  BY <1>3, <1>4, PTL

-----------------------------------------------------------------------------
(* A success is not dead-lettered.  While only jobs whose worker is gone   *)
(* stall, whoever executes a job is its one owner: nobody else reads the   *)
(* row between its claim and its final write.  A worker that comes to a    *)
(* job recorded SUCCEEDED reports that it returned, and the stalls that    *)
(* crashes cause are fewer than BullMQ allows.                             *)

OwnerInv ==
  \A w \in Worker :
    worker[w].pc # "idle" =>
      bull[worker[w].job].state = "active" /\ bull[worker[w].job].owner = w

StallInv ==
  \A j \in Job :
    /\ bull[j].stalled <= crashes
    /\ bull[j].state = "active" /\ bull[j].owner = Nobody => bull[j].stalled < crashes

FinishedInv ==
  \A j \in Job : jobs[j].status = "SUCCEEDED" =>
    /\ bull[j].state # "failed"
    /\ \A w \in Worker : worker[w].pc # "idle" /\ worker[w].job = j =>
         worker[w].pc = "read" \/ (worker[w].pc = "report" /\ worker[w].outcome = "returned")

LetterInv == OwnerInv /\ StallInv /\ FinishedInv

(* A worker that is not at its last step goes on with its job.             *)
LEMMA LetterWorkerStep ==
  ASSUME NEW w \in Worker, IInv, LetterInv, worker[w].pc # "idle", UNCHANGED <<bull, crashes>>,
         NEW pc \in {"claim", "lock", "run", "unlock", "record", "report"},
         NEW o \in {"returned", "thrown", "absent"}, Goto(w, pc) \/ End(w, pc, o),
         NEW j, j = worker[w].job,
         \A k \in Job : jobs'[k].status = "SUCCEEDED" =>
           jobs[k].status = "SUCCEEDED" \/ k = j,
         jobs'[j].status = "SUCCEEDED" => End(w, "report", "returned") /\ pc = "report" /\ o = "returned"
  PROVE  LetterInv'
<1>1. PICK r \in WorkerSlot :
        /\ worker' = [worker EXCEPT ![w] = r]
        /\ r.pc = pc /\ r.job = j
        /\ r.outcome = IF Goto(w, pc) THEN worker[w].outcome ELSE o
  BY GotoOK DEF IInv
<1>2. worker'[w] = r /\ \A x \in Worker : x # w => worker'[x] = worker[x]
  BY <1>1 DEF IInv, TypeOK
<1>3. OwnerInv' /\ StallInv'
  BY <1>1, <1>2 DEF LetterInv, OwnerInv, StallInv
<1>4. j \in Job /\ bull[j].state = "active" /\ bull[j].owner = w
  BY DEF LetterInv, OwnerInv, IInv, WorkerInv
<1>5. jobs'[j].status = "SUCCEEDED" => r.pc = "report" /\ r.outcome = "returned"
  <2> SUFFICES ASSUME jobs'[j].status = "SUCCEEDED" PROVE r.outcome = "returned" /\ r.pc = "report"
    OBVIOUS
  <2>1. worker' = [worker EXCEPT ![w].pc = "report", ![w].outcome = "returned"]
    BY DEF End
  <2>2. worker'[w].outcome = "returned"
    BY <2>1 DEF IInv, TypeOK, WorkerSlot
  <2>3. QED
    BY <1>1, <1>2, <2>2
<1>6. ASSUME NEW k \in Job, jobs'[k].status = "SUCCEEDED"
      PROVE  /\ bull'[k].state # "failed"
             /\ \A x \in Worker : worker'[x].pc # "idle" /\ worker'[x].job = k =>
                  \/ worker'[x].pc = "read"
                  \/ worker'[x].pc = "report" /\ worker'[x].outcome = "returned"
  <2>1. CASE k = j
    <3>1. \A x \in Worker : worker'[x].pc # "idle" /\ worker'[x].job = j => x = w
      BY <1>1, <1>2, <1>4 DEF LetterInv, OwnerInv
    <3>2. QED
      BY <1>2, <1>4, <1>5, <1>6, <2>1, <3>1
  <2>2. CASE k # j
    BY <1>1, <1>2, <1>6, <2>2 DEF LetterInv, FinishedInv
  <2>3. QED
    BY <2>1, <2>2
<1>7. QED
  BY <1>3, <1>6 DEF LetterInv, FinishedInv

LEMMA NextLetterInv ==
  ASSUME ~LiveStalls, MaxCrashes <= MaxStalledCount, IInv, LetterInv, [Next]_vars
  PROVE  LetterInv'
<1> USE DEF LetterInv
<1>1. ASSUME NEW j \in Job, \/ ReadInstallation(j) \/ CreateJob(j) \/ UndoSubmission(j)
                            \/ ApiCrash(j) \/ GoesStale(j)
      PROVE  LetterInv'
  <2>1. UNCHANGED <<worker, bull, crashes>>
    BY <1>1 DEF ReadInstallation, CreateJob, UndoSubmission, ApiCrash, GoesStale
  <2> DEFINE c1 == [jobs[j] EXCEPT !.stale = TRUE]
             c2 == [jobs[j] EXCEPT !.status = "DELETED"]
             c3 == [jobs[j] EXCEPT !.status = "QUEUED", !.target = submission[j].target]
  <2>2. jobs' \in {jobs, [jobs EXCEPT ![j] = c1], [jobs EXCEPT ![j] = c2],
                   [jobs EXCEPT ![j] = c3]}
    BY <1>1 DEF ReadInstallation, CreateJob, UndoSubmission, ApiCrash, GoesStale
  <2>3. c1.status = jobs[j].status /\ c2.status = "DELETED" /\ c3.status = "QUEUED"
    BY DEF IInv, TypeOK, JobRow
  <2> HIDE DEF c1, c2, c3
  <2>4. \A k \in Job : jobs'[k].status = "SUCCEEDED" => jobs[k].status = "SUCCEEDED"
    BY <2>2, <2>3 DEF IInv, TypeOK
  <2>5. QED
    BY <2>1, <2>4 DEF OwnerInv, StallInv, FinishedInv
<1>2. ASSUME NEW j \in Job, Enqueue(j) PROVE LetterInv'
  <2> DEFINE b == Added(bull[j])
  <2>1. UNCHANGED <<worker, jobs, crashes>> /\ bull' \in {bull, [bull EXCEPT ![j] = b]}
        /\ bull[j].state = "absent"
    BY <1>2 DEF Enqueue, IInv, SubmissionInv
  <2>2. b.state = "waiting" /\ b.stalled = bull[j].stalled
    BY <2>1 DEF Added, IInv, TypeOK, BullJob
  <2> HIDE DEF b
  <2>3. \A w \in Worker : worker[w].pc # "idle" => worker[w].job # j /\ worker[w].job \in Job
    BY <2>1 DEF IInv, WorkerInv
  <2>4. \A k \in Job : bull'[k] = bull[k] \/ (k = j /\ bull'[k] = b)
    BY <2>1 DEF IInv, TypeOK
  <2>5. OwnerInv'
    BY <2>1, <2>3, <2>4 DEF OwnerInv
  <2>6. StallInv'
    BY <2>1, <2>2, <2>4 DEF StallInv
  <2>7. FinishedInv'
    BY <2>1, <2>2, <2>4 DEF FinishedInv
  <2>8. QED
    BY <2>5, <2>6, <2>7
<1>3. ASSUME NEW j \in Job, Stall(j) PROVE LetterInv'
  <2> DEFINE b == AfterStall(bull[j])
  <2>1. /\ UNCHANGED <<worker, jobs, crashes>> /\ bull' = [bull EXCEPT ![j] = b]
        /\ bull[j].state = "active" /\ bull[j].owner = Nobody
    BY <1>3 DEF Stall
  <2>2. bull[j].stalled < crashes /\ crashes <= MaxCrashes /\ bull[j] \in BullJob
        /\ crashes \in Nat
    BY <2>1 DEF StallInv, IInv, TypeOK
  <2>3. bull[j].stalled \in Nat /\ bull[j].stalled < MaxStalledCount
    BY <2>2, ConstantsAssumption, DeliveryAssumption DEF BullJob
  <2>4. b.state = "waiting" /\ b.stalled = bull[j].stalled + 1
    BY <2>2, <2>3 DEF AfterStall, BullJob
  <2> HIDE DEF b
  <2>5. \A w \in Worker : worker[w].pc # "idle" => worker[w].job # j /\ worker[w].job \in Job
    BY <2>1, DeliveryAssumption DEF OwnerInv, IInv, WorkerInv
  <2>6. StallInv'
    BY <2>1, <2>2, <2>3, <2>4 DEF StallInv, IInv, TypeOK
  <2>7. OwnerInv' /\ FinishedInv'
    BY <2>1, <2>4, <2>5 DEF OwnerInv, FinishedInv, IInv, TypeOK
  <2>8. QED
    BY <2>6, <2>7
<1>4. ASSUME NEW i \in Installation, ApiChange(i) \/ LockExpires(i) PROVE LetterInv'
  BY <1>4 DEF ApiChange, LockExpires, OwnerInv, StallInv, FinishedInv
<1>5. ASSUME NEW w \in Worker, NEW j \in Job, Fetch(w, j) PROVE LetterInv'
  <2> DEFINE b == Taken(bull[j], w)
             r == [Idle EXCEPT !.pc = "read", !.job = j, !.attempt = bull[j].made + 1]
  <2>1. /\ UNCHANGED <<jobs, crashes>> /\ bull' = [bull EXCEPT ![j] = b]
        /\ worker' = [worker EXCEPT ![w] = r] /\ bull[j].state = "waiting"
    BY <1>5 DEF Fetch
  <2>2. b.state = "active" /\ b.owner = w /\ b.stalled = bull[j].stalled
    BY DEF Taken, IInv, TypeOK, BullJob
  <2>3. r.pc = "read" /\ r.job = j
    BY DEF Idle
  <2> HIDE DEF b, r
  <2>4. \A x \in Worker : worker[x].pc # "idle" => worker[x].job # j /\ worker[x].job \in Job
    BY <2>1 DEF OwnerInv, IInv, WorkerInv
  <2>5. worker'[w] = r /\ bull'[j] = b /\ (\A x \in Worker : x # w => worker'[x] = worker[x])
        /\ \A k \in Job : k # j => bull'[k] = bull[k]
    BY <2>1 DEF IInv, TypeOK
  <2>6. OwnerInv'
    BY <2>2, <2>3, <2>4, <2>5 DEF OwnerInv
  <2>7. StallInv'
    BY <2>1, <2>2, <2>5, DeliveryAssumption DEF StallInv
  <2>8. FinishedInv'
    BY <2>1, <2>2, <2>3, <2>4, <2>5 DEF FinishedInv
  <2>9. QED
    BY <2>6, <2>7, <2>8
<1>6. ASSUME NEW w \in Worker, ReadJob(w) PROVE LetterInv'
  <2>1. worker[w].pc = "read" /\ UNCHANGED <<jobs, bull, crashes>>
    BY <1>6 DEF ReadJob
  <2>2. CASE jobs[worker[w].job].status = "DELETED"
    BY <1>6, <2>1, <2>2, LetterWorkerStep DEF ReadJob
  <2>3. CASE jobs[worker[w].job].status = "SUCCEEDED"
    BY <1>6, <2>1, <2>3, LetterWorkerStep DEF ReadJob
  <2>4. CASE jobs[worker[w].job].status \notin {"DELETED", "SUCCEEDED"}
    BY <1>6, <2>1, <2>4, LetterWorkerStep DEF ReadJob
  <2>5. QED
    BY <2>2, <2>3, <2>4
(* Between the claim and the final write the row is not SUCCEEDED.         *)
<1>7. ASSUME NEW w \in Worker, worker[w].pc \in {"claim", "lock", "run", "unlock", "record"}
      PROVE  worker[w].job \in Job /\ jobs[worker[w].job].status # "SUCCEEDED"
  BY <1>7 DEF FinishedInv, IInv, WorkerInv
<1>8. ASSUME NEW w \in Worker, Claim(w) PROVE LetterInv'
  <2> DEFINE j == worker[w].job
             c == [jobs[j] EXCEPT !.status = "RUNNING", !.stale = FALSE,
                                  !.attempts = worker[w].attempt]
  <2>1. /\ worker[w].pc = "claim" /\ UNCHANGED <<bull, crashes>>
        /\ Goto(w, "lock") \/ End(w, "report", "thrown")
        /\ jobs' \in {jobs, [jobs EXCEPT ![j] = c]}
    BY <1>8 DEF Claim
  <2>2. j \in Job /\ jobs[j].status # "SUCCEEDED"
    BY <1>7, <2>1
  <2>3. c.status = "RUNNING"
    BY <2>2 DEF IInv, TypeOK, JobRow
  <2> HIDE DEF c
  <2>4. \A k \in Job : jobs'[k].status = "SUCCEEDED" => jobs[k].status = "SUCCEEDED" /\ k # j
    BY <2>1, <2>2, <2>3 DEF IInv, TypeOK
  <2>5. QED
    BY <2>1, <2>2, <2>4, LetterWorkerStep
<1>9. ASSUME NEW w \in Worker, Acquire(w) PROVE LetterInv'
  BY <1>7, <1>9, LetterWorkerStep DEF Acquire
<1>10. ASSUME NEW w \in Worker, Run(w) PROVE LetterInv'
  <2> DEFINE j == worker[w].job
             i == InstallationOf[j]
  <2>1. worker[w].pc = "run" /\ UNCHANGED <<jobs, bull, crashes>>
    BY <1>10 DEF Run
  <2>2. j \in Job /\ Created(j) /\ i \in Installation
    BY <2>1 DEF IInv, WorkerInv, SubmissionInv
  <2>3. /\ jobs[j].target \in Version \cup {NoVersion} /\ installation[i] \in Row
        /\ OpOf[j] \in Ops /\ (OpOf[j] # "ROLLBACK" => jobs[j].target \in Version)
    BY <2>2 DEF IInv, TypeOK, JobRow, SubmissionInv
  <2>4. PICK o \in Outcomes(OpOf[j], jobs[j].target, installation[i]) : End(w, "unlock", o.kind)
    BY <1>10 DEF Run
  <2>5. o.kind \in {"returned", "thrown", "absent"}
    BY <2>3, OutcomesOK DEF Outcome
  <2>6. QED
    BY <1>7, <2>1, <2>4, <2>5, LetterWorkerStep
<1>11. ASSUME NEW w \in Worker, Release(w) PROVE LetterInv'
  BY <1>7, <1>11, LetterWorkerStep DEF Release
<1>12. ASSUME NEW w \in Worker, Record(w) PROVE LetterInv'
  <2> DEFINE j == worker[w].job
             s == IF Succeeds(w) THEN "SUCCEEDED" ELSE "FAILED"
             c == [jobs[j] EXCEPT !.status = s]
  <2>1. worker[w].pc = "record" /\ UNCHANGED <<bull, crashes>> /\ j \in Job
    BY <1>12 DEF Record, IInv, WorkerInv
  <2>2. CASE jobs[j].status = "DELETED"
    BY <1>7, <1>12, <2>1, <2>2, LetterWorkerStep DEF Record
  <2>3. CASE jobs[j].status # "DELETED"
    <3>1. /\ jobs' = [jobs EXCEPT ![j] = c]
          /\ End(w, "report", IF Succeeds(w) THEN "returned" ELSE "thrown")
      BY <1>12, <2>3 DEF Record
    <3>2. c.status = s
      BY <2>1 DEF IInv, TypeOK, JobRow
    <3> HIDE DEF c
    <3>3. jobs'[j].status = s /\ \A k \in Job : k # j => jobs'[k] = jobs[k]
      BY <2>1, <3>1, <3>2 DEF IInv, TypeOK
    <3>4. CASE Succeeds(w)
      BY <2>1, <3>1, <3>3, <3>4, LetterWorkerStep
    <3>5. CASE ~Succeeds(w)
      BY <2>1, <3>1, <3>3, <3>5, LetterWorkerStep
    <3>6. QED
      BY <3>4, <3>5
  <2>4. QED
    BY <2>2, <2>3
<1>13. ASSUME NEW w \in Worker, Report(w) PROVE LetterInv'
  <2> DEFINE j == worker[w].job
             ok == worker[w].outcome = "returned"
             b == Reported(bull[j], w, ok)
  <2>1. /\ worker[w].pc = "report" /\ UNCHANGED <<jobs, crashes>>
        /\ bull' = [bull EXCEPT ![j] = b] /\ worker' = [worker EXCEPT ![w] = Idle]
        /\ j \in Job /\ bull[j].owner = w /\ bull[j] \in BullJob
    BY <1>13 DEF Report, OwnerInv, IInv, WorkerInv, TypeOK
  <2>2. b = IF ok THEN Done(bull[j]) ELSE AfterFailure(bull[j])
    BY <2>1 DEF Reported
  <2>3. b.stalled = bull[j].stalled /\ b.state # "active" /\ (ok => b.state = "completed")
    <3>1. PICK was \in BullJob : was = bull[j]
      BY <2>1
    <3>2. Done(was).state = "completed" /\ Done(was).stalled = was.stalled
      BY DEF Done, BullJob
    <3>3. AfterFailure(was).state # "active" /\ AfterFailure(was).stalled = was.stalled
      BY DEF AfterFailure, BullJob
    <3>4. QED
      BY <2>2, <3>1, <3>2, <3>3
  <2>4. jobs[j].status = "SUCCEEDED" => ok
    BY <2>1 DEF FinishedInv
  <2> HIDE DEF b, ok
  <2>5. worker'[w].pc = "idle" /\ bull'[j] = b /\ (\A x \in Worker : x # w => worker'[x] = worker[x])
        /\ \A k \in Job : k # j => bull'[k] = bull[k]
    BY <2>1 DEF IInv, TypeOK, Idle
  <2>6. \A x \in Worker : x # w /\ worker[x].pc # "idle" => worker[x].job # j /\ worker[x].job \in Job
    BY <2>1 DEF OwnerInv, IInv, WorkerInv
  <2> HIDE DEF j
  <2>7. OwnerInv'
    BY <2>5, <2>6 DEF OwnerInv
  <2>8. StallInv'
    BY <2>1, <2>3, <2>5 DEF StallInv
  <2>9. FinishedInv'
    BY <2>1, <2>3, <2>4, <2>5, <2>6 DEF FinishedInv
  <2>10. QED
    BY <2>7, <2>8, <2>9
<1>14. ASSUME NEW w \in Worker, Crash(w) PROVE LetterInv'
  <2>1. /\ crashes' = crashes + 1 /\ UNCHANGED jobs /\ worker' = [worker EXCEPT ![w] = Idle]
        /\ bull' = [j \in Job |-> IF bull[j].owner = w THEN Abandoned(bull[j]) ELSE bull[j]]
        /\ crashes \in Nat
    BY <1>14, ConstantsAssumption DEF Crash, IInv, TypeOK
  <2>2. worker'[w].pc = "idle" /\ \A x \in Worker : x # w => worker'[x] = worker[x]
    BY <2>1 DEF IInv, TypeOK, Idle
  <2>3. \A j \in Job : /\ bull'[j].state = bull[j].state /\ bull'[j].stalled = bull[j].stalled
                       /\ bull[j].stalled \in Nat
                       /\ bull[j].owner # w => bull'[j] = bull[j]
    BY <2>1 DEF IInv, TypeOK, BullJob, Abandoned
  <2>4. StallInv'
    BY <2>1, <2>3 DEF StallInv
  <2>5. OwnerInv'
    BY <2>2, <2>3 DEF OwnerInv, IInv, WorkerInv
  <2>6. FinishedInv'
    BY <2>1, <2>2, <2>3 DEF FinishedInv
  <2>7. QED
    BY <2>4, <2>5, <2>6
<1>15. CASE UNCHANGED vars
  BY <1>15 DEF vars, OwnerInv, StallInv, FinishedInv
<1>16. QED
  BY <1>1, <1>2, <1>3, <1>4, <1>5, <1>6, <1>8, <1>9, <1>10, <1>11, <1>12, <1>13, <1>14, <1>15
     DEF Next, Submit, Execute

(* A job recorded SUCCEEDED is not left to an operator as a dead letter,   *)
(* provided that only jobs whose worker is gone stall and workers crash no *)
(* more often than BullMQ lets a job stall.                                *)
THEOREM SuccessIsCompleted ==
  ~LiveStalls /\ MaxCrashes <= MaxStalledCount => (Spec => []SuccessIsNotDeadLettered)
<1> SUFFICES ASSUME ~LiveStalls, MaxCrashes <= MaxStalledCount
             PROVE  Spec => []SuccessIsNotDeadLettered
  OBVIOUS
<1>1. Init => LetterInv
  BY DEF Init, LetterInv, OwnerInv, StallInv, FinishedInv, Idle, NoBullJob
<1>2. IInv /\ LetterInv /\ [Next]_vars => LetterInv'
  BY NextLetterInv
<1>3. LetterInv => SuccessIsNotDeadLettered
  BY DEF LetterInv, FinishedInv, SuccessIsNotDeadLettered
<1>4. Spec => [](IInv /\ LetterInv)
  BY InitIInv, NextIInv, <1>1, <1>2, PTL DEF Spec
<1>5. QED
  BY <1>3, <1>4, PTL

-----------------------------------------------------------------------------
(* Repeating a command changes nothing.  That is so of the commands, as    *)
(* functions of the row, except a rollback without a captured version; and *)
(* the row keeps what the command made of it until somebody else writes it. *)

LEMMA CommandsAreIdempotent ==
  ASSUME NEW op \in Ops, NEW row \in Row, NEW v \in Version,
         NEW o \in Outcomes(op, v, row), o.row # row,
         NEW again \in Outcomes(op, v, o.row)
  PROVE  again.row = o.row
<1> USE NoVersionAssumption DEF Row, States, Returned, Thrown, Absent
<1>0. row.state # "ABSENT"
  BY DEF Outcomes
<1>1. CASE op = "INSTALL"
  <2> DEFINE after == [row EXCEPT !.state = "INSTALLED", !.version = v, !.installedAt = TRUE]
  <2>1. o.row = after
    BY <1>0, <1>1 DEF Outcomes, Install
  <2>2. after.state = "INSTALLED" /\ after.version = v
    OBVIOUS
  <2> HIDE DEF after
  <2>3. again \in Install(after, v)
    BY <1>1, <2>1, <2>2 DEF Outcomes
  <2>4. QED
    BY <2>1, <2>2, <2>3 DEF Install
<1>2. CASE op = "UPGRADE"
  <2> DEFINE a1 == [row EXCEPT !.version = v]
             a2 == [row EXCEPT !.version = v, !.previous = row.version]
  <2>1. row.installedAt /\ o.row \in {a1, a2}
    BY <1>0, <1>2 DEF Outcomes, Upgrade
  <2>2. \A a \in {a1, a2} : a.state # "ABSENT" /\ a.version = v /\ a.installedAt
    BY <1>0, <2>1
  <2> HIDE DEF a1, a2
  <2>3. again \in Upgrade(o.row, v)
    BY <1>2, <2>1, <2>2 DEF Outcomes
  <2>4. QED
    BY <2>1, <2>2, <2>3 DEF Upgrade
<1>3. CASE op = "ROLLBACK"
  <2> DEFINE after == [row EXCEPT !.version = v, !.previous = row.version]
  <2>1. o.row = after
    <3>1. o \in Rollback(row, v)
      BY <1>0, <1>3 DEF Outcomes
    <3>2. v # NoVersion
      OBVIOUS
    <3> HIDE DEF Returned, Thrown, after
    <3>3. o \in {Returned(row), Thrown(row), Returned(after)}
      BY <3>1, <3>2 DEF Rollback, after
    <3>4. QED
      BY <3>3 DEF Returned, Thrown
  <2>2. after.state # "ABSENT" /\ after.version = v
    BY <1>0
  <2> HIDE DEF after
  <2>3. again \in Rollback(after, v)
    BY <1>3, <2>1, <2>2 DEF Outcomes
  <2>4. QED
    BY <2>1, <2>2, <2>3 DEF Rollback
<1>4. CASE op = "ACTIVATE"
  <2> DEFINE after == [row EXCEPT !.state = "ACTIVE"]
  <2>1. o.row = after
    BY <1>0, <1>4 DEF Outcomes, Activate
  <2>2. after.state = "ACTIVE"
    OBVIOUS
  <2> HIDE DEF after
  <2>3. again \in Activate(after)
    BY <1>4, <2>1, <2>2 DEF Outcomes
  <2>4. QED
    BY <2>1, <2>2, <2>3 DEF Activate
<1>5. CASE op = "DEACTIVATE"
  <2> DEFINE after == [row EXCEPT !.state = "INSTALLED"]
  <2>1. o.row = after
    BY <1>0, <1>5 DEF Outcomes, Deactivate
  <2>2. after.state = "INSTALLED"
    OBVIOUS
  <2> HIDE DEF after
  <2>3. again \in Deactivate(after)
    BY <1>5, <2>1, <2>2 DEF Outcomes
  <2>4. QED
    BY <2>1, <2>2, <2>3 DEF Deactivate
<1>6. CASE op = "UNINSTALL"
  <2> DEFINE after == [row EXCEPT !.state = "UNINSTALLED"]
  <2>1. o.row = after
    BY <1>0, <1>6 DEF Outcomes, Uninstall
  <2>2. after.state = "UNINSTALLED"
    OBVIOUS
  <2> HIDE DEF after
  <2>3. again \in Uninstall(after)
    BY <1>6, <2>1, <2>2 DEF Outcomes
  <2>4. QED
    BY <2>1, <2>2, <2>3 DEF Uninstall
<1>7. CASE op = "PURGE_INSTALLATION"
  <2> DEFINE after == [row EXCEPT !.state = "ABSENT"]
  <2>1. o.row = after
    BY <1>0, <1>7 DEF Outcomes, RemoveUninstalled
  <2>2. after.state = "ABSENT"
    OBVIOUS
  <2> HIDE DEF after
  <2>3. QED
    BY <2>1, <2>2 DEF Outcomes
<1>8. QED
  BY <1>1, <1>2, <1>3, <1>4, <1>5, <1>6, <1>7 DEF Ops

Captured(j) == OpOf[j] = "ROLLBACK" => jobs[j].target # NoVersion

(* The author of the last change of an installation is a job that was      *)
(* created, and its command would leave the row as it is.                  *)
AuthorInv ==
  \A i \in Installation, j \in Job : author[i] = j =>
    /\ Created(j)
    /\ Captured(j) => \A o \in Outcomes(OpOf[j], jobs[j].target, installation[i]) :
                        o.row = installation[i]

(* The payload of a job does not change once its row exists.               *)
LEMMA PayloadKept ==
  ASSUME IInv, [Next]_vars, NEW j \in Job, Created(j)
  PROVE  Created(j)' /\ jobs'[j].target = jobs[j].target
<1> USE DEF IInv
<1>1. jobs[j] \in JobRow
  BY DEF TypeOK
<1>2. CASE UNCHANGED jobs
  BY <1>2 DEF Created
<1>3. ASSUME NEW k \in Job, NEW r, jobs' = [jobs EXCEPT ![k] = r],
             k = j => r.status # "NONE" /\ r.target = jobs[j].target
      PROVE  Created(j)' /\ jobs'[j].target = jobs[j].target
  BY <1>3 DEF Created, TypeOK
<1>4. ASSUME NEW k \in Job, CreateJob(k) \/ UndoSubmission(k) \/ GoesStale(k)
      PROVE  Created(j)' /\ jobs'[j].target = jobs[j].target
  <2> DEFINE c1 == [jobs[k] EXCEPT !.stale = TRUE]
             c2 == [jobs[k] EXCEPT !.status = "DELETED"]
             c3 == [jobs[k] EXCEPT !.status = "QUEUED", !.target = submission[k].target]
  <2>1. \/ UNCHANGED jobs
        \/ jobs' \in {[jobs EXCEPT ![k] = c1], [jobs EXCEPT ![k] = c2]} /\ jobs[k].status = "RUNNING"
        \/ jobs' = [jobs EXCEPT ![k] = c2]
        \/ jobs' = [jobs EXCEPT ![k] = c3] /\ k # j
    BY <1>4 DEF CreateJob, UndoSubmission, GoesStale, SubmissionInv
  <2>2. k = j => /\ c1.status = jobs[j].status /\ c1.target = jobs[j].target
                 /\ c2.status = "DELETED" /\ c2.target = jobs[j].target
    BY <1>1 DEF JobRow
  <2> HIDE DEF c1, c2, c3
  <2>3. QED
    BY <1>2, <1>3, <2>1, <2>2 DEF Created
<1>5. ASSUME NEW w \in Worker, Claim(w) \/ Record(w)
      PROVE  Created(j)' /\ jobs'[j].target = jobs[j].target
  <2> DEFINE k == worker[w].job
             c1 == [jobs[k] EXCEPT !.status = "RUNNING", !.stale = FALSE,
                                   !.attempts = worker[w].attempt]
             c2 == [jobs[k] EXCEPT !.status = "SUCCEEDED"]
             c3 == [jobs[k] EXCEPT !.status = "FAILED"]
  <2>1. jobs' \in {jobs, [jobs EXCEPT ![k] = c1], [jobs EXCEPT ![k] = c2], [jobs EXCEPT ![k] = c3]}
    BY <1>5 DEF Claim, Record
  <2>2. k \in Job
    BY <1>5 DEF Claim, Record, WorkerInv
  <2>3. k = j => \A c \in {c1, c2, c3} : c.status # "NONE" /\ c.target = jobs[j].target
    BY <1>1 DEF JobRow
  <2> HIDE DEF c1, c2, c3, k
  <2>4. QED
    BY <1>2, <1>3, <2>1, <2>2, <2>3
<1>6. QED
  BY <1>2, <1>4, <1>5
     DEF Next, Submit, Execute, vars, ReadInstallation, Enqueue, ApiCrash, Stall, ApiChange,
         LockExpires, ReadJob, Acquire, Run, Release, Report, Crash, Fetch

(* What a worker's command does to the row of its installation.            *)
LEMMA RunChanges ==
  ASSUME NEW w \in Worker, IInv, Run(w), NEW i \in Installation, installation'[i] # installation[i]
  PROVE  \E j \in Job :
           /\ author'[i] = j /\ Created(j) /\ UNCHANGED jobs
           /\ \E o \in Outcomes(OpOf[j], jobs[j].target, installation[i]) :
                installation'[i] = o.row
<1> DEFINE j == worker[w].job
           k == InstallationOf[j]
<1>1. worker[w].pc = "run" /\ UNCHANGED jobs
  BY DEF Run
<1>2. j \in Job /\ Created(j) /\ k \in Installation
  BY <1>1 DEF IInv, WorkerInv, SubmissionInv
<1>3. PICK o \in Outcomes(OpOf[j], jobs[j].target, installation[k]) :
        /\ installation' = [installation EXCEPT ![k] = o.row]
        /\ author' = IF o.row = installation[k] THEN author ELSE [author EXCEPT ![k] = j]
  BY DEF Run
<1> HIDE DEF j, k
<1>4. i = k /\ installation'[i] = o.row /\ author'[i] = j
  BY <1>2, <1>3 DEF IInv, TypeOK
<1>5. QED
  BY <1>1, <1>2, <1>3, <1>4

LEMMA NextAuthorInv ==
  ASSUME IInv, AuthorInv, [Next]_vars
  PROVE  AuthorInv'
<1> SUFFICES ASSUME NEW i \in Installation, NEW j \in Job, author'[i] = j
             PROVE  /\ Created(j)'
                    /\ Captured(j)' =>
                         \A o \in Outcomes(OpOf[j], jobs'[j].target, installation'[i]) :
                           o.row = installation'[i]
  BY DEF AuthorInv
<1>1. CASE installation'[i] = installation[i] /\ author'[i] = author[i]
  <2>1. Created(j)' /\ jobs'[j].target = jobs[j].target
    BY <1>1, PayloadKept DEF AuthorInv
  <2>2. QED
    BY <1>1, <2>1 DEF AuthorInv, Captured
<1>2. ASSUME NEW w \in Worker, Run(w), installation'[i] # installation[i]
      PROVE  /\ Created(j)'
             /\ Captured(j)' =>
                  \A o \in Outcomes(OpOf[j], jobs'[j].target, installation'[i]) :
                    o.row = installation'[i]
  <2>1. /\ Created(j) /\ UNCHANGED jobs
        /\ \E o \in Outcomes(OpOf[j], jobs[j].target, installation[i]) : installation'[i] = o.row
    BY <1>2, RunChanges
  <2>2. Created(j)'
    BY <2>1 DEF Created
  <2>3. installation[i] \in Row /\ OpOf[j] \in Ops
    BY DEF IInv, TypeOK
  <2>4. Captured(j) => jobs[j].target \in Version
    BY <2>1 DEF IInv, SubmissionInv, Captured, TypeOK, JobRow
  <2>5. Captured(j)' => Captured(j)
    BY <2>1 DEF Captured
  <2>6. QED
    BY <1>2, <2>1, <2>2, <2>3, <2>4, <2>5, CommandsAreIdempotent
<1>3. ASSUME NEW w \in Worker, Run(w), installation'[i] = installation[i]
      PROVE  author'[i] = author[i]
  <2> DEFINE n == worker[w].job
             k == InstallationOf[n]
  <2>1. n \in Job /\ k \in Installation
    BY <1>3 DEF Run, IInv, WorkerInv
  <2>2. PICK o \in Outcomes(OpOf[n], jobs[n].target, installation[k]) :
          /\ installation' = [installation EXCEPT ![k] = o.row]
          /\ author' = IF o.row = installation[k] THEN author ELSE [author EXCEPT ![k] = n]
    BY <1>3 DEF Run
  <2> HIDE DEF n, k
  <2>3. QED
    BY <1>3, <2>1, <2>2 DEF IInv, TypeOK
<1>4. ASSUME NEW k \in Installation, ApiChange(k)
      PROVE  installation'[i] = installation[i] /\ author'[i] = author[i]
  <2>1. author' = [author EXCEPT ![k] = Api] /\ Api \notin Job
    BY <1>4, ConstantsAssumption DEF ApiChange
  <2>2. i # k
    BY <2>1 DEF IInv, TypeOK
  <2>3. QED
    BY <1>4, <2>1, <2>2 DEF ApiChange, IInv, TypeOK
<1>5. CASE UNCHANGED <<installation, author>>
  BY <1>1, <1>5
<1>6. QED
  BY <1>1, <1>2, <1>3, <1>4, <1>5
     DEF Next, Submit, Execute, vars, ReadInstallation, CreateJob, Enqueue, UndoSubmission,
         ApiCrash, Stall, GoesStale, LockExpires, ReadJob, Claim, Acquire, Release, Record,
         Report, Crash, Fetch

(* A command that BullMQ has carried out again, after its outcome was      *)
(* lost, does not change the installation a second time, as long as nobody *)
(* else has; a rollback only if its job captured the version to go back to. *)
THEOREM RetriesAreNoOps == Spec => RetryIsNoOp
<1> DEFINE Step == \A i \in Installation, j \in Job :
                     /\ installation'[i] # installation[i] /\ author'[i] = j
                     /\ OpOf[j] = "ROLLBACK" => jobs[j].target # NoVersion
                     => author[i] # j
<1>1. Init => AuthorInv
  BY ConstantsAssumption DEF Init, AuthorInv
<1>2. IInv /\ AuthorInv /\ [Next]_vars => AuthorInv'
  BY NextAuthorInv
<1>3. ASSUME IInv, AuthorInv, Next PROVE Step
  <2> SUFFICES ASSUME NEW i \in Installation, NEW j \in Job,
                      installation'[i] # installation[i], author'[i] = j, Captured(j)
               PROVE  author[i] # j
    BY DEF Captured
  <2>1. ASSUME NEW w \in Worker, Run(w) PROVE author[i] # j
    <3>1. PICK o \in Outcomes(OpOf[j], jobs[j].target, installation[i]) : installation'[i] = o.row
      BY <1>3, <2>1, RunChanges
    <3>2. QED
      BY <1>3, <3>1 DEF AuthorInv
  <2>2. ASSUME NEW k \in Installation, ApiChange(k) PROVE author[i] # j
    <3>1. author' = [author EXCEPT ![k] = Api] /\ Api \notin Job /\ i = k
      BY <1>3, <2>2, ConstantsAssumption DEF ApiChange, IInv, TypeOK
    <3>2. QED
      BY <1>3, <3>1 DEF IInv, TypeOK
  <2>3. QED
    BY <1>3, <2>1, <2>2
       DEF Next, Submit, Execute, ReadInstallation, CreateJob, Enqueue, UndoSubmission,
           ApiCrash, Stall, GoesStale, LockExpires, ReadJob, Claim, Acquire, Release, Record,
           Report, Crash, Fetch
<1>4. IInv /\ AuthorInv /\ [Next]_vars => [Step]_vars
  BY <1>3
<1>5. QED
  BY InitIInv, NextIInv, <1>1, <1>2, <1>4, PTL DEF Spec, RetryIsNoOp
=============================================================================
