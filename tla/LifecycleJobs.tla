---------------------------- MODULE LifecycleJobs ----------------------------
(***************************************************************************)
(* Extension lifecycle jobs: a command on an installation is stored as a   *)
(* job row, delivered at least once by the BullMQ queue "extensions" and   *)
(* executed by a worker under a Redis command lock with a time to live.    *)
(*                                                                         *)
(*   API      -- submit: quota transaction, then enqueue, then undo        *)
(*   BullMQ   -- hands a job to one worker, takes it back when the worker  *)
(*               stops renewing (stall), retries a failed attempt          *)
(*   worker   -- execute: read, claim, lock, run, unlock, record, report   *)
(*                                                                         *)
(* Nothing but the interleaving is left out of execute(): every await is a *)
(* step of its own.  Time is not counted; a timer may fire whenever the    *)
(* delays the constants allow make it possible.                            *)
(***************************************************************************)
EXTENDS Integers, FiniteSets, InstallationCommands, JobDelivery

CONSTANTS
  Job,              \* lifecycle job rows, each one submission
  Installation,     \* the installations the jobs are about, all of one school
  InstallationOf,   \* the installation of each job
  OpOf,             \* the command of each job
  VersionOf,        \* payload.versionId of each job
  Quota,            \* active jobs a school may have (25)
  SlowCommands,     \* may a live command outlast the lock and the stale timeout?
  LiveStalls,       \* may a job stall while its worker is still executing it?
  ApiFaults,        \* may the API crash, or its enqueue fail, in a submission?
  CrashAttempts,    \* the attempts during which a worker may crash
  MaxCrashes,       \* bound: worker crashes in a behaviour
  Free, Orphan,     \* a command lock nobody holds; one whose holder is gone
  NoJob,            \* an idle worker slot has no job
  Api               \* author of the changes the API makes

ASSUME ConstantsAssumption ==
  /\ InstallationOf \in [Job -> Installation]
  /\ OpOf \in [Job -> Ops]
  /\ VersionOf \in [Job -> Version]
  /\ Quota \in Nat
  /\ MaxCrashes \in Nat
  /\ {SlowCommands, LiveStalls, ApiFaults} \subseteq BOOLEAN
  /\ CrashAttempts \subseteq 1..Attempts
  /\ Free # Orphan /\ {Free, Orphan} \cap Worker = {}
  /\ {NoJob, Api} \cap Job = {}

VARIABLES
  jobs,        \* the ExtensionLifecycleJob rows
  submission,  \* where the API request that submits each job is
  bull,        \* the BullMQ job of each row
  worker,      \* what each worker slot is doing
  lock,        \* command lock of each installation: Free, Orphan or a worker
  installation,\* the installation rows
  crashes,     \* worker crashes so far
  returned,    \* history: jobs whose command has returned at least once
  author       \* history: who last changed each installation

vars == <<jobs, submission, bull, worker, lock, installation, crashes, returned, author>>

JobStatus == {"NONE", "QUEUED", "RUNNING", "SUCCEEDED", "FAILED", "DELETED"}

(* startedAt is abstracted to the one thing execute() asks of it: whether  *)
(* it is older than EXTENSION_LIFECYCLE_STALE_MS.                          *)
JobRow == [status : JobStatus, attempts : 0..Attempts, stale : BOOLEAN,
           target : Version \cup {NoVersion}]

Submission == [pc : {"idle", "read", "created", "undo"},
               target : Version \cup {NoVersion}]

WorkerSlot == [pc : {"idle", "read", "claim", "lock", "run", "unlock", "record", "report"},
               job : Job \cup {NoJob}, attempt : 0..Attempts,
               outcome : {"returned", "thrown", "absent"}]

Idle == [pc |-> "idle", job |-> NoJob, attempt |-> 0, outcome |-> "thrown"]

TypeOK ==
  /\ jobs \in [Job -> JobRow]
  /\ submission \in [Job -> Submission]
  /\ bull \in [Job -> BullJob]
  /\ worker \in [Worker -> WorkerSlot]
  /\ lock \in [Installation -> Worker \cup {Free, Orphan}]
  /\ installation \in [Installation -> Row]
  /\ crashes \in 0..MaxCrashes
  /\ returned \subseteq Job
  /\ author \in [Installation -> Job \cup {Api}]

(* Any installation the API can have left behind: requested and approved,  *)
(* perhaps installed, upgraded, activated or uninstalled before.           *)
InitialRows ==
  {row \in Row : /\ row.state \in {"APPROVED", "INSTALLED", "ACTIVE", "UNINSTALLED"}
                 /\ row.installedAt = (row.state # "APPROVED")
                 /\ row.previous # row.version}

Init ==
  /\ jobs = [j \in Job |-> [status |-> "NONE", attempts |-> 0, stale |-> FALSE,
                            target |-> NoVersion]]
  /\ submission = [j \in Job |-> [pc |-> "idle", target |-> NoVersion]]
  /\ bull = [j \in Job |-> NoBullJob]
  /\ worker = [w \in Worker |-> Idle]
  /\ lock = [i \in Installation |-> Free]
  /\ installation \in [Installation -> InitialRows]
  /\ crashes = 0
  /\ returned = {}
  /\ author = [i \in Installation |-> Api]

-----------------------------------------------------------------------------
(* The API: submitInstallation and submit.                                 *)

ActiveJobs == {j \in Job : jobs[j].status \in {"QUEUED", "RUNNING"}}

(* The installation is read before the job exists; a ROLLBACK captures the *)
(* version to go back to in its payload, if the row has one by then.       *)
ReadInstallation(j) ==
  /\ submission[j].pc = "idle" /\ jobs[j].status = "NONE"
  /\ LET row == installation[InstallationOf[j]]
     IN /\ row.state # "ABSENT"
        /\ submission' = [submission EXCEPT ![j] =
             [pc |-> "read",
              target |-> IF OpOf[j] = "ROLLBACK" THEN row.previous ELSE VersionOf[j]]]
  /\ UNCHANGED <<jobs, bull, worker, lock, installation, crashes, returned, author>>

(* The serializable transaction that counts the active jobs and creates    *)
(* the row, or refuses the submission.                                     *)
CreateJob(j) ==
  /\ submission[j].pc = "read"
  /\ IF Cardinality(ActiveJobs) < Quota
     THEN /\ jobs' = [jobs EXCEPT ![j].status = "QUEUED", ![j].target = submission[j].target]
          /\ submission' = [submission EXCEPT ![j].pc = "created"]
     ELSE /\ submission' = [submission EXCEPT ![j].pc = "idle"]
          /\ UNCHANGED jobs
  /\ UNCHANGED <<bull, worker, lock, installation, crashes, returned, author>>

(* Queue.add, after the transaction has committed: it is acknowledged, or  *)
(* its reply is lost, or it never reaches Redis.                           *)
Enqueue(j) ==
  /\ submission[j].pc = "created"
  /\ \E landed, acknowledged \in BOOLEAN :
       /\ acknowledged => landed
       /\ acknowledged \/ ApiFaults
       /\ bull' = IF landed THEN [bull EXCEPT ![j] = Added(@)] ELSE bull
       /\ submission' = [submission EXCEPT ![j].pc = IF acknowledged THEN "idle" ELSE "undo"]
  /\ UNCHANGED <<jobs, worker, lock, installation, crashes, returned, author>>

(* The catch block of submit() deletes the row it created.                 *)
UndoSubmission(j) ==
  /\ submission[j].pc = "undo"
  /\ jobs' = [jobs EXCEPT ![j].status = "DELETED"]
  /\ submission' = [submission EXCEPT ![j].pc = "idle"]
  /\ UNCHANGED <<bull, worker, lock, installation, crashes, returned, author>>

(* The API process dies in the middle of a submission.  A client that then *)
(* repeats the request with its key is given the row that exists.          *)
ApiCrash(j) ==
  /\ ApiFaults /\ submission[j].pc # "idle"
  /\ submission' = [submission EXCEPT ![j].pc = "idle"]
  /\ UNCHANGED <<jobs, bull, worker, lock, installation, crashes, returned, author>>

(* The handlers that change an installation outside every job and lock.    *)
ApiChange(i) ==
  /\ \/ /\ CanRequest(installation[i])
        /\ installation' = [installation EXCEPT ![i] = Requested(@)]
     \/ /\ CanApprove(installation[i])
        /\ installation' = [installation EXCEPT ![i] = Approved(@)]
  /\ author' = [author EXCEPT ![i] = Api]
  /\ UNCHANGED <<jobs, submission, bull, worker, lock, crashes, returned>>

-----------------------------------------------------------------------------
(* The worker: ExtensionLifecycleJobsService.execute, one step per await.  *)

Fetch(w, j) ==
  /\ worker[w].pc = "idle" /\ bull[j].state = "waiting"
  /\ bull' = [bull EXCEPT ![j] = Taken(@, w)]
  /\ worker' = [worker EXCEPT ![w] =
       [Idle EXCEPT !.pc = "read", !.job = j, !.attempt = bull[j].made + 1]]
  /\ UNCHANGED <<jobs, submission, lock, installation, crashes, returned, author>>

Goto(w, pc) == worker' = [worker EXCEPT ![w].pc = pc]
End(w, pc, outcome) == worker' = [worker EXCEPT ![w].pc = pc, ![w].outcome = outcome]

(* Faulty variant: a job that already succeeded is not recognised.         *)
ReadJobForgetful(w) ==
  /\ worker[w].pc = "read"
  /\ IF jobs[worker[w].job].status = "DELETED"
     THEN End(w, "report", "thrown") ELSE Goto(w, "claim")
  /\ UNCHANGED <<jobs, submission, bull, lock, installation, crashes, returned, author>>

ReadJob(w) ==
  /\ worker[w].pc = "read"
  /\ LET status == jobs[worker[w].job].status
     IN CASE status = "DELETED"   -> End(w, "report", "thrown")
          [] status = "SUCCEEDED" -> End(w, "report", "returned")
          [] OTHER                -> Goto(w, "claim")
  /\ UNCHANGED <<jobs, submission, bull, lock, installation, crashes, returned, author>>

(* Faulty variant: a later attempt cannot take over a RUNNING row.         *)
ClaimableOnce(row, attempt) ==
  row.status \in {"QUEUED", "FAILED"} \/ (row.status = "RUNNING" /\ row.stale)

(* The guarded updateMany.                                                 *)
Claimable(row, attempt) ==
  \/ row.status \in {"QUEUED", "FAILED"}
  \/ row.status = "RUNNING" /\ (row.attempts < attempt \/ row.stale)

Claim(w) ==
  /\ worker[w].pc = "claim"
  /\ LET j == worker[w].job
     IN IF Claimable(jobs[j], worker[w].attempt)
        THEN /\ jobs' = [jobs EXCEPT ![j].status = "RUNNING", ![j].stale = FALSE,
                                     ![j].attempts = worker[w].attempt]
             /\ Goto(w, "lock")
        ELSE End(w, "report", "thrown") /\ UNCHANGED jobs
  /\ UNCHANGED <<submission, bull, lock, installation, crashes, returned, author>>

(* Faulty variant: SET without NX.                                         *)
AcquireAlways(w) ==
  /\ worker[w].pc = "lock"
  /\ lock' = [lock EXCEPT ![InstallationOf[worker[w].job]] = w] /\ Goto(w, "run")
  /\ UNCHANGED <<jobs, submission, bull, installation, crashes, returned, author>>

(* DistributedLockService.acquire: SET NX PX, refused at once when taken.  *)
Acquire(w) ==
  /\ worker[w].pc = "lock"
  /\ LET i == InstallationOf[worker[w].job]
     IN IF lock[i] = Free
        THEN lock' = [lock EXCEPT ![i] = w] /\ Goto(w, "run")
        ELSE End(w, "record", "thrown") /\ UNCHANGED lock
  /\ UNCHANGED <<jobs, submission, bull, installation, crashes, returned, author>>

(* The command itself.                                                     *)
Run(w) ==
  /\ worker[w].pc = "run"
  /\ LET j == worker[w].job
         i == InstallationOf[j]
     IN \E o \in Outcomes(OpOf[j], jobs[j].target, installation[i]) :
          /\ installation' = [installation EXCEPT ![i] = o.row]
          /\ author' = IF o.row = installation[i] THEN author ELSE [author EXCEPT ![i] = j]
          /\ returned' = IF o.kind = "returned" THEN returned \cup {j} ELSE returned
          /\ End(w, "unlock", o.kind)
  /\ UNCHANGED <<jobs, submission, bull, lock, crashes>>

(* DistributedLockService.release: compare the owner, then delete.  Its    *)
(* failure is swallowed and leaves the key to its time to live.            *)
Release(w) ==
  /\ worker[w].pc = "unlock"
  /\ LET i == InstallationOf[worker[w].job]
     IN \/ lock[i] = w /\ \E left \in {Free, Orphan} : lock' = [lock EXCEPT ![i] = left]
        \/ lock[i] # w /\ UNCHANGED lock
  /\ Goto(w, "record")
  /\ UNCHANGED <<jobs, submission, bull, installation, crashes, returned, author>>

(* Faulty variant: a missing installation is a success for every command.  *)
SucceedsWhenAbsent(w) == worker[w].outcome \in {"returned", "absent"}

(* A purge that finds nothing left to purge has succeeded.                 *)
Succeeds(w) ==
  \/ worker[w].outcome = "returned"
  \/ worker[w].outcome = "absent" /\ OpOf[worker[w].job] = "PURGE_INSTALLATION"

(* The final write, SUCCEEDED or FAILED, no longer looks at the row.  A    *)
(* deleted row makes the write itself throw.                               *)
Record(w) ==
  /\ worker[w].pc = "record"
  /\ LET j == worker[w].job
     IN IF jobs[j].status = "DELETED"
        THEN End(w, "report", "thrown") /\ UNCHANGED jobs
        ELSE /\ jobs' = [jobs EXCEPT ![j].status = IF Succeeds(w) THEN "SUCCEEDED" ELSE "FAILED"]
             /\ End(w, "report", IF Succeeds(w) THEN "returned" ELSE "thrown")
  /\ UNCHANGED <<submission, bull, lock, installation, crashes, returned, author>>

(* The handler's result reaches BullMQ.                                    *)
Report(w) ==
  /\ worker[w].pc = "report"
  /\ bull' = [bull EXCEPT ![worker[w].job] =
       Reported(@, w, worker[w].outcome = "returned")]
  /\ worker' = [worker EXCEPT ![w] = Idle]
  /\ UNCHANGED <<jobs, submission, lock, installation, crashes, returned, author>>

-----------------------------------------------------------------------------
(* Faults and timers.                                                      *)

(* A worker process dies; what it held outlives it.                        *)
Crash(w) ==
  /\ worker[w].pc # "idle" /\ worker[w].attempt \in CrashAttempts
  /\ crashes < MaxCrashes /\ crashes' = crashes + 1
  /\ worker' = [worker EXCEPT ![w] = Idle]
  /\ bull' = [j \in Job |-> IF bull[j].owner = w THEN Abandoned(bull[j]) ELSE bull[j]]
  /\ lock' = [i \in Installation |-> IF lock[i] = w THEN Orphan ELSE lock[i]]
  /\ UNCHANGED <<jobs, submission, installation, returned, author>>

(* BullMQ finds an active job whose lock was not renewed.                  *)
Stall(j) ==
  /\ bull[j].state = "active"
  /\ bull[j].owner = Nobody \/ LiveStalls
  /\ bull' = [bull EXCEPT ![j] = AfterStall(@)]
  /\ UNCHANGED <<jobs, submission, worker, lock, installation, crashes, returned, author>>

(* EXTENSION_COMMAND_LOCK_MS passes.                                       *)
LockExpires(i) ==
  /\ lock[i] = Orphan \/ (lock[i] \in Worker /\ SlowCommands)
  /\ lock' = [lock EXCEPT ![i] = Free]
  /\ UNCHANGED <<jobs, submission, bull, worker, installation, crashes, returned, author>>

(* The workers between their claim of j and their final write of its row.  *)
Executing(w, j) == worker[w].job = j /\ worker[w].pc \in {"lock", "run", "unlock", "record"}

(* EXTENSION_LIFECYCLE_STALE_MS passes since the claim.                    *)
GoesStale(j) ==
  /\ jobs[j].status = "RUNNING" /\ ~jobs[j].stale
  /\ SlowCommands \/ ~\E w \in Worker : Executing(w, j)
  /\ jobs' = [jobs EXCEPT ![j].stale = TRUE]
  /\ UNCHANGED <<submission, bull, worker, lock, installation, crashes, returned, author>>

-----------------------------------------------------------------------------
Execute(w) ==
  ReadJob(w) \/ Claim(w) \/ Acquire(w) \/ Run(w) \/ Release(w) \/ Record(w) \/ Report(w)

Submit(j) == ReadInstallation(j) \/ CreateJob(j) \/ Enqueue(j) \/ UndoSubmission(j)

Next ==
  \/ \E j \in Job : Submit(j) \/ ApiCrash(j) \/ Stall(j) \/ GoesStale(j)
  \/ \E i \in Installation : ApiChange(i) \/ LockExpires(i)
  \/ \E w \in Worker : Execute(w) \/ Crash(w) \/ \E j \in Job : Fetch(w, j)

Spec == Init /\ [][Next]_vars

(* A request that was accepted is carried on unless its process dies, a    *)
(* live worker keeps executing, BullMQ keeps handing waiting jobs to idle  *)
(* workers and keeps looking for jobs whose worker is gone.  Nothing is    *)
(* assumed of clients, of crashes, of the stalls of live workers or of     *)
(* when the lock and the stale timeout run out.                            *)
Fairness ==
  /\ \A j \in Job : /\ WF_vars(Enqueue(j) \/ UndoSubmission(j))
                    /\ WF_vars(\E w \in Worker : Fetch(w, j))
                    /\ WF_vars(Stall(j) /\ bull[j].owner = Nobody)
  /\ \A w \in Worker : WF_vars(Execute(w))

FairSpec == Spec /\ Fairness
-----------------------------------------------------------------------------
(* Properties.                                                             *)

(* No two workers run a command of the same installation at once: what     *)
(* DistributedLockService.run promises the commands.  It depends on no     *)
(* live command outlasting EXTENSION_COMMAND_LOCK_MS.                      *)
MutualExclusion ==
  \A w1, w2 \in Worker :
    /\ worker[w1].pc = "run" /\ worker[w2].pc = "run"
    /\ InstallationOf[worker[w1].job] = InstallationOf[worker[w2].job]
    => w1 = w2

(* A job is recorded SUCCEEDED only if its command did return once, or if  *)
(* it is a purge and the installation is gone: the status a client polls   *)
(* for is never invented by a refused lock, a refused command or a retry.  *)
SuccessIsReal ==
  \A j \in Job : jobs[j].status = "SUCCEEDED" =>
    \/ j \in returned
    \/ OpOf[j] = "PURGE_INSTALLATION" /\ installation[InstallationOf[j]].state = "ABSENT"

(* BullMQ may run a job again after its command has completed.  As long as *)
(* nobody else has changed the installation since, that changes nothing;   *)
(* for a rollback this holds if its job captured the version to go back to. *)
RetryIsNoOp ==
  [][\A i \in Installation, j \in Job :
       /\ installation'[i] # installation[i] /\ author'[i] = j
       /\ OpOf[j] = "ROLLBACK" => jobs[j].target # NoVersion
       => author[i] # j]_vars

(* The same of every job, as docs/extension-lifecycle-jobs.md says.        *)
EveryRetryIsNoOp ==
  [][\A i \in Installation, j \in Job :
       installation'[i] # installation[i] /\ author'[i] = j => author[i] # j]_vars

(* A job recorded SUCCEEDED is not left behind as a terminal failure of    *)
(* the queue for an operator to replay.                                    *)
SuccessIsNotDeadLettered ==
  \A j \in Job : jobs[j].status = "SUCCEEDED" => bull[j].state # "failed"

(* No two workers execute one job at once, that is, both claimed it and    *)
(* neither has written its final status.                                   *)
OneExecutor ==
  \A j \in Job : \A w1, w2 \in Worker :
    Executing(w1, j) /\ Executing(w2, j) => w1 = w2

(* A client that has seen SUCCEEDED sees SUCCEEDED from then on.           *)
SucceededIsFinal ==
  [][\A j \in Job : jobs[j].status = "SUCCEEDED" => jobs'[j].status = "SUCCEEDED"]_vars

(* A school never has more active lifecycle jobs than its quota.           *)
ActiveWithinQuota == Cardinality(ActiveJobs) <= Quota

(* Every job row that exists ends up SUCCEEDED or FAILED, so that polling  *)
(* ends and the job stops counting against the quota.                      *)
Settles ==
  \A j \in Job : jobs[j].status \in {"QUEUED", "RUNNING"}
                 ~> jobs[j].status \in {"SUCCEEDED", "FAILED", "DELETED"}
=============================================================================
