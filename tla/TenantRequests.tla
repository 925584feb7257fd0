---------------------------- MODULE TenantRequests -----------------------------
(***************************************************************************)
(* What keeps the requests of one school away from the rows of another:    *)
(* the school the host names and the session claims, the guards, one       *)
(* transaction per request, the query policy of PrismaService and row      *)
(* level security (backend/src/tenancy, backend/src/database); and what    *)
(* the transaction means for a job a request enqueues before it commits.   *)
(***************************************************************************)
EXTENDS Integers, FiniteSets

CONSTANTS
  School, Request,
  Row,          \* ids of rows of tenant-scoped models
  MaxAttempts,  \* QUEUE_JOB_ATTEMPTS
  Rls,          \* is row level security in force?
  None

VARIABLES
  owner,    \* owner[x]: the school of a committed row, or None
  req,      \* req[r]: a request, its tenant context and its transaction
  job,      \* job[r]: the job that request r enqueued for the row it writes
  touched   \* history: <<request, row, school of the row>> read or written

tenantVars == <<owner, req, job, touched>>

Idle == [pc |-> "idle", school |-> None, mode |-> "scoped", row |-> None, as |-> None]
NoJob == [state |-> "none", row |-> None, attempts |-> 0]

RequestsTypeOK ==
  /\ owner \in [Row -> School \cup {None}]
  /\ req \in [Request -> [pc : {"idle", "host", "open", "late", "done"}, school : School \cup {None},
                          mode : {"scoped", "unscoped"}, row : Row \cup {None},
                          as : School \cup {None}]]
  /\ job \in [Request -> [state : {"none", "waiting", "ran", "dead"}, row : Row \cup {None},
                          attempts : 0..MaxAttempts]]
  /\ touched \subseteq (Request \X Row \X School)

RequestsInit ==
  /\ owner \in [Row -> School \cup {None}]
  /\ req = [r \in Request |-> Idle]
  /\ job = [r \in Request |-> NoJob]
  /\ touched = {}

Sets(r, new) == req' = [req EXCEPT ![r] = new]
-----------------------------------------------------------------------------
(* TenantHostMiddleware opens the context of the school of the host.       *)
Arrive(r, s) ==
  /\ req[r].pc = "idle"
  /\ Sets(r, [Idle EXCEPT !.pc = "host", !.school = s])
  /\ UNCHANGED <<owner, job, touched>>

(* JwtAuthGuard: the session's school is the one of the host, or nothing   *)
(* happens.  PlatformScopeGuard lifts the scope, for a platform            *)
(* administrator only; the others get a transaction.                       *)
Authenticate(r, claim, role) ==
  /\ req[r].pc = "host" /\ claim = req[r].school
  /\ Sets(r, [req[r] EXCEPT !.pc = "open",
                            !.mode = IF role = "PLATFORM_ADMIN" THEN "unscoped" ELSE "scoped"])
  /\ UNCHANGED <<owner, job, touched>>
Reject(r, claim) ==
  /\ req[r].pc = "host" /\ claim # req[r].school
  /\ Sets(r, [req[r] EXCEPT !.pc = "done"])
  /\ UNCHANGED <<owner, job, touched>>
-----------------------------------------------------------------------------
(* Rows the database shows: to the control plane all; to the transaction   *)
(* of a request those of its school, and its own new row; to work that     *)
(* outlives the transaction, which has no school set, none.                *)
Present(r, x) == owner[x] # None \/ req[r].row = x
SchoolOf(r, x) == IF req[r].row = x THEN req[r].as ELSE owner[x]
(* Faulty variant: a table that no policy was installed on.                *)
VisibleAll(r, x) == Present(r, x)
Visible(r, x) ==
  Present(r, x) /\ (Rls /\ req[r].mode = "scoped" => req[r].pc = "open" /\ SchoolOf(r, x) = req[r].school)
Insertable(r, s) == Rls /\ req[r].mode = "scoped" => req[r].pc = "open" /\ s = req[r].school

(* applyTenantQueryPolicy: a find, an updateMany or a deleteMany gets the  *)
(* school as a condition; update and delete look for the row first.        *)
Scoped(r, x) == req[r].mode = "scoped" => SchoolOf(r, x) = req[r].school
Working(r) == req[r].pc \in {"open", "late"}
Touch(r, x) == touched' = touched \cup {<<r, x, SchoolOf(r, x)>>}

Access(r, x) ==
  /\ Working(r) /\ Visible(r, x) /\ Scoped(r, x)
  /\ Touch(r, x) /\ UNCHANGED <<owner, req, job>>
(* Raw SQL passes the policy by.                                           *)
RawAccess(r, x) ==
  /\ Working(r) /\ Visible(r, x)
  /\ Touch(r, x) /\ UNCHANGED <<owner, req, job>>

(* create keeps a school that the caller gives.                            *)
Create(r, x, s) ==
  /\ req[r].pc = "open" /\ req[r].row = None /\ owner[x] = None /\ Insertable(r, s)
  /\ Sets(r, [req[r] EXCEPT !.row = x, !.as = s])
  /\ touched' = touched \cup {<<r, x, s>>}
  /\ UNCHANGED <<owner, job>>
(* upsert: a row that is not the school's own is to be created; but the    *)
(* database updates the row it finds under the unique key, if it shows it, *)
(* and refuses the insertion if it is there and hidden.                    *)
Upsert(r, x) ==
  /\ req[r].pc = "open"
  /\ IF Visible(r, x) THEN Touch(r, x) /\ UNCHANGED req
     ELSE /\ ~ Present(r, x) /\ req[r].row = None
          /\ Sets(r, [req[r] EXCEPT !.row = x, !.as = req[r].school])
          /\ touched' = touched \cup {<<r, x, req[r].school>>}
  /\ UNCHANGED <<owner, job>>
-----------------------------------------------------------------------------
(* A handler enqueues a job for the row it has written.                    *)
Enqueue(r) ==
  /\ req[r].pc = "open" /\ req[r].mode = "scoped" /\ req[r].row # None /\ job[r] = NoJob
  /\ job' = [job EXCEPT ![r] = [state |-> "waiting", row |-> req[r].row, attempts |-> 0]]
  /\ UNCHANGED <<owner, req, touched>>

(* The response is there: the transaction commits.  Work that the handler  *)
(* did not wait for goes on outside of it.                                 *)
Commit(r) ==
  /\ req[r].pc = "open" /\ \E pc \in {"late", "done"} : Sets(r, [req[r] EXCEPT !.pc = pc, !.row = None])
  /\ req[r].row # None => owner[req[r].row] = None
  /\ owner' = IF req[r].row = None THEN owner ELSE [owner EXCEPT ![req[r].row] = req[r].as]
  /\ UNCHANGED <<job, touched>>
(* An error, an answer that is too large, the 30 s of the transaction, a   *)
(* conflict with a row that another transaction committed, a crash.        *)
Rollback(r) ==
  /\ req[r].pc = "open" /\ Sets(r, [req[r] EXCEPT !.pc = "done", !.row = None])
  /\ UNCHANGED <<owner, job, touched>>
Settle(r) ==
  /\ req[r].pc = "late" /\ Sets(r, [req[r] EXCEPT !.pc = "done"])
  /\ UNCHANGED <<owner, job, touched>>

(* A worker: the row is not found before it is committed.  The backoff of  *)
(* the attempts, more than two minutes, outlasts the transaction.          *)
RunJob(r) ==
  /\ job[r].state = "waiting"
  /\ LET n == job[r].attempts + 1
     IN IF owner[job[r].row] # None
        THEN job' = [job EXCEPT ![r].state = "ran", ![r].attempts = n]
        ELSE /\ n = MaxAttempts => req[r].pc # "open"
             /\ job' = [job EXCEPT ![r].state = IF n = MaxAttempts THEN "dead" ELSE "waiting",
                                   ![r].attempts = n]
  /\ UNCHANGED <<owner, req, touched>>

RequestsNext ==
  \E r \in Request :
    \/ \E s \in School : \/ Arrive(r, s) \/ Reject(r, s)
                         \/ \E role \in {"PLATFORM_ADMIN", "ADMIN"} : Authenticate(r, s, role)
                         \/ \E x \in Row : Create(r, x, s)
    \/ \E x \in Row : Access(r, x) \/ RawAccess(r, x) \/ Upsert(r, x)
    \/ Enqueue(r) \/ Commit(r) \/ Rollback(r) \/ Settle(r) \/ RunJob(r)

RequestsSpec == RequestsInit /\ [][RequestsNext]_tenantVars
-----------------------------------------------------------------------------
(* A request that no platform guard lifted out of its school reads and     *)
(* writes rows of that school only, whichever way its query takes.         *)
OwnRowsOnly ==
  \A t \in touched : req[t[1]].mode = "scoped" => t[3] = req[t[1]].school

(* Refuted: a job finds the row of the request that enqueued it            *)
(* (extension-lifecycle-jobs.service.ts:107): a request that fails after   *)
(* Queue.add leaves a job without a row.  Without row level security the   *)
(* upsert of the policy updates another school's row (prisma.service.ts:   *)
(* 143-145: "which will then take its create branch").                     *)
JobHasItsRow == \A r \in Request : job[r].state # "dead"
=============================================================================
