--------------------------- MODULE Platform_proofs ---------------------------
(***************************************************************************)
(* Proofs about the services around the extensions: the waves of a         *)
(* rollout, the requests of schools and their rows, the interceptors of a  *)
(* request, dead letters and their replay, scheduled tasks, sessions, the  *)
(* resource governor's counters, the nightly figures, a school's hosts and *)
(* the catalogue's lists.  Each holds for any values of the constants of   *)
(* MCPlatform, of which its configuration gives one choice.                *)
(***************************************************************************)
EXTENDS MCPlatform, FiniteSetTheorems, WellFoundedInduction, TLAPS
-----------------------------------------------------------------------------
RolloutShape ==
  /\ on \in [School -> BOOLEAN]
  /\ job \in [School -> {"none", "QUEUED", "SUCCEEDED", "FAILED"}]
  /\ back \in [School -> {"no", "yes", "upgraded"}]

(* Who runs the version, or ran it and went back, has a job that is done,  *)
(* and a job that is done stays done.                                      *)
DoneInv ==
  \A s \in School : on[s] \/ back[s] = "yes" => job[s] = "SUCCEEDED"

RolloutInv == RolloutShape /\ DoneInv /\ RollbackIsRespected

LEMMA NextRolloutInv == RolloutInv /\ [RolloutNext]_rolloutVars => RolloutInv'
<1> SUFFICES ASSUME RolloutInv, [RolloutNext]_rolloutVars PROVE RolloutInv'
  OBVIOUS
<1> USE DEF RolloutInv, RolloutShape, DoneInv, RollbackIsRespected
<1>1. CASE UNCHANGED <<on, job, back>>
  BY <1>1
<1>2. CASE \/ \E to \in Stages, resume \in BOOLEAN : BeginEdit(to, resume)
           \/ SetRollout \/ BeginScan \/ TargetAvailable \/ FailuresAge
  BY <1>1, <1>2 DEF BeginEdit, SetRollout, BeginScan, TargetAvailable, FailuresAge
<1>3. ASSUME NEW s \in School, Skip(s) \/ Notify(s) PROVE RolloutInv'
  BY <1>1, <1>3 DEF Skip, Notify
<1>4. ASSUME NEW s \in School, Submit(s) PROVE RolloutInv'
  BY <1>4 DEF Submit
<1>5. ASSUME NEW s \in School, Upgrade(s) PROVE RolloutInv'
  <2>1. back' = back
    BY <1>5 DEF Upgrade
  <2>2. QED
    BY <1>5, <2>1 DEF Upgrade
<1>6. ASSUME NEW s \in School, FailUpgrade(s) PROVE RolloutInv'
  BY <1>6 DEF FailUpgrade
<1>7. ASSUME NEW s \in School, RollBack(s) PROVE RolloutInv'
  BY <1>7 DEF RollBack
<1>8. CASE UNCHANGED rolloutVars
  BY <1>1, <1>8 DEF rolloutVars
<1>9. QED
  BY <1>2, <1>3, <1>4, <1>5, <1>6, <1>7, <1>8 DEF RolloutNext

(* ExtensionUpdateService upgrades no school to a version it has rolled    *)
(* back, whatever is edited, scanned or paused meanwhile.                  *)
THEOREM RollbackRespected == RolloutSpec => []RollbackIsRespected
<1>1. RolloutInit => RolloutInv
  BY DEF RolloutInit, RolloutInv, RolloutShape, DoneInv, RollbackIsRespected
<1>2. RolloutInv => RollbackIsRespected
  BY DEF RolloutInv
<1>3. QED
  BY NextRolloutInv, <1>1, <1>2, PTL DEF RolloutSpec
-----------------------------------------------------------------------------
Context ==
  [pc : {"idle", "host", "open", "late", "done"}, school : School \cup {None},
   mode : {"scoped", "unscoped"}, row : TenantRow \cup {None}, as : School \cup {None}]

TenantShape ==
  /\ req \in [Request -> Context]
  /\ \A t \in touched : t[1] \in Request

(* A request that has touched a row has left the state in which the host   *)
(* gives it its school; before it is authenticated nothing lifts its scope. *)
HasSchool == \A t \in touched : req[t[1]].pc # "idle"
HostScoped == \A r \in Request : req[r].pc = "host" => req[r].mode = "scoped"

TenantInv == TenantShape /\ HasSchool /\ HostScoped /\ Tenants!OwnRowsOnly

(* A step of a request that keeps its school, does not bring a lifted scope *)
(* back and touches rows of that school only, unless the scope is lifted.  *)
LEMMA Serving ==
  ASSUME TenantInv, NEW r \in Request, NEW new,
         req' = [req EXCEPT ![r] = new],
         new \in Context, new.pc # "idle",
         new.pc = "host" => new.mode = "scoped",
         req[r].pc = "idle" \/ (new.school = req[r].school /\ (new.mode = "scoped" => req[r].mode = "scoped")),
         \A t \in touched' : \/ t \in touched
                             \/ t[1] = r /\ (new.mode = "scoped" => t[3] = new.school)
  PROVE  TenantInv'
<1>1. TenantShape'
  BY DEF TenantInv, TenantShape
<1>2. \A q \in Request : req'[q] = IF q = r THEN new ELSE req[q]
  BY DEF TenantInv, TenantShape
<1>3. HasSchool' /\ HostScoped'
  BY <1>2 DEF TenantInv, TenantShape, HasSchool, HostScoped
<1>4. Tenants!OwnRowsOnly'
  BY <1>2 DEF TenantInv, TenantShape, HasSchool, Tenants!OwnRowsOnly
<1>5. QED
  BY <1>1, <1>3, <1>4 DEF TenantInv

(* A query that leaves the request as it is.                               *)
LEMMA Querying ==
  ASSUME TenantInv, NEW r \in Request, req' = req, req[r].pc # "idle",
         \A t \in touched' : \/ t \in touched
                             \/ t[1] = r /\ (req[r].mode = "scoped" => t[3] = req[r].school)
  PROVE  TenantInv'
<1>1. TenantShape'
  BY DEF TenantInv, TenantShape
<1>2. HasSchool' /\ HostScoped'
  BY DEF TenantInv, HasSchool, HostScoped
<1>3. Tenants!OwnRowsOnly'
  BY DEF TenantInv, Tenants!OwnRowsOnly
<1>4. QED
  BY <1>1, <1>2, <1>3 DEF TenantInv

(* The policies of the database make up for the paths that pass by the     *)
(* policy of the queries: raw SQL, an upsert, a row with a given school.   *)
LEMMA NextTenantInv ==
  ASSUME Rls, TenantInv, [Tenants!RequestsNext]_Tenants!tenantVars PROVE TenantInv'
<1>1. ASSUME NEW r \in Request, NEW s \in School, Tenants!Arrive(r, s) PROVE TenantInv'
  <2>1. PICK new : new = [Tenants!Idle EXCEPT !.pc = "host", !.school = s]
    OBVIOUS
  <2>2. new \in Context /\ new.pc = "host" /\ new.mode = "scoped"
    BY <2>1 DEF Tenants!Idle, Context
  <2>3. req[r].pc = "idle" /\ req' = [req EXCEPT ![r] = new] /\ touched' = touched
    BY <1>1, <2>1 DEF Tenants!Arrive, Tenants!Sets
  <2>4. QED
    BY <2>2, <2>3, Serving
<1>2. ASSUME NEW r \in Request, NEW s \in School, Tenants!Reject(r, s) PROVE TenantInv'
  <2>1. PICK new : new = [req[r] EXCEPT !.pc = "done"]
    OBVIOUS
  <2>2. req' = [req EXCEPT ![r] = new] /\ touched' = touched
    BY <1>2, <2>1 DEF Tenants!Reject, Tenants!Sets
  <2>3. req[r] \in Context
    BY DEF TenantInv, TenantShape
  <2>4. /\ new \in Context /\ new.pc = "done"
        /\ new.school = req[r].school /\ new.mode = req[r].mode
    BY <2>1, <2>3 DEF Context
  <2>5. QED
    BY <2>2, <2>4, Serving
<1>3. ASSUME NEW r \in Request, NEW s \in School, NEW role \in {"PLATFORM_ADMIN", "ADMIN"},
             Tenants!Authenticate(r, s, role)
      PROVE TenantInv'
  <2>1. PICK new : new = [req[r] EXCEPT !.pc = "open",
                                        !.mode = IF role = "PLATFORM_ADMIN" THEN "unscoped" ELSE "scoped"]
    OBVIOUS
  <2>2. req' = [req EXCEPT ![r] = new] /\ touched' = touched
    BY <1>3, <2>1 DEF Tenants!Authenticate, Tenants!Sets
  <2>3. req[r] \in Context /\ req[r].mode = "scoped"
    BY <1>3 DEF Tenants!Authenticate, TenantInv, TenantShape, HostScoped
  <2>4. new \in Context /\ new.pc = "open" /\ new.school = req[r].school
    BY <2>1, <2>3 DEF Context
  <2>5. QED
    BY <2>2, <2>3, <2>4, Serving
<1>4. ASSUME NEW r \in Request, NEW x \in TenantRow, NEW s \in School, Tenants!Create(r, x, s) PROVE TenantInv'
  <2>1. req[r].pc = "open" /\ touched' = touched \cup {<<r, x, s>>}
    BY <1>4 DEF Tenants!Create
  <2>2. req[r].mode = "scoped" => s = req[r].school
    BY <1>4 DEF Tenants!Create, Tenants!Insertable
  <2>3. req' = [req EXCEPT ![r] = [req[r] EXCEPT !.row = x, !.as = s]]
    BY <1>4 DEF Tenants!Create, Tenants!Sets
  <2>4. PICK new : new = [req[r] EXCEPT !.row = x, !.as = s]
    OBVIOUS
  <2>5. req[r] \in Context
    BY DEF TenantInv, TenantShape
  <2>6. /\ new \in Context /\ new.pc = "open"
        /\ new.school = req[r].school /\ new.mode = req[r].mode
    BY <2>1, <2>4, <2>5 DEF Context
  <2>7. \A t \in touched' : \/ t \in touched
                            \/ t[1] = r /\ (new.mode = "scoped" => t[3] = new.school)
    BY <2>1, <2>2, <2>6
  <2>8. req' = [req EXCEPT ![r] = new]
    BY <2>3, <2>4
  <2>9. QED
    BY <2>1, <2>6, <2>7, <2>8, Serving
<1>5. ASSUME NEW r \in Request, NEW x \in TenantRow, Tenants!Access(r, x) \/ Tenants!RawAccess(r, x) PROVE TenantInv'
  <2>1. Tenants!Working(r) /\ Tenants!Visible(r, x) /\ Tenants!Touch(r, x) /\ req' = req
    BY <1>5 DEF Tenants!Access, Tenants!RawAccess
  <2>2. req[r].mode = "scoped" => Tenants!SchoolOf(r, x) = req[r].school
    BY <2>1 DEF Tenants!Visible
  <2>3. touched' = touched \cup {<<r, x, Tenants!SchoolOf(r, x)>>}
    BY <2>1 DEF Tenants!Touch
  <2>4. QED
    BY <2>1, <2>2, <2>3, Querying DEF Tenants!Working
<1>6. ASSUME NEW r \in Request, NEW x \in TenantRow, Tenants!Upsert(r, x) PROVE TenantInv'
  <2>1. CASE Tenants!Visible(r, x)
    <3>1. req[r].pc = "open" /\ Tenants!Touch(r, x) /\ req' = req
      BY <1>6, <2>1 DEF Tenants!Upsert
    <3>2. req[r].mode = "scoped" => Tenants!SchoolOf(r, x) = req[r].school
      BY <2>1 DEF Tenants!Visible
    <3>3. touched' = touched \cup {<<r, x, Tenants!SchoolOf(r, x)>>}
      BY <3>1 DEF Tenants!Touch
    <3>4. QED
      BY <3>1, <3>2, <3>3, Querying
  <2>2. CASE ~ Tenants!Visible(r, x)
    <3>1. /\ req[r].pc = "open"
          /\ req' = [req EXCEPT ![r] = [req[r] EXCEPT !.row = x, !.as = req[r].school]]
          /\ touched' = touched \cup {<<r, x, req[r].school>>}
      BY <1>6, <2>2 DEF Tenants!Upsert, Tenants!Sets
    <3>2. PICK new : new = [req[r] EXCEPT !.row = x, !.as = req[r].school]
      OBVIOUS
    <3>3. req[r] \in Context
      BY DEF TenantInv, TenantShape
    <3>4. /\ new \in Context /\ new.pc = "open"
          /\ new.school = req[r].school /\ new.mode = req[r].mode
      BY <3>1, <3>2, <3>3 DEF Context
    <3>5. \A t \in touched' : \/ t \in touched
                              \/ t[1] = r /\ (new.mode = "scoped" => t[3] = new.school)
      BY <3>1, <3>4
    <3>6. req' = [req EXCEPT ![r] = new]
      BY <3>1, <3>2
    <3>7. new.pc # "idle" /\ new.pc # "host"
      BY <3>4
    <3>8. new.school = req[r].school /\ (new.mode = "scoped" => req[r].mode = "scoped")
      BY <3>4
    <3>9. QED
      BY <3>4, <3>5, <3>6, <3>7, <3>8, Serving
  <2>3. QED
    BY <2>1, <2>2
<1>7. ASSUME NEW r \in Request, Tenants!Commit(r) \/ Tenants!Rollback(r) \/ Tenants!Settle(r) PROVE TenantInv'
  <2>1. PICK new \in {[req[r] EXCEPT !.pc = "late", !.row = None], [req[r] EXCEPT !.pc = "done", !.row = None],
                      [req[r] EXCEPT !.pc = "done"]} : req' = [req EXCEPT ![r] = new]
    BY <1>7 DEF Tenants!Commit, Tenants!Rollback, Tenants!Settle, Tenants!Sets
  <2>2. touched' = touched
    BY <1>7 DEF Tenants!Commit, Tenants!Rollback, Tenants!Settle
  <2>3. req[r] \in Context
    BY DEF TenantInv, TenantShape
  <2>4. /\ new \in Context /\ new.pc \in {"late", "done"}
        /\ new.school = req[r].school /\ new.mode = req[r].mode
    BY <2>1, <2>3 DEF Context
  <2>5. QED
    BY <2>1, <2>2, <2>4, Serving
<1>8. ASSUME NEW r \in Request, Tenants!Enqueue(r) \/ Tenants!RunJob(r) PROVE TenantInv'
  BY <1>8 DEF Tenants!Enqueue, Tenants!RunJob, TenantInv, TenantShape, HasSchool, HostScoped, Tenants!OwnRowsOnly
<1>9. CASE UNCHANGED Tenants!tenantVars
  BY <1>9 DEF Tenants!tenantVars, TenantInv, TenantShape, HasSchool, HostScoped, Tenants!OwnRowsOnly
<1>10. QED
  BY <1>1, <1>2, <1>3, <1>4, <1>5, <1>6, <1>7, <1>8, <1>9 DEF Tenants!RequestsNext

(* With row level security a request of a school that no platform guard    *)
(* lifted out of it reads and writes rows of that school only, through     *)
(* TenantQueryPolicy or past it, in its transaction or after it.           *)
THEOREM RowsStayApart == ASSUME Rls PROVE Tenants!RequestsSpec => []Tenants!OwnRowsOnly
<1>1. Tenants!RequestsInit => TenantInv
  BY DEF Tenants!RequestsInit, Tenants!Idle, TenantInv, TenantShape, Context, HasSchool, HostScoped, Tenants!OwnRowsOnly
<1>2. TenantInv /\ [Tenants!RequestsNext]_Tenants!tenantVars => TenantInv'
  BY NextTenantInv
<1>3. TenantInv => Tenants!OwnRowsOnly
  BY DEF TenantInv
<1>4. QED
  BY <1>1, <1>2, <1>3, PTL DEF Tenants!RequestsSpec
-----------------------------------------------------------------------------
PipelineSpec == Pipe!PipelineInit /\ [][Pipe!PipelineNext]_Pipe!pipeVars

Passage ==
  [pc : {"new", "handle", "audit", "size", "complete", "release", "end", "over"},
   wrote : BOOLEAN, row : {"none", "success", "failure"},
   broken : BOOLEAN, told : {"none", "success", "replay", "error"}]

(* A request that has written and may still commit holds the audit row of  *)
(* a success: an insert that failed has broken the transaction.            *)
HoldsRow(q) == q.wrote /\ q.told # "error" /\ ~ q.broken => q.row = "success"
(* An answer of its own comes from a handler that has written.             *)
Earned(q) ==
  /\ q.pc \in {"new", "handle"} => q.told = "none"
  /\ q.pc \in {"audit", "size", "complete"} => q.told \in {"none", "error"}
  /\ q.pc \in {"size", "complete", "end"} /\ q.told = "none" => q.wrote
  /\ q.pc = "audit" /\ q.told = "none" => q.wrote
  /\ q.pc = "release" => q.told = "error"
  /\ q.pc # "over" => q.told # "success"

Passages ==
  /\ piped \in [Attempt -> Passage]
  /\ metrics \in [Attempt -> {"none", "ok", "error"}]
Served == \A r \in Attempt : HoldsRow(piped[r]) /\ Earned(piped[r])
Audited == \A r \in applied : <<r, "success">> \in audited
Reported == \A r \in Attempt :
  piped[r].told = "success" /\ piped[r].pc = "over" => r \in applied /\ metrics[r] = "ok"

PipelineInv == Passages /\ Served /\ Audited /\ Reported

(* A step of a request before its transaction ends, or without one.        *)
LEMMA PipelineStep ==
  ASSUME PipelineInv, NEW r \in Attempt, NEW q \in Passage,
         piped' = [piped EXCEPT ![r] = q], HoldsRow(q), Earned(q),
         metrics' \in [Attempt -> {"none", "ok", "error"}],
         \A s \in Attempt \ {r} : metrics'[s] = metrics[s],
         applied \subseteq applied', audited \subseteq audited',
         \A s \in applied' \ applied : <<s, "success">> \in audited',
         q.pc = "over" /\ q.told = "success" => metrics'[r] = "ok" /\ r \in applied'
  PROVE  PipelineInv'
<1>1. \A s \in Attempt : piped'[s] = IF s = r THEN q ELSE piped[s]
  BY DEF PipelineInv, Passages
<1>2. Passages'
  BY DEF PipelineInv, Passages
<1>3. Served'
  BY <1>1 DEF PipelineInv, Served, HoldsRow, Earned
<1>4. Audited'
  BY DEF PipelineInv, Audited
<1>5. Reported'
  BY <1>1 DEF PipelineInv, Reported
<1>6. QED
  BY <1>2, <1>3, <1>4, <1>5 DEF PipelineInv

LEMMA NextPipelineInv ==
  ASSUME InSchool = TRUE, PipelineInv, [Pipe!PipelineNext]_Pipe!pipeVars PROVE PipelineInv'
<1>1. CASE UNCHANGED Pipe!pipeVars
  BY <1>1 DEF Pipe!pipeVars, PipelineInv, Passages, Served, Audited, Reported
<1> SUFFICES ASSUME NEW r \in Attempt,
    \/ Pipe!Reserve(r) \/ Pipe!Handle(r) \/ Pipe!HandlerFails(r) \/ Pipe!Audit(r) \/ Pipe!AuditFails(r)
    \/ Pipe!FitsSize(r) \/ Pipe!TooLarge(r) \/ Pipe!Complete(r) \/ Pipe!Release(r)
    \/ Pipe!Commit(r) \/ Pipe!Rollback(r) \/ Pipe!CommitFails(r) \/ Pipe!Dies(r)
    PROVE PipelineInv'
  BY <1>1 DEF Pipe!PipelineNext
<1> PICK p \in Passage : p = piped[r]
  BY DEF PipelineInv, Passages
<1>2. HoldsRow(p) /\ Earned(p)
  BY DEF PipelineInv, Served
<1>3. CASE Pipe!Reserve(r)
  <2>1. PICK ans \in {"none", "replay", "error"}, pc \in {"handle", "end"} :
          /\ piped' = [piped EXCEPT ![r] = [p EXCEPT !.pc = pc, !.told = ans]]
          /\ pc = "handle" => ans = "none"
          /\ pc = "end" => ans # "none"
    <3>1. p.told = "none"
      BY <1>2, <1>3 DEF Pipe!Reserve, Earned
    <3>2. CASE key = "ABSENT"
      <4>1. piped' = [piped EXCEPT ![r] = [p EXCEPT !.pc = "handle"]]
        BY <1>3, <3>2 DEF Pipe!Reserve, Pipe!Goes
      <4>2. [p EXCEPT !.pc = "handle"] = [p EXCEPT !.pc = "handle", !.told = "none"]
        BY <3>1 DEF Passage
      <4>3. QED
        BY <4>1, <4>2
    <3>3. CASE key # "ABSENT"
      BY <1>3, <3>3 DEF Pipe!Reserve
    <3>4. QED
      BY <3>2, <3>3
  <2>2. PICK q \in Passage : q = [p EXCEPT !.pc = pc, !.told = ans]
    BY DEF Passage
  <2>3. HoldsRow(q) /\ Earned(q) /\ q.pc # "over"
    BY <1>2, <1>3, <2>1, <2>2 DEF Pipe!Reserve, HoldsRow, Earned, Passage
  <2>4. QED
    BY <1>3, <2>1, <2>2, <2>3, PipelineStep DEF Pipe!Reserve, PipelineInv, Passages
<1>4. CASE Pipe!Handle(r)
  <2>1. PICK q \in Passage : q = [p EXCEPT !.pc = "audit", !.wrote = TRUE, !.row = "success"]
    BY DEF Passage
  <2>2. piped' = [piped EXCEPT ![r] = q] /\ p.pc = "handle"
    <3>1. piped' = [piped EXCEPT ![r] = [piped[r] EXCEPT !.pc = "audit", !.wrote = TRUE, !.row = "success"]]
      BY <1>4 DEF Pipe!Handle
    <3>2. piped[r].pc = "handle"
      BY <1>4 DEF Pipe!Handle, Pipe!Goes
    <3>3. QED
      BY <2>1, <3>1, <3>2
  <2>3. HoldsRow(q) /\ Earned(q) /\ q.pc # "over"
    BY <1>2, <2>1, <2>2 DEF HoldsRow, Earned, Passage
  <2>4. applied' = applied /\ UNCHANGED <<metrics, audited>>
    BY <1>4 DEF Pipe!Handle
  <2>5. QED
    BY <2>2, <2>3, <2>4, PipelineStep DEF PipelineInv, Passages
<1>5. CASE Pipe!HandlerFails(r)
  <2>1. PICK q \in Passage : q = [p EXCEPT !.pc = "audit", !.row = "failure", !.told = "error"]
    BY DEF Passage
  <2>2. piped' = [piped EXCEPT ![r] = q]
    <3>1. piped' = [piped EXCEPT ![r] = [piped[r] EXCEPT !.pc = "audit", !.row = "failure", !.told = "error"]]
      BY <1>5 DEF Pipe!HandlerFails
    <3>2. QED
      BY <2>1, <3>1
  <2>3. HoldsRow(q) /\ Earned(q) /\ q.pc # "over"
    BY <1>2, <2>1, <2>2 DEF HoldsRow, Earned, Passage
  <2>4. QED
    BY <1>5, <2>2, <2>3, PipelineStep DEF Pipe!HandlerFails, PipelineInv, Passages
<1>6. CASE Pipe!Audit(r)
  <2>1. PICK q \in Passage : q = [p EXCEPT !.pc = Pipe!AfterAudit(r)]
    BY DEF Passage, Pipe!AfterAudit
  <2>2. piped' = [piped EXCEPT ![r] = q] /\ p.pc = "audit"
    BY <1>6, <2>1 DEF Pipe!Audit, Pipe!Goes, PipelineInv, Passages
  <2>3. HoldsRow(q) /\ Earned(q) /\ q.pc # "over"
    BY <1>2, <2>1, <2>2 DEF HoldsRow, Earned, Passage, Pipe!AfterAudit
  <2>4. audited \subseteq audited' /\ UNCHANGED <<applied, metrics>>
    BY <1>6 DEF Pipe!Audit
  <2>5. QED
    BY <2>2, <2>3, <2>4, PipelineStep DEF PipelineInv, Passages
<1>7. CASE Pipe!AuditFails(r)
  <2>1. PICK q \in Passage : q = [p EXCEPT !.pc = Pipe!AfterAudit(r), !.row = "none", !.broken = InSchool]
    BY DEF Passage, Pipe!AfterAudit
  <2>2. piped' = [piped EXCEPT ![r] = q] /\ p.pc = "audit"
    BY <1>7, <2>1 DEF Pipe!AuditFails, PipelineInv, Passages
  <2>3. HoldsRow(q) /\ Earned(q) /\ q.pc # "over"
    BY <1>2, <2>1, <2>2 DEF HoldsRow, Earned, Passage, Pipe!AfterAudit
  <2>4. QED
    BY <1>7, <2>2, <2>3, PipelineStep DEF Pipe!AuditFails, PipelineInv, Passages
<1>8. CASE Pipe!FitsSize(r)
  <2>1. PICK q \in Passage : q = [p EXCEPT !.pc = "complete"]
    BY DEF Passage
  <2>2. piped' = [piped EXCEPT ![r] = q] /\ p.pc = "size"
    BY <1>8, <2>1 DEF Pipe!FitsSize, Pipe!Goes
  <2>3. HoldsRow(q) /\ Earned(q) /\ q.pc # "over"
    BY <1>2, <2>1, <2>2 DEF HoldsRow, Earned, Passage
  <2>4. QED
    BY <1>8, <2>2, <2>3, PipelineStep DEF Pipe!FitsSize, PipelineInv, Passages
<1>9. CASE Pipe!TooLarge(r)
  <2>1. PICK q \in Passage : q = [p EXCEPT !.pc = "release", !.told = "error"]
    BY DEF Passage
  <2>2. piped' = [piped EXCEPT ![r] = q]
    BY <1>9, <2>1 DEF Pipe!TooLarge, Passage
  <2>3. HoldsRow(q) /\ Earned(q) /\ q.pc # "over"
    BY <1>2, <2>1, <2>2 DEF HoldsRow, Earned, Passage
  <2>4. QED
    BY <1>9, <2>2, <2>3, PipelineStep DEF Pipe!TooLarge, PipelineInv, Passages
<1>10. CASE Pipe!Complete(r) \/ Pipe!Release(r)
  <2>1. PICK q \in Passage : q = [p EXCEPT !.pc = "end"]
    BY DEF Passage
  <2>2. piped' = [piped EXCEPT ![r] = q] /\ p.pc \in {"complete", "release"}
    BY <1>10, <2>1 DEF Pipe!Complete, Pipe!Release, Pipe!Goes
  <2>3. HoldsRow(q) /\ Earned(q) /\ q.pc # "over"
    BY <1>2, <2>1, <2>2 DEF HoldsRow, Earned, Passage
  <2>4. UNCHANGED <<applied, audited, metrics>>
    BY <1>10 DEF Pipe!Complete, Pipe!Release
  <2>5. QED
    BY <2>2, <2>3, <2>4, PipelineStep DEF PipelineInv, Passages
<1>11. CASE Pipe!Commit(r)
  <2>1. PICK q \in Passage : q = [p EXCEPT !.pc = "over", !.told = IF p.told = "replay" THEN "replay" ELSE "success"]
    BY DEF Passage
  <2>2. /\ piped' = [piped EXCEPT ![r] = q] /\ metrics' = [metrics EXCEPT ![r] = "ok"]
        /\ p.pc = "end" /\ p.told # "error" /\ ~ p.broken
    BY <1>11, <2>1 DEF Pipe!Commit, Pipe!Ends, Passage
  <2>3. HoldsRow(q) /\ Earned(q)
    BY <1>2, <2>1, <2>2 DEF HoldsRow, Earned, Passage
  <2>4. /\ applied' = IF p.wrote THEN applied \cup {r} ELSE applied
        /\ audited' = IF p.wrote /\ p.row # "none" THEN audited \cup {<<r, p.row>>} ELSE audited
    BY <1>11 DEF Pipe!Commit
  <2>5. p.wrote => p.row = "success"
    BY <1>2, <2>2 DEF HoldsRow
  <2>6. q.told = "success" => p.wrote
    BY <1>2, <2>1, <2>2 DEF Earned, Passage
  <2>7. \A s \in applied' \ applied : <<s, "success">> \in audited'
    BY <2>4, <2>5
  <2>8. applied \subseteq applied' /\ audited \subseteq audited'
    BY <2>4
  <2>9. q.told = "success" => metrics'[r] = "ok" /\ r \in applied'
    BY <2>2, <2>4, <2>6 DEF PipelineInv, Passages
  <2>10. /\ metrics' \in [Attempt -> {"none", "ok", "error"}]
         /\ \A s \in Attempt \ {r} : metrics'[s] = metrics[s]
    BY <2>2 DEF PipelineInv, Passages
  <2>11. QED
    BY <2>2, <2>3, <2>7, <2>8, <2>9, <2>10, PipelineStep
<1>12. CASE Pipe!Rollback(r) \/ Pipe!CommitFails(r)
  <2>1. PICK q \in Passage : q = [p EXCEPT !.pc = "over", !.told = "error"]
    BY DEF Passage
  <2>2. piped' = [piped EXCEPT ![r] = q] /\ metrics' = [metrics EXCEPT ![r] = "error"]
    BY <1>12, <2>1 DEF Pipe!Rollback, Pipe!CommitFails, Pipe!Ends, Passage
  <2>3. HoldsRow(q) /\ Earned(q) /\ q.told = "error"
    BY <1>2, <2>1 DEF HoldsRow, Earned, Passage
  <2>4. UNCHANGED <<applied, audited>>
    BY <1>12 DEF Pipe!Rollback, Pipe!CommitFails
  <2>5. /\ metrics' \in [Attempt -> {"none", "ok", "error"}]
        /\ \A s \in Attempt \ {r} : metrics'[s] = metrics[s]
    BY <2>2 DEF PipelineInv, Passages
  <2>6. QED
    BY <2>2, <2>3, <2>4, <2>5, PipelineStep
<1>13. CASE Pipe!Dies(r)
  <2>1. PICK q \in Passage : q = [p EXCEPT !.pc = "over"]
    BY DEF Passage
  <2>2. piped' = [piped EXCEPT ![r] = q] /\ p.pc # "over"
    BY <1>13, <2>1 DEF Pipe!Dies, Pipe!Goes
  <2>3. HoldsRow(q) /\ Earned(q) /\ q.told # "success"
    BY <1>2, <2>1, <2>2 DEF HoldsRow, Earned, Passage
  <2>4. QED
    BY <1>13, <2>2, <2>3, PipelineStep DEF Pipe!Dies, PipelineInv, Passages
<1>14. QED
  BY <1>3, <1>4, <1>5, <1>6, <1>7, <1>8, <1>9, <1>10, <1>11, <1>12, <1>13

(* In a school's request nothing is committed without its audit row, and   *)
(* a success it reports is committed and counted as one, whatever fails:   *)
(* both writes are in the transaction the answer waits for.                *)
THEOREM MutationsAreAudited ==
  ASSUME InSchool = TRUE PROVE PipelineSpec => [](Pipe!AppliedIsAudited /\ Pipe!ReportedIsApplied)
<1>1. Pipe!PipelineInit => PipelineInv
  BY DEF Pipe!PipelineInit, Pipe!Fresh, PipelineInv, Passages, Passage, Served, HoldsRow, Earned,
         Audited, Reported
<1>2. PipelineInv /\ [Pipe!PipelineNext]_Pipe!pipeVars => PipelineInv'
  BY NextPipelineInv
<1>3. PipelineInv => Pipe!AppliedIsAudited /\ Pipe!ReportedIsApplied
  BY DEF PipelineInv, Audited, Reported, Pipe!AppliedIsAudited, Pipe!ReportedIsApplied
<1>4. QED
  BY <1>1, <1>2, <1>3, PTL DEF PipelineSpec

(* What a request of a school reads, writes and commits is the school's    *)
(* own, and what it commits is audited.                                    *)
COROLLARY RequestsStayConfined ==
  ASSUME Rls, InSchool = TRUE
  PROVE  Tenants!RequestsSpec /\ PipelineSpec => []RequestsAreConfined
<1>1. Tenants!OwnRowsOnly /\ Pipe!AppliedIsAudited => RequestsAreConfined
  BY DEF RequestsAreConfined
<1>2. QED
  BY RowsStayApart, MutationsAreAudited, <1>1, PTL
-----------------------------------------------------------------------------
LettersSpec == Replays!LettersInit /\ [][Replays!LettersNext]_Replays!letterVars

Points == {"new", "leased", "read", "remove", "add", "drop", "release", "over"}

(* A request that is under way holds the lease alone; until it has put the *)
(* job back the copy is there, and then the job is.                        *)
Alone == \A o \in Operator : ask[o] \notin {"new", "over"} => lease = {o}
InHand == \A o \in Operator :
  /\ ask[o] \in {"read", "remove", "add"} => dead
  /\ ask[o] = "drop" => source # "none"

LettersInv ==
  /\ ask \in [Operator -> Points] /\ source \in {"none", "waiting", "active", "failed", "completed"}
  /\ dead \in BOOLEAN /\ lease \in SUBSET Operator /\ stalls = 0
  /\ Alone /\ InHand /\ (source # "none" \/ dead)

LEMMA NextLettersInv ==
  ASSUME Stalls = 0, LettersInv, [Replays!LettersNext]_Replays!letterVars PROVE LettersInv'
<1> USE DEF LettersInv, Alone, InHand, Points
<1>1. CASE UNCHANGED Replays!letterVars
  BY <1>1 DEF Replays!letterVars
<1>2. CASE Replays!Take \/ Replays!Complete \/ Replays!Fail
  BY <1>2 DEF Replays!Take, Replays!Complete, Replays!Fail
<1>3. CASE Replays!Copy \/ Replays!WorkerDies
  BY <1>3 DEF Replays!Copy, Replays!WorkerDies
<1>4. CASE Replays!LeaseExpires
  BY <1>4 DEF Replays!LeaseExpires
<1>5. ASSUME NEW o \in Operator, Replays!AcquireLease(o) \/ Replays!ReleaseLease(o) PROVE LettersInv'
  BY <1>5 DEF Replays!AcquireLease, Replays!ReleaseLease, Replays!Goes
<1>6. ASSUME NEW o \in Operator, Replays!GetDeadJob(o) \/ Replays!GetSourceJob(o) PROVE LettersInv'
  BY <1>6 DEF Replays!GetDeadJob, Replays!GetSourceJob, Replays!Goes
<1>7. ASSUME NEW o \in Operator, Replays!RemoveSource(o) PROVE LettersInv'
  BY <1>7 DEF Replays!RemoveSource, Replays!Goes
<1>8. ASSUME NEW o \in Operator, Replays!AddAgain(o) PROVE LettersInv'
  BY <1>8 DEF Replays!AddAgain, Replays!Goes
<1>9. ASSUME NEW o \in Operator, Replays!DropDeadJob(o) PROVE LettersInv'
  BY <1>9 DEF Replays!DropDeadJob, Replays!Goes
<1>10. ASSUME NEW o \in Operator, Replays!ApiDies(o) PROVE LettersInv'
  BY <1>10 DEF Replays!ApiDies, Replays!Goes
<1>11. QED
  BY <1>1, <1>2, <1>3, <1>4, <1>5, <1>6, <1>7, <1>8, <1>9, <1>10 DEF Replays!LettersNext

(* A replay never loses the job, whichever process dies between two of its *)
(* calls, as long as no request outlives its lease: it is in its queue, or *)
(* its copy is among the dead letters and may be replayed again.           *)
THEOREM ReplayKeepsTheJob ==
  ASSUME Stalls = 0 PROVE LettersSpec => []Replays!JobIsKept
<1>1. Replays!LettersInit => LettersInv
  BY DEF Replays!LettersInit, LettersInv, Alone, InHand, Points
<1>2. LettersInv /\ [Replays!LettersNext]_Replays!letterVars => LettersInv'
  BY NextLettersInv
<1>3. LettersInv => Replays!JobIsKept
  BY DEF LettersInv, Replays!JobIsKept
<1>4. QED
  BY <1>1, <1>2, <1>3, PTL DEF LettersSpec
-----------------------------------------------------------------------------
TasksSpec == Tasks!SchedulesInit /\ [][Tasks!SchedulesNext]_Tasks!scheduleVars

(* Clocks differ by a window at most.                                      *)
ClocksAgree ==
  /\ Window \in Nat \ {0} /\ LastTick \in Nat /\ Skew \in [Server -> Int]
  /\ \A p \in Server : Skew[p] <= Window
  /\ \A p, q \in Server : Skew[p] - Skew[q] <= Window

LEMMA InWindow ==
  ASSUME NEW n \in Int, NEW w \in Nat \ {0}
  PROVE  n \div w \in Int /\ w * (n \div w) <= n /\ n < w * (n \div w) + w
OBVIOUS

(* The task of a window has run nowhere, or in one process; the key that   *)
(* process took lasts for two windows from when its clock entered this one. *)
TakenByOne == \A b \in Tasks!Windows :
  \/ ran[b] = {}
  \/ \E p \in Server : ran[b] = {p} /\ claim[b] >= Window * b - Skew[p] + 2 * Window

TasksInv ==
  /\ now \in 0..LastTick /\ claim \in [Tasks!Windows -> Nat] /\ ran \in [Tasks!Windows -> SUBSET Server]
  /\ TakenByOne

LEMMA WindowsGrow ==
  ASSUME NEW m \in Int, NEW n \in Int, m <= n, NEW w \in Nat \ {0}
  PROVE  m \div w <= n \div w
<1> DEFINE a == m \div w
           b == n \div w
<1>1. a \in Int /\ b \in Int /\ w * a <= m /\ n < w * b + w
  BY InWindow
<1> HIDE DEF a, b
<1>2. SUFFICES ASSUME b < a PROVE FALSE
  BY <1>1 DEF a, b
<1>3. PICK d \in Nat : a = b + 1 + d
  <2>1. a - b - 1 \in Nat
    BY <1>1, <1>2
  <2>2. a = b + 1 + (a - b - 1)
    BY <1>1
  <2>3. QED
    BY <2>1, <2>2
<1>4. w * a = w * b + w + w * d
  BY <1>1, <1>3
<1>5. w * d >= 0 /\ w * d \in Int /\ w * b \in Int
  BY <1>1, <1>3
<1>6. QED
  BY <1>1, <1>4, <1>5

LEMMA NextTasksInv ==
  ASSUME ClocksAgree, TasksInv, [Tasks!SchedulesNext]_Tasks!scheduleVars PROVE TasksInv'
<1>1. CASE UNCHANGED Tasks!scheduleVars
  BY <1>1 DEF Tasks!scheduleVars, TasksInv, TakenByOne
<1>2. CASE Tasks!Tick
  BY <1>2 DEF Tasks!Tick, ClocksAgree, TasksInv, TakenByOne
<1>3. ASSUME NEW p \in Server, Tasks!Acquire(p) PROVE TasksInv'
  <2>1. PICK n \in Int : n = now + Skew[p]
    BY DEF TasksInv, ClocksAgree
  <2>2. PICK b \in Int : b = n \div Window
    BY InWindow DEF ClocksAgree
  <2>3. b \in Tasks!Windows
    <3>1. 0 <= n /\ n <= LastTick + Window
      BY <1>3, <2>1 DEF Tasks!Acquire, Tasks!Local, TasksInv, ClocksAgree
    <3>2. 0 \div Window = 0
      BY DEF ClocksAgree
    <3>3. 0 <= b /\ b <= (LastTick + Window) \div Window
      BY <2>2, <3>1, <3>2, WindowsGrow DEF ClocksAgree
    <3>4. (LastTick + Window) \div Window \in Int
      BY InWindow DEF ClocksAgree
    <3>5. QED
      BY <3>3, <3>4 DEF Tasks!Windows
  <2>4. Window * b \in Int /\ Window * b <= n /\ n < Window * b + Window
    BY <2>2, InWindow DEF ClocksAgree
  <2>5. /\ now' = now
        /\ claim[b] > now => UNCHANGED <<claim, ran>>
        /\ ~ (claim[b] > now) => /\ claim' = [claim EXCEPT ![b] = now + 2 * Window]
                                 /\ ran' = [ran EXCEPT ![b] = @ \cup {p}]
    BY <1>3, <2>1, <2>2 DEF Tasks!Acquire, Tasks!Local, Tasks!Lifetime
  <2>6. CASE claim[b] > now
    BY <2>5, <2>6 DEF TasksInv, TakenByOne
  <2>7. CASE ~ (claim[b] > now)
    <3>1. ran[b] = {}
      <4>1. SUFFICES ASSUME NEW q \in Server, claim[b] >= Window * b - Skew[q] + 2 * Window PROVE FALSE
        BY <2>3 DEF TasksInv, TakenByOne
      <4>2. /\ Skew[p] \in Int /\ Skew[q] \in Int /\ Skew[q] - Skew[p] <= Window
            /\ Window \in Nat /\ now \in Int /\ claim[b] \in Int
        BY <2>3 DEF ClocksAgree, TasksInv
      <4>3. QED
        BY <2>1, <2>4, <2>7, <4>1, <4>2
    <3>2. claim' = [claim EXCEPT ![b] = now + 2 * Window] /\ ran' = [ran EXCEPT ![b] = {p}]
      BY <2>5, <2>7, <3>1
    <3>3. now + 2 * Window \in Nat /\ now + 2 * Window >= Window * b - Skew[p] + 2 * Window
      BY <2>1, <2>4 DEF TasksInv, ClocksAgree
    <3>4. now' \in 0..LastTick /\ claim' \in [Tasks!Windows -> Nat] /\ ran' \in [Tasks!Windows -> SUBSET Server]
      BY <2>5, <3>2, <3>3 DEF TasksInv
    <3>5. TakenByOne'
      <4>1. SUFFICES ASSUME NEW c \in Tasks!Windows
                     PROVE  \/ ran'[c] = {}
                            \/ \E q \in Server : /\ ran'[c] = {q}
                                                 /\ claim'[c] >= Window * c - Skew[q] + 2 * Window
        BY DEF TakenByOne
      <4>2. CASE c = b
        BY <2>3, <3>2, <3>3, <4>2 DEF TasksInv
      <4>3. CASE c # b
        BY <3>2, <4>3 DEF TasksInv, TakenByOne
      <4>4. QED
        BY <4>2, <4>3
    <3>6. QED
      BY <3>4, <3>5 DEF TasksInv
  <2>8. QED
    BY <2>6, <2>7
<1>4. QED
  BY <1>1, <1>2, <1>3 DEF Tasks!SchedulesNext

LEMMA TaskCardinality == \A S : Tasks!Cardinality(S) = Cardinality(S)
  BY DEF Tasks!Cardinality, Cardinality

(* ScheduledTaskGuard lets one process run the task of a window, if clocks *)
(* differ by no more than a window: a claim outlasts the moment in which   *)
(* the slowest clock leaves the window it was made for.                    *)
THEOREM TaskRunsOnce ==
  ASSUME ClocksAgree PROVE TasksSpec => []Tasks!OncePerWindow
<1>1. Tasks!SchedulesInit => TasksInv
  BY DEF Tasks!SchedulesInit, TasksInv, TakenByOne, ClocksAgree
<1>2. TasksInv /\ [Tasks!SchedulesNext]_Tasks!scheduleVars => TasksInv'
  BY NextTasksInv
<1>3. TasksInv => Tasks!OncePerWindow
  <2>1. SUFFICES ASSUME TasksInv, NEW b \in Tasks!Windows PROVE Cardinality(ran[b]) <= 1
    BY TaskCardinality DEF Tasks!OncePerWindow
  <2>2. CASE ran[b] = {}
    BY <2>2, FS_EmptySet
  <2>3. CASE \E p \in Server : ran[b] = {p}
    BY <2>3, FS_Singleton
  <2>4. QED
    BY <2>1, <2>2, <2>3 DEF TasksInv, TakenByOne
<1>4. QED
  BY <1>1, <1>2, <1>3, PTL DEF TasksSpec

(* A window's task runs once and a replayed job is kept, the clocks and    *)
(* the leases allowing.                                                    *)
COROLLARY WorkDoneOnce ==
  ASSUME ClocksAgree, Stalls = 0
  PROVE  TasksSpec /\ LettersSpec => []WorkIsDoneOnce
<1>1. Tasks!OncePerWindow /\ Replays!JobIsKept => WorkIsDoneOnce
  BY DEF WorkIsDoneOnce
<1>2. QED
  BY TaskRunsOnce, ReplayKeepsTheJob, <1>1, PTL
-----------------------------------------------------------------------------
SessionsSpec == Sessions!AccountsInit /\ [][Sessions!AccountsNext]_Sessions!accountVars

RolesKnown == Roles \in [User -> Sessions!Role] /\ Assigned \subseteq Sessions!Role

Account == [exists : BOOLEAN, role : Sessions!Role \cup {None}, pw : Nat, enabled : BOOLEAN, secret : Nat, scanned : Nat]
RefreshToken == [of : User \cup {None}, state : {"unused", "live", "expired", "gone"},
                 pw : Nat, root : Token \cup {None}]
Cookies == [access : Sessions!Role \cup {None}, token : Token \cup {None}]
ApiCall == [op : {"idle", "login", "rotate", "reset", "password", "delete", "role"},
            by : Sessions!Role \cup {None}, on : User \cup {None}, t : Token \cup Link \cup {None},
            pw : Nat, as : Sessions!Role \cup {None}]

SessionShape ==
  /\ acct \in [User -> Account] /\ refresh \in [Token -> RefreshToken]
  /\ browser \in [User -> Cookies] /\ call \in [Call -> ApiCall]
  /\ link \in [Link -> [of : User \cup {None}, state : {"unused", "sent", "used", "expired"}]]

(* The first token of a session is one that was issued.                    *)
Rooted == \A t \in Token : refresh[t].state # "unused"
  => refresh[t].root \in Token /\ refresh[refresh[t].root].state # "unused"
Owned == \A t \in Token : refresh[t].state = "live" => refresh[t].of \in User /\ acct[refresh[t].of].exists
(* The cookie of a browser is a token of its account.                      *)
Carried == \A u \in User : browser[u].token # None
  => refresh[browser[u].token].of = u /\ refresh[browser[u].token].state # "unused"
Underway == \A c \in Call :
  /\ call[c].op \in {"login", "rotate"} => call[c].on \in User
  /\ call[c].op = "rotate" => call[c].t \in Token /\ refresh[call[c].t].state # "unused"
(* A token, and a request that will write one, has the account's password. *)
SamePassword == "reset" \notin astray =>
  /\ \A t \in Token : refresh[t].state = "live" => refresh[t].pw = acct[refresh[t].of].pw
  /\ \A c \in Call : call[c].op \in {"login", "rotate"} => call[c].pw = acct[call[c].on].pw
OneToken == "rotation" \notin astray =>
  \A s, t \in Token :
    refresh[s].state = "live" /\ refresh[t].state = "live" /\ refresh[s].root = refresh[t].root => s = t

SessionsInv == SessionShape /\ Rooted /\ Owned /\ Carried /\ Underway /\ SamePassword /\ OneToken

(* A token stays as it is or stops being valid.                            *)
Fades(t) ==
  /\ refresh'[t].of = refresh[t].of /\ refresh'[t].pw = refresh[t].pw /\ refresh'[t].root = refresh[t].root
  /\ \/ refresh'[t].state = refresh[t].state
     \/ refresh[t].state # "unused" /\ refresh'[t].state \in {"gone", "expired"}

(* A request that begins, or goes on, or is over.                          *)
Proceeds(c) ==
  \/ call'[c] = call[c]
  \/ call'[c].op \notin {"login", "rotate"}
  \/ /\ call'[c].on \in User
     /\ "reset" \notin astray => call'[c].pw = acct[call'[c].on].pw
     /\ call'[c].op = "rotate" => call'[c].t \in Token /\ refresh[call'[c].t].state # "unused"

(* No session is opened.                                                   *)
LEMMA SessionsFade ==
  ASSUME SessionsInv, SessionShape', astray \subseteq astray',
         \A t \in Token : Fades(t),
         \A u \in User : browser'[u].token \in {browser[u].token, None},
         \A c \in Call : Proceeds(c),
         \A u \in User : \/ acct'[u].exists = acct[u].exists
                         \/ \A t \in Token : refresh'[t].state = "live" => refresh[t].of # u,
         \A u \in User : \/ acct'[u].pw = acct[u].pw
                         \/ /\ \A t \in Token : refresh'[t].state = "live" => refresh[t].of # u
                            /\ \/ "reset" \in astray'
                               \/ \A c \in Call : call'[c].op \in {"login", "rotate"} => call'[c].on # u
  PROVE  SessionsInv'
<1>1. Rooted' 
  BY DEF SessionsInv, Rooted, Fades
<1>2. Owned'
  BY DEF SessionsInv, Owned, Fades
<1>3. Carried'
  <2>1. SUFFICES ASSUME NEW u \in User, browser'[u].token # None
                 PROVE  /\ refresh'[browser'[u].token].of = u
                        /\ refresh'[browser'[u].token].state # "unused"
    BY DEF Carried
  <2>2. browser'[u].token = browser[u].token /\ browser[u].token \in Token
    BY <2>1 DEF SessionsInv, SessionShape, Cookies
  <2>3. refresh[browser[u].token].of = u /\ refresh[browser[u].token].state # "unused"
    BY <2>1, <2>2 DEF SessionsInv, Carried
  <2>4. QED
    BY <2>2, <2>3 DEF Fades
<1>4. Underway'
  BY DEF SessionsInv, Underway, Fades, Proceeds
<1>5. SamePassword'
  <2>1. SUFFICES ASSUME "reset" \notin astray'
                 PROVE  /\ \A t \in Token : refresh'[t].state = "live" => refresh'[t].pw = acct'[refresh'[t].of].pw
                        /\ \A c \in Call : call'[c].op \in {"login", "rotate"}
                                             => call'[c].pw = acct'[call'[c].on].pw
    BY DEF SamePassword
  <2>2. "reset" \notin astray
    BY <2>1
  <2>3. ASSUME NEW t \in Token, refresh'[t].state = "live" PROVE refresh'[t].pw = acct'[refresh'[t].of].pw
    <3>1. refresh[t].state = "live" /\ refresh'[t].pw = refresh[t].pw /\ refresh'[t].of = refresh[t].of
      BY <2>3 DEF Fades
    <3>2. refresh[t].of \in User /\ refresh[t].pw = acct[refresh[t].of].pw
      BY <2>2, <3>1 DEF SessionsInv, Owned, SamePassword
    <3>3. QED
      BY <2>3, <3>1, <3>2
  <2>4. ASSUME NEW c \in Call, call'[c].op \in {"login", "rotate"} PROVE call'[c].pw = acct'[call'[c].on].pw
    <3>1. call'[c].on \in User /\ call'[c].pw = acct[call'[c].on].pw
      BY <2>2, <2>4 DEF SessionsInv, Underway, SamePassword, Proceeds
    <3>2. QED
      BY <2>1, <2>4, <3>1
  <2>5. QED
    BY <2>3, <2>4
<1>6. OneToken'
  BY DEF SessionsInv, OneToken, Fades
<1>7. QED
  BY <1>1, <1>2, <1>3, <1>4, <1>5, <1>6 DEF SessionsInv

(* A token that was not used yet is issued: it begins a session, or goes   *)
(* on with the one of a token that ends.                                   *)
LEMMA SessionOpens ==
  ASSUME SessionsInv, SessionShape', astray \subseteq astray', NEW n \in Token,
         refresh[n].state = "unused",
         refresh'[n].state = "live", refresh'[n].of \in User, acct'[refresh'[n].of].exists,
         "reset" \notin astray' => refresh'[n].pw = acct'[refresh'[n].of].pw,
         \/ refresh'[n].root = n
         \/ \E old \in Token : /\ refresh[old].state # "unused" /\ refresh'[n].root = refresh[old].root
                               /\ refresh'[old].state = "gone"
                               /\ refresh[old].state = "live" \/ "rotation" \in astray',
         \A t \in Token \ {n} : Fades(t),
         \A u \in User : \/ browser'[u].token \in {browser[u].token, None}
                         \/ browser'[u].token = n /\ refresh'[n].of = u,
         \A c \in Call : call'[c] = call[c] \/ call'[c].op \notin {"login", "rotate"},
         \A u \in User : \/ acct'[u].exists = acct[u].exists /\ acct'[u].pw = acct[u].pw
                         \/ ~ acct[u].exists /\ \A c \in Call : call[c].on # u
  PROVE  SessionsInv'
<1>1. \A t \in Token : refresh[t].state # "unused" => refresh'[t].state # "unused" /\ refresh'[t].of = refresh[t].of
  BY DEF Fades
<1>2. \A t \in Token \ {n} : refresh'[t].state = "live" => refresh[t].state = "live"
  BY DEF Fades
<1>3. Rooted'
  <2>1. SUFFICES ASSUME NEW t \in Token, refresh'[t].state # "unused"
                 PROVE  refresh'[t].root \in Token /\ refresh'[refresh'[t].root].state # "unused"
    BY DEF Rooted
  <2>2. CASE t # n
    <3>1. refresh[t].state # "unused" /\ refresh'[t].root = refresh[t].root
      BY <2>1, <2>2 DEF Fades
    <3>2. QED
      BY <3>1, <1>1 DEF SessionsInv, Rooted
  <2>3. CASE t = n
    <3>1. CASE refresh'[n].root = n
      BY <2>3, <3>1
    <3>2. ASSUME NEW old \in Token, refresh[old].state # "unused", refresh'[n].root = refresh[old].root
          PROVE  refresh'[n].root \in Token /\ refresh'[refresh'[n].root].state # "unused"
      BY <3>2, <1>1 DEF SessionsInv, Rooted
    <3>3. QED
      BY <2>3, <3>1, <3>2
  <2>4. QED
    BY <2>2, <2>3
<1>4. Owned'
  <2>1. SUFFICES ASSUME NEW t \in Token, t # n, refresh'[t].state = "live"
                 PROVE  refresh'[t].of \in User /\ acct'[refresh'[t].of].exists
    BY DEF Owned
  <2>2. refresh[t].state = "live" /\ refresh'[t].of = refresh[t].of
    BY <2>1 DEF Fades
  <2>3. QED
    BY <2>2 DEF SessionsInv, Owned
<1>5. Carried'
  <2>1. SUFFICES ASSUME NEW u \in User, browser'[u].token # None, browser'[u].token = browser[u].token
                 PROVE  /\ refresh'[browser'[u].token].of = u
                        /\ refresh'[browser'[u].token].state # "unused"
    BY DEF Carried
  <2>2. browser[u].token \in Token
    BY <2>1 DEF SessionsInv, SessionShape, Cookies
  <2>3. QED
    BY <1>1, <2>1, <2>2 DEF SessionsInv, Carried
<1>6. Underway'
  BY <1>1 DEF SessionsInv, Underway
<1>7. SamePassword'
  <2>1. SUFFICES ASSUME "reset" \notin astray'
                 PROVE  /\ \A t \in Token : refresh'[t].state = "live" => refresh'[t].pw = acct'[refresh'[t].of].pw
                        /\ \A c \in Call : call'[c].op \in {"login", "rotate"}
                                             => call'[c].pw = acct'[call'[c].on].pw
    BY DEF SamePassword
  <2>2. "reset" \notin astray
    BY <2>1
  <2>3. ASSUME NEW t \in Token, refresh'[t].state = "live" PROVE refresh'[t].pw = acct'[refresh'[t].of].pw
    <3>1. CASE t = n
      BY <2>1, <3>1
    <3>2. CASE t # n
      <4>1. refresh[t].state = "live" /\ refresh'[t].pw = refresh[t].pw /\ refresh'[t].of = refresh[t].of
        BY <2>3, <3>2 DEF Fades
      <4>2. /\ refresh[t].of \in User /\ refresh[t].pw = acct[refresh[t].of].pw
            /\ acct[refresh[t].of].exists
        BY <2>2, <4>1 DEF SessionsInv, Owned, SamePassword
      <4>3. QED
        BY <4>1, <4>2
    <3>3. QED
      BY <3>1, <3>2
  <2>4. ASSUME NEW c \in Call, call'[c].op \in {"login", "rotate"} PROVE call'[c].pw = acct'[call'[c].on].pw
    <3>1. call'[c] = call[c]
      BY <2>4
    <3>2. call[c].on \in User /\ call[c].pw = acct[call[c].on].pw
      BY <2>2, <2>4, <3>1 DEF SessionsInv, Underway, SamePassword
    <3>3. QED
      BY <3>1, <3>2
  <2>5. QED
    BY <2>3, <2>4
<1>8. OneToken'
  <2>1. SUFFICES ASSUME "rotation" \notin astray', NEW t \in Token, t # n, refresh'[t].state = "live",
                        refresh'[t].root = refresh'[n].root
                 PROVE  FALSE
    <3>1. \A s, t \in Token \ {n} :
            refresh'[s].state = "live" /\ refresh'[t].state = "live" /\ refresh'[s].root = refresh'[t].root
              /\ "rotation" \notin astray' => s = t
      BY DEF SessionsInv, OneToken, Fades
    <3>2. QED
      BY <2>1, <3>1 DEF OneToken
  <2>2. refresh[t].state = "live" /\ refresh'[t].root = refresh[t].root
    BY <2>1 DEF Fades
  <2>3. CASE refresh'[n].root = n
    <3>1. refresh[t].root = n
      BY <2>1, <2>2, <2>3
    <3>2. refresh[n].state # "unused"
      BY <2>2, <3>1 DEF SessionsInv, Rooted
    <3>3. QED
      BY <3>2
  <2>4. ASSUME NEW old \in Token, refresh[old].state # "unused", refresh'[n].root = refresh[old].root,
               refresh'[old].state = "gone", refresh[old].state = "live" \/ "rotation" \in astray'
        PROVE  FALSE
    <3>1. refresh[old].state = "live" /\ "rotation" \notin astray
      BY <2>1, <2>4
    <3>2. refresh[t].state = "live" /\ refresh[t].root = refresh[old].root
      BY <2>1, <2>2, <2>4
    <3>3. old = t
      BY <3>1, <3>2 DEF SessionsInv, OneToken
    <3>4. QED
      BY <2>1, <2>4, <3>3
  <2>5. QED
    BY <2>3, <2>4
<1>9. QED
  BY <1>3, <1>4, <1>5, <1>6, <1>7, <1>8 DEF SessionsInv

(* A request that only reads.                                              *)
LEMMA SessionReads ==
  ASSUME SessionsInv, NEW c \in Call, NEW new \in ApiCall, call' = [call EXCEPT ![c] = new],
         UNCHANGED <<acct, refresh, link, browser, astray>>,
         \/ new.op \notin {"login", "rotate"}
         \/ /\ new.on \in User /\ ("reset" \notin astray => new.pw = acct[new.on].pw)
            /\ new.op = "rotate" => new.t \in Token /\ refresh[new.t].state # "unused"
  PROVE  SessionsInv'
<1>1. SessionShape'
  BY DEF SessionsInv, SessionShape
<1>2. \A d \in Call : Proceeds(d)
  BY DEF Proceeds, SessionsInv, SessionShape
<1>3. \A t \in Token : Fades(t)
  BY DEF Fades
<1>4. QED
  BY <1>1, <1>2, <1>3, SessionsFade

LEMMA IdleIsIdle == Sessions!IdleCall \in ApiCall /\ Sessions!IdleCall.op = "idle"
BY DEF Sessions!IdleCall, ApiCall

LEMMA SessionsBegin ==
  ASSUME SessionsInv, RolesKnown, NEW c \in Call,
         \/ \E u \in User : Sessions!BeginLogin(c, u) \/ Sessions!BeginRotate(c, u)
         \/ \E l \in Link : Sessions!BeginReset(c, l)
         \/ \E a, u \in User : \/ \E op \in {"password", "delete"} : Sessions!BeginManage(c, a, u, op, None)
                               \/ \E r \in Assigned : Sessions!BeginManage(c, a, u, "role", r)
         \/ Sessions!Die(c)
  PROVE  SessionsInv'
<1> PICK idle \in ApiCall : idle = Sessions!IdleCall
  BY IdleIsIdle
<1>1. ASSUME NEW u \in User, Sessions!BeginLogin(c, u) PROVE SessionsInv'
  <2>1. PICK row \in Account : row = acct[u]
    BY DEF SessionsInv, SessionShape
  <2> PICK new \in ApiCall : new = [idle EXCEPT !.op = "login", !.on = u, !.pw = row.pw, !.as = row.role]
    BY DEF Account, ApiCall
  <2>2. new.op = "login" /\ new.on = u /\ new.pw = acct[u].pw
    BY <2>1 DEF ApiCall
  <2>3. call' = [call EXCEPT ![c] = new] /\ UNCHANGED <<acct, refresh, link, browser, astray>>
    BY <1>1, <2>1 DEF Sessions!BeginLogin, Sessions!Begin
  <2>4. QED
    BY <2>2, <2>3, SessionReads
<1>2. ASSUME NEW u \in User, Sessions!BeginRotate(c, u) PROVE SessionsInv'
  <2>1. PICK t \in Token : t = browser[u].token /\ refresh[t].state = "live" /\ t # None
    BY <1>2 DEF Sessions!BeginRotate, Sessions!Live, SessionsInv, SessionShape, Cookies
  <2>2. PICK token \in RefreshToken, row \in Account : token = refresh[t] /\ row = acct[u]
    BY DEF SessionsInv, SessionShape
  <2> PICK new \in ApiCall :
        new = [idle EXCEPT !.op = "rotate", !.on = u, !.t = t, !.pw = token.pw, !.as = row.role]
    BY DEF Account, RefreshToken, ApiCall
  <2>3. new.op = "rotate" /\ new.on = u /\ new.pw = refresh[t].pw /\ new.t = t
    BY <2>2 DEF ApiCall
  <2>4. call' = [call EXCEPT ![c] = new] /\ UNCHANGED <<acct, refresh, link, browser, astray>>
    BY <1>2, <2>1, <2>2 DEF Sessions!BeginRotate, Sessions!Begin
  <2>5. "reset" \notin astray => new.pw = acct[u].pw
    BY <2>1, <2>3 DEF SessionsInv, Carried, SamePassword
  <2>6. QED
    BY <2>1, <2>3, <2>4, <2>5, SessionReads
<1>3. ASSUME NEW l \in Link, Sessions!BeginReset(c, l) PROVE SessionsInv'
  <2>1. PICK of \in User \cup {None} : of = link[l].of
    BY DEF SessionsInv, SessionShape
  <2> PICK new \in ApiCall : new = [idle EXCEPT !.op = "reset", !.on = of, !.t = l]
    BY DEF ApiCall
  <2>4. new.op = "reset"
    BY DEF ApiCall
  <2>2. call' = [call EXCEPT ![c] = new] /\ UNCHANGED <<acct, refresh, link, browser, astray>>
    BY <1>3, <2>1 DEF Sessions!BeginReset, Sessions!Begin
  <2>3. QED
    BY <2>2, <2>4, SessionReads
<1>4. ASSUME NEW a \in User, NEW u \in User, NEW op \in {"password", "delete", "role"},
             NEW r \in Assigned \cup {None}, Sessions!BeginManage(c, a, u, op, r)
      PROVE  SessionsInv'
  <2>1. PICK by \in Sessions!Role \cup {None} : by = browser[a].access
    BY DEF SessionsInv, SessionShape, Cookies
  <2> PICK new \in ApiCall : new = [idle EXCEPT !.op = op, !.by = by, !.on = u, !.as = r]
    BY DEF ApiCall, RolesKnown
  <2>2. new.op = op
    BY DEF ApiCall
  <2>3. call' = [call EXCEPT ![c] = new] /\ UNCHANGED <<acct, refresh, link, browser, astray>>
    BY <1>4, <2>1 DEF Sessions!BeginManage, Sessions!Begin
  <2>4. QED
    BY <2>2, <2>3, SessionReads
<1>5. CASE Sessions!Die(c)
  BY <1>5, IdleIsIdle, SessionReads DEF Sessions!Die, Sessions!End
<1>6. QED
  BY <1>1, <1>2, <1>3, <1>4, <1>5

LEMMA SessionsIssue ==
  ASSUME SessionsInv, NEW c \in Call, NEW t \in Token, Sessions!Issue(c, t) \/ Sessions!Rotate(c, t)
  PROVE  SessionsInv'
<1> PICK u \in User : u = call[c].on
  BY DEF Sessions!Issue, Sessions!Rotate, SessionsInv, Underway
<1>1. /\ call[c] \in ApiCall /\ call[c].op \in {"login", "rotate"} /\ acct[u].exists
      /\ refresh[t].state = "unused"
  BY DEF Sessions!Issue, Sessions!Rotate, Sessions!NoToken, SessionsInv, SessionShape
<1>2. "reset" \notin astray => call[c].pw = acct[u].pw
  BY <1>1 DEF SessionsInv, SamePassword
<1>3. call' = [call EXCEPT ![c] = Sessions!IdleCall] /\ UNCHANGED <<acct, link>>
  BY DEF Sessions!Issue, Sessions!Rotate, Sessions!End
<1>4. browser' \in [User -> Cookies]
      /\ \A v \in User : \/ browser'[v].token = browser[v].token
                         \/ browser'[v].token = t /\ v = u
  <2>1. \/ browser' = [browser EXCEPT ![u] = [access |-> call[c].as, token |-> t]]
        \/ browser' = browser
    BY DEF Sessions!Issue, Sessions!Rotate, Sessions!Answer
  <2>2. [access |-> call[c].as, token |-> t] \in Cookies
    BY <1>1 DEF ApiCall, Cookies
  <2>3. CASE browser' = [browser EXCEPT ![u] = [access |-> call[c].as, token |-> t]]
    <3>1. PICK cookies \in Cookies : cookies = [access |-> call[c].as, token |-> t] /\ cookies.token = t
      BY <2>2
    <3>2. QED
      BY <2>3, <3>1 DEF SessionsInv, SessionShape
  <2>4. CASE browser' = browser
    BY <2>4 DEF SessionsInv, SessionShape
  <2>5. QED
    BY <2>1, <2>3, <2>4
<1>5. \A d \in Call : call'[d] = call[d] \/ call'[d].op \notin {"login", "rotate"}
  BY <1>3, IdleIsIdle DEF SessionsInv, SessionShape
<1>6. \A root \in Token : Sessions!NewToken(c, root) \in RefreshToken
  BY <1>1 DEF Sessions!NewToken, RefreshToken, ApiCall
<1>7. CASE Sessions!Issue(c, t)
  <2>1. refresh' = [refresh EXCEPT ![t] = Sessions!NewToken(c, t)] /\ astray' = astray
    BY <1>7 DEF Sessions!Issue
  <2>2. SessionShape'
    BY <1>3, <1>4, <1>6, <2>1, IdleIsIdle DEF SessionsInv, SessionShape
  <2>3. /\ refresh'[t].state = "live" /\ refresh'[t].of = u /\ refresh'[t].pw = call[c].pw
        /\ refresh'[t].root = t
    BY <2>1 DEF SessionsInv, SessionShape, Sessions!NewToken
  <2>4. \A s \in Token \ {t} : Fades(s)
    BY <2>1 DEF Fades, SessionsInv, SessionShape
  <2>5. QED
    BY <1>1, <1>2, <1>3, <1>4, <1>5, <2>1, <2>2, <2>3, <2>4, SessionOpens
<1>8. CASE Sessions!Rotate(c, t)
  <2>1. PICK old \in Token : old = call[c].t /\ refresh[old].state # "unused"
    BY <1>8 DEF Sessions!Rotate, SessionsInv, Underway
  <2>2. PICK root \in Token : root = refresh[old].root
    BY <2>1 DEF SessionsInv, Rooted
  <2>3. refresh' = [refresh EXCEPT ![old].state = "gone", ![t] = Sessions!NewToken(c, root)]
    BY <1>8, <2>1, <2>2 DEF Sessions!Rotate
  <2>4. astray \subseteq astray' /\ (refresh[old].state = "live" \/ "rotation" \in astray')
    BY <1>8, <2>1 DEF Sessions!Rotate, Sessions!Live
  <2>5. old # t
    BY <1>1, <2>1
  <2>6. /\ refresh' \in [Token -> RefreshToken] /\ refresh'[t] = Sessions!NewToken(c, root)
        /\ refresh'[old] = [refresh[old] EXCEPT !.state = "gone"]
        /\ \A s \in Token \ {t, old} : refresh'[s] = refresh[s]
    <3>1. [refresh[old] EXCEPT !.state = "gone"] \in RefreshToken
      BY DEF SessionsInv, SessionShape, RefreshToken
    <3>2. QED
      BY <1>6, <2>3, <2>5, <3>1 DEF SessionsInv, SessionShape
  <2>7. SessionShape'
    BY <1>3, <1>4, <2>6, IdleIsIdle DEF SessionsInv, SessionShape
  <2>8. /\ refresh'[t].state = "live" /\ refresh'[t].of = u /\ refresh'[t].pw = call[c].pw
        /\ refresh'[t].root = root
    BY <2>6 DEF Sessions!NewToken
  <2>9. Fades(old) /\ refresh'[old].state = "gone"
    <3>1. refresh[old] \in RefreshToken
      BY DEF SessionsInv, SessionShape
    <3>2. QED
      BY <2>1, <2>6, <3>1 DEF Fades, RefreshToken
  <2>10. \A s \in Token \ {t} : Fades(s)
    BY <2>6, <2>9 DEF Fades
  <2>11. \E o \in Token : /\ refresh[o].state # "unused" /\ refresh'[t].root = refresh[o].root
                          /\ refresh'[o].state = "gone"
                          /\ refresh[o].state = "live" \/ "rotation" \in astray'
    BY <2>1, <2>2, <2>4, <2>8, <2>9
  <2>12. "reset" \notin astray' => refresh'[t].pw = acct'[refresh'[t].of].pw
    BY <1>2, <1>3, <2>4, <2>8
  <2>13. QED
    BY <1>1, <1>3, <1>4, <1>5, <2>4, <2>7, <2>8, <2>10, <2>11, <2>12, SessionOpens
<1>9. QED
  BY <1>7, <1>8

(* What a revocation of all tokens of an account leaves.                   *)
LEMMA Revoking ==
  ASSUME SessionsInv, NEW u, refresh' = Sessions!Revoked(u)
  PROVE  /\ refresh' \in [Token -> RefreshToken] /\ \A t \in Token : Fades(t)
         /\ \A t \in Token : refresh'[t].state = "live" => refresh[t].of # u
<1>1. ASSUME NEW t \in Token
      PROVE  /\ refresh'[t] \in RefreshToken /\ Fades(t)
             /\ refresh'[t].state = "live" => refresh[t].of # u
  <2>1. PICK old \in RefreshToken : old = refresh[t]
    BY DEF SessionsInv, SessionShape
  <2>2. refresh'[t] = IF old.of = u /\ old.state = "live" THEN [old EXCEPT !.state = "gone"] ELSE old
    BY <2>1 DEF Sessions!Revoked, Sessions!Live
  <2>3. CASE old.of = u /\ old.state = "live"
    BY <2>1, <2>2, <2>3 DEF RefreshToken, Fades
  <2>4. CASE ~ (old.of = u /\ old.state = "live")
    <3>1. refresh'[t] = old
      BY <2>2, <2>4
    <3>2. QED
      BY <2>1, <2>4, <3>1 DEF Fades
  <2>5. QED
    BY <2>3, <2>4
<1>2. refresh' = [t \in Token |-> refresh'[t]]
  BY DEF Sessions!Revoked
<1>3. QED
  BY <1>1, <1>2

LEMMA NothingFades == refresh' = refresh => \A t \in Token : Fades(t)
BY DEF Fades

LEMMA CookiesAndLinks ==
  ASSUME SessionsInv,
         \/ \E u \in User : \/ Sessions!AccessExpires(u) \/ Sessions!RefuseRefresh(u) \/ Sessions!Logout(u)
                            \/ \E l \in Link : Sessions!RequestPasswordReset(u, l)
         \/ \E t \in Token : Sessions!TokenExpires(t)
         \/ \E l \in Link : Sessions!LinkExpires(l)
  PROVE  SessionsInv'
<1>1. UNCHANGED <<acct, call>>
  BY DEF Sessions!AccessExpires, Sessions!RefuseRefresh, Sessions!Logout, Sessions!RequestPasswordReset,
         Sessions!TokenExpires, Sessions!LinkExpires
<1>2. astray \subseteq astray'
  BY DEF Sessions!AccessExpires, Sessions!RefuseRefresh, Sessions!Logout, Sessions!RequestPasswordReset,
         Sessions!TokenExpires, Sessions!LinkExpires
<1>3. browser' \in [User -> Cookies] /\ \A u \in User : browser'[u].token \in {browser[u].token, None}
  <2>1. CASE browser' = browser
    BY <2>1 DEF SessionsInv, SessionShape
  <2>2. ASSUME NEW u \in User, browser' = [browser EXCEPT ![u] = Sessions!NoCookies]
        PROVE  browser' \in [User -> Cookies] /\ \A v \in User : browser'[v].token \in {browser[v].token, None}
    <3>1. PICK none \in Cookies : none = Sessions!NoCookies
      BY DEF Sessions!NoCookies, Cookies
    <3>3. none.token = None
      BY <3>1 DEF Sessions!NoCookies
    <3>2. QED
      BY <2>2, <3>1, <3>3 DEF SessionsInv, SessionShape
  <2>3. ASSUME NEW u \in User, browser' = [browser EXCEPT ![u].access = None]
        PROVE  browser' \in [User -> Cookies] /\ \A v \in User : browser'[v].token \in {browser[v].token, None}
    <3>1. PICK own \in Cookies : own = browser[u]
      BY DEF SessionsInv, SessionShape
    <3>2. PICK new \in Cookies : new = [own EXCEPT !.access = None]
      BY DEF Cookies
    <3>5. new.token = own.token
      BY <3>2 DEF Cookies
    <3>3. browser' = [browser EXCEPT ![u] = new]
      BY <2>3, <3>1, <3>2
    <3>4. QED
      BY <3>1, <3>3, <3>5 DEF SessionsInv, SessionShape
  <2>4. QED
    BY <2>1, <2>2, <2>3 DEF Sessions!AccessExpires, Sessions!RefuseRefresh, Sessions!Logout,
         Sessions!RequestPasswordReset, Sessions!TokenExpires, Sessions!LinkExpires
<1>4. refresh' \in [Token -> RefreshToken] /\ \A t \in Token : Fades(t)
  <2>1. CASE refresh' = refresh
    BY <2>1, NothingFades DEF SessionsInv, SessionShape
  <2>2. ASSUME NEW u \in User, refresh' = Sessions!Revoked(u)
        PROVE  refresh' \in [Token -> RefreshToken] /\ \A t \in Token : Fades(t)
    BY <2>2, Revoking
  <2>3. ASSUME NEW t \in Token, Sessions!TokenExpires(t)
        PROVE  refresh' \in [Token -> RefreshToken] /\ \A s \in Token : Fades(s)
    <3>1. PICK old \in RefreshToken : old = refresh[t]
      BY DEF SessionsInv, SessionShape
    <3>2. PICK new \in RefreshToken : new = [old EXCEPT !.state = "expired"]
      BY DEF RefreshToken
    <3>3. refresh' = [refresh EXCEPT ![t] = new] /\ old.state = "live"
      BY <2>3, <3>1, <3>2 DEF Sessions!TokenExpires, Sessions!Live
    <3>4. new.of = old.of /\ new.pw = old.pw /\ new.root = old.root /\ new.state = "expired"
      BY <3>2 DEF RefreshToken
    <3>5. QED
      BY <3>1, <3>3, <3>4 DEF SessionsInv, SessionShape, Fades
  <2>4. QED
    BY <2>1, <2>2, <2>3 DEF Sessions!AccessExpires, Sessions!RefuseRefresh, Sessions!Logout,
         Sessions!RequestPasswordReset, Sessions!TokenExpires, Sessions!LinkExpires
<1>5. link' \in [Link -> [of : User \cup {None}, state : {"unused", "sent", "used", "expired"}]]
  <2>1. CASE link' = link
    BY <2>1 DEF SessionsInv, SessionShape
  <2>2. ASSUME NEW u \in User, NEW l \in Link, Sessions!RequestPasswordReset(u, l)
        PROVE  link' \in [Link -> [of : User \cup {None}, state : {"unused", "sent", "used", "expired"}]]
    BY <2>2 DEF SessionsInv, SessionShape, Sessions!RequestPasswordReset
  <2>3. ASSUME NEW l \in Link, Sessions!LinkExpires(l)
        PROVE  link' \in [Link -> [of : User \cup {None}, state : {"unused", "sent", "used", "expired"}]]
    BY <2>3 DEF SessionsInv, SessionShape, Sessions!LinkExpires
  <2>4. QED
    BY <2>1, <2>2, <2>3 DEF Sessions!AccessExpires, Sessions!RefuseRefresh, Sessions!Logout, Sessions!TokenExpires
<1>6. SessionShape'
  BY <1>1, <1>3, <1>4, <1>5 DEF SessionsInv, SessionShape
<1>7. \A c \in Call : Proceeds(c)
  BY <1>1 DEF Proceeds
<1>8. QED
  BY <1>1, <1>2, <1>3, <1>4, <1>6, <1>7, SessionsFade

(* One account changes.                                                    *)
LEMMA OneAccount ==
  ASSUME SessionsInv, NEW u \in User, NEW new \in Account, acct' = [acct EXCEPT ![u] = new]
  PROVE  /\ acct' \in [User -> Account] /\ acct'[u] = new
         /\ \A v \in User \ {u} : acct'[v] = acct[v]
BY DEF SessionsInv, SessionShape

(* A request ends; no other one changes.                                   *)
LEMMA Ending ==
  ASSUME SessionsInv, NEW c \in Call, Sessions!End(c)
  PROVE  /\ call' \in [Call -> ApiCall] /\ \A d \in Call : Proceeds(d)
         /\ \A d \in Call : call'[d] = call[d] \/ call'[d].op = "idle"
BY IdleIsIdle DEF SessionsInv, SessionShape, Sessions!End, Proceeds

(* The second factor, and the role.                                        *)
LEMMA RowChanges ==
  ASSUME SessionsInv, RolesKnown,
         \/ \E u \in User : Sessions!SetupMfa(u) \/ Sessions!VerifyMfa(u)
         \/ \E c \in Call : Sessions!UpdateUser(c)
  PROVE  SessionsInv'
<1>1. ASSUME NEW u \in User, NEW new \in Account, acct' = [acct EXCEPT ![u] = new],
             new.exists = acct[u].exists, new.pw = acct[u].pw,
             UNCHANGED <<refresh, link, browser>>, astray \subseteq astray',
             call' \in [Call -> ApiCall], \A d \in Call : Proceeds(d)
      PROVE  SessionsInv'
  <2>1. /\ acct' \in [User -> Account]
        /\ \A v \in User : acct'[v].exists = acct[v].exists /\ acct'[v].pw = acct[v].pw
    BY <1>1, OneAccount
  <2>2. SessionShape'
    BY <1>1, <2>1 DEF SessionsInv, SessionShape
  <2>3. QED
    BY <1>1, <2>1, <2>2, NothingFades, SessionsFade
<1>2. ASSUME NEW u \in User, Sessions!SetupMfa(u) \/ Sessions!VerifyMfa(u) PROVE SessionsInv'
  <2>1. PICK row \in Account : row = acct[u]
    BY DEF SessionsInv, SessionShape
  <2>2. PICK new \in {[row EXCEPT !.secret = @ + 1], [row EXCEPT !.enabled = TRUE, !.scanned = row.secret]} :
          acct' = [acct EXCEPT ![u] = new]
    BY <1>2, <2>1 DEF Sessions!SetupMfa, Sessions!VerifyMfa
  <2>3. new \in Account /\ new.exists = row.exists /\ new.pw = row.pw
    <3>1. CASE new = [row EXCEPT !.secret = @ + 1]
      BY <3>1 DEF Account
    <3>2. CASE new = [row EXCEPT !.enabled = TRUE, !.scanned = row.secret]
      BY <3>2 DEF Account
    <3>3. QED
      BY <2>2, <3>1, <3>2
  <2>4. UNCHANGED <<refresh, link, browser, call, astray>>
    BY <1>2 DEF Sessions!SetupMfa, Sessions!VerifyMfa
  <2>5. call' \in [Call -> ApiCall] /\ \A d \in Call : Proceeds(d)
    BY <2>4 DEF SessionsInv, SessionShape, Proceeds
  <2>6. QED
    BY <1>1, <2>1, <2>2, <2>3, <2>4, <2>5
<1>3. ASSUME NEW c \in Call, Sessions!UpdateUser(c) PROVE SessionsInv'
  <2>1. PICK u : u = call[c].on
    OBVIOUS
  <2>2. CASE u \notin User
    <3>1. acct' = acct
      BY <1>3, <2>1, <2>2 DEF Sessions!UpdateUser, SessionsInv, SessionShape
    <3>2. /\ UNCHANGED <<acct, refresh, link, browser>> /\ astray \subseteq astray'
          /\ call' \in [Call -> ApiCall] /\ \A d \in Call : Proceeds(d)
      BY <1>3, <3>1, Ending DEF Sessions!UpdateUser
    <3>3. SessionShape'
      BY <3>2 DEF SessionsInv, SessionShape
    <3>4. QED
      BY <3>2, <3>3, NothingFades, SessionsFade
  <2>3. CASE u \in User
    <3>1. PICK row \in Account : row = acct[u]
      BY <2>3 DEF SessionsInv, SessionShape
    <3>2. PICK as \in Sessions!Role \cup {None} : as = call[c].as
      BY DEF SessionsInv, SessionShape, ApiCall
    <3>3. PICK new \in Account : new = [row EXCEPT !.role = as]
      BY DEF Account
    <3>4. acct' = [acct EXCEPT ![u] = new]
      BY <1>3, <2>1, <3>1, <3>2, <3>3 DEF Sessions!UpdateUser
    <3>5. new.exists = row.exists /\ new.pw = row.pw
      BY <3>3 DEF Account
    <3>6. UNCHANGED <<refresh, link, browser>> /\ astray \subseteq astray' /\ Sessions!End(c)
      BY <1>3 DEF Sessions!UpdateUser
    <3>7. QED
      BY <1>1, <2>3, <3>1, <3>4, <3>5, <3>6, Ending
  <2>4. QED
    BY <2>2, <2>3
<1>4. QED
  BY <1>2, <1>3

(* The password changes, or the account goes, and its sessions end.        *)
LEMMA PasswordChanges ==
  ASSUME SessionsInv, NEW c \in Call,
         Sessions!ResetPassword(c) \/ Sessions!ResetUserPassword(c) \/ Sessions!DeleteUser(c)
  PROVE  SessionsInv'
<1> PICK u : u = call[c].on
  OBVIOUS
<1>1. refresh' = Sessions!Revoked(u) /\ browser' = browser /\ astray \subseteq astray' /\ Sessions!End(c)
  BY DEF Sessions!ResetPassword, Sessions!ResetUserPassword, Sessions!DeleteUser, Sessions!Crossed
<1>2. /\ acct' \in [User -> Account]
      /\ \A v \in User : v # u => acct'[v] = acct[v]
      /\ Sessions!DeleteUser(c) => \A v \in User : acct'[v].pw = acct[v].pw
      /\ ~ Sessions!DeleteUser(c) => \A v \in User : acct'[v].exists = acct[v].exists
  <2>1. CASE u \notin User
    <3>1. acct' = acct
      BY <2>1 DEF Sessions!ResetPassword, Sessions!ResetUserPassword, Sessions!DeleteUser,
                  SessionsInv, SessionShape
    <3>2. QED
      BY <3>1 DEF SessionsInv, SessionShape
  <2>2. CASE u \in User
    <3>1. PICK row \in Account : row = acct[u]
      BY <2>2 DEF SessionsInv, SessionShape
    <3>2. CASE Sessions!DeleteUser(c)
      <4>1. PICK new \in Account : new = [row EXCEPT !.exists = FALSE]
        BY DEF Account
      <4>2. acct' = [acct EXCEPT ![u] = new]
        BY <3>1, <3>2, <4>1 DEF Sessions!DeleteUser
      <4>3. new.pw = row.pw
        BY <4>1 DEF Account
      <4>4. QED
        BY <2>2, <3>1, <3>2, <4>2, <4>3, OneAccount
    <3>3. CASE ~ Sessions!DeleteUser(c)
      <4> PICK pw \in Nat : pw = row.pw + 1
        BY DEF Account
      <4>1. PICK new \in Account : new = [row EXCEPT !.pw = pw]
        BY DEF Account
      <4>2. acct' = [acct EXCEPT ![u] = new]
        BY <3>1, <3>3, <4>1 DEF Sessions!ResetPassword, Sessions!ResetUserPassword
      <4>3. new.exists = row.exists
        BY <4>1 DEF Account
      <4>4. QED
        BY <2>2, <3>1, <3>3, <4>2, <4>3, OneAccount
    <3>4. QED
      BY <3>2, <3>3
  <2>3. QED
    BY <2>1, <2>2
<1>3. \A t \in Token : refresh'[t].state = "live" => refresh[t].of # u
  BY <1>1, Revoking
<1>4. ~ Sessions!DeleteUser(c) =>
        "reset" \in astray' \/ \A d \in Call : call[d].op \in {"login", "rotate"} => call[d].on # u
  BY DEF Sessions!ResetPassword, Sessions!ResetUserPassword, Sessions!Crossed, Sessions!Pending
<1>5. link' \in [Link -> [of : User \cup {None}, state : {"unused", "sent", "used", "expired"}]]
  <2>1. \A l \in Link : [link[l] EXCEPT !.state = "used"] \in [of : User \cup {None}, state : {"unused", "sent", "used", "expired"}]
    BY DEF SessionsInv, SessionShape
  <2>2. CASE Sessions!ResetPassword(c)
    <3>1. PICK l : link' = [link EXCEPT ![l] = [link[l] EXCEPT !.state = "used"]]
      BY <2>2 DEF Sessions!ResetPassword
    <3>2. QED
      BY <2>1, <3>1 DEF SessionsInv, SessionShape
  <2>3. CASE Sessions!ResetUserPassword(c)
    BY <2>3 DEF Sessions!ResetUserPassword, SessionsInv, SessionShape
  <2>4. CASE Sessions!DeleteUser(c)
    BY <2>1, <2>4 DEF Sessions!DeleteUser, SessionsInv, SessionShape
  <2>5. QED
    BY <2>2, <2>3, <2>4
<1>6. /\ call' \in [Call -> ApiCall] /\ \A d \in Call : Proceeds(d)
      /\ \A d \in Call : call'[d] = call[d] \/ call'[d].op = "idle"
  BY <1>1, Ending
<1>7. SessionShape'
  BY <1>1, <1>2, <1>5, <1>6, Revoking DEF SessionsInv, SessionShape
<1>8. \A v \in User : \/ acct'[v].exists = acct[v].exists
                      \/ \A t \in Token : refresh'[t].state = "live" => refresh[t].of # v
  BY <1>2, <1>3
<1>9. \A v \in User : \/ acct'[v].pw = acct[v].pw
                      \/ /\ \A t \in Token : refresh'[t].state = "live" => refresh[t].of # v
                         /\ \/ "reset" \in astray'
                            \/ \A d \in Call : call'[d].op \in {"login", "rotate"} => call'[d].on # v
  BY <1>2, <1>3, <1>4, <1>6
<1>10. \A t \in Token : Fades(t)
  BY <1>1, Revoking
<1>11. \A v \in User : browser'[v].token \in {browser[v].token, None}
  BY <1>1
<1>12. QED
  BY <1>1, <1>6, <1>7, <1>8, <1>9, <1>10, <1>11, SessionsFade

(* A new account, with a session of its own or without.                    *)
LEMMA Registering ==
  ASSUME SessionsInv, RolesKnown, NEW a \in User, NEW u \in User, NEW r \in Assigned,
         NEW t \in Token \cup {None}, Sessions!Register(a, u, r, t)
  PROVE  SessionsInv'
<1>1. PICK new \in Account : new = Sessions!NewAccount(r)
  BY DEF Sessions!NewAccount, Account, RolesKnown
<1>2. new.exists = TRUE /\ new.pw = 0
  BY <1>1 DEF Sessions!NewAccount
<1>3. /\ acct' \in [User -> Account] /\ acct'[u] = new
      /\ \A v \in User \ {u} : acct'[v] = acct[v]
  BY <1>1, OneAccount DEF Sessions!Register
<1>4. ~ acct[u].exists /\ \A c \in Call : call[c].on # u
  BY DEF Sessions!Register
<1>5. UNCHANGED <<link, call, astray>>
  BY DEF Sessions!Register
<1>6. browser' \in [User -> Cookies] /\ \A v \in User : browser'[v].token \in {browser[v].token, None}
  <2>1. PICK none \in Cookies : none = Sessions!NoCookies
    BY DEF Sessions!NoCookies, Cookies
  <2>2. none.token = None
    BY <2>1 DEF Sessions!NoCookies
  <2>3. browser' = [browser EXCEPT ![u] = none]
    BY <2>1 DEF Sessions!Register
  <2>4. QED
    BY <2>2, <2>3 DEF SessionsInv, SessionShape
<1>7. \A s \in Token : refresh[s].state = "live" => refresh[s].of # u
  BY <1>4 DEF SessionsInv, Owned
<1>8. CASE t = None
  <2>1. refresh' = refresh
    BY <1>8 DEF Sessions!Register
  <2>2. SessionShape'
    BY <1>3, <1>5, <1>6, <2>1 DEF SessionsInv, SessionShape
  <2>3. \A c \in Call : Proceeds(c)
    BY <1>5 DEF Proceeds
  <2>4. \A v \in User : \/ acct'[v].exists = acct[v].exists
                        \/ \A s \in Token : refresh'[s].state = "live" => refresh[s].of # v
    BY <1>3, <1>7, <2>1
  <2>5. \A v \in User : \/ acct'[v].pw = acct[v].pw
                        \/ /\ \A s \in Token : refresh'[s].state = "live" => refresh[s].of # v
                           /\ \/ "reset" \in astray'
                              \/ \A d \in Call : call'[d].op \in {"login", "rotate"} => call'[d].on # v
    BY <1>3, <1>4, <1>5, <1>7, <2>1
  <2>6. \A s \in Token : Fades(s)
    BY <2>1, NothingFades
  <2>7. QED
    BY <1>5, <1>6, <2>2, <2>3, <2>4, <2>5, <2>6, SessionsFade
<1>9. CASE t # None
  <2>1. /\ t \in Token /\ refresh[t] = Sessions!NoToken
        /\ refresh' = [refresh EXCEPT ![t] = [of |-> u, state |-> "live", pw |-> 0, root |-> t]]
    BY <1>9 DEF Sessions!Register
  <2>2. PICK token \in RefreshToken :
          token = [of |-> u, state |-> "live", pw |-> 0, root |-> t]
    BY <2>1 DEF RefreshToken
  <2>3. token.of = u /\ token.state = "live" /\ token.pw = 0 /\ token.root = t
    BY <2>2
  <2>4. /\ refresh' \in [Token -> RefreshToken] /\ refresh'[t] = token
        /\ \A s \in Token \ {t} : refresh'[s] = refresh[s]
    BY <2>1, <2>2 DEF SessionsInv, SessionShape
  <2>5. SessionShape'
    BY <1>3, <1>5, <1>6, <2>4 DEF SessionsInv, SessionShape
  <2>6. refresh[t].state = "unused"
    BY <2>1 DEF Sessions!NoToken
  <2>7. \A s \in Token \ {t} : Fades(s)
    BY <2>4 DEF Fades
  <2>8. \A v \in User : \/ acct'[v].exists = acct[v].exists /\ acct'[v].pw = acct[v].pw
                        \/ ~ acct[v].exists /\ \A c \in Call : call[c].on # v
    BY <1>3, <1>4
  <2>9. QED
    BY <1>2, <1>3, <1>5, <1>6, <2>1, <2>3, <2>4, <2>5, <2>6, <2>7, <2>8, SessionOpens
<1>10. QED
  BY <1>8, <1>9

LEMMA NextSessionsInv ==
  ASSUME RolesKnown, SessionsInv, [Sessions!AccountsNext]_Sessions!accountVars PROVE SessionsInv'
<1>1. CASE UNCHANGED Sessions!accountVars
  <2>1. UNCHANGED <<acct, refresh, link, browser, call, astray>>
    BY <1>1 DEF Sessions!accountVars
  <2>2. SessionShape' /\ \A c \in Call : Proceeds(c)
    BY <2>1 DEF SessionsInv, SessionShape, Proceeds
  <2>3. QED
    BY <2>1, <2>2, NothingFades, SessionsFade
<1>2. CASE Sessions!AccountsNext
  BY <1>2, SessionsBegin, SessionsIssue, CookiesAndLinks, RowChanges, PasswordChanges, Registering
     DEF Sessions!AccountsNext
<1>3. QED
  BY <1>1, <1>2

(* A session has one refresh token that works, unless two rotations of one *)
(* token or a rotation and a logout overlapped; and none outlives the      *)
(* password it was opened with, unless a sign-in or a rotation was under   *)
(* way when it changed: nothing else AuthService does breaks either.       *)
THEOREM SessionsEnd ==
  ASSUME RolesKnown
  PROVE  SessionsSpec => [](Sessions!OneTokenPerSession /\ Sessions!ResetEndsSessions)
<1>1. Sessions!AccountsInit => SessionsInv
  <2>1. ASSUME Sessions!AccountsInit PROVE SessionsInv
    <3>1. /\ Sessions!NoToken \in RefreshToken /\ Sessions!NoToken.state = "unused"
          /\ Sessions!NoCookies \in Cookies /\ Sessions!NoCookies.token = None
      BY DEF Sessions!NoToken, RefreshToken, Sessions!NoCookies, Cookies
    <3>2. \A u \in User : Sessions!NewAccount(Roles[u]) \in Account
      BY DEF Sessions!NewAccount, Account, RolesKnown
    <3>3. /\ \A t \in Token : refresh[t].state = "unused"
          /\ \A u \in User : browser[u].token = None
          /\ \A c \in Call : call[c].op = "idle"
      BY <2>1, <3>1, IdleIsIdle DEF Sessions!AccountsInit
    <3>4. SessionShape
      BY <2>1, <3>1, <3>2, IdleIsIdle DEF Sessions!AccountsInit, SessionShape
    <3>5. QED
      BY <3>3, <3>4 DEF SessionsInv, Rooted, Owned, Carried, Underway, SamePassword, OneToken
  <2>2. QED
    BY <2>1
<1>2. SessionsInv /\ [Sessions!AccountsNext]_Sessions!accountVars => SessionsInv'
  BY NextSessionsInv
<1>3. SessionsInv => Sessions!OneTokenPerSession /\ Sessions!ResetEndsSessions
  BY DEF SessionsInv, OneToken, SamePassword, Sessions!OneTokenPerSession, Sessions!ResetEndsSessions,
         Sessions!Live
<1>4. QED
  BY <1>1, <1>2, <1>3, PTL DEF SessionsSpec

(* Both, as the run states them.                                           *)
COROLLARY SessionsStayExact ==
  ASSUME RolesKnown PROVE SessionsSpec => []SessionsAreExact
<1>1. Sessions!OneTokenPerSession /\ Sessions!ResetEndsSessions => SessionsAreExact
  BY DEF SessionsAreExact
<1>2. QED
  BY SessionsEnd, <1>1, PTL

-----------------------------------------------------------------------------
GuardSpec == Guard!ProtectionSpec

Counters == {"school", "extension"}
CallStages == {"idle", "school", "both", "ripe", "run", "probing", "act", "actProbing", "leave"}
(* Where a request holds a slot of the school, and of the extension.       *)
Holds(k, stage) == stage # "idle" /\ (k = "extension" => stage # "school")

GuardShape ==
  /\ guarded \in [Caller -> CallStages]
  /\ slots \in [Counters -> Nat] /\ inexact \in [Counters -> BOOLEAN]
  /\ DOMAIN circuit = {"failures", "state"} /\ circuit.state \in {"closed", "open", "ripe"}
GuardInv == GuardShape /\ CountsWhatRuns

LEMMA GuardCardinality == \A S : Guard!Cardinality(S) = Cardinality(S)
  BY DEF Guard!Cardinality, Cardinality

LEMMA Holders ==
  /\ \A k \in Counters : Guard!Holders(k) = {r \in Caller : Holds(k, guarded[r])}
  /\ \A k \in Counters : Guard!Holders(k)' = {r \in Caller : Holds(k, guarded'[r])}
  BY DEF Counters, Holds, Guard!Holders

(* A request that moves holds what its new stage says.                     *)
LEMMA HoldersMove ==
  ASSUME GuardInv, NEW r \in Caller, NEW stage, guarded' = [guarded EXCEPT ![r] = stage],
         NEW k \in Counters
  PROVE  Guard!Holders(k)' = IF Holds(k, stage) THEN Guard!Holders(k) \cup {r}
                             ELSE Guard!Holders(k) \ {r}
<1>1. guarded \in [Caller -> CallStages]
  BY DEF GuardInv, GuardShape
<1>2. QED
  BY <1>1, Holders

LEMMA HoldersCount ==
  ASSUME IsFiniteSet(Caller), NEW k \in Counters, NEW r \in Caller
  PROVE  /\ IsFiniteSet(Guard!Holders(k)) /\ Cardinality(Guard!Holders(k)) \in Nat
         /\ r \notin Guard!Holders(k) =>
              Cardinality(Guard!Holders(k) \cup {r}) = Cardinality(Guard!Holders(k)) + 1
         /\ r \in Guard!Holders(k) =>
              /\ Cardinality(Guard!Holders(k)) > 0
              /\ Cardinality(Guard!Holders(k) \ {r}) = Cardinality(Guard!Holders(k)) - 1
<1>1. IsFiniteSet(Guard!Holders(k))
  <2>1. Guard!Holders(k) \subseteq Caller
    BY DEF Guard!Holders
  <2>2. QED
    BY <2>1, FS_Subset
<1>2. Cardinality(Guard!Holders(k)) \in Nat
  BY <1>1, FS_CardinalityType
<1>3. Cardinality(Guard!Holders(k) \cup {r})
        = IF r \in Guard!Holders(k) THEN Cardinality(Guard!Holders(k)) ELSE Cardinality(Guard!Holders(k)) + 1
  BY <1>1, FS_AddElement
<1>4. Cardinality(Guard!Holders(k) \ {r})
        = IF r \in Guard!Holders(k) THEN Cardinality(Guard!Holders(k)) - 1 ELSE Cardinality(Guard!Holders(k))
  BY <1>1, FS_RemoveElement
<1>5. r \in Guard!Holders(k) => Cardinality(Guard!Holders(k)) # 0
  BY <1>1, FS_EmptySet
<1>6. QED
  BY <1>1, <1>2, <1>3, <1>4, <1>5

LEMMA Counting ==
  CountsWhatRuns <=> \A k \in Counters : inexact[k] \/ slots[k] = Cardinality(Guard!Holders(k))
  BY GuardCardinality DEF CountsWhatRuns, Guard!CountsWhatRuns, Counters, Guard!Counter

LEMMA CountingNext ==
  CountsWhatRuns' <=>
    \A k \in Counters : inexact'[k] \/ slots'[k] = Cardinality(Guard!Holders(k)')
  BY GuardCardinality DEF CountsWhatRuns, Guard!CountsWhatRuns, Counters, Guard!Counter

(* A request moves between stages that hold the same slots.                *)
LEMMA SlotsKept ==
  ASSUME GuardInv, NEW r \in Caller, NEW stage \in CallStages, guarded' = [guarded EXCEPT ![r] = stage],
         \A k \in Counters : Holds(k, stage) <=> Holds(k, guarded[r]),
         UNCHANGED <<slots, inexact>>,
         DOMAIN circuit' = {"failures", "state"}, circuit'.state \in {"closed", "open", "ripe"}
  PROVE  GuardInv'
<1>1. \A k \in Counters : Guard!Holders(k)' = Guard!Holders(k)
  BY HoldersMove, Holders
<1>2. CountsWhatRuns'
  BY <1>1, Counting, CountingNext DEF GuardInv
<1>3. QED
  BY <1>2 DEF GuardInv, GuardShape

LEMMA NextGuardInv ==
  ASSUME IsFiniteSet(Caller), GuardInv, [Guard!ProtectionNext]_Guard!protectionVars PROVE GuardInv'
<1>1. ASSUME UNCHANGED <<guarded, slots, inexact>>,
             DOMAIN circuit' = {"failures", "state"}, circuit'.state \in {"closed", "open", "ripe"}
      PROVE  GuardInv'
  <2>1. \A k \in Counters : Guard!Holders(k)' = Guard!Holders(k)
    BY <1>1, Holders
  <2>2. QED
    BY <1>1, <2>1, Counting, CountingNext DEF GuardInv, GuardShape
<1>2. CASE UNCHANGED Guard!protectionVars
  BY <1>1, <1>2 DEF Guard!protectionVars, GuardInv, GuardShape
<1>3. CASE Guard!Happens \/ Guard!CircuitExpires \/ Guard!SetSwitch \/ Guard!AuditSwitch
  <2>1. UNCHANGED <<guarded, slots, inexact>>
    BY <1>3 DEF Guard!Happens, Guard!WindowEnds, Guard!Ripen, Guard!ProbeExpires, Guard!CircuitExpires,
                Guard!SetSwitch, Guard!AuditSwitch
  <2>2. DOMAIN circuit' = {"failures", "state"} /\ circuit'.state \in {"closed", "open", "ripe"}
    BY <1>3 DEF GuardInv, GuardShape, Guard!Happens, Guard!WindowEnds, Guard!Ripen, Guard!ProbeExpires,
                Guard!CircuitExpires, Guard!SetSwitch, Guard!AuditSwitch, Guard!Closed
  <2>3. QED
    BY <1>1, <2>1, <2>2
<1>4. ASSUME NEW c \in Counters, Guard!Lapse(c) PROVE GuardInv'
  <2>1. /\ slots' = [slots EXCEPT ![c] = 0] /\ inexact' = [inexact EXCEPT ![c] = Guard!Holders(c) # {}]
        /\ UNCHANGED <<guarded, circuit>>
    BY <1>4 DEF Guard!Lapse
  <2>2. \A k \in Counters : Guard!Holders(k)' = Guard!Holders(k)
    BY <2>1, Holders
  <2>3. GuardShape'
    BY <2>1 DEF GuardInv, GuardShape
  <2>4. CountsWhatRuns'
    <3>1. SUFFICES ASSUME NEW k \in Counters PROVE inexact'[k] \/ slots'[k] = Cardinality(Guard!Holders(k)')
      BY CountingNext
    <3>2. CASE k = c
      <4>1. slots'[c] = 0 /\ (inexact'[c] \/ Guard!Holders(c) = {})
        BY <2>1 DEF GuardInv, GuardShape
      <4>2. QED
        BY <2>2, <3>2, <4>1, FS_EmptySet
    <3>3. CASE k # c
      BY <2>1, <2>2, <3>3, Counting DEF GuardInv, GuardShape
    <3>4. QED
      BY <3>2, <3>3
  <2>5. QED
    BY <2>3, <2>4 DEF GuardInv
<1>5. ASSUME NEW r \in Caller, Guard!AcquireSchool(r) PROVE GuardInv'
  <2>1. CASE UNCHANGED <<guarded, slots, inexact, circuit>>
    BY <1>1, <2>1 DEF GuardInv, GuardShape
  <2>2. CASE /\ slots' = [slots EXCEPT !["school"] = @ + 1] /\ guarded' = [guarded EXCEPT ![r] = "school"]
             /\ guarded[r] = "idle" /\ UNCHANGED <<inexact, circuit>>
    <3>1. GuardShape'
      BY <2>2 DEF GuardInv, GuardShape, CallStages, Counters
    <3>2. /\ Guard!Holders("school")' = Guard!Holders("school") \cup {r}
          /\ Guard!Holders("extension")' = Guard!Holders("extension") \ {r}
      <4>1. Holds("school", "school") /\ ~ Holds("extension", "school")
        BY DEF Holds
      <4>2. QED
        BY <2>2, <4>1, HoldersMove DEF Counters
    <3>3. r \notin Guard!Holders("school") /\ r \notin Guard!Holders("extension")
      BY <2>2, Holders DEF Holds, Counters
    <3>4. /\ slots'["school"] = slots["school"] + 1 /\ slots'["extension"] = slots["extension"]
          /\ inexact' = inexact
      BY <2>2 DEF GuardInv, GuardShape, Counters
    <3>5. Cardinality(Guard!Holders("school")') = Cardinality(Guard!Holders("school")) + 1
      BY <3>2, <3>3, HoldersCount DEF Counters
    <3>6. Guard!Holders("extension")' = Guard!Holders("extension")
      BY <3>2, <3>3
    <3>7. CountsWhatRuns'
      BY <3>4, <3>5, <3>6, Counting, CountingNext DEF GuardInv, Counters
    <3>8. QED
      BY <3>1, <3>7 DEF GuardInv
  <2>3. QED
    BY <1>5, <2>1, <2>2 DEF Guard!AcquireSchool, Guard!Goes
<1>6. ASSUME NEW r \in Caller, Guard!AcquireExtension(r) PROVE GuardInv'
  <2>1. CASE /\ slots' = [slots EXCEPT !["extension"] = @ + 1] /\ guarded' = [guarded EXCEPT ![r] = "both"]
             /\ guarded[r] = "school" /\ UNCHANGED <<inexact, circuit>>
    <3>1. GuardShape'
      <4>1. slots' \in [Counters -> Nat]
        BY <2>1 DEF GuardInv, GuardShape, Counters
      <4>2. guarded' \in [Caller -> CallStages]
        BY <2>1 DEF GuardInv, GuardShape, CallStages
      <4>3. QED
        BY <2>1, <4>1, <4>2 DEF GuardInv, GuardShape
    <3>2. /\ Guard!Holders("school")' = Guard!Holders("school") \cup {r}
          /\ Guard!Holders("extension")' = Guard!Holders("extension") \cup {r}
      <4>1. "both" \in CallStages /\ Holds("school", "both") /\ Holds("extension", "both")
        BY DEF Holds, CallStages
      <4>2. QED
        BY <2>1, <4>1, HoldersMove DEF Counters
    <3>3. r \in Guard!Holders("school") /\ r \notin Guard!Holders("extension")
      <4>1. Holds("school", "school") /\ ~ Holds("extension", "school")
        BY DEF Holds
      <4>2. QED
        BY <2>1, <4>1, Holders DEF Counters
    <3>4. /\ slots'["school"] = slots["school"] /\ slots'["extension"] = slots["extension"] + 1
          /\ inexact' = inexact
      BY <2>1 DEF GuardInv, GuardShape, Counters
    <3>5. Cardinality(Guard!Holders("extension")') = Cardinality(Guard!Holders("extension")) + 1
      BY <3>2, <3>3, HoldersCount DEF Counters
    <3>6. Guard!Holders("school")' = Guard!Holders("school")
      BY <3>2, <3>3
    <3>7. CountsWhatRuns'
      BY <3>4, <3>5, <3>6, Counting, CountingNext DEF GuardInv, Counters
    <3>8. QED
      BY <3>1, <3>7 DEF GuardInv
  <2>2. CASE /\ slots' = Guard!Released(slots, {"school"}) /\ guarded' = [guarded EXCEPT ![r] = "idle"]
             /\ guarded[r] = "school" /\ UNCHANGED <<inexact, circuit>>
    <3>1. slots' = [k \in Counters |-> IF k = "school" /\ slots[k] > 0 THEN slots[k] - 1 ELSE slots[k]]
      BY <2>2 DEF Guard!Released, Guard!Counter, Counters
    <3>2. GuardShape'
      BY <2>2, <3>1 DEF GuardInv, GuardShape, CallStages, Counters
    <3>3. /\ Guard!Holders("school")' = Guard!Holders("school") \ {r}
          /\ Guard!Holders("extension")' = Guard!Holders("extension") \ {r}
      BY <2>2, HoldersMove DEF Holds, Counters
    <3>4. r \in Guard!Holders("school") /\ r \notin Guard!Holders("extension")
      BY <2>2, Holders DEF Holds, Counters
    <3>5. /\ Cardinality(Guard!Holders("school")') = Cardinality(Guard!Holders("school")) - 1
          /\ Cardinality(Guard!Holders("school")) > 0
      BY <3>3, <3>4, HoldersCount DEF Counters
    <3>6. Guard!Holders("extension")' = Guard!Holders("extension")
      BY <3>3, <3>4
    <3>7. CountsWhatRuns'
      BY <2>2, <3>1, <3>5, <3>6, Counting, CountingNext DEF GuardInv, Counters
    <3>8. QED
      BY <3>2, <3>7 DEF GuardInv
  <2>3. QED
    BY <1>6, <2>1, <2>2 DEF Guard!AcquireExtension, Guard!Goes
<1>7. ASSUME NEW r \in Caller, Guard!Leave(r) PROVE GuardInv'
  <2>1. /\ guarded' = [guarded EXCEPT ![r] = "idle"] /\ guarded[r] = "leave" /\ UNCHANGED <<inexact, circuit>>
        /\ slots' = [k \in Counters |-> IF slots[k] > 0 THEN slots[k] - 1 ELSE slots[k]]
    BY <1>7 DEF Guard!Leave, Guard!Goes, Guard!Released, Guard!Counter, Counters
  <2>2. GuardShape'
    BY <2>1 DEF GuardInv, GuardShape, CallStages, Counters
  <2>3. ASSUME NEW k \in Counters PROVE inexact'[k] \/ slots'[k] = Cardinality(Guard!Holders(k)')
    <3>1. Guard!Holders(k)' = Guard!Holders(k) \ {r}
      BY <2>1, HoldersMove DEF Holds
    <3>2. r \in Guard!Holders(k)
      BY <2>1, Holders DEF Holds
    <3>3. Cardinality(Guard!Holders(k)') = Cardinality(Guard!Holders(k)) - 1 /\ Cardinality(Guard!Holders(k)) > 0
      BY <3>1, <3>2, HoldersCount
    <3>4. QED
      BY <2>1, <3>3, Counting DEF GuardInv
  <2>4. QED
    BY <2>2, <2>3, CountingNext DEF GuardInv
<1>8. ASSUME NEW r \in Caller, Guard!Lose(r) PROVE GuardInv'
  <2>1. /\ guarded' = [guarded EXCEPT ![r] = "idle"] /\ UNCHANGED <<slots, circuit>>
        /\ inexact' = [k \in Counters |-> inexact[k] \/ r \in Guard!Holders(k)]
    BY <1>8 DEF Guard!Lose, Guard!Goes, Guard!Counter, Counters
  <2>2. GuardShape'
    BY <2>1 DEF GuardInv, GuardShape, CallStages
  <2>3. ASSUME NEW k \in Counters PROVE inexact'[k] \/ slots'[k] = Cardinality(Guard!Holders(k)')
    <3>1. Guard!Holders(k)' = Guard!Holders(k) \ {r}
      BY <2>1, HoldersMove DEF Holds
    <3>2. CASE r \in Guard!Holders(k)
      BY <2>1, <3>2
    <3>3. CASE r \notin Guard!Holders(k)
      <4>1. Guard!Holders(k)' = Guard!Holders(k)
        BY <3>1, <3>3
      <4>2. slots'[k] = slots[k] /\ (inexact[k] => inexact'[k])
        BY <2>1
      <4>3. QED
        BY <4>1, <4>2, Counting DEF GuardInv
    <3>4. QED
      BY <3>2, <3>3
  <2>4. QED
    BY <2>2, <2>3, CountingNext DEF GuardInv
<1>9. ASSUME NEW r \in Caller,
             Guard!AskCircuit(r) \/ Guard!TakeProbe(r) \/ Guard!Authorize(r) \/ Guard!Succeed(r) \/ Guard!Fail(r)
               \/ Guard!Refuse(r)
      PROVE  GuardInv'
  <2>1. UNCHANGED <<slots, inexact>>
    BY <1>9 DEF Guard!AskCircuit, Guard!TakeProbe, Guard!Authorize, Guard!Succeed, Guard!Fail, Guard!Refuse
  <2>2. DOMAIN circuit' = {"failures", "state"} /\ circuit'.state \in {"closed", "open", "ripe"}
    <3>1. CASE Guard!Fail(r)
      <4>1. PICK n : n = circuit.failures + 1
        OBVIOUS
      <4>2. circuit' = [failures |-> Threshold, state |-> "open"] \/ circuit' = [circuit EXCEPT !.failures = n]
        BY <3>1, <4>1 DEF Guard!Fail
      <4>3. QED
        BY <4>2 DEF GuardInv, GuardShape
    <3>2. CASE ~ Guard!Fail(r)
      BY <1>9, <3>2 DEF GuardInv, GuardShape, Guard!AskCircuit, Guard!TakeProbe, Guard!Authorize,
                        Guard!Succeed, Guard!Refuse, Guard!Closed
    <3>3. QED
      BY <3>1, <3>2
  <2>3. PICK stage \in CallStages \ {"idle", "school"} : guarded' = [guarded EXCEPT ![r] = stage]
    BY <1>9 DEF Guard!AskCircuit, Guard!TakeProbe, Guard!Authorize, Guard!Succeed, Guard!Fail, Guard!Refuse,
                Guard!Goes, GuardInv, GuardShape, CallStages
  <2>4. guarded[r] \notin {"idle", "school"}
    BY <1>9 DEF Guard!AskCircuit, Guard!TakeProbe, Guard!Authorize, Guard!Succeed, Guard!Fail, Guard!Refuse
  <2>5. \A k \in Counters : Holds(k, stage) <=> Holds(k, guarded[r])
    BY <2>3, <2>4 DEF Holds
  <2>6. QED
    BY <2>1, <2>2, <2>3, <2>5, SlotsKept
<1>10. ASSUME NEW r \in Caller, Guard!Throttled(r) PROVE GuardInv'
  BY <1>1, <1>10 DEF Guard!Throttled, GuardInv, GuardShape
<1>11. QED
  BY <1>2, <1>3, <1>4, <1>5, <1>6, <1>7, <1>8, <1>9, <1>10
     DEF Guard!ProtectionNext, Guard!Serve, Guard!Counter, Counters

(* The counters of the resource governor count the requests that run,      *)
(* however many there are and whatever the limits: what a request took is  *)
(* given back once wherever it ends, unless a process died or a key lapsed *)
(* under it (extension-resource-governor.service.ts, enterRequest and      *)
(* release).                                                               *)
THEOREM CountersStayExact ==
  ASSUME IsFiniteSet(Caller) PROVE GuardSpec => []CountsWhatRuns
<1>1. Guard!ProtectionInit => GuardInv
  <2>1. ASSUME Guard!ProtectionInit PROVE GuardInv
    <3>1. GuardShape
      BY <2>1 DEF Guard!ProtectionInit, GuardShape, CallStages, Counters, Guard!Counter, Guard!Closed
    <3>2. \A k \in Counters : Guard!Holders(k) = {}
      BY <2>1, Holders DEF Guard!ProtectionInit, Holds
    <3>3. \A k \in Counters : slots[k] = 0
      BY <2>1 DEF Guard!ProtectionInit, Counters, Guard!Counter
    <3>4. QED
      BY <3>1, <3>2, <3>3, FS_EmptySet, Counting DEF GuardInv
  <2>2. QED
    BY <2>1
<1>2. GuardInv => CountsWhatRuns
  BY DEF GuardInv
<1>3. QED
  BY NextGuardInv, <1>1, <1>2, PTL DEF GuardSpec, Guard!ProtectionSpec
-----------------------------------------------------------------------------
TrailSpec == Trail!AuditInit /\ [][Trail!AuditNext]_Trail!auditVars

(* Rows are kept for a day at least.                                       *)
RetentionIsADay == MinRetention \in Nat \ {0} /\ LastDay \in Nat

Scheduled == [state : {"none", "on", "off"}, retain : Trail!Retentions, last : Int]
RollupRun ==
  [day : Int, by : {"cron", "hand"}, left : SUBSET LogSchool, school : SUBSET LogSchool, rows : SUBSET written]
TrailShape ==
  /\ today \in 0..LastDay
  /\ schedule \in [LogSchool -> Scheduled]
  /\ DOMAIN sweep = {"left", "school"}
  /\ sweep.left \subseteq LogSchool \X Trail!Retentions /\ sweep.school \subseteq LogSchool \X Trail!Retentions
  /\ rollup \in RollupRun
  /\ DOMAIN metric = LogSchool \X (0..LastDay)

(* The rows of today and of yesterday are all there.                       *)
RecentIsThere ==
  /\ log \subseteq written
  /\ \A r \in written : r.day \in 0..today
  /\ \A r \in written : r.day >= today - 1 => r \in log

RowsOf(s, d) == {r \in written : r.school = s /\ r.day = d}
(* What the nightly rollup has read are the rows of yesterday.             *)
Nightly ==
  /\ rollup.left \cup rollup.school # {} => rollup.day \in 0..today
  /\ rollup.by = "cron" /\ rollup.day # -1 => rollup.day = today - 1
  /\ rollup.by = "cron" => \A s \in rollup.school : rollup.rows = RowsOf(s, rollup.day)
Finals == \A x \in LogSchool \X (0..LastDay) : metric[x].by = "cron" => x[2] < today

TrailInv == TrailShape /\ RecentIsThere /\ Nightly /\ Finals /\ NightlyIsExact

(* Max of two retentions.                                                  *)
LEMMA LongerRetention ==
  ASSUME RetentionIsADay, NEW n \in Trail!Retentions
  PROVE  Trail!Max({n, MinRetention}) >= 1 /\ Trail!Max({n, MinRetention}) \in Int
<1>1. \E x \in {n, MinRetention} : \A y \in {n, MinRetention} : x >= y
  BY DEF RetentionIsADay, Trail!Retentions
<1>2. Trail!Max({n, MinRetention}) \in {n, MinRetention}
  BY <1>1 DEF Trail!Max
<1>3. QED
  BY <1>2 DEF RetentionIsADay, Trail!Retentions

(* Steps that leave log, figures and rollups alone.                        *)
LEMMA TrailAside ==
  ASSUME TrailInv, UNCHANGED <<today, log, written, rollup, metric>>, TrailShape' PROVE TrailInv'
<1>1. RecentIsThere' /\ Nightly' /\ Finals'
  BY DEF TrailInv, RecentIsThere, Nightly, RowsOf, Finals
<1>2. NightlyIsExact'
  BY DEF TrailInv, NightlyIsExact, Trail!NightlyIsExact
<1>3. QED
  BY <1>1, <1>2 DEF TrailInv

LEMMA TrailStep ==
  ASSUME TrailInv, Trail!AuditNext, RetentionIsADay PROVE TrailInv'
<1>1. ASSUME NEW s \in LogSchool, NEW ok \in BOOLEAN, Trail!Log(s, ok) PROVE TrailInv'
  <2>1. PICK row : /\ row.school = s /\ row.day = today
                   /\ log' = log \cup {row} /\ written' = written \cup {row}
                   /\ UNCHANGED <<today, schedule, hold, sweep, metric, rollup, view, orders>>
    BY <1>1 DEF Trail!Log
  <2>2. TrailShape'
    BY <2>1 DEF TrailInv, TrailShape, RollupRun
  <2>3. RecentIsThere'
    BY <2>1 DEF TrailInv, RecentIsThere, TrailShape
  <2>4. \A x \in LogSchool, d \in Int : d < today => RowsOf(x, d)' = RowsOf(x, d)
    BY <2>1 DEF RowsOf, TrailInv, TrailShape
  <2>5. Nightly'
    BY <2>1, <2>4 DEF TrailInv, Nightly, TrailShape, RollupRun
  <2>6. Finals'
    BY <2>1 DEF TrailInv, Finals
  <2>7. NightlyIsExact'
    <3>1. SUFFICES ASSUME NEW x \in LogSchool, NEW d \in 0..LastDay, metric[<<x, d>>].by = "cron"
                   PROVE  {r \in written' : r.school = x /\ r.day = d} = {r \in written : r.school = x /\ r.day = d}
      BY <2>1 DEF TrailInv, NightlyIsExact, Trail!NightlyIsExact
    <3>2. d < today
      BY <3>1 DEF TrailInv, Finals
    <3>3. QED
      BY <2>4, <3>2 DEF RowsOf, RetentionIsADay
  <2>8. QED
    BY <2>2, <2>3, <2>5, <2>6, <2>7 DEF TrailInv
<1>2. ASSUME Trail!NextDay PROVE TrailInv'
  <2>1. /\ today < LastDay /\ rollup = Trail!NoRollup /\ today' = today + 1
        /\ UNCHANGED <<log, written, schedule, hold, sweep, metric, rollup, view, orders>>
    BY <1>2 DEF Trail!NextDay
  <2>2. TrailShape'
    BY <2>1 DEF TrailInv, TrailShape, RollupRun, RetentionIsADay
  <2>3. RecentIsThere'
    BY <2>1 DEF TrailInv, RecentIsThere, TrailShape
  <2>4. Nightly'
    BY <2>1 DEF Nightly, Trail!NoRollup
  <2>5. Finals'
    BY <2>1 DEF TrailInv, Finals, TrailShape
  <2>6. NightlyIsExact'
    BY <2>1 DEF TrailInv, NightlyIsExact, Trail!NightlyIsExact
  <2>7. QED
    BY <2>2, <2>3, <2>4, <2>5, <2>6 DEF TrailInv
<1>3. ASSUME NEW s \in LogSchool, NEW b \in BOOLEAN, Trail!SetHold(s, b) PROVE TrailInv'
  BY <1>3, TrailAside DEF Trail!SetHold, TrailInv, TrailShape, RollupRun
<1>4. ASSUME NEW s \in LogSchool, NEW n \in Trail!Retentions, NEW b \in BOOLEAN, Trail!CreateCleanupSchedule(s, n, b)
      PROVE  TrailInv'
  <2>1. schedule' \in [LogSchool -> Scheduled]
    BY <1>4 DEF Trail!CreateCleanupSchedule, Trail!Sets, TrailInv, TrailShape, Scheduled
  <2>2. QED
    BY <1>4, <2>1, TrailAside DEF Trail!CreateCleanupSchedule, Trail!Sets, TrailInv, TrailShape, RollupRun
<1>5. ASSUME NEW s \in LogSchool, Trail!ToggleCleanupSchedule(s) PROVE TrailInv'
  <2>1. schedule' \in [LogSchool -> Scheduled]
    <3>1. schedule[s] \in Scheduled
      BY DEF TrailInv, TrailShape
    <3>2. PICK q : q = [schedule[s] EXCEPT !.state = IF @ = "on" THEN "off" ELSE "on"]
      OBVIOUS
    <3>3. q \in Scheduled
      BY <3>1, <3>2 DEF Scheduled
    <3>4. schedule' = [schedule EXCEPT ![s] = q]
      BY <1>5, <3>2 DEF Trail!ToggleCleanupSchedule, Trail!Sets
    <3>5. QED
      BY <3>3, <3>4 DEF TrailInv, TrailShape
  <2>2. QED
    BY <1>5, <2>1, TrailAside DEF Trail!ToggleCleanupSchedule, Trail!Sets, TrailInv, TrailShape, RollupRun
<1>6. ASSUME NEW s \in LogSchool, Trail!DeleteCleanupSchedule(s) PROVE TrailInv'
  <2>1. schedule' \in [LogSchool -> Scheduled]
    BY <1>6 DEF Trail!DeleteCleanupSchedule, Trail!Sets, TrailInv, TrailShape, Scheduled,
                Trail!NoSchedule, Trail!Retentions
  <2>2. QED
    BY <1>6, <2>1, TrailAside DEF Trail!DeleteCleanupSchedule, Trail!Sets, TrailInv, TrailShape, RollupRun
<1>7. ASSUME Trail!RunScheduledCleanup PROVE TrailInv'
  <2>1. /\ DOMAIN sweep' = {"left", "school"} /\ sweep'.school = {}
        /\ sweep'.left \subseteq LogSchool \X Trail!Retentions
    BY <1>7 DEF Trail!RunScheduledCleanup, TrailInv, TrailShape, Scheduled
  <2>2. QED
    BY <1>7, <2>1, TrailAside DEF Trail!RunScheduledCleanup, TrailInv, TrailShape, RollupRun
<1>8. ASSUME NEW s \in LogSchool, Trail!RunCleanupNow(s) PROVE TrailInv'
  <2>1. /\ DOMAIN sweep' = {"left", "school"} /\ sweep'.school = {}
        /\ sweep'.left \subseteq LogSchool \X Trail!Retentions
    BY <1>8 DEF Trail!RunCleanupNow, TrailInv, TrailShape, Scheduled
  <2>2. QED
    BY <1>8, <2>1, TrailAside DEF Trail!RunCleanupNow, TrailInv, TrailShape, RollupRun
<1>9. ASSUME NEW s \in LogSchool, Trail!FindHold(s) PROVE TrailInv'
  <2>1. /\ DOMAIN sweep' = {"left", "school"} /\ sweep'.school \subseteq sweep.left
        /\ sweep'.left \subseteq sweep.left
    BY <1>9 DEF Trail!FindHold
  <2>2. QED
    BY <1>9, <2>1, TrailAside DEF Trail!FindHold, TrailInv, TrailShape, RollupRun
<1>10. ASSUME NEW s \in LogSchool, Trail!DeleteExpired(s) PROVE TrailInv'
  <2>1. PICK x \in sweep.school : /\ log' = log \ Trail!Expired(s, x[2])
                                  /\ sweep' = [sweep EXCEPT !.school = {}]
                                  /\ UNCHANGED <<today, written, hold, metric, rollup, view, orders>>
    BY <1>10 DEF Trail!DeleteExpired
  <2>2. x[2] \in Trail!Retentions
    BY DEF TrailInv, TrailShape
  <2>3. RecentIsThere'
    <3>1. PICK n \in Int : n = Trail!Max({x[2], MinRetention}) /\ n >= 1
      BY <2>2, LongerRetention
    <3>2. \A r \in Trail!Expired(s, x[2]) : r \in log /\ r.day < today - n
      BY <3>1 DEF Trail!Expired
    <3>3. today \in Int /\ \A r \in log : r.day \in Int
      BY DEF TrailInv, RecentIsThere, TrailShape
    <3>4. \A r \in Trail!Expired(s, x[2]) : r.day < today - 1
      BY <3>1, <3>2, <3>3
    <3>5. \A r \in written : r.day >= today - 1 => r \in log /\ r \notin Trail!Expired(s, x[2])
      BY <3>3, <3>4 DEF TrailInv, RecentIsThere
    <3>6. QED
      BY <2>1, <3>5 DEF TrailInv, RecentIsThere
  <2>4. schedule' \in [LogSchool -> Scheduled]
    <3>1. PICK q : q = [schedule[s] EXCEPT !.last = today]
      OBVIOUS
    <3>2. q \in Scheduled
      BY <3>1 DEF Scheduled, TrailInv, TrailShape
    <3>3. schedule' = schedule \/ schedule' = [schedule EXCEPT ![s] = q]
      BY <1>10, <3>1 DEF Trail!DeleteExpired
    <3>4. QED
      BY <3>2, <3>3 DEF TrailInv, TrailShape
  <2>5. TrailShape' /\ Nightly' /\ Finals'
    BY <2>1, <2>4 DEF TrailInv, TrailShape, RollupRun, Nightly, RowsOf, Finals
  <2>6. NightlyIsExact'
    BY <2>1 DEF TrailInv, NightlyIsExact, Trail!NightlyIsExact
  <2>7. QED
    BY <2>3, <2>5, <2>6 DEF TrailInv
<1>11. ASSUME NEW d, NEW by \in {"cron", "hand"}, Trail!Ran(by, d), by = "cron" => d = today - 1 PROVE TrailInv'
  <2>1. /\ d \in 0..today /\ UNCHANGED <<today, log, written, schedule, hold, sweep, metric, view>>
        /\ rollup' = [day |-> d, by |-> by, left |-> LogSchool, school |-> {}, rows |-> {}]
    BY <1>11 DEF Trail!Ran, Trail!NoRollup
  <2>2. TrailShape' /\ Nightly'
    BY <1>11, <2>1 DEF TrailInv, TrailShape, RollupRun, Nightly
  <2>3. RecentIsThere' /\ Finals'
    BY <2>1 DEF TrailInv, RecentIsThere, Finals
  <2>4. NightlyIsExact'
    BY <2>1 DEF TrailInv, NightlyIsExact, Trail!NightlyIsExact
  <2>5. QED
    BY <2>2, <2>3, <2>4 DEF TrailInv
<1>12. ASSUME NEW s \in LogSchool, Trail!ReadDay(s) PROVE TrailInv'
  <2>1. /\ s \in rollup.left /\ UNCHANGED <<today, log, written, schedule, hold, sweep, metric, view, orders>>
        /\ rollup' = [rollup EXCEPT !.left = @ \ {s}, !.school = {s},
                                    !.rows = {r \in log : r.school = s /\ r.day = rollup.day}]
    BY <1>12 DEF Trail!ReadDay
  <2>2. /\ rollup'.day = rollup.day /\ rollup'.by = rollup.by
        /\ rollup'.left = rollup.left \ {s} /\ rollup'.school = {s}
        /\ rollup'.rows = {r \in log : r.school = s /\ r.day = rollup.day}
    BY <2>1 DEF TrailInv, TrailShape, RollupRun
  <2>3. TrailShape'
    <3>1. rollup' \in RollupRun
      BY <2>1, <2>2 DEF TrailInv, TrailShape, RollupRun, RecentIsThere
    <3>2. RollupRun' = RollupRun
      BY <2>1 DEF RollupRun
    <3>3. QED
      BY <2>1, <3>1, <3>2 DEF TrailInv, TrailShape
  <2>4. Nightly'
    <3>1. rollup.day \in 0..today /\ (rollup.by = "cron" => rollup.day = today - 1)
      BY <2>1 DEF TrailInv, Nightly, TrailShape
    <3>2. rollup.by = "cron" => rollup'.rows = RowsOf(s, rollup.day)
      BY <2>2, <3>1 DEF TrailInv, RecentIsThere, RowsOf, TrailShape
    <3>3. \A x, d : RowsOf(x, d)' = RowsOf(x, d)
      BY <2>1 DEF RowsOf
    <3>4. QED
      BY <2>1, <2>2, <3>1, <3>2, <3>3 DEF Nightly
  <2>5. RecentIsThere' /\ Finals'
    BY <2>1 DEF TrailInv, RecentIsThere, Finals
  <2>6. NightlyIsExact'
    BY <2>1 DEF TrailInv, NightlyIsExact, Trail!NightlyIsExact
  <2>7. QED
    BY <2>3, <2>4, <2>5, <2>6 DEF TrailInv
<1>13. ASSUME rollup' = Trail!Rolled PROVE rollup' = Trail!NoRollup \/ rollup' = [rollup EXCEPT !.school = {}, !.rows = {}]
  BY <1>13 DEF Trail!Rolled
<1>14. ASSUME rollup' = Trail!Rolled, UNCHANGED <<today, log, written, schedule, hold, sweep, view, orders>>
       PROVE  rollup' \in RollupRun' /\ Nightly'
  <2>1. CASE rollup' = Trail!NoRollup
    BY <2>1, <1>14 DEF Trail!NoRollup, RollupRun, Nightly
  <2>2. CASE rollup' = [rollup EXCEPT !.school = {}, !.rows = {}]
    BY <2>2, <1>14 DEF TrailInv, TrailShape, RollupRun, Nightly
  <2>3. QED
    BY <1>13, <1>14, <2>1, <2>2
<1>15. ASSUME NEW s \in LogSchool, Trail!UpsertMetric(s) PROVE TrailInv'
  <2>1. /\ s \in rollup.school /\ rollup' = Trail!Rolled
        /\ UNCHANGED <<today, log, written, schedule, hold, sweep, view, orders>>
    BY <1>15 DEF Trail!UpsertMetric
  <2>2. PICK m : /\ m = [by |-> rollup.by, requests |-> Trail!Cardinality(rollup.rows),
                         errors |-> Trail!Cardinality({r \in rollup.rows : ~ r.ok})]
                 /\ metric' = [metric EXCEPT ![<<s, rollup.day>>] = m]
    BY <1>15 DEF Trail!UpsertMetric
  <2>3. rollup.day \in 0..today /\ (rollup.by = "cron" => rollup.day = today - 1 /\ rollup.rows = RowsOf(s, rollup.day))
    BY <2>1 DEF TrailInv, Nightly, TrailShape
  <2>4. TrailShape'
    BY <1>14, <2>1, <2>2 DEF TrailInv, TrailShape
  <2>5. RecentIsThere'
    BY <2>1 DEF TrailInv, RecentIsThere
  <2>6. <<s, rollup.day>> \in LogSchool \X (0..LastDay)
    BY <2>3 DEF TrailInv, TrailShape, RetentionIsADay
  <2>7. Finals'
    <3>1. SUFFICES ASSUME NEW x \in LogSchool \X (0..LastDay), metric'[x].by = "cron" PROVE x[2] < today
      BY <2>1 DEF Finals
    <3>2. CASE x = <<s, rollup.day>>
      BY <2>2, <2>3, <3>1, <3>2 DEF TrailInv, TrailShape
    <3>3. CASE x # <<s, rollup.day>>
      BY <2>2, <3>1, <3>3 DEF TrailInv, TrailShape, Finals
    <3>4. QED
      BY <3>2, <3>3
  <2>8. NightlyIsExact'
    <3>1. SUFFICES ASSUME NEW x \in LogSchool, NEW d \in 0..LastDay, metric'[<<x, d>>].by = "cron"
                   PROVE  LET rows == {r \in written : r.school = x /\ r.day = d}
                          IN  /\ metric'[<<x, d>>].requests = Trail!Cardinality(rows)
                              /\ metric'[<<x, d>>].errors = Trail!Cardinality({r \in rows : ~ r.ok})
      BY <2>1 DEF NightlyIsExact, Trail!NightlyIsExact
    <3>2. CASE x = s /\ d = rollup.day
      <4>1. metric'[<<x, d>>] = m
        BY <2>2, <2>6, <3>2 DEF TrailInv, TrailShape
      <4>2. rollup.rows = {r \in written : r.school = x /\ r.day = d}
        BY <2>2, <2>3, <3>1, <3>2, <4>1 DEF RowsOf
      <4>3. /\ m.requests = Trail!Cardinality(rollup.rows)
            /\ m.errors = Trail!Cardinality({r \in rollup.rows : ~ r.ok})
        BY <2>2
      <4>4. QED
        BY <4>1, <4>2, <4>3, Zenon
    <3>3. CASE ~ (x = s /\ d = rollup.day)
      <4>1. metric'[<<x, d>>] = metric[<<x, d>>]
        BY <2>2, <2>6, <3>3 DEF TrailInv, TrailShape
      <4>2. QED
        BY <3>1, <4>1 DEF TrailInv, NightlyIsExact, Trail!NightlyIsExact
    <3>4. QED
      BY <3>2, <3>3
  <2>9. QED
    BY <1>14, <2>1, <2>4, <2>5, <2>7, <2>8 DEF TrailInv
<1>16. ASSUME NEW s \in LogSchool, Trail!SkipSchool(s) PROVE TrailInv'
  <2>1. /\ rollup' = Trail!Rolled
        /\ UNCHANGED <<today, log, written, schedule, hold, sweep, metric, view, orders>>
    BY <1>16 DEF Trail!SkipSchool
  <2>2. TrailShape'
    BY <1>14, <2>1 DEF TrailInv, TrailShape
  <2>3. RecentIsThere' /\ Finals'
    BY <2>1 DEF TrailInv, RecentIsThere, Finals
  <2>4. NightlyIsExact'
    BY <2>1 DEF TrailInv, NightlyIsExact, Trail!NightlyIsExact
  <2>5. QED
    BY <1>14, <2>1, <2>2, <2>3, <2>4 DEF TrailInv
<1>17. ASSUME Trail!Reads PROVE TrailInv'
  <2>1. UNCHANGED <<today, log, written, schedule, hold, sweep, metric, rollup>>
    BY <1>17 DEF Trail!Reads, Trail!Ask
  <2>2. QED
    BY <2>1, TrailAside DEF TrailInv, TrailShape, RollupRun
<1>18. Trail!RunDailyRollup => TrailInv'
  BY <1>11 DEF Trail!RunDailyRollup
<1>19. ASSUME NEW d \in 0..LastDay, Trail!Recompute(d) PROVE TrailInv'
  BY <1>11, <1>19 DEF Trail!Recompute
<1>20. QED
  BY <1>1, <1>2, <1>3, <1>4, <1>5, <1>6, <1>7, <1>8, <1>9, <1>10, <1>12, <1>15, <1>16, <1>17, <1>18, <1>19
  DEF Trail!AuditNext

(* The figures the nightly rollup leaves for a school and a day are those  *)
(* of all requests of that day, whatever the cleanups and the rows written *)
(* meanwhile do to the log (runDailyRollup and the schedules of            *)
(* audit-retention).                                                       *)
THEOREM NightlyStaysExact == ASSUME RetentionIsADay PROVE TrailSpec => []NightlyIsExact
<1>1. Trail!AuditInit => TrailInv
  <2>1. SUFFICES ASSUME Trail!AuditInit PROVE TrailInv
    OBVIOUS
  <2>2. TrailShape
    BY <2>1 DEF Trail!AuditInit, TrailShape, Trail!NoSchedule, Trail!NoSweep, Trail!NoRollup, Scheduled, RollupRun,
                Trail!Retentions, RetentionIsADay
  <2>3. RecentIsThere /\ Nightly
    BY <2>1 DEF Trail!AuditInit, RecentIsThere, Nightly, Trail!NoRollup
  <2>4. Finals /\ NightlyIsExact
    BY <2>1 DEF Trail!AuditInit, Finals, NightlyIsExact, Trail!NightlyIsExact, Trail!NoMetric
  <2>5. QED
    BY <2>2, <2>3, <2>4 DEF TrailInv
<1>2. TrailInv /\ [Trail!AuditNext]_Trail!auditVars => TrailInv'
  <2>1. TrailInv /\ UNCHANGED Trail!auditVars => TrailInv'
    BY TrailAside DEF Trail!auditVars, TrailInv, TrailShape, RollupRun
  <2>2. QED
    BY <2>1, TrailStep
<1>3. TrailInv => NightlyIsExact
  BY DEF TrailInv
<1>4. QED
  BY <1>1, <1>2, <1>3, PTL DEF TrailSpec
-----------------------------------------------------------------------------
HostSpec == Hosts!TenancyInit /\ [][Hosts!TenancyNext]_Hosts!tenancyVars

(* The hosts of schools under the platform's domain are none of those at   *)
(* Railway.                                                                *)
HostsAreNamed ==
  /\ Added \subseteq School /\ None \notin School /\ Challenges \in Nat
  /\ Home \in [Added -> Host] /\ Rail \in [Added -> Host]
  /\ \A s, t \in Added : Home[s] # Rail[t]

SchoolRow == [status : {"NONE", "PROVISIONING", "ACTIVE", "SUSPENDED"},
              job : {"NONE", "RUNNING", "COMPLETED", "FAILED"}]
DomainRow == [of : School \cup {None}, type : {"NONE", "MANAGED", "CUSTOM"},
              status : {"NONE", "PENDING", "VERIFIED"}, challenge : 0..Challenges,
              routing : {"NONE", "READY", "FAILED"}]
Errand == [op : {"idle", "register", "provision", "verified", "finish", "request", "verify", "route"},
           s : School \cup {None}, h : Host \cup {None}, ok : BOOLEAN, challenge : 0..Challenges,
           saw : School \cup {None}]
HostShape ==
  school \in [School -> SchoolRow] /\ domain \in [Host -> DomainRow] /\ errand \in [Job -> Errand]

(* A challenge that waits for its answer has a number; the managed host of *)
(* Railway has none.                                                       *)
Provisions == {"register", "provision", "verified", "finish"}
Numbered ==
  /\ \A h \in Host : domain[h].type = "CUSTOM" => domain[h].challenge # 0
  /\ \A j \in Job :
       /\ errand[j].op \in Provisions => errand[j].s \in Added
       /\ errand[j].op = "request" => errand[j].s \in School /\ errand[j].h \in Host /\ errand[j].saw \in {None, errand[j].s}
       /\ errand[j].op = "verify" => errand[j].h \in Host /\ errand[j].challenge # 0
       /\ errand[j].op = "route" => errand[j].h \in Host
       /\ errand[j].op \in {"verified", "finish"} /\ errand[j].ok => Rail[errand[j].s] \in routes

Reached(s) ==
  /\ Rail[s] \in routes /\ domain[Rail[s]].of = s /\ domain[Rail[s]].type = "MANAGED"
  /\ domain[Rail[s]].status = "VERIFIED" /\ domain[Rail[s]].challenge = 0
Clean == upset \cap {"demoted", "claimed", "challenge"} = {}
(* Who is done, or about to be, is reached.                                *)
DoneIsReached ==
  Clean => /\ \A s \in Added : school[s].job = "COMPLETED" => Reached(s)
           /\ \A j \in Job : errand[j].op = "finish" /\ errand[j].ok => Reached(errand[j].s)

HostInv == HostShape /\ Numbered /\ DoneIsReached

LEMMA LeastNatural == ASSUME NEW T \in SUBSET Nat, T # {} PROVE \E x \in T : \A y \in T : x <= y
<1> DEFINE R == {ss \in Nat \X Nat : ss[1] < ss[2]}
<1>1. IsWellFoundedOn(R, Nat)
  BY NatLessThanWellFounded DEF OpToRel
<1>2. \A x, y \in Nat : y < x => <<y, x>> \in R
  OBVIOUS
<1> HIDE DEF R
<1>3. PICK x \in T : \A y \in T : <<y, x>> \notin R
  BY <1>1, WFMin
<1>4. \A y \in T : ~ (y < x) /\ x \in Nat /\ y \in Nat
  BY <1>2, <1>3
<1>5. QED
  BY <1>4

LEMMA LatestChallenge ==
  ASSUME HostsAreNamed, HostShape, Host # {} PROVE Hosts!Issued \in 0..Challenges
<1> DEFINE T == {Challenges - domain[h].challenge : h \in Host}
<1>1. \A h \in Host : domain[h].challenge \in 0..Challenges
  BY DEF HostShape, DomainRow
<1>2. T \in SUBSET Nat /\ T # {}
  BY <1>1 DEF HostsAreNamed
<1>3. PICK x \in T : \A y \in T : x <= y
  BY <1>2, LeastNatural
<1>4. PICK h \in Host : x = Challenges - domain[h].challenge
  BY <1>3
<1>5. ASSUME NEW g \in Host PROVE domain[g].challenge <= domain[h].challenge
  <2>1. x <= Challenges - domain[g].challenge
    BY <1>3
  <2>2. QED
    BY <1>1, <1>4, <2>1 DEF HostsAreNamed
<1>6. QED
  BY <1>1, <1>5 DEF Hosts!Issued

ErrandSet(j, new) == errand' = [errand EXCEPT ![j] = new]
DomainSet(h, row) == domain' = [domain EXCEPT ![h] = row]
LeadsTo(row, s) == row.of = s /\ row.type = "MANAGED" /\ row.status = "VERIFIED" /\ row.challenge = 0
(* What a request has read and will write is as Numbered says.             *)
Fits(new) ==
  /\ new.op \in Provisions => new.s \in Added
  /\ new.op = "request" => new.s \in School /\ new.h \in Host /\ new.saw \in {None, new.s}
  /\ new.op = "verify" => new.h \in Host /\ new.challenge # 0
  /\ new.op = "route" => new.h \in Host
  /\ new.op \in {"verified", "finish"} /\ new.ok => Rail[new.s] \in routes'

(* Steps of one request that leave schools and domains alone.              *)
LEMMA ErrandMoves ==
  ASSUME HostsAreNamed, HostInv, UNCHANGED <<school, domain, upset>>, routes \subseteq routes',
         NEW j \in Job, NEW new \in Errand, ErrandSet(j, new), Fits(new),
         Clean /\ new.op = "finish" /\ new.ok => Reached(new.s)
  PROVE  HostInv'
<1>1. HostShape'
  BY DEF HostInv, HostShape, ErrandSet, DomainSet
<1>2. Numbered'
  BY DEF HostInv, HostShape, Numbered, ErrandSet, Fits
<1>3. DoneIsReached'
  <2>1. \A s : Reached(s) => Reached(s)'
    BY DEF Reached
  <2>2. QED
    BY <2>1 DEF HostInv, HostShape, DoneIsReached, Clean, ErrandSet
<1>4. QED
  BY <1>1, <1>2, <1>3 DEF HostInv

(* Steps of no request.                                                    *)
LEMMA HostsAside ==
  ASSUME HostInv, UNCHANGED <<domain, routes, errand, upset>>, HostShape',
         \A s \in Added : school'[s].job = "COMPLETED" => school[s].job = "COMPLETED"
  PROVE  HostInv'
<1>1. Numbered'
  BY DEF HostInv, Numbered
<1>2. DoneIsReached'
  BY DEF HostInv, DoneIsReached, Clean, Reached
<1>3. QED
  BY <1>1, <1>2 DEF HostInv

(* What one request writes to one domain.                                  *)
LEMMA DomainMoves ==
  ASSUME HostsAreNamed, HostInv, UNCHANGED school, routes \subseteq routes', upset \subseteq upset',
         NEW j \in Job, NEW new \in Errand, ErrandSet(j, new), Fits(new),
         NEW h \in Host, NEW row \in DomainRow, DomainSet(h, row),
         row.type = "CUSTOM" => row.challenge # 0,
         Clean' /\ new.op = "finish" /\ new.ok => Reached(new.s)',
         Clean' => \A s \in Added : Rail[s] = h /\ Reached(s) => LeadsTo(row, s)
  PROVE  HostInv'
<1>1. HostShape'
  BY DEF HostInv, HostShape, ErrandSet, DomainSet
<1>2. Numbered'
  BY DEF HostInv, HostShape, Numbered, ErrandSet, DomainSet, Fits
<1>3. DoneIsReached'
  <2>1. SUFFICES ASSUME Clean' PROVE DoneIsReached'
    BY DEF DoneIsReached
  <2>2. Clean
    BY <2>1 DEF Clean
  <2>3. ASSUME NEW s \in Added, Reached(s) PROVE Reached(s)'
    <3>1. Rail[s] \in Host
      BY DEF HostsAreNamed
    <3>2. CASE Rail[s] = h
      BY <2>1, <2>3, <3>1, <3>2 DEF Reached, LeadsTo, HostInv, HostShape, DomainSet
    <3>3. CASE Rail[s] # h
      BY <2>3, <3>1, <3>3 DEF Reached, LeadsTo, HostInv, HostShape, DomainSet
    <3>4. QED
      BY <3>2, <3>3
  <2>4. \A i \in Job : errand[i].op = "finish" => errand[i].s \in Added
    BY DEF HostInv, Numbered, Provisions
  <2>5. QED
    BY <2>1, <2>2, <2>3, <2>4 DEF HostInv, HostShape, DoneIsReached, ErrandSet
<1>4. QED
  BY <1>1, <1>2, <1>3 DEF HostInv

LEMMA HostStep == ASSUME HostsAreNamed, HostInv, Hosts!TenancyNext PROVE HostInv'
<1> USE DEF Provisions
<1>1. ASSUME NEW p \in Process, NEW h \in Host, Hosts!BeginResolve(p, h) \/ Hosts!Resolve(p) \/ Hosts!Expire(p, h)
                                                \/ Hosts!Publish(h)
      PROVE  HostInv'
  BY <1>1, HostsAside DEF Hosts!BeginResolve, Hosts!Resolve, Hosts!Expire, Hosts!Publish, HostInv, HostShape
<1>2. ASSUME NEW p \in Process, Hosts!Resolve(p) PROVE HostInv'
  BY <1>2, HostsAside DEF Hosts!Resolve, HostInv, HostShape
<1>3. ASSUME NEW h \in Host, Hosts!Publish(h) PROVE HostInv'
  BY <1>3, HostsAside DEF Hosts!Publish, HostInv, HostShape
<1>4. ASSUME NEW p \in Process, NEW s \in School, NEW status \in {"ACTIVE", "SUSPENDED"}, Hosts!Update(p, s, status)
      PROVE  HostInv'
  <2>1. PICK row : row = [school[s] EXCEPT !.status = status]
    OBVIOUS
  <2>2. school' = [school EXCEPT ![s] = row] /\ UNCHANGED <<domain, routes, errand, upset>>
    BY <1>4, <2>1 DEF Hosts!Update
  <2>3. row \in SchoolRow /\ row.job = school[s].job
    BY <2>1 DEF HostInv, HostShape, SchoolRow
  <2>4. QED
    BY <2>2, <2>3, HostsAside DEF HostInv, HostShape
<1>5. ASSUME NEW j \in Job, NEW s \in Added, Hosts!Create(j, s) \/ Hosts!BeginRetry(j, s) PROVE HostInv'
  <2>1. PICK new : /\ new = IF Hosts!Create(j, s) THEN [Hosts!IdleJob EXCEPT !.op = "register", !.s = s]
                                                  ELSE [Hosts!IdleJob EXCEPT !.op = "provision", !.s = s]
    OBVIOUS
  <2>2. /\ new \in Errand /\ new.op \in {"register", "provision"} /\ new.s = s
    <3>1. \E op \in {"register", "provision"} :
            new = [op |-> op, s |-> s, h |-> None, ok |-> FALSE, challenge |-> 0, saw |-> None]
      BY <2>1 DEF Hosts!IdleJob
    <3>2. s \in School /\ Challenges \in Nat
      BY DEF HostsAreNamed
    <3>3. QED
      BY <3>1, <3>2 DEF Errand
  <2>3. errand' = [errand EXCEPT ![j] = new] /\ UNCHANGED <<domain, routes, upset>>
    BY <1>5, <2>1 DEF Hosts!Create, Hosts!BeginRetry, Hosts!Begin
  <2>4. PICK row : /\ row \in SchoolRow /\ (row.job = "COMPLETED" => school[s].job = "COMPLETED")
                   /\ school' = [school EXCEPT ![s] = row]
    <3>1. CASE Hosts!Create(j, s)
      BY <3>1 DEF Hosts!Create, SchoolRow
    <3>2. CASE Hosts!BeginRetry(j, s)
      <4>1. PICK row : row = [school[s] EXCEPT !.job = IF @ = "NONE" THEN @ ELSE "RUNNING"]
        OBVIOUS
      <4>2. school' = [school EXCEPT ![s] = row]
        BY <3>2, <4>1 DEF Hosts!BeginRetry
      <4>3. row \in SchoolRow /\ (row.job = "COMPLETED" => school[s].job = "COMPLETED")
        BY <4>1 DEF HostInv, HostShape, SchoolRow, HostsAreNamed
      <4>4. QED
        BY <4>2, <4>3
    <3>3. QED
      BY <1>5, <3>1, <3>2
  <2>5. HostShape'
    BY <2>2, <2>3, <2>4 DEF HostInv, HostShape
  <2>6. Numbered'
    BY <2>2, <2>3 DEF HostInv, HostShape, Numbered
  <2>7. DoneIsReached'
    BY <2>2, <2>3, <2>4 DEF HostInv, HostShape, DoneIsReached, Clean, Reached, HostsAreNamed
  <2>8. QED
    BY <2>5, <2>6, <2>7 DEF HostInv
<1>6. ASSUME NEW j \in Job, NEW p \in Process, Hosts!RegisterManaged(j, p) PROVE HostInv'
  <2>1. PICK s : s = errand[j].s
    OBVIOUS
  <2>2. PICK new : new = [errand[j] EXCEPT !.op = "provision"]
    OBVIOUS
  <2>3. PICK row : row = IF domain[Home[s]] = Hosts!NoDomain
                         THEN [Hosts!NoDomain EXCEPT !.of = s, !.type = "MANAGED", !.status = "VERIFIED"]
                         ELSE [domain[Home[s]] EXCEPT !.of = s, !.type = "MANAGED"]
    OBVIOUS
  <2>4. /\ errand[j].op = "register" /\ errand' = [errand EXCEPT ![j] = new]
        /\ domain' = [domain EXCEPT ![Home[s]] = row] /\ upset \subseteq upset' /\ UNCHANGED <<school, routes>>
    BY <1>6, <2>1, <2>2, <2>3 DEF Hosts!RegisterManaged, Hosts!Next_
  <2>5. s \in Added /\ Home[s] \in Host
    BY <2>1, <2>4 DEF HostInv, Numbered, HostsAreNamed
  <2>6. new \in Errand /\ new.op = "provision" /\ new.s = s
    BY <2>1, <2>2 DEF HostInv, HostShape, Errand
  <2>7. row \in DomainRow /\ row.type = "MANAGED"
    <3>1. CASE domain[Home[s]] = Hosts!NoDomain
      <4>1. row = [of |-> s, type |-> "MANAGED", status |-> "VERIFIED", challenge |-> 0, routing |-> "NONE"]
        BY <2>3, <3>1 DEF Hosts!NoDomain
      <4>2. QED
        BY <2>5, <4>1 DEF DomainRow, HostsAreNamed
    <3>2. CASE domain[Home[s]] # Hosts!NoDomain
      <4>1. PICK old \in DomainRow : old = domain[Home[s]]
        BY <2>5 DEF HostInv, HostShape
      <4>2. PICK mid : mid = [old EXCEPT !.of = s]
        OBVIOUS
      <4>3. row = [mid EXCEPT !.type = "MANAGED"]
        BY <2>3, <3>2, <4>1, <4>2 DEF DomainRow
      <4>4. mid \in DomainRow
        BY <2>5, <4>2 DEF DomainRow, HostsAreNamed
      <4>5. QED
        BY <4>3, <4>4 DEF DomainRow
    <3>3. QED
      BY <3>1, <3>2
  <2>8. Fits(new) /\ ErrandSet(j, new) /\ DomainSet(Home[s], row) /\ \A t \in Added : Rail[t] # Home[s]
    BY <2>4, <2>5, <2>6 DEF Fits, ErrandSet, DomainSet, HostsAreNamed
  <2>9. QED
    BY <2>4, <2>5, <2>6, <2>7, <2>8, DomainMoves
<1>7. ASSUME NEW j \in Job, NEW ok \in BOOLEAN, Hosts!Provision(j, ok) PROVE HostInv'
  <2>1. PICK mid : mid = [errand[j] EXCEPT !.op = "verified"]
    OBVIOUS
  <2>2. PICK new : new = [mid EXCEPT !.ok = ok]
    OBVIOUS
  <2>3. /\ errand[j].op = "provision" /\ errand' = [errand EXCEPT ![j] = new]
        /\ routes' = IF ok THEN routes \cup {Rail[errand[j].s]} ELSE routes
        /\ UNCHANGED <<school, domain, upset>>
    BY <1>7, <2>1, <2>2 DEF Hosts!Provision, HostInv, HostShape
  <2>4. new \in Errand /\ new.op = "verified" /\ new.ok = ok /\ new.s = errand[j].s
    BY <2>1, <2>2 DEF HostInv, HostShape, Errand
  <2>5. errand[j].s \in Added
    BY <2>3 DEF HostInv, Numbered
  <2>6. Fits(new) /\ ErrandSet(j, new)
    BY <2>3, <2>4, <2>5 DEF Fits, ErrandSet
  <2>7. QED
    BY <2>3, <2>4, <2>6, ErrandMoves
<1>9. /\ Hosts!IdleJob \in Errand /\ Hosts!IdleJob.op = "idle" /\ Fits(Hosts!IdleJob)
  BY DEF Hosts!IdleJob, Errand, HostsAreNamed, Fits
<1>8. ASSUME NEW j \in Job, NEW p \in Process, Hosts!RegisterVerified(j, p) PROVE HostInv'
  <2>1. PICK s : s = errand[j].s
    OBVIOUS
  <2>2. errand[j].op = "verified" /\ s \in Added /\ Rail[s] \in Host /\ (errand[j].ok => Rail[s] \in routes)
    BY <1>8, <2>1 DEF Hosts!RegisterVerified, HostInv, Numbered, HostsAreNamed
  <2>3. PICK new : new = [errand[j] EXCEPT !.op = "finish"]
    OBVIOUS
  <2>4. new \in Errand /\ new.op = "finish" /\ new.s = s /\ new.ok = errand[j].ok
    BY <2>1, <2>3 DEF HostInv, HostShape, Errand
  <2>5. UNCHANGED <<school, routes, upset>>
    BY <1>8 DEF Hosts!RegisterVerified
  <2>6. CASE errand[j].ok /\ domain[Rail[s]].of \in {None, s}
    <3>1. PICK row : row = [Hosts!NoDomain EXCEPT !.of = s, !.type = "MANAGED", !.status = "VERIFIED", !.routing = "READY"]
      OBVIOUS
    <3>2. domain' = [domain EXCEPT ![Rail[s]] = row] /\ errand' = [errand EXCEPT ![j] = new]
      BY <1>8, <2>1, <2>3, <2>6, <3>1 DEF Hosts!RegisterVerified, Hosts!Next_
    <3>3. row \in DomainRow /\ row.type = "MANAGED" /\ row.of = s /\ row.status = "VERIFIED" /\ row.challenge = 0
      <4>1. row = [of |-> s, type |-> "MANAGED", status |-> "VERIFIED", challenge |-> 0, routing |-> "READY"]
        BY <3>1 DEF Hosts!NoDomain
      <4>2. QED
        BY <2>2, <4>1 DEF DomainRow, HostsAreNamed
    <3>4. domain'[Rail[s]] = row
      BY <2>2, <3>2 DEF HostInv, HostShape
    <3>5. Reached(new.s)'
      BY <2>2, <2>4, <2>5, <2>6, <3>3, <3>4 DEF Reached
    <3>6. \A t \in Added : Rail[t] = Rail[s] /\ Reached(t) => t = s
      BY <2>6 DEF Reached, HostsAreNamed
    <3>7. /\ Fits(new) /\ ErrandSet(j, new) /\ DomainSet(Rail[s], row)
          /\ \A t \in Added : Rail[t] = Rail[s] /\ Reached(t) => LeadsTo(row, t)
      BY <2>2, <2>4, <2>5, <3>2, <3>3, <3>6 DEF Fits, ErrandSet, DomainSet, LeadsTo
    <3>8. QED
      BY <2>2, <2>4, <2>5, <3>3, <3>5, <3>7, DomainMoves
  <2>7. CASE ~ (errand[j].ok /\ domain[Rail[s]].of \in {None, s}) /\ ~ errand[j].ok
    <3>1. UNCHANGED domain /\ errand' = [errand EXCEPT ![j] = new]
      BY <1>8, <2>1, <2>3, <2>7 DEF Hosts!RegisterVerified, Hosts!Next_
    <3>2. Fits(new) /\ ErrandSet(j, new)
      BY <2>2, <2>4, <2>5, <2>7, <3>1 DEF Fits, ErrandSet
    <3>3. QED
      BY <2>4, <2>5, <2>7, <3>1, <3>2, ErrandMoves
  <2>8. CASE errand[j].ok /\ domain[Rail[s]].of \notin {None, s}
    <3>1. UNCHANGED domain /\ errand' = [errand EXCEPT ![j] = Hosts!IdleJob]
      BY <1>8, <2>1, <2>8 DEF Hosts!RegisterVerified, Hosts!End
    <3>2. QED
      BY <1>9, <2>5, <3>1, ErrandMoves DEF ErrandSet
  <2>9. QED
    BY <2>6, <2>7, <2>8
<1>10. ASSUME NEW j \in Job, Hosts!Finish(j) PROVE HostInv'
  <2>1. PICK s : s = errand[j].s
    OBVIOUS
  <2>2. errand[j].op = "finish" /\ s \in Added /\ s \in School
    BY <1>10, <2>1 DEF Hosts!Finish, HostInv, Numbered, HostsAreNamed
  <2>3. PICK mid : mid = [school[s] EXCEPT !.status = IF errand[j].ok THEN "ACTIVE" ELSE "PROVISIONING"]
    OBVIOUS
  <2>4. PICK row : row = [mid EXCEPT !.job = IF @ = "NONE" THEN @ ELSE IF errand[j].ok THEN "COMPLETED" ELSE "FAILED"]
    OBVIOUS
  <2>5. school' = [school EXCEPT ![s] = row]
    BY <1>10, <2>1, <2>2, <2>3, <2>4 DEF Hosts!Finish, HostInv, HostShape
  <2>6. row \in SchoolRow /\ (row.job = "COMPLETED" => errand[j].ok)
    BY <2>2, <2>3, <2>4 DEF HostInv, HostShape, SchoolRow
  <2>7. errand' = [errand EXCEPT ![j] = Hosts!IdleJob] /\ upset \subseteq upset' /\ UNCHANGED <<domain, routes>>
    BY <1>10 DEF Hosts!Finish, Hosts!End
  <2>8. HostShape'
    BY <1>9, <2>5, <2>6, <2>7 DEF HostInv, HostShape
  <2>9. Numbered'
    BY <1>9, <2>7 DEF HostInv, HostShape, Numbered
  <2>10. DoneIsReached'
    <3>1. SUFFICES ASSUME Clean' PROVE DoneIsReached'
      BY DEF DoneIsReached
    <3>2. Clean /\ \A t : Reached(t) => Reached(t)'
      BY <2>7, <3>1 DEF Clean, Reached
    <3>3. errand[j].ok => Reached(s)
      BY <2>1, <2>2, <3>2 DEF HostInv, DoneIsReached
    <3>4. \A t \in Added : school'[t].job = "COMPLETED" => Reached(t)
      <4>1. SUFFICES ASSUME NEW t \in Added, school'[t].job = "COMPLETED" PROVE Reached(t)
        OBVIOUS
      <4>2. CASE t = s
        BY <2>2, <2>5, <2>6, <3>3, <4>1, <4>2 DEF HostInv, HostShape
      <4>3. CASE t # s
        BY <2>2, <2>5, <3>2, <4>1, <4>3 DEF HostInv, HostShape, DoneIsReached, HostsAreNamed
      <4>4. QED
        BY <4>2, <4>3
    <3>5. \A i \in Job : errand'[i].op = "finish" /\ errand'[i].ok => Reached(errand'[i].s)
      BY <1>9, <2>7, <3>2 DEF HostInv, HostShape, DoneIsReached
    <3>6. QED
      BY <3>2, <3>4, <3>5 DEF DoneIsReached
  <2>11. QED
    BY <2>8, <2>9, <2>10 DEF HostInv
<1>11. ASSUME NEW j \in Job, Hosts!Die(j) PROVE HostInv'
  BY <1>9, <1>11, ErrandMoves DEF Hosts!Die, Hosts!End, ErrandSet
<1>12. ASSUME NEW j \in Job, NEW s \in School, NEW h \in Host, Hosts!BeginRequestDomain(j, s, h) PROVE HostInv'
  <2>1. PICK new : new = [Hosts!IdleJob EXCEPT !.op = "request", !.s = s, !.h = h, !.saw = domain[h].of]
    OBVIOUS
  <2>2. /\ domain[h].of \in {None, s} /\ errand' = [errand EXCEPT ![j] = new]
        /\ UNCHANGED <<school, domain, routes, upset>>
    BY <1>12, <2>1 DEF Hosts!BeginRequestDomain, Hosts!Begin, Hosts!Claimable
  <2>3. new \in Errand /\ new.op = "request" /\ new.s = s /\ new.h = h /\ new.saw \in {None, s}
    <3>1. new = [op |-> "request", s |-> s, h |-> h, ok |-> FALSE, challenge |-> 0, saw |-> domain[h].of]
      BY <2>1 DEF Hosts!IdleJob
    <3>2. QED
      BY <2>2, <3>1 DEF Errand, HostsAreNamed
  <2>4. Fits(new) /\ ErrandSet(j, new)
    BY <2>2, <2>3 DEF Fits, ErrandSet
  <2>5. QED
    BY <2>2, <2>3, <2>4, ErrandMoves
<1>13. ASSUME NEW j \in Job, NEW p \in Process, Hosts!RequestDomain(j, p) PROVE HostInv'
  <2>1. PICK h : h = errand[j].h
    OBVIOUS
  <2>2. PICK n : n = Hosts!Issued + 1
    OBVIOUS
  <2>3. PICK row : row = [domain[h] EXCEPT !.of = errand[j].s, !.type = "CUSTOM", !.status = "PENDING", !.challenge = n]
    OBVIOUS
  <2>4. /\ errand[j].op = "request" /\ Hosts!Issued < Challenges /\ errand' = [errand EXCEPT ![j] = Hosts!IdleJob]
        /\ domain' = [domain EXCEPT ![h] = row] /\ UNCHANGED <<school, routes>> /\ upset \subseteq upset'
        /\ domain[h].type = "MANAGED" => "demoted" \in upset'
    BY <1>13, <2>1, <2>2, <2>3 DEF Hosts!RequestDomain, Hosts!End
  <2>5. h \in Host /\ errand[j].s \in School
    BY <2>1, <2>4 DEF HostInv, Numbered
  <2>6. n \in 0..Challenges /\ n # 0
    BY <2>2, <2>4, <2>5, LatestChallenge DEF HostInv, HostsAreNamed
  <2>7. row \in DomainRow /\ row.challenge # 0
    BY <2>3, <2>5, <2>6 DEF HostInv, HostShape, DomainRow
  <2>8. Clean' => domain[h].type # "MANAGED"
    BY <2>4 DEF Clean
  <2>9. /\ ErrandSet(j, Hosts!IdleJob) /\ DomainSet(h, row)
        /\ Clean' => \A s \in Added : Rail[s] = h /\ Reached(s) => LeadsTo(row, s)
    BY <2>4, <2>8 DEF ErrandSet, DomainSet, Reached
  <2>10. QED
    BY <1>9, <2>4, <2>5, <2>7, <2>9, DomainMoves
<1>14. ASSUME NEW j \in Job, NEW h \in Host, Hosts!BeginVerifyDomain(j, h) PROVE HostInv'
  <2>1. PICK new : new = [Hosts!IdleJob EXCEPT !.op = "verify", !.s = domain[h].of, !.h = h,
                                               !.challenge = domain[h].challenge]
    OBVIOUS
  <2>2. /\ domain[h].type = "CUSTOM" /\ errand' = [errand EXCEPT ![j] = new]
        /\ UNCHANGED <<school, domain, routes, upset>>
    BY <1>14, <2>1 DEF Hosts!BeginVerifyDomain, Hosts!Begin
  <2>3. domain[h].challenge # 0 /\ domain[h] \in DomainRow
    BY <2>2 DEF HostInv, HostShape, Numbered
  <2>4. new \in Errand /\ new.op = "verify" /\ new.h = h /\ new.challenge # 0
    <3>1. new = [op |-> "verify", s |-> domain[h].of, h |-> h, ok |-> FALSE, challenge |-> domain[h].challenge,
                 saw |-> None]
      BY <2>1 DEF Hosts!IdleJob
    <3>2. QED
      BY <2>3, <3>1 DEF Errand, DomainRow
  <2>5. Fits(new) /\ ErrandSet(j, new)
    BY <2>2, <2>4 DEF Fits, ErrandSet
  <2>6. QED
    BY <2>2, <2>4, <2>5, ErrandMoves
<1>15. ASSUME NEW j \in Job, NEW p \in Process, Hosts!VerifyDomain(j, p) PROVE HostInv'
  <2>1. PICK h : h = errand[j].h
    OBVIOUS
  <2>2. PICK row : row = [domain[h] EXCEPT !.status = IF dns[h] = errand[j].challenge THEN "VERIFIED" ELSE "PENDING"]
    OBVIOUS
  <2>3. PICK new : new = IF dns[h] = errand[j].challenge THEN [errand[j] EXCEPT !.op = "route"] ELSE Hosts!IdleJob
    OBVIOUS
  <2>4. /\ errand[j].op = "verify" /\ domain' = [domain EXCEPT ![h] = row] /\ errand' = [errand EXCEPT ![j] = new]
        /\ UNCHANGED <<school, routes>> /\ upset \subseteq upset'
        /\ domain[h].challenge # errand[j].challenge => "challenge" \in upset'
    BY <1>15, <2>1, <2>2, <2>3 DEF Hosts!VerifyDomain, Hosts!Next_, Hosts!End
  <2>5. h \in Host /\ errand[j].challenge # 0
    BY <2>1, <2>4 DEF HostInv, Numbered
  <2>6. row \in DomainRow /\ row.type = domain[h].type /\ row.challenge = domain[h].challenge
    BY <2>2, <2>5 DEF HostInv, HostShape, DomainRow
  <2>7. new \in Errand /\ new.op \in {"route", "idle"} /\ (new.op = "route" => new.h = h)
    BY <1>9, <2>1, <2>3 DEF HostInv, HostShape, Errand
  <2>8. row.type = "CUSTOM" => row.challenge # 0
    BY <2>5, <2>6 DEF HostInv, Numbered
  <2>9. Clean' => domain[h].challenge # 0
    BY <2>4, <2>5 DEF Clean
  <2>10. /\ Fits(new) /\ ErrandSet(j, new) /\ DomainSet(h, row)
         /\ Clean' => \A s \in Added : Rail[s] = h /\ Reached(s) => LeadsTo(row, s)
    BY <2>4, <2>5, <2>7, <2>9 DEF Fits, ErrandSet, DomainSet, Reached
  <2>11. QED
    BY <2>4, <2>5, <2>6, <2>7, <2>8, <2>10, DomainMoves
<1>16. ASSUME NEW j \in Job, NEW h \in Host, Hosts!BeginRouteAgain(j, h) PROVE HostInv'
  <2>1. PICK new : new = [Hosts!IdleJob EXCEPT !.op = "route", !.s = domain[h].of, !.h = h]
    OBVIOUS
  <2>2. errand' = [errand EXCEPT ![j] = new] /\ UNCHANGED <<school, domain, routes, upset>>
    BY <1>16, <2>1 DEF Hosts!BeginRouteAgain, Hosts!Begin
  <2>3. domain[h] \in DomainRow
    BY DEF HostInv, HostShape
  <2>4. new \in Errand /\ new.op = "route" /\ new.h = h
    <3>1. new = [op |-> "route", s |-> domain[h].of, h |-> h, ok |-> FALSE, challenge |-> 0, saw |-> None]
      BY <2>1 DEF Hosts!IdleJob
    <3>2. QED
      BY <2>3, <3>1 DEF Errand, DomainRow, HostsAreNamed
  <2>5. Fits(new) /\ ErrandSet(j, new)
    BY <2>2, <2>4 DEF Fits, ErrandSet
  <2>6. QED
    BY <2>2, <2>4, <2>5, ErrandMoves
<1>17. ASSUME NEW j \in Job, NEW p \in Process, NEW ok \in BOOLEAN, Hosts!RouteDomain(j, p, ok) PROVE HostInv'
  <2>1. PICK h : h = errand[j].h
    OBVIOUS
  <2>2. PICK row : row = IF domain[h].of # errand[j].s THEN domain[h]
                         ELSE [domain[h] EXCEPT !.routing = IF ok THEN "READY" ELSE "FAILED"]
    OBVIOUS
  <2>3. errand[j].op = "route" /\ h \in Host
    BY <1>17, <2>1 DEF Hosts!RouteDomain, HostInv, Numbered
  <2>4. /\ domain' = [domain EXCEPT ![h] = row] /\ errand' = [errand EXCEPT ![j] = Hosts!IdleJob]
        /\ routes \subseteq routes' /\ UNCHANGED <<school, upset>>
    BY <1>17, <2>1, <2>2, <2>3 DEF Hosts!RouteDomain, Hosts!End, HostInv, HostShape
  <2>5. /\ row \in DomainRow /\ row.of = domain[h].of /\ row.type = domain[h].type
        /\ row.status = domain[h].status /\ row.challenge = domain[h].challenge
    BY <2>2, <2>3 DEF HostInv, HostShape, DomainRow
  <2>6. row.type = "CUSTOM" => row.challenge # 0
    BY <2>3, <2>5 DEF HostInv, Numbered
  <2>7. /\ ErrandSet(j, Hosts!IdleJob) /\ DomainSet(h, row)
        /\ \A s \in Added : Rail[s] = h /\ Reached(s) => LeadsTo(row, s)
    BY <2>4, <2>5 DEF ErrandSet, DomainSet, Reached, LeadsTo
  <2>8. QED
    BY <1>9, <2>3, <2>4, <2>5, <2>6, <2>7, DomainMoves
<1>18. ASSUME NEW p \in Process, NEW h \in Host, Hosts!BeginResolve(p, h) \/ Hosts!Expire(p, h) PROVE HostInv'
  BY <1>18, <1>1
<1>19. QED
  BY <1>2, <1>3, <1>4, <1>5, <1>6, <1>7, <1>8, <1>10, <1>11, <1>12, <1>13, <1>14, <1>15, <1>16, <1>17, <1>18
  DEF Hosts!TenancyNext

LEMMA HostKept ==
  ASSUME HostsAreNamed, HostInv, Hosts!TenancyNext,
         NEW h \in Host, domain[h].of # domain'[h].of, domain[h].of # None
  PROVE  upset' \cap {"taken", "claimed"} # {}
<1>1. ASSUME NEW j \in Job, NEW p \in Process, Hosts!RegisterManaged(j, p) PROVE upset' \cap {"taken", "claimed"} # {}
  <2>1. PICK row : domain' = [domain EXCEPT ![Home[errand[j].s]] = row] /\ row.of = errand[j].s
    <3>1. PICK row : row = IF domain[Home[errand[j].s]] = Hosts!NoDomain
                THEN [Hosts!NoDomain EXCEPT !.of = errand[j].s, !.type = "MANAGED", !.status = "VERIFIED"]
                ELSE [domain[Home[errand[j].s]] EXCEPT !.of = errand[j].s, !.type = "MANAGED"]
      OBVIOUS
    <3>2. domain' = [domain EXCEPT ![Home[errand[j].s]] = row] /\ errand[j].op = "register"
      BY <1>1, <3>1 DEF Hosts!RegisterManaged
    <3>3. Home[errand[j].s] \in Host
      BY <3>2 DEF HostInv, Numbered, Provisions, HostsAreNamed
    <3>4. row.of = errand[j].s
      BY <3>1, <3>3 DEF HostInv, HostShape, DomainRow, Hosts!NoDomain
    <3>5. QED
      BY <3>2, <3>4
  <2>2. h = Home[errand[j].s] /\ domain[h].of \notin {None, errand[j].s}
    BY <2>1 DEF HostInv, HostShape
  <2>3. QED
    BY <1>1, <2>2 DEF Hosts!RegisterManaged
<1>2. ASSUME NEW j \in Job, NEW p \in Process, Hosts!RegisterVerified(j, p) PROVE FALSE
  <2>1. PICK row : row = [Hosts!NoDomain EXCEPT !.of = errand[j].s, !.type = "MANAGED", !.status = "VERIFIED",
                                                !.routing = "READY"]
    OBVIOUS
  <2>2. /\ domain' = [domain EXCEPT ![Rail[errand[j].s]] = row]
        /\ domain[Rail[errand[j].s]].of \in {None, errand[j].s}
    BY <1>2, <2>1 DEF Hosts!RegisterVerified
  <2>3. row.of = errand[j].s
    BY <2>1 DEF Hosts!NoDomain
  <2>4. QED
    BY <2>2, <2>3 DEF HostInv, HostShape
<1>3. ASSUME NEW j \in Job, NEW p \in Process, Hosts!RequestDomain(j, p) PROVE upset' \cap {"taken", "claimed"} # {}
  <2>1. PICK row : row = [domain[errand[j].h] EXCEPT !.of = errand[j].s, !.type = "CUSTOM", !.status = "PENDING",
                                                     !.challenge = Hosts!Issued + 1]
    OBVIOUS
  <2>2. /\ errand[j].op = "request" /\ domain' = [domain EXCEPT ![errand[j].h] = row]
        /\ domain[errand[j].h].of # errand[j].saw => "claimed" \in upset'
    BY <1>3, <2>1 DEF Hosts!RequestDomain
  <2>3. errand[j].h \in Host /\ errand[j].saw \in {None, errand[j].s}
    BY <2>2 DEF HostInv, Numbered
  <2>4. row.of = errand[j].s
    BY <2>1, <2>3 DEF HostInv, HostShape, DomainRow
  <2>5. QED
    BY <2>2, <2>3, <2>4 DEF HostInv, HostShape
<1>4. ASSUME NEW j \in Job, NEW p \in Process, Hosts!VerifyDomain(j, p) PROVE FALSE
  <2>1. PICK row : row = [domain[errand[j].h] EXCEPT !.status = IF dns[errand[j].h] = errand[j].challenge
                                                                THEN "VERIFIED" ELSE "PENDING"]
    OBVIOUS
  <2>2. domain' = [domain EXCEPT ![errand[j].h] = row] /\ errand[j].op = "verify"
    BY <1>4, <2>1 DEF Hosts!VerifyDomain
  <2>3. row.of = domain[errand[j].h].of
    BY <2>1, <2>2 DEF HostInv, HostShape, Numbered, DomainRow
  <2>4. QED
    BY <2>2, <2>3 DEF HostInv, HostShape
<1>5. ASSUME NEW j \in Job, NEW p \in Process, NEW ok \in BOOLEAN, Hosts!RouteDomain(j, p, ok) PROVE FALSE
  <2>1. PICK row : row = [domain[errand[j].h] EXCEPT !.routing = IF ok THEN "READY" ELSE "FAILED"]
    OBVIOUS
  <2>2. errand[j].op = "route" /\ domain' = [domain EXCEPT ![errand[j].h] = row]
    BY <1>5, <2>1 DEF Hosts!RouteDomain
  <2>3. row.of = domain[errand[j].h].of
    BY <2>1, <2>2 DEF HostInv, HostShape, Numbered, DomainRow
  <2>4. QED
    BY <2>2, <2>3 DEF HostInv, HostShape
<1>6. ASSUME UNCHANGED domain PROVE FALSE
  BY <1>6
<1>7. QED
  BY <1>1, <1>2, <1>3, <1>4, <1>5, <1>6
  DEF Hosts!TenancyNext, Hosts!BeginResolve, Hosts!Resolve, Hosts!Expire, Hosts!Update, Hosts!Create, Hosts!BeginRetry,
      Hosts!BeginRequestDomain, Hosts!Provision, Hosts!BeginVerifyDomain, Hosts!BeginRouteAgain, Hosts!Finish,
      Hosts!Die, Hosts!Publish

(* Whatever attempts, failures and crashes came before, the Railway host   *)
(* of a school whose provisioning is COMPLETED leads to it, and no command *)
(* takes a host from one school for another (registerManagedDomain,        *)
(* registerVerifiedDomain, requestCustomDomain), with the exceptions that  *)
(* upset records.                                                          *)
THEOREM HostsStaySound == ASSUME HostsAreNamed PROVE HostSpec => HostsAreSound
<1>1. Hosts!TenancyInit => HostInv
  <2>1. SUFFICES ASSUME Hosts!TenancyInit PROVE HostInv
    OBVIOUS
  <2>2. Hosts!NoDomain \in DomainRow /\ Hosts!IdleJob \in Errand
    BY DEF Hosts!NoDomain, DomainRow, Hosts!IdleJob, Errand, HostsAreNamed
  <2>3. HostShape
    BY <2>1, <2>2 DEF Hosts!TenancyInit, HostShape, SchoolRow
  <2>4. Numbered
    BY <2>1 DEF Hosts!TenancyInit, Numbered, Hosts!NoDomain, Hosts!IdleJob, Provisions
  <2>5. DoneIsReached
    BY <2>1 DEF Hosts!TenancyInit, DoneIsReached, Hosts!IdleJob, HostsAreNamed
  <2>6. QED
    BY <2>3, <2>4, <2>5 DEF HostInv
<1>2. HostInv /\ [Hosts!TenancyNext]_Hosts!tenancyVars => HostInv'
  <2>1. HostInv /\ UNCHANGED Hosts!tenancyVars => HostInv'
    BY HostsAside DEF Hosts!tenancyVars, HostInv, HostShape
  <2>2. QED
    BY <2>1, HostStep
<1>3. HostInv => Hosts!ReadyIsReachable
  BY DEF HostInv, DoneIsReached, Clean, Reached, Hosts!ReadyIsReachable, Hosts!Row
<1>4. HostInv /\ [Hosts!TenancyNext]_Hosts!tenancyVars
        => [\A h \in Host : domain[h].of # domain'[h].of /\ domain[h].of # None
              => upset' \cap {"taken", "claimed"} # {}]_Hosts!tenancyVars
  BY HostKept
<1>5. QED
  BY <1>1, <1>2, <1>3, <1>4, PTL DEF HostSpec, HostsAreSound, Hosts!HostsKeepTheirSchool
-----------------------------------------------------------------------------
(* Ids and what lists are ordered by are integers, and a page has a row.   *)
RowsAreNumbered ==
  /\ Item \subseteq Int /\ Item # {} /\ IsFiniteSet(Item) /\ Values \subseteq Int /\ Limit \in Nat \ {0}

Keys(sort) == IF sort = "FEATURED" THEN Int \X Int \X Int ELSE Int \X Int
ListRow == [rank : Int, at : Int, name : Int, up : Int, listed : BOOLEAN]
ListShape ==
  /\ ext \in [Item -> ListRow]
  /\ \E b \in Item : \A q \in Item : ext[q].up <= ext[b].up
  /\ DOMAIN walk = {"sort", "state", "cursor", "seen"} /\ walk.sort \in Lists!Sorts
  /\ walk.state \in {"new", "reading", "over"} /\ walk.seen \in [Item -> Int]
  /\ walk.cursor = <<>> \/ walk.cursor \in Keys(walk.sort)
  /\ walk.state = "new" => walk.cursor = <<>>
(* What comes after the last page read has not been shown, and what comes  *)
(* before it has, once.                                                    *)
ToCome(r) == walk.cursor = <<>> \/ Lists!Below(walk.cursor, Lists!SortKey(walk.sort, r))
ShownOnce ==
  \A r \in steady :
    /\ r \in Item /\ ext[r].listed
    /\ walk.seen[r] = IF walk.state # "over" /\ ToCome(r) THEN 0 ELSE 1

ListInv == ListShape /\ ShownOnce

LEMMA ListCardinality == \A S : Lists!Cardinality(S) = Cardinality(S)
  BY DEF Lists!Cardinality, Cardinality

(* Below orders keys as a dictionary does: by the first column in which    *)
(* they differ.                                                            *)
LEMMA BelowPairs ==
  ASSUME NEW a \in Int \X Int, NEW b \in Int \X Int
  PROVE  Lists!Below(a, b) <=> a[1] < b[1] \/ (a[1] = b[1] /\ a[2] < b[2])
<1>1. DOMAIN a = {1, 2}
  OBVIOUS
<1>2. \A i \in {1, 2} : (\A j \in 1..(i - 1) : a[j] = b[j]) <=> (i = 2 => a[1] = b[1])
  OBVIOUS
<1>3. Lists!Below(a, b) <=> \E i \in {1, 2} : a[i] < b[i] /\ (i = 2 => a[1] = b[1])
  BY <1>1, <1>2 DEF Lists!Below
<1>4. QED
  BY <1>3

LEMMA BelowTriples ==
  ASSUME NEW a \in Int \X Int \X Int, NEW b \in Int \X Int \X Int
  PROVE  Lists!Below(a, b) <=> \/ a[1] < b[1] \/ (a[1] = b[1] /\ a[2] < b[2])
                               \/ (a[1] = b[1] /\ a[2] = b[2] /\ a[3] < b[3])
<1>1. DOMAIN a = {1, 2, 3}
  OBVIOUS
<1>2. \A i \in {1, 2, 3} : (\A j \in 1..(i - 1) : a[j] = b[j])
                             <=> (i # 1 => a[1] = b[1]) /\ (i = 3 => a[2] = b[2])
  OBVIOUS
<1>3. Lists!Below(a, b) <=> \E i \in {1, 2, 3} : a[i] < b[i] /\ (i # 1 => a[1] = b[1]) /\ (i = 3 => a[2] = b[2])
  BY <1>1, <1>2 DEF Lists!Below
<1>4. QED
  BY <1>3

LEMMA BelowIsOrder ==
  ASSUME NEW sort, NEW a \in Keys(sort), NEW b \in Keys(sort)
  PROVE  /\ ~ Lists!Below(a, a)
         /\ a # b => Lists!Below(a, b) \/ Lists!Below(b, a)
         /\ \A c \in Keys(sort) : Lists!Below(a, b) /\ Lists!Below(b, c) => Lists!Below(a, c)
<1>1. CASE sort = "FEATURED"
  <2>1. Keys(sort) = Int \X Int \X Int
    BY <1>1 DEF Keys
  <2>2. ~ Lists!Below(a, a)
    BY <2>1, BelowTriples
  <2>3. a # b => Lists!Below(a, b) \/ Lists!Below(b, a)
    BY <2>1, BelowTriples
  <2>4. ASSUME NEW c \in Keys(sort), Lists!Below(a, b), Lists!Below(b, c) PROVE Lists!Below(a, c)
    BY <2>1, <2>4, BelowTriples
  <2>5. QED
    BY <2>2, <2>3, <2>4
<1>2. CASE sort # "FEATURED"
  <2>1. Keys(sort) = Int \X Int
    BY <1>2 DEF Keys
  <2>2. ~ Lists!Below(a, a)
    BY <2>1, BelowPairs
  <2>3. a # b => Lists!Below(a, b) \/ Lists!Below(b, a)
    BY <2>1, BelowPairs
  <2>4. ASSUME NEW c \in Keys(sort), Lists!Below(a, b), Lists!Below(b, c) PROVE Lists!Below(a, c)
    BY <2>1, <2>4, BelowPairs
  <2>5. QED
    BY <2>2, <2>3, <2>4
<1>3. QED
  BY <1>1, <1>2

(* Two rows never have one key, because their ids are in it.               *)
LEMMA SortKeys ==
  ASSUME RowsAreNumbered, ListShape
  PROVE  /\ \A r \in Item : Lists!SortKey(walk.sort, r) \in Keys(walk.sort)
         /\ \A q, r \in Item : Lists!SortKey(walk.sort, q) = Lists!SortKey(walk.sort, r) => q = r
<1>1. \A r \in Item : r \in Int /\ ext[r] \in ListRow
  BY DEF RowsAreNumbered, ListShape
<1>2. walk.sort \in {"FEATURED", "NEWEST", "NAME_ASC", "NAME_DESC", "UPDATED"}
  BY DEF ListShape, Lists!Sorts
<1>3. \A a, b \in Int : - a = - b => a = b
  OBVIOUS
<1>4. CASE walk.sort = "FEATURED"
  BY <1>1, <1>3, <1>4 DEF ListRow, Keys, Lists!SortKey
<1>5. CASE walk.sort = "NEWEST"
  BY <1>1, <1>3, <1>5 DEF ListRow, Keys, Lists!SortKey
<1>6. CASE walk.sort = "NAME_ASC"
  BY <1>1, <1>3, <1>6 DEF ListRow, Keys, Lists!SortKey
<1>7. CASE walk.sort = "NAME_DESC"
  BY <1>1, <1>3, <1>7 DEF ListRow, Keys, Lists!SortKey
<1>8. CASE walk.sort = "UPDATED"
  BY <1>1, <1>3, <1>8 DEF ListRow, Keys, Lists!SortKey
<1>9. QED
  BY <1>2, <1>4, <1>5, <1>6, <1>7, <1>8

Place(r) == Lists!SortKey(walk.sort, r)
Before(rows, r) == {q \in rows : Lists!Below(Place(q), Place(r))}

(* The further a row is down the list, the more rows are before it.        *)
LEMMA BeforeGrows ==
  ASSUME RowsAreNumbered, ListShape, NEW rows \in SUBSET Item
  PROVE  /\ IsFiniteSet(rows) /\ Cardinality(rows) \in Nat
         /\ \A r \in rows : Cardinality(Before(rows, r)) \in Nat /\ Cardinality(Before(rows, r)) < Cardinality(rows)
         /\ \A q, r \in rows :
              Lists!Below(Place(q), Place(r)) => Cardinality(Before(rows, q)) < Cardinality(Before(rows, r))
<1>1. IsFiniteSet(rows) /\ Cardinality(rows) \in Nat
  BY FS_Subset, FS_CardinalityType DEF RowsAreNumbered
<1>2. \A r \in rows : Place(r) \in Keys(walk.sort)
  BY SortKeys DEF Place
<1>3. ASSUME NEW r \in rows
      PROVE  /\ IsFiniteSet(Before(rows, r)) /\ Cardinality(Before(rows, r)) \in Nat
             /\ Cardinality(Before(rows, r)) < Cardinality(rows)
  <2>1. Before(rows, r) \in SUBSET rows
    BY DEF Before
  <2>2. r \notin Before(rows, r)
    BY <1>2, BelowIsOrder DEF Before
  <2>3. IsFiniteSet(Before(rows, r)) /\ Cardinality(Before(rows, r)) \in Nat
    BY <1>1, <2>1, FS_Subset, FS_CardinalityType
  <2>4. Cardinality(Before(rows, r)) <= Cardinality(rows) /\ Cardinality(Before(rows, r)) # Cardinality(rows)
    BY <1>1, <2>1, <2>2, FS_Subset
  <2>5. QED
    BY <1>1, <2>3, <2>4
<1>4. ASSUME NEW q \in rows, NEW r \in rows, Lists!Below(Place(q), Place(r))
      PROVE  Cardinality(Before(rows, q)) < Cardinality(Before(rows, r))
  <2>1. Before(rows, q) \in SUBSET Before(rows, r)
    BY <1>2, <1>4, BelowIsOrder DEF Before
  <2>2. q \in Before(rows, r) /\ q \notin Before(rows, q)
    BY <1>2, <1>4, BelowIsOrder DEF Before
  <2>3. /\ Cardinality(Before(rows, q)) <= Cardinality(Before(rows, r))
        /\ Cardinality(Before(rows, q)) # Cardinality(Before(rows, r))
    BY <1>3, <2>1, <2>2, FS_Subset
  <2>4. QED
    BY <1>3, <2>3
<1>5. QED
  BY <1>1, <1>3, <1>4

(* A page is the first rows of what comes after the cursor, and its last   *)
(* row is where the rest begins.                                           *)
LEMMA PageIsFirst ==
  ASSUME RowsAreNumbered, ListShape, NEW rows \in SUBSET Item, rows = Lists!After(walk.sort, walk.cursor),
         NEW page, page = Lists!Page(walk.sort, walk.cursor)
  PROVE  /\ page \subseteq rows
         /\ Cardinality(rows) <= Limit => page = rows
         /\ Cardinality(rows) > Limit =>
              /\ Lists!LastOf(walk.sort, page) \in page
              /\ \A r \in rows : r \in page <=> ~ Lists!Below(Place(Lists!LastOf(walk.sort, page)), Place(r))
<1>1. /\ IsFiniteSet(rows) /\ Cardinality(rows) \in Nat
      /\ \A r \in rows : Cardinality(Before(rows, r)) \in Nat /\ Cardinality(Before(rows, r)) < Cardinality(rows)
      /\ \A q, r \in rows :
           Lists!Below(Place(q), Place(r)) => Cardinality(Before(rows, q)) < Cardinality(Before(rows, r))
  BY BeforeGrows
<1>2. \A r \in rows : Place(r) \in Keys(walk.sort)
  BY SortKeys DEF Place
<1>3. page = {r \in rows : Cardinality(Before(rows, r)) < Limit}
  <2>1. \A r \in rows : {q \in rows : q < r /\ Lists!SortKey(walk.sort, q) = Lists!SortKey(walk.sort, r)} = {}
    <3>1. \A q, r \in rows : q \in Int /\ (q < r => q # r)
      BY DEF RowsAreNumbered
    <3>2. QED
      BY <3>1, SortKeys
  <2>2. page = {r \in rows : Lists!Cardinality(Before(rows, r)) + Lists!Cardinality({}) < Limit}
    BY <2>1 DEF Lists!Page, Before, Place
  <2>3. Cardinality({}) = 0
    BY FS_EmptySet
  <2>4. \A r \in rows : Lists!Cardinality(Before(rows, r)) + Lists!Cardinality({}) = Cardinality(Before(rows, r))
    BY <1>1, <2>3, ListCardinality
  <2>5. QED
    BY <2>2, <2>4
<1>4. Limit \in Nat /\ Limit > 0
  BY DEF RowsAreNumbered
<1>5. Cardinality(rows) <= Limit => page = rows
  BY <1>1, <1>3, <1>4
<1>6. ASSUME Cardinality(rows) > Limit
      PROVE  /\ Lists!LastOf(walk.sort, page) \in page
             /\ \A r \in rows : r \in page <=> ~ Lists!Below(Place(Lists!LastOf(walk.sort, page)), Place(r))
  <2>1. page # {}
    <3>1. rows # {}
      BY <1>4, <1>6, FS_EmptySet
    <3>2. PICK r \in rows : \A q \in rows : Cardinality(Before(rows, r)) <= Cardinality(Before(rows, q))
      <4> DEFINE T == {Cardinality(Before(rows, r)) : r \in rows}
      <4>1. T \in SUBSET Nat /\ T # {}
        BY <1>1, <3>1
      <4>2. PICK x \in T : \A y \in T : x <= y
        BY <4>1, LeastNatural
      <4>3. QED
        BY <4>2
    <3>3. Before(rows, r) = {}
      <4>1. ASSUME NEW q \in Before(rows, r) PROVE FALSE
        <5>1. q \in rows /\ Lists!Below(Place(q), Place(r))
          BY DEF Before
        <5>2. Cardinality(Before(rows, q)) < Cardinality(Before(rows, r))
          BY <1>1, <5>1
        <5>3. QED
          BY <1>1, <3>2, <5>1, <5>2
      <4>2. QED
        BY <4>1
    <3>4. Cardinality(Before(rows, r)) = 0
      BY <3>3, FS_EmptySet
    <3>5. QED
      BY <1>3, <1>4, <3>4
  <2>2. PICK last \in page : \A q \in page : Cardinality(Before(rows, q)) <= Cardinality(Before(rows, last))
    <3> DEFINE T == {Limit - Cardinality(Before(rows, r)) : r \in page}
    <3>1. T \in SUBSET Nat /\ T # {}
      BY <1>1, <1>3, <1>4, <2>1
    <3>2. PICK x \in T : \A y \in T : x <= y
      BY <3>1, LeastNatural
    <3>3. PICK last \in page : x = Limit - Cardinality(Before(rows, last))
      BY <3>2
    <3>4. ASSUME NEW q \in page PROVE Cardinality(Before(rows, q)) <= Cardinality(Before(rows, last))
      <4>1. Limit - Cardinality(Before(rows, last)) <= Limit - Cardinality(Before(rows, q))
        BY <3>2, <3>3
      <4>2. Cardinality(Before(rows, last)) \in Nat /\ Cardinality(Before(rows, q)) \in Nat
        BY <1>1, <1>3
      <4>3. QED
        BY <1>4, <4>1, <4>2
    <3>5. QED
      BY <3>4
  <2>3. \A q \in page : ~ Lists!Below(Place(last), Place(q))
    <3>1. ASSUME NEW q \in page, Lists!Below(Place(last), Place(q)) PROVE FALSE
      <4>1. q \in rows /\ last \in rows
        BY <1>3
      <4>2. Cardinality(Before(rows, last)) < Cardinality(Before(rows, q))
        BY <1>1, <3>1, <4>1
      <4>3. QED
        BY <1>1, <2>2, <4>1, <4>2
    <3>2. QED
      BY <3>1
  <2>4. PICK end : end = Lists!LastOf(walk.sort, page)
    OBVIOUS
  <2>5. end \in page /\ \A q \in page : ~ Lists!Below(Place(end), Place(q))
    BY <2>3, <2>4 DEF Lists!LastOf, Place
  <2>6. ASSUME NEW r \in rows, r \notin page PROVE Lists!Below(Place(end), Place(r))
    <3>1. end \in rows /\ end # r
      BY <1>3, <2>5, <2>6
    <3>2. Place(end) # Place(r)
      BY <3>1, SortKeys DEF Place
    <3>3. ~ Lists!Below(Place(r), Place(end))
      <4>1. ASSUME Lists!Below(Place(r), Place(end)) PROVE FALSE
        <5>1. Cardinality(Before(rows, r)) < Cardinality(Before(rows, end))
          BY <1>1, <3>1, <4>1
        <5>2. Cardinality(Before(rows, end)) < Limit
          BY <1>3, <2>5
        <5>3. Cardinality(Before(rows, r)) < Limit
          BY <1>1, <1>4, <3>1, <5>1, <5>2
        <5>4. QED
          BY <1>3, <2>6, <5>3
      <4>2. QED
        BY <4>1
    <3>4. QED
      BY <1>2, <3>1, <3>2, <3>3, BelowIsOrder
  <2>7. QED
    BY <2>4, <2>5, <2>6
<1>7. page \subseteq rows
  BY <1>3
<1>8. QED
  BY <1>5, <1>6, <1>7

LEMMA PageKeepsOnce == ASSUME RowsAreNumbered, ListInv, Lists!ReadPage PROVE ListInv'
<1>1. PICK page : page = Lists!Page(walk.sort, walk.cursor)
  OBVIOUS
<1>2. PICK rows : rows = Lists!After(walk.sort, walk.cursor)
  OBVIOUS
<1>3. PICK more \in BOOLEAN : more <=> Cardinality(rows) > Limit
  OBVIOUS
<1>4. PICK end : end = Lists!LastOf(walk.sort, page)
  OBVIOUS
<1>5. PICK seen : seen = [r \in Item |-> IF r \in page THEN walk.seen[r] + 1 ELSE walk.seen[r]]
  OBVIOUS
<1>6. PICK w1_ : w1_ = [walk EXCEPT !.seen = seen]
  OBVIOUS
<1>7. PICK w2_ : w2_ = [w1_ EXCEPT !.state = IF more THEN "reading" ELSE "over"]
  OBVIOUS
<1>8. /\ walk.state # "over" /\ UNCHANGED <<ext, steady>>
      /\ walk' = [w2_ EXCEPT !.cursor = IF more THEN Place(end) ELSE walk.cursor]
  BY <1>1, <1>2, <1>3, <1>4, <1>5, <1>6, <1>7, ListCardinality DEF Lists!ReadPage, Place, ListInv, ListShape
<1>9. /\ DOMAIN walk' = {"sort", "state", "cursor", "seen"} /\ walk'.sort = walk.sort /\ walk'.seen = seen
      /\ walk'.state = (IF more THEN "reading" ELSE "over")
      /\ walk'.cursor = (IF more THEN Place(end) ELSE walk.cursor)
  BY <1>6, <1>7, <1>8 DEF ListInv, ListShape
<1>10. rows \in SUBSET Item /\ \A r \in Item : r \in rows <=> ext[r].listed /\ ToCome(r)
  BY <1>2 DEF Lists!After, Lists!Listed, ToCome
<1>11. /\ page \subseteq rows
       /\ ~ more => page = rows
       /\ more => end \in page /\ \A r \in rows : r \in page <=> ~ Lists!Below(Place(end), Place(r))
  <2>1. Cardinality(rows) \in Nat /\ Limit \in Nat
    BY <1>10, FS_Subset, FS_CardinalityType DEF RowsAreNumbered
  <2>2. ~ more => Cardinality(rows) <= Limit
    BY <1>3, <2>1
  <2>3. QED
    BY <1>1, <1>2, <1>3, <1>4, <1>10, <2>2, PageIsFirst DEF ListInv
<1>12. \A r \in Item : Place(r)' = Place(r) /\ Place(r) \in Keys(walk.sort)
  BY <1>8, <1>9, SortKeys DEF Place, Lists!SortKey, ListInv
<1>13. ListShape'
  <2>1. walk'.seen \in [Item -> Int]
    BY <1>5, <1>9 DEF ListInv, ListShape
  <2>2. more => walk'.cursor \in Keys(walk'.sort)
    BY <1>9, <1>10, <1>11, <1>12
  <2>3. QED
    BY <1>8, <1>9, <2>1, <2>2 DEF ListInv, ListShape
<1>14. ASSUME NEW r \in steady
       PROVE  walk'.seen[r] = IF walk'.state # "over" /\ ToCome(r)' THEN 0 ELSE 1
  <2>1. r \in Item /\ ext[r].listed /\ walk.seen[r] = (IF ToCome(r) THEN 0 ELSE 1)
    BY <1>8 DEF ListInv, ShownOnce
  <2>2. walk'.seen[r] = IF r \in page THEN walk.seen[r] + 1 ELSE walk.seen[r]
    BY <1>5, <1>9, <2>1
  <2>3. r \in rows <=> ToCome(r)
    BY <1>10, <2>1
  <2>4. CASE ~ more
    BY <1>9, <1>11, <2>1, <2>2, <2>3, <2>4
  <2>5. CASE more
    <3>1. end \in rows /\ end \in Item /\ ToCome(end)
      BY <1>10, <1>11, <2>5
    <3>2. Place(end) # <<>>
      BY <1>12, <3>1 DEF Keys
    <3>3. ToCome(r)' <=> Lists!Below(Place(end), Place(r))
      <4>1. ToCome(r)' <=> walk'.cursor = <<>> \/ Lists!Below(walk'.cursor, Place(r)')
        BY DEF ToCome, Place
      <4>2. QED
        BY <1>9, <1>12, <2>1, <2>5, <3>2, <4>1
    <3>4. Lists!Below(Place(end), Place(r)) => ToCome(r)
      <4>1. CASE walk.cursor = <<>>
        BY <4>1 DEF ToCome
      <4>2. CASE walk.cursor # <<>>
        <5>1. walk.cursor \in Keys(walk.sort) /\ Lists!Below(walk.cursor, Place(end))
          BY <3>1, <4>2 DEF ListInv, ListShape, ToCome, Place
        <5>2. Lists!Below(Place(end), Place(r)) => Lists!Below(walk.cursor, Place(r))
          BY <1>12, <2>1, <3>1, <5>1, BelowIsOrder
        <5>3. QED
          BY <5>2 DEF ToCome, Place
      <4>3. QED
        BY <4>1, <4>2
    <3>5. r \in page <=> ToCome(r) /\ ~ Lists!Below(Place(end), Place(r))
      BY <1>11, <2>3, <2>5
    <3>6. QED
      BY <1>9, <2>1, <2>2, <2>5, <3>3, <3>4, <3>5
  <2>6. QED
    BY <2>4, <2>5
<1>15. ShownOnce'
  BY <1>8, <1>14 DEF ShownOnce, ListInv
<1>16. QED
  BY <1>13, <1>15 DEF ListInv

(* A row that leaves the list or comes to it is no longer a steady one;    *)
(* the others keep their places.                                           *)
LEMMA RelistKeepsOnce == ASSUME RowsAreNumbered, ListInv, NEW q \in Item, Lists!Relist(q) PROVE ListInv'
<1>1. PICK row : row = [ext[q] EXCEPT !.listed = ~ ext[q].listed]
  OBVIOUS
<1>2. /\ ext' = [ext EXCEPT ![q] = row] /\ steady' = steady \ {q} /\ walk' = walk
      /\ ext \in [Item -> ListRow] /\ ext[q] \in ListRow
  BY <1>1 DEF Lists!Relist, ListInv, ListShape
<1>3. row \in ListRow /\ row.rank = ext[q].rank /\ row.at = ext[q].at /\ row.name = ext[q].name /\ row.up = ext[q].up
  BY <1>1, <1>2 DEF ListRow
<1>4. /\ ext' \in [Item -> ListRow]
      /\ \A r \in Item : r # q => ext'[r] = ext[r]
      /\ \A r \in Item : /\ ext'[r].rank = ext[r].rank /\ ext'[r].at = ext[r].at
                         /\ ext'[r].name = ext[r].name /\ ext'[r].up = ext[r].up
  BY <1>2, <1>3
<1>5. ListShape'
  BY <1>2, <1>4 DEF ListInv, ListShape
<1>6. \A r \in Item : ToCome(r)' <=> ToCome(r)
  BY <1>2, <1>4 DEF ToCome, Lists!SortKey
<1>7. ShownOnce'
  BY <1>2, <1>4, <1>6 DEF ShownOnce, ListInv
<1>8. QED
  BY <1>5, <1>7 DEF ListInv

(* A row that is written to becomes the newest, which moves it in a list   *)
(* by the time of the last change and in no other.                         *)
LEMMA TouchKeepsOnce == ASSUME RowsAreNumbered, ListInv, NEW q \in Item, Lists!Touch(q) PROVE ListInv'
<1>1. PICK most : most = Lists!Max({ext[r].up : r \in Item})
  OBVIOUS
<1>2. /\ ext' = [ext EXCEPT ![q].up = 1 + most] /\ walk' = walk
      /\ steady' = (IF walk.sort = "UPDATED" THEN steady \ {q} ELSE steady)
      /\ ext \in [Item -> ListRow] /\ ext[q] \in ListRow
  BY <1>1 DEF Lists!Touch, ListInv, ListShape
<1>3. most \in Int /\ \A r \in Item : ext[r].up <= most
  <2> DEFINE ups == {ext[r].up : r \in Item}
  <2>1. ups \subseteq Int
    BY <1>2 DEF ListRow
  <2>2. PICK b \in Item : \A r \in Item : ext[r].up <= ext[b].up
    BY DEF ListInv, ListShape
  <2>3. ext[b].up \in ups /\ \A y \in ups : ext[b].up >= y
    BY <2>1, <2>2
  <2> HIDE DEF ups
  <2>4. most \in ups /\ \A y \in ups : most >= y
    <3>1. most = CHOOSE x \in ups : \A y \in ups : x >= y
      BY <1>1 DEF Lists!Max, ups
    <3>2. QED
      BY <2>3, <3>1
  <2>5. QED
    BY <2>1, <2>4 DEF ups
<1>4. PICK row : row = [ext[q] EXCEPT !.up = 1 + most]
  OBVIOUS
<1>5. row \in ListRow /\ row.up = 1 + most /\ row.rank = ext[q].rank /\ row.at = ext[q].at
      /\ row.name = ext[q].name /\ row.listed = ext[q].listed
  BY <1>2, <1>3, <1>4 DEF ListRow
<1>6. ext' = [ext EXCEPT ![q] = row]
  BY <1>2, <1>4
<1>7. /\ ext' \in [Item -> ListRow] /\ ext'[q] = row
      /\ \A r \in Item : r # q => ext'[r] = ext[r]
      /\ \A r \in Item : /\ ext'[r].rank = ext[r].rank /\ ext'[r].at = ext[r].at
                         /\ ext'[r].name = ext[r].name /\ ext'[r].listed = ext[r].listed
  BY <1>2, <1>5, <1>6
<1>8. \A r \in Item : ext'[r].up <= ext'[q].up
  <2>1. ASSUME NEW r \in Item PROVE ext'[r].up <= ext'[q].up
    <3>1. ext[r].up <= most /\ ext[r].up \in Int /\ ext'[q].up = 1 + most
      BY <1>2, <1>3, <1>5, <1>7 DEF ListRow
    <3>2. CASE r = q
      BY <1>3, <3>1, <3>2
    <3>3. CASE r # q
      BY <1>3, <1>7, <3>1, <3>3
    <3>4. QED
      BY <3>2, <3>3
  <2>2. QED
    BY <2>1
<1>9. ListShape'
  BY <1>2, <1>7, <1>8 DEF ListInv, ListShape
<1>10. \A r \in Item : r # q \/ walk.sort # "UPDATED" => (ToCome(r)' <=> ToCome(r))
  <2>1. ASSUME NEW r \in Item, r # q \/ walk.sort # "UPDATED"
        PROVE  Lists!SortKey(walk.sort, r)' = Lists!SortKey(walk.sort, r)
    <3>1. CASE r # q
      BY <1>2, <1>7, <3>1 DEF Lists!SortKey
    <3>2. CASE walk.sort # "UPDATED"
      <4>1. walk.sort \in {"FEATURED", "NEWEST", "NAME_ASC", "NAME_DESC"}
        BY <3>2 DEF ListInv, ListShape, Lists!Sorts
      <4>2. QED
        BY <1>2, <1>7, <4>1 DEF Lists!SortKey
    <3>3. QED
      BY <2>1, <3>1, <3>2
  <2>2. QED
    BY <1>2, <2>1 DEF ToCome
<1>11. ShownOnce'
  <2>1. ASSUME NEW r \in steady'
        PROVE  /\ r \in Item /\ ext'[r].listed
               /\ walk'.seen[r] = IF walk'.state # "over" /\ ToCome(r)' THEN 0 ELSE 1
    <3>1. r \in steady /\ (r # q \/ walk.sort # "UPDATED")
      BY <1>2, <2>1
    <3>2. r \in Item /\ ext[r].listed /\ walk.seen[r] = IF walk.state # "over" /\ ToCome(r) THEN 0 ELSE 1
      BY <3>1 DEF ListInv, ShownOnce
    <3>3. ext'[r].listed = ext[r].listed
      BY <1>7, <3>2
    <3>4. ToCome(r)' <=> ToCome(r)
      BY <1>10, <3>1, <3>2
    <3>5. QED
      BY <1>2, <3>2, <3>3, <3>4
  <2>2. QED
    BY <2>1 DEF ShownOnce
<1>12. QED
  BY <1>9, <1>11 DEF ListInv

LEMMA ListsBegin == ASSUME RowsAreNumbered, Lists!CatalogueInit PROVE ListInv
<1>1. ext \in [Item -> {[rank |-> a, at |-> b, name |-> a, up |-> 0, listed |-> l] :
                        a \in Values, b \in Values, l \in BOOLEAN}]
  BY DEF Lists!CatalogueInit
<1>2. \A r \in Item : ext[r] \in ListRow /\ ext[r].up = 0
  BY <1>1 DEF RowsAreNumbered, ListRow
<1>3. ext \in [Item -> ListRow]
  BY <1>1, <1>2
<1>4. PICK sort \in Lists!Sorts : walk = [sort |-> sort, state |-> "new", cursor |-> <<>>, seen |-> [r \in Item |-> 0]]
  BY DEF Lists!CatalogueInit
<1>5. /\ DOMAIN walk = {"sort", "state", "cursor", "seen"} /\ walk.sort \in Lists!Sorts
      /\ walk.state = "new" /\ walk.cursor = <<>> /\ walk.seen = [r \in Item |-> 0]
  BY <1>4
<1>6. \E b \in Item : \A q \in Item : ext[q].up <= ext[b].up
  BY <1>2 DEF RowsAreNumbered
<1>7. ListShape
  BY <1>3, <1>5, <1>6 DEF ListShape
<1>8. steady = {r \in Item : ext[r].listed}
  BY DEF Lists!CatalogueInit
<1>9. ShownOnce
  BY <1>5, <1>8 DEF ShownOnce, ToCome
<1>10. QED
  BY <1>7, <1>9 DEF ListInv

LEMMA ListsKeepOnce == ASSUME RowsAreNumbered, ListInv, Lists!CatalogueNext PROVE ListInv'
<1>1. CASE Lists!ReadPage
  BY <1>1, PageKeepsOnce
<1>2. CASE \E r \in Item : Lists!Relist(r) \/ Lists!Touch(r)
  BY <1>2, RelistKeepsOnce, TouchKeepsOnce
<1>3. CASE UNCHANGED <<ext, walk, steady>>
  BY <1>3 DEF ListInv, ListShape, ShownOnce, ToCome, Lists!SortKey
<1>4. CASE \E status \in Lists!Statuses \cup {None}, items \in (SUBSET Item) \cup {None} :
             Lists!BeginCollection(status, items)
  BY <1>3, <1>4 DEF Lists!BeginCollection
<1>5. CASE Lists!UpdateCollection
  BY <1>3, <1>5 DEF Lists!UpdateCollection
<1>6. CASE \E qr \in BOOLEAN : Lists!UpdatePaymentSettings(qr)
  BY <1>3, <1>6 DEF Lists!UpdatePaymentSettings
<1>7. QED
  BY <1>1, <1>2, <1>4, <1>5, <1>6 DEF Lists!CatalogueNext

LEMMA ListInvShowsRows == ASSUME ListInv PROVE Lists!SteadyRowsSeenOnce
<1>1. ASSUME NEW r \in steady PROVE walk.seen[r] <= 1 /\ (walk.state = "over" => walk.seen[r] = 1)
  <2>1. walk.seen[r] = IF walk.state # "over" /\ ToCome(r) THEN 0 ELSE 1
    BY DEF ListInv, ShownOnce
  <2>2. QED
    BY <2>1
<1>2. QED
  BY <1>1 DEF Lists!SteadyRowsSeenOnce

(* Every version up to the present one has its one row in the history.     *)
ShelfInv ==
  /\ pay.version \in Nat /\ \A h \in kept : h.version \in 1..pay.version
  /\ \A v \in 1..pay.version : \E x : {h \in kept : h.version = v} = {x}
  /\ pay.version > 0 => pay \in kept

LEMMA ShelfBegins == ASSUME Shelf!CatalogueInit PROVE ShelfInv
<1>1. pay = [version |-> 0, bank |-> 0, qr |-> 0] /\ kept = {}
  BY DEF Shelf!CatalogueInit
<1>2. pay.version = 0
  BY <1>1
<1>3. QED
  BY <1>1, <1>2 DEF ShelfInv

LEMMA ShelfKeepsSettings == ASSUME ShelfInv, Shelf!CatalogueNext PROVE ShelfInv'
<1>1. CASE UNCHANGED <<pay, kept>>
  BY <1>1 DEF ShelfInv
<1>2. ASSUME NEW qr \in BOOLEAN, Shelf!UpdatePaymentSettings(qr) PROVE ShelfInv'
  <2>1. PICK v : v = pay.version + 1
    OBVIOUS
  <2>2. PICK new : new = [version |-> v, bank |-> v, qr |-> IF qr THEN v ELSE pay.qr]
    OBVIOUS
  <2>3. pay' = new /\ kept' = kept \cup {new}
    BY <1>2, <2>1, <2>2 DEF Shelf!UpdatePaymentSettings
  <2>4. new.version = v
    BY <2>2
  <2>5. v \in Nat /\ v > 0 /\ \A u \in 1..v : u = v \/ u \in 1..pay.version
    BY <2>1 DEF ShelfInv
  <2>6. \A h \in kept' : h.version \in 1..pay'.version
    BY <2>1, <2>3, <2>4, <2>5 DEF ShelfInv
  <2>7. ASSUME NEW u \in 1..v PROVE \E x : {h \in kept' : h.version = u} = {x}
    <3>1. CASE u = v
      <4>1. \A h \in kept : h.version # v
        BY <2>1 DEF ShelfInv
      <4>2. {h \in kept' : h.version = u} = {new}
        BY <2>3, <2>4, <3>1, <4>1
      <4>3. QED
        BY <4>2
    <3>2. CASE u # v
      <4>1. {h \in kept' : h.version = u} = {h \in kept : h.version = u}
        BY <2>3, <2>4, <3>2
      <4>2. QED
        BY <2>5, <3>2, <4>1 DEF ShelfInv
    <3>3. QED
      BY <3>1, <3>2
  <2>8. QED
    BY <2>3, <2>4, <2>5, <2>6, <2>7 DEF ShelfInv
<1>3. CASE Shelf!ReadPage
  BY <1>1, <1>3 DEF Shelf!ReadPage
<1>4. CASE \E r \in Wares : Shelf!Relist(r) \/ Shelf!Touch(r)
  BY <1>1, <1>4 DEF Shelf!Relist, Shelf!Touch
<1>5. CASE \E status \in Shelf!Statuses \cup {None}, items \in (SUBSET Wares) \cup {None} :
             Shelf!BeginCollection(status, items)
  BY <1>1, <1>5 DEF Shelf!BeginCollection
<1>6. CASE Shelf!UpdateCollection
  BY <1>1, <1>6 DEF Shelf!UpdateCollection
<1>7. QED
  BY <1>2, <1>3, <1>4, <1>5, <1>6 DEF Shelf!CatalogueNext

LEMMA ShelfInvKeepsSettings == ASSUME ShelfInv PROVE Shelf!SettingsAreKept
<1>1. ASSUME NEW v \in 1..pay.version PROVE Shelf!Cardinality({h \in kept : h.version = v}) = 1
  <2>1. PICK x : {h \in kept : h.version = v} = {x}
    BY DEF ShelfInv
  <2>2. Shelf!Cardinality({x}) = Cardinality({x})
    BY DEF Shelf!Cardinality, Cardinality
  <2>3. QED
    BY <2>1, <2>2, FS_Singleton
<1>2. QED
  BY <1>1 DEF Shelf!SettingsAreKept, ShelfInv

(* The lists that a reader goes through and the payment settings.          *)
ListsSpec ==
  /\ (area = "lists" /\ Lists!CatalogueInit) \/ (area = "shelf" /\ Shelf!CatalogueInit)
  /\ [][/\ (area = "lists" /\ Lists!CatalogueNext) \/ (area = "shelf" /\ Shelf!CatalogueNext)
        /\ UNCHANGED area]_<<area, listVars>>

AreaInv ==
  /\ area \in {"lists", "shelf"}
  /\ area = "lists" => ListInv
  /\ area = "shelf" => ShelfInv

(* Whoever reads all pages of a list, in any of its orders, has been shown *)
(* every row that kept its place exactly once, whatever became of the      *)
(* others meanwhile; every version of the payment settings has its one row *)
(* in their history.                                                       *)
THEOREM ListsStayWhole == ASSUME RowsAreNumbered PROVE ListsSpec => []ListsAreWhole
<1>1. ((area = "lists" /\ Lists!CatalogueInit) \/ (area = "shelf" /\ Shelf!CatalogueInit)) => AreaInv
  BY ListsBegin, ShelfBegins DEF AreaInv
<1>2. ASSUME AreaInv, [/\ (area = "lists" /\ Lists!CatalogueNext) \/ (area = "shelf" /\ Shelf!CatalogueNext)
                       /\ UNCHANGED area]_<<area, listVars>>
      PROVE  AreaInv'
  <2>1. CASE area = "lists" /\ Lists!CatalogueNext /\ UNCHANGED area
    BY <1>2, <2>1, ListsKeepOnce DEF AreaInv
  <2>2. CASE area = "shelf" /\ Shelf!CatalogueNext /\ UNCHANGED area
    BY <1>2, <2>2, ShelfKeepsSettings DEF AreaInv
  <2>3. CASE UNCHANGED <<area, listVars>>
    BY <1>2, <2>3 DEF AreaInv, ListInv, ListShape, ShownOnce, ToCome, Lists!SortKey, ShelfInv, listVars
  <2>4. QED
    BY <1>2, <2>1, <2>2, <2>3
<1>3. AreaInv => ListsAreWhole
  BY ListInvShowsRows, ShelfInvKeepsSettings DEF AreaInv, ListsAreWhole
<1>4. QED
  BY <1>1, <1>2, <1>3, PTL DEF ListsSpec
=============================================================================
