---------------------------- MODULE RequestPipeline ----------------------------
(***************************************************************************)
(* What goes around a handler, from outside in, in the order in which      *)
(* app.module.ts and audit.module.ts install it: the telemetry, the        *)
(* transaction of a school's request, the Idempotency-Key, the limit of    *)
(* the response and the audit row. Idempotency.tla takes a handler for one *)
(* step, as it is on the platform host; here the transaction of a school's *)
(* request ends after the key has its answer.                              *)
(***************************************************************************)
EXTENDS Integers, FiniteSets

CONSTANTS
  Request,  \* requests that carry one key and one payload
  Scoped,   \* do they come to a school's host (or to the platform's)?
  Faults    \* bound: handlers, inserts, commits that fail, ends of a process

VARIABLES
  key,      \* the key in Redis
  req,      \* req[r]: where the request is, and what its transaction holds
  applied,  \* the mutation, once for each request that committed it
  audited,  \* audit rows that are there: <<request, success>>
  metrics,  \* requests counted as "ok" or "error" by the telemetry
  faults

pipeVars == <<key, req, applied, audited, metrics, faults>>

Fresh == [pc |-> "new", wrote |-> FALSE, row |-> "none", broken |-> FALSE, told |-> "none"]

PipelineTypeOK ==
  /\ key \in {"ABSENT", "PROCESSING", "COMPLETED"}
  /\ req \in [Request -> [pc : {"new", "handle", "audit", "size", "complete", "release", "end", "over"},
                          wrote : BOOLEAN, row : {"none", "success", "failure"},
                          broken : BOOLEAN, told : {"none", "success", "replay", "error"}]]
  /\ applied \subseteq Request /\ audited \subseteq Request \X {"success", "failure"}
  /\ metrics \in [Request -> {"none", "ok", "error"}] /\ faults \in 0..Faults

PipelineInit ==
  /\ key = "ABSENT" /\ req = [r \in Request |-> Fresh]
  /\ applied = {} /\ audited = {} /\ metrics = [r \in Request |-> "none"] /\ faults = 0

Goes(r, pc) == req' = [req EXCEPT ![r].pc = pc]
Fault == faults < Faults /\ faults' = faults + 1
-----------------------------------------------------------------------------
(* A key that is taken is answered with 409 or with the answer it has.     *)
Reserve(r) ==
  /\ req[r].pc = "new"
  /\ IF key = "ABSENT" THEN key' = "PROCESSING" /\ Goes(r, "handle")
     ELSE /\ req' = [req EXCEPT ![r].pc = "end", ![r].told = IF key = "COMPLETED" THEN "replay" ELSE "error"]
          /\ UNCHANGED key
  /\ UNCHANGED <<applied, audited, metrics, faults>>

(* The handler writes into the transaction, or at once without one.        *)
Handle(r) ==
  /\ req[r].pc = "handle"
  /\ req' = [req EXCEPT ![r].pc = "audit", ![r].wrote = TRUE, ![r].row = "success"]
  /\ applied' = IF Scoped THEN applied ELSE applied \cup {r}
  /\ UNCHANGED <<key, audited, metrics, faults>>
HandlerFails(r) ==
  /\ req[r].pc = "handle" /\ Fault
  /\ req' = [req EXCEPT ![r].pc = "audit", ![r].row = "failure", ![r].told = "error"]
  /\ UNCHANGED <<key, applied, audited, metrics>>

(* AuditInterceptor waits for the row, of a success and of a failure.      *)
AfterAudit(r) == IF req[r].told = "error" THEN "release" ELSE "size"
Audit(r) ==
  /\ req[r].pc = "audit" /\ Goes(r, AfterAudit(r))
  /\ audited' = IF Scoped THEN audited ELSE audited \cup {<<r, req[r].row>>}
  /\ UNCHANGED <<key, applied, metrics, faults>>
(* Faulty variant: the insert that failed leaves the transaction usable.   *)
SwallowAudit(r) ==
  /\ req[r].pc = "audit" /\ Fault
  /\ req' = [req EXCEPT ![r].pc = AfterAudit(r), ![r].row = "none"]
  /\ UNCHANGED <<key, applied, audited, metrics>>
(* AuditService.log reports no failure of its insert; but PostgreSQL then  *)
(* refuses whatever the transaction still does, its commit too.            *)
AuditFails(r) ==
  /\ req[r].pc = "audit" /\ Fault
  /\ req' = [req EXCEPT ![r].pc = AfterAudit(r), ![r].row = "none", ![r].broken = Scoped]
  /\ UNCHANGED <<key, applied, audited, metrics>>

(* ResponseSizeInterceptor, outside of the audit.                          *)
FitsSize(r) ==
  /\ req[r].pc = "size" /\ Goes(r, "complete")
  /\ UNCHANGED <<key, applied, audited, metrics, faults>>
TooLarge(r) ==
  /\ req[r].pc = "size" /\ Fault
  /\ req' = [req EXCEPT ![r].pc = "release", ![r].told = "error"]
  /\ UNCHANGED <<key, applied, audited, metrics>>

Complete(r) ==
  /\ req[r].pc = "complete" /\ key' = "COMPLETED" /\ Goes(r, "end")
  /\ UNCHANGED <<applied, audited, metrics, faults>>
Release(r) ==
  /\ req[r].pc = "release" /\ key' = "ABSENT" /\ Goes(r, "end")
  /\ UNCHANGED <<applied, audited, metrics, faults>>

(* runInTenantTransaction: the response is there, or the error.            *)
Ends(r, told, ok) ==
  /\ req' = [req EXCEPT ![r].pc = "over", ![r].told = told]
  /\ metrics' = [metrics EXCEPT ![r] = ok]
Commit(r) ==
  /\ req[r].pc = "end" /\ req[r].told # "error" /\ ~ req[r].broken
  /\ Ends(r, IF req[r].told = "replay" THEN "replay" ELSE "success", "ok")
  /\ applied' = IF req[r].wrote THEN applied \cup {r} ELSE applied
  /\ audited' = IF req[r].wrote /\ req[r].row # "none" THEN audited \cup {<<r, req[r].row>>} ELSE audited
  /\ UNCHANGED <<key, faults>>
Rollback(r) ==
  /\ req[r].pc = "end" /\ (req[r].told = "error" \/ req[r].broken)
  /\ Ends(r, "error", "error")
  /\ UNCHANGED <<key, applied, audited, faults>>
(* The 30 seconds of the transaction are over, or its connection is.       *)
CommitFails(r) ==
  /\ Scoped /\ req[r].pc = "end" /\ req[r].told # "error" /\ Fault
  /\ Ends(r, "error", "error")
  /\ UNCHANGED <<key, applied, audited>>
(* A process that ends takes its transactions with it.                     *)
Dies(r) ==
  /\ req[r].pc \notin {"new", "over"} /\ Fault /\ Goes(r, "over")
  /\ UNCHANGED <<key, applied, audited, metrics>>

PipelineNext ==
  \E r \in Request :
    \/ Reserve(r) \/ Handle(r) \/ HandlerFails(r) \/ Audit(r) \/ AuditFails(r)
    \/ FitsSize(r) \/ TooLarge(r) \/ Complete(r) \/ Release(r)
    \/ Commit(r) \/ Rollback(r) \/ CommitFails(r) \/ Dies(r)
-----------------------------------------------------------------------------
(* No mutation of a school is there without its audit row, though the      *)
(* logger ignores its own failures: both are in one transaction            *)
(* (audit.interceptor.ts:56-77, tenant-database.interceptor.ts:10-14).     *)
AppliedIsAudited == Scoped => \A r \in applied : <<r, "success">> \in audited

(* A success that a request or a replay reports was counted as one, and    *)
(* what a request reported itself is there.                                *)
ReportedIsApplied == \A r \in Request :
  req[r].told = "success" /\ req[r].pc = "over" => r \in applied /\ metrics[r] = "ok"

(* What audit.interceptor.ts:12-14 says: "this interceptor is the safety   *)
(* net that guarantees nothing slips through unobserved". The row of a     *)
(* failed request is rolled back with it.                                  *)
FailureIsAudited == \A r \in Request :
  req[r].pc = "over" /\ req[r].told = "error" /\ req[r].row = "failure" => <<r, "failure">> \in audited

(* What docs/api-idempotency.md:3-4 and 14-16 say: a mutation is "safely   *)
(* retryable", a replay returns the original response, and a failed one    *)
(* releases the key. The key has its answer before the transaction has     *)
(* committed.                                                              *)
ReplayedIsApplied == \A r \in Request :
  req[r].pc = "over" /\ req[r].told = "replay" => applied # {}
=============================================================================
