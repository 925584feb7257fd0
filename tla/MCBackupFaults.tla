--------------------------- MODULE MCBackupFaults ----------------------------
(* Exports and restores under failures: a small instance of BackupExports  *)
(* and one of RestoreApproval in one state graph.  area says which of them *)
(* a behaviour is of; the other stays in its initial state, in which no    *)
(* fair action is enabled.                                                 *)
EXTENDS BackupExports

CONSTANTS h1, w1, w2, s1, s2, s3, a1, a2, a3, e1, Actor, Edit, Nil

VARIABLES area, rRequest, rSubmitter, rSource, rContent, rSafety, rHandler, rBull, rWorker,
          rCrashes, rSubmitted, rApprovers, rRestored

RestoreRun == INSTANCE RestoreApproval WITH
  request <- rRequest, submitter <- rSubmitter, source <- rSource, content <- rContent,
  safety <- rSafety, handler <- rHandler, bull <- rBull, worker <- rWorker,
  crashes <- rCrashes, submitted <- rSubmitted, approvers <- rApprovers,
  restored <- rRestored,
  Stallable <- {}, Crashable <- {"execute"}, ApiFaults <- TRUE, WorkerFaults <- TRUE

rVars == <<rRequest, rSubmitter, rSource, rContent, rSafety, rHandler, rBull, rWorker, rCrashes,
           rSubmitted, rApprovers, rRestored>>

MCInit == area \in {"export", "restore"} /\ Init /\ RestoreRun!Init

MCNext ==
  \/ area = "export" /\ Next /\ UNCHANGED <<area, rVars>>
  \/ area = "restore" /\ RestoreRun!Next /\ UNCHANGED <<area, vars>>

MCSpec == MCInit /\ [][MCNext]_<<area, vars, rVars>> /\ Fairness /\ RestoreRun!Fairness

(* An export that was requested is taken up, an export or a restore that   *)
(* has started settles, and an export that expired is deleted in the end   *)
(* unless a hold keeps it.                                                 *)
BackupsSettle == RequestedIsExecuted /\ ExportSettles /\ ExpiryHappens /\ RestoreRun!RestoreSettles
=============================================================================
