------------------------------ MODULE MCSettles ------------------------------
(* What is queued settles: a small instance of LifecycleJobs and one of    *)
(* SchoolDeletion in one state graph.  area says which of them a behaviour *)
(* is of; the other stays in its initial state, in which no fair action is *)
(* enabled.                                                                *)
EXTENDS LifecycleJobs

CONSTANTS i1, v2, w1, w2, j1, j2,
          Request, Actor, Handler, Object, Late, Nil, r1, a1, a2, a3, h1, o2

VARIABLES area, dSchool, dRequest, dHandler, dHold, dHolds, dObjects, dBull, dWorker, dCrashes,
          dPurged, dLate

OneInstallation == [j \in Job |-> i1]
ToV2 == [j \in Job |-> v2]
ActivateUninstall == [j \in Job |-> IF j = j1 THEN "ACTIVATE" ELSE "UNINSTALL"]

Deletion == INSTANCE SchoolDeletion WITH
  school <- dSchool, request <- dRequest, handler <- dHandler, hold <- dHold, holds <- dHolds,
  objects <- dObjects, bull <- dBull, worker <- dWorker, crashes <- dCrashes, purged <- dPurged,
  late <- dLate, HoldChanges <- 1, LiveStalls <- FALSE, ApiFaults <- TRUE, WorkerFaults <- TRUE,
  CrashAttempts <- {1, 2}, MaxCrashes <- 1, Worker <- {w1}

dVars == <<dSchool, dRequest, dHandler, dHold, dHolds, dObjects, dBull, dWorker, dCrashes,
           dPurged, dLate>>

MCInit ==
  /\ Init /\ Deletion!Init
  /\ \/ area = "jobs"
     \/ /\ area = "deletion"
        /\ installation = [i \in Installation |-> CHOOSE row \in InitialRows : TRUE]

MCNext ==
  \/ area = "jobs" /\ Next /\ UNCHANGED <<area, dVars>>
  \/ area = "deletion" /\ Deletion!Next /\ UNCHANGED <<area, vars>>

MCSpec == MCInit /\ [][MCNext]_<<area, vars, dVars>> /\ Fairness /\ Deletion!Fairness

(* Every lifecycle job ends SUCCEEDED or FAILED, and every deletion whose  *)
(* job is queued COMPLETED or FAILED.                                      *)
AllSettle == Settles /\ Deletion!DeletionSettles
=============================================================================
