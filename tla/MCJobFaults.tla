----------------------------- MODULE MCJobFaults -----------------------------
(* Two small instances of LifecycleJobs in one state graph: an upgrade and *)
(* a rollback with stalls of live workers, and a purge and an install with *)
(* crashes and a faulty API.  area says which of them a behaviour is of;   *)
(* the jobs of the other are not submitted.                                *)
EXTENDS LifecycleJobs, TLC

CONSTANTS i1, v1, v2, w1, w2, j1, j2, j3, j4

VARIABLE area

OneInstallation == [j \in Job |-> i1]
ToV2 == [j \in Job |-> v2]
Commands == j1 :> "UPGRADE" @@ j2 :> "ROLLBACK" @@ j3 :> "PURGE_INSTALLATION" @@ j4 :> "INSTALL"

(* The configuration's own constants are those of the crashes.             *)
Stalls == INSTANCE LifecycleJobs WITH
  LiveStalls <- TRUE, ApiFaults <- FALSE, CrashAttempts <- {}, MaxCrashes <- 0

(* The upgrade leaves v1; neither a purge nor an install asks for the      *)
(* version to go back to.                                                  *)
MCInit ==
  /\ Init
  /\ \/ area = "stalls" /\ installation[i1].version = v1
     \/ area = "crashes" /\ installation[i1].previous = NoVersion

NotSubmitted(js) == \A j \in js : submission'[j].pc = "idle"

MCNext ==
  \/ area = "stalls" /\ Stalls!Next /\ NotSubmitted({j3, j4}) /\ UNCHANGED area
  \/ area = "crashes" /\ Next /\ NotSubmitted({j1, j2}) /\ UNCHANGED area

MCSpec == MCInit /\ [][MCNext]_<<area, vars>>

WorkerSymmetry == Permutations(Worker)
=============================================================================
