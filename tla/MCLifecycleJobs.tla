--------------------------- MODULE MCLifecycleJobs ---------------------------
(* Small instances of LifecycleJobs: one or two commands on one            *)
(* installation, chosen by the configuration.                              *)
EXTENDS LifecycleJobs, TLC

CONSTANTS i1, v1, v2, w1, w2, j1, j2

OneInstallation == [j \in Job |-> i1]

ToV2 == [j \in Job |-> v2]

UpgradeRollback == [j \in Job |-> IF j = j1 THEN "UPGRADE" ELSE "ROLLBACK"]

PurgeInstall == [j \in Job |-> IF j = j1 THEN "PURGE_INSTALLATION" ELSE "INSTALL"]

ActivateUninstall == [j \in Job |-> IF j = j1 THEN "ACTIVATE" ELSE "UNINSTALL"]

WorkerSymmetry == Permutations(Worker)
=============================================================================
