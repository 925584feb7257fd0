-------------------------------- MODULE Rollout --------------------------------
(***************************************************************************)
(* The waves in which schools get a published version, and the scheduler   *)
(* that upgrades or notifies them every six hours (setRollout in           *)
(* platform/extensions.service.ts, platform/extension-update.service.ts).  *)
(***************************************************************************)
EXTENDS Integers, FiniteSets

CONSTANTS
  School,
  Group,        \* Group[s]: rolloutGroup of its installation
  Percentile,   \* Percentile[s]: its bucket, a hash modulo 100
  Policy,       \* Policy[s]: updatePolicy
  Threshold,    \* EXTENSION_ROLLOUT_PAUSE_FAILURES
  Edits,        \* bound: changes of the rollout, rollbacks
  None

VARIABLES
  version,  \* the published version: its wave, and whether it is paused
  on,       \* on[s]: does the school run the version?
  told,     \* told[s]: availableVersionId is the version
  job,      \* job[s]: the job automatic-upgrade:installation:version
  failed,   \* upgrades that failed within six hours
  scan,     \* the scan that runs: what it read, whom it has still to visit
  edit,     \* the operator's request: what it read
  edits,
  moved,    \* history: was the stage of a paused rollout changed without resuming it?
  back      \* back[s]: history: did the school roll back, and was it upgraded again?

rolloutVars == <<version, on, told, job, failed, scan, edit, edits, moved, back>>

Stages == {"INTERNAL", "PILOT", "PERCENT_5", "PERCENT_25", "FULL"}
NoScan == [state |-> "off", left |-> {}, stage |-> "INTERNAL"]
NoEdit == [to |-> None, resume |-> FALSE]

RolloutTypeOK ==
  /\ version \in [stage : Stages, paused : BOOLEAN]
  /\ on \in [School -> BOOLEAN] /\ told \in [School -> BOOLEAN]
  /\ job \in [School -> {"none", "QUEUED", "SUCCEEDED", "FAILED"}]
  /\ failed \in 0..Cardinality(School)
  /\ scan \in [state : {"off", "read", "go"}, left : SUBSET School, stage : Stages]
  /\ edit \in [to : Stages \cup {None}, resume : BOOLEAN]
  /\ edits \in 0..Edits
  /\ moved \in BOOLEAN /\ back \in [School -> {"no", "yes", "upgraded"}]

RolloutInit ==
  /\ version = [stage |-> "INTERNAL", paused |-> FALSE]
  /\ on = [s \in School |-> FALSE] /\ told = [s \in School |-> FALSE]
  /\ job = [s \in School |-> "none"] /\ failed = 0
  /\ scan = NoScan /\ edit = NoEdit /\ edits = 0
  /\ moved = FALSE /\ back = [s \in School |-> "no"]
-----------------------------------------------------------------------------
(* setRollout: the row is read, then the stage is written; only a request  *)
(* that resumes it may change the stage of a paused rollout.               *)
BeginEdit(to, resume) ==
  /\ edits < Edits /\ edit = NoEdit /\ (version.paused => resume)
  /\ edit' = [to |-> to, resume |-> resume] /\ edits' = edits + 1
  /\ UNCHANGED <<version, on, told, job, failed, scan, moved, back>>
SetRollout ==
  /\ edit # NoEdit /\ edit' = NoEdit
  /\ version' = [stage |-> edit.to, paused |-> version.paused /\ ~ edit.resume]
  /\ moved' = (moved \/ (version.paused /\ ~ edit.resume))
  /\ UNCHANGED <<on, told, job, failed, scan, edits, back>>
-----------------------------------------------------------------------------
(* run: every installation and its newest version are read at once.        *)
BeginScan ==
  /\ scan = NoScan
  /\ scan' = [state |-> IF version.paused THEN "off" ELSE "read", stage |-> version.stage,
              left |-> IF version.paused THEN {} ELSE {s \in School : ~ on[s]}]
  /\ UNCHANGED <<version, on, told, job, failed, edit, edits, moved, back>>

(* targetAvailable: too many failed upgrades pause the rollout.            *)
TargetAvailable ==
  /\ scan.state = "read"
  /\ IF failed >= Threshold
     THEN version' = [version EXCEPT !.paused = TRUE] /\ scan' = NoScan
     ELSE scan' = [scan EXCEPT !.state = "go"] /\ UNCHANGED version
  /\ UNCHANGED <<on, told, job, failed, edit, edits, moved, back>>

InRollout(s, stage) ==
  \/ stage = "FULL"
  \/ Group[s] = "INTERNAL"
  \/ Group[s] = "PILOT" /\ stage # "INTERNAL"
  \/ stage = "PERCENT_5" /\ Percentile[s] < 5
  \/ stage = "PERCENT_25" /\ Percentile[s] < 25

Visited(s) == scan' = IF scan.left = {s} THEN NoScan ELSE [scan EXCEPT !.left = @ \ {s}]
Skip(s) ==
  /\ scan.state = "go" /\ s \in scan.left /\ ~ InRollout(s, scan.stage) /\ Visited(s)
  /\ UNCHANGED <<version, on, told, job, failed, edit, edits, moved, back>>

(* Faulty variant: a new job for every scan.                               *)
SubmitAgain(s) ==
  /\ scan.state = "go" /\ s \in scan.left /\ InRollout(s, scan.stage) /\ Policy[s] = "AUTOMATIC"
  /\ Visited(s)
  /\ job' = [job EXCEPT ![s] = "QUEUED"]
  /\ UNCHANGED <<version, on, told, failed, edit, edits, moved, back>>
(* A version that asks for no new permission is installed by a job; the    *)
(* job of an earlier scan is returned as it is, whatever became of it.     *)
Submit(s) ==
  /\ scan.state = "go" /\ s \in scan.left /\ InRollout(s, scan.stage) /\ Policy[s] = "AUTOMATIC"
  /\ Visited(s)
  /\ job' = [job EXCEPT ![s] = IF @ = "none" THEN "QUEUED" ELSE @]
  /\ UNCHANGED <<version, on, told, failed, edit, edits, moved, back>>
(* The school is told instead, if it does not want to be upgraded, or the  *)
(* job was refused (its quota).                                            *)
Notify(s) ==
  /\ scan.state = "go" /\ s \in scan.left /\ InRollout(s, scan.stage) /\ Visited(s)
  /\ Policy[s] = "AUTOMATIC" => job[s] = "none"
  /\ told' = [told EXCEPT ![s] = TRUE]
  /\ UNCHANGED <<version, on, job, failed, edit, edits, moved, back>>
-----------------------------------------------------------------------------
Upgrade(s) ==
  /\ job[s] = "QUEUED" /\ job' = [job EXCEPT ![s] = "SUCCEEDED"]
  /\ on' = [on EXCEPT ![s] = TRUE] /\ told' = [told EXCEPT ![s] = FALSE]
  /\ back' = IF back[s] = "yes" THEN [back EXCEPT ![s] = "upgraded"] ELSE back
  /\ UNCHANGED <<version, failed, scan, edit, edits, moved>>
FailUpgrade(s) ==
  /\ job[s] = "QUEUED" /\ job' = [job EXCEPT ![s] = "FAILED"]
  /\ failed' = failed + 1
  /\ UNCHANGED <<version, on, told, scan, edit, edits, moved, back>>
(* The count goes back six hours, as far as the next scan.                 *)
FailuresAge ==
  /\ failed > 0 /\ failed' = 0
  /\ UNCHANGED <<version, on, told, job, scan, edit, edits, moved, back>>
(* The school goes back to the version it had.                             *)
RollBack(s) ==
  /\ on[s] /\ edits < Edits /\ edits' = edits + 1
  /\ on' = [on EXCEPT ![s] = FALSE] /\ back' = [back EXCEPT ![s] = "yes"]
  /\ UNCHANGED <<version, told, job, failed, scan, edit, moved>>

RolloutNext ==
  \/ \E to \in Stages, resume \in BOOLEAN : BeginEdit(to, resume)
  \/ SetRollout \/ BeginScan \/ TargetAvailable
  \/ \E s \in School : Skip(s) \/ Submit(s) \/ Notify(s)
                      \/ Upgrade(s) \/ FailUpgrade(s) \/ RollBack(s)
  \/ FailuresAge

RolloutSpec == RolloutInit /\ [][RolloutNext]_rolloutVars
-----------------------------------------------------------------------------
(* A school that rolled an automatic upgrade back is not upgraded to the   *)
(* same version again by a later scan: the job's key names the             *)
(* installation and the version, so the scan gets the job that is done     *)
(* (extension-update.service.ts:38-45, submit's look-up by the key).       *)
RollbackIsRespected == \A s \in School : back[s] # "upgraded"

(* Refuted: "Rollout is paused; explicitly resume it to change stage"      *)
(* (extensions.service.ts:503). The row is read before the scan pauses it  *)
(* and the stage is written after.                                         *)
PausedIsNotMoved == ~ moved

(* Refuted: a school whose automatic upgrade failed is told that the       *)
(* version is available (the notification below the catch of               *)
(* extension-update.service.ts:46-49): the next scan gets the failed job   *)
(* back, counts it as an upgrade and passes the school over.               *)
FailedIsTold == [][\A s \in School :
  (job[s] = "FAILED" /\ Policy[s] = "AUTOMATIC" /\ scan.state = "go" /\ s \in scan.left
     /\ InRollout(s, scan.stage) /\ s \notin scan'.left) => told'[s]]_rolloutVars
=============================================================================
