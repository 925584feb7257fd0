--------------------------------- MODULE Alerts --------------------------------
(***************************************************************************)
(* Operational alerts: the scan every five minutes that raises, repeats    *)
(* and resolves them, the pages and tickets it sends, the hourly scan of   *)
(* extension failures and the operators who acknowledge                    *)
(* (platform/operational-alert.service.ts, extension-alert.service.ts).    *)
(***************************************************************************)
EXTENDS Integers, FiniteSets

CONSTANTS
  Fingerprint,  \* what an alert is about
  Operational,  \* those that the operational scan evaluates
  Faults,       \* bound: webhook failures, deaths of a scanning process
  Edits,        \* bound: changes of health, operators' decisions
  None

VARIABLES
  level,  \* level[f]: what a snapshot taken now says of f
  alert,  \* alert[f]: its row
  scan,   \* the scan that runs
  paged,  \* paged[f]: history: was a page sent since f became critical?
  faults, edits

alertVars == <<level, alert, scan, paged, faults, edits>>

Levels == {"ok", "warning", "critical"}
NoAlert == [status |-> "none", severity |-> "warning", count |-> 0]
Rows == [status : {"none", "OPEN", "ACKNOWLEDGED", "RESOLVED"},
         severity : {"warning", "critical"}, count : 0..6]
NoScan == [step |-> "off", found |-> [f \in {} |-> "ok"], left |-> {}, f |-> None, row |-> NoAlert]

AlertsTypeOK ==
  /\ level \in [Fingerprint -> Levels] /\ alert \in [Fingerprint -> Rows]
  /\ scan.step \in {"off", "raise", "upsert", "dispatch"} /\ scan.left \subseteq Operational
  /\ scan.row \in Rows /\ paged \in [Fingerprint -> BOOLEAN]
  /\ faults \in 0..Faults /\ edits \in 0..Edits

AlertsInit ==
  /\ level = [f \in Fingerprint |-> "ok"] /\ alert = [f \in Fingerprint |-> NoAlert]
  /\ scan = NoScan /\ paged = [f \in Fingerprint |-> FALSE]
  /\ faults = 0 /\ edits = 0
-----------------------------------------------------------------------------
(* evaluate: what the snapshot shows is compared with the thresholds.      *)
BeginScan ==
  /\ scan = NoScan
  /\ LET found == {f \in Operational : level[f] # "ok"}
     IN  scan' = [NoScan EXCEPT !.step = "raise", !.left = found,
                                !.found = [f \in found |-> level[f]]]
  /\ UNCHANGED <<level, alert, paged, faults, edits>>

(* raiseOperational: the row is read first.                                *)
ReadAlert(f) ==
  /\ scan.step = "raise" /\ f \in scan.left
  /\ scan' = [scan EXCEPT !.step = "upsert", !.left = @ \ {f}, !.f = f, !.row = alert[f]]
  /\ UNCHANGED <<level, alert, paged, faults, edits>>

(* Faulty variant: an alert that is open is not repeated.                  *)
NotifyOnce(row, severity) ==
  \/ row.status \in {"none", "RESOLVED"}
  \/ row.severity = "warning" /\ severity = "critical"
(* Who answers for it is told of a new alert, of one that got worse, and   *)
(* of every sixth occurrence.                                              *)
Notifies(row, severity) ==
  \/ row.status \in {"none", "RESOLVED"}
  \/ row.severity = "warning" /\ severity = "critical"
  \/ row.count = 6
(* The upsert counts on, but its status is the one that was read, or OPEN. *)
Raise ==
  /\ scan.step = "upsert"
  /\ LET severity == scan.found[scan.f]
         notify == Notifies(scan.row, severity)
     IN  /\ alert' = [alert EXCEPT ![scan.f] =
              [status |-> IF @.status = "none" \/ notify THEN "OPEN" ELSE scan.row.status,
               severity |-> severity, count |-> (@.count % 6) + 1]]
         /\ scan' = [scan EXCEPT !.step = IF notify THEN "dispatch" ELSE "raise"]
  /\ UNCHANGED <<level, paged, faults, edits>>

(* dispatch: the page or the ticket is sent to the webhook.                *)
Dispatch ==
  /\ scan.step = "dispatch"
  /\ scan' = [scan EXCEPT !.step = "raise"]
  /\ paged' = [paged EXCEPT ![scan.f] = @ \/ scan.found[scan.f] = "critical"]
  /\ UNCHANGED <<level, alert, faults, edits>>
(* An error of the webhook ends the scan: the alerts after it are neither  *)
(* raised nor resolved. So does the end of the process.                    *)
FailScan ==
  /\ scan # NoScan /\ faults < Faults /\ faults' = faults + 1 /\ scan' = NoScan
  /\ UNCHANGED <<level, alert, paged, edits>>

Active(row) == row.status \in {"OPEN", "ACKNOWLEDGED"}
(* resolveRecoveredOperational: what the snapshot did not show.            *)
ResolveRecovered ==
  /\ scan.step = "raise" /\ scan.left = {} /\ scan' = NoScan
  /\ alert' = [f \in Fingerprint |->
       IF f \in Operational \ DOMAIN scan.found /\ Active(alert[f])
       THEN [alert[f] EXCEPT !.status = "RESOLVED"] ELSE alert[f]]
  /\ UNCHANGED <<level, paged, faults, edits>>
-----------------------------------------------------------------------------
(* The hourly scan: too many failed validations or denied capabilities     *)
(* open the alert again, whatever was decided of it.                       *)
RaiseExtension(f) ==
  /\ f \in Fingerprint \ Operational /\ level[f] # "ok"
  /\ alert' = [alert EXCEPT ![f] = [status |-> "OPEN", severity |-> level[f], count |-> 1]]
  /\ UNCHANGED <<level, scan, paged, faults, edits>>
SetStatus(f, status) ==
  /\ edits < Edits /\ alert[f].status # "none" /\ edits' = edits + 1
  /\ alert' = [alert EXCEPT ![f].status = status]
  /\ UNCHANGED <<level, scan, paged, faults>>
LevelChanges(f, l) ==
  /\ edits < Edits /\ l # level[f] /\ edits' = edits + 1
  /\ level' = [level EXCEPT ![f] = l]
  /\ paged' = [paged EXCEPT ![f] = @ /\ l # "critical"]
  /\ UNCHANGED <<alert, scan, faults>>

ScanStep ==
  \/ BeginScan \/ Raise \/ Dispatch \/ ResolveRecovered
  \/ \E f \in Operational : ReadAlert(f)
AlertsNext ==
  \/ ScanStep \/ FailScan
  \/ \E f \in Fingerprint :
       \/ RaiseExtension(f)
       \/ \E st \in {"ACKNOWLEDGED", "RESOLVED"} : SetStatus(f, st)
       \/ \E l \in Levels : LevelChanges(f, l)
(* The cron calls the scan again and again, and its steps end.             *)
AlertsFairness == WF_alertVars(ScanStep)
-----------------------------------------------------------------------------
(* Something that stays critical is paged in the end, though a webhook     *)
(* failed after the row was written, or somebody acknowledged the alert of *)
(* an earlier incident (operational-alert.service.ts:25-31, the sixth      *)
(* occurrence of extension-alert.service.ts:104).                          *)
CriticalIsPaged ==
  \A f \in Operational : <>[](level[f] = "critical") => <>paged[f]

(* Refuted: an operator's decision (setStatus) stands until another one or *)
(* until the alert is raised anew: the upsert writes the status that was   *)
(* read before it.                                                         *)
DecisionStands == [][\A f \in Operational :
  (alert[f].status = "RESOLVED" /\ alert'[f].status # "RESOLVED")
    => alert'[f].status = "OPEN" \/ edits' # edits]_alertVars
=============================================================================
