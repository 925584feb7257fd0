------------------------ MODULE InstallationCommands ------------------------
(***************************************************************************)
(* The lifecycle commands of ExtensionInstallationsService, as functions   *)
(* of the installation row they read: what each may write back and whether *)
(* it returns or throws.  A command that changes nothing and returns is    *)
(* one of the "no-op" branches its retries rely on.                        *)
(*                                                                         *)
(* The checks on other tables (a published version, kill switches, a valid *)
(* signature, satisfied dependencies, active billing, permissions still to *)
(* acknowledge, retained evidence) are data of no interest here: a command *)
(* that reaches them may be refused by them.                               *)
(***************************************************************************)
CONSTANTS Version,     \* the versions of the extension
          NoVersion    \* configuration.rollbackVersionId is not set

ASSUME NoVersionAssumption == NoVersion \notin Version

States == {"REQUESTED", "APPROVED", "INSTALLED", "ACTIVE", "UNINSTALLED", "ABSENT"}

Ops == {"INSTALL", "UPGRADE", "ROLLBACK", "ACTIVATE", "DEACTIVATE", "UNINSTALL",
        "PURGE_INSTALLATION"}

(* The columns the commands read and write.  installedAt says whether that *)
(* column is set; previous is configuration.rollbackVersionId.  A removed  *)
(* row is in state ABSENT.                                                 *)
Row == [state : States, version : Version, previous : Version \cup {NoVersion},
        installedAt : BOOLEAN]

(* How a command ends: it returns, it throws, or it throws the             *)
(* NotFoundException of requireInstallation.                               *)
Outcome == [kind : {"returned", "thrown", "absent"}, row : Row]

Returned(row) == [kind |-> "returned", row |-> row]
Thrown(row)   == [kind |-> "thrown", row |-> row]
Absent(row)   == [kind |-> "absent", row |-> row]

Install(row, v) ==
  CASE row.state = "INSTALLED" /\ row.version = v -> {Returned(row)}
    [] row.state = "APPROVED" ->
         {Thrown(row),
          Returned([row EXCEPT !.state = "INSTALLED", !.version = v, !.installedAt = TRUE])}
    [] OTHER -> {Thrown(row)}

(* An upgrade remembers the version it left only for an active theme or    *)
(* when the manifest names a data migration.                               *)
Upgrade(row, v) ==
  CASE row.installedAt /\ row.version = v -> {Returned(row)}
    [] row.installedAt /\ row.version # v ->
         {Thrown(row), Returned([row EXCEPT !.version = v]),
          Returned([row EXCEPT !.version = v, !.previous = row.version])}
    [] OTHER -> {Thrown(row)}

(* Faulty variant: a rollback to the installed version is carried out.     *)
RollbackAgain(row, target) ==
  LET to == IF target # NoVersion THEN target ELSE row.previous
  IN IF to = NoVersion THEN {Thrown(row)}
     ELSE {Thrown(row), Returned([row EXCEPT !.version = to, !.previous = row.version])}

(* target is the version captured when the command was submitted, if there *)
(* was one; without it the row says where to go back to.                   *)
Rollback(row, target) ==
  LET to == IF target # NoVersion THEN target ELSE row.previous
  IN CASE target # NoVersion /\ row.version = target -> {Returned(row)}
       [] to = NoVersion -> {Thrown(row)}
       [] OTHER -> {Thrown(row), Returned([row EXCEPT !.version = to, !.previous = row.version])}

Activate(row) ==
  CASE row.state = "ACTIVE" -> {Thrown(row), Returned(row)}
    [] row.state = "INSTALLED" -> {Thrown(row), Returned([row EXCEPT !.state = "ACTIVE"])}
    [] OTHER -> {Thrown(row)}

Deactivate(row) ==
  CASE row.state = "INSTALLED" -> {Returned(row)}
    [] row.state = "ACTIVE" -> {Returned([row EXCEPT !.state = "INSTALLED"])}
    [] OTHER -> {Thrown(row)}

Uninstall(row) ==
  CASE row.state = "UNINSTALLED" -> {Returned(row)}
    [] row.state \in {"INSTALLED", "ACTIVE"} ->
         {Thrown(row), Returned([row EXCEPT !.state = "UNINSTALLED"])}
    [] OTHER -> {Thrown(row)}

RemoveUninstalled(row) ==
  CASE row.state = "UNINSTALLED" -> {Thrown(row), Returned([row EXCEPT !.state = "ABSENT"])}
    [] OTHER -> {Thrown(row)}

(* The outcomes of command op on row; v is the version it was submitted    *)
(* with (the captured target of a ROLLBACK, nothing for the others).       *)
Outcomes(op, v, row) ==
  CASE row.state = "ABSENT"        -> {Absent(row)}
    [] row.state # "ABSENT" /\ op = "INSTALL"    -> Install(row, v)
    [] row.state # "ABSENT" /\ op = "UPGRADE"    -> Upgrade(row, v)
    [] row.state # "ABSENT" /\ op = "ROLLBACK"   -> Rollback(row, v)
    [] row.state # "ABSENT" /\ op = "ACTIVATE"   -> Activate(row)
    [] row.state # "ABSENT" /\ op = "DEACTIVATE" -> Deactivate(row)
    [] row.state # "ABSENT" /\ op = "UNINSTALL"  -> Uninstall(row)
    [] row.state # "ABSENT" /\ op = "PURGE_INSTALLATION" -> RemoveUninstalled(row)

(* The handlers the API runs outside the jobs and outside the command      *)
(* lock: a school asks again for an extension it has not enabled, and a    *)
(* platform administrator approves the request.                            *)
CanRequest(row) == row.state \notin {"ACTIVE", "ABSENT"}
Requested(row)  == [row EXCEPT !.state = "REQUESTED", !.installedAt = FALSE]

CanApprove(row) == row.state = "REQUESTED"
Approved(row)   == [row EXCEPT !.state = "APPROVED"]

=============================================================================
