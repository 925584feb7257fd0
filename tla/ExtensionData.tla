---------------------------- MODULE ExtensionData ----------------------------
(***************************************************************************)
(* The records that schools keep in an extension: the runtime API that     *)
(* changes them under If-Match and quotas, the data migrations of upgrades *)
(* and rollbacks, and the two ways to purge them, with the signed report   *)
(* (platform/extension-runtime, -installations, -cleanup, -purge-report).  *)
(*                                                                         *)
(* A record is its content and the schema version it is written in; it     *)
(* takes one byte more in version 2, whose migration adds a field.         *)
(***************************************************************************)
EXTENDS Integers, FiniteSets

CONSTANTS
  Record, Client, Content,
  Quota,          \* installationBytes and schoolBytes
  MaxAttempts,    \* EXTENSION_MIGRATION_MAX_ATTEMPTS
  MaxVersion,     \* bound: highest concurrency version written
  Crashes,        \* bound: crashes of workers
  Ops,            \* bound: what happens in an instance
  None

ASSUME DataAssumption == None \notin Record /\ MaxVersion \in Nat

VARIABLES
  inst,     \* the ExtensionInstallation row
  rec,      \* rec[r]: the ExtensionRecord row, or Gone
  school,   \* School.extensionDataBytes
  run,      \* the ExtensionMigrationRun row with its backups
  client,   \* client[c]: what the client last read and is writing
  purger,   \* purger[p]: the purge of the job worker and of the cleanup
  report,   \* report[p]: deliveryStatus of its purge report
  stored,   \* report objects in R2
  blind,    \* history: was a write accepted over data its client never read?
  drift,    \* history: did a purge subtract a size that had changed?
  past      \* history of rollbacks, purges that removed records, and crashes

dataVars == <<inst, rec, school, run, client, purger, report, stored, blind, drift, past>>

Gone == [val |-> None, form |-> 0, ver |-> 0]      \* no record has this id yet
Deleted == [val |-> None, form |-> 0, ver |-> 1]   \* ids are not used again
Exists(row) == row.form # 0
Row == [val : Content \cup {None}, form : 0..2, ver : 0..MaxVersion]
Size(row) == row.form
(* What records take together, counted byte by byte.                       *)
BytesOf(rows) == Cardinality({x \in Record \X (1..2) : x[2] <= Size(rows[x[1]])})
Bytes == BytesOf(rec)

Purger == {"MANUAL", "SCHEDULED"}
NoRun == [status |-> "NONE", attempts |-> 0, backup |-> [r \in Record |-> Gone]]
IdleClient == [op |-> "idle", r |-> None, v |-> 1, ver |-> 0, saw |-> Gone, new |-> None]
IdlePurge == [pc |-> "idle", bytes |-> 0]

DataTypeOK ==
  /\ inst \in [state : {"ACTIVE", "INSTALLED", "UNINSTALLED", "REQUESTED", "ABSENT"}, due : BOOLEAN,
               bytes : 0..4, v : 1..2]
  /\ rec \in [Record -> Row]
  /\ school \in 0..4
  /\ run \in [status : {"NONE", "PENDING", "APPLIED", "FAILED", "INTERVENTION_REQUIRED",
                        "ROLLED_BACK", "ABANDONED"},
              attempts : 0..MaxAttempts, backup : [Record -> Row]]
  /\ client \in [Client -> [op : {"idle", "create", "update", "delete"}, r : Record \cup {None}, v : 1..2,
                            ver : 0..MaxVersion, saw : Row, new : Content \cup {None}]]
  /\ purger \in [Purger -> [pc : {"idle", "purge", "prepare", "deliver"}, bytes : 0..4]]
  /\ report \in [Purger -> {"NONE", "PENDING", "AVAILABLE"}]
  /\ stored \subseteq Purger

DataInit ==
  /\ inst = [state |-> "ACTIVE", due |-> FALSE, bytes |-> 0, v |-> 1]
  /\ rec = [r \in Record |-> Gone]
  /\ school = 0
  /\ run = NoRun
  /\ client = [c \in Client |-> IdleClient]
  /\ purger = [p \in Purger |-> IdlePurge]
  /\ report = [p \in Purger |-> "NONE"]
  /\ stored = {}
  /\ blind = FALSE /\ drift = FALSE
  /\ past = [rollbacks |-> 0, purged |-> {}, crashes |-> 0]

-----------------------------------------------------------------------------
(* authorize and installation: the extension is enabled, in some version.  *)
(* What follows does not look at either again; the request is one          *)
(* transaction at READ COMMITTED, whose conditional writes see the row as  *)
(* it is when they are made, and so is a step.                             *)
Authorized == inst.state = "ACTIVE"

(* A client reads a record and keeps its concurrency version.              *)
Read(c, r) ==
  /\ "records" \in Ops /\ Authorized /\ client[c].op = "idle" /\ Exists(rec[r])
  /\ client' = [client EXCEPT ![c] = [IdleClient EXCEPT !.r = r, !.ver = rec[r].ver, !.saw = rec[r]]]
  /\ UNCHANGED <<inst, rec, school, run, purger, report, stored, blind, drift, past>>

BeginWrite(c, op, r, new) ==
  /\ "records" \in Ops /\ Authorized /\ client[c].op = "idle"
  /\ op \in {"update", "delete"} => client[c].r = r
  /\ client' = [client EXCEPT ![c].op = op, ![c].r = r, ![c].v = inst.v, ![c].new = new]
  /\ UNCHANGED <<inst, rec, school, run, purger, report, stored, blind, drift, past>>

Done(c) == client' = [client EXCEPT ![c] = IdleClient]

(* reserveCapacity: both counters stay within their quotas, or the whole   *)
(* transaction fails.  adjustBytes uses it for growth; a smaller record    *)
(* gives its bytes back, to the school only what it has.                   *)
Fits(delta) == inst.bytes + delta <= Quota /\ school + delta <= Quota
(* Faulty variant: the school's counter is forgotten.                      *)
ChargeInstallation(delta) == inst' = [inst EXCEPT !.bytes = @ + delta] /\ school' = school
Charge(delta) ==
  /\ inst' = [inst EXCEPT !.bytes = @ + delta]
  /\ school' = IF school + delta >= 0 THEN school + delta ELSE school

CreateRecord(c, r) ==
  LET row == [val |-> client[c].new, form |-> client[c].v, ver |-> 1]
  IN /\ client[c].op = "create" /\ client[c].r = r /\ rec[r] = Gone
     /\ inst.state # "ABSENT" /\ Fits(Size(row))
     /\ rec' = [rec EXCEPT ![r] = row]
     /\ Charge(Size(row)) /\ Done(c)
     /\ UNCHANGED <<run, purger, report, stored, blind, drift, past>>

(* Faulty variant: If-Match is not compared.                               *)
MatchesAny(c) == Exists(rec[client[c].r])
Matches(c) == Exists(rec[client[c].r]) /\ rec[client[c].r].ver = client[c].ver

Unseen(c) == rec[client[c].r] # client[c].saw

UpdateRecord(c) ==
  LET r == client[c].r  row == [val |-> client[c].new, form |-> client[c].v, ver |-> rec[r].ver + 1]
      delta == Size(row) - Size(rec[r])
  IN /\ client[c].op = "update" /\ Matches(c) /\ rec[r].ver < MaxVersion
     /\ delta > 0 => Fits(delta)
     /\ rec' = [rec EXCEPT ![r] = row]
     /\ blind' = (blind \/ Unseen(c))
     /\ Charge(delta) /\ Done(c)
     /\ UNCHANGED <<run, purger, report, stored, drift, past>>

DeleteRecord(c) ==
  LET r == client[c].r
  IN /\ client[c].op = "delete" /\ Matches(c)
     /\ rec' = [rec EXCEPT ![r] = Deleted]
     /\ blind' = (blind \/ Unseen(c))
     /\ Charge(-Size(rec[r])) /\ Done(c)
     /\ UNCHANGED <<run, purger, report, stored, drift, past>>

(* Not found, modified by another request, quota exceeded.                 *)
RefuseWrite(c) ==
  /\ client[c].op # "idle" /\ Done(c)
  /\ UNCHANGED <<inst, rec, school, run, purger, report, stored, blind, drift, past>>
-----------------------------------------------------------------------------
(* upgrade with a migration: the row of the run is written first, then one *)
(* serializable transaction rewrites every record and keeps a backup of    *)
(* it.  A crash in between leaves the run PENDING; the next attempt makes  *)
(* a new one.                                                              *)
StartMigration ==
  /\ "migrate" \in Ops /\ inst.state \in {"ACTIVE", "INSTALLED"} /\ inst.v = 1
  /\ run.status # "INTERVENTION_REQUIRED"
  /\ run' = [NoRun EXCEPT !.status = "PENDING",
                          !.attempts = IF run.status = "FAILED" THEN run.attempts + 1 ELSE 1]
  /\ UNCHANGED <<inst, rec, school, client, purger, report, stored, blind, drift, past>>

Migrated(row) == IF ~ Exists(row) THEN row ELSE [row EXCEPT !.form = 2, !.ver = @ + 1]

ApplyMigration ==
  LET now == [r \in Record |-> Migrated(rec[r])]
      delta == BytesOf(now) - Bytes
  IN /\ run.status = "PENDING" /\ inst.v = 1 /\ inst.state \in {"ACTIVE", "INSTALLED"}
     /\ \A r \in Record : rec[r].ver < MaxVersion
     /\ delta > 0 => Fits(delta)
     /\ rec' = now
     /\ run' = [run EXCEPT !.status = "APPLIED", !.backup = rec]
     /\ inst' = [inst EXCEPT !.v = 2, !.bytes = @ + delta]
     /\ school' = school + delta
     /\ UNCHANGED <<client, purger, report, stored, blind, drift, past>>

FailMigration ==
  /\ run.status = "PENDING"
  /\ run' = [run EXCEPT !.status = IF run.attempts >= MaxAttempts THEN "INTERVENTION_REQUIRED"
                                   ELSE "FAILED"]
  /\ UNCHANGED <<inst, rec, school, client, purger, report, stored, blind, drift, past>>

(* interveneMigration: an operator lets it be tried again, or gives it up. *)
InterveneMigration(action) ==
  /\ run.status = "INTERVENTION_REQUIRED"
  /\ run' = [run EXCEPT !.status = IF action = "RETRY" THEN "FAILED" ELSE "ABANDONED",
                        !.attempts = IF action = "RETRY" THEN 0 ELSE @]
  /\ UNCHANGED <<inst, rec, school, client, purger, report, stored, blind, drift, past>>

(* Faulty variant: records written since the upgrade keep their form.      *)
RestoreUnchanged == [r \in Record |-> IF ~ Exists(run.backup[r]) \/ rec[r].ver # run.backup[r].ver + 1
                                      THEN rec[r] ELSE run.backup[r]]
(* rollbackMigration: every backed up record must still be there and is    *)
(* restored with the concurrency version it had.                           *)
Restored == [r \in Record |-> IF ~ Exists(run.backup[r]) THEN rec[r] ELSE run.backup[r]]

RollbackMigration ==
  LET delta == BytesOf(Restored) - Bytes
  IN /\ "migrate" \in Ops /\ run.status = "APPLIED" /\ inst.v = 2
     /\ inst.state \in {"ACTIVE", "INSTALLED"}
     /\ \A r \in Record : Exists(run.backup[r]) => Exists(rec[r])
     /\ rec' = Restored
     /\ run' = [run EXCEPT !.status = "ROLLED_BACK"]
     /\ inst' = [inst EXCEPT !.v = 1, !.bytes = IF @ + delta >= 0 THEN @ + delta ELSE @]
     /\ school' = IF school + delta >= 0 THEN school + delta ELSE school
     /\ past' = [past EXCEPT !.rollbacks = 1]
     /\ UNCHANGED <<client, purger, report, stored, blind, drift>>
-----------------------------------------------------------------------------
(* The commands around a purge.  A school that asks again for an extension *)
(* it uninstalled keeps the row and its records.                           *)
Deactivate ==
  /\ "purge" \in Ops /\ inst.state = "ACTIVE"
  /\ inst' = [inst EXCEPT !.state = "INSTALLED"]
  /\ UNCHANGED <<rec, school, run, client, purger, report, stored, blind, drift, past>>
Uninstall ==
  /\ "purge" \in Ops /\ inst.state \in {"ACTIVE", "INSTALLED"}
  /\ inst' = [inst EXCEPT !.state = "UNINSTALLED", !.due = FALSE]
  /\ UNCHANGED <<rec, school, run, client, purger, report, stored, blind, drift, past>>
GraceEnds ==
  /\ inst.state = "UNINSTALLED" /\ ~ inst.due
  /\ inst' = [inst EXCEPT !.due = TRUE]
  /\ UNCHANGED <<rec, school, run, client, purger, report, stored, blind, drift, past>>
RequestAgain ==
  /\ inst.state = "UNINSTALLED"
  /\ inst' = [inst EXCEPT !.state = "REQUESTED", !.due = FALSE]
  /\ UNCHANGED <<rec, school, run, client, purger, report, stored, blind, drift, past>>

(* removeUninstalled and the cleanup both read the row, with its counters, *)
(* before their transaction.                                               *)
BeginPurge(p) ==
  /\ purger[p].pc = "idle" /\ inst.state = "UNINSTALLED" /\ (p = "SCHEDULED" => inst.due)
  /\ purger' = [purger EXCEPT ![p] = [pc |-> "purge", bytes |-> inst.bytes]]
  /\ UNCHANGED <<inst, rec, school, run, client, report, stored, blind, drift, past>>

Removed == {r \in Record : Exists(rec[r])}
NoRecords == [r \in Record |-> IF Exists(rec[r]) THEN Deleted ELSE rec[r]]
Refund(bytes) == school' = IF school >= bytes THEN school - bytes ELSE school
Erase(p, reports) ==
  /\ rec' = NoRecords
  /\ inst' = [inst EXCEPT !.state = "ABSENT", !.bytes = 0]
  /\ Refund(purger[p].bytes)
  /\ drift' = (drift \/ purger[p].bytes # inst.bytes)
  /\ past' = [past EXCEPT !.purged = @ \cup {p}]
  /\ report' = reports
  /\ UNCHANGED <<run, client, stored, blind>>

(* The transaction of removeUninstalled; deleting a row that is gone is an *)
(* error, which undoes it.  The job prepares the report afterwards.        *)
RemoveUninstalled ==
  /\ purger["MANUAL"].pc = "purge" /\ inst.state # "ABSENT"
  /\ Erase("MANUAL", report)
  /\ purger' = [purger EXCEPT !["MANUAL"].pc = "prepare"]

(* Faulty variant: the report of the cleanup is prepared after its         *)
(* transaction.                                                            *)
PurgeThenPrepare ==
  /\ purger["SCHEDULED"].pc = "purge" /\ inst.state = "UNINSTALLED" /\ inst.due
  /\ Erase("SCHEDULED", report)
  /\ purger' = [purger EXCEPT !["SCHEDULED"].pc = "prepare"]

(* The transaction of the cleanup, with its report.                        *)
PurgeInstallation ==
  /\ purger["SCHEDULED"].pc = "purge" /\ inst.state = "UNINSTALLED" /\ inst.due
  /\ Erase("SCHEDULED", [report EXCEPT !["SCHEDULED"] = "PENDING"])
  /\ purger' = [purger EXCEPT !["SCHEDULED"].pc = "deliver"]

(* The same transaction when the installation was asked for again, or was  *)
(* removed, since it was found: it has deleted the records, finds no row   *)
(* to delete and returns, which commits.                                   *)
PurgeRecordsOnly ==
  /\ purger["SCHEDULED"].pc = "purge" /\ ~ (inst.state = "UNINSTALLED" /\ inst.due)
  /\ rec' = NoRecords
  /\ past' = [past EXCEPT !.purged = IF Removed = {} THEN @ ELSE @ \cup {"SCHEDULED"}]
  /\ drift' = (drift \/ Removed # {})
  /\ purger' = [purger EXCEPT !["SCHEDULED"] = IdlePurge]
  /\ UNCHANGED <<inst, school, run, client, report, stored, blind>>

Prepare(p) ==
  /\ purger[p].pc = "prepare"
  /\ report' = [report EXCEPT ![p] = "PENDING"]
  /\ purger' = [purger EXCEPT ![p].pc = "deliver"]
  /\ UNCHANGED <<inst, rec, school, run, client, stored, blind, drift, past>>

(* The upload in finalize; the row is updated afterwards.                  *)
StoreReport(p) ==
  /\ report[p] = "PENDING" /\ p \notin stored
  /\ stored' = stored \cup {p}
  /\ UNCHANGED <<inst, rec, school, run, client, purger, report, blind, drift, past>>
(* Faulty variant: the report is offered before it is uploaded.            *)
DeliverUnstored(p) ==
  /\ report[p] = "PENDING"
  /\ report' = [report EXCEPT ![p] = "AVAILABLE"]
  /\ purger' = [purger EXCEPT ![p] = IdlePurge]
  /\ UNCHANGED <<inst, rec, school, run, client, stored, blind, drift, past>>
Deliver(p) ==
  /\ report[p] = "PENDING" /\ p \in stored
  /\ report' = [report EXCEPT ![p] = "AVAILABLE"]
  /\ purger' = [purger EXCEPT ![p] = IdlePurge]
  /\ UNCHANGED <<inst, rec, school, run, client, stored, blind, drift, past>>

(* Delivery fails, or the purge finds nothing to do, or its worker dies.   *)
(* A report that is PENDING is taken up by retryPending every night.       *)
GiveUp(p) ==
  /\ \/ purger[p].pc = "deliver" /\ UNCHANGED past
     \/ purger[p].pc \in {"purge", "prepare"} /\ past.crashes < Crashes
        /\ past' = [past EXCEPT !.crashes = @ + 1]
     \/ p = "MANUAL" /\ purger[p].pc = "purge" /\ inst.state = "ABSENT" /\ UNCHANGED past
  /\ purger' = [purger EXCEPT ![p] = IdlePurge]
  /\ UNCHANGED <<inst, rec, school, run, client, report, stored, blind, drift>>

DataNext ==
  \/ \E c \in Client :
       \/ \E r \in Record : Read(c, r) \/ CreateRecord(c, r)
       \/ \E r \in Record, x \in Content, op \in {"create", "update", "delete"} : BeginWrite(c, op, r, x)
       \/ UpdateRecord(c) \/ DeleteRecord(c) \/ RefuseWrite(c)
  \/ StartMigration \/ ApplyMigration \/ FailMigration \/ RollbackMigration
  \/ \E a \in {"RETRY", "ABANDON"} : InterveneMigration(a)
  \/ Deactivate \/ Uninstall \/ GraceEnds \/ RequestAgain
  \/ RemoveUninstalled \/ PurgeInstallation \/ PurgeRecordsOnly
  \/ \E p \in Purger : BeginPurge(p) \/ Prepare(p) \/ StoreReport(p) \/ Deliver(p) \/ GiveUp(p)

DataSpec == DataInit /\ [][DataNext]_dataVars

(* retryPending runs every night and the storage comes back.               *)
DataFairness == \A p \in Purger : WF_dataVars(StoreReport(p)) /\ WF_dataVars(Deliver(p))
-----------------------------------------------------------------------------
(* Both counters are what the records take, whatever was created, grown,   *)
(* migrated or rolled back, unless a purge subtracted a size that a late   *)
(* write had changed: the purges read the counters before they delete.     *)
CountersMatch == ~ drift => inst.bytes = Bytes /\ school = Bytes

(* No client overwrites or deletes what it has not read, as long as no     *)
(* rollback gave a record a concurrency version for the second time.       *)
NoLostUpdate == blind => past.rollbacks > 0

(* docs/platform-1000-schools-todo.md:305 says it without the exception.   *)
StaleWritesAreRejected == ~ blind

(* The comment of ExtensionPurgeReportService (line 28): a report every    *)
(* time data is purged for good.                                           *)
EveryPurgeIsReported == \A p \in past.purged : purger[p].pc = "idle" => report[p] # "NONE"

(* What holds of the cleanup even when its worker dies at any step: once   *)
(* it has removed an installation, the report is on record.                *)
RemovalIsReported ==
  inst.state = "ABSENT" /\ "MANUAL" \notin past.purged => report["SCHEDULED"] # "NONE"

(* A report on record is delivered, and one that is offered can be read.   *)
ReportsArrive == \A p \in Purger : report[p] = "PENDING" ~> report[p] = "AVAILABLE" /\ p \in stored
=============================================================================
