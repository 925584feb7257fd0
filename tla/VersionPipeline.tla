--------------------------- MODULE VersionPipeline ---------------------------
(***************************************************************************)
(* The versions of one extension of the internal publisher, from the       *)
(* upload of a package through validation, review, signing and publication *)
(* to retirement and purge: ExtensionsService of                           *)
(* platform/extensions.service.ts, the worker that validates packages, and *)
(* what schools do with a published version.                               *)
(*                                                                         *)
(* Every handler reads rows first and writes them by id afterwards, so a   *)
(* request is a read step followed by its write steps, and a crash may end *)
(* it between two of them.  lost says that some write changed a version,   *)
(* or the extension, that was no longer as its request had read it.        *)
(***************************************************************************)
EXTENDS Integers, FiniteSets

CONSTANTS
  Version, Package, User, School,
  Slot,           \* API requests in flight at a time
  Worker,         \* validations in flight at a time
  Grants,         \* Grants[u]: the publisher roles of user u
  Separation,     \* EXTENSION_REVIEW_SEPARATION_REQUIRED
  Open,           \* bound: the kinds of requests made in an instance
  Approved,       \* does the instance start with an approved version?
  Crashes,        \* bound: crashes of the API
  Redeliveries,   \* bound: times a validation is handed out again after a stall
  None

ASSUME PipelineAssumption ==
  /\ None \notin Slot /\ None \notin Worker /\ None \notin {"quarantine", "published"}
  /\ Crashes \in Nat /\ Redeliveries \in Nat

VARIABLES
  ver,         \* ver[v]: the ExtensionVersion row
  ext,         \* status of the Extension row
  publisher,   \* status of the publisher
  key,         \* status of the configured signing key
  val,         \* val[v][p]: the ExtensionValidation row of package p
  approvals,   \* approvals[v]: who has an APPROVED ExtensionReview row
  objs,        \* objects in R2: <<prefix, version, package>>
  inst,        \* inst[s]: the ExtensionInstallation row of school s
  slot,        \* slot[s]: what each request is doing
  job,         \* job[v][p]: the BullMQ job that completes the upload
  wk,          \* wk[w]: what each worker is doing
  sender,      \* history: who sent the package that the row names
  lost,        \* history: was some version overwritten unseen?
  used         \* crashes and redeliveries so far

rows == <<ver, ext, publisher, key, val, approvals, inst>>
vars == <<rows, objs, slot, job, wk, sender, lost, used>>

Mutable == {"UPLOADED", "QUARANTINED", "VALIDATING", "VALIDATED", "REJECTED", "AWAITING_REVIEW"}

AllowedTransitions ==
  [UPLOADED |-> {"QUARANTINED", "REJECTED"},   QUARANTINED |-> {"VALIDATING", "REJECTED"},
   VALIDATING |-> {"VALIDATED", "REJECTED"},   VALIDATED |-> {"AWAITING_REVIEW", "REJECTED"},
   AWAITING_REVIEW |-> {"APPROVED", "REJECTED"}, APPROVED |-> {"PUBLISHED", "REJECTED"},
   PUBLISHED |-> {"DEPRECATED", "BLOCKED"},    DEPRECATED |-> {"BLOCKED", "RETIRED"},
   BLOCKED |-> {"DEPRECATED", "RETIRED"},      REJECTED |-> {}, RETIRED |-> {}]

Status == DOMAIN AllowedTransitions
Present(v) == ver[v].status \in Status

VersionRow ==
  [status : Status \cup {"NONE", "DELETED"},
   manifest : {"typed"} \cup Package,       \* typed by a publisher, or read from a package
   obj : {"quarantine", "published", None}, \* prefix of packageStorageKey
   sum : Package \cup {None},               \* packageChecksum
   by : User \cup {None},                   \* uploadedBy
   reviewer : User \cup {None},             \* reviewedBy
   signed : BOOLEAN]

NoVersion == [status |-> "NONE", manifest |-> "typed", obj |-> None, sum |-> None, by |-> None,
              reviewer |-> None, signed |-> FALSE]

Object == {"quarantine", "published"} \X Version \X Package

(* What a request has read and still needs; stale says that another write  *)
(* has changed the version, the publisher or the key since.                *)
Request == [pc : {"idle", "draft", "stored", "enqueue", "publish", "write", "effects", "appeal",
                  "dropObjects", "dropRow", "purgeObjects", "purgeRows", "publisher",
                  "suspend", "key", "block", "disable", "install", "activate"},
            v : Version \cup {None}, u : User \cup School \cup {None},
            to : Status \cup {"ACTIVE", "SUSPENDED", "REVOKED", None},
            p : Package \cup {None}, obj : {"quarantine", "published", None},
            drops : SUBSET Object, stale : BOOLEAN]
IdleRequest == [pc |-> "idle", v |-> None, u |-> None, to |-> None, p |-> None, obj |-> None,
                drops |-> {}, stale |-> FALSE]
ValidatorRun == [pc : {"idle", "read", "scan", "finish"}, v : Version \cup {None},
                 p : Package \cup {None}, manifest : {"typed"} \cup Package, stale : BOOLEAN]
IdleRun == [pc |-> "idle", v |-> None, p |-> None, manifest |-> "typed", stale |-> FALSE]

TypeOK ==
  /\ ver \in [Version -> VersionRow]
  /\ ext \in {"ACTIVE", "SUSPENDED", "RETIRED", "DELETED"}
  /\ publisher \in {"ACTIVE", "SUSPENDED", "REVOKED"}
  /\ key \in {"ACTIVE", "REVOKED"}
  /\ val \in [Version -> [Package -> {"NONE", "PENDING", "RUNNING", "PASSED", "FAILED"}]]
  /\ approvals \in [Version -> SUBSET User]
  /\ objs \subseteq Object
  /\ inst \in [School -> [v : Version \cup {None},
                        state : {"APPROVED", "INSTALLED", "ACTIVE", "UNINSTALLED"}]]
  /\ slot \in [Slot -> Request]
  /\ job \in [Version -> [Package -> {"absent", "waiting", "active", "completed", "failed"}]]
  /\ wk \in [Worker -> ValidatorRun]
  /\ sender \in [Version -> User \cup {None}]
  /\ lost \in BOOLEAN
  /\ used \in [crashes : 0..Crashes, stalls : 0..Redeliveries]

(* The extension is created; of its versions none is, or one has been      *)
(* uploaded, validated and approved.                                       *)
Init ==
  /\ IF Approved
     THEN \E v \in Version, p \in Package, u, r \in User :
            /\ r # u
            /\ ver = [x \in Version |-> IF x # v THEN NoVersion ELSE
                       [status |-> "APPROVED", manifest |-> p, obj |-> "quarantine", sum |-> p,
                        by |-> u, reviewer |-> r, signed |-> FALSE]]
            /\ val = [x \in Version |-> [q \in Package |-> IF x = v /\ q = p THEN "PASSED" ELSE "NONE"]]
            /\ job = [x \in Version |-> [q \in Package |-> IF x = v /\ q = p THEN "completed" ELSE "absent"]]
            /\ approvals = [x \in Version |-> IF x = v THEN {r} ELSE {}]
            /\ objs = {<<"quarantine", v, p>>}
            /\ sender = [x \in Version |-> IF x = v THEN u ELSE None]
     ELSE /\ ver = [v \in Version |-> NoVersion]
          /\ val = [v \in Version |-> [p \in Package |-> "NONE"]]
          /\ job = [v \in Version |-> [p \in Package |-> "absent"]]
          /\ approvals = [v \in Version |-> {}]
          /\ objs = {}
          /\ sender = [v \in Version |-> None]
  /\ ext = "ACTIVE" /\ publisher = "ACTIVE" /\ key = "ACTIVE"
  /\ inst = [s \in School |-> [v |-> None, state |-> "APPROVED"]]
  /\ slot = [s \in Slot |-> IdleRequest]
  /\ wk = [w \in Worker |-> IdleRun]
  /\ lost = FALSE
  /\ used = [crashes |-> 0, stalls |-> 0]

-----------------------------------------------------------------------------
(* requirePublisherRole.  Members are not changed here (PublisherTeam).    *)
Holds(u, role) == role \in Grants[u]

At(s, pc) == slot[s].pc = pc
Finish(s) == slot' = [slot EXCEPT ![s] = IdleRequest]
Goto(s, pc) == slot' = [slot EXCEPT ![s].pc = pc]

(* The objects that the rows of the versions in V name.                    *)
Stored(V) == {<<ver[x].obj, x, ver[x].sum>> : x \in {y \in V : Present(y) /\ ver[y].obj # None}}

(* A request about version v, or about all of them, starts, having read    *)
(* the rows.                                                               *)
Begin(kind, s, v, pc, u, to, p) ==
  /\ kind \in Open /\ At(s, "idle")
  /\ slot' = [slot EXCEPT ![s] = [pc |-> pc, v |-> v, u |-> u, to |-> to, p |-> p,
                                  obj |-> IF p = None THEN None ELSE ver[v].obj,
                                  drops |-> CASE pc = "dropObjects" -> Stored({v})
                                              [] pc = "purgeObjects" -> Stored(Version)
                                              [] OTHER -> {},
                                  stale |-> FALSE]]
  /\ UNCHANGED used

(* What the others in flight have read of the versions in V is stale.      *)
Deciding == {"draft", "stored", "publish", "write", "dropObjects", "dropRow", "purgeObjects",
             "purgeRows"}
StaleRequests(s, V) ==
  [t \in Slot |-> IF t # s /\ slot[t].pc \in Deciding
                      /\ (slot[t].v \in V \/ slot[t].pc \in {"purgeObjects", "purgeRows"})
                   THEN [slot[t] EXCEPT !.stale = TRUE] ELSE slot[t]]
StaleRuns(w, V) ==
  [x \in Worker |-> IF x # w /\ wk[x].v \in V THEN [wk[x] EXCEPT !.stale = TRUE] ELSE wk[x]]

(* Request s writes row r over its version and goes on at pc.              *)
Overwrite(s, r, pc) ==
  LET v == slot[s].v IN
  /\ ver' = [ver EXCEPT ![v] = r]
  /\ slot' = [StaleRequests(s, {v}) EXCEPT ![s] = IF pc = "idle" THEN IdleRequest
                                                  ELSE [slot[s] EXCEPT !.pc = pc, !.stale = FALSE]]
  /\ wk' = StaleRuns(None, {v})
  /\ lost' = (lost \/ slot[s].stale)

(* Prisma refuses to write a row that is gone, or to delete one that an    *)
(* installation refers to: the request fails.                              *)
Refused(s) ==
  LET v == slot[s].v IN
  \/ slot[s].pc \in {"draft", "stored", "write", "dropRow"} /\ ~Present(v)
  \/ slot[s].pc = "dropRow" /\ \E x \in School : inst[x].v = v
  \/ slot[s].pc = "effects" /\ (ext = "DELETED" \/ ~Present(v))

Fail(s) ==
  /\ Refused(s) /\ Finish(s)
  /\ UNCHANGED <<rows, objs, job, wk, sender, lost, used>>

-----------------------------------------------------------------------------
(* createVersion, updateDraft and uploadPackage.                           *)
CreateVersion(u, v) ==
  /\ ver[v].status = "NONE" /\ ext # "DELETED"
  /\ publisher = "ACTIVE" /\ Holds(u, "UPLOAD")
  /\ ver' = [ver EXCEPT ![v] = [NoVersion EXCEPT !.status = "UPLOADED", !.by = u]]
  /\ UNCHANGED <<ext, publisher, key, val, approvals, inst, objs, slot, job, wk, sender, lost, used>>

BeginDraft(s, v) ==
  /\ ver[v].status \in Mutable
  /\ Begin("draft", s, v, "draft", None, None, None)
  /\ UNCHANGED <<rows, objs, job, wk, sender, lost>>

UpdateDraft(s) ==
  /\ At(s, "draft") /\ Present(slot[s].v)
  /\ Overwrite(s, [ver[slot[s].v] EXCEPT !.manifest = "typed"], "idle")
  /\ UNCHANGED <<ext, publisher, key, val, approvals, inst, objs, job, sender, used>>

(* Queue.add under the id of the version and checksum.                     *)
Enqueued(v, p) == [job EXCEPT ![v][p] = IF @ = "absent" THEN "waiting" ELSE @]
Pending(v, p) == [val EXCEPT ![v][p] = IF @ = "NONE" THEN "PENDING" ELSE @]

(* A package sent again is enqueued again while it is not validated.       *)
UploadAgain(u, v, p) ==
  /\ ver[v].status \in {"QUARANTINED", "VALIDATING"} /\ publisher = "ACTIVE" /\ Holds(u, "UPLOAD")
  /\ ver[v].sum = p /\ ver[v].obj # None
  /\ val' = Pending(v, p) /\ job' = Enqueued(v, p)
  /\ UNCHANGED <<ver, ext, publisher, key, approvals, inst, objs, slot, wk, sender, lost, used>>

BeginUpload(s, u, v, p) ==
  /\ ver[v].status = "UPLOADED" /\ publisher = "ACTIVE" /\ Holds(u, "UPLOAD")
  /\ ~(ver[v].sum = p /\ ver[v].obj # None)
  /\ Begin("upload", s, v, "stored", u, None, p)
  /\ objs' = objs \cup {<<"quarantine", v, p>>}
  /\ UNCHANGED <<rows, job, wk, sender, lost>>

(* The transaction that quarantines the version.                           *)
Quarantine(s) ==
  /\ At(s, "stored") /\ Present(slot[s].v)
  /\ LET v == slot[s].v p == slot[s].p IN
       /\ Overwrite(s, [ver[v] EXCEPT !.obj = "quarantine", !.sum = p, !.status = "QUARANTINED"],
                    "enqueue")
       /\ val' = Pending(v, p)
       /\ sender' = [sender EXCEPT ![v] = slot[s].u]
  /\ UNCHANGED <<ext, publisher, key, approvals, inst, objs, job, used>>

EnqueueUpload(s) ==
  /\ At(s, "enqueue")
  /\ job' = Enqueued(slot[s].v, slot[s].p)
  /\ Finish(s)
  /\ UNCHANGED <<rows, objs, wk, sender, lost, used>>

-----------------------------------------------------------------------------
(* completePackageUpload, run by a worker for one job.                     *)
Fetch(w, v, p) ==
  /\ wk[w].pc = "idle" /\ job[v][p] = "waiting"
  /\ job' = [job EXCEPT ![v][p] = "active"]
  /\ wk' = [wk EXCEPT ![w] = [IdleRun EXCEPT !.pc = "read", !.v = v, !.p = p]]
  /\ UNCHANGED <<rows, objs, slot, sender, lost, used>>

(* The attempt ends.  A job that was handed out again in the meantime is   *)
(* settled by the worker that has it now.                                  *)
Settle(w, result) ==
  job' = [job EXCEPT ![wk[w].v][wk[w].p] =
            IF \E x \in Worker \ {w} : wk[x].pc # "idle" /\ wk[x].v = wk[w].v /\ wk[x].p = wk[w].p
            THEN @ ELSE IF @ = "active" THEN result ELSE @]

(* Faulty variant: a validation that has a verdict is carried out again.   *)
StartValidationAgain(w) ==
  LET v == wk[w].v p == wk[w].p IN
  /\ wk[w].pc = "read" /\ Present(v) /\ ver[v].sum = p
  /\ wk' = [wk EXCEPT ![w].pc = "scan"]
  /\ UNCHANGED <<rows, objs, slot, job, sender, lost, used>>

(* Identities are checked; a validation with a verdict ends the attempt.   *)
StartValidation(w) ==
  LET v == wk[w].v p == wk[w].p IN
  /\ wk[w].pc = "read"
  /\ IF ~Present(v) \/ ver[v].sum # p \/ ver[v].obj = None
     THEN Settle(w, "failed") /\ wk' = [wk EXCEPT ![w] = IdleRun] /\ UNCHANGED <<ver, val, slot>>
     ELSE IF val[v][p] \in {"PASSED", "FAILED"}
     THEN Settle(w, "completed") /\ wk' = [wk EXCEPT ![w] = IdleRun] /\ UNCHANGED <<ver, val, slot>>
     ELSE /\ val' = [val EXCEPT ![v][p] = "RUNNING"]
          /\ IF ver[v].status \in {"QUARANTINED", "VALIDATING"}
             THEN /\ ver' = [ver EXCEPT ![v].status = "VALIDATING"]
                  /\ slot' = StaleRequests(None, {v})
             ELSE UNCHANGED <<ver, slot>>
          /\ wk' = [StaleRuns(w, {v}) EXCEPT ![w].pc = "scan", ![w].manifest = ver[v].manifest]
          /\ UNCHANGED job
  /\ UNCHANGED <<ext, publisher, key, approvals, inst, objs, sender, lost, used>>

(* The package is downloaded, scanned and validated; an attempt that       *)
(* cannot read it, or reach the scanner, throws.                           *)
Scan(w) ==
  /\ wk[w].pc = "scan"
  /\ \/ /\ <<ver[wk[w].v].obj, wk[w].v, wk[w].p>> \in objs
        /\ wk' = [wk EXCEPT ![w].pc = "finish"] /\ UNCHANGED job
     \/ Settle(w, "failed") /\ wk' = [wk EXCEPT ![w] = IdleRun]
  /\ UNCHANGED <<rows, objs, slot, sender, lost, used>>

(* The transaction that records the verdict.                               *)
Verdict(w) ==
  LET v == wk[w].v p == wk[w].p IN
  /\ wk[w].pc = "finish"
  /\ IF Present(v)
     THEN \E ok \in BOOLEAN :
            /\ val' = [val EXCEPT ![v][p] = IF ok THEN "PASSED" ELSE "FAILED"]
            /\ ver' = [ver EXCEPT ![v].status = IF ok THEN "VALIDATED" ELSE "REJECTED",
                                  ![v].manifest = IF ok THEN p ELSE wk[w].manifest]
            /\ Settle(w, "completed") /\ lost' = (lost \/ wk[w].stale)
            /\ slot' = StaleRequests(None, {v})
            /\ wk' = [StaleRuns(w, {v}) EXCEPT ![w] = IdleRun]
     ELSE /\ Settle(w, "failed") /\ wk' = [wk EXCEPT ![w] = IdleRun]
          /\ UNCHANGED <<ver, val, lost, slot>>
  /\ UNCHANGED <<ext, publisher, key, approvals, inst, objs, sender, used>>

(* BullMQ takes the job of a worker that no longer renews its lock.        *)
Redeliver(v, p) ==
  /\ job[v][p] = "active" /\ used.stalls < Redeliveries
  /\ job' = [job EXCEPT ![v][p] = "waiting"]
  /\ used' = [used EXCEPT !.stalls = @ + 1]
  /\ UNCHANGED <<rows, objs, slot, wk, sender, lost>>

-----------------------------------------------------------------------------
(* transition: the request reads, decides and, to publish, signs; then it  *)
(* writes the status; then what follows from it.                           *)
RoleFor(to) == CASE to \in {"APPROVED", "REJECTED"} -> "REVIEW"
                 [] to = "AWAITING_REVIEW"          -> "UPLOAD"
                 [] OTHER                           -> "PUBLISH"

(* Faulty variant: the separation of uploader and reviewer is not checked. *)
AnyoneDecides(u, v, to) == TRUE

MayDecide(u, v, to) ==
  Separation /\ to \in {"APPROVED", "REJECTED"} => ver[v].by \notin {None, u}

BeginTransition(s, u, v, to) ==
  /\ Present(v) /\ to \in AllowedTransitions[ver[v].status]
  /\ Holds(u, RoleFor(to)) /\ MayDecide(u, v, to)
  /\ to = "PUBLISHED" => publisher = "ACTIVE"
  /\ Begin("decide", s, v, IF to = "PUBLISHED" THEN "publish" ELSE "write", u, to, ver[v].sum)
  /\ UNCHANGED <<rows, objs, job, wk, sender, lost>>

(* Faulty variant: the checklist asks only for the approved status.        *)
ReadyWhenApproved(v) == ver[v].status = "APPROVED" /\ ver[v].obj = "quarantine"

(* publicationChecklist; dependencies are checked in ExtensionGraph.       *)
Ready(v) ==
  LET row == ver[v] IN
  /\ row.status = "APPROVED"
  /\ \E p \in Package : val[v][p] = "PASSED"
  /\ approvals[v] # {}
  /\ Separation => row.by # None /\ row.reviewer \notin {None, row.by}
  /\ row.obj = "quarantine"
  /\ publisher = "ACTIVE" /\ key = "ACTIVE"

(* Faulty variant: the status is written without the copy.                 *)
PublishUncopied(s) ==
  /\ At(s, "publish")
  /\ IF Present(slot[s].v) /\ Ready(slot[s].v) THEN Goto(s, "write") ELSE Finish(s)
  /\ UNCHANGED <<rows, objs, job, wk, sender, lost, used>>

(* signForPublication, and the copy to the published object.               *)
Publish(s) ==
  LET v == slot[s].v IN
  /\ At(s, "publish")
  /\ IF Present(v) /\ Ready(v) /\ slot[s].obj = "quarantine" /\ ~ver[v].signed
          /\ <<"quarantine", v, slot[s].p>> \in objs
     THEN Goto(s, "write") /\ objs' = objs \cup {<<"published", v, slot[s].p>>}
     ELSE Finish(s) /\ UNCHANGED objs
  /\ UNCHANGED <<rows, job, wk, sender, lost, used>>

Transition(s) ==
  LET v == slot[s].v to == slot[s].to IN
  /\ At(s, "write") /\ Present(v)
  /\ Overwrite(s, [ver[v] EXCEPT
         !.status = to,
         !.reviewer = IF to \in {"APPROVED", "REJECTED"} THEN slot[s].u ELSE @,
         !.obj = IF to = "PUBLISHED" THEN "published" ELSE @,
         !.signed = @ \/ to = "PUBLISHED"],
       IF to \in {"PUBLISHED", "BLOCKED", "RETIRED", "APPROVED"} THEN "effects" ELSE "idle")
  /\ UNCHANGED <<ext, publisher, key, val, approvals, inst, objs, job, sender, used>>

(* Faulty variant: what is disabled takes the name of a status.            *)
DisabledByName(V) == [s \in School |-> IF inst[s].v \in V THEN [inst[s] EXCEPT !.state = "DISABLED"]
                                       ELSE inst[s]]

Disabled(V) == [s \in School |-> IF inst[s].state = "ACTIVE" /\ inst[s].v \in V
                                 THEN [inst[s] EXCEPT !.state = "INSTALLED"] ELSE inst[s]]

Effects(s) ==
  LET v == slot[s].v IN
  /\ At(s, "effects") /\ ~Refused(s) /\ Finish(s)
  /\ CASE slot[s].to = "PUBLISHED" ->
            /\ ext' = "ACTIVE"
            /\ objs' = objs \ {<<"quarantine", v, slot[s].p>>} /\ UNCHANGED <<inst, approvals>>
       [] slot[s].to = "BLOCKED" -> inst' = Disabled({v}) /\ UNCHANGED <<ext, objs, approvals>>
       [] slot[s].to = "RETIRED" ->
            /\ ext' = IF \A w \in Version \ {v} : Present(w) => ver[w].status \in {"RETIRED", "REJECTED"}
                      THEN "RETIRED" ELSE ext
            /\ UNCHANGED <<inst, objs, approvals>>
       [] OTHER -> /\ approvals' = [approvals EXCEPT ![v] = @ \cup {slot[s].u}]
                   /\ UNCHANGED <<ext, inst, objs>>
  /\ lost' = (lost \/ (slot[s].to = "PUBLISHED" /\ publisher # "ACTIVE"))
  /\ UNCHANGED <<ver, publisher, key, val, job, wk, sender, used>>

-----------------------------------------------------------------------------
(* appeal: the rejection that was read is claimed in the transaction.      *)
BeginAppeal(s, u, v) ==
  /\ ver[v].status = "REJECTED" /\ ver[v].reviewer # None
  /\ publisher = "ACTIVE" /\ Holds(u, "UPLOAD")
  /\ Begin("appeal", s, v, "appeal", ver[v].reviewer, None, None)
  /\ UNCHANGED <<rows, objs, job, wk, sender, lost>>

(* Faulty variant: the appeal overwrites the version by id.                *)
AppealById(s) ==
  LET v == slot[s].v IN
  /\ At(s, "appeal") /\ Present(v)
  /\ ver' = [ver EXCEPT ![v].status = "AWAITING_REVIEW", ![v].reviewer = None]
  /\ slot' = [StaleRequests(s, {v}) EXCEPT ![s] = IdleRequest]
  /\ wk' = StaleRuns(None, {v})
  /\ UNCHANGED <<ext, publisher, key, val, approvals, inst, objs, job, sender, lost, used>>

Appeal(s) ==
  LET v == slot[s].v IN
  /\ At(s, "appeal")
  /\ IF ver[v].status = "REJECTED" /\ ver[v].reviewer = slot[s].u
     THEN /\ ver' = [ver EXCEPT ![v].status = "AWAITING_REVIEW", ![v].reviewer = None]
          /\ slot' = [StaleRequests(s, {v}) EXCEPT ![s] = IdleRequest]
          /\ wk' = StaleRuns(None, {v})
     ELSE Finish(s) /\ UNCHANGED <<ver, wk>>
  /\ UNCHANGED <<ext, publisher, key, val, approvals, inst, objs, job, sender, lost, used>>

(* deleteVersion: the objects, then the row.                               *)
BeginDelete(s, u, v) ==
  /\ ver[v].status \in {"UPLOADED", "VALIDATED", "REJECTED"} /\ Holds(u, "MANAGE")
  /\ \A x \in School : inst[x].v # v
  /\ Begin("delete", s, v, "dropObjects", u, None, None)
  /\ UNCHANGED <<rows, objs, job, wk, sender, lost>>

DropObjects(s) ==
  /\ At(s, "dropObjects") /\ Goto(s, "dropRow")
  /\ objs' = objs \ slot[s].drops
  /\ UNCHANGED <<rows, job, wk, sender, lost, used>>

Gone(V) == [v \in Version |-> IF v \in V /\ Present(v) THEN [NoVersion EXCEPT !.status = "DELETED"]
                              ELSE ver[v]]

DropRow(s) ==
  LET v == slot[s].v IN
  /\ At(s, "dropRow") /\ Present(v) /\ \A x \in School : inst[x].v # v
  /\ Overwrite(s, [NoVersion EXCEPT !.status = "DELETED"], "idle")
  /\ val' = [val EXCEPT ![v] = [p \in Package |-> "NONE"]]
  /\ approvals' = [approvals EXCEPT ![v] = {}]
  /\ UNCHANGED <<ext, publisher, key, inst, objs, job, sender, used>>

(* deleteExtension of an extension that is not a core module.              *)
BeginPurge(s, u) ==
  /\ ext = "RETIRED" /\ Holds(u, "MANAGE")
  /\ \A v \in Version : Present(v) => ver[v].status \in {"RETIRED", "REJECTED"}
  /\ \A x \in School : inst[x].state \notin {"INSTALLED", "ACTIVE"}
  /\ Begin("purge", s, None, "purgeObjects", u, None, None)
  /\ UNCHANGED <<rows, objs, job, wk, sender, lost>>

PurgeObjects(s) ==
  /\ At(s, "purgeObjects") /\ Goto(s, "purgeRows")
  /\ objs' = objs \ slot[s].drops
  /\ UNCHANGED <<rows, job, wk, sender, lost, used>>

PurgeRows(s) ==
  /\ At(s, "purgeRows")
  /\ ext' = "DELETED"
  /\ ver' = Gone(Version)
  /\ val' = [v \in Version |-> [p \in Package |-> "NONE"]]
  /\ approvals' = [v \in Version |-> {}]
  /\ inst' = [x \in School |-> [v |-> None, state |-> "UNINSTALLED"]]
  /\ slot' = [StaleRequests(s, Version) EXCEPT ![s] = IdleRequest]
  /\ wk' = StaleRuns(None, Version) /\ lost' = (lost \/ slot[s].stale)
  /\ UNCHANGED <<publisher, key, objs, job, sender, used>>

-----------------------------------------------------------------------------
(* setPublisherStatus and setSigningKeyStatus.                             *)
BeginPublisher(s, u, to) ==
  /\ Holds(u, "MANAGE")
  /\ Begin("publisher", s, None, "publisher", u, to, None)
  /\ UNCHANGED <<rows, objs, job, wk, sender, lost>>

SetPublisherStatus(s) ==
  /\ At(s, "publisher")
  /\ publisher' = slot[s].to
  /\ slot' = [StaleRequests(s, Version) EXCEPT ![s].pc = "suspend"]
  /\ UNCHANGED <<ver, ext, key, val, approvals, inst, objs, job, wk, sender, lost, used>>

(* Faulty variant: the extensions themselves stay active.                  *)
SuspendInstallations(s) ==
  /\ At(s, "suspend") /\ Finish(s)
  /\ inst' = IF slot[s].to = "ACTIVE" THEN inst ELSE Disabled(Version)
  /\ UNCHANGED <<ver, ext, publisher, key, val, approvals, objs, job, wk, sender, lost, used>>

SuspendExtensions(s) ==
  /\ At(s, "suspend") /\ Finish(s)
  /\ IF slot[s].to = "ACTIVE"
     THEN /\ ext' = IF ext = "SUSPENDED" THEN "ACTIVE" ELSE ext
          /\ UNCHANGED inst
     ELSE /\ ext' = IF ext = "DELETED" THEN ext ELSE "SUSPENDED"
          /\ inst' = Disabled(Version)
  /\ lost' = (lost \/ slot[s].to # publisher)
  /\ UNCHANGED <<ver, publisher, key, val, approvals, objs, job, wk, sender, used>>

(* The key is the configured one, which cannot be retired.                 *)
BeginKey(s, u, to) ==
  /\ key = "REVOKED" => to = "REVOKED"
  /\ Holds(u, "MANAGE")
  /\ Begin("key", s, None, "key", u, to, None)
  /\ UNCHANGED <<rows, objs, job, wk, sender, lost>>

SetSigningKeyStatus(s) ==
  /\ At(s, "key")
  /\ key' = slot[s].to
  /\ slot' = [StaleRequests(s, Version) EXCEPT
                ![s] = IF slot[s].to = "REVOKED" THEN [@ EXCEPT !.pc = "block"] ELSE IdleRequest]
  /\ UNCHANGED <<ver, ext, publisher, val, approvals, inst, objs, job, wk, sender, lost, used>>

Signed == {v \in Version : ver[v].signed}

BlockSigned(s) ==
  LET V == {v \in Signed : ver[v].status \in {"PUBLISHED", "DEPRECATED"}} IN
  /\ At(s, "block")
  /\ ver' = [v \in Version |-> IF v \in V THEN [ver[v] EXCEPT !.status = "BLOCKED"] ELSE ver[v]]
  /\ slot' = [StaleRequests(s, V) EXCEPT ![s].pc = "disable"]
  /\ wk' = StaleRuns(None, V)
  /\ UNCHANGED <<ext, publisher, key, val, approvals, inst, objs, job, sender, lost, used>>

DisableSigned(s) ==
  /\ At(s, "disable") /\ Finish(s)
  /\ inst' = Disabled(Signed)
  /\ UNCHANGED <<ver, ext, publisher, key, val, approvals, objs, job, wk, sender, lost, used>>

-----------------------------------------------------------------------------
(* A school installs, activates, deactivates and uninstalls a version.     *)
(* verifyPublished and verifyForRuntime ask for the same.                  *)
Verified(v) ==
  /\ ver[v].signed /\ key # "REVOKED" /\ ver[v].status \in {"PUBLISHED", "DEPRECATED"}
  /\ ver[v].obj = "published" /\ <<"published", v, ver[v].sum>> \in objs

BeginInstall(s, x, v) ==
  /\ inst[x].state = "APPROVED" /\ ver[v].status = "PUBLISHED" /\ Verified(v)
  /\ Begin("school", s, v, "install", x, None, None)
  /\ UNCHANGED <<rows, objs, job, wk, sender, lost>>

Install(s) ==
  /\ At(s, "install") /\ Finish(s)
  /\ inst' = IF Present(slot[s].v) THEN [inst EXCEPT ![slot[s].u] = [v |-> slot[s].v, state |-> "INSTALLED"]]
             ELSE inst
  /\ UNCHANGED <<ver, ext, publisher, key, val, approvals, objs, job, wk, sender, lost, used>>

BeginActivate(s, x) ==
  /\ inst[x].state = "INSTALLED" /\ ver[inst[x].v].status = "PUBLISHED" /\ Verified(inst[x].v)
  /\ Begin("school", s, inst[x].v, "activate", x, None, None)
  /\ UNCHANGED <<rows, objs, job, wk, sender, lost>>

Activate(s) ==
  /\ At(s, "activate") /\ Finish(s)
  /\ inst' = IF Present(slot[s].v) THEN [inst EXCEPT ![slot[s].u].state = "ACTIVE"] ELSE inst
  /\ UNCHANGED <<ver, ext, publisher, key, val, approvals, objs, job, wk, sender, lost, used>>

Uninstall(x) ==
  /\ inst[x].state \in {"INSTALLED", "ACTIVE"}
  /\ inst' = [inst EXCEPT ![x].state = "UNINSTALLED"]
  /\ UNCHANGED <<ver, ext, publisher, key, val, approvals, objs, slot, job, wk, sender, lost, used>>

(* The process of the API is gone.                                         *)
Crash(s) ==
  /\ slot[s].pc # "idle" /\ used.crashes < Crashes
  /\ used' = [used EXCEPT !.crashes = @ + 1] /\ Finish(s)
  /\ UNCHANGED <<rows, objs, job, wk, sender, lost>>

-----------------------------------------------------------------------------
Publishers(u) ==
  \/ \E v \in Version : CreateVersion(u, v)
  \/ \E v \in Version, p \in Package : UploadAgain(u, v, p)

Starts(s) ==
  \/ \E v \in Version : BeginDraft(s, v)
  \/ \E u \in User, v \in Version, p \in Package : BeginUpload(s, u, v, p)
  \/ \E u \in User, v \in Version, to \in Status : BeginTransition(s, u, v, to)
  \/ \E u \in User, v \in Version : BeginAppeal(s, u, v)
  \/ \E u \in User, v \in Version : BeginDelete(s, u, v)
  \/ \E u \in User : BeginPurge(s, u)
  \/ \E u \in User, to \in {"ACTIVE", "SUSPENDED", "REVOKED"} : BeginPublisher(s, u, to)
  \/ \E u \in User, to \in {"ACTIVE", "REVOKED"} : BeginKey(s, u, to)
  \/ \E x \in School, v \in Version : BeginInstall(s, x, v)
  \/ \E x \in School : BeginActivate(s, x)

Continues(s) ==
  \/ UpdateDraft(s) \/ Quarantine(s) \/ EnqueueUpload(s) \/ Publish(s) \/ Transition(s)
  \/ Effects(s) \/ Appeal(s) \/ DropObjects(s) \/ DropRow(s) \/ PurgeObjects(s) \/ PurgeRows(s)
  \/ SetPublisherStatus(s) \/ SuspendExtensions(s) \/ SetSigningKeyStatus(s) \/ BlockSigned(s)
  \/ DisableSigned(s) \/ Install(s) \/ Activate(s) \/ Fail(s)

Validates(w) ==
  \/ \E v \in Version, p \in Package : Fetch(w, v, p)
  \/ StartValidation(w) \/ Scan(w) \/ Verdict(w)

Next ==
  \/ \E u \in User : Publishers(u)
  \/ \E s \in Slot : Starts(s) \/ Continues(s) \/ Crash(s)
  \/ \E w \in Worker : Validates(w)
  \/ \E v \in Version, p \in Package : Redeliver(v, p)
  \/ \E x \in School : Uninstall(x)

Spec == Init /\ [][Next]_vars

-----------------------------------------------------------------------------
(* ExtensionRuntimeService.installation: the extension a school can call.  *)
Runs(x) ==
  /\ inst[x].state = "ACTIVE" /\ ext = "ACTIVE"
  /\ ver[inst[x].v].status = "PUBLISHED" /\ Verified(inst[x].v)

(* Whatever requests overlap, and wherever they crash, no school runs a    *)
(* version that somebody other than its creator did not approve, where     *)
(* uploading and reviewing are kept apart.                                 *)
RunsOnlyReviewed ==
  \A x \in School : Runs(x) => approvals[inst[x].v] \ {ver[inst[x].v].by} # {}

(* Unless a request overwrote a version that had changed since it read it, *)
(* the package a school runs is one that passed validation ...             *)
RunsOnlyValidated ==
  ~lost => \A x \in School : Runs(x) => val[inst[x].v][ver[inst[x].v].sum] = "PASSED"

(* What a school runs was reviewed and validated.                          *)
RunsOnlyChecked == RunsOnlyReviewed /\ RunsOnlyValidated

(* Unless there was such a request, the object of a published version is   *)
(* stored.                                                                 *)
PublishedIsStored ==
  ~lost => \A v \in Version : ver[v].status = "PUBLISHED" => <<"published", v, ver[v].sum>> \in objs

(* Unless such a write happened or the API crashed, a suspended publisher's *)
(* extension runs nowhere once the request that suspended it has ended.    *)
SuspendedRunsNowhere ==
  ~lost /\ used.crashes = 0 /\ publisher # "ACTIVE" /\ (\A s \in Slot : ~At(s, "suspend")) => \A x \in School : ~Runs(x)

(* A verdict on a package is final unless a job was carried out twice at   *)
(* the same time.                                                          *)
VerdictIsFinal ==
  [][\A v \in Version : \A p \in DOMAIN val[v] :
       val[v][p] \in {"PASSED", "FAILED"} /\ Present(v)' /\ ~lost' => val'[v][p] = val[v][p]]_vars

(* An appeal never undoes a decision that came after the one it read.      *)
ApprovedStaysDecided ==
  [][\A v \in Version : ver[v].status = "PUBLISHED" /\ ~lost'
       => ver'[v].status \notin {"AWAITING_REVIEW", "VALIDATED", "QUARANTINED"}]_vars

(* extensions.service.ts:849, the message of the check: "The package       *)
(* uploader cannot approve or reject the same release".                    *)
UploaderDoesNotApprove == \A v \in Version : sender[v] \notin approvals[v]
=============================================================================
