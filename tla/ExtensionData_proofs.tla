------------------------ MODULE ExtensionData_proofs ------------------------
(***************************************************************************)
(* Proofs about what an extension keeps for a school, for any values of    *)
(* the constants of MCInstallations: If-Match protects what a client has   *)
(* not read against every other writer, migrations and purges included,    *)
(* until a rollback gives a record a concurrency version for the second    *)
(* time; and the counted bytes are those of the rows.  Then the parts that *)
(* MCInstallations composes with it: a publisher's team, the evidence of a *)
(* payment, and the dependencies between a school's extensions.            *)
(***************************************************************************)
EXTENDS MCInstallations, FiniteSetTheorems, TLAPS

RowShape == [val : Content \cup {None}, form : Nat, ver : Nat]

ClientShape == [op : {"idle", "create", "update", "delete"}, r : Record \cup {None}, v : {1, 2},
                ver : Nat, saw : RowShape, new : Content \cup {None}]

PastShape == [rollbacks : Nat, purged : SUBSET Purger, crashes : Nat]

(* The shape of the state, as far as the argument needs it.                *)
Shape ==
  /\ rec \in [Record -> RowShape]
  /\ client \in [Client -> ClientShape]
  /\ DOMAIN inst = {"state", "due", "bytes", "v"} /\ inst.v \in {1, 2}

(* A record a client has read is gone for good, or has been written since  *)
(* under a greater version, or is still what the client read.              *)
Follows(entry, c) ==
  \/ entry = Deleted
  \/ /\ Exists(entry) /\ entry.ver >= c.ver
     /\ entry.ver = c.ver => entry = c.saw

Lineage ==
  \A k \in Client :
    /\ client[k].op # "create" /\ client[k].r # None => Follows(rec[client[k].r], client[k])
    /\ client[k].op # "idle" => client[k].r \in Record

Clean == ~blind /\ Shape /\ Lineage

IInv == past \in PastShape /\ (past.rollbacks = 0 => Clean)

USE DataAssumption

LEMMA InitIInv == DataInit => IInv
<1> SUFFICES ASSUME DataInit PROVE IInv
  OBVIOUS
<1>1. past \in PastShape
  BY DEF DataInit, PastShape
<1>2. Gone \in RowShape
  BY DEF Gone, RowShape
<1>3. Shape
  BY <1>2 DEF DataInit, Shape, IdleClient, ClientShape
<1>4. Lineage
  BY DEF DataInit, Lineage, IdleClient
<1>5. QED
  BY <1>1, <1>3, <1>4 DEF DataInit, IInv, Clean

(* The counters and the state of the installation change, not its version. *)
LEMMA InstOK ==
  ASSUME Shape, NEW b, NEW s, NEW d,
         inst' \in {inst, [inst EXCEPT !.bytes = b], [inst EXCEPT !.state = s],
                    [inst EXCEPT !.state = s, !.due = d], [inst EXCEPT !.due = d],
                    [inst EXCEPT !.state = s, !.bytes = b]}
  PROVE  DOMAIN inst' = {"state", "due", "bytes", "v"} /\ inst'.v \in {1, 2}
BY DEF Shape

(* A client changes its slot.                                              *)
LEMMA ClientStep ==
  ASSUME NEW k \in Client, NEW next \in ClientShape, Clean,
         client' = [client EXCEPT ![k] = next], UNCHANGED <<rec, inst, blind>>,
         next.op # "create" /\ next.r # None => Follows(rec[next.r], next),
         next.op # "idle" => next.r \in Record
  PROVE  Clean'
<1>1. Shape'
  BY DEF Clean, Shape
<1>2. \A j \in Client : client'[j] = IF j = k THEN next ELSE client[j]
  BY DEF Clean, Shape
<1>3. Lineage'
  BY <1>2 DEF Clean, Lineage, Follows
<1>4. QED
  BY <1>1, <1>3 DEF Clean

(* A client writes a record, or records are rewritten or removed: every    *)
(* record that is changed gets a greater version, or is gone for good, and *)
(* a client that has written, or been refused, starts again.               *)
LEMMA WriteStep ==
  ASSUME Clean, rec' \in [Record -> RowShape],
         \A r \in Record : \/ rec'[r] = rec[r]
                           \/ rec[r] = Gone
                           \/ Exists(rec[r]) /\ rec'[r] = Deleted
                           \/ Exists(rec[r]) /\ Exists(rec'[r]) /\ rec'[r].ver = rec[r].ver + 1,
         \A k \in Client : client'[k] \in {client[k], IdleClient},
         client' \in [Client -> ClientShape],
         DOMAIN inst' = {"state", "due", "bytes", "v"} /\ inst'.v \in {1, 2},
         ~blind'
  PROVE  Clean'
<1>1. Shape'
  BY DEF Shape
<1>2. ASSUME NEW k \in Client, client'[k].op # "create", client'[k].r # None
      PROVE  Follows(rec'[client'[k].r], client'[k])
  <2>1. client'[k] = client[k]
    BY <1>2 DEF IdleClient
  <2> DEFINE r == client[k].r
             c == client[k]
  <2>2. r \in Record /\ c.ver \in Nat /\ rec[r] \in RowShape /\ rec'[r] \in RowShape
    BY <1>2, <2>1 DEF Clean, Shape, ClientShape
  <2>3. Follows(rec[r], c)
    BY <1>2, <2>1 DEF Clean, Lineage
  <2>4. rec[r] # Gone
    BY <2>3 DEF Follows, Gone, Deleted, Exists
  <2>5. CASE rec'[r] = rec[r]
    BY <2>1, <2>3, <2>5
  <2>6. CASE Exists(rec[r]) /\ rec'[r] = Deleted
    BY <2>1, <2>6 DEF Follows
  <2>7. CASE Exists(rec[r]) /\ Exists(rec'[r]) /\ rec'[r].ver = rec[r].ver + 1
    <3>1. rec[r].ver >= c.ver /\ rec[r].ver \in Nat
      BY <2>2, <2>3, <2>7 DEF Follows, Exists, Deleted, RowShape
    <3>2. rec'[r].ver >= c.ver /\ rec'[r].ver # c.ver
      BY <2>2, <2>7, <3>1
    <3>3. QED
      BY <2>1, <2>7, <3>2 DEF Follows
  <2>8. QED
    BY <2>2, <2>4, <2>5, <2>6, <2>7
<1>3. ASSUME NEW k \in Client, client'[k].op # "idle" PROVE client'[k].r \in Record
  BY <1>3 DEF Clean, Lineage, IdleClient
<1>4. QED
  BY <1>1, <1>2, <1>3 DEF Clean, Lineage

(* Done gives a client its idle slot.                                      *)
LEMMA DoneOK ==
  ASSUME NEW k \in Client, Clean, Done(k)
  PROVE  /\ client' \in [Client -> ClientShape]
         /\ \A j \in Client : client'[j] \in {client[j], IdleClient}
<1>1. IdleClient \in ClientShape
  <2>1. Gone \in RowShape
    BY DEF Gone, RowShape
  <2>2. QED
    BY <2>1 DEF IdleClient, ClientShape
<1>2. QED
  BY <1>1 DEF Done, Clean, Shape

-----------------------------------------------------------------------------
(* The requests of clients.                                                *)

LEMMA ReadOK ==
  ASSUME NEW k \in Client, NEW r \in Record, Clean, Read(k, r)
  PROVE  Clean'
<1> DEFINE next == [IdleClient EXCEPT !.r = r, !.ver = rec[r].ver, !.saw = rec[r]]
<1>1. client' = [client EXCEPT ![k] = next] /\ UNCHANGED <<rec, inst, blind>> /\ Exists(rec[r])
  BY DEF Read
<1>2. rec[r] \in RowShape /\ rec[r].ver \in Nat
  BY DEF Clean, Shape, RowShape
<1>3. /\ next \in ClientShape /\ next.op = "idle" /\ next.r = r
      /\ next.ver = rec[r].ver /\ next.saw = rec[r]
  <2>1. ASSUME NEW entry \in RowShape, NEW n \in Nat
        PROVE  LET now == [IdleClient EXCEPT !.r = r, !.ver = n, !.saw = entry]
               IN /\ now \in ClientShape /\ now.op = "idle" /\ now.r = r
                  /\ now.ver = n /\ now.saw = entry
    BY DEF IdleClient, ClientShape
  <2>2. QED
    BY <1>2, <2>1
<1> HIDE DEF next
<1>4. Follows(rec[r], next)
  BY <1>1, <1>2, <1>3 DEF Follows
<1>5. QED
  BY <1>1, <1>3, <1>4, ClientStep

LEMMA BeginWriteOK ==
  ASSUME NEW k \in Client, NEW op \in {"create", "update", "delete"}, NEW r \in Record,
         NEW x \in Content, Clean, BeginWrite(k, op, r, x)
  PROVE  Clean'
<1> DEFINE was == client[k]
           next == [was EXCEPT !.op = op, !.r = r, !.v = inst.v, !.new = x]
<1>1. /\ client' = [client EXCEPT ![k] = next] /\ UNCHANGED <<rec, inst, blind>>
      /\ was.op = "idle" /\ (op # "create" => was.r = r)
  BY DEF BeginWrite
<1>2. was \in ClientShape /\ inst.v \in {1, 2}
  BY DEF Clean, Shape
<1>3. /\ next \in ClientShape /\ next.op = op /\ next.r = r
      /\ next.ver = was.ver /\ next.saw = was.saw
  BY <1>2 DEF ClientShape
<1> HIDE DEF next
<1>4. op # "create" => Follows(rec[r], next)
  <2>1. op # "create" => Follows(rec[r], was)
    BY <1>1 DEF Clean, Lineage
  <2>2. QED
    BY <1>3, <2>1 DEF Follows
<1>5. QED
  BY <1>1, <1>3, <1>4, ClientStep

(* What If-Match matches is what the client has read.                      *)
LEMMA MatchedIsSeen ==
  ASSUME NEW k \in Client, Clean, client[k].op \in {"update", "delete"}, Matches(k)
  PROVE  /\ client[k].r \in Record /\ rec[client[k].r] \in RowShape
         /\ Exists(rec[client[k].r]) /\ ~Unseen(k)
<1>1. client[k].r \in Record /\ Follows(rec[client[k].r], client[k])
  BY DEF Clean, Lineage
<1>2. QED
  BY <1>1 DEF Matches, Follows, Unseen, Exists, Deleted, Clean, Shape

LEMMA CreateRecordOK ==
  ASSUME NEW k \in Client, NEW r \in Record, Clean, CreateRecord(k, r)
  PROVE  Clean'
<1> DEFINE entry == [val |-> client[k].new, form |-> client[k].v, ver |-> 1]
<1>1. /\ rec[r] = Gone /\ rec' = [rec EXCEPT ![r] = entry] /\ Charge(Size(entry)) /\ Done(k)
      /\ blind' = blind
  BY DEF CreateRecord
<1>2. entry \in RowShape
  BY DEF Clean, Shape, ClientShape, RowShape
<1> HIDE DEF entry
<1>3. DOMAIN inst' = {"state", "due", "bytes", "v"} /\ inst'.v \in {1, 2}
  BY <1>1 DEF Charge, Clean, Shape
<1>4. rec' \in [Record -> RowShape] /\ \A q \in Record : rec'[q] = rec[q] \/ rec[q] = Gone
  BY <1>1, <1>2 DEF Clean, Shape
<1>5. ~blind'
  BY <1>1 DEF Clean
<1>6. QED
  BY <1>1, <1>3, <1>4, <1>5, DoneOK, WriteStep

LEMMA UpdateRecordOK ==
  ASSUME NEW k \in Client, Clean, UpdateRecord(k)
  PROVE  Clean'
<1> DEFINE r == client[k].r
           entry == [val |-> client[k].new, form |-> client[k].v, ver |-> rec[r].ver + 1]
           delta == Size(entry) - Size(rec[r])
<1>1. /\ rec' = [rec EXCEPT ![r] = entry] /\ Charge(delta) /\ Done(k)
      /\ blind' = (blind \/ Unseen(k)) /\ client[k].op = "update" /\ Matches(k)
  BY DEF UpdateRecord
<1>2. r \in Record /\ rec[r] \in RowShape /\ Exists(rec[r]) /\ ~Unseen(k)
  BY <1>1, MatchedIsSeen
<1>3. entry \in RowShape /\ Exists(entry) /\ entry.ver = rec[r].ver + 1
  BY <1>2 DEF Clean, Shape, ClientShape, RowShape, Exists
<1> HIDE DEF entry, delta
<1>4. DOMAIN inst' = {"state", "due", "bytes", "v"} /\ inst'.v \in {1, 2}
  BY <1>1 DEF Charge, Clean, Shape
<1>5. rec' \in [Record -> RowShape] /\ \A q \in Record : rec'[q] = IF q = r THEN entry ELSE rec[q]
  BY <1>1, <1>2, <1>3 DEF Clean, Shape
<1>6. ~blind'
  BY <1>1, <1>2 DEF Clean
<1>7. ASSUME NEW q \in Record
      PROVE  \/ rec'[q] = rec[q]
             \/ Exists(rec[q]) /\ Exists(rec'[q]) /\ rec'[q].ver = rec[q].ver + 1
  <2>1. CASE q = r
    <3>1. rec'[q] = entry /\ rec[q] = rec[r]
      BY <1>5, <2>1
    <3>2. QED
      BY <1>2, <1>3, <3>1 DEF Exists
  <2>2. CASE q # r
    BY <1>5, <2>2
  <2>3. QED
    BY <2>1, <2>2
<1>8. QED
  BY <1>1, <1>4, <1>5, <1>6, <1>7, DoneOK, WriteStep

LEMMA DeleteRecordOK ==
  ASSUME NEW k \in Client, Clean, DeleteRecord(k)
  PROVE  Clean'
<1> DEFINE r == client[k].r
<1>1. /\ rec' = [rec EXCEPT ![r] = Deleted] /\ Charge(-Size(rec[r])) /\ Done(k)
      /\ blind' = (blind \/ Unseen(k)) /\ client[k].op = "delete" /\ Matches(k)
  BY DEF DeleteRecord
<1>2. r \in Record /\ Exists(rec[r]) /\ ~Unseen(k)
  BY <1>1, MatchedIsSeen
<1>3. Deleted \in RowShape
  BY DEF Deleted, RowShape
<1>4. DOMAIN inst' = {"state", "due", "bytes", "v"} /\ inst'.v \in {1, 2}
  BY <1>1 DEF Charge, Clean, Shape
<1>5. rec' \in [Record -> RowShape] /\ \A q \in Record : rec'[q] = IF q = r THEN Deleted ELSE rec[q]
  BY <1>1, <1>2, <1>3 DEF Clean, Shape
<1>6. ~blind'
  BY <1>1, <1>2 DEF Clean
<1>7. \A q \in Record : rec'[q] = rec[q] \/ (Exists(rec[q]) /\ rec'[q] = Deleted)
  BY <1>2, <1>5 DEF Exists
<1>8. QED
  BY <1>1, <1>4, <1>5, <1>6, <1>7, DoneOK, WriteStep

LEMMA ClientOK ==
  ASSUME NEW k \in Client, Clean,
         \/ \E r \in Record : Read(k, r) \/ CreateRecord(k, r)
         \/ \E r \in Record, x \in Content, op \in {"create", "update", "delete"} : BeginWrite(k, op, r, x)
         \/ UpdateRecord(k) \/ DeleteRecord(k) \/ RefuseWrite(k)
  PROVE  Clean'
<1>1. CASE RefuseWrite(k)
  <2>1. Done(k) /\ UNCHANGED <<rec, inst, blind>>
    BY <1>1 DEF RefuseWrite
  <2>2. rec' \in [Record -> RowShape] /\ DOMAIN inst' = {"state", "due", "bytes", "v"}
        /\ inst'.v \in {1, 2} /\ ~blind'
    BY <2>1 DEF Clean, Shape
  <2>3. QED
    BY <2>1, <2>2, DoneOK, WriteStep
<1>2. ASSUME NEW r \in Record, Read(k, r) \/ CreateRecord(k, r) PROVE Clean'
  BY <1>2, ReadOK, CreateRecordOK
<1>3. ASSUME NEW r \in Record, NEW x \in Content, NEW op \in {"create", "update", "delete"},
             BeginWrite(k, op, r, x)
      PROVE  Clean'
  BY <1>3, BeginWriteOK
<1>4. CASE UpdateRecord(k) \/ DeleteRecord(k)
  BY <1>4, UpdateRecordOK, DeleteRecordOK
<1>5. QED
  BY <1>1, <1>2, <1>3, <1>4

-----------------------------------------------------------------------------
(* Migrations and purges.                                                  *)

LEMMA ApplyMigrationOK ==
  ASSUME Clean, ApplyMigration
  PROVE  Clean'
<1> DEFINE now == [r \in Record |-> Migrated(rec[r])]
           delta == BytesOf(now) - Bytes
<1>1. /\ rec' = now /\ inst' = [inst EXCEPT !.v = 2, !.bytes = @ + delta]
      /\ UNCHANGED <<client, blind>>
  BY DEF ApplyMigration
<1> HIDE DEF delta
<1>2. DOMAIN inst' = {"state", "due", "bytes", "v"} /\ inst'.v \in {1, 2}
  BY <1>1 DEF Clean, Shape
<1>3. ASSUME NEW r \in Record
      PROVE  /\ rec'[r] \in RowShape
             /\ \/ rec'[r] = rec[r]
                \/ Exists(rec[r]) /\ Exists(rec'[r]) /\ rec'[r].ver = rec[r].ver + 1
  <2>1. rec[r] \in RowShape /\ rec'[r] = Migrated(rec[r])
    BY <1>1 DEF Clean, Shape
  <2> DEFINE entry == [rec[r] EXCEPT !.form = 2, !.ver = @ + 1]
  <2>a. rec[r].ver + 1 \in Nat
    BY <2>1 DEF RowShape
  <2>2. entry \in RowShape /\ entry.form = 2 /\ entry.ver = rec[r].ver + 1
    BY <2>1, <2>a DEF RowShape
  <2>3. rec'[r] = IF ~ Exists(rec[r]) THEN rec[r] ELSE entry
    BY <2>1 DEF Migrated
  <2> HIDE DEF entry
  <2>4. QED
    BY <2>1, <2>2, <2>3 DEF Exists
<1>4. rec' \in [Record -> RowShape]
  BY <1>1, <1>3
<1>5. client' \in [Client -> ClientShape] /\ ~blind'
  BY <1>1 DEF Clean, Shape
<1>6. QED
  BY <1>1, <1>2, <1>3, <1>4, <1>5, WriteStep

(* The records that NoRecords removes.                                     *)
LEMMA RemovedOK ==
  ASSUME Clean, rec' = NoRecords \/ rec' = rec, UNCHANGED <<client, blind>>,
         DOMAIN inst' = {"state", "due", "bytes", "v"} /\ inst'.v \in {1, 2}
  PROVE  Clean'
<1>1. Deleted \in RowShape
  BY DEF Deleted, RowShape
<1>2. rec' \in [Record -> RowShape]
      /\ \A r \in Record : rec'[r] = rec[r] \/ (Exists(rec[r]) /\ rec'[r] = Deleted)
  BY <1>1 DEF NoRecords, Clean, Shape, Exists
<1>3. client' \in [Client -> ClientShape] /\ ~blind'
  BY DEF Clean, Shape
<1>4. QED
  BY <1>2, <1>3, WriteStep

(* Everything else: the commands, the purges and their reports.            *)
LEMMA PurgeOK ==
  ASSUME Clean,
         \/ StartMigration \/ FailMigration \/ \E a \in {"RETRY", "ABANDON"} : InterveneMigration(a)
         \/ Deactivate \/ Uninstall \/ GraceEnds \/ RequestAgain
         \/ RemoveUninstalled \/ PurgeInstallation \/ PurgeRecordsOnly
         \/ \E p \in Purger : BeginPurge(p) \/ Prepare(p) \/ StoreReport(p) \/ Deliver(p) \/ GiveUp(p)
  PROVE  Clean'
<1> DEFINE typed == DOMAIN inst' = {"state", "due", "bytes", "v"} /\ inst'.v \in {1, 2}
<1>1. CASE StartMigration \/ FailMigration \/ \E a \in {"RETRY", "ABANDON"} : InterveneMigration(a)
  BY <1>1, RemovedOK DEF StartMigration, FailMigration, InterveneMigration, Clean, Shape
<1>2. CASE Deactivate \/ Uninstall \/ GraceEnds \/ RequestAgain
  <2>1. typed /\ UNCHANGED <<rec, client, blind>>
    BY <1>2 DEF Deactivate, Uninstall, GraceEnds, RequestAgain, Clean, Shape
  <2>2. QED
    BY <2>1, RemovedOK
<1>3. ASSUME NEW p \in Purger, NEW reports, Erase(p, reports)
      PROVE  Clean'
  <2>1. typed
    BY <1>3 DEF Erase, Clean, Shape
  <2>2. rec' = NoRecords /\ UNCHANGED <<client, blind>>
    BY <1>3 DEF Erase
  <2>3. QED
    BY <2>1, <2>2, RemovedOK
<1>4. CASE RemoveUninstalled \/ PurgeInstallation
  BY <1>3, <1>4 DEF RemoveUninstalled, PurgeInstallation, Purger
<1>5. CASE PurgeRecordsOnly
  <2>1. typed /\ rec' = NoRecords /\ UNCHANGED <<client, blind>>
    BY <1>5 DEF PurgeRecordsOnly, Clean, Shape
  <2>2. QED
    BY <2>1, RemovedOK
<1>6. ASSUME NEW p \in Purger, BeginPurge(p) \/ Prepare(p) \/ StoreReport(p) \/ Deliver(p)
      PROVE  Clean'
  <2>1. typed /\ UNCHANGED <<rec, client, blind>>
    BY <1>6 DEF BeginPurge, Prepare, StoreReport, Deliver, Clean, Shape
  <2>2. QED
    BY <2>1, RemovedOK
<1>7. ASSUME NEW p \in Purger, GiveUp(p)
      PROVE  Clean'
  <2>1. typed /\ UNCHANGED <<rec, client, blind>>
    BY <1>7 DEF GiveUp, Clean, Shape
  <2>2. QED
    BY <2>1, RemovedOK
<1>8. QED
  BY <1>1, <1>2, <1>4, <1>5, <1>6, <1>7

-----------------------------------------------------------------------------
(* A rollback is remembered.                                               *)
LEMMA PastOK ==
  ASSUME past \in PastShape, [DataNext]_dataVars
  PROVE  past' \in PastShape /\ past'.rollbacks \in {past.rollbacks, 1}
<1>1. /\ past.rollbacks \in Nat /\ past.crashes + 1 \in Nat
  BY DEF PastShape
<1>2. \/ past' = past
      \/ past' = [past EXCEPT !.rollbacks = 1]
      \/ past' = [past EXCEPT !.crashes = @ + 1]
      \/ \E p \in Purger : past' = [past EXCEPT !.purged = @ \cup {p}]
      \/ past' = [past EXCEPT !.purged = @]
  <2>1. CASE RollbackMigration
    BY <2>1 DEF RollbackMigration
  <2>2. CASE RemoveUninstalled \/ PurgeInstallation \/ PurgeRecordsOnly
    <3>1. CASE RemoveUninstalled
      BY <3>1 DEF RemoveUninstalled, Erase, Purger
    <3>2. CASE PurgeInstallation
      BY <3>2 DEF PurgeInstallation, Erase, Purger
    <3>3. CASE PurgeRecordsOnly
      <4>1. past' = [past EXCEPT !.purged = IF Removed = {} THEN @ ELSE @ \cup {"SCHEDULED"}]
        BY <3>3 DEF PurgeRecordsOnly
      <4>2. QED
        BY <4>1 DEF Purger
    <3>4. QED
      BY <2>2, <3>1, <3>2, <3>3
  <2>3. CASE \E p \in Purger : BeginPurge(p) \/ Prepare(p) \/ StoreReport(p) \/ Deliver(p) \/ GiveUp(p)
    BY <2>3 DEF BeginPurge, Prepare, StoreReport, Deliver, GiveUp
  <2>4. CASE \/ StartMigration \/ ApplyMigration \/ FailMigration
             \/ \E a \in {"RETRY", "ABANDON"} : InterveneMigration(a)
             \/ Deactivate \/ Uninstall \/ GraceEnds \/ RequestAgain
    BY <2>4 DEF StartMigration, ApplyMigration, FailMigration, InterveneMigration,
                Deactivate, Uninstall, GraceEnds, RequestAgain
  <2>5. CASE \E c \in Client :
               \/ \E r \in Record : Read(c, r) \/ CreateRecord(c, r)
               \/ \E r \in Record, x \in Content, op \in {"create", "update", "delete"} :
                     BeginWrite(c, op, r, x)
               \/ UpdateRecord(c) \/ DeleteRecord(c) \/ RefuseWrite(c)
    <3>1. ASSUME NEW c \in Client, NEW r \in Record, Read(c, r) \/ CreateRecord(c, r) PROVE past' = past
      BY <3>1 DEF Read, CreateRecord
    <3>2. ASSUME NEW c \in Client, NEW r \in Record, NEW x \in Content,
                 NEW op \in {"create", "update", "delete"}, BeginWrite(c, op, r, x)
          PROVE  past' = past
      BY <3>2 DEF BeginWrite
    <3>3. ASSUME NEW c \in Client, UpdateRecord(c) \/ DeleteRecord(c) \/ RefuseWrite(c) PROVE past' = past
      BY <3>3 DEF UpdateRecord, DeleteRecord, RefuseWrite
    <3>4. QED
      BY <2>5, <3>1, <3>2, <3>3
  <2>6. CASE UNCHANGED dataVars
    BY <2>6 DEF dataVars
  <2>7. QED
    BY <2>1, <2>2, <2>3, <2>4, <2>5, <2>6 DEF DataNext
<1>3. ASSUME past' = [past EXCEPT !.rollbacks = 1]
      PROVE  past' \in PastShape /\ past'.rollbacks = 1
  BY <1>3 DEF PastShape
<1>4. ASSUME past' = [past EXCEPT !.crashes = @ + 1]
      PROVE  past' \in PastShape /\ past'.rollbacks = past.rollbacks
  BY <1>1, <1>4 DEF PastShape
<1>5. ASSUME NEW p \in Purger, past' = [past EXCEPT !.purged = @ \cup {p}]
      PROVE  past' \in PastShape /\ past'.rollbacks = past.rollbacks
  BY <1>5 DEF PastShape
<1>6. ASSUME past' = [past EXCEPT !.purged = @]
      PROVE  past' \in PastShape /\ past'.rollbacks = past.rollbacks
  BY <1>6 DEF PastShape
<1>7. QED
  BY <1>2, <1>3, <1>4, <1>5, <1>6

LEMMA NextIInv == IInv /\ [DataNext]_dataVars => IInv'
<1> SUFFICES ASSUME IInv, [DataNext]_dataVars PROVE IInv'
  OBVIOUS
<1>1. past' \in PastShape /\ past'.rollbacks \in {past.rollbacks, 1}
  BY PastOK DEF IInv
<1>2. SUFFICES ASSUME past'.rollbacks = 0 PROVE Clean'
  BY <1>1 DEF IInv
<1>3. Clean
  BY <1>1, <1>2 DEF IInv
<1>4. CASE UNCHANGED dataVars
  BY <1>3, <1>4 DEF dataVars, Clean, Shape, Lineage, Follows
<1>5. CASE DataNext
  <2>1. ~RollbackMigration
    <3>1. RollbackMigration => past' = [past EXCEPT !.rollbacks = 1]
      BY DEF RollbackMigration
    <3>2. QED
      BY <1>2, <3>1 DEF IInv, PastShape
  <2>2. ASSUME NEW c \in Client,
               \/ \E r \in Record : Read(c, r) \/ CreateRecord(c, r)
               \/ \E r \in Record, x \in Content, op \in {"create", "update", "delete"} :
                     BeginWrite(c, op, r, x)
               \/ UpdateRecord(c) \/ DeleteRecord(c) \/ RefuseWrite(c)
        PROVE  Clean'
    BY <1>3, <2>2, ClientOK
  <2>3. QED
    BY <1>3, <1>5, <2>1, <2>2, ApplyMigrationOK, PurgeOK DEF DataNext
<1>6. QED
  BY <1>4, <1>5

(* ExtensionRuntimeService: no client overwrites or deletes what it has    *)
(* not read, as long as no migration was rolled back.                      *)
THEOREM WritesAreSeen == DataSpec => []NoLostUpdate
<1>1. IInv => NoLostUpdate
  BY DEF IInv, Clean, NoLostUpdate, PastShape
<1>2. QED
  BY InitIInv, NextIInv, <1>1, PTL DEF DataSpec

TeamSpec == Team!TeamInit /\ [][Team!Next]_Team!tVars

TeamRequest ==
  [op : {"idle", "member", "status", "verify", "publisher", "register"}, u : User \cup {None},
   member : Team!Member, k : KeyId \cup {None}, pem : Pem \cup {None},
   to : {"ACTIVE", "SUSPENDED", "REVOKED", "VERIFIED", "REJECTED", None}, stale : BOOLEAN]

TeamShape ==
  /\ team \in [User -> Team!Member] /\ org \in Team!Publisher
  /\ keys \in [KeyId -> Team!KeyRow] /\ ask \in [Ask -> TeamRequest]

(* What a request in flight is about, and what it found when it began,     *)
(* which holds as long as no other request has written such rows.          *)
Meant(q) ==
  /\ q.op \in {"member", "status"} => q.u \in User
  /\ q.op = "member" => q.member.status = "ACTIVE"
  /\ q.op = "status" => q.to \in {"ACTIVE", "SUSPENDED"}
  /\ q.op = "verify" => q.to \in {"VERIFIED", "REJECTED"}
  /\ q.op = "publisher" => q.to \in {"ACTIVE", "SUSPENDED", "REVOKED"}
  /\ q.op = "register" => q.k \in KeyId /\ q.pem \in Pem
Demotes(q) ==
  \/ q.op = "member" /\ "MANAGE" \notin q.member.roles
  \/ q.op = "status" /\ q.to = "SUSPENDED"
Found(q) ==
  /\ Demotes(q) /\ Team!Manages(team[q.u]) => Team!AnotherManager(q.u)
  /\ q.op = "publisher" /\ q.to = "ACTIVE" => org.verification = "VERIFIED"
  /\ q.op = "register" => \A x \in KeyId : keys[x].pem # q.pem
Asked == \A a \in Ask : Meant(ask[a]) /\ (~ ask[a].stale => Found(ask[a]))

(* Before it is onboarded a publisher has nobody who could ask.            *)
Founded ==
  org.status = "NONE" => /\ \A u \in User : team[u].status = "NONE"
                         /\ \A a \in Ask : ask[a].op = "idle"
Registered == \A k \in KeyId : keys[k].status # "NONE" => keys[k].pem \in Pem

TeamInv ==
  /\ TeamShape /\ Asked /\ Founded /\ Registered
  /\ Team!ManagerRemains /\ Team!PemOnce /\ Team!ActiveIsVerified

LEMMA IdleTeam ==
  /\ Team!Idle \in TeamRequest /\ Team!Idle.op = "idle" /\ ~ Team!Idle.stale
  /\ Meant(Team!Idle) /\ Found(Team!Idle)
<1>1. [roles |-> {}, status |-> "NONE"] \in Team!Member
  BY DEF Team!Member, Team!Roles
<1>2. QED
  BY <1>1 DEF Team!Idle, TeamRequest, Meant, Found, Demotes

(* What a request found stands while no row is written.                    *)
LEMMA FoundStays ==
  /\ team' = team /\ org' = org /\ keys' = keys
  /\ \A x \in Ask : Meant(ask'[x]) /\ (~ ask'[x].stale => Found(ask'[x]))
  => Asked'
<1>. SUFFICES ASSUME team' = team, org' = org, keys' = keys,
                     \A x \in Ask : Meant(ask'[x]) /\ (~ ask'[x].stale => Found(ask'[x]))
              PROVE  Asked'
  OBVIOUS
<1>1. SUFFICES ASSUME NEW x \in Ask PROVE Meant(ask[x])' /\ (~ ask[x].stale => Found(ask[x]))'
  BY DEF Asked
<1>2. PICK q : q = ask'[x]
  OBVIOUS
<1>3. Meant(q) /\ (~ q.stale => Found(q))
  BY <1>2
<1>4. Meant(ask[x])'
  BY <1>2, <1>3 DEF Meant
<1>5. ASSUME ~ q.stale PROVE Found(ask[x])'
  <2>1. Found(q)
    BY <1>3, <1>5
  <2>2. team' = team /\ org' = org /\ keys' = keys
    OBVIOUS
  <2>3. QED
    BY <1>2, <2>1, <2>2 DEF Found, Demotes, Team!AnotherManager, Team!Manages
<1>6. QED
  BY <1>2, <1>4, <1>5

(* A request that begins.                                                  *)
LEMMA TeamAsks ==
  ASSUME TeamInv, NEW a \in Ask, NEW op, NEW request_,
         Team!Begin(a, op, request_), org.status # "NONE",
         [request_ EXCEPT !.op = op, !.stale = FALSE] \in TeamRequest,
         Meant([request_ EXCEPT !.op = op, !.stale = FALSE]),
         Found([request_ EXCEPT !.op = op, !.stale = FALSE])
  PROVE  TeamInv'
<1>1. PICK q : q = [request_ EXCEPT !.op = op, !.stale = FALSE]
  OBVIOUS
<1>2. q \in TeamRequest /\ Meant(q) /\ Found(q)
  BY <1>1
<1>3. /\ ask' = [ask EXCEPT ![a] = q]
      /\ UNCHANGED <<team, org, keys, crossed>>
  BY <1>1 DEF Team!Begin
<1>4. TeamShape'
  BY <1>2, <1>3 DEF TeamInv, TeamShape
<1>5. Asked'
  <2>1. \A x \in Ask : ask'[x] = IF x = a THEN q ELSE ask[x]
    BY <1>3 DEF TeamInv, TeamShape
  <2>2. \A x \in Ask : Meant(ask'[x]) /\ (~ ask'[x].stale => Found(ask'[x]))
    BY <1>2, <2>1 DEF TeamInv, Asked
  <2>3. QED
    BY <1>3, <2>2, FoundStays
<1>6. Founded' /\ Registered' /\ Team!ManagerRemains' /\ Team!PemOnce' /\ Team!ActiveIsVerified'
  BY <1>3 DEF TeamInv, Founded, Registered, Team!ManagerRemains, Team!PemOnce, Team!ActiveIsVerified
<1>7. QED
  BY <1>4, <1>5, <1>6 DEF TeamInv

LEMMA TeamBegins ==
  ASSUME TeamInv, NEW a \in Ask,
         \/ \E by, u \in User :
              \/ \E roles \in {{"UPLOAD"}, {"UPLOAD", "MANAGE"}} : Team!BeginMemberRoles(a, by, u, roles)
              \/ \E status \in {"ACTIVE", "SUSPENDED"} : Team!BeginMemberStatus(a, by, u, status)
         \/ \E by \in User :
              \/ \E decision \in {"VERIFIED", "REJECTED"} : Team!BeginVerify(a, by, decision)
              \/ \E status \in {"ACTIVE", "SUSPENDED", "REVOKED"} : Team!BeginPublisherStatus(a, by, status)
              \/ \E k \in KeyId, pem \in Pem : Team!BeginRegister(a, by, k, pem)
  PROVE  TeamInv'
<1>1. ASSUME NEW by \in User, Team!Holds(by, "MANAGE") PROVE org.status # "NONE"
  BY <1>1 DEF TeamInv, Founded, Team!Holds
<1>2. ASSUME NEW by \in User, NEW u \in User, NEW roles \in {{"UPLOAD"}, {"UPLOAD", "MANAGE"}},
             Team!BeginMemberRoles(a, by, u, roles)
      PROVE  TeamInv'
  <2>1. PICK m : m = [roles |-> roles, status |-> "ACTIVE"]
    OBVIOUS
  <2>2. m \in Team!Member /\ m.status = "ACTIVE" /\ m.roles = roles
    BY <2>1 DEF Team!Member, Team!Roles
  <2>3. PICK r : r = [Team!Idle EXCEPT !.u = u, !.member = m]
    OBVIOUS
  <2>4. PICK q : q = [r EXCEPT !.op = "member", !.stale = FALSE]
    OBVIOUS
  <2>5. /\ q \in TeamRequest /\ q.op = "member" /\ q.u = u /\ q.member = m
    BY <2>2, <2>3, <2>4, IdleTeam DEF TeamRequest
  <2>6. Meant(q)
    BY <2>2, <2>5 DEF Meant
  <2>7. Found(q)
    BY <1>2, <2>2, <2>5 DEF Found, Demotes, Team!BeginMemberRoles
  <2>8. Team!Begin(a, "member", r) /\ org.status # "NONE"
    BY <1>1, <1>2, <2>1, <2>3 DEF Team!BeginMemberRoles
  <2>9. QED
    BY <2>4, <2>5, <2>6, <2>7, <2>8, TeamAsks
<1>3. ASSUME NEW by \in User, NEW u \in User, NEW status \in {"ACTIVE", "SUSPENDED"},
             Team!BeginMemberStatus(a, by, u, status)
      PROVE  TeamInv'
  <2>1. PICK r : r = [Team!Idle EXCEPT !.u = u, !.to = status]
    OBVIOUS
  <2>2. PICK q : q = [r EXCEPT !.op = "status", !.stale = FALSE]
    OBVIOUS
  <2>3. /\ q \in TeamRequest /\ q.op = "status" /\ q.u = u /\ q.to = status
    BY <2>1, <2>2, IdleTeam DEF TeamRequest
  <2>4. Meant(q)
    BY <2>3 DEF Meant
  <2>5. Found(q)
    BY <1>3, <2>3 DEF Found, Demotes, Team!BeginMemberStatus
  <2>6. Team!Begin(a, "status", r) /\ org.status # "NONE"
    BY <1>1, <1>3, <2>1 DEF Team!BeginMemberStatus
  <2>7. QED
    BY <2>2, <2>3, <2>4, <2>5, <2>6, TeamAsks
<1>4. ASSUME NEW by \in User, NEW decision \in {"VERIFIED", "REJECTED"}, Team!BeginVerify(a, by, decision)
      PROVE  TeamInv'
  <2>1. PICK r : r = [Team!Idle EXCEPT !.to = decision]
    OBVIOUS
  <2>2. PICK q : q = [r EXCEPT !.op = "verify", !.stale = FALSE]
    OBVIOUS
  <2>3. /\ q \in TeamRequest /\ q.op = "verify" /\ q.to = decision
    BY <2>1, <2>2, IdleTeam DEF TeamRequest
  <2>4. Meant(q) /\ Found(q)
    BY <2>3 DEF Meant, Found, Demotes
  <2>5. Team!Begin(a, "verify", r) /\ org.status # "NONE"
    BY <1>4, <2>1 DEF Team!BeginVerify, Team!MayVerify
  <2>6. QED
    BY <2>2, <2>3, <2>4, <2>5, TeamAsks
<1>5. ASSUME NEW by \in User, NEW status \in {"ACTIVE", "SUSPENDED", "REVOKED"},
             Team!BeginPublisherStatus(a, by, status)
      PROVE  TeamInv'
  <2>1. PICK r : r = [Team!Idle EXCEPT !.to = status]
    OBVIOUS
  <2>2. PICK q : q = [r EXCEPT !.op = "publisher", !.stale = FALSE]
    OBVIOUS
  <2>3. /\ q \in TeamRequest /\ q.op = "publisher" /\ q.to = status
    BY <2>1, <2>2, IdleTeam DEF TeamRequest
  <2>4. Meant(q) /\ Found(q)
    BY <1>5, <2>3 DEF Meant, Found, Demotes, Team!BeginPublisherStatus
  <2>5. Team!Begin(a, "publisher", r) /\ org.status # "NONE"
    BY <1>5, <2>1 DEF Team!BeginPublisherStatus
  <2>6. QED
    BY <2>2, <2>3, <2>4, <2>5, TeamAsks
<1>6. ASSUME NEW by \in User, NEW k \in KeyId, NEW pem \in Pem, Team!BeginRegister(a, by, k, pem)
      PROVE  TeamInv'
  <2>1. PICK r : r = [Team!Idle EXCEPT !.k = k, !.pem = pem]
    OBVIOUS
  <2>2. PICK q : q = [r EXCEPT !.op = "register", !.stale = FALSE]
    OBVIOUS
  <2>3. /\ q \in TeamRequest /\ q.op = "register" /\ q.k = k /\ q.pem = pem
    BY <2>1, <2>2, IdleTeam DEF TeamRequest
  <2>4. Meant(q) /\ Found(q)
    BY <1>6, <2>3 DEF Meant, Found, Demotes, Team!BeginRegister
  <2>5. Team!Begin(a, "register", r) /\ org.status # "NONE"
    BY <1>1, <1>6, <2>1 DEF Team!BeginRegister
  <2>6. QED
    BY <2>2, <2>3, <2>4, <2>5, TeamAsks
<1>7. QED
  BY <1>2, <1>3, <1>4, <1>5, <1>6

(* The other requests after one of them has written: the rows they are     *)
(* about are those they read, or they are known to be overtaken.           *)
Others(a) ==
  \A x \in Ask :
    /\ ask'[x] = IF x = a THEN Team!Idle ELSE [ask[x] EXCEPT !.stale = ask'[x].stale]
    /\ x # a /\ ~ ask'[x].stale => ~ ask[x].stale /\ Team!Rows(ask[x].op) # Team!Rows(ask[a].op)

LEMMA TeamWritten ==
  ASSUME TeamInv, NEW a \in Ask, Team!Written(a)
  PROVE  /\ ask' \in [Ask -> TeamRequest] /\ Others(a) /\ crossed \subseteq crossed'
         /\ ask[a].stale => Team!Rows(ask[a].op) \in crossed'
<1>1. crossed \subseteq crossed' /\ (ask[a].stale => Team!Rows(ask[a].op) \in crossed')
  BY DEF Team!Written
<1>2. ask' = [x \in Ask |-> IF x = a THEN Team!Idle
                ELSE [ask[x] EXCEPT !.stale = ask[x].stale \/ Team!Rows(ask[x].op) = Team!Rows(ask[a].op)]]
  BY DEF Team!Written
<1>3. ASSUME NEW x \in Ask
      PROVE  /\ ask'[x] \in TeamRequest
             /\ ask'[x] = IF x = a THEN Team!Idle ELSE [ask[x] EXCEPT !.stale = ask'[x].stale]
             /\ x # a /\ ~ ask'[x].stale => ~ ask[x].stale /\ Team!Rows(ask[x].op) # Team!Rows(ask[a].op)
  <2>1. CASE x = a
    BY <1>2, <2>1, IdleTeam
  <2>2. CASE x # a
    <3>1. ask[x] \in TeamRequest
      BY DEF TeamInv, TeamShape
    <3>2. PICK b \in BOOLEAN : b = (ask[x].stale \/ Team!Rows(ask[x].op) = Team!Rows(ask[a].op))
      OBVIOUS
    <3>3. ask'[x] = [ask[x] EXCEPT !.stale = b]
      BY <1>2, <2>2, <3>2
    <3>4. ask'[x] \in TeamRequest /\ ask'[x].stale = b
      BY <3>1, <3>3 DEF TeamRequest
    <3>5. QED
      BY <2>2, <3>2, <3>3, <3>4
  <2>3. QED
    BY <2>1, <2>2
<1>4. QED
  BY <1>1, <1>2, <1>3 DEF Others

(* What the others found still holds where their rows are unchanged.       *)
LEMMA OthersStay ==
  ASSUME TeamInv, NEW a \in Ask, Others(a),
         UNCHANGED team \/ Team!Rows(ask[a].op) = "team",
         UNCHANGED org \/ Team!Rows(ask[a].op) = "org",
         UNCHANGED keys \/ Team!Rows(ask[a].op) = "keys"
  PROVE  Asked'
<1>1. SUFFICES ASSUME NEW x \in Ask PROVE (Meant(ask[x]) /\ (~ ask[x].stale => Found(ask[x])))'
  BY DEF Asked
<1>2. CASE x = a
  BY <1>2, IdleTeam DEF Others, Found, Demotes, Team!Idle, Meant
<1>3. CASE x # a
  <2>1. PICK q : q = ask'[x]
    OBVIOUS
  <2>2. /\ ask[x] \in TeamRequest /\ q = [ask[x] EXCEPT !.stale = q.stale]
        /\ ~ q.stale => ~ ask[x].stale /\ Team!Rows(ask[x].op) # Team!Rows(ask[a].op)
    BY <1>3, <2>1 DEF Others, TeamInv, TeamShape
  <2>3. q.op = ask[x].op /\ q.u = ask[x].u /\ q.member = ask[x].member /\ q.k = ask[x].k
        /\ q.pem = ask[x].pem /\ q.to = ask[x].to
    BY <2>2 DEF TeamRequest
  <2>4. Meant(q)
    BY <2>3 DEF TeamInv, Asked, Meant
  <2>5. ASSUME ~ q.stale PROVE Found(q)'
    <3>1. Found(ask[x])
      BY <2>2, <2>5 DEF TeamInv, Asked
    <3>2. CASE q.op \in {"member", "status"}
      <4>1. UNCHANGED team
        BY <2>2, <2>3, <2>5, <3>2 DEF Team!Rows
      <4>2. QED
        BY <2>3, <3>1, <3>2, <4>1 DEF Found, Demotes, Team!AnotherManager
    <3>3. CASE q.op = "publisher"
      <4>1. UNCHANGED org
        BY <2>2, <2>3, <2>5, <3>3 DEF Team!Rows
      <4>2. QED
        BY <2>3, <3>1, <3>3, <4>1 DEF Found, Demotes
    <3>4. CASE q.op = "register"
      <4>1. UNCHANGED keys
        BY <2>2, <2>3, <2>5, <3>4 DEF Team!Rows
      <4>2. QED
        BY <2>3, <3>1, <3>4, <4>1 DEF Found, Demotes
    <3>5. QED
      BY <3>2, <3>3, <3>4 DEF Found, Demotes
  <2>6. QED
    BY <2>1, <2>4, <2>5 DEF Meant
<1>4. QED
  BY <1>2, <1>3

(* setPublisherMemberRoles and setPublisherMemberStatus: the team keeps a  *)
(* manager, as far as the request had not been overtaken.                  *)
LEMMA MembersChange ==
  ASSUME TeamInv, NEW a \in Ask, Team!SetPublisherMemberRoles(a) \/ Team!SetPublisherMemberStatus(a)
  PROVE  TeamInv'
<1>1. PICK q : q = ask[a]
  OBVIOUS
<1>2. /\ q \in TeamRequest /\ Meant(q) /\ (~ q.stale => Found(q)) /\ q.op \in {"member", "status"}
      /\ Team!Rows(q.op) = "team" /\ q.u \in User
  BY <1>1 DEF Team!SetPublisherMemberRoles, Team!SetPublisherMemberStatus, TeamInv, TeamShape, Asked,
              Meant, Team!Rows
<1>3. Team!Written(a) /\ UNCHANGED <<org, keys>>
  BY DEF Team!SetPublisherMemberRoles, Team!SetPublisherMemberStatus
<1>4. PICK m : m = IF q.op = "member" THEN q.member ELSE [team[q.u] EXCEPT !.status = q.to]
  OBVIOUS
<1>5. /\ m \in Team!Member
      /\ q.op = "member" => m = q.member
      /\ q.op = "status" => m.status = q.to /\ m.roles = team[q.u].roles
  BY <1>2, <1>4 DEF TeamInv, TeamShape, TeamRequest, Meant, Team!Member
<1>6. team' = [team EXCEPT ![q.u] = m]
  BY <1>1, <1>2, <1>4 DEF Team!SetPublisherMemberRoles, Team!SetPublisherMemberStatus, TeamInv, TeamShape
<1>7. ask' \in [Ask -> TeamRequest] /\ Others(a) /\ crossed \subseteq crossed'
      /\ (q.stale => "team" \in crossed')
  BY <1>1, <1>2, <1>3, TeamWritten
<1>8. TeamShape'
  BY <1>2, <1>3, <1>5, <1>6, <1>7 DEF TeamInv, TeamShape
<1>9. Asked'
  BY <1>1, <1>2, <1>3, <1>7, OthersStay
<1>10. org.status # "NONE"
  BY <1>1, <1>2 DEF TeamInv, Founded
<1>11. Founded' /\ Registered' /\ Team!PemOnce' /\ Team!ActiveIsVerified'
  BY <1>3, <1>7, <1>10 DEF TeamInv, Founded, Registered, Team!PemOnce, Team!ActiveIsVerified
<1>12. Team!ManagerRemains'
  <2>1. SUFFICES ASSUME "team" \notin crossed' PROVE \E u \in User : Team!Manages(team'[u])
    BY DEF Team!ManagerRemains, Team!Manages
  <2>2. "team" \notin crossed /\ Found(q)
    BY <1>2, <1>7, <2>1
  <2>3. PICK u \in User : Team!Manages(team[u])
    BY <1>10, <2>2 DEF TeamInv, Team!ManagerRemains
  <2>4. \A x \in User : team'[x] = IF x = q.u THEN m ELSE team[x]
    BY <1>2, <1>6 DEF TeamInv, TeamShape
  <2>5. CASE Demotes(q)
    <3>1. \E x \in User \ {q.u} : Team!Manages(team[x])
      BY <2>2, <2>3, <2>5 DEF Found, Team!AnotherManager
    <3>2. QED
      BY <2>4, <3>1
  <2>6. CASE ~ Demotes(q)
    <3>1. Team!Manages(team[q.u]) => Team!Manages(m)
      BY <1>2, <1>5, <2>6 DEF Demotes, Meant, Team!Manages
    <3>2. QED
      BY <1>2, <2>3, <2>4, <3>1
  <2>7. QED
    BY <2>5, <2>6
<1>13. QED
  BY <1>8, <1>9, <1>11, <1>12 DEF TeamInv

(* verifyPublisher and setPublisherStatus.                                 *)
LEMMA StatusChanges ==
  ASSUME TeamInv, NEW a \in Ask, Team!VerifyPublisher(a) \/ Team!PublisherStatusSet(a)
  PROVE  TeamInv'
<1>1. PICK q : q = ask[a]
  OBVIOUS
<1>2. /\ q \in TeamRequest /\ Meant(q) /\ (~ q.stale => Found(q)) /\ q.op \in {"verify", "publisher"}
      /\ Team!Rows(q.op) = "org"
  BY <1>1 DEF Team!VerifyPublisher, Team!PublisherStatusSet, TeamInv, TeamShape, Asked, Team!Rows
<1>3. Team!Written(a) /\ UNCHANGED <<team, keys>>
  BY DEF Team!VerifyPublisher, Team!PublisherStatusSet
<1>4. /\ org' \in Team!Publisher /\ org'.status # "NONE"
      /\ ~ q.stale /\ org'.status = "ACTIVE" => org'.verification = "VERIFIED"
  <2>1. CASE Team!VerifyPublisher(a)
    BY <1>1, <1>2, <2>1 DEF Team!VerifyPublisher, Meant, Team!Publisher
  <2>2. CASE Team!PublisherStatusSet(a)
    <3>1. q.op = "publisher" /\ org' = [org EXCEPT !.status = q.to] /\ org \in Team!Publisher
      BY <1>1, <2>2 DEF Team!PublisherStatusSet, TeamInv, TeamShape
    <3>2. q.to \in {"ACTIVE", "SUSPENDED", "REVOKED"}
      BY <1>2, <3>1 DEF Meant
    <3>3. ~ q.stale /\ q.to = "ACTIVE" => org.verification = "VERIFIED"
      BY <1>2, <3>1 DEF Found
    <3>4. QED
      BY <3>1, <3>2, <3>3 DEF Team!Publisher
  <2>3. QED
    BY <2>1, <2>2
<1>5. ask' \in [Ask -> TeamRequest] /\ Others(a) /\ crossed \subseteq crossed'
      /\ (q.stale => "org" \in crossed')
  BY <1>1, <1>2, <1>3, TeamWritten
<1>6. TeamShape'
  BY <1>3, <1>4, <1>5 DEF TeamInv, TeamShape
<1>7. Asked'
  BY <1>1, <1>2, <1>3, <1>5, OthersStay
<1>8. org.status # "NONE"
  BY <1>1, <1>2 DEF TeamInv, Founded
<1>9. Founded' /\ Registered' /\ Team!PemOnce'
  BY <1>3, <1>4, <1>5 DEF TeamInv, Founded, Registered, Team!PemOnce
<1>10. Team!ManagerRemains'
  BY <1>3, <1>5, <1>8 DEF TeamInv, Team!ManagerRemains, Team!Manages
<1>11. Team!ActiveIsVerified'
  BY <1>4, <1>5 DEF Team!ActiveIsVerified
<1>12. QED
  BY <1>6, <1>7, <1>9, <1>10, <1>11 DEF TeamInv

(* registerSigningKey.                                                     *)
LEMMA KeyRegistered ==
  ASSUME None \notin Pem, TeamInv, NEW a \in Ask, Team!RegisterSigningKey(a)
  PROVE  TeamInv'
<1>1. PICK q : q = ask[a]
  OBVIOUS
<1>2. /\ q \in TeamRequest /\ (~ q.stale => Found(q)) /\ q.op = "register"
      /\ Team!Rows(q.op) = "keys" /\ q.k \in KeyId /\ q.pem \in Pem
  BY <1>1 DEF Team!RegisterSigningKey, TeamInv, TeamShape, Asked, Meant, Team!Rows
<1>3. /\ Team!Written(a) /\ UNCHANGED <<team, org>>
      /\ keys' = [keys EXCEPT ![q.k] = [pem |-> q.pem, status |-> "ACTIVE"]]
  BY <1>1 DEF Team!RegisterSigningKey
<1>4. /\ keys' \in [KeyId -> Team!KeyRow]
      /\ \A x \in KeyId : keys'[x] = IF x = q.k THEN [pem |-> q.pem, status |-> "ACTIVE"] ELSE keys[x]
  BY <1>2, <1>3 DEF TeamInv, TeamShape, Team!KeyRow
<1>5. ask' \in [Ask -> TeamRequest] /\ Others(a) /\ crossed \subseteq crossed'
      /\ (q.stale => "keys" \in crossed')
  BY <1>1, <1>2, <1>3, TeamWritten
<1>6. TeamShape'
  BY <1>3, <1>4, <1>5 DEF TeamInv, TeamShape
<1>7. Asked'
  BY <1>1, <1>2, <1>3, <1>5, OthersStay
<1>8. org.status # "NONE"
  BY <1>1, <1>2 DEF TeamInv, Founded
<1>9. Founded' /\ Registered' /\ Team!ActiveIsVerified'
  BY <1>2, <1>3, <1>4, <1>5, <1>8 DEF TeamInv, Founded, Registered, Team!ActiveIsVerified
<1>10. Team!ManagerRemains'
  BY <1>3, <1>5, <1>8 DEF TeamInv, Team!ManagerRemains, Team!Manages
<1>11. Team!PemOnce'
  <2>1. SUFFICES ASSUME "keys" \notin crossed', NEW k \in KeyId, NEW x \in KeyId,
                        keys'[k].status # "NONE", keys'[k].pem = keys'[x].pem
                 PROVE  k = x
    BY DEF Team!PemOnce
  <2>2. Found(q) /\ "keys" \notin crossed
    BY <1>2, <1>5, <2>1
  <2>3. \A z \in KeyId : keys[z].pem # q.pem
    BY <1>2, <2>2 DEF Found
  <2>4. QED
    BY <1>4, <2>1, <2>2, <2>3 DEF TeamInv, Team!PemOnce
<1>12. QED
  BY <1>6, <1>7, <1>9, <1>10, <1>11 DEF TeamInv

LEMMA NextTeamInv ==
  ASSUME None \notin Pem, TeamInv, [Team!Next]_Team!tVars PROVE TeamInv'
<1>1. CASE UNCHANGED Team!tVars
  BY <1>1 DEF Team!tVars, TeamInv, TeamShape, Asked, Found, Demotes, Meant, Founded, Registered,
              Team!AnotherManager, Team!Manages, Team!ManagerRemains, Team!PemOnce, Team!ActiveIsVerified
<1>2. ASSUME NEW u \in User, Team!OnboardPublisher(u) PROVE TeamInv'
  <2>1. PICK m : m = [roles |-> {"UPLOAD", "PUBLISH", "MANAGE"}, status |-> "ACTIVE"]
    OBVIOUS
  <2>2. m \in Team!Member /\ Team!Manages(m)
    BY <2>1 DEF Team!Member, Team!Roles, Team!Manages
  <2>3. /\ org.status = "NONE" /\ org' = [org EXCEPT !.status = "SUSPENDED", !.verification = "PENDING"]
        /\ team' = [team EXCEPT ![u] = m] /\ UNCHANGED <<keys, ask, crossed>>
    BY <1>2, <2>1 DEF Team!OnboardPublisher
  <2>4. TeamShape' /\ org'.status = "SUSPENDED" /\ team'[u] = m
    BY <2>2, <2>3 DEF TeamInv, TeamShape, Team!Publisher
  <2>5. Asked'
    BY <2>3 DEF TeamInv, Founded, Asked, Meant, Found, Demotes
  <2>6. QED
    BY <2>2, <2>3, <2>4, <2>5 DEF TeamInv, Founded, Registered, Team!ManagerRemains, Team!PemOnce,
                                  Team!ActiveIsVerified
<1>3. ASSUME NEW a \in Ask, Team!Abandon(a) PROVE TeamInv'
  <2>1. ask' = [ask EXCEPT ![a] = Team!Idle] /\ UNCHANGED <<team, org, keys, crossed>>
    BY <1>3 DEF Team!Abandon
  <2>2. TeamShape'
    BY <2>1, IdleTeam DEF TeamInv, TeamShape
  <2>3. \A x \in Ask : ask'[x] \in {ask[x], Team!Idle}
    BY <2>1 DEF TeamInv, TeamShape
  <2>4. \A x \in Ask : Meant(ask'[x]) /\ (~ ask'[x].stale => Found(ask'[x]))
    BY <2>3, IdleTeam DEF TeamInv, Asked
  <2>5. Asked'
    BY <2>1, <2>4, FoundStays
  <2>6. QED
    BY <2>1, <2>2, <2>3, <2>5, IdleTeam
       DEF TeamInv, Founded, Registered, Team!ManagerRemains, Team!PemOnce, Team!ActiveIsVerified
<1>4. ASSUME NEW a \in Ask, NEW by \in User, NEW old \in KeyId, NEW k \in KeyId, NEW pem \in Pem,
             Team!BeginRotate(a, by, old, k, pem)
      PROVE  Team!BeginRegister(a, by, k, pem)
  BY <1>4 DEF Team!BeginRotate
<1>5. QED
  BY <1>1, <1>2, <1>3, <1>4, TeamBegins, MembersChange, StatusChanges, KeyRegistered DEF Team!Next

(* An onboarded publisher keeps somebody who manages it, no public key is  *)
(* registered twice, and no publisher is active that nobody verified: what *)
(* overlapping requests can undo is only what one of them had read before  *)
(* another wrote it (ExtensionsService, assertAnotherActivePublisherManager).*)
THEOREM TeamStaysSound ==
  ASSUME None \notin Pem PROVE TeamSpec => [](TeamIsSound /\ Team!ActiveIsVerified)
<1>1. Team!TeamInit => TeamInv
  <2>1. ASSUME Team!TeamInit PROVE TeamInv
    <3>1. TeamShape
      BY <2>1, IdleTeam DEF Team!TeamInit, TeamShape, Team!Member, Team!Roles, Team!Publisher, Team!KeyRow
    <3>2. \A a \in Ask : ask[a] = Team!Idle
      BY <2>1 DEF Team!TeamInit
    <3>3. QED
      BY <2>1, <3>1, <3>2, IdleTeam
         DEF Team!TeamInit, TeamInv, Asked, Founded, Registered, Team!ManagerRemains, Team!PemOnce,
             Team!ActiveIsVerified
  <2>2. QED
    BY <2>1
<1>2. TeamInv => TeamIsSound /\ Team!ActiveIsVerified
  BY DEF TeamInv, TeamIsSound
<1>3. QED
  BY NextTeamInv, <1>1, <1>2, PTL DEF TeamSpec

-----------------------------------------------------------------------------
(* Paid requests and their invoices.  Offer is the instance of the area    *)
(* in which prices change and requests are approved, Evidence the one in   *)
(* which invoices are held and purged; K is the set of keys of either.     *)
PayModel == {"ONE_TIME", "PRIVATE_CONTRACT", "FREE"}
PayRow(K) ==
  [state : {"NONE", "REQUESTED", "PAYMENT_REVIEW", "APPROVED", "INSTALLED", "ACTIVE"},
   billing : {"PENDING", "ACTIVE", "OVERDUE"}, key : K \cup {None}, submitted : BOOLEAN, asked : PayModel]
PaySlot(K) ==
  [op : {"idle", "request", "paid", "initiate", "finalize", "approve", "billing", "install", "activate",
         "deactivate", "hold"},
   k : K \cup {None},
   to : PayModel \cup {None, "APPROVED", "INSTALLED", "ACTIVE", "PENDING", "OVERDUE", "hold", "release"},
   stale : BOOLEAN]
PayRecord ==
  [status : {"NONE", "PENDING", "SUBMITTED", "PURGING", "PURGED"},
   due : BOOLEAN, hold : BOOLEAN, late : BOOLEAN]
PayShape(K) ==
  /\ offer \in [model : PayModel, visibility : {"LISTED", "PRIVATE"}, granted : BOOLEAN]
  /\ row \in PayRow(K)
  /\ ev \in [K -> PayRecord]
  /\ slot \in [Slot -> PaySlot(K)] /\ overtaken \in BOOLEAN
  /\ sweep \in [pc : {"idle", "claim", "delete", "record"}, k : K \cup {None},
                was : {"NONE", "PENDING", "SUBMITTED"}]

(* The cleanup works on a row it found, which is PURGING once it has        *)
(* claimed it; a request that uploads has a key of its own.                *)
Claimed(K) ==
  /\ sweep.pc # "idle" => sweep.k \in K /\ sweep.was # "NONE"
  /\ sweep.pc \in {"delete", "record"} => ev[sweep.k].status = "PURGING"
Uploading(s) == slot[s].op \in {"paid", "initiate"}
OwnKey(K) ==
  /\ \A s \in Slot : Uploading(s) => slot[s].k \in K /\ ev[slot[s].k].status = "NONE"
  /\ \A s, t \in Slot : Uploading(s) /\ Uploading(t) /\ s # t => slot[s].k # slot[t].k
Named(K) == \A s \in Slot : slot[s].op \in {"finalize", "hold"} => slot[s].k \in K

(* An invoice that was submitted stays so until it is purged.              *)
Shown(k) ==
  \/ ev[k].status \in {"SUBMITTED", "PURGED"}
  \/ /\ ev[k].status = "PURGING"
     /\ sweep.pc \in {"delete", "record"} /\ sweep.k = k => sweep.was = "SUBMITTED"
Backed == row.submitted => \E k \in Invoice : Shown(k)

Paying == offer.model = "ONE_TIME" => row.submitted
Targets ==
  \A s \in Slot : /\ slot[s].op \in {"request", "paid", "initiate"} => slot[s].to \in PayModel
                  /\ slot[s].op = "billing" => slot[s].to \in {"PENDING", "ACTIVE", "OVERDUE"}
                  /\ slot[s].op = "approve" => slot[s].to = "APPROVED"
                  /\ slot[s].op \in {"install", "deactivate"} => slot[s].to = "INSTALLED"
                  /\ slot[s].op = "activate" => slot[s].to = "ACTIVE"
Approving ==
  \A s \in Slot : slot[s].op = "approve" /\ ~ slot[s].stale /\ ~ overtaken =>
    row.state \in {"REQUESTED", "PAYMENT_REVIEW"} /\ Paying
Approved == row.state = "APPROVED" /\ ~ overtaken => Paying

OfferInv ==
  /\ PayShape(Invoice) /\ Claimed(Invoice) /\ OwnKey(Invoice) /\ Named(Invoice)
  /\ Backed /\ Targets /\ Approving /\ Approved

(* What a write of one row of evidence leaves of it and of the others.     *)
StatusSet(k, st) ==
  \/ ev' = [ev EXCEPT ![k].status = st]
  \/ ev' = [ev EXCEPT ![k].status = st, ![k].due = FALSE]
HoldSet(k, h, l) == ev' = [ev EXCEPT ![k].hold = h, ![k].late = l]
DueSet(k) == ev' = [ev EXCEPT ![k].due = TRUE]

StatusIsSet(K, k, st) ==
  /\ ev' \in [K -> PayRecord]
  /\ \A x \in K : /\ ev'[x].status = IF x = k THEN st ELSE ev[x].status
                  /\ ev'[x].hold = ev[x].hold /\ ev'[x].late = ev[x].late
StatusStays(K, k) ==
  /\ ev' \in [K -> PayRecord]
  /\ \A x \in K : /\ ev'[x].status = ev[x].status
                  /\ x # k => ev'[x].hold = ev[x].hold /\ ev'[x].late = ev[x].late

LEMMA StatusWritten ==
  ASSUME NEW K, ev \in [K -> PayRecord], NEW k \in K,
         NEW st \in {"PENDING", "SUBMITTED", "PURGING", "PURGED"}, StatusSet(k, st)
  PROVE  StatusIsSet(K, k, st)
<1>1. PICK e : e = ev[k]
  OBVIOUS
<1>2. PICK f : f = [e EXCEPT !.status = st]
  OBVIOUS
<1>3. f \in PayRecord /\ f.status = st /\ f.hold = e.hold /\ f.late = e.late
  BY <1>1, <1>2 DEF PayRecord
<1>4. PICK g : g = [f EXCEPT !.due = FALSE]
  OBVIOUS
<1>5. g \in PayRecord /\ g.status = st /\ g.hold = e.hold /\ g.late = e.late
  BY <1>3, <1>4 DEF PayRecord
<1>6. ev' = [ev EXCEPT ![k] = f] \/ ev' = [ev EXCEPT ![k] = g]
  BY <1>1, <1>2, <1>4 DEF StatusSet
<1>7. QED
  BY <1>1, <1>3, <1>5, <1>6 DEF StatusIsSet

LEMMA HoldWritten ==
  ASSUME NEW K, ev \in [K -> PayRecord], NEW k \in K, NEW h \in BOOLEAN, NEW l \in BOOLEAN,
         HoldSet(k, h, l)
  PROVE  StatusStays(K, k) /\ ev'[k].hold = h /\ ev'[k].late = l
<1>1. PICK e : e = ev[k]
  OBVIOUS
<1>2. PICK f : f = [e EXCEPT !.hold = h]
  OBVIOUS
<1>3. f \in PayRecord /\ f.status = e.status /\ f.hold = h
  BY <1>1, <1>2 DEF PayRecord
<1>4. PICK g : g = [f EXCEPT !.late = l]
  OBVIOUS
<1>5. g \in PayRecord /\ g.status = e.status /\ g.hold = h /\ g.late = l
  BY <1>3, <1>4 DEF PayRecord
<1>6. ev' = [ev EXCEPT ![k] = g]
  BY <1>1, <1>2, <1>4 DEF HoldSet
<1>7. QED
  BY <1>1, <1>5, <1>6 DEF StatusStays

LEMMA DueWritten ==
  ASSUME NEW K, ev \in [K -> PayRecord], NEW k \in K, DueSet(k)
  PROVE  StatusStays(K, k) /\ ev'[k].hold = ev[k].hold /\ ev'[k].late = ev[k].late
<1>1. PICK e : e = [ev[k] EXCEPT !.due = TRUE]
  OBVIOUS
<1>2. e \in PayRecord /\ e.status = ev[k].status /\ e.hold = ev[k].hold /\ e.late = ev[k].late
  BY <1>1 DEF PayRecord
<1>3. ev' = [ev EXCEPT ![k] = e]
  BY <1>1 DEF DueSet
<1>4. QED
  BY <1>2, <1>3 DEF StatusStays

Written(K, s, r) ==
  /\ row' = r
  /\ overtaken' \in BOOLEAN
  /\ ~ overtaken' => \/ Uploading(s) \/ slot[s].op = "request"
                     \/ ~ overtaken /\ ~ slot[s].stale
  /\ slot' \in [Slot -> PaySlot(K)] /\ slot'[s].op = "idle"
  /\ \A x \in Slot :
         x # s => /\ slot'[x].op = slot[x].op /\ slot'[x].k = slot[x].k /\ slot'[x].to = slot[x].to
                  /\ slot[x].op # "idle" => slot'[x].stale
LEMMA RequestWrites ==
  ASSUME NEW K, slot \in [Slot -> PaySlot(K)], NEW s \in Slot, NEW r, overtaken \in BOOLEAN, NEW idle,
         idle = [op |-> "idle", k |-> None, to |-> None, stale |-> FALSE],
         row' = r,
         overtaken' = (slot[s].op \notin {"request", "paid", "initiate"} /\ (overtaken \/ slot[s].stale)),
         slot' = [x \in Slot |-> IF x = s THEN idle
                                ELSE [slot[x] EXCEPT !.stale = @ \/ slot[x].op # "idle"]]
  PROVE  Written(K, s, r)
<1>1. \A x \in Slot : slot[x] \in PaySlot(K) /\ slot[x].stale \in BOOLEAN
  BY DEF PaySlot
<1>2. idle \in PaySlot(K) /\ idle.op = "idle"
  BY DEF PaySlot
<1>3. ASSUME NEW x \in Slot, x # s
      PROVE  /\ slot'[x] \in PaySlot(K) /\ slot'[x].op = slot[x].op /\ slot'[x].k = slot[x].k
             /\ slot'[x].to = slot[x].to /\ (slot[x].op # "idle" => slot'[x].stale)
  <2>1. PICK q : q = slot[x]
    OBVIOUS
  <2>2. q \in PaySlot(K) /\ slot'[x] = [q EXCEPT !.stale = @ \/ q.op # "idle"]
    BY <1>1, <1>3, <2>1
  <2>3. PICK b : b = (q.stale \/ q.op # "idle")
    OBVIOUS
  <2>4. b \in BOOLEAN /\ slot'[x] = [q EXCEPT !.stale = b] /\ (q.op # "idle" => b)
    BY <2>2, <2>3 DEF PaySlot
  <2>5. QED
    BY <2>1, <2>2, <2>4 DEF PaySlot
<1>4. overtaken' \in BOOLEAN
  OBVIOUS
<1>5. slot' \in [Slot -> PaySlot(K)]
  BY <1>2, <1>3
<1>6. QED
  BY <1>2, <1>3, <1>4, <1>5 DEF Written, Uploading

LEMMA OfferWrites ==
  ASSUME OfferInv, NEW s \in Slot, NEW r, Offer!Write(s, r)
  PROVE  Written(Invoice, s, r)
  BY RequestWrites DEF OfferInv, PayShape, Offer!Write, Offer!IdleSlot

LEMMA OfferRowWritten ==
  ASSUME OfferInv, NEW s \in Slot, NEW r \in PayRow(Invoice), Written(Invoice, s, r),
         UNCHANGED <<offer, sweep, ev>>, r.submitted = row.submitted,
         \/ r.state # "APPROVED"
         \/ slot[s].op = "approve"
         \/ (r.state = row.state /\ slot[s].op = "billing")
  PROVE  OfferInv'
<1>1. \A x \in Slot :
          x # s => /\ slot'[x].op = slot[x].op /\ slot'[x].k = slot[x].k /\ slot'[x].to = slot[x].to
                   /\ slot[x].op # "idle" => slot'[x].stale
  BY DEF Written
<1>2. /\ row' = r /\ slot' \in [Slot -> PaySlot(Invoice)] /\ slot'[s].op = "idle"
      /\ offer' = offer /\ sweep' = sweep /\ ev' = ev
  BY DEF Written
<1>3. PayShape(Invoice)' /\ Claimed(Invoice)'
  BY <1>2 DEF OfferInv, PayShape, Claimed, Written
<1>4. OwnKey(Invoice)'
  BY <1>1, <1>2 DEF OfferInv, OwnKey, Uploading
<1>4a. Named(Invoice)'
  BY <1>1, <1>2 DEF OfferInv, Named
<1>4b. Targets'
  BY <1>1, <1>2 DEF OfferInv, Targets
<1>5. Backed'
  BY <1>1, <1>2 DEF OfferInv, Backed, Shown
<1>5a. Approving'
  BY <1>1, <1>2 DEF OfferInv, Approving
<1>6. Approved'
  BY <1>2 DEF OfferInv, Approved, Approving, Paying, Written, Uploading
<1>7. QED
  BY <1>3, <1>4, <1>4a, <1>4b, <1>5, <1>5a, <1>6 DEF OfferInv

LEMMA OfferEvidenceWritten ==
  ASSUME OfferInv, NEW s \in Slot, NEW r \in PayRow(Invoice), Written(Invoice, s, r),
         UNCHANGED <<offer, sweep>>, NEW k \in Invoice, slot[s].k = k, r.state # "APPROVED",
         NEW st \in {"PENDING", "SUBMITTED"}, r.submitted = (st = "SUBMITTED"),
         StatusIsSet(Invoice, k, st),
         Uploading(s) \/ (slot[s].op = "finalize" /\ ev[k].status = "PENDING")
  PROVE  OfferInv'
<1>1. \A x \in Slot :
          x # s => /\ slot'[x].op = slot[x].op /\ slot'[x].k = slot[x].k /\ slot'[x].to = slot[x].to
                   /\ slot[x].op # "idle" => slot'[x].stale
  BY DEF Written
<1>2. /\ row' = r /\ slot' \in [Slot -> PaySlot(Invoice)] /\ slot'[s].op = "idle"
      /\ offer' = offer /\ sweep' = sweep
  BY DEF Written
<1>3. PayShape(Invoice)'
  BY <1>2 DEF OfferInv, PayShape, Written, StatusIsSet
<1>4. ev[k].status \in {"NONE", "PENDING"}
  BY DEF OfferInv, OwnKey
<1>5. Claimed(Invoice)'
  BY <1>2, <1>4 DEF OfferInv, Claimed, StatusIsSet
<1>6. \A x \in Slot : x # s /\ Uploading(x) => slot[x].k # k
  BY DEF OfferInv, OwnKey, Uploading
<1>7. OwnKey(Invoice)'
  BY <1>1, <1>2, <1>6 DEF OfferInv, OwnKey, Uploading, StatusIsSet
<1>7a. Named(Invoice)'
  BY <1>1, <1>2 DEF OfferInv, Named
<1>7b. Targets'
  BY <1>1, <1>2 DEF OfferInv, Targets
<1>8. Backed'
  <2>1. ASSUME row'.submitted PROVE st = "SUBMITTED"
    BY <1>2, <2>1
  <2>2. ev'[k].status = st
    BY DEF StatusIsSet
  <2>3. QED
    BY <2>1, <2>2 DEF Backed, Shown
<1>8a. Approving' /\ Approved'
  BY <1>1, <1>2 DEF Approving, Approved
<1>9. QED
  BY <1>3, <1>5, <1>7, <1>7a, <1>7b, <1>8, <1>8a DEF OfferInv

LEMMA OfferStep ==
  ASSUME OfferInv, [Offer!PayNext]_Offer!payVars PROVE OfferInv'
<1>. USE DEF OfferInv, PayShape, PayRow, PaySlot, PayModel, Claimed, OwnKey, Uploading, Named, Backed, Shown, Paying, Targets, Approving, Approved
<1>1. CASE UNCHANGED Offer!payVars
  BY <1>1 DEF Offer!payVars
<1>2. ASSUME NEW m \in Offer!Paid \cup {"FREE"}, Offer!SetPricing(m) PROVE OfferInv'
  <2>1. /\ offer' = [offer EXCEPT !.model = m] /\ (row.state # "NONE" => overtaken')
        /\ (overtaken => overtaken') /\ overtaken' \in BOOLEAN
        /\ UNCHANGED <<row, ev, slot, sweep>>
    BY <1>2 DEF Offer!SetPricing
  <2>2. offer' \in [model : PayModel, visibility : {"LISTED", "PRIVATE"}, granted : BOOLEAN]
    BY <2>1 DEF Offer!Paid
  <2>3. Approving' /\ Approved'
    BY <2>1
  <2>4. QED
    BY <2>1, <2>2, <2>3
<1>3. ASSUME NEW v \in {"LISTED", "PRIVATE"}, Offer!SetVisibility(v) PROVE OfferInv'
  BY <1>3 DEF Offer!SetVisibility
<1>4. ASSUME NEW g \in BOOLEAN, Offer!GrantPrivateAccess(g) PROVE OfferInv'
  BY <1>4 DEF Offer!GrantPrivateAccess
<1>5. ASSUME NEW s \in Slot, Offer!BeginRequest(s) PROVE OfferInv'
  BY <1>5 DEF Offer!BeginRequest, Offer!Begin
<1>6. ASSUME NEW s \in Slot, Offer!Request(s) PROVE OfferInv'
  <2>1. PICK r : r = [row EXCEPT !.state = "REQUESTED", !.asked = slot[s].to,
                          !.billing = IF slot[s].to = "FREE" THEN "ACTIVE" ELSE "PENDING"]
    OBVIOUS
  <2>2. /\ Offer!Write(s, r) /\ ev' = ev /\ UNCHANGED <<offer, sweep>>
        /\ slot[s].op = "request"
    BY <1>6, <2>1 DEF Offer!Request
  <2>3. r \in PayRow(Invoice)
    BY <2>1, <2>2
  <2>4. Written(Invoice, s, r)
    BY <2>2, <2>3, OfferWrites
  <2>5. /\ r.submitted = row.submitted /\ OfferInv
        /\ \/ r.state # "APPROVED"
           \/ slot[s].op = "approve"
           \/ (r.state = row.state /\ slot[s].op = "billing")
    BY <2>1, <2>2
  <2>. HIDE DEF OfferInv
  <2>6. QED
    BY <2>2, <2>3, <2>4, <2>5, OfferRowWritten
<1>7. ASSUME NEW s \in Slot, Offer!PutInvoice(s) PROVE OfferInv'
  BY <1>7 DEF Offer!PutInvoice
<1>8. ASSUME NEW s \in Slot, Offer!RequestPaid(s) PROVE OfferInv'
  <2>1. PICK r : r = [state |-> "PAYMENT_REVIEW", billing |-> "PENDING", key |-> slot[s].k,
               submitted |-> TRUE, asked |-> slot[s].to]
    OBVIOUS
  <2>2. /\ Offer!Write(s, r) /\ ev' = [ev EXCEPT ![slot[s].k].status = "SUBMITTED"] /\ UNCHANGED <<offer, sweep>>
        /\ slot[s].op = "paid"
    BY <1>8, <2>1 DEF Offer!RequestPaid
  <2>3. r \in PayRow(Invoice)
    BY <2>1, <2>2
  <2>4. Written(Invoice, s, r)
    BY <2>2, <2>3, OfferWrites
  <2>5. StatusIsSet(Invoice, slot[s].k, "SUBMITTED")
    <3>1. slot[s].k \in Invoice /\ ev \in [Invoice -> PayRecord] /\ StatusSet(slot[s].k, "SUBMITTED")
      BY <2>2 DEF StatusSet
    <3>2. QED
      BY <3>1, StatusWritten
  <2>6. slot[s].k \in Invoice /\ (Uploading(s) \/ (slot[s].op = "finalize" /\ ev[slot[s].k].status = "PENDING"))
    BY <2>2
  <2>7. r.state # "APPROVED" /\ r.submitted \in BOOLEAN
    BY <2>1, <2>3
  <2>. HIDE DEF OfferInv, Uploading
  <2>8. QED
    BY <2>1, <2>2, <2>3, <2>4, <2>5, <2>6, <2>7, OfferEvidenceWritten
<1>9. ASSUME NEW s \in Slot, Offer!RequestPaidFails(s) PROVE OfferInv'
  BY <1>9 DEF Offer!RequestPaidFails, Offer!IdleSlot
<1>10. ASSUME NEW s \in Slot, Offer!InitiatePaymentEvidence(s) PROVE OfferInv'
  <2>1. PICK r : r = [state |-> "REQUESTED", billing |-> "PENDING", key |-> slot[s].k,
               submitted |-> FALSE, asked |-> slot[s].to]
    OBVIOUS
  <2>2. /\ Offer!Write(s, r) /\ ev' = [ev EXCEPT ![slot[s].k].status = "PENDING"] /\ UNCHANGED <<offer, sweep>>
        /\ slot[s].op = "initiate"
    BY <1>10, <2>1 DEF Offer!InitiatePaymentEvidence
  <2>3. r \in PayRow(Invoice)
    BY <2>1, <2>2
  <2>4. Written(Invoice, s, r)
    BY <2>2, <2>3, OfferWrites
  <2>5. StatusIsSet(Invoice, slot[s].k, "PENDING")
    <3>1. slot[s].k \in Invoice /\ ev \in [Invoice -> PayRecord] /\ StatusSet(slot[s].k, "PENDING")
      BY <2>2 DEF StatusSet
    <3>2. QED
      BY <3>1, StatusWritten
  <2>6. slot[s].k \in Invoice /\ (Uploading(s) \/ (slot[s].op = "finalize" /\ ev[slot[s].k].status = "PENDING"))
    BY <2>2
  <2>7. r.state # "APPROVED" /\ r.submitted \in BOOLEAN
    BY <2>1, <2>3
  <2>. HIDE DEF OfferInv, Uploading
  <2>8. QED
    BY <2>1, <2>2, <2>3, <2>4, <2>5, <2>6, <2>7, OfferEvidenceWritten
<1>11. ASSUME NEW s \in Slot, Offer!BeginFinalize(s) PROVE OfferInv'
  BY <1>11 DEF Offer!BeginFinalize, Offer!Begin
<1>12. ASSUME NEW s \in Slot, Offer!FinalizePaymentEvidence(s) PROVE OfferInv'
  <2>1. PICK r : r = [row EXCEPT !.state = "PAYMENT_REVIEW", !.submitted = TRUE]
    OBVIOUS
  <2>2. /\ Offer!Write(s, r) /\ ev' = [ev EXCEPT ![slot[s].k].status = "SUBMITTED", ![slot[s].k].due = FALSE] /\ UNCHANGED <<offer, sweep>>
        /\ slot[s].op = "finalize" /\ ev[slot[s].k].status = "PENDING"
    BY <1>12, <2>1 DEF Offer!FinalizePaymentEvidence
  <2>3. r \in PayRow(Invoice)
    BY <2>1, <2>2
  <2>4. Written(Invoice, s, r)
    BY <2>2, <2>3, OfferWrites
  <2>5. StatusIsSet(Invoice, slot[s].k, "SUBMITTED")
    <3>1. slot[s].k \in Invoice /\ ev \in [Invoice -> PayRecord] /\ StatusSet(slot[s].k, "SUBMITTED")
      BY <2>2 DEF StatusSet
    <3>2. QED
      BY <3>1, StatusWritten
  <2>6. slot[s].k \in Invoice /\ (Uploading(s) \/ (slot[s].op = "finalize" /\ ev[slot[s].k].status = "PENDING"))
    BY <2>2
  <2>7. r.state # "APPROVED" /\ r.submitted \in BOOLEAN
    BY <2>1, <2>3
  <2>. HIDE DEF OfferInv, Uploading
  <2>8. QED
    BY <2>1, <2>2, <2>3, <2>4, <2>5, <2>6, <2>7, OfferEvidenceWritten
<1>13. ASSUME NEW s \in Slot, Offer!BeginApprove(s) PROVE OfferInv'
  BY <1>13 DEF Offer!BeginApprove, Offer!Begin, Offer!Approvable
<1>14. ASSUME NEW s \in Slot, Offer!SetBillingStatus(s) PROVE OfferInv'
  <2>1. PICK r : r = [row EXCEPT !.billing = slot[s].to]
    OBVIOUS
  <2>2. /\ Offer!Write(s, r) /\ ev' = ev /\ UNCHANGED <<offer, sweep>>
        /\ slot[s].op = "billing"
    BY <1>14, <2>1 DEF Offer!SetBillingStatus
  <2>3. r \in PayRow(Invoice)
    BY <2>1, <2>2
  <2>4. Written(Invoice, s, r)
    BY <2>2, <2>3, OfferWrites
  <2>5. /\ r.submitted = row.submitted /\ OfferInv
        /\ \/ r.state # "APPROVED"
           \/ slot[s].op = "approve"
           \/ (r.state = row.state /\ slot[s].op = "billing")
    BY <2>1, <2>2
  <2>. HIDE DEF OfferInv
  <2>6. QED
    BY <2>2, <2>3, <2>4, <2>5, OfferRowWritten
<1>15. ASSUME NEW s \in Slot, Offer!BeginInstall(s) PROVE OfferInv'
  BY <1>15 DEF Offer!BeginInstall, Offer!Begin
<1>16. ASSUME NEW s \in Slot, Offer!BeginActivate(s) PROVE OfferInv'
  BY <1>16 DEF Offer!BeginActivate, Offer!Begin
<1>17. ASSUME NEW s \in Slot, Offer!BeginDeactivate(s) PROVE OfferInv'
  BY <1>17 DEF Offer!BeginDeactivate, Offer!Begin
<1>18. ASSUME NEW s \in Slot, Offer!SetState(s) PROVE OfferInv'
  <2>1. PICK r : r = [row EXCEPT !.state = slot[s].to]
    OBVIOUS
  <2>2. /\ Offer!Write(s, r) /\ ev' = ev /\ UNCHANGED <<offer, sweep>>
        /\ slot[s].op \in {"approve", "install", "activate", "deactivate"}
    BY <1>18, <2>1 DEF Offer!SetState
  <2>3. r \in PayRow(Invoice)
    BY <2>1, <2>2
  <2>4. Written(Invoice, s, r)
    BY <2>2, <2>3, OfferWrites
  <2>5. /\ r.submitted = row.submitted /\ OfferInv
        /\ \/ r.state # "APPROVED"
           \/ slot[s].op = "approve"
           \/ (r.state = row.state /\ slot[s].op = "billing")
    BY <2>1, <2>2
  <2>. HIDE DEF OfferInv
  <2>6. QED
    BY <2>2, <2>3, <2>4, <2>5, OfferRowWritten
<1>19. ASSUME NEW s \in Slot, Offer!SetLegalHold(s) PROVE OfferInv'
  <2>1. PICK k : k = slot[s].k
    OBVIOUS
  <2>2. PICK h, l : h = (slot[s].to = "hold") /\ l = (ev[k].status \in {"PURGING", "PURGED"})
    OBVIOUS
  <2>3. k \in Invoice /\ ev \in [Invoice -> PayRecord] /\ h \in BOOLEAN /\ l \in BOOLEAN
    BY <1>19, <2>1, <2>2 DEF Offer!SetLegalHold
  <2>4. /\ ev' = [ev EXCEPT ![k].hold = h, ![k].late = l]
        /\ slot' = [slot EXCEPT ![s] = Offer!IdleSlot] /\ UNCHANGED <<offer, row, sweep, overtaken>>
    BY <1>19, <2>1, <2>2 DEF Offer!SetLegalHold
  <2>5. StatusStays(Invoice, k)
    <3>1. HoldSet(k, h, l)
      BY <2>4 DEF HoldSet
    <3>2. QED
      BY <2>3, <3>1, HoldWritten
  <2>6. PayShape(Invoice)'
    BY <2>4, <2>5 DEF Offer!IdleSlot, StatusStays
  <2>7. QED
    BY <2>4, <2>5, <2>6 DEF Offer!IdleSlot, StatusStays
<1>20. ASSUME NEW s \in Slot, Offer!Abandon(s) PROVE OfferInv'
  BY <1>20 DEF Offer!Abandon, Offer!IdleSlot
<1>21. ASSUME NEW s \in Slot, NEW status \in {"PENDING", "ACTIVE", "OVERDUE"}, Offer!BeginBilling(s, status) PROVE OfferInv'
  BY <1>21 DEF Offer!BeginBilling, Offer!Begin
<1>22. ASSUME NEW s \in Slot, NEW k \in Invoice, Offer!BeginRequestPaid(s, k) PROVE OfferInv'
  BY <1>22 DEF Offer!BeginRequestPaid, Offer!Begin, Offer!Unused
<1>23. ASSUME NEW s \in Slot, NEW k \in Invoice, Offer!BeginInitiate(s, k) PROVE OfferInv'
  BY <1>23 DEF Offer!BeginInitiate, Offer!Begin, Offer!Unused
<1>24. ASSUME NEW s \in Slot, NEW k \in Invoice, NEW held \in BOOLEAN, Offer!BeginHold(s, k, held) PROVE OfferInv'
  BY <1>24 DEF Offer!BeginHold, Offer!Begin
<1>25. ASSUME NEW k \in Invoice, Offer!Upload(k) PROVE OfferInv'
  BY <1>25 DEF Offer!Upload
<1>26. ASSUME NEW k \in Invoice, Offer!RetentionEnds(k) PROVE OfferInv'
  <2>1. ev' = [ev EXCEPT ![k].due = TRUE] /\ UNCHANGED <<offer, row, slot, sweep, overtaken>>
    BY <1>26 DEF Offer!RetentionEnds
  <2>2. StatusStays(Invoice, k)
    <3>1. ev \in [Invoice -> PayRecord] /\ DueSet(k)
      BY <2>1 DEF DueSet
    <3>2. QED
      BY <3>1, DueWritten
  <2>3. PayShape(Invoice)'
    BY <2>1, <2>2 DEF StatusStays
  <2>4. QED
    BY <2>1, <2>2, <2>3 DEF StatusStays
<1>27. ASSUME NEW k \in Invoice, Offer!FindExpired(k) PROVE OfferInv'
  BY <1>27 DEF Offer!FindExpired
<1>28. ASSUME Offer!ClaimEvidence PROVE OfferInv'
  <2>1. PICK k : k = sweep.k
    OBVIOUS
  <2>2. /\ sweep.pc = "claim" /\ ev[k].status = sweep.was /\ k \in Invoice
        /\ ev' = [ev EXCEPT ![k].status = "PURGING"]
        /\ sweep' = [sweep EXCEPT !.pc = "delete"] /\ UNCHANGED <<offer, row, slot, overtaken>>
    BY <1>28, <2>1 DEF Offer!ClaimEvidence, Offer!Claimable
  <2>3. StatusIsSet(Invoice, k, "PURGING")
    <3>1. ev \in [Invoice -> PayRecord] /\ StatusSet(k, "PURGING")
      BY <2>2 DEF StatusSet
    <3>2. QED
      BY <2>2, <3>1, StatusWritten
  <2>4. PayShape(Invoice)'
    BY <2>2, <2>3 DEF StatusIsSet
  <2>5. Claimed(Invoice)' /\ OwnKey(Invoice)' /\ Named(Invoice)'
    BY <2>1, <2>2, <2>3 DEF StatusIsSet
  <2>6. Backed'
    BY <2>1, <2>2, <2>3 DEF StatusIsSet
  <2>7. QED
    BY <2>2, <2>4, <2>5, <2>6
<1>29. ASSUME Offer!SkipEvidence PROVE OfferInv'
  BY <1>29 DEF Offer!SkipEvidence, Offer!IdleSweep
<1>30. ASSUME Offer!DeleteInvoice PROVE OfferInv'
  BY <1>30 DEF Offer!DeleteInvoice
<1>31. ASSUME Offer!RecordPurge PROVE OfferInv'
  <2>1. PICK k : k = sweep.k
    OBVIOUS
  <2>2. /\ k \in Invoice /\ ev[k].status = "PURGING" /\ sweep' = Offer!IdleSweep
        /\ row' = (IF row.key = k THEN [row EXCEPT !.key = None] ELSE row)
        /\ ev \in [Invoice -> PayRecord] /\ StatusSet(k, "PURGED") /\ UNCHANGED <<offer, slot, overtaken>>
    BY <1>31, <2>1 DEF Offer!RecordPurge, StatusSet
  <2>3. StatusIsSet(Invoice, k, "PURGED")
    BY <2>2, StatusWritten
  <2>4. row' \in PayRow(Invoice) /\ row'.state = row.state /\ row'.submitted = row.submitted
    BY <2>2
  <2>5. PayShape(Invoice)' /\ Claimed(Invoice)'
    BY <2>2, <2>3, <2>4 DEF StatusIsSet, Offer!IdleSweep
  <2>6. QED
    BY <2>2, <2>3, <2>4, <2>5 DEF StatusIsSet, Offer!IdleSweep
<1>32. ASSUME Offer!SweepFails PROVE OfferInv'
  <2>1. PICK k : k = sweep.k
    OBVIOUS
  <2>2. /\ k \in Invoice /\ ev[k].status = "PURGING" /\ sweep.pc \in {"delete", "record"}
        /\ sweep.was \in {"PENDING", "SUBMITTED"} /\ sweep' = Offer!IdleSweep
        /\ ev \in [Invoice -> PayRecord] /\ StatusSet(k, sweep.was) /\ UNCHANGED <<offer, row, slot, overtaken>>
    BY <1>32, <2>1 DEF Offer!SweepFails, StatusSet
  <2>3. StatusIsSet(Invoice, k, sweep.was)
    BY <2>2, StatusWritten
  <2>4. PayShape(Invoice)' /\ Claimed(Invoice)'
    BY <2>2, <2>3 DEF StatusIsSet, Offer!IdleSweep
  <2>5. QED
    BY <2>1, <2>2, <2>3, <2>4 DEF StatusIsSet, Offer!IdleSweep
<1>33. ASSUME Offer!SweepCrash PROVE OfferInv'
  BY <1>33 DEF Offer!SweepCrash, Offer!IdleSweep
<1>. HIDE DEF OfferInv
<1>35. QED
  BY <1>1, <1>2, <1>3, <1>4, <1>5, <1>6, <1>7, <1>8, <1>9, <1>10, <1>11, <1>12, <1>13, <1>14, <1>15, <1>16, <1>17, <1>18, <1>19, <1>20, <1>21, <1>22, <1>23, <1>24, <1>25, <1>26, <1>27, <1>28, <1>29, <1>30, <1>31, <1>32, <1>33 DEF Offer!PayNext

LEMMA OfferStarts == ASSUME Offer!PayInit PROVE OfferInv
<1>1. Offer!IdleSlot \in PaySlot(Invoice) /\ Offer!IdleSlot.op = "idle" /\ Offer!IdleSweep.pc = "idle"
  BY DEF Offer!IdleSlot, Offer!IdleSweep, PaySlot
<1>2. PayShape(Invoice)
  BY <1>1 DEF Offer!PayInit, PayShape, PayRow, PayRecord, PayModel, Offer!NoEvidence, Offer!IdleSweep
<1>3. \A s \in Slot : slot[s].op = "idle"
  BY <1>1 DEF Offer!PayInit
<1>4. QED
  BY <1>1, <1>2, <1>3
     DEF Offer!PayInit, OfferInv, Claimed, OwnKey, Uploading, Named, Backed, Targets, Approving, Approved

LEMMA OfferIsBacked == ASSUME OfferInv PROVE Offer!ApprovedWasSubmitted
  BY DEF OfferInv, Offer!ApprovedWasSubmitted, Backed, Shown, Approved, Paying

-----------------------------------------------------------------------------
(* A row that is named exists, and what was uploaded for it is stored as   *)
(* long as no cleanup may have deleted it.                                 *)
Known ==
  /\ row.key # None => ev[row.key].status # "NONE"
  /\ sweep.pc # "idle" => ev[sweep.k].status # "NONE" /\ sweep.was # "NONE"
  /\ \A s \in Slot : slot[s].op \in {"finalize", "hold"} => ev[slot[s].k].status # "NONE"
Cleared(k) ==
  \/ k \in torn \/ ev[k].status = "PURGED"
  \/ ev[k].status = "PURGING" /\ ~ (sweep.pc = "delete" /\ sweep.k = k)
Stored ==
  /\ \A k \in Key : ev[k].status = "SUBMITTED" => Cleared(k) \/ k \in objects
  /\ \A s \in Slot : slot[s].op = "finalize" => Cleared(slot[s].k) \/ slot[s].k \in objects
  /\ sweep.pc = "delete" /\ sweep.was = "SUBMITTED" => sweep.k \in torn \cup objects
Holding ==
  \A s \in Slot : slot[s].op = "hold" => Shown(slot[s].k)
Held == \A k \in Key : ev[k].hold /\ ~ ev[k].late => ev[k].status = "SUBMITTED"
EvidenceInv ==
  /\ PayShape(Key) /\ Claimed(Key) /\ OwnKey(Key) /\ Named(Key)
  /\ Targets /\ Known /\ Stored /\ Holding /\ Held


LEMMA EvidenceWrites ==
  ASSUME EvidenceInv, NEW s \in Slot, NEW r, Evidence!Write(s, r)
  PROVE  Written(Key, s, r)
  BY RequestWrites DEF EvidenceInv, PayShape, Evidence!Write, Evidence!IdleSlot

LEMMA PlainWritten ==
  ASSUME EvidenceInv, NEW s \in Slot, NEW r \in PayRow(Key), Written(Key, s, r),
         UNCHANGED <<offer, sweep, ev, objects, torn>>, r.key = row.key
  PROVE  EvidenceInv'
<1>1. \A x \in Slot :
          x # s => /\ slot'[x].op = slot[x].op /\ slot'[x].k = slot[x].k /\ slot'[x].to = slot[x].to
                   /\ slot[x].op # "idle" => slot'[x].stale
  BY DEF Written
<1>2. /\ row' = r /\ slot' \in [Slot -> PaySlot(Key)] /\ slot'[s].op = "idle"
      /\ offer' = offer /\ sweep' = sweep /\ ev' = ev /\ objects' = objects /\ torn' = torn
  BY DEF Written
<1>3. PayShape(Key)' /\ Claimed(Key)'
  BY <1>2 DEF EvidenceInv, PayShape, Claimed, Written
<1>4. OwnKey(Key)' /\ Named(Key)' /\ Targets'
  BY <1>1, <1>2 DEF EvidenceInv, OwnKey, Uploading, Named, Targets
<1>5. Known'
  BY <1>1, <1>2 DEF EvidenceInv, Known
<1>6. Stored' /\ Holding'
  BY <1>1, <1>2 DEF EvidenceInv, Stored, Cleared, Holding, Shown
<1>7. Held'
  BY <1>2 DEF EvidenceInv, Held
<1>8. QED
  BY <1>3, <1>4, <1>5, <1>6, <1>7 DEF EvidenceInv

LEMMA EvidenceWritten ==
  ASSUME EvidenceInv, NEW s \in Slot, NEW r \in PayRow(Key), Written(Key, s, r),
         UNCHANGED <<offer, sweep, torn, objects>>, NEW k \in Key, slot[s].k = k, r.key \in {k, row.key},
         NEW st \in {"PENDING", "SUBMITTED"}, StatusIsSet(Key, k, st),
         Uploading(s) \/ (slot[s].op = "finalize" /\ ev[k].status = "PENDING"),
         Uploading(s) /\ st = "SUBMITTED" => k \in objects
  PROVE  EvidenceInv'
<1>1. \A x \in Slot :
          x # s => /\ slot'[x].op = slot[x].op /\ slot'[x].k = slot[x].k /\ slot'[x].to = slot[x].to
                   /\ slot[x].op # "idle" => slot'[x].stale
  BY DEF Written
<1>2. /\ row' = r /\ slot' \in [Slot -> PaySlot(Key)] /\ slot'[s].op = "idle"
      /\ offer' = offer /\ sweep' = sweep /\ objects' = objects /\ torn' = torn
  BY DEF Written
<1>3. PayShape(Key)'
  BY <1>2 DEF EvidenceInv, PayShape, Written, StatusIsSet
<1>4. ev[k].status \in {"NONE", "PENDING"}
  BY DEF EvidenceInv, OwnKey
<1>5. \A x \in Key : ev'[x].status = IF x = k THEN st ELSE ev[x].status
  BY DEF StatusIsSet
<1>6. Claimed(Key)'
  BY <1>2, <1>4, <1>5 DEF EvidenceInv, Claimed
<1>7. \A x \in Slot : x # s /\ Uploading(x) => slot[x].k # k
  <2>1. ASSUME NEW x \in Slot, x # s, Uploading(x), slot[x].k = k PROVE FALSE
    <3>1. ev[k].status = "NONE"
      BY <2>1 DEF EvidenceInv, OwnKey
    <3>2. Uploading(s)
      BY <3>1
    <3>3. QED
      BY <2>1, <3>2 DEF EvidenceInv, OwnKey
  <2>2. QED
    BY <2>1
<1>8. OwnKey(Key)' /\ Named(Key)' /\ Targets'
  BY <1>1, <1>2, <1>5, <1>7 DEF EvidenceInv, OwnKey, Uploading, Named, Targets
<1>9. Known'
  BY <1>1, <1>2, <1>5 DEF EvidenceInv, Known, Named, Claimed, PayShape, PayRow
<1>10. k \in torn \/ k \in objects \/ st = "PENDING"
  BY <1>4 DEF EvidenceInv, Stored, Cleared
<1>11. Stored' /\ Holding'
  BY <1>1, <1>2, <1>4, <1>5, <1>10 DEF EvidenceInv, Stored, Cleared, Holding, Shown, Named, Claimed
<1>12. Held'
  BY <1>4, <1>5 DEF EvidenceInv, Held, StatusIsSet
<1>13. QED
  BY <1>3, <1>6, <1>8, <1>9, <1>11, <1>12 DEF EvidenceInv

LEMMA EvidenceStep ==
  ASSUME EvidenceInv, [Evidence!PayNext]_Evidence!payVars PROVE EvidenceInv'
<1>. USE DEF EvidenceInv, PayShape, PayRow, PaySlot, PayModel, Claimed, OwnKey, Uploading, Named, Targets, Known, Cleared, Stored, Shown, Holding, Held
<1>1. CASE UNCHANGED Evidence!payVars
  BY <1>1 DEF Evidence!payVars
<1>2. ASSUME NEW m \in Evidence!Paid \cup {"FREE"}, Evidence!SetPricing(m) PROVE EvidenceInv'
  <2>1. /\ offer' = [offer EXCEPT !.model = m] /\ overtaken' \in BOOLEAN
        /\ UNCHANGED <<row, ev, slot, sweep, objects, torn>>
    BY <1>2 DEF Evidence!SetPricing
  <2>2. offer' \in [model : PayModel, visibility : {"LISTED", "PRIVATE"}, granted : BOOLEAN]
    BY <2>1 DEF Evidence!Paid
  <2>3. QED
    BY <2>1, <2>2
<1>3. ASSUME NEW v \in {"LISTED", "PRIVATE"}, Evidence!SetVisibility(v) PROVE EvidenceInv'
  BY <1>3 DEF Evidence!SetVisibility
<1>4. ASSUME NEW g \in BOOLEAN, Evidence!GrantPrivateAccess(g) PROVE EvidenceInv'
  BY <1>4 DEF Evidence!GrantPrivateAccess
<1>5. ASSUME NEW s \in Slot, Evidence!BeginRequest(s) PROVE EvidenceInv'
  BY <1>5 DEF Evidence!BeginRequest, Evidence!Begin
<1>6. ASSUME NEW s \in Slot, Evidence!Request(s) PROVE EvidenceInv'
  <2>1. PICK r : r = [row EXCEPT !.state = "REQUESTED", !.asked = slot[s].to,
                          !.billing = IF slot[s].to = "FREE" THEN "ACTIVE" ELSE "PENDING"]
    OBVIOUS
  <2>2. /\ Evidence!Write(s, r) /\ ev' = ev /\ UNCHANGED <<offer, sweep, torn, objects>>
        /\ slot[s].op = "request"
    BY <1>6, <2>1 DEF Evidence!Request
  <2>3. r \in PayRow(Key)
    BY <2>1, <2>2
  <2>4. Written(Key, s, r)
    BY <2>2, <2>3, EvidenceWrites
  <2>5. r.key = row.key /\ EvidenceInv
    BY <2>1
  <2>. HIDE DEF EvidenceInv
  <2>6. QED
    BY <2>2, <2>3, <2>4, <2>5, PlainWritten
<1>7. ASSUME NEW s \in Slot, Evidence!PutInvoice(s) PROVE EvidenceInv'
  BY <1>7 DEF Evidence!PutInvoice
<1>8. ASSUME NEW s \in Slot, Evidence!RequestPaid(s) PROVE EvidenceInv'
  <2>1. PICK r : r = [state |-> "PAYMENT_REVIEW", billing |-> "PENDING", key |-> slot[s].k,
               submitted |-> TRUE, asked |-> slot[s].to]
    OBVIOUS
  <2>2. /\ Evidence!Write(s, r) /\ ev' = [ev EXCEPT ![slot[s].k].status = "SUBMITTED"] /\ UNCHANGED <<offer, sweep, torn, objects>>
        /\ slot[s].op = "paid" /\ slot[s].k \in objects
    BY <1>8, <2>1 DEF Evidence!RequestPaid
  <2>3. r \in PayRow(Key)
    BY <2>1, <2>2
  <2>4. Written(Key, s, r)
    BY <2>2, <2>3, EvidenceWrites
  <2>5. StatusIsSet(Key, slot[s].k, "SUBMITTED")
    <3>1. slot[s].k \in Key /\ ev \in [Key -> PayRecord] /\ StatusSet(slot[s].k, "SUBMITTED")
      BY <2>2 DEF StatusSet
    <3>2. QED
      BY <3>1, StatusWritten
  <2>6. slot[s].k \in Key /\ (Uploading(s) \/ (slot[s].op = "finalize" /\ ev[slot[s].k].status = "PENDING"))
    BY <2>2
  <2>7. /\ r.key \in {slot[s].k, row.key} /\ EvidenceInv
        /\ Uploading(s) => slot[s].k \in objects
    BY <2>1, <2>2
  <2>. HIDE DEF EvidenceInv, Uploading
  <2>8. QED
    BY <2>1, <2>2, <2>3, <2>4, <2>5, <2>6, <2>7, EvidenceWritten
<1>9. ASSUME NEW s \in Slot, Evidence!RequestPaidFails(s) PROVE EvidenceInv'
  BY <1>9 DEF Evidence!RequestPaidFails, Evidence!IdleSlot
<1>10. ASSUME NEW s \in Slot, Evidence!InitiatePaymentEvidence(s) PROVE EvidenceInv'
  <2>1. PICK r : r = [state |-> "REQUESTED", billing |-> "PENDING", key |-> slot[s].k,
               submitted |-> FALSE, asked |-> slot[s].to]
    OBVIOUS
  <2>2. /\ Evidence!Write(s, r) /\ ev' = [ev EXCEPT ![slot[s].k].status = "PENDING"] /\ UNCHANGED <<offer, sweep, torn, objects>>
        /\ slot[s].op = "initiate"
    BY <1>10, <2>1 DEF Evidence!InitiatePaymentEvidence
  <2>3. r \in PayRow(Key)
    BY <2>1, <2>2
  <2>4. Written(Key, s, r)
    BY <2>2, <2>3, EvidenceWrites
  <2>5. StatusIsSet(Key, slot[s].k, "PENDING")
    <3>1. slot[s].k \in Key /\ ev \in [Key -> PayRecord] /\ StatusSet(slot[s].k, "PENDING")
      BY <2>2 DEF StatusSet
    <3>2. QED
      BY <3>1, StatusWritten
  <2>6. slot[s].k \in Key /\ (Uploading(s) \/ (slot[s].op = "finalize" /\ ev[slot[s].k].status = "PENDING"))
    BY <2>2
  <2>7. /\ r.key \in {slot[s].k, row.key} /\ EvidenceInv
    BY <2>1, <2>2
  <2>. HIDE DEF EvidenceInv, Uploading
  <2>8. QED
    BY <2>1, <2>2, <2>3, <2>4, <2>5, <2>6, <2>7, EvidenceWritten
<1>11. ASSUME NEW s \in Slot, Evidence!BeginFinalize(s) PROVE EvidenceInv'
  BY <1>11 DEF Evidence!BeginFinalize, Evidence!Begin
<1>12. ASSUME NEW s \in Slot, Evidence!FinalizePaymentEvidence(s) PROVE EvidenceInv'
  <2>1. PICK r : r = [row EXCEPT !.state = "PAYMENT_REVIEW", !.submitted = TRUE]
    OBVIOUS
  <2>2. /\ Evidence!Write(s, r) /\ ev' = [ev EXCEPT ![slot[s].k].status = "SUBMITTED", ![slot[s].k].due = FALSE] /\ UNCHANGED <<offer, sweep, torn, objects>>
        /\ slot[s].op = "finalize" /\ ev[slot[s].k].status = "PENDING"
    BY <1>12, <2>1 DEF Evidence!FinalizePaymentEvidence
  <2>3. r \in PayRow(Key)
    BY <2>1, <2>2
  <2>4. Written(Key, s, r)
    BY <2>2, <2>3, EvidenceWrites
  <2>5. StatusIsSet(Key, slot[s].k, "SUBMITTED")
    <3>1. slot[s].k \in Key /\ ev \in [Key -> PayRecord] /\ StatusSet(slot[s].k, "SUBMITTED")
      BY <2>2 DEF StatusSet
    <3>2. QED
      BY <3>1, StatusWritten
  <2>6. slot[s].k \in Key /\ (Uploading(s) \/ (slot[s].op = "finalize" /\ ev[slot[s].k].status = "PENDING"))
    BY <2>2
  <2>7. /\ r.key \in {slot[s].k, row.key} /\ EvidenceInv
        /\ Uploading(s) => slot[s].k \in objects
    BY <2>1, <2>2
  <2>. HIDE DEF EvidenceInv, Uploading
  <2>8. QED
    BY <2>1, <2>2, <2>3, <2>4, <2>5, <2>6, <2>7, EvidenceWritten
<1>13. ASSUME NEW s \in Slot, Evidence!BeginApprove(s) PROVE EvidenceInv'
  BY <1>13 DEF Evidence!BeginApprove, Evidence!Begin, Evidence!Approvable
<1>14. ASSUME NEW s \in Slot, Evidence!SetBillingStatus(s) PROVE EvidenceInv'
  <2>1. PICK r : r = [row EXCEPT !.billing = slot[s].to]
    OBVIOUS
  <2>2. /\ Evidence!Write(s, r) /\ ev' = ev /\ UNCHANGED <<offer, sweep, torn, objects>>
        /\ slot[s].op = "billing"
    BY <1>14, <2>1 DEF Evidence!SetBillingStatus
  <2>3. r \in PayRow(Key)
    BY <2>1, <2>2
  <2>4. Written(Key, s, r)
    BY <2>2, <2>3, EvidenceWrites
  <2>5. r.key = row.key /\ EvidenceInv
    BY <2>1
  <2>. HIDE DEF EvidenceInv
  <2>6. QED
    BY <2>2, <2>3, <2>4, <2>5, PlainWritten
<1>15. ASSUME NEW s \in Slot, Evidence!BeginInstall(s) PROVE EvidenceInv'
  BY <1>15 DEF Evidence!BeginInstall, Evidence!Begin
<1>16. ASSUME NEW s \in Slot, Evidence!BeginActivate(s) PROVE EvidenceInv'
  BY <1>16 DEF Evidence!BeginActivate, Evidence!Begin
<1>17. ASSUME NEW s \in Slot, Evidence!BeginDeactivate(s) PROVE EvidenceInv'
  BY <1>17 DEF Evidence!BeginDeactivate, Evidence!Begin
<1>18. ASSUME NEW s \in Slot, Evidence!SetState(s) PROVE EvidenceInv'
  <2>1. PICK r : r = [row EXCEPT !.state = slot[s].to]
    OBVIOUS
  <2>2. /\ Evidence!Write(s, r) /\ ev' = ev /\ UNCHANGED <<offer, sweep, torn, objects>>
        /\ slot[s].op \in {"approve", "install", "activate", "deactivate"}
    BY <1>18, <2>1 DEF Evidence!SetState
  <2>3. r \in PayRow(Key)
    BY <2>1, <2>2
  <2>4. Written(Key, s, r)
    BY <2>2, <2>3, EvidenceWrites
  <2>5. r.key = row.key /\ EvidenceInv
    BY <2>1
  <2>. HIDE DEF EvidenceInv
  <2>6. QED
    BY <2>2, <2>3, <2>4, <2>5, PlainWritten
<1>19. ASSUME NEW s \in Slot, Evidence!SetLegalHold(s) PROVE EvidenceInv'
  <2>1. PICK k : k = slot[s].k
    OBVIOUS
  <2>2. PICK h, l : h = (slot[s].to = "hold") /\ l = (ev[k].status \in {"PURGING", "PURGED"})
    OBVIOUS
  <2>3. k \in Key /\ ev \in [Key -> PayRecord] /\ h \in BOOLEAN /\ l \in BOOLEAN
    BY <1>19, <2>1, <2>2 DEF Evidence!SetLegalHold
  <2>4. /\ ev' = [ev EXCEPT ![k].hold = h, ![k].late = l]
        /\ slot' = [slot EXCEPT ![s] = Evidence!IdleSlot] /\ slot[s].op = "hold"
        /\ UNCHANGED <<offer, row, objects, sweep, overtaken, torn>>
    BY <1>19, <2>1, <2>2 DEF Evidence!SetLegalHold
  <2>5. StatusStays(Key, k) /\ ev'[k].hold = h /\ ev'[k].late = l
    <3>1. HoldSet(k, h, l)
      BY <2>4 DEF HoldSet
    <3>2. QED
      BY <2>3, <3>1, HoldWritten
  <2>6. PayShape(Key)'
    BY <2>4, <2>5 DEF Evidence!IdleSlot, StatusStays
  <2>7. Held'
    <3>1. ~ l => ev[k].status = "SUBMITTED"
      <4>. HIDE DEF PayShape, OwnKey, Targets, Known, Stored, Cleared, Held
      <4>1. Shown(k) /\ slot[s].op = "hold"
        BY <2>1, <2>4
      <4>2. QED
        BY <2>2, <4>1
    <3>. HIDE DEF PayShape, PayRow, PaySlot, PayModel, OwnKey, Targets, Known, Stored, Cleared, Holding, Shown
    <3>2. QED
      BY <2>3, <2>5, <3>1 DEF StatusStays
  <2>8. Claimed(Key)' /\ OwnKey(Key)' /\ Named(Key)' /\ Targets' /\ Known'
    BY <2>4, <2>5 DEF Evidence!IdleSlot, StatusStays
  <2>9. Stored' /\ Holding'
    <3>. HIDE DEF PayShape, PayRow, PaySlot, PayModel, OwnKey, Uploading, Targets, Known
    <3>1. QED
      BY <2>4, <2>5 DEF Evidence!IdleSlot, StatusStays
  <2>10. QED
    BY <2>6, <2>7, <2>8, <2>9
<1>20. ASSUME NEW s \in Slot, Evidence!Abandon(s) PROVE EvidenceInv'
  BY <1>20 DEF Evidence!Abandon, Evidence!IdleSlot
<1>21. ASSUME NEW s \in Slot, NEW status \in {"PENDING", "ACTIVE", "OVERDUE"}, Evidence!BeginBilling(s, status) PROVE EvidenceInv'
  BY <1>21 DEF Evidence!BeginBilling, Evidence!Begin
<1>22. ASSUME NEW s \in Slot, NEW k \in Key, Evidence!BeginRequestPaid(s, k) PROVE EvidenceInv'
  BY <1>22 DEF Evidence!BeginRequestPaid, Evidence!Begin, Evidence!Unused
<1>23. ASSUME NEW s \in Slot, NEW k \in Key, Evidence!BeginInitiate(s, k) PROVE EvidenceInv'
  BY <1>23 DEF Evidence!BeginInitiate, Evidence!Begin, Evidence!Unused
<1>24. ASSUME NEW s \in Slot, NEW k \in Key, NEW held \in BOOLEAN, Evidence!BeginHold(s, k, held) PROVE EvidenceInv'
  BY <1>24 DEF Evidence!BeginHold, Evidence!Begin
<1>25. ASSUME NEW k \in Key, Evidence!Upload(k) PROVE EvidenceInv'
  BY <1>25 DEF Evidence!Upload
<1>26. ASSUME NEW k \in Key, Evidence!RetentionEnds(k) PROVE EvidenceInv'
  <2>1. ev' = [ev EXCEPT ![k].due = TRUE] /\ UNCHANGED <<offer, row, objects, slot, sweep, overtaken, torn>>
    BY <1>26 DEF Evidence!RetentionEnds
  <2>2. StatusStays(Key, k) /\ ev'[k].hold = ev[k].hold /\ ev'[k].late = ev[k].late
    <3>1. ev \in [Key -> PayRecord] /\ DueSet(k)
      BY <2>1 DEF DueSet
    <3>2. QED
      BY <3>1, DueWritten
  <2>3. PayShape(Key)'
    BY <2>1, <2>2 DEF StatusStays
  <2>4. Held'
    <3>. HIDE DEF PayShape, PayRow, PaySlot, PayModel, OwnKey, Uploading, Targets, Known, Stored, Cleared, Holding, Shown
    <3>1. QED
      BY <2>1, <2>2 DEF StatusStays
  <2>5. Claimed(Key)' /\ OwnKey(Key)' /\ Named(Key)' /\ Targets' /\ Known'
    BY <2>1, <2>2 DEF StatusStays
  <2>6. Stored' /\ Holding'
    <3>. HIDE DEF PayShape, PayRow, PaySlot, PayModel, OwnKey, Uploading, Targets, Known
    <3>1. QED
      BY <2>1, <2>2 DEF StatusStays
  <2>7. QED
    BY <2>3, <2>4, <2>5, <2>6
<1>27. ASSUME NEW k \in Key, Evidence!FindExpired(k) PROVE EvidenceInv'
  BY <1>27 DEF Evidence!FindExpired
<1>28. ASSUME Evidence!ClaimEvidence PROVE EvidenceInv'
  <2>1. PICK k : k = sweep.k
    OBVIOUS
  <2>2. /\ sweep.pc = "claim" /\ ev[k].status = sweep.was /\ k \in Key
        /\ ev' = [ev EXCEPT ![k].status = "PURGING"]
        /\ sweep' = [sweep EXCEPT !.pc = "delete"] /\ ~ ev[k].hold
        /\ UNCHANGED <<offer, row, objects, slot, overtaken, torn>>
    BY <1>28, <2>1 DEF Evidence!ClaimEvidence, Evidence!Claimable
  <2>3. StatusIsSet(Key, k, "PURGING")
    <3>1. ev \in [Key -> PayRecord] /\ StatusSet(k, "PURGING")
      BY <2>2 DEF StatusSet
    <3>2. QED
      BY <2>2, <3>1, StatusWritten
  <2>4. PayShape(Key)'
    BY <2>2, <2>3 DEF StatusIsSet
  <2>5. /\ sweep.pc = "claim" /\ sweep.k = k /\ k \in Key /\ ev[k].status = sweep.was /\ ~ ev[k].hold
        /\ sweep.was \in {"PENDING", "SUBMITTED"} /\ row.key \in Key \cup {None}
        /\ sweep'.pc = "delete" /\ sweep'.k = k /\ sweep'.was = sweep.was
        /\ row' = row /\ objects' = objects /\ slot' = slot /\ torn' = torn
    BY <2>1, <2>2
  <2>. HIDE DEF PayShape, PayRow, PaySlot, PayModel
  <2>7. Claimed(Key)' /\ OwnKey(Key)' /\ Named(Key)' /\ Known' /\ Targets'
    BY <2>3, <2>5 DEF StatusIsSet
  <2>. HIDE DEF OwnKey, Uploading, Targets, Known
  <2>8. Stored'
    <3>. HIDE DEF Holding, Shown, Held
    <3>1. QED
      BY <2>3, <2>5 DEF StatusIsSet
  <2>. HIDE DEF Stored, Cleared
  <2>9. Holding' /\ Held'
    BY <2>3, <2>5 DEF StatusIsSet
  <2>10. QED
    BY <2>4, <2>7, <2>8, <2>9
<1>29. ASSUME Evidence!SkipEvidence PROVE EvidenceInv'
  BY <1>29 DEF Evidence!SkipEvidence, Evidence!IdleSweep
<1>30. ASSUME Evidence!DeleteInvoice PROVE EvidenceInv'
  BY <1>30 DEF Evidence!DeleteInvoice
<1>31. ASSUME Evidence!RecordPurge PROVE EvidenceInv'
  <2>1. PICK k : k = sweep.k
    OBVIOUS
  <2>2. /\ k \in Key /\ ev[k].status = "PURGING" /\ sweep' = Evidence!IdleSweep
        /\ row' = (IF row.key = k THEN [row EXCEPT !.key = None] ELSE row)
        /\ ev \in [Key -> PayRecord] /\ StatusSet(k, "PURGED")
        /\ UNCHANGED <<offer, objects, slot, overtaken, torn>>
    BY <1>31, <2>1 DEF Evidence!RecordPurge, StatusSet
  <2>3. StatusIsSet(Key, k, "PURGED")
    BY <2>2, StatusWritten
  <2>4. row' \in PayRow(Key) /\ row'.key \in {None, row.key}
    BY <2>2
  <2>5. PayShape(Key)' /\ Claimed(Key)'
    BY <2>2, <2>3, <2>4 DEF StatusIsSet, Evidence!IdleSweep
  <2>6. OwnKey(Key)' /\ Named(Key)' /\ Targets' /\ Known'
    BY <2>2, <2>3, <2>4 DEF StatusIsSet, Evidence!IdleSweep
  <2>7. Stored'
    <3>. HIDE DEF PayShape, PayRow, PaySlot, PayModel, OwnKey, Uploading, Targets, Known, Holding, Shown, Held
    <3>1. QED
      BY <2>2, <2>3 DEF StatusIsSet, Evidence!IdleSweep
  <2>8. Holding' /\ Held'
    <3>. HIDE DEF PayShape, PayRow, PaySlot, PayModel, OwnKey, Uploading, Targets, Known, Stored, Cleared
    <3>1. QED
      BY <2>2, <2>3 DEF StatusIsSet, Evidence!IdleSweep
  <2>9. QED
    BY <2>5, <2>6, <2>7, <2>8
<1>32. ASSUME Evidence!SweepFails PROVE EvidenceInv'
  <2>1. PICK k : k = sweep.k
    OBVIOUS
  <2>2. /\ k \in Key /\ ev[k].status = "PURGING" /\ sweep.pc \in {"delete", "record"}
        /\ sweep.was \in {"PENDING", "SUBMITTED"} /\ sweep' = Evidence!IdleSweep
        /\ ev \in [Key -> PayRecord] /\ StatusSet(k, sweep.was)
        /\ torn' = (IF sweep.pc = "record" THEN torn \cup {k} ELSE torn)
        /\ UNCHANGED <<offer, row, objects, slot, overtaken>>
    BY <1>32, <2>1 DEF Evidence!SweepFails, StatusSet
  <2>3. StatusIsSet(Key, k, sweep.was)
    BY <2>2, StatusWritten
  <2>4. PayShape(Key)' /\ Claimed(Key)'
    BY <2>2, <2>3 DEF StatusIsSet, Evidence!IdleSweep
  <2>5. OwnKey(Key)' /\ Named(Key)' /\ Targets' /\ Known'
    BY <2>2, <2>3 DEF StatusIsSet, Evidence!IdleSweep
  <2>6. Stored'
    <3>. HIDE DEF PayShape, PayRow, PaySlot, PayModel, OwnKey, Uploading, Targets, Known, Holding, Shown, Held
    <3>1. QED
      BY <2>1, <2>2, <2>3 DEF StatusIsSet, Evidence!IdleSweep
  <2>7. Holding' /\ Held'
    <3>. HIDE DEF PayShape, PayRow, PaySlot, PayModel, OwnKey, Uploading, Targets, Known, Stored, Cleared
    <3>1. QED
      BY <2>1, <2>2, <2>3 DEF StatusIsSet, Evidence!IdleSweep
  <2>8. QED
    BY <2>4, <2>5, <2>6, <2>7
<1>33. ASSUME Evidence!SweepCrash PROVE EvidenceInv'
  BY <1>33 DEF Evidence!SweepCrash, Evidence!IdleSweep
<1>. HIDE DEF EvidenceInv
<1>35. QED
  BY <1>1, <1>2, <1>3, <1>4, <1>5, <1>6, <1>7, <1>8, <1>9, <1>10, <1>11, <1>12, <1>13, <1>14, <1>15, <1>16, <1>17, <1>18, <1>19, <1>20, <1>21, <1>22, <1>23, <1>24, <1>25, <1>26, <1>27, <1>28, <1>29, <1>30, <1>31, <1>32, <1>33 DEF Evidence!PayNext

LEMMA EvidenceStarts == ASSUME Evidence!PayInit PROVE EvidenceInv
<1>1. Evidence!IdleSlot \in PaySlot(Key) /\ Evidence!IdleSlot.op = "idle" /\ Evidence!IdleSweep.pc = "idle"
  BY DEF Evidence!IdleSlot, Evidence!IdleSweep, PaySlot
<1>2. PayShape(Key)
  BY <1>1 DEF Evidence!PayInit, PayShape, PayRow, PayRecord, PayModel, Evidence!NoEvidence, Evidence!IdleSweep
<1>3. \A s \in Slot : slot[s].op = "idle"
  BY <1>1 DEF Evidence!PayInit
<1>4. \A k \in Key : ev[k].status = "NONE" /\ ~ ev[k].hold
  BY DEF Evidence!PayInit, Evidence!NoEvidence
<1>5. row.key = None
  BY DEF Evidence!PayInit
<1>6. sweep.pc = "idle"
  BY <1>1 DEF Evidence!PayInit
<1>7. Stored /\ Holding /\ Held
  BY <1>3, <1>4, <1>6 DEF Stored, Holding, Held
<1>8. Claimed(Key) /\ OwnKey(Key) /\ Named(Key) /\ Targets /\ Known
  BY <1>3, <1>5, <1>6 DEF Claimed, OwnKey, Uploading, Named, Targets, Known
<1>9. QED
  BY <1>2, <1>7, <1>8 DEF EvidenceInv

LEMMA EvidenceIsStored == ASSUME EvidenceInv PROVE Evidence!SubmittedIsStored /\ Evidence!HeldInvoiceIsKept
  BY DEF EvidenceInv, Evidence!SubmittedIsStored, Evidence!HeldInvoiceIsKept, Stored, Held, Cleared

(* Nothing that has to be paid is approved without an invoice somebody     *)
(* could review, unless requests crossed or the price changed meanwhile;   *)
(* what counts as submitted is stored; and a legal hold keeps what it was  *)
(* put on, whatever a cleanup had read before (extension-cleanup.service   *)
(* claims, deletes and records; ExtensionInstallationsService writes by id).*)
THEOREM EvidenceStaysKept == MCSpec => []EvidenceIsKept
<1>. DEFINE PayInv == IF area = "evidence" THEN EvidenceInv ELSE OfferInv
<1>1. MCInit => PayInv
  BY OfferStarts, EvidenceStarts DEF MCInit
<1>2. PayInv /\ [MCNext]_<<area, teamVars, payVars, dataVars, graphVars>> => PayInv'
  <2>. SUFFICES ASSUME PayInv, [MCNext]_<<area, teamVars, payVars, dataVars, graphVars>> PROVE PayInv'
    OBVIOUS
  <2>1. area' = area
    BY DEF MCNext
  <2>2. area = "evidence" => [Evidence!PayNext]_Evidence!payVars
    BY DEF MCNext, payVars, Evidence!payVars
  <2>3. area # "evidence" => [Offer!PayNext]_Offer!payVars
    BY DEF MCNext, payVars, Offer!payVars
  <2>4. QED
    BY <2>1, <2>2, <2>3, OfferStep, EvidenceStep
<1>3. PayInv => EvidenceIsKept
  BY OfferIsBacked, EvidenceIsStored DEF EvidenceIsKept
<1>4. QED
  BY <1>1, <1>2, <1>3, PTL DEF MCSpec
-----------------------------------------------------------------------------
(***************************************************************************)
(* The bytes of the records and the two counters of them.                  *)
(***************************************************************************)
SizedRow == [val : Content \cup {None}, form : 0..2, ver : Int]
Charged == [op : {"idle", "create", "update", "delete"}, r : Record \cup {None}, v : {1, 2},
            ver : Int, saw : SizedRow, new : Content \cup {None}]
CountShape ==
  /\ rec \in [Record -> SizedRow] /\ run.backup \in [Record -> SizedRow]
  /\ DOMAIN run = {"status", "attempts", "backup"}
  /\ client \in [Client -> Charged]
  /\ \A k \in Client : client[k].op # "idle" => client[k].r \in Record
  /\ DOMAIN inst = {"state", "due", "bytes", "v"} /\ inst.v \in {1, 2}
  /\ purger \in [Purger -> [pc : {"idle", "purge", "prepare", "deliver"}, bytes : Int]]
  /\ drift \in BOOLEAN

CountInv == CountShape /\ inst.bytes \in Int /\ school \in Int /\ CountersMatch

Taken(rows) == {x \in Record \X (1..2) : x[2] <= Size(rows[x[1]])}

LEMMA BytesAreCounted ==
  ASSUME IsFiniteSet(Record), NEW rows \in [Record -> SizedRow]
  PROVE  IsFiniteSet(Taken(rows)) /\ BytesOf(rows) = Cardinality(Taken(rows)) /\ BytesOf(rows) \in Nat
<1>1. IsFiniteSet(Record \X (1..2))
  <2>1. IsFiniteSet(1..2)
    <3>1. 1..2 = {1} \cup {2}
      OBVIOUS
    <3>2. IsFiniteSet({1}) /\ IsFiniteSet({1} \cup {2})
      BY FS_Singleton, FS_AddElement
    <3>3. QED
      BY <3>1, <3>2
  <2>2. QED
    BY <2>1, FS_Product
<1>2. Taken(rows) \in SUBSET (Record \X (1..2))
  BY DEF Taken
<1>3. QED
  BY <1>1, <1>2, FS_Subset, FS_CardinalityType DEF Taken, BytesOf

(* A record that is written changes the sum by what it grew.               *)
LEMMA OneRecordGrows ==
  ASSUME IsFiniteSet(Record), NEW rows \in [Record -> SizedRow], NEW r \in Record, NEW entry \in SizedRow
  PROVE  BytesOf([rows EXCEPT ![r] = entry]) = BytesOf(rows) + (Size(entry) - Size(rows[r]))
<1> DEFINE own(n) == {x \in {r} \X (1..2) : x[2] <= n}
           rest == {x \in Taken(rows) : x[1] # r}
<1>1. PICK now : now = [rows EXCEPT ![r] = entry]
  OBVIOUS
<1>2. now \in [Record -> SizedRow] /\ now[r] = entry /\ \A q \in Record : q # r => now[q] = rows[q]
  BY <1>1
<1>3. \A n \in 0..2 : IsFiniteSet(own(n)) /\ Cardinality(own(n)) = n
  <2>1. own(0) = {}
    OBVIOUS
  <2>2. own(1) = {<<r, 1>>}
    OBVIOUS
  <2>3. PICK one : one = {<<r, 1>>}
    OBVIOUS
  <2>8. own(2) = one \cup {<<r, 2>>} /\ <<r, 2>> \notin one
    BY <2>3
  <2>4. IsFiniteSet(own(0)) /\ Cardinality(own(0)) = 0
    BY <2>1, FS_EmptySet
  <2>5. IsFiniteSet(one) /\ Cardinality(one) = 1
    BY <2>3, FS_Singleton
  <2>6. IsFiniteSet(one \cup {<<r, 2>>}) /\ Cardinality(one \cup {<<r, 2>>}) = 1 + 1
    BY <2>5, <2>8, FS_AddElement
  <2>9. own(1) = one
    BY <2>2, <2>3
  <2>10. \A n \in 0..2 : n = 0 \/ n = 1 \/ n = 2
    OBVIOUS
  <2> HIDE DEF own
  <2>7. QED
    BY <2>4, <2>5, <2>6, <2>8, <2>9, <2>10
<1>4. IsFiniteSet(rest) /\ Cardinality(rest) \in Nat
  <2>1. rest \in SUBSET Taken(rows)
    OBVIOUS
  <2>2. QED
    BY <2>1, BytesAreCounted, FS_Subset, FS_CardinalityType
<1>5. ASSUME NEW some \in [Record -> SizedRow], \A q \in Record : q # r => some[q] = rows[q]
      PROVE  BytesOf(some) = Cardinality(rest) + Size(some[r])
  <2>1. Size(some[r]) \in 0..2
    BY DEF SizedRow, Size
  <2>2. Taken(some) = rest \cup own(Size(some[r]))
    BY <1>5 DEF Taken
  <2>3. rest \cap own(Size(some[r])) = {}
    OBVIOUS
  <2>4. PICK mine : mine = own(Size(some[r]))
    OBVIOUS
  <2>5. IsFiniteSet(mine) /\ Cardinality(mine) = Size(some[r])
    BY <1>3, <2>1, <2>4
  <2> HIDE DEF rest, own
  <2>6. Cardinality(rest \cup mine) = Cardinality(rest) + Cardinality(mine) - Cardinality({})
    BY <1>4, <2>3, <2>4, <2>5, FS_Union
  <2>7. BytesOf(some) = Cardinality(rest \cup mine)
    BY <2>2, <2>4, BytesAreCounted
  <2>8. QED
    BY <1>4, <2>1, <2>5, <2>6, <2>7, FS_EmptySet
<1> HIDE DEF rest
<1>6. BytesOf(now) = Cardinality(rest) + Size(entry)
  BY <1>2, <1>5
<1>7. BytesOf(rows) = Cardinality(rest) + Size(rows[r])
  BY <1>5
<1>8. Size(entry) \in Int /\ Size(rows[r]) \in Int
  BY DEF SizedRow, Size
<1>9. QED
  BY <1>1, <1>4, <1>6, <1>7, <1>8

LEMMA NothingTakesNothing ==
  ASSUME IsFiniteSet(Record), NEW rows \in [Record -> SizedRow], \A r \in Record : Size(rows[r]) = 0
  PROVE  BytesOf(rows) = 0
<1>1. Taken(rows) = {}
  BY DEF Taken
<1>2. QED
  BY <1>1, BytesAreCounted, FS_EmptySet

LEMMA CountsBegin == ASSUME IsFiniteSet(Record), DataInit PROVE CountInv
<1>1. Gone \in SizedRow /\ Size(Gone) = 0
  BY DEF Gone, SizedRow, Size
<1>2. rec = [r \in Record |-> Gone] /\ run.backup = [r \in Record |-> Gone]
      /\ DOMAIN run = {"status", "attempts", "backup"}
  BY DEF DataInit, NoRun
<1>3. IdleClient \in Charged /\ IdleClient.op = "idle"
  BY <1>1 DEF IdleClient, Charged
<1>4. CountShape
  <2>1. rec \in [Record -> SizedRow] /\ run.backup \in [Record -> SizedRow]
    BY <1>1, <1>2
  <2>2. client \in [Client -> Charged] /\ \A k \in Client : client[k].op = "idle"
    BY <1>3 DEF DataInit
  <2>3. purger \in [Purger -> [pc : {"idle", "purge", "prepare", "deliver"}, bytes : Int]]
    BY DEF DataInit, IdlePurge
  <2>4. QED
    BY <1>2, <2>1, <2>2, <2>3 DEF DataInit, CountShape
<1>5. Bytes = 0
  BY <1>1, <1>2, NothingTakesNothing DEF Bytes
<1>6. inst.bytes = 0 /\ school = 0
  BY DEF DataInit
<1>7. QED
  BY <1>4, <1>5, <1>6 DEF CountInv, CountersMatch

(* Both counters change by what the records do.                            *)
LEMMA ChargedIsCounted ==
  ASSUME IsFiniteSet(Record), CountInv, NEW delta \in Int, Charge(delta), CountShape', UNCHANGED drift,
         BytesOf(rec') = BytesOf(rec) + delta
  PROVE  CountInv'
<1>1. /\ inst' = [inst EXCEPT !.bytes = inst.bytes + delta]
      /\ school' = IF school + delta >= 0 THEN school + delta ELSE school
  BY DEF Charge
<1>2. inst'.bytes = inst.bytes + delta
  BY <1>1 DEF CountInv, CountShape
<1>3. BytesOf(rec') \in Nat /\ BytesOf(rec) \in Nat
  BY BytesAreCounted DEF CountInv, CountShape
<1>4. ~ drift => inst.bytes = BytesOf(rec) /\ school = BytesOf(rec)
  BY DEF CountInv, CountersMatch, Bytes
<1>5. inst'.bytes \in Int /\ school' \in Int
  BY <1>1, <1>2 DEF CountInv
<1>6. ~ drift' => inst'.bytes = BytesOf(rec') /\ school' = BytesOf(rec')
  BY <1>1, <1>2, <1>3, <1>4
<1>7. QED
  BY <1>5, <1>6 DEF CountInv, CountersMatch, Bytes

LEMMA UncountedStays ==
  ASSUME CountInv, CountShape', UNCHANGED <<rec, school, drift>>, inst'.bytes = inst.bytes
  PROVE  CountInv'
BY DEF CountInv, CountersMatch, Bytes, BytesOf

LEMMA ChargedClient ==
  ASSUME CountShape, NEW k \in Client, Done(k)
  PROVE  /\ client' \in [Client -> Charged]
         /\ \A j \in Client : client'[j].op # "idle" => client'[j].r \in Record
<1>1. IdleClient \in Charged /\ IdleClient.op = "idle"
  <2>1. Gone \in SizedRow
    BY DEF Gone, SizedRow
  <2>2. QED
    BY <2>1 DEF IdleClient, Charged
<1>2. QED
  BY <1>1 DEF Done, CountShape

LEMMA ReadIsUncounted == ASSUME CountInv, NEW k \in Client, NEW r \in Record, Read(k, r) PROVE CountInv'
<1>1. PICK entry : entry = rec[r]
  OBVIOUS
<1>2. PICK n : n = rec[r].ver
  OBVIOUS
<1>3. PICK next : next = [IdleClient EXCEPT !.r = r, !.ver = n, !.saw = entry]
  OBVIOUS
<1>5. client' = [client EXCEPT ![k] = next] /\ UNCHANGED <<inst, rec, school, run, purger, drift>>
  BY <1>1, <1>2, <1>3 DEF Read
<1>6. entry \in SizedRow /\ n \in Int
  BY <1>1, <1>2 DEF CountInv, CountShape, SizedRow
<1>7. next \in Charged /\ next.op = "idle"
  BY <1>3, <1>6 DEF IdleClient, Charged
<1>8. /\ client' \in [Client -> Charged]
      /\ \A j \in Client : client'[j].op # "idle" => client'[j].r \in Record
  BY <1>5, <1>7 DEF CountInv, CountShape
<1>9. CountShape'
  BY <1>5, <1>8 DEF CountInv, CountShape
<1>10. QED
  BY <1>5, <1>9, UncountedStays

LEMMA BeginWriteIsUncounted ==
  ASSUME CountInv, NEW k \in Client, NEW op \in {"create", "update", "delete"}, NEW r \in Record, NEW x \in Content,
         BeginWrite(k, op, r, x)
  PROVE  CountInv'
<1>1. PICK was : was = client[k]
  OBVIOUS
<1>2. PICK next : next = [was EXCEPT !.op = op, !.r = r, !.v = inst.v, !.new = x]
  OBVIOUS
<1>3. client' = [client EXCEPT ![k] = next] /\ UNCHANGED <<inst, rec, school, run, purger, drift>>
  BY <1>1, <1>2 DEF BeginWrite
<1>4. was \in Charged /\ inst.v \in {1, 2}
  BY <1>1 DEF CountInv, CountShape
<1>5. next \in Charged /\ next.r = r
  BY <1>2, <1>4 DEF Charged
<1>6. /\ client' \in [Client -> Charged]
      /\ \A j \in Client : client'[j].op # "idle" => client'[j].r \in Record
  BY <1>3, <1>5 DEF CountInv, CountShape
<1>7. CountShape'
  BY <1>3, <1>6 DEF CountInv, CountShape
<1>8. QED
  BY <1>3, <1>7, UncountedStays

(* A record is written and both counters are charged with what it grew.    *)
LEMMA WriteIsCounted ==
  ASSUME IsFiniteSet(Record), CountInv, NEW k \in Client, NEW r \in Record, NEW entry \in SizedRow,
         NEW delta, delta = Size(entry) - Size(rec[r]),
         rec' = [rec EXCEPT ![r] = entry], Charge(delta), Done(k), UNCHANGED <<run, purger, drift>>
  PROVE  CountInv'
<1>1. Size(entry) \in Int /\ Size(rec[r]) \in Int
  BY DEF SizedRow, Size, CountInv, CountShape
<1>2. delta \in Int
  BY <1>1
<1>3. BytesOf(rec') = BytesOf(rec) + delta
  BY OneRecordGrows DEF CountInv, CountShape
<1>4. DOMAIN inst' = {"state", "due", "bytes", "v"} /\ inst'.v \in {1, 2}
  BY DEF Charge, CountInv, CountShape
<1>5. rec' \in [Record -> SizedRow]
  BY DEF CountInv, CountShape
<1>6. /\ client' \in [Client -> Charged]
      /\ \A j \in Client : client'[j].op # "idle" => client'[j].r \in Record
  BY ChargedClient DEF CountInv
<1>7. CountShape'
  BY <1>4, <1>5, <1>6 DEF CountInv, CountShape
<1>8. QED
  BY <1>2, <1>3, <1>7, ChargedIsCounted

LEMMA CreateIsCounted ==
  ASSUME IsFiniteSet(Record), CountInv, NEW k \in Client, NEW r \in Record, CreateRecord(k, r)
  PROVE  CountInv'
<1>1. PICK entry : entry = [val |-> client[k].new, form |-> client[k].v, ver |-> 1]
  OBVIOUS
<1>2. /\ rec[r] = Gone /\ rec' = [rec EXCEPT ![r] = entry] /\ Charge(Size(entry)) /\ Done(k)
      /\ UNCHANGED <<run, purger, drift>>
  BY <1>1 DEF CreateRecord
<1>3. client[k].v \in {1, 2} /\ client[k].new \in Content \cup {None}
  BY DEF CountInv, CountShape, Charged
<1>4. entry \in SizedRow
  BY <1>1, <1>3 DEF SizedRow
<1>5. Size(entry) = Size(entry) - Size(rec[r])
  BY <1>2, <1>4 DEF Size, Gone, SizedRow
<1>6. QED
  BY <1>2, <1>4, <1>5, WriteIsCounted

LEMMA UpdateIsCounted ==
  ASSUME IsFiniteSet(Record), CountInv, NEW k \in Client, UpdateRecord(k)
  PROVE  CountInv'
<1>1. PICK r : r = client[k].r
  OBVIOUS
<1>2. PICK entry : entry = [val |-> client[k].new, form |-> client[k].v, ver |-> rec[r].ver + 1]
  OBVIOUS
<1>3. /\ client[k].op = "update" /\ rec' = [rec EXCEPT ![r] = entry] /\ Charge(Size(entry) - Size(rec[r])) /\ Done(k)
      /\ UNCHANGED <<run, purger, drift>>
  BY <1>1, <1>2 DEF UpdateRecord
<1>4. r \in Record /\ client[k].v \in {1, 2} /\ client[k].new \in Content \cup {None}
  BY <1>1, <1>3 DEF CountInv, CountShape, Charged
<1>5. entry \in SizedRow
  BY <1>2, <1>4 DEF SizedRow, CountInv, CountShape
<1>6. QED
  BY <1>3, <1>4, <1>5, WriteIsCounted

LEMMA DeleteIsCounted ==
  ASSUME IsFiniteSet(Record), CountInv, NEW k \in Client, DeleteRecord(k)
  PROVE  CountInv'
<1>1. PICK r : r = client[k].r
  OBVIOUS
<1>3. /\ client[k].op = "delete" /\ rec' = [rec EXCEPT ![r] = Deleted] /\ Charge(- Size(rec[r])) /\ Done(k)
      /\ UNCHANGED <<run, purger, drift>>
  BY <1>1 DEF DeleteRecord
<1>4. r \in Record /\ Size(rec[r]) \in Int
  BY <1>1, <1>3 DEF CountInv, CountShape, Charged, Size, SizedRow
<1>5. Deleted \in SizedRow /\ Size(Deleted) = 0
  BY DEF Deleted, SizedRow, Size
<1>6. - Size(rec[r]) = Size(Deleted) - Size(rec[r])
  BY <1>4, <1>5
<1>7. QED
  BY <1>3, <1>4, <1>5, <1>6, WriteIsCounted

LEMMA RefusalIsUncounted == ASSUME CountInv, NEW k \in Client, RefuseWrite(k) PROVE CountInv'
<1>1. Done(k) /\ UNCHANGED <<inst, rec, school, run, purger, drift>>
  BY DEF RefuseWrite
<1>2. CountShape'
  BY <1>1, ChargedClient DEF CountInv, CountShape
<1>3. QED
  BY <1>1, <1>2, UncountedStays

-----------------------------------------------------------------------------
LEMMA ApplyIsCounted == ASSUME IsFiniteSet(Record), CountInv, ApplyMigration PROVE CountInv'
<1>1. PICK now : now = [r \in Record |-> Migrated(rec[r])]
  OBVIOUS
<1>2. PICK delta : delta = BytesOf(now) - Bytes
  OBVIOUS
<1>3. /\ rec' = now /\ run' = [run EXCEPT !.status = "APPLIED", !.backup = rec]
      /\ inst' = [inst EXCEPT !.v = 2, !.bytes = inst.bytes + delta] /\ school' = school + delta
      /\ UNCHANGED <<client, purger, drift>>
  BY <1>1, <1>2 DEF ApplyMigration
<1>4. ASSUME NEW r \in Record PROVE Migrated(rec[r]) \in SizedRow
  <2>1. PICK entry : entry = rec[r]
    OBVIOUS
  <2>2. entry \in SizedRow
    BY <2>1 DEF CountInv, CountShape
  <2>3. [entry EXCEPT !.form = 2, !.ver = entry.ver + 1] \in SizedRow
    <3>1. entry.ver + 1 \in Int
      BY <2>2 DEF SizedRow
    <3>2. PICK next : next = entry.ver + 1
      OBVIOUS
    <3>6. PICK grown : grown = [entry EXCEPT !.form = 2]
      OBVIOUS
    <3>7. 2 \in 0..2
      OBVIOUS
    <3>3. grown \in SizedRow /\ grown = [entry EXCEPT !.form = 2]
      BY <2>2, <3>6, <3>7 DEF SizedRow
    <3>5. [grown EXCEPT !.ver = next] \in SizedRow
      BY <3>1, <3>2, <3>3 DEF SizedRow
    <3>4. QED
      BY <3>2, <3>3, <3>5
  <2>4. QED
    BY <2>1, <2>2, <2>3 DEF Migrated
<1>5. now \in [Record -> SizedRow]
  BY <1>1, <1>4
<1>6. run'.backup = rec /\ DOMAIN run' = {"status", "attempts", "backup"}
  BY <1>3 DEF CountInv, CountShape
<1>7. inst'.bytes = inst.bytes + delta /\ inst'.v = 2 /\ DOMAIN inst' = {"state", "due", "bytes", "v"}
  BY <1>3 DEF CountInv, CountShape
<1>8. CountShape'
  BY <1>3, <1>5, <1>6, <1>7 DEF CountInv, CountShape
<1>9. BytesOf(now) \in Nat /\ BytesOf(rec) \in Nat
  BY <1>5, BytesAreCounted DEF CountInv, CountShape
<1>10. ~ drift => inst.bytes = BytesOf(rec) /\ school = BytesOf(rec)
  BY DEF CountInv, CountersMatch, Bytes
<1>11. delta = BytesOf(now) - BytesOf(rec) /\ inst.bytes \in Int /\ school \in Int
  BY <1>2 DEF Bytes, CountInv
<1>12. inst'.bytes \in Int /\ school' \in Int
  BY <1>3, <1>7, <1>9, <1>11
<1>13. ~ drift => inst'.bytes = BytesOf(now) /\ school' = BytesOf(now)
  BY <1>3, <1>7, <1>9, <1>10, <1>11
<1>14. QED
  BY <1>3, <1>8, <1>12, <1>13 DEF CountInv, CountersMatch, Bytes

LEMMA RollbackIsCounted == ASSUME IsFiniteSet(Record), CountInv, RollbackMigration PROVE CountInv'
<1>1. PICK now : now = Restored
  OBVIOUS
<1>2. PICK delta : delta = BytesOf(now) - Bytes
  OBVIOUS
<1>3. /\ rec' = now /\ run' = [run EXCEPT !.status = "ROLLED_BACK"]
      /\ inst' = [inst EXCEPT !.v = 1, !.bytes = IF inst.bytes + delta >= 0 THEN inst.bytes + delta ELSE inst.bytes]
      /\ school' = (IF school + delta >= 0 THEN school + delta ELSE school)
      /\ UNCHANGED <<client, purger, drift>>
  BY <1>1, <1>2 DEF RollbackMigration
<1>5. now \in [Record -> SizedRow]
  BY <1>1 DEF Restored, CountInv, CountShape
<1>6. run'.backup = run.backup /\ DOMAIN run' = {"status", "attempts", "backup"}
  BY <1>3 DEF CountInv, CountShape
<1>7. /\ inst'.bytes = (IF inst.bytes + delta >= 0 THEN inst.bytes + delta ELSE inst.bytes)
      /\ inst'.v = 1 /\ DOMAIN inst' = {"state", "due", "bytes", "v"}
  BY <1>3 DEF CountInv, CountShape
<1>8. CountShape'
  BY <1>3, <1>5, <1>6, <1>7 DEF CountInv, CountShape
<1>9. BytesOf(now) \in Nat /\ BytesOf(rec) \in Nat
  BY <1>5, BytesAreCounted DEF CountInv, CountShape
<1>10. ~ drift => inst.bytes = BytesOf(rec) /\ school = BytesOf(rec)
  BY DEF CountInv, CountersMatch, Bytes
<1>11. delta = BytesOf(now) - BytesOf(rec) /\ inst.bytes \in Int /\ school \in Int
  BY <1>2 DEF Bytes, CountInv
<1>12. inst'.bytes \in Int /\ school' \in Int
  BY <1>3, <1>7, <1>9, <1>11
<1>13. ~ drift => inst'.bytes = BytesOf(now) /\ school' = BytesOf(now)
  BY <1>3, <1>7, <1>9, <1>10, <1>11
<1>14. QED
  BY <1>3, <1>8, <1>12, <1>13 DEF CountInv, CountersMatch, Bytes

LEMMA OtherMigrationsAreUncounted ==
  ASSUME CountInv, StartMigration \/ FailMigration \/ \E a \in {"RETRY", "ABANDON"} : InterveneMigration(a)
  PROVE  CountInv'
<1>1. UNCHANGED <<inst, rec, school, client, purger, drift>>
  BY DEF StartMigration, FailMigration, InterveneMigration
<1>2. run'.backup \in [Record -> SizedRow] /\ DOMAIN run' = {"status", "attempts", "backup"}
  <2>1. Gone \in SizedRow
    BY DEF Gone, SizedRow
  <2>2. NoRun.backup \in [Record -> SizedRow] /\ DOMAIN NoRun = {"status", "attempts", "backup"}
    BY <2>1 DEF NoRun
  <2>3. CASE StartMigration
    <3>1. PICK tries : run' = [NoRun EXCEPT !.status = "PENDING", !.attempts = tries]
      BY <2>3 DEF StartMigration
    <3>2. QED
      BY <2>2, <3>1
  <2>4. CASE FailMigration
    <3>1. PICK status : run' = [run EXCEPT !.status = status]
      BY <2>4 DEF FailMigration
    <3>2. QED
      BY <3>1 DEF CountInv, CountShape
  <2>5. ASSUME NEW a \in {"RETRY", "ABANDON"}, InterveneMigration(a)
        PROVE  run'.backup \in [Record -> SizedRow] /\ DOMAIN run' = {"status", "attempts", "backup"}
    <3>1. PICK status, tries : run' = [run EXCEPT !.status = status, !.attempts = tries]
      BY <2>5 DEF InterveneMigration
    <3>2. QED
      BY <3>1 DEF CountInv, CountShape
  <2>6. QED
    BY <2>3, <2>4, <2>5
<1>3. CountShape'
  BY <1>1, <1>2 DEF CountInv, CountShape
<1>4. QED
  BY <1>1, <1>3, UncountedStays

-----------------------------------------------------------------------------
LEMMA CommandsAreUncounted ==
  ASSUME CountInv, Deactivate \/ Uninstall \/ GraceEnds \/ RequestAgain
  PROVE  CountInv'
<1>1. UNCHANGED <<rec, school, run, client, purger, drift>>
  BY DEF Deactivate, Uninstall, GraceEnds, RequestAgain
<1>2. DOMAIN inst = {"state", "due", "bytes", "v"}
  BY DEF CountInv, CountShape
<1>3. inst'.bytes = inst.bytes /\ inst'.v = inst.v /\ DOMAIN inst' = {"state", "due", "bytes", "v"}
  <2>1. CASE Deactivate
    BY <1>2, <2>1 DEF Deactivate
  <2>2. CASE Uninstall
    BY <1>2, <2>2 DEF Uninstall
  <2>3. CASE RequestAgain
    BY <1>2, <2>3 DEF RequestAgain
  <2>4. CASE GraceEnds
    BY <1>2, <2>4 DEF GraceEnds
  <2>5. QED
    BY <2>1, <2>2, <2>3, <2>4
<1>4. CountShape'
  BY <1>1, <1>3 DEF CountInv, CountShape
<1>5. QED
  BY <1>1, <1>3, <1>4, UncountedStays

LEMMA NothingIsLeft ==
  ASSUME CountInv
  PROVE  NoRecords \in [Record -> SizedRow] /\ \A r \in Record : Size(NoRecords[r]) = 0
<1>1. Deleted \in SizedRow /\ Size(Deleted) = 0
  BY DEF Deleted, SizedRow, Size
<1>2. \A r \in Record : rec[r] \in SizedRow /\ (~ Exists(rec[r]) => Size(rec[r]) = 0)
  BY DEF CountInv, CountShape, Exists, Size
<1>3. QED
  BY <1>1, <1>2 DEF NoRecords

LEMMA EraseIsCounted ==
  ASSUME IsFiniteSet(Record), CountInv, NEW p \in Purger, NEW reports, NEW pc \in {"prepare", "deliver"},
         Erase(p, reports), purger' = [purger EXCEPT ![p].pc = pc]
  PROVE  CountInv'
<1>1. PICK bytes \in Int : bytes = purger[p].bytes
  BY DEF CountInv, CountShape
<1>2. /\ rec' = NoRecords /\ inst' = [inst EXCEPT !.state = "ABSENT", !.bytes = 0]
      /\ school' = (IF school >= bytes THEN school - bytes ELSE school)
      /\ drift' = (drift \/ bytes # inst.bytes) /\ UNCHANGED <<run, client>>
  BY <1>1 DEF Erase, Refund
<1>3. inst'.bytes = 0 /\ inst'.v = inst.v /\ DOMAIN inst' = {"state", "due", "bytes", "v"}
  BY <1>2 DEF CountInv, CountShape
<1>4. purger' \in [Purger -> [pc : {"idle", "purge", "prepare", "deliver"}, bytes : Int]]
  BY DEF CountInv, CountShape
<1>5. rec' \in [Record -> SizedRow] /\ BytesOf(rec') = 0
  BY <1>2, NothingIsLeft, NothingTakesNothing
<1>6. CountShape'
  BY <1>2, <1>3, <1>4, <1>5 DEF CountInv, CountShape
<1>7. school' \in Int /\ (~ drift' => school' = 0)
  <2>1. school \in Int
    BY DEF CountInv
  <2>2. ~ drift' => ~ drift /\ bytes = inst.bytes
    BY <1>2
  <2>3. ~ drift => inst.bytes = school
    BY DEF CountInv, CountersMatch
  <2>4. QED
    BY <1>2, <2>1, <2>2, <2>3
<1>8. QED
  BY <1>3, <1>5, <1>6, <1>7 DEF CountInv, CountersMatch, Bytes

LEMMA PurgesAreCounted ==
  ASSUME IsFiniteSet(Record), CountInv, RemoveUninstalled \/ PurgeInstallation \/ PurgeRecordsOnly
  PROVE  CountInv'
<1>1. CASE RemoveUninstalled
  BY <1>1, EraseIsCounted DEF RemoveUninstalled, Purger
<1>2. CASE PurgeInstallation
  BY <1>2, EraseIsCounted DEF PurgeInstallation, Purger
<1>3. CASE PurgeRecordsOnly
  <2>1. /\ rec' = NoRecords /\ drift' = (drift \/ Removed # {}) /\ UNCHANGED <<inst, school, run, client>>
        /\ purger' = [purger EXCEPT !["SCHEDULED"] = IdlePurge]
    BY <1>3 DEF PurgeRecordsOnly
  <2>2. purger' \in [Purger -> [pc : {"idle", "purge", "prepare", "deliver"}, bytes : Int]]
    <3>1. IdlePurge \in [pc : {"idle", "purge", "prepare", "deliver"}, bytes : Int]
      BY DEF IdlePurge
    <3>2. QED
      BY <2>1, <3>1 DEF CountInv, CountShape
  <2>3. CountShape'
    BY <2>1, <2>2, NothingIsLeft DEF CountInv, CountShape
  <2>4. CASE Removed = {}
    <3>1. rec' = rec /\ drift' = drift
      BY <2>1, <2>4 DEF Removed, NoRecords, CountInv, CountShape
    <3>2. QED
      BY <2>1, <2>3, <3>1, UncountedStays
  <2>5. CASE Removed # {}
    BY <2>1, <2>3, <2>5 DEF CountInv, CountersMatch
  <2>6. QED
    BY <2>4, <2>5
<1>4. QED
  BY <1>1, <1>2, <1>3

LEMMA PurgersAreUncounted ==
  ASSUME CountInv, NEW p \in Purger, BeginPurge(p) \/ Prepare(p) \/ StoreReport(p) \/ Deliver(p) \/ GiveUp(p)
  PROVE  CountInv'
<1>1. UNCHANGED <<inst, rec, school, run, client, drift>>
  BY DEF BeginPurge, Prepare, StoreReport, Deliver, GiveUp
<1>2. purger' \in [Purger -> [pc : {"idle", "purge", "prepare", "deliver"}, bytes : Int]]
  <2> USE DEF CountInv, CountShape
  <2>1. CASE BeginPurge(p)
    BY <2>1 DEF BeginPurge
  <2>2. CASE Prepare(p)
    BY <2>2 DEF Prepare
  <2>3. CASE StoreReport(p)
    BY <2>3 DEF StoreReport
  <2>4. CASE Deliver(p) \/ GiveUp(p)
    BY <2>4 DEF Deliver, GiveUp, IdlePurge
  <2>5. QED
    BY <2>1, <2>2, <2>3, <2>4
<1>3. CountShape'
  BY <1>1, <1>2 DEF CountInv, CountShape
<1>4. QED
  BY <1>1, <1>3, UncountedStays

LEMMA StepsAreCounted == IsFiniteSet(Record) /\ CountInv /\ [DataNext]_dataVars => CountInv'
<1> SUFFICES ASSUME IsFiniteSet(Record), CountInv, [DataNext]_dataVars PROVE CountInv'
  OBVIOUS
<1>1. CASE UNCHANGED dataVars
  <2>1. CountShape'
    BY <1>1 DEF CountInv, CountShape, dataVars
  <2>2. QED
    BY <1>1, <2>1, UncountedStays DEF dataVars
<1>2. ASSUME NEW k \in Client,
             \/ \E r \in Record : Read(k, r) \/ CreateRecord(k, r)
             \/ \E r \in Record, x \in Content, op \in {"create", "update", "delete"} : BeginWrite(k, op, r, x)
             \/ UpdateRecord(k) \/ DeleteRecord(k) \/ RefuseWrite(k)
      PROVE  CountInv'
  BY <1>2, ReadIsUncounted, CreateIsCounted, BeginWriteIsUncounted, UpdateIsCounted, DeleteIsCounted,
     RefusalIsUncounted
<1>3. CASE StartMigration \/ FailMigration \/ \E a \in {"RETRY", "ABANDON"} : InterveneMigration(a)
  BY <1>3, OtherMigrationsAreUncounted
<1>4. CASE ApplyMigration \/ RollbackMigration
  BY <1>4, ApplyIsCounted, RollbackIsCounted
<1>5. CASE Deactivate \/ Uninstall \/ GraceEnds \/ RequestAgain
  BY <1>5, CommandsAreUncounted
<1>6. CASE RemoveUninstalled \/ PurgeInstallation \/ PurgeRecordsOnly
  BY <1>6, PurgesAreCounted
<1>7. ASSUME NEW p \in Purger, BeginPurge(p) \/ Prepare(p) \/ StoreReport(p) \/ Deliver(p) \/ GiveUp(p)
      PROVE  CountInv'
  BY <1>7, PurgersAreUncounted
<1>8. QED
  BY <1>1, <1>2, <1>3, <1>4, <1>5, <1>6, <1>7 DEF DataNext

(* The counters of an installation and of its school are what the records  *)
(* take, for any number of records, clients, upgrades and rollbacks, until *)
(* a purge subtracts a size that it read before a late write changed it    *)
(* (reserveCapacity, adjustBytes, adjustMigrationCapacity).                *)
THEOREM CountersStayRight == ASSUME IsFiniteSet(Record) PROVE DataSpec => []CountersMatch
<1>1. DataInit => CountInv
  BY CountsBegin
<1>2. CountInv /\ [DataNext]_dataVars => CountInv'
  BY StepsAreCounted
<1>3. CountInv => CountersMatch
  BY DEF CountInv
<1>4. QED
  BY <1>1, <1>2, <1>3, PTL DEF DataSpec
-----------------------------------------------------------------------------
(***************************************************************************)
(* What extensions require of each other.                                  *)
(***************************************************************************)
(* There are finitely many of both, and None stands for no version.        *)
VersionsAreFinite == IsFiniteSet(Extension) /\ IsFiniteSet(Version) /\ None \notin Version

Release == [status : {"NONE", "PUBLISHED", "WITHDRAWN"}, at : Nat, deps : SUBSET Needs!Dependency]
Pending == [op : {"idle", "publish", "activate", "upgrade", "uninstall"}, e : Extension \cup {None},
            v : Version \cup {None}, deps : SUBSET Needs!Dependency, stale : BOOLEAN]
Out == {x \in Extension \X Version : release[x[1]][x[2]].status # "NONE"}
Kept(e, v) == e \in Extension /\ v \in Version /\ release[e][v].status # "NONE"

NeedsShape ==
  /\ release \in [Extension -> [Version -> Release]]
  /\ installed \in [Extension -> [v : Version \cup {None}, enabled : BOOLEAN]]
  /\ request \in [Installer -> Pending]
  /\ raced \in BOOLEAN /\ withdrawn \in BOOLEAN /\ released \in BOOLEAN
  /\ \A e \in Extension, v \in Version : release[e][v].at <= Cardinality(Out)
(* What is installed, or will be by an upgrade, was published and keeps    *)
(* its dependencies.                                                       *)
VersionsExist ==
  /\ \A e \in Extension : installed[e].v # None => Kept(e, installed[e].v)
  /\ \A e \in Extension : installed[e].enabled => installed[e].v # None
  /\ \A q \in Installer :
       /\ request[q].op # "idle" => request[q].e \in Extension /\ request[q].v \in Version
       /\ request[q].op = "upgrade" => Kept(request[q].e, request[q].v)
(* What a request was checked against still holds, or it has been told.    *)
ChecksHold ==
  \A q \in Installer :
    LET e == request[q].e  v == request[q].v
    IN  ~ request[q].stale =>
          /\ request[q].op = "publish" => Needs!Publishable(e, v, request[q].deps)
          /\ request[q].op = "activate" => v = installed[e].v /\ Needs!Satisfied(e, v)
          /\ request[q].op = "upgrade" => Needs!Satisfied(e, v)
          /\ request[q].op = "uninstall" => Needs!Dependents(e) = {}

NeedsInv == NeedsShape /\ VersionsExist /\ ChecksHold /\ GraphIsSound

LEMMA NeedsCardinality == \A S : Needs!Cardinality(S) = Cardinality(S)
  BY DEF Needs!Cardinality, Cardinality

(* What the search visits has what its members need.                       *)
LEMMA ReachIsClosed ==
  ASSUME NEW node, NEW e
  PROVE  /\ Needs!Needs(node, e) \subseteq Needs!Reach(node, e)
         /\ \A y \in Needs!Reach(node, e) : Needs!Needs(node, y) \subseteq Needs!Reach(node, e)
         /\ Needs!Reach(node, e) \subseteq DOMAIN node
<1>1. \A y : Needs!Needs(node, y) \subseteq DOMAIN node
  BY DEF Needs!Needs
<1>2. QED
  BY <1>1 DEF Needs!Reach

(* A new publication of e leaves the graph without a circle, when there    *)
(* was none before and none is found from e.                               *)
LEMMA CandidateClosesNoCircle ==
  ASSUME NEW old, NEW new, NEW e, DOMAIN new = DOMAIN old \cup {e},
         \A x \in DOMAIN new : x # e => new[x] = old[x],
         \A x \in DOMAIN old : x \notin Needs!Reach(old, x), ~ Needs!Cyclic(new, e)
  PROVE  \A x \in DOMAIN new : x \notin Needs!Reach(new, x)
<1> SUFFICES ASSUME NEW x \in DOMAIN new, x \in Needs!Reach(new, x) PROVE FALSE
  OBVIOUS
<1>1. x \notin Needs!Reach(new, e) \cup {e}
  BY DEF Needs!Cyclic
<1>2. PICK found : found = Needs!Reach(new, e)
  OBVIOUS
<1>3. /\ Needs!Needs(new, e) \subseteq found /\ found \subseteq DOMAIN new
      /\ \A y \in found : Needs!Needs(new, y) \subseteq found
  BY <1>2, ReachIsClosed
<1>4. \A y \in DOMAIN new : y # e => y \in DOMAIN old /\ Needs!Needs(new, y) \subseteq Needs!Needs(old, y) \cup {e}
  BY DEF Needs!Needs
<1>5. ASSUME NEW visited \in SUBSET DOMAIN old, Needs!Needs(old, x) \subseteq visited,
             \A y \in visited : Needs!Needs(old, y) \subseteq visited
      PROVE  x \in visited
  <2>1. PICK wide : wide = visited \cup found \cup {e}
    OBVIOUS
  <2>2. wide \in SUBSET DOMAIN new
    BY <1>3, <2>1
  <2>3. Needs!Needs(new, x) \subseteq wide
    BY <1>1, <1>4, <1>5, <2>1
  <2>4. ASSUME NEW y \in wide PROVE Needs!Needs(new, y) \subseteq wide
    <3>1. CASE y \in found \cup {e}
      BY <1>3, <2>1, <3>1
    <3>2. CASE y \notin found \cup {e}
      <4>1. y \in visited /\ y # e /\ y \in DOMAIN new
        BY <2>1, <2>2, <3>2
      <4>2. QED
        BY <1>4, <1>5, <2>1, <4>1
    <3>3. QED
      BY <3>1, <3>2
  <2>5. x \in wide
    BY <2>2, <2>3, <2>4 DEF Needs!Reach
  <2>6. QED
    BY <1>1, <1>2, <2>1, <2>5
<1>6. x \in DOMAIN old
  BY <1>1
<1>7. x \in Needs!Reach(old, x)
  BY <1>5, <1>6 DEF Needs!Reach
<1>8. QED
  BY <1>6, <1>7

-----------------------------------------------------------------------------
LatestGraph ==
  [x \in {x \in Extension : Needs!Published(x) # {}} |->
     [v |-> Needs!Latest(x), deps |-> release[x][Needs!Latest(x)].deps]]

LEMMA OutIsCounted ==
  ASSUME VersionsAreFinite
  PROVE  IsFiniteSet(Out) /\ Cardinality(Out) \in Nat /\ Needs!Now = Cardinality(Out) + 1
<1>1. IsFiniteSet(Extension \X Version)
  BY FS_Product DEF VersionsAreFinite
<1>2. Out \in SUBSET (Extension \X Version)
  BY DEF Out
<1>3. IsFiniteSet(Out) /\ Cardinality(Out) \in Nat
  BY <1>1, <1>2, FS_Subset, FS_CardinalityType
<1>4. Needs!Now = Needs!Cardinality(Out) + 1
  BY DEF Needs!Now, Out
<1>5. QED
  BY <1>3, <1>4, NeedsCardinality

(* What a publication does: the new version is the latest of its           *)
(* extension, and nothing else changes.                                    *)
LEMMA PublicationIsLatest ==
  ASSUME VersionsAreFinite, NeedsShape, NEW e \in Extension, NEW v \in Version, NEW deps \in SUBSET Needs!Dependency,
         release[e][v].status = "NONE",
         release' = [release EXCEPT ![e][v] = [status |-> "PUBLISHED", at |-> Needs!Now, deps |-> deps]]
  PROVE  /\ release' \in [Extension -> [Version -> Release]]
         /\ \A x \in Extension, w \in Version : release'[x][w].at <= Cardinality(Out')
         /\ \A x, w : Kept(x, w) => release'[x][w] = release[x][w]
         /\ LatestGraph' = Needs!Node(e, v, deps)
<1>1. PICK now : now = Cardinality(Out) + 1
  OBVIOUS
<1>2. now \in Nat /\ now = Needs!Now /\ IsFiniteSet(Out) /\ Cardinality(Out) \in Nat
  BY <1>1, OutIsCounted
<1>3. PICK new : new = [status |-> "PUBLISHED", at |-> now, deps |-> deps]
  OBVIOUS
<1>4. new \in Release /\ new.status = "PUBLISHED" /\ new.at = now /\ new.deps = deps
  BY <1>2, <1>3 DEF Release
<1>5. release \in [Extension -> [Version -> Release]]
  BY DEF NeedsShape
<1>6. /\ release' \in [Extension -> [Version -> Release]] /\ release'[e][v] = new
      /\ \A x \in Extension, w \in Version : <<x, w>> # <<e, v>> => release'[x][w] = release[x][w]
      /\ \A x \in Extension : x # e => release'[x] = release[x]
  BY <1>2, <1>3, <1>4, <1>5
<1>7. Cardinality(Out') = now
  <2>1. Out' = Out \cup {<<e, v>>}
    <3>1. ASSUME NEW x \in Extension, NEW w \in Version
          PROVE  release'[x][w].status # "NONE" <=> release[x][w].status # "NONE" \/ <<x, w>> = <<e, v>>
      <4>1. CASE <<x, w>> = <<e, v>>
        <5>1. release'[x][w] = new
          BY <1>6, <4>1
        <5>2. QED
          BY <1>4, <4>1, <5>1
      <4>2. CASE <<x, w>> # <<e, v>>
        BY <1>6, <4>2
      <4>3. QED
        BY <4>1, <4>2
    <3>2. QED
      BY <3>1 DEF Out
  <2>2. <<e, v>> \notin Out
    BY DEF Out
  <2>3. QED
    BY <1>1, <1>2, <2>1, <2>2, FS_AddElement
<1>8. ASSUME NEW x \in Extension, NEW w \in Version PROVE release'[x][w].at <= Cardinality(Out')
  <2>1. CASE <<x, w>> = <<e, v>>
    BY <1>2, <1>4, <1>6, <1>7, <2>1
  <2>2. CASE <<x, w>> # <<e, v>>
    <3>1. release'[x][w] = release[x][w] /\ release[x][w].at <= Cardinality(Out)
      BY <1>6, <2>2 DEF NeedsShape
    <3>2. release[x][w].at \in Nat
      BY <1>5 DEF Release
    <3>3. QED
      BY <1>1, <1>2, <1>7, <3>1, <3>2
  <2>3. QED
    BY <2>1, <2>2
<1>9. \A x, w : Kept(x, w) => release'[x][w] = release[x][w]
  BY <1>6 DEF Kept
<1>10. Needs!Published(e)' = Needs!Published(e) \cup {v}
  BY <1>4, <1>6 DEF Needs!Published
<1>11. Needs!Latest(e)' = v
  <2>1. \A w \in Needs!Published(e) : release[e][w].at < now /\ w # v /\ release'[e][w] = release[e][w]
    <3>1. ASSUME NEW w \in Needs!Published(e)
          PROVE  release[e][w].at < now /\ w # v /\ release'[e][w] = release[e][w]
      <4>1. w \in Version /\ w # v
        BY DEF Needs!Published
      <4>2. release[e][w].at \in Nat /\ release[e][w].at <= Cardinality(Out)
        BY <1>5, <4>1 DEF Release, NeedsShape
      <4>3. QED
        BY <1>1, <1>2, <1>6, <4>1, <4>2
    <3>2. QED
      BY <3>1
  <2>2. release'[e][v].at = now
    BY <1>4, <1>6
  <2>3. PICK all : all = Needs!Published(e)'
    OBVIOUS
  <2>4. v \in all /\ \A w \in all : release'[e][w].at <= release'[e][v].at
    BY <1>2, <1>10, <2>1, <2>2, <2>3, <1>5 DEF Release, Needs!Published
  <2>5. \A u \in all : (\A w \in all : release'[e][w].at <= release'[e][u].at) => u = v
    BY <1>2, <1>10, <2>1, <2>2, <2>3, <2>4, <1>5 DEF Release, Needs!Published
  <2>6. Needs!Latest(e)' = CHOOSE u \in all : \A w \in all : release'[e][w].at <= release'[e][u].at
    BY <2>3 DEF Needs!Latest
  <2>7. QED
    BY <2>4, <2>5, <2>6
<1>12. \A x \in Extension : x # e => Needs!Published(x)' = Needs!Published(x) /\ Needs!Latest(x)' = Needs!Latest(x)
  <2>1. ASSUME NEW x \in Extension, x # e
        PROVE  Needs!Published(x)' = Needs!Published(x) /\ Needs!Latest(x)' = Needs!Latest(x)
    <3>1. release'[x] = release[x]
      BY <1>6, <2>1
    <3>2. Needs!Published(x)' = Needs!Published(x)
      BY <3>1 DEF Needs!Published
    <3>3. QED
      BY <3>1, <3>2 DEF Needs!Latest
  <2>2. QED
    BY <2>1
<1>13. LatestGraph' = Needs!Node(e, v, deps)
  <2>1. {x \in Extension : Needs!Published(x)' # {}} = {x \in Extension : Needs!Published(x) # {}} \cup {e}
    BY <1>10, <1>12
  <2>2. release'[e][Needs!Latest(e)'].deps = deps
    BY <1>4, <1>6, <1>11
  <2>3. ASSUME NEW x \in {x \in Extension : Needs!Published(x) # {}} \cup {e}
        PROVE  [v |-> Needs!Latest(x)', deps |-> release'[x][Needs!Latest(x)'].deps]
               = IF x = e THEN [v |-> v, deps |-> deps] ELSE [v |-> Needs!Latest(x), deps |-> release[x][Needs!Latest(x)].deps]
    <3>1. CASE x = e
      BY <1>11, <2>2, <3>1
    <3>2. CASE x # e
      <4>1. x \in Extension
        OBVIOUS
      <4>2. release'[x] = release[x] /\ Needs!Latest(x)' = Needs!Latest(x)
        BY <1>6, <1>12, <3>2, <4>1
      <4>3. QED
        BY <3>2, <4>2
    <3>3. QED
      BY <3>1, <3>2
  <2>4. LatestGraph' = [x \in {x \in Extension : Needs!Published(x)' # {}} |->
                          [v |-> Needs!Latest(x)', deps |-> release'[x][Needs!Latest(x)'].deps]]
    BY DEF LatestGraph
  <2>5. QED
    BY <2>1, <2>3, <2>4 DEF Needs!Node
<1>14. QED
  BY <1>6, <1>8, <1>9, <1>13

LEMMA AcyclicSays ==
  /\ Needs!Acyclic <=>
       (~ raced /\ ~ withdrawn => \A e \in DOMAIN LatestGraph : e \notin Needs!Reach(LatestGraph, e))
  /\ Needs!Acyclic' <=>
       (~ raced' /\ ~ withdrawn' => \A e \in DOMAIN LatestGraph' : e \notin Needs!Reach(LatestGraph', e))
  BY DEF Needs!Acyclic, LatestGraph

-----------------------------------------------------------------------------
(* Nothing that runs is changed: at most a version is installed.           *)
Quiet ==
  /\ UNCHANGED release
  /\ \A y \in Extension :
       \/ installed'[y] = installed[y]
       \/ installed[y].v = None /\ ~ installed[y].enabled /\ ~ installed'[y].enabled
(* Every request has ended or been told that something was written.        *)
Told ==
  /\ request' \in [Installer -> Pending]
  /\ \A q \in Installer :
       \/ request'[q].op = "idle"
       \/ /\ request'[q].stale /\ request'[q].op = request[q].op
          /\ request'[q].e = request[q].e /\ request'[q].v = request[q].v

LEMMA DepsAreTyped ==
  ASSUME NeedsShape, NEW x \in Extension, NEW w \in Version
  PROVE  \A d \in release[x][w].deps : d.on \in Extension /\ d.optional \in Optional
<1>1. release[x][w] \in Release
  BY DEF NeedsShape
<1>2. QED
  BY <1>1 DEF Release, Needs!Dependency

LEMMA StillSatisfied ==
  ASSUME NeedsShape, NEW x \in Extension, NEW w \in Version, release'[x][w].deps = release[x][w].deps,
         Needs!Satisfied(x, w),
         \A y \in Extension \ {x} :
           installed[y].enabled /\ (\E d \in release[x][w].deps : d.on = y /\ ~ d.optional)
             => installed'[y].enabled /\ installed'[y].v = installed[y].v
  PROVE  Needs!Satisfied(x, w)'
<1>1. ASSUME NEW d \in release[x][w].deps, ~ d.optional
      PROVE  /\ d.on # x /\ installed'[d.on].enabled
             /\ Needs!VersionMatches(installed'[d.on].v, d.range)
  <2>1. d.on \in Extension
    BY DepsAreTyped
  <2>2. d.on # x /\ installed[d.on].enabled /\ Needs!VersionMatches(installed[d.on].v, d.range)
    BY <1>1 DEF Needs!Satisfied, Needs!Manifest, Needs!Enabled
  <2>3. installed'[d.on].enabled /\ installed'[d.on].v = installed[d.on].v
    BY <1>1, <2>1, <2>2
  <2>4. QED
    BY <2>2, <2>3
<1>2. QED
  BY <1>1 DEF Needs!Satisfied, Needs!Manifest, Needs!Enabled

LEMMA QuietKeepsChecks ==
  ASSUME VersionsAreFinite, NeedsShape, VersionsExist, Quiet, NEW e \in Extension, NEW v \in Version
  PROVE  /\ \A deps : Needs!Publishable(e, v, deps) => Needs!Publishable(e, v, deps)'
         /\ v = installed[e].v => v = installed'[e].v
         /\ Needs!Satisfied(e, v) => Needs!Satisfied(e, v)'
         /\ Needs!Dependents(e) = {} => Needs!Dependents(e)' = {}
<1>1. ASSUME NEW deps, Needs!Publishable(e, v, deps) PROVE Needs!Publishable(e, v, deps)'
  <2>1. Needs!Node(e, v, deps)' = Needs!Node(e, v, deps)
    BY DEF Quiet, Needs!Node, Needs!Latest, Needs!Published
  <2>2. QED
    BY <1>1, <2>1 DEF Needs!Publishable
<1>2. \A y \in Extension : installed[y].enabled \/ installed[y].v # None => installed'[y] = installed[y]
  BY DEF Quiet
<1>3. v = installed[e].v => v = installed'[e].v
  BY <1>2 DEF VersionsAreFinite
<1>4. Needs!Satisfied(e, v) => Needs!Satisfied(e, v)'
  <2>1. release'[e][v].deps = release[e][v].deps
    BY DEF Quiet
  <2>2. \A y \in Extension \ {e} :
          installed[y].enabled => installed'[y].enabled /\ installed'[y].v = installed[y].v
    BY <1>2
  <2>3. QED
    BY <2>1, <2>2, StillSatisfied
<1>5. ASSUME Needs!Dependents(e) = {} PROVE Needs!Dependents(e)' = {}
  <2>1. ASSUME NEW x \in Extension \ {e}, installed'[x].enabled,
               \E d \in release'[x][installed'[x].v].deps : d.on = e /\ ~ d.optional
        PROVE  FALSE
    <3>1. installed'[x] = installed[x] /\ release' = release
      BY <2>1 DEF Quiet
    <3>2. x \in Needs!Dependents(e)
      BY <2>1, <3>1 DEF Needs!Dependents, Needs!Enabled, Needs!Manifest
    <3>3. QED
      BY <1>5, <3>2
  <2>2. QED
    BY <2>1 DEF Needs!Dependents, Needs!Enabled, Needs!Manifest
<1>6. QED
  BY <1>1, <1>3, <1>4, <1>5

(* The graph and what runs are as sound as they were.                      *)
LEMMA QuietKeepsGraph ==
  ASSUME VersionsAreFinite, NeedsShape, VersionsExist, Quiet, GraphIsSound,
         raced => raced', withdrawn => withdrawn', released => released'
  PROVE  GraphIsSound'
<1>1. LatestGraph' = LatestGraph
  BY DEF Quiet, LatestGraph, Needs!Latest, Needs!Published
<1>2. Needs!Acyclic'
  <2>1. ~ raced' /\ ~ withdrawn' => \A e \in DOMAIN LatestGraph : e \notin Needs!Reach(LatestGraph, e)
    BY AcyclicSays DEF GraphIsSound
  <2>2. QED
    BY <1>1, <2>1, AcyclicSays
<1>3. ASSUME ~ raced', ~ released', NEW e \in Extension, installed'[e].enabled
      PROVE  Needs!Satisfied(e, installed[e].v)' /\ installed'[e].v = installed[e].v
  <2>1. installed'[e] = installed[e]
    BY <1>3 DEF Quiet
  <2>2. installed[e].v \in Version /\ Needs!Satisfied(e, installed[e].v)
    BY <1>3, <2>1 DEF GraphIsSound, Needs!RequirementsMet, Needs!Enabled, VersionsExist, Kept
  <2>3. PICK v \in Version : v = installed[e].v
    BY <2>2
  <2>4. Needs!Satisfied(e, v)'
    BY <2>2, <2>3, QuietKeepsChecks
  <2>5. QED
    BY <2>1, <2>3, <2>4
<1>4. Needs!RequirementsMet'
  BY <1>3 DEF Needs!RequirementsMet, Needs!Enabled
<1>5. QED
  BY <1>2, <1>4 DEF GraphIsSound

-----------------------------------------------------------------------------
LEMMA WrittenTells ==
  ASSUME NeedsShape, NEW q \in Installer, Needs!Written(q)
  PROVE  Told /\ raced' \in BOOLEAN /\ (~ raced' => ~ raced /\ ~ request[q].stale)
<1>1. Needs!IdleRequest \in Pending /\ Needs!IdleRequest.op = "idle"
  BY DEF Needs!IdleRequest, Pending
<1>2. request' = [x \in Installer |-> IF x = q \/ request[x] = Needs!IdleRequest THEN Needs!IdleRequest
                                      ELSE [request[x] EXCEPT !.stale = TRUE]]
  BY DEF Needs!Written
<1>3. ASSUME NEW x \in Installer
      PROVE  /\ request'[x] \in Pending
             /\ \/ request'[x].op = "idle"
                \/ /\ request'[x].stale /\ request'[x].op = request[x].op
                   /\ request'[x].e = request[x].e /\ request'[x].v = request[x].v
  <2>1. PICK was : was = request[x]
    OBVIOUS
  <2>2. was \in Pending
    BY <2>1 DEF NeedsShape
  <2>3. PICK told : told = [was EXCEPT !.stale = TRUE]
    OBVIOUS
  <2>4. told \in Pending /\ told.stale /\ told.op = was.op /\ told.e = was.e /\ told.v = was.v
    BY <2>2, <2>3 DEF Pending
  <2>5. request'[x] = Needs!IdleRequest \/ request'[x] = told
    BY <1>2, <2>1, <2>3
  <2>6. QED
    BY <1>1, <2>1, <2>4, <2>5
<1>4. Told
  BY <1>2, <1>3 DEF Told
<1>5. raced' = (raced \/ request[q].stale) /\ raced \in BOOLEAN /\ request[q].stale \in BOOLEAN
  BY DEF Needs!Written, NeedsShape, Pending
<1>6. QED
  BY <1>4, <1>5

LEMMA OverrunTells ==
  ASSUME NeedsShape,
         request' = [x \in Installer |-> [request[x] EXCEPT !.stale = request[x] # Needs!IdleRequest]]
  PROVE  Told
<1>1. Needs!IdleRequest.op = "idle"
  BY DEF Needs!IdleRequest
<1>2. ASSUME NEW x \in Installer
      PROVE  /\ request'[x] \in Pending
             /\ \/ request'[x].op = "idle"
                \/ /\ request'[x].stale /\ request'[x].op = request[x].op
                   /\ request'[x].e = request[x].e /\ request'[x].v = request[x].v
  <2>1. PICK was : was = request[x]
    OBVIOUS
  <2>2. was \in Pending
    BY <2>1 DEF NeedsShape
  <2>3. PICK old \in BOOLEAN : old <=> was # Needs!IdleRequest
    OBVIOUS
  <2>4. request'[x] = [was EXCEPT !.stale = was # Needs!IdleRequest]
    BY <2>1
  <2>5. request'[x] \in Pending /\ request'[x].op = was.op /\ request'[x].e = was.e /\ request'[x].v = was.v
        /\ (request'[x].stale <=> was # Needs!IdleRequest)
    BY <2>2, <2>4 DEF Pending
  <2>6. was.op # "idle" => was # Needs!IdleRequest
    BY <1>1
  <2>7. QED
    BY <2>1, <2>5, <2>6
<1>3. QED
  BY <1>2 DEF Told

(* Once all requests are told, only what is installed matters.             *)
LEMMA ToldKeepsChecks ==
  ASSUME VersionsExist, Told,
         \A x, w : Kept(x, w) => release'[x][w].status # "NONE",
         \A x \in Extension : installed'[x].v # None => Kept(x, installed'[x].v),
         \A x \in Extension : installed'[x].enabled => installed'[x].v # None
  PROVE  VersionsExist' /\ ChecksHold'
<1>1. \A x, w : Kept(x, w) => Kept(x, w)'
  BY DEF Kept
<1>2. \A x \in Extension : installed'[x].v # None => Kept(x, installed[x].v)'
  BY <1>1 DEF Kept
<1>3. ASSUME NEW q \in Installer
      PROVE  /\ request'[q].op # "idle" => request'[q].e \in Extension /\ request'[q].v \in Version
             /\ request'[q].op = "upgrade" => Kept(request[q].e, request[q].v)'
  <2>1. CASE request'[q].op = "idle"
    BY <2>1
  <2>2. CASE request'[q].op # "idle"
    <3>1. request'[q].op = request[q].op /\ request'[q].e = request[q].e /\ request'[q].v = request[q].v
      BY <2>2 DEF Told
    <3>2. request[q].op = "upgrade" => Kept(request[q].e, request[q].v)
      BY DEF VersionsExist
    <3>3. QED
      BY <2>2, <3>1, <3>2 DEF VersionsExist, Kept
  <2>3. QED
    BY <2>1, <2>2
<1>4. VersionsExist'
  BY <1>2, <1>3 DEF VersionsExist
<1>5. ChecksHold'
  <2>1. \A q \in Installer : request'[q].op = "idle" \/ request'[q].stale
    BY DEF Told
  <2>2. QED
    BY <2>1 DEF ChecksHold
<1>6. QED
  BY <1>4, <1>5

(* A request begins with what it has checked.                              *)
LEMMA BeginKeepsNeeds ==
  ASSUME VersionsAreFinite, NeedsInv, NEW q \in Installer,
         NEW op \in {"publish", "activate", "upgrade", "uninstall"},
         NEW e \in Extension, NEW v \in Version, NEW deps \in SUBSET Needs!Dependency, Needs!Begin(q, op, e, v, deps),
         op = "publish" => Needs!Publishable(e, v, deps),
         op = "activate" => v = installed[e].v /\ Needs!Satisfied(e, v),
         op = "upgrade" => Kept(e, v) /\ Needs!Satisfied(e, v),
         op = "uninstall" => Needs!Dependents(e) = {}
  PROVE  NeedsInv'
<1>1. PICK new : new = [op |-> op, e |-> e, v |-> v, deps |-> deps, stale |-> FALSE]
  OBVIOUS
<1>2. request' = [request EXCEPT ![q] = new] /\ UNCHANGED <<release, installed, raced, withdrawn, released>>
  BY <1>1 DEF Needs!Begin
<1>3. /\ new \in Pending /\ new.op = op /\ new.e = e /\ new.v = v /\ new.deps = deps /\ ~ new.stale
  BY <1>1 DEF Pending
<1>4. NeedsShape'
  BY <1>2, <1>3 DEF NeedsInv, NeedsShape, Out
<1>5. \A x, w : Kept(x, w)' <=> Kept(x, w)
  BY <1>2 DEF Kept
<1>6. \A x \in Installer : request'[x] = IF x = q THEN new ELSE request[x]
  BY <1>2 DEF NeedsInv, NeedsShape
<1>7. VersionsExist'
  <2>1. \A x \in Extension : /\ installed'[x].v # None => Kept(x, installed[x].v)'
                             /\ installed'[x].enabled => installed'[x].v # None
    BY <1>2 DEF NeedsInv, VersionsExist, Kept
  <2>2. ASSUME NEW x \in Installer
        PROVE  /\ request'[x].op # "idle" => request'[x].e \in Extension /\ request'[x].v \in Version
               /\ request'[x].op = "upgrade" => Kept(request[x].e, request[x].v)'
    <3>1. CASE x = q
      BY <1>2, <1>3, <1>6, <3>1 DEF Kept
    <3>2. CASE x # q
      BY <1>2, <1>6, <3>2 DEF NeedsInv, VersionsExist, Kept
    <3>3. QED
      BY <3>1, <3>2
  <2>3. QED
    BY <2>1, <2>2 DEF VersionsExist
<1>8. Quiet
  BY <1>2 DEF Quiet
<1>9. ChecksHold'
  <2>1. ASSUME NEW x \in Installer, NEW r, r = request'[x], r.op # "idle", ~ r.stale
        PROVE  /\ r.e \in Extension /\ r.v \in Version
               /\ r.op = "publish" => Needs!Publishable(r.e, r.v, r.deps)
               /\ r.op = "activate" => r.v = installed[r.e].v /\ Needs!Satisfied(r.e, r.v)
               /\ r.op = "upgrade" => Needs!Satisfied(r.e, r.v)
               /\ r.op = "uninstall" => Needs!Dependents(r.e) = {}
    <3>1. CASE x = q
      BY <1>3, <1>6, <2>1, <3>1
    <3>2. CASE x # q
      <4>1. r = request[x]
        BY <1>6, <2>1, <3>2
      <4>2. QED
        BY <2>1, <4>1 DEF NeedsInv, ChecksHold, VersionsExist
    <3>3. QED
      BY <3>1, <3>2
  <2>2. ASSUME NEW x \in Installer, ~ request'[x].stale
        PROVE  /\ request'[x].op = "publish" => Needs!Publishable(request[x].e, request[x].v, request[x].deps)'
               /\ request'[x].op = "activate" =>
                    request'[x].v = installed'[request'[x].e].v /\ Needs!Satisfied(request[x].e, request[x].v)'
               /\ request'[x].op = "upgrade" => Needs!Satisfied(request[x].e, request[x].v)'
               /\ request'[x].op = "uninstall" => Needs!Dependents(request[x].e)' = {}
    <3>1. PICK r : r = request'[x]
      OBVIOUS
    <3>2. CASE r.op = "idle"
      BY <3>1, <3>2
    <3>3. CASE r.op # "idle"
      <4>1. /\ r.e \in Extension /\ r.v \in Version
            /\ r.op = "publish" => Needs!Publishable(r.e, r.v, r.deps)
            /\ r.op = "activate" => r.v = installed[r.e].v /\ Needs!Satisfied(r.e, r.v)
            /\ r.op = "upgrade" => Needs!Satisfied(r.e, r.v)
            /\ r.op = "uninstall" => Needs!Dependents(r.e) = {}
        BY <2>1, <2>2, <3>1, <3>3
      <4>2. /\ r.op = "publish" => Needs!Publishable(r.e, r.v, r.deps)'
            /\ r.op = "activate" => r.v = installed'[r.e].v /\ Needs!Satisfied(r.e, r.v)'
            /\ r.op = "upgrade" => Needs!Satisfied(r.e, r.v)'
            /\ r.op = "uninstall" => Needs!Dependents(r.e)' = {}
        BY <1>8, <4>1, QuietKeepsChecks DEF NeedsInv
      <4>3. QED
        BY <3>1, <4>2
    <3>4. QED
      BY <3>2, <3>3
  <2>3. QED
    BY <2>2 DEF ChecksHold
<1>10. GraphIsSound'
  BY <1>2, <1>8, QuietKeepsGraph DEF NeedsInv
<1>11. QED
  BY <1>4, <1>7, <1>9, <1>10 DEF NeedsInv

-----------------------------------------------------------------------------
LEMMA QuietKeepsPending ==
  ASSUME VersionsAreFinite, NeedsShape, VersionsExist, ChecksHold, Quiet, UNCHANGED request
  PROVE  ChecksHold'
<1>1. ASSUME NEW x \in Installer, ~ request'[x].stale
      PROVE  /\ request'[x].op = "publish" => Needs!Publishable(request[x].e, request[x].v, request[x].deps)'
             /\ request'[x].op = "activate" =>
                  request'[x].v = installed'[request'[x].e].v /\ Needs!Satisfied(request[x].e, request[x].v)'
             /\ request'[x].op = "upgrade" => Needs!Satisfied(request[x].e, request[x].v)'
             /\ request'[x].op = "uninstall" => Needs!Dependents(request[x].e)' = {}
  <2>1. PICK r : r = request[x] /\ r = request'[x]
    OBVIOUS
  <2>2. CASE r.op = "idle"
    BY <2>1, <2>2
  <2>3. CASE r.op # "idle"
    <3>1. /\ r.e \in Extension /\ r.v \in Version
          /\ r.op = "publish" => Needs!Publishable(r.e, r.v, r.deps)
          /\ r.op = "activate" => r.v = installed[r.e].v /\ Needs!Satisfied(r.e, r.v)
          /\ r.op = "upgrade" => Needs!Satisfied(r.e, r.v)
          /\ r.op = "uninstall" => Needs!Dependents(r.e) = {}
      BY <1>1, <2>1, <2>3 DEF ChecksHold, VersionsExist
    <3>2. /\ r.op = "publish" => Needs!Publishable(r.e, r.v, r.deps)'
          /\ r.op = "activate" => r.v = installed'[r.e].v /\ Needs!Satisfied(r.e, r.v)'
          /\ r.op = "upgrade" => Needs!Satisfied(r.e, r.v)'
          /\ r.op = "uninstall" => Needs!Dependents(r.e)' = {}
      BY <3>1, QuietKeepsChecks
    <3>3. QED
      BY <2>1, <3>2
  <2>4. QED
    BY <2>2, <2>3
<1>2. QED
  BY <1>1 DEF ChecksHold

LEMMA InstallKeepsNeeds ==
  ASSUME VersionsAreFinite, NeedsInv, NEW e \in Extension, NEW v \in Version, Needs!Install(e, v)
  PROVE  NeedsInv'
<1>1. PICK new : new = [installed[e] EXCEPT !.v = v]
  OBVIOUS
<1>2. /\ installed' = [installed EXCEPT ![e] = new] /\ UNCHANGED <<release, request, raced, withdrawn, released>>
      /\ installed[e].v = None /\ release[e][v].status # "NONE"
  BY <1>1 DEF Needs!Install, NeedsInv, NeedsShape
<1>3. installed[e] \in [v : Version \cup {None}, enabled : BOOLEAN] /\ ~ installed[e].enabled
  BY <1>2 DEF NeedsInv, NeedsShape, VersionsExist
<1>4. new \in [v : Version \cup {None}, enabled : BOOLEAN] /\ new.v = v /\ ~ new.enabled
  BY <1>1, <1>3
<1>5. \A x \in Extension : installed'[x] = IF x = e THEN new ELSE installed[x]
  BY <1>2 DEF NeedsInv, NeedsShape
<1>6. NeedsShape'
  BY <1>2, <1>4 DEF NeedsInv, NeedsShape, Out
<1>7. Quiet
  BY <1>2, <1>3, <1>4, <1>5 DEF Quiet
<1>8. VersionsExist'
  BY <1>2, <1>4, <1>5 DEF NeedsInv, VersionsExist, Kept
<1>9. ChecksHold'
  BY <1>2, <1>7, QuietKeepsPending DEF NeedsInv
<1>10. GraphIsSound'
  BY <1>2, <1>7, QuietKeepsGraph DEF NeedsInv
<1>11. QED
  BY <1>6, <1>8, <1>9, <1>10 DEF NeedsInv

(* What runs has what it requires, after a change of e on which nothing    *)
(* that runs depends.                                                      *)
LEMMA ChangeKeepsRequirements ==
  ASSUME VersionsAreFinite, NeedsShape, VersionsExist, NEW e \in Extension,
         \A x \in Extension \ {e} : installed'[x] = installed[x],
         \A x, w : Kept(x, w) => release'[x][w].deps = release[x][w].deps,
         \A x \in Extension : installed[x].enabled => Needs!Satisfied(x, installed[x].v),
         \/ installed[e].enabled => installed'[e].enabled /\ installed'[e].v = installed[e].v
         \/ Needs!Dependents(e) = {},
         installed'[e].enabled => Kept(e, installed'[e].v) /\ Needs!Satisfied(e, installed'[e].v)
  PROVE  \A x \in Extension : installed'[x].enabled => Needs!Satisfied(x, installed[x].v)'
<1>1. ASSUME NEW x \in Extension, installed'[x].enabled PROVE Needs!Satisfied(x, installed[x].v)'
  <2>1. PICK w : w = installed'[x].v
    OBVIOUS
  <2>2. Kept(x, w) /\ Needs!Satisfied(x, w)
    <3>1. CASE x = e
      BY <1>1, <2>1, <3>1
    <3>2. CASE x # e
      BY <1>1, <2>1, <3>2 DEF VersionsExist
    <3>3. QED
      BY <3>1, <3>2
  <2>3. w \in Version /\ release'[x][w].deps = release[x][w].deps
    BY <2>2 DEF Kept
  <2>4. ASSUME NEW y \in Extension \ {x}, installed[y].enabled, NEW d \in release[x][w].deps, d.on = y, ~ d.optional
        PROVE  installed'[y].enabled /\ installed'[y].v = installed[y].v
    <3>1. CASE y # e
      BY <2>4, <3>1
    <3>2. CASE y = e
      <4>1. x # e /\ installed'[x] = installed[x]
        BY <2>4, <3>2
      <4>2. x \in Needs!Dependents(e)
        BY <1>1, <2>1, <2>4, <3>2, <4>1 DEF Needs!Dependents, Needs!Enabled, Needs!Manifest
      <4>3. QED
        BY <2>4, <3>2, <4>2
    <3>3. QED
      BY <3>1, <3>2
  <2>5. Needs!Satisfied(x, w)'
    BY <2>2, <2>3, <2>4, StillSatisfied
  <2>6. QED
    BY <2>1, <2>5
<1>2. QED
  BY <1>1

LEMMA RunningIsSatisfied ==
  ASSUME GraphIsSound, ~ raced, ~ released
  PROVE  \A x \in Extension : installed[x].enabled => Needs!Satisfied(x, installed[x].v)
BY DEF GraphIsSound, Needs!RequirementsMet, Needs!Enabled

LEMMA RequirementsSay ==
  Needs!RequirementsMet' <=>
    (~ raced' /\ ~ released' => \A x \in Extension : installed'[x].enabled => Needs!Satisfied(x, installed[x].v)')
BY DEF Needs!RequirementsMet, Needs!Enabled

LEMMA SameGraph ==
  ASSUME GraphIsSound, UNCHANGED release, ~ raced' => ~ raced, ~ withdrawn' => ~ withdrawn
  PROVE  Needs!Acyclic'
<1>1. LatestGraph' = LatestGraph
  BY DEF LatestGraph, Needs!Latest, Needs!Published
<1>2. QED
  BY <1>1, AcyclicSays DEF GraphIsSound

(* A command writes the row of one extension.                              *)
LEMMA CommandKeepsNeeds ==
  ASSUME VersionsAreFinite, NeedsInv, NEW e \in Extension, NEW new \in [v : Version \cup {None}, enabled : BOOLEAN],
         installed' = [installed EXCEPT ![e] = new], UNCHANGED <<release, withdrawn>>, Told, raced' \in BOOLEAN,
         ~ raced' => ~ raced, released' \in BOOLEAN, ~ released' => ~ released,
         new.v # None => Kept(e, new.v), new.enabled => new.v # None,
         ~ raced' /\ ~ released' =>
           \/ installed[e].enabled => new.enabled /\ new.v = installed[e].v
           \/ Needs!Dependents(e) = {},
         ~ raced' /\ ~ released' /\ new.enabled => Needs!Satisfied(e, new.v)
  PROVE  NeedsInv'
<1>1. \A x \in Extension : installed'[x] = IF x = e THEN new ELSE installed[x]
  BY DEF NeedsInv, NeedsShape
<1>2. NeedsShape'
  BY DEF NeedsInv, NeedsShape, Out, Told
<1>3. VersionsExist' /\ ChecksHold'
  <2>1. \A x \in Extension : installed'[x].v # None => Kept(x, installed'[x].v)
    BY <1>1 DEF NeedsInv, VersionsExist
  <2>2. \A x \in Extension : installed'[x].enabled => installed'[x].v # None
    BY <1>1 DEF NeedsInv, VersionsExist
  <2>3. \A x, w : Kept(x, w) => release'[x][w].status # "NONE"
    BY DEF Kept
  <2>4. QED
    BY <2>1, <2>2, <2>3, ToldKeepsChecks DEF NeedsInv
<1>4. Needs!Acyclic'
  BY SameGraph DEF NeedsInv
<1>5. ASSUME ~ raced', ~ released'
      PROVE  \A x \in Extension : installed'[x].enabled => Needs!Satisfied(x, installed[x].v)'
  <2>1. \A x \in Extension : installed[x].enabled => Needs!Satisfied(x, installed[x].v)
    BY <1>5, RunningIsSatisfied DEF NeedsInv
  <2>2. installed'[e] = new /\ \A x \in Extension \ {e} : installed'[x] = installed[x]
    BY <1>1
  <2>3. \A x, w : Kept(x, w) => release'[x][w].deps = release[x][w].deps
    OBVIOUS
  <2>4. new.enabled => Kept(e, new.v) /\ Needs!Satisfied(e, new.v)
    BY <1>5
  <2>5. \/ installed[e].enabled => new.enabled /\ new.v = installed[e].v
        \/ Needs!Dependents(e) = {}
    BY <1>5
  <2>6. QED
    BY <2>1, <2>2, <2>3, <2>4, <2>5, ChangeKeepsRequirements DEF NeedsInv
<1>6. Needs!RequirementsMet'
  BY <1>5, RequirementsSay
<1>7. QED
  BY <1>2, <1>3, <1>4, <1>6 DEF NeedsInv, GraphIsSound

LEMMA ActivateKeepsNeeds ==
  ASSUME VersionsAreFinite, NeedsInv, NEW q \in Installer, Needs!Activate(q)
  PROVE  NeedsInv'
<1>1. PICK e : e = request[q].e
  OBVIOUS
<1>2. PICK new : new = [installed[e] EXCEPT !.enabled = TRUE]
  OBVIOUS
<1>3. /\ request[q].op = "activate" /\ installed[e].v # None /\ Needs!Written(q) /\ UNCHANGED <<release, withdrawn, released>>
  BY <1>1 DEF Needs!Activate
<1>4. e \in Extension /\ installed[e] \in [v : Version \cup {None}, enabled : BOOLEAN]
  BY <1>1, <1>3 DEF NeedsInv, NeedsShape, VersionsExist
<1>5. installed' = [installed EXCEPT ![e] = new]
  BY <1>1, <1>2 DEF Needs!Activate
<1>6. new \in [v : Version \cup {None}, enabled : BOOLEAN] /\ new.v = installed[e].v /\ new.enabled
  BY <1>2, <1>4
<1>7. Told /\ raced' \in BOOLEAN /\ (~ raced' => ~ raced /\ ~ request[q].stale)
  BY <1>3, WrittenTells DEF NeedsInv
<1>8. ~ raced' => Needs!Satisfied(e, new.v)
  BY <1>1, <1>3, <1>6, <1>7 DEF NeedsInv, ChecksHold
<1>9. Kept(e, new.v)
  BY <1>3, <1>4, <1>6 DEF NeedsInv, VersionsExist
<1>10. released' \in BOOLEAN /\ (~ released' => ~ released)
  BY <1>3 DEF NeedsInv, NeedsShape
<1>11. new.v # None
  BY <1>3, <1>6
<1>12. QED
  BY <1>3, <1>4, <1>5, <1>6, <1>7, <1>8, <1>9, <1>10, <1>11, CommandKeepsNeeds

LEMMA UpgradeKeepsNeeds ==
  ASSUME VersionsAreFinite, NeedsInv, NEW q \in Installer, Needs!Upgrade(q)
  PROVE  NeedsInv'
<1>1. PICK e : e = request[q].e
  OBVIOUS
<1>2. PICK new : new = [installed[e] EXCEPT !.v = request[q].v]
  OBVIOUS
<1>3. /\ request[q].op = "upgrade" /\ installed[e].v # None /\ Needs!Written(q) /\ UNCHANGED <<release, withdrawn>>
      /\ released' = (released \/ Needs!Dependents(e) # {})
  BY <1>1 DEF Needs!Upgrade
<1>4. e \in Extension /\ installed[e] \in [v : Version \cup {None}, enabled : BOOLEAN] /\ Kept(e, request[q].v)
  BY <1>1, <1>3 DEF NeedsInv, NeedsShape, VersionsExist
<1>5. installed' = [installed EXCEPT ![e] = new]
  BY <1>1, <1>2 DEF Needs!Upgrade
<1>6. /\ new \in [v : Version \cup {None}, enabled : BOOLEAN] /\ new.v = request[q].v /\ new.v # None
  BY <1>2, <1>4 DEF Kept, VersionsAreFinite
<1>7. Told /\ raced' \in BOOLEAN /\ (~ raced' => ~ raced /\ ~ request[q].stale)
  BY <1>3, WrittenTells DEF NeedsInv
<1>8. ~ raced' => Needs!Satisfied(e, new.v)
  BY <1>1, <1>3, <1>6, <1>7 DEF NeedsInv, ChecksHold
<1>9. Kept(e, new.v)
  BY <1>4, <1>6
<1>10. released' \in BOOLEAN /\ (~ released' => ~ released /\ Needs!Dependents(e) = {})
  BY <1>3 DEF NeedsInv, NeedsShape
<1>12. QED
  BY <1>3, <1>4, <1>5, <1>6, <1>7, <1>8, <1>9, <1>10, CommandKeepsNeeds

LEMMA UninstallKeepsNeeds ==
  ASSUME VersionsAreFinite, NeedsInv, NEW q \in Installer, Needs!Uninstall(q)
  PROVE  NeedsInv'
<1>1. PICK e : e = request[q].e
  OBVIOUS
<1>2. PICK new : new = [v |-> None, enabled |-> FALSE]
  OBVIOUS
<1>3. /\ request[q].op = "uninstall" /\ Needs!Written(q) /\ UNCHANGED <<release, withdrawn, released>>
      /\ installed' = [installed EXCEPT ![e] = new]
  BY <1>1, <1>2 DEF Needs!Uninstall
<1>4. e \in Extension
  BY <1>1, <1>3 DEF NeedsInv, VersionsExist
<1>5. new \in [v : Version \cup {None}, enabled : BOOLEAN] /\ new.v = None /\ ~ new.enabled
  BY <1>2
<1>6. Told /\ raced' \in BOOLEAN /\ (~ raced' => ~ raced /\ ~ request[q].stale)
  BY <1>3, WrittenTells DEF NeedsInv
<1>7. ~ raced' => Needs!Dependents(e) = {}
  BY <1>1, <1>3, <1>6 DEF NeedsInv, ChecksHold
<1>8. released' \in BOOLEAN /\ (~ released' => ~ released)
  BY <1>3 DEF NeedsInv, NeedsShape
<1>9. QED
  BY <1>3, <1>4, <1>5, <1>6, <1>7, <1>8, CommandKeepsNeeds

LEMMA DeactivateKeepsNeeds ==
  ASSUME VersionsAreFinite, NeedsInv, NEW e \in Extension, Needs!Deactivate(e)
  PROVE  NeedsInv'
<1>1. PICK new : new = [installed[e] EXCEPT !.enabled = FALSE]
  OBVIOUS
<1>2. /\ installed' = [installed EXCEPT ![e] = new] /\ UNCHANGED <<release, raced, withdrawn>>
      /\ released' = (released \/ Needs!Dependents(e) # {})
      /\ request' = [x \in Installer |-> [request[x] EXCEPT !.stale = request[x] # Needs!IdleRequest]]
  BY <1>1 DEF Needs!Deactivate
<1>3. installed[e] \in [v : Version \cup {None}, enabled : BOOLEAN]
  BY DEF NeedsInv, NeedsShape
<1>4. new \in [v : Version \cup {None}, enabled : BOOLEAN] /\ new.v = installed[e].v /\ ~ new.enabled
  BY <1>1, <1>3
<1>5. Told
  BY <1>2, OverrunTells DEF NeedsInv
<1>6. new.v # None => Kept(e, new.v)
  BY <1>4 DEF NeedsInv, VersionsExist
<1>7. raced' \in BOOLEAN /\ released' \in BOOLEAN /\ (~ raced' => ~ raced)
      /\ (~ released' => ~ released /\ Needs!Dependents(e) = {})
  BY <1>2 DEF NeedsInv, NeedsShape
<1>8. QED
  BY <1>2, <1>4, <1>5, <1>6, <1>7, CommandKeepsNeeds

-----------------------------------------------------------------------------
(* A release is written: what is installed stays as it is.                 *)
LEMMA ReleaseKeepsNeeds ==
  ASSUME VersionsAreFinite, NeedsInv, NeedsShape', Told, UNCHANGED <<installed, released>>,
         NEW e \in Extension, ~ raced' => ~ raced,
         \A x, w : Kept(x, w) => release'[x][w].status # "NONE" /\ release'[x][w].deps = release[x][w].deps,
         Needs!Acyclic'
  PROVE  NeedsInv'
<1>1. VersionsExist' /\ ChecksHold'
  BY ToldKeepsChecks DEF NeedsInv, VersionsExist
<1>2. ASSUME ~ raced', ~ released'
      PROVE  \A x \in Extension : installed'[x].enabled => Needs!Satisfied(x, installed[x].v)'
  <2>1. \A x \in Extension : installed[x].enabled => Needs!Satisfied(x, installed[x].v)
    BY <1>2, RunningIsSatisfied DEF NeedsInv
  <2>2. installed'[e].enabled => Kept(e, installed'[e].v) /\ Needs!Satisfied(e, installed'[e].v)
    BY <2>1 DEF NeedsInv, VersionsExist
  <2>3. QED
    BY <2>1, <2>2, ChangeKeepsRequirements DEF NeedsInv
<1>3. Needs!RequirementsMet'
  BY <1>2, RequirementsSay
<1>4. QED
  BY <1>1, <1>3 DEF NeedsInv, GraphIsSound

LEMMA PublishKeepsNeeds ==
  ASSUME VersionsAreFinite, NeedsInv, NEW q \in Installer, Needs!Publish(q)
  PROVE  NeedsInv'
<1>1. PICK e : e = request[q].e
  OBVIOUS
<1>2. PICK v : v = request[q].v
  OBVIOUS
<1>3. PICK deps : deps = request[q].deps
  OBVIOUS
<1>4. /\ request[q].op = "publish" /\ release[e][v].status = "NONE" /\ Needs!Written(q)
      /\ release' = [release EXCEPT ![e][v] = [status |-> "PUBLISHED", at |-> Needs!Now, deps |-> deps]]
      /\ UNCHANGED <<installed, withdrawn, released>>
  BY <1>1, <1>2, <1>3 DEF Needs!Publish
<1>5. e \in Extension /\ v \in Version /\ deps \in SUBSET Needs!Dependency
  BY <1>1, <1>2, <1>3, <1>4 DEF NeedsInv, NeedsShape, VersionsExist, Pending
<1>6. Told /\ raced' \in BOOLEAN /\ (~ raced' => ~ raced /\ ~ request[q].stale)
  BY <1>4, WrittenTells DEF NeedsInv
<1>7. /\ release' \in [Extension -> [Version -> Release]]
      /\ \A x \in Extension, w \in Version : release'[x][w].at <= Cardinality(Out')
      /\ \A x, w : Kept(x, w) => release'[x][w] = release[x][w]
      /\ LatestGraph' = Needs!Node(e, v, deps)
  <2>1. NeedsShape
    BY DEF NeedsInv
  <2>2. /\ release[e][v].status = "NONE"
        /\ release' = [release EXCEPT ![e][v] = [status |-> "PUBLISHED", at |-> Needs!Now, deps |-> deps]]
    BY <1>4
  <2>3. QED
    BY <1>5, <2>1, <2>2, PublicationIsLatest
<1>8. NeedsShape'
  BY <1>4, <1>6, <1>7 DEF NeedsInv, NeedsShape, Told
<1>9. Needs!Acyclic'
  <2>1. SUFFICES ASSUME ~ raced', ~ withdrawn'
                 PROVE  \A x \in DOMAIN LatestGraph' : x \notin Needs!Reach(LatestGraph', x)
    BY AcyclicSays
  <2>2. \A x \in DOMAIN LatestGraph : x \notin Needs!Reach(LatestGraph, x)
    BY <1>4, <1>6, <2>1, AcyclicSays DEF NeedsInv, GraphIsSound
  <2>3. PICK node : node = Needs!Node(e, v, deps)
    OBVIOUS
  <2>4. ~ Needs!Cyclic(node, e)
    BY <1>1, <1>2, <1>3, <1>4, <1>6, <2>1, <2>3 DEF NeedsInv, ChecksHold, Needs!Publishable
  <2>5. DOMAIN node = DOMAIN LatestGraph \cup {e} /\ \A x \in DOMAIN node : x # e => node[x] = LatestGraph[x]
    BY <2>3 DEF Needs!Node, LatestGraph
  <2>6. \A x \in DOMAIN node : x \notin Needs!Reach(node, x)
    BY <2>2, <2>4, <2>5, CandidateClosesNoCircle
  <2>7. QED
    BY <1>7, <2>3, <2>6
<1>10. \A x, w : Kept(x, w) => release'[x][w].status # "NONE" /\ release'[x][w].deps = release[x][w].deps
  BY <1>7 DEF Kept
<1>11. QED
  BY <1>4, <1>5, <1>6, <1>8, <1>9, <1>10, ReleaseKeepsNeeds

LEMMA WithdrawKeepsNeeds ==
  ASSUME VersionsAreFinite, NeedsInv, NEW e \in Extension, NEW v \in Version, Needs!Withdraw(e, v)
  PROVE  NeedsInv'
<1>1. PICK new : new = [release[e][v] EXCEPT !.status = "WITHDRAWN"]
  OBVIOUS
<1>2. /\ release' = [release EXCEPT ![e][v] = new] /\ withdrawn' = TRUE
      /\ UNCHANGED <<installed, raced, released>> /\ release[e][v].status = "PUBLISHED"
      /\ request' = [x \in Installer |-> [request[x] EXCEPT !.stale = request[x] # Needs!IdleRequest]]
  BY <1>1 DEF Needs!Withdraw
<1>3. release \in [Extension -> [Version -> Release]] /\ release[e][v] \in Release
  BY DEF NeedsInv, NeedsShape
<1>4. /\ new \in Release /\ new.status = "WITHDRAWN" /\ new.at = release[e][v].at /\ new.deps = release[e][v].deps
  BY <1>1, <1>3 DEF Release
<1>5. /\ release' \in [Extension -> [Version -> Release]] /\ release'[e][v] = new
      /\ \A x \in Extension, w \in Version : <<x, w>> # <<e, v>> => release'[x][w] = release[x][w]
  BY <1>2, <1>3, <1>4
<1>6. \A x \in Extension, w \in Version :
        /\ release'[x][w].at = release[x][w].at /\ release'[x][w].deps = release[x][w].deps
        /\ release'[x][w].status # "NONE" <=> release[x][w].status # "NONE"
  <2>1. ASSUME NEW x \in Extension, NEW w \in Version
        PROVE  /\ release'[x][w].at = release[x][w].at /\ release'[x][w].deps = release[x][w].deps
               /\ release'[x][w].status # "NONE" <=> release[x][w].status # "NONE"
    <3>1. CASE <<x, w>> = <<e, v>>
      <4>1. x = e /\ w = v
        BY <3>1
      <4>2. QED
        BY <1>2, <1>4, <1>5, <4>1
    <3>2. CASE <<x, w>> # <<e, v>>
      BY <1>5, <3>2
    <3>3. QED
      BY <3>1, <3>2
  <2>2. QED
    BY <2>1
<1>7. Out' = Out
  BY <1>6 DEF Out
<1>8. Told
  BY <1>2, OverrunTells DEF NeedsInv
<1>9. NeedsShape'
  BY <1>2, <1>5, <1>6, <1>7, <1>8 DEF NeedsInv, NeedsShape, Told
<1>10. \A x, w : Kept(x, w) => release'[x][w].status # "NONE" /\ release'[x][w].deps = release[x][w].deps
  BY <1>6 DEF Kept
<1>11. Needs!Acyclic'
  BY <1>2, AcyclicSays
<1>12. QED
  BY <1>2, <1>8, <1>9, <1>10, <1>11, ReleaseKeepsNeeds

-----------------------------------------------------------------------------
LEMMA NeedsBegin == ASSUME VersionsAreFinite, Needs!GraphInit PROVE NeedsInv
<1>1. Needs!NotReleased \in Release /\ Needs!NotReleased.status = "NONE" /\ Needs!NotReleased.at = 0
  BY DEF Needs!NotReleased, Release
<1>2. Needs!IdleRequest \in Pending /\ Needs!IdleRequest.op = "idle"
  BY DEF Needs!IdleRequest, Pending
<1>3. /\ release = [e \in Extension |-> [v \in Version |-> Needs!NotReleased]]
      /\ installed = [e \in Extension |-> [v |-> None, enabled |-> FALSE]]
      /\ request = [q \in Installer |-> Needs!IdleRequest]
      /\ raced = FALSE /\ withdrawn = FALSE /\ released = FALSE
  BY DEF Needs!GraphInit
<1>4. \A e \in Extension : \A v \in Version : release[e][v] = Needs!NotReleased
  BY <1>3
<1>5. \A e \in Extension, v \in Version : release[e][v].at <= Cardinality(Out)
  BY <1>1, <1>4, OutIsCounted
<1>6. NeedsShape
  BY <1>1, <1>2, <1>3, <1>5 DEF NeedsShape
<1>7. VersionsExist /\ ChecksHold
  BY <1>2, <1>3 DEF VersionsExist, ChecksHold
<1>8. \A e \in Extension : Needs!Published(e) = {}
  BY <1>1, <1>4 DEF Needs!Published
<1>9. DOMAIN LatestGraph = {}
  BY <1>8 DEF LatestGraph
<1>10. Needs!Acyclic
  BY <1>9, AcyclicSays
<1>11. Needs!RequirementsMet
  BY <1>3 DEF Needs!RequirementsMet, Needs!Enabled
<1>12. QED
  BY <1>6, <1>7, <1>10, <1>11 DEF NeedsInv, GraphIsSound

LEMMA NextKeepsNeeds == VersionsAreFinite /\ NeedsInv /\ [Needs!GraphNext]_graphVars => NeedsInv'
<1> SUFFICES ASSUME VersionsAreFinite, NeedsInv, [Needs!GraphNext]_graphVars PROVE NeedsInv'
  OBVIOUS
<1>1. CASE UNCHANGED graphVars
  <2>1. UNCHANGED <<release, installed, request, raced, withdrawn, released>>
    BY <1>1 DEF graphVars
  <2>2. NeedsShape' /\ VersionsExist'
    BY <2>1 DEF NeedsInv, NeedsShape, VersionsExist, Kept, Out
  <2>3. Quiet
    BY <2>1 DEF Quiet
  <2>4. GraphIsSound'
    BY <2>1, <2>3, QuietKeepsGraph DEF NeedsInv
  <2>5. ChecksHold'
    BY <2>1, <2>3, QuietKeepsPending DEF NeedsInv
  <2>6. QED
    BY <2>2, <2>4, <2>5 DEF NeedsInv
<1>2. ASSUME NEW q \in Installer, Needs!Publish(q) \/ Needs!Activate(q) \/ Needs!Upgrade(q) \/ Needs!Uninstall(q)
      PROVE  NeedsInv'
  BY <1>2, PublishKeepsNeeds, ActivateKeepsNeeds, UpgradeKeepsNeeds, UninstallKeepsNeeds
<1>3. ASSUME NEW q \in Installer, NEW e \in Extension, Needs!BeginActivate(q, e) \/ Needs!BeginUninstall(q, e)
      PROVE  NeedsInv'
  <2>1. PICK v : v = installed[e].v
    OBVIOUS
  <2>2. v \in Version
    BY <1>3, <2>1 DEF Needs!BeginActivate, Needs!BeginUninstall, NeedsInv, VersionsExist, Kept
  <2>3. {} \in SUBSET Needs!Dependency
    OBVIOUS
  <2>4. CASE Needs!BeginActivate(q, e)
    <3>1. Needs!Begin(q, "activate", e, v, {}) /\ Needs!Satisfied(e, v)
      BY <2>1, <2>4 DEF Needs!BeginActivate
    <3>2. QED
      BY <2>1, <2>2, <2>3, <3>1, BeginKeepsNeeds
  <2>5. CASE Needs!BeginUninstall(q, e)
    <3>1. Needs!Begin(q, "uninstall", e, v, {}) /\ Needs!Dependents(e) = {}
      BY <2>1, <2>5 DEF Needs!BeginUninstall
    <3>2. QED
      BY <2>1, <2>2, <2>3, <3>1, BeginKeepsNeeds
  <2>6. QED
    BY <1>3, <2>4, <2>5
<1>4. ASSUME NEW q \in Installer, NEW e \in Extension, NEW v \in Version, Needs!BeginUpgrade(q, e, v)
      PROVE  NeedsInv'
  <2>1. Needs!Begin(q, "upgrade", e, v, {}) /\ Needs!Satisfied(e, v) /\ release[e][v].status = "PUBLISHED"
    BY <1>4 DEF Needs!BeginUpgrade
  <2>2. Kept(e, v) /\ {} \in SUBSET Needs!Dependency
    BY <2>1 DEF Kept
  <2>3. QED
    BY <2>1, <2>2, BeginKeepsNeeds
<1>5. ASSUME NEW q \in Installer, NEW e \in Extension, NEW v \in Version,
             NEW deps \in {{}} \cup {{d} : d \in Needs!Dependency}, Needs!BeginPublish(q, e, v, deps)
      PROVE  NeedsInv'
  <2>1. Needs!Begin(q, "publish", e, v, deps) /\ Needs!Publishable(e, v, deps)
    BY <1>5 DEF Needs!BeginPublish
  <2>2. deps \in SUBSET Needs!Dependency
    OBVIOUS
  <2>3. QED
    BY <2>1, <2>2, BeginKeepsNeeds
<1>6. ASSUME NEW e \in Extension, NEW v \in Version, Needs!Install(e, v) \/ Needs!Withdraw(e, v)
      PROVE  NeedsInv'
  BY <1>6, InstallKeepsNeeds, WithdrawKeepsNeeds
<1>7. ASSUME NEW e \in Extension, Needs!Deactivate(e) PROVE NeedsInv'
  BY <1>7, DeactivateKeepsNeeds
<1>8. QED
  BY <1>1, <1>2, <1>3, <1>4, <1>5, <1>6, <1>7 DEF Needs!GraphNext

NeedsSpec == Needs!GraphInit /\ [][Needs!GraphNext]_graphVars

(* Published extensions never require each other in a circle, and what     *)
(* runs in a school has what it requires, for any number of extensions,    *)
(* versions and requests (assertDependencyGraph, resolveDependencies),     *)
(* unless a check was overrun or something was taken back that nothing     *)
(* checks.                                                                 *)
THEOREM GraphStaysSound == ASSUME VersionsAreFinite PROVE NeedsSpec => []GraphIsSound
<1>1. Needs!GraphInit => NeedsInv
  BY NeedsBegin
<1>2. NeedsInv /\ [Needs!GraphNext]_graphVars => NeedsInv'
  BY NextKeepsNeeds
<1>3. NeedsInv => GraphIsSound
  BY DEF NeedsInv
<1>4. QED
  BY <1>1, <1>2, <1>3, PTL DEF NeedsSpec
=============================================================================
