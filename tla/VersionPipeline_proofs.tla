------------------------ MODULE VersionPipeline_proofs ------------------------
(***************************************************************************)
(* Proofs about VersionPipeline, for any versions, packages, users,        *)
(* schools, requests and validations in flight, crashes and redeliveries.  *)
(***************************************************************************)
EXTENDS VersionPipeline, TLAPS

OnVersion == {"draft", "stored", "enqueue", "publish", "write", "effects", "appeal", "dropObjects",
              "dropRow", "install", "activate"}
Family == {"PUBLISHED", "DEPRECATED", "BLOCKED", "RETIRED"}

(* What a request carries for the steps that are left of it.               *)
Carries(q) ==
  /\ q.pc \in OnVersion => q.v \in Version /\ ver[q.v].status # "NONE"
  /\ q.pc \in {"stored", "enqueue"} => q.p \in Package /\ q.u \in User
  /\ q.pc \in {"publish", "write", "effects"} => q.u \in User /\ q.to \in Status
  /\ q.pc = "publish" => q.to = "PUBLISHED"
  /\ q.pc = "write" /\ q.to = "PUBLISHED" /\ Present(q.v) => ver[q.v].sum \in Package
  /\ q.pc = "effects" => q.to \in {"PUBLISHED", "BLOCKED", "RETIRED", "APPROVED"}
  /\ q.pc \in {"publisher", "suspend"} => q.to \in {"ACTIVE", "SUSPENDED", "REVOKED"}
  /\ q.pc = "key" => q.to \in {"ACTIVE", "REVOKED"}
  /\ q.pc \in {"install", "activate"} => q.u \in School
  /\ q.pc = "activate" /\ Present(q.v) => inst[q.u].v \in Version

Shape ==
  /\ TypeOK
  /\ \A s \in Slot : Carries(slot[s])
  /\ \A v \in Version : ver[v].obj # None => ver[v].sum \in Package
  /\ \A w \in Worker : wk[w].pc # "idle" => wk[w].v \in Version /\ wk[w].p \in Package
  /\ \A x \in School : inst[x].state \in {"INSTALLED", "ACTIVE"} => inst[x].v \in Version

(* Who approves a version is not who created it, and nobody publishes one  *)
(* that no one approved.                                                   *)
Decides(q) ==
  /\ q.pc = "write" /\ q.to = "PUBLISHED" /\ Present(q.v) => approvals[q.v] # {}
  /\ q.pc \in {"write", "effects"} /\ q.to = "APPROVED" /\ Present(q.v) => ver[q.v].by # q.u

Reviewed ==
  /\ \A s \in Slot : Decides(slot[s])
  /\ \A v \in Version :
       /\ ver[v].status = "NONE" => approvals[v] = {}
       /\ Present(v) => ver[v].by \notin approvals[v]
       /\ ver[v].status = "PUBLISHED" => approvals[v] # {}

(* Of a request whose rows nobody has changed since: what it read holds.   *)
Reads(q) ==
  /\ ~ q.stale /\ q.pc = "stored" => ver[q.v].status = "UPLOADED"
  /\ ~ q.stale /\ q.pc \in {"publish", "write"} =>
       Present(q.v) /\ q.to \in AllowedTransitions[ver[q.v].status] /\ ver[q.v].sum = q.p
  /\ ~ q.stale /\ q.pc = "write" /\ q.to = "PUBLISHED" =>
       <<"published", q.v, q.p>> \in objs /\ val[q.v][q.p] = "PASSED"
  /\ \A v \in Version, p \in Package :
       <<"published", v, p>> \in q.drops => ver[v].status \in {"RETIRED", "DELETED"}

(* ... and of a validation: its package is the one of the row, and it has  *)
(* no verdict.                                                             *)
Validating(r) ==
  ~ r.stale /\ r.pc \in {"scan", "finish"} =>
    Present(r.v) /\ ver[r.v].sum = r.p /\ val[r.v][r.p] = "RUNNING"

(* A version of the publisher's family has been published: its package is  *)
(* the only one it ever had, and that package has passed.                  *)
RowSound(v) ==
  /\ ver[v].status \in {"NONE", "UPLOADED"} =>
       ver[v].obj = None /\ \A p \in Package : val[v][p] = "NONE"
  /\ \A p \in Package : Present(v) /\ val[v][p] # "NONE" => ver[v].sum = p
  /\ Present(v) /\ ver[v].obj = "published" => ver[v].status \in Family
  /\ ver[v].status \in Family => ver[v].obj = "published" /\ val[v][ver[v].sum] = "PASSED"
  /\ ver[v].status = "PUBLISHED" => <<"published", v, ver[v].sum>> \in objs

Sound ==
  ~ lost => /\ \A s \in Slot : Reads(slot[s])
            /\ \A w \in Worker : Validating(wk[w])
            /\ \A v \in Version : RowSound(v)

Suspended ==
  ~ lost /\ used.crashes = 0 /\ publisher # "ACTIVE" /\ (\A s \in Slot : ~ At(s, "suspend"))
    => ext # "ACTIVE"
-----------------------------------------------------------------------------
(* Marking what has been read as stale changes nothing else.               *)
LEMMA Marks ==
  ASSUME TypeOK, NEW s, NEW V
  PROVE  /\ StaleRequests(s, V) \in [Slot -> Request]
         /\ \A t \in Slot : \/ StaleRequests(s, V)[t] = slot[t]
                            \/ StaleRequests(s, V)[t] = [slot[t] EXCEPT !.stale = TRUE]
<1>1. \A q \in Request : [q EXCEPT !.stale = TRUE] \in Request
  BY DEF Request
<1>2. QED
  BY <1>1 DEF TypeOK, StaleRequests

LEMMA RunMarks ==
  ASSUME TypeOK, NEW x, NEW V
  PROVE  /\ StaleRuns(x, V) \in [Worker -> ValidatorRun]
         /\ \A w \in Worker : \/ StaleRuns(x, V)[w] = wk[w]
                              \/ StaleRuns(x, V)[w] = [wk[w] EXCEPT !.stale = TRUE]
<1>1. \A q \in ValidatorRun : [q EXCEPT !.stale = TRUE] \in ValidatorRun
  BY DEF ValidatorRun
<1>2. QED
  BY <1>1 DEF TypeOK, StaleRuns

LEMMA Statuses ==
  Status = {"UPLOADED", "QUARANTINED", "VALIDATING", "VALIDATED", "AWAITING_REVIEW", "APPROVED",
            "PUBLISHED", "DEPRECATED", "BLOCKED", "REJECTED", "RETIRED"}
BY DEF Status, AllowedTransitions

(* The rows that the steps write.                                          *)
DraftOf(x) == [x EXCEPT !.manifest = "typed"]
QuarantinedOf(x, p) == [x EXCEPT !.obj = "quarantine", !.sum = p, !.status = "QUARANTINED"]
StatusOf(x, st) == [x EXCEPT !.status = st]
VerdictOf(x, st, m) == [x EXCEPT !.status = st, !.manifest = m]
AppealOf(x) == [x EXCEPT !.status = "AWAITING_REVIEW", !.reviewer = None]
DecidedOf(x, st, n, o, b) == [x EXCEPT !.status = st, !.reviewer = n, !.obj = o, !.signed = b]
GoneRow == [NoVersion EXCEPT !.status = "DELETED"]
CreatedRow(u) == [NoVersion EXCEPT !.status = "UPLOADED", !.by = u]

LEMMA DraftRow ==
  ASSUME NEW x \in VersionRow
  PROVE  LET r == DraftOf(x)
         IN  r \in VersionRow /\ r.status = x.status /\ r.obj = x.obj /\ r.sum = x.sum /\ r.by = x.by
BY DEF VersionRow, DraftOf

LEMMA QuarantinedRow ==
  ASSUME NEW x \in VersionRow, NEW p \in Package
  PROVE  LET r == QuarantinedOf(x, p)
         IN  r \in VersionRow /\ r.status = "QUARANTINED" /\ r.obj = "quarantine" /\ r.sum = p /\ r.by = x.by
BY Statuses DEF VersionRow, QuarantinedOf

LEMMA StatusRow ==
  ASSUME NEW x \in VersionRow, NEW st \in Status
  PROVE  LET r == StatusOf(x, st)
         IN  r \in VersionRow /\ r.status = st /\ r.obj = x.obj /\ r.sum = x.sum /\ r.by = x.by
BY DEF VersionRow, StatusOf

LEMMA VerdictRow ==
  ASSUME NEW x \in VersionRow, NEW st \in Status, NEW m \in {"typed"} \cup Package
  PROVE  LET r == VerdictOf(x, st, m)
         IN  r \in VersionRow /\ r.status = st /\ r.obj = x.obj /\ r.sum = x.sum /\ r.by = x.by
BY DEF VersionRow, VerdictOf

LEMMA AppealRow ==
  ASSUME NEW x \in VersionRow
  PROVE  LET r == AppealOf(x)
         IN  /\ r \in VersionRow /\ r.status = "AWAITING_REVIEW"
             /\ r.obj = x.obj /\ r.sum = x.sum /\ r.by = x.by
BY Statuses DEF VersionRow, AppealOf

LEMMA DecidedRow ==
  ASSUME NEW x \in VersionRow, NEW st \in Status, NEW n \in User \cup {None},
         NEW o \in {"quarantine", "published", None}, NEW b \in BOOLEAN
  PROVE  LET r == DecidedOf(x, st, n, o, b)
         IN  r \in VersionRow /\ r.status = st /\ r.obj = o /\ r.sum = x.sum /\ r.by = x.by
BY DEF VersionRow, DecidedOf

LEMMA FreshRows ==
  /\ NoVersion \in VersionRow
  /\ GoneRow \in VersionRow /\ GoneRow.status = "DELETED" /\ GoneRow.obj = None
  /\ \A u \in User : LET r == CreatedRow(u)
                     IN  r \in VersionRow /\ r.status = "UPLOADED" /\ r.obj = None /\ r.by = u
BY Statuses DEF VersionRow, NoVersion, GoneRow, CreatedRow

(* A request that has written its row goes on.                             *)
OnTo(q, pc) == [q EXCEPT !.pc = pc, !.stale = FALSE]

LEMMA OnFields ==
  ASSUME NEW q \in Request, NEW pc \in {"enqueue", "effects"}
  PROVE  LET n == OnTo(q, pc)
         IN  /\ n \in Request /\ n.pc = pc /\ n.stale = FALSE /\ n.v = q.v /\ n.u = q.u
             /\ n.to = q.to /\ n.p = q.p /\ n.drops = q.drops
BY DEF Request, OnTo

LEMMA Idles == IdleRequest \in Request /\ IdleRun \in ValidatorRun
<1>1. IdleRequest \in Request
  BY DEF IdleRequest, Request
<1>2. IdleRun \in ValidatorRun
  BY DEF IdleRun, ValidatorRun
<1>3. QED
  BY <1>1, <1>2

(* What every step leaves of the rows: a row does not become new again, a  *)
(* row that is gone does not come back, one that is there keeps a package. *)
Keeps ==
  /\ \A v \in Version :
       /\ ver[v].status # "NONE" => ver'[v].status # "NONE"
       /\ Present(v)' => Present(v) \/ ver[v].status = "NONE"
       /\ Present(v)' /\ Present(v) /\ ver[v].sum \in Package => ver'[v].sum \in Package
  /\ \A x \in School, v \in Version :
       inst[x].v \in Version /\ Present(v)' => inst'[x].v \in Version

Same(t) == slot'[t] \in {slot[t], [slot[t] EXCEPT !.stale = TRUE], IdleRequest}

LEMMA RequestsCarry ==
  ASSUME Shape, Keeps, \A t \in Slot : Same(t) \/ Carries(slot[t])'
  PROVE  \A t \in Slot : Carries(slot[t])'
<1> SUFFICES ASSUME NEW t \in Slot, Same(t) PROVE Carries(slot[t])'
  OBVIOUS
<1>1. CASE slot'[t] = IdleRequest
  BY <1>1 DEF Carries, IdleRequest, OnVersion
<1>2. CASE slot'[t] # IdleRequest
  <2>1. slot[t] \in Request
    BY DEF Shape, TypeOK
  <2>2. /\ slot'[t].pc = slot[t].pc /\ slot'[t].v = slot[t].v /\ slot'[t].u = slot[t].u
        /\ slot'[t].to = slot[t].to /\ slot'[t].p = slot[t].p
    BY <1>2, <2>1 DEF Same, Request
  <2>3. Carries(slot[t])
    BY DEF Shape
  <2>4. QED
    BY <2>2, <2>3 DEF Carries, OnVersion, Keeps
<1>3. QED
  BY <1>1, <1>2

(* The same for the runs of the workers.                                   *)
RunSame(w) == wk'[w] \in {wk[w], [wk[w] EXCEPT !.stale = TRUE], IdleRun}

LEMMA RunsCarry ==
  ASSUME Shape, \A w \in Worker : RunSame(w) \/ (wk'[w].v \in Version /\ wk'[w].p \in Package)
  PROVE  \A w \in Worker : wk'[w].pc # "idle" => wk'[w].v \in Version /\ wk'[w].p \in Package
<1> SUFFICES ASSUME NEW w \in Worker, RunSame(w), wk'[w].pc # "idle"
             PROVE  wk'[w].v \in Version /\ wk'[w].p \in Package
  OBVIOUS
<1>1. wk[w] \in ValidatorRun
  BY DEF Shape, TypeOK
<1>2. wk'[w].pc = wk[w].pc /\ wk'[w].v = wk[w].v /\ wk'[w].p = wk[w].p
  BY <1>1 DEF RunSame, ValidatorRun, IdleRun
<1>3. QED
  BY <1>2 DEF Shape

(* A request reads, or goes on without writing a row.                      *)
LEMMA Going ==
  ASSUME Shape, NEW s \in Slot, NEW new \in Request, Carries(new),
         slot' = [slot EXCEPT ![s] = new], UNCHANGED <<rows, wk, sender, lost>>,
         objs' \subseteq Object,
         used' \in [crashes : 0..Crashes, stalls : 0..Redeliveries],
         job' \in [Version -> [Package -> {"absent", "waiting", "active", "completed", "failed"}]]
  PROVE  Shape'
<1>1. /\ ver' = ver /\ ext' = ext /\ publisher' = publisher /\ key' = key /\ val' = val
      /\ approvals' = approvals /\ inst' = inst
  BY DEF rows
<1>2. TypeOK'
  <2>1. slot' \in [Slot -> Request]
    BY DEF Shape, TypeOK
  <2>2. QED
    BY <1>1, <2>1 DEF Shape, TypeOK
<1>3. Keeps
  BY <1>1 DEF Keeps, Present
<1>4. Carries(new)'
  BY <1>1 DEF Carries, Present
<1>5. \A t \in Slot : slot'[t] = IF t = s THEN new ELSE slot[t]
  BY DEF Shape, TypeOK
<1>6. \A t \in Slot : Carries(slot[t])'
  <2>1. \A t \in Slot : t # s => Same(t)
    BY <1>5 DEF Same
  <2>2. Carries(slot[s])'
    BY <1>4, <1>5
  <2>3. QED
    BY <1>3, <2>1, <2>2, RequestsCarry
<1>7. QED
  BY <1>1, <1>2, <1>6 DEF Shape

(* The request that Begin makes.                                           *)
Begun(v, pc, u, to, p) ==
  [pc |-> pc, v |-> v, u |-> u, to |-> to, p |-> p,
   obj |-> IF p = None THEN None ELSE ver[v].obj,
   drops |-> CASE pc = "dropObjects" -> Stored({v})
               [] pc = "purgeObjects" -> Stored(Version)
               [] OTHER -> {},
   stale |-> FALSE]

LEMMA Fields ==
  ASSUME NEW v, NEW pc, NEW u, NEW to, NEW p
  PROVE  LET new == Begun(v, pc, u, to, p)
         IN  new.pc = pc /\ new.v = v /\ new.u = u /\ new.to = to /\ new.p = p
BY DEF Begun

LEMMA Beginning ==
  ASSUME Shape, NEW kind, NEW s \in Slot, NEW v, NEW pc, NEW u, NEW to, NEW p,
         Begin(kind, s, v, pc, u, to, p),
         v \in Version \cup {None}, u \in User \cup School \cup {None},
         to \in Status \cup {"ACTIVE", "SUSPENDED", "REVOKED", None}, p \in Package \cup {None},
         p # None => v \in Version,
         pc \in {"draft", "stored", "publish", "write", "appeal", "dropObjects", "purgeObjects",
                 "publisher", "key", "install", "activate"},
         pc = "dropObjects" => v \in Version
  PROVE  /\ Begun(v, pc, u, to, p) \in Request
         /\ slot' = [slot EXCEPT ![s] = Begun(v, pc, u, to, p)] /\ used' = used
<1>1. \A x \in Version : ver[x] \in VersionRow
  BY DEF Shape, TypeOK
<1>2. \A V \in SUBSET Version : Stored(V) \subseteq Object
  BY <1>1 DEF Stored, Object, Shape, VersionRow
<1>3. Begun(v, pc, u, to, p).drops \subseteq Object
  BY <1>2 DEF Begun
<1>4. Begun(v, pc, u, to, p).obj \in {"quarantine", "published", None}
  BY <1>1 DEF VersionRow, Begun
<1>5. Begun(v, pc, u, to, p) \in Request
  BY <1>3, <1>4 DEF Request, Begun
<1>6. slot' = [slot EXCEPT ![s] = Begun(v, pc, u, to, p)] /\ used' = used
  BY DEF Begin, Begun
<1>7. QED
  BY <1>5, <1>6

(* What each kind of request has found when it starts.                     *)
Asked(v, pc, u, to, p) ==
  /\ pc \in {"draft", "stored", "publish", "write", "appeal", "dropObjects", "purgeObjects",
             "publisher", "key", "install", "activate"}
  /\ pc = "stored" => ver[v].status = "UPLOADED"
  /\ pc \in {"publish", "write"} =>
       /\ Present(v) /\ to \in AllowedTransitions[ver[v].status] /\ p = ver[v].sum
       /\ MayDecide(u, v, to) /\ (pc = "publish" <=> to = "PUBLISHED")
  /\ pc = "dropObjects" => ver[v].status \in {"UPLOADED", "VALIDATED", "REJECTED"}
  /\ pc = "purgeObjects" =>
       \A x \in Version : Present(x) => ver[x].status \in {"RETIRED", "REJECTED"}

Starting(s, v, pc, u, to, p) ==
  /\ Begun(v, pc, u, to, p) \in Request /\ Carries(Begun(v, pc, u, to, p))
  /\ slot' = [slot EXCEPT ![s] = Begun(v, pc, u, to, p)]
  /\ Asked(v, pc, u, to, p)
  /\ UNCHANGED <<rows, job, wk, sender, lost, used>>
  /\ objs' \subseteq Object /\ \A o \in objs : o \in objs'

LEMMA StartsAsk ==
  ASSUME Shape, NEW s \in Slot, Starts(s)
  PROVE  \E v, pc, u, to, p : Starting(s, v, pc, u, to, p)
<1>0. objs \subseteq Object /\ \A v \in Version : ver[v] \in VersionRow
  BY DEF Shape, TypeOK
<1> DEFINE Goal == \E v, pc, u, to, p : Starting(s, v, pc, u, to, p)
<1>1. ASSUME NEW v \in Version, BeginDraft(s, v) PROVE Goal
  <2>1. /\ Begun(v, "draft", None, None, None) \in Request
        /\ slot' = [slot EXCEPT ![s] = Begun(v, "draft", None, None, None)] /\ used' = used
    BY <1>1, Beginning DEF BeginDraft
  <2>2. ver[v].status # "NONE"
    BY <1>1 DEF BeginDraft, Mutable
  <2>3. Carries(Begun(v, "draft", None, None, None))
    BY <2>1, <2>2, Fields DEF Carries
  <2>4. Asked(v, "draft", None, None, None)
    BY <1>0, <1>1, <2>1, <2>3 DEF BeginDraft, Asked
  <2>5. Starting(s, v, "draft", None, None, None)
    BY <1>0, <1>1, <2>1, <2>3, <2>4 DEF BeginDraft, Starting
  <2>6. QED
    BY <2>5
<1>2. ASSUME NEW u \in User, NEW v \in Version, NEW p \in Package, BeginUpload(s, u, v, p) PROVE Goal
  <2>1. /\ Begun(v, "stored", u, None, p) \in Request
        /\ slot' = [slot EXCEPT ![s] = Begun(v, "stored", u, None, p)] /\ used' = used
    BY <1>2, Beginning DEF BeginUpload
  <2>2. ver[v].status # "NONE"
    BY <1>2 DEF BeginUpload
  <2>3. Carries(Begun(v, "stored", u, None, p))
    BY <2>1, <2>2, Fields DEF Carries
  <2>4. objs' \subseteq Object
    BY <1>0, <1>2 DEF BeginUpload, Object
  <2>5. Asked(v, "stored", u, None, p)
    BY <1>0, <1>2, <2>1, <2>3, <2>4 DEF BeginUpload, Asked
  <2>6. Starting(s, v, "stored", u, None, p)
    BY <1>0, <1>2, <2>1, <2>3, <2>4, <2>5 DEF BeginUpload, Starting
  <2>7. QED
    BY <2>6
<1>3. ASSUME NEW u \in User, NEW v \in Version, NEW to \in Status, BeginTransition(s, u, v, to) PROVE Goal
  <2>0. PICK pc \in {"publish", "write"} : pc = IF to = "PUBLISHED" THEN "publish" ELSE "write"
    OBVIOUS
  <2>1. ver[v].sum \in Package \cup {None} /\ Begin("decide", s, v, pc, u, to, ver[v].sum)
    BY <1>0, <1>3, <2>0 DEF VersionRow, BeginTransition
  <2>2. /\ Begun(v, pc, u, to, ver[v].sum) \in Request
        /\ slot' = [slot EXCEPT ![s] = Begun(v, pc, u, to, ver[v].sum)] /\ used' = used
    BY <2>1, Beginning
  <2>3. ver[v].status # "NONE"
    BY <1>3 DEF BeginTransition, Present, Status, AllowedTransitions
  <2>4. Carries(Begun(v, pc, u, to, ver[v].sum))
    BY <2>0, <2>1, <2>2, <2>3, Fields DEF Carries
  <2>5. Asked(v, pc, u, to, ver[v].sum)
    BY <1>0, <1>3, <2>0, <2>2, <2>4 DEF BeginTransition, Asked, MayDecide
  <2>6. Starting(s, v, pc, u, to, ver[v].sum)
    BY <1>0, <1>3, <2>0, <2>2, <2>4, <2>5 DEF BeginTransition, Starting
  <2>7. QED
    BY <2>6
<1>4. ASSUME NEW u \in User, NEW v \in Version, BeginAppeal(s, u, v) PROVE Goal
  <2>1. ver[v].reviewer \in User \cup {None}
    BY <1>0 DEF VersionRow
  <2>2. /\ Begun(v, "appeal", ver[v].reviewer, None, None) \in Request
        /\ slot' = [slot EXCEPT ![s] = Begun(v, "appeal", ver[v].reviewer, None, None)] /\ used' = used
    BY <1>4, <2>1, Beginning DEF BeginAppeal
  <2>3. ver[v].status # "NONE"
    BY <1>4 DEF BeginAppeal
  <2>4. Carries(Begun(v, "appeal", ver[v].reviewer, None, None))
    BY <2>2, <2>3, Fields DEF Carries
  <2>5. Asked(v, "appeal", ver[v].reviewer, None, None)
    BY <1>0, <1>4, <2>2, <2>4 DEF BeginAppeal, Asked
  <2>6. Starting(s, v, "appeal", ver[v].reviewer, None, None)
    BY <1>0, <1>4, <2>2, <2>4, <2>5 DEF BeginAppeal, Starting
  <2>7. QED
    BY <2>6
<1>5. ASSUME NEW u \in User, NEW v \in Version, BeginDelete(s, u, v) PROVE Goal
  <2>1. /\ Begun(v, "dropObjects", u, None, None) \in Request
        /\ slot' = [slot EXCEPT ![s] = Begun(v, "dropObjects", u, None, None)] /\ used' = used
    BY <1>5, Beginning DEF BeginDelete
  <2>2. ver[v].status # "NONE"
    BY <1>5 DEF BeginDelete
  <2>3. Carries(Begun(v, "dropObjects", u, None, None))
    BY <2>1, <2>2, Fields DEF Carries
  <2>4. Asked(v, "dropObjects", u, None, None)
    BY <1>0, <1>5, <2>1, <2>3 DEF BeginDelete, Asked
  <2>5. Starting(s, v, "dropObjects", u, None, None)
    BY <1>0, <1>5, <2>1, <2>3, <2>4 DEF BeginDelete, Starting
  <2>6. QED
    BY <2>5
<1>6. ASSUME NEW u \in User, \/ BeginPurge(s, u)
                             \/ \E to \in {"ACTIVE", "SUSPENDED", "REVOKED"} : BeginPublisher(s, u, to)
                             \/ \E to \in {"ACTIVE", "REVOKED"} : BeginKey(s, u, to)
      PROVE Goal
  <2>1. PICK pc \in {"purgeObjects", "publisher", "key"}, to \in {"ACTIVE", "SUSPENDED", "REVOKED", None} :
          \E kind : /\ Begin(kind, s, None, pc, u, to, None)
                    /\ pc = "publisher" => to \in {"ACTIVE", "SUSPENDED", "REVOKED"}
                    /\ pc = "key" => to \in {"ACTIVE", "REVOKED"}
                    /\ pc = "purgeObjects" =>
                         \A x \in Version : Present(x) => ver[x].status \in {"RETIRED", "REJECTED"}
    BY <1>6 DEF BeginPurge, BeginPublisher, BeginKey
  <2>2. /\ Begun(None, pc, u, to, None) \in Request
        /\ slot' = [slot EXCEPT ![s] = Begun(None, pc, u, to, None)] /\ used' = used
    BY <2>1, Beginning
  <2>3. Carries(Begun(None, pc, u, to, None))
    BY <2>1, Fields DEF Carries, OnVersion
  <2>4. UNCHANGED <<rows, objs, job, wk, sender, lost>>
    BY <1>6 DEF BeginPurge, BeginPublisher, BeginKey
  <2>5. Asked(None, pc, u, to, None)
    BY <2>1 DEF Asked
  <2>6. Starting(s, None, pc, u, to, None)
    BY <1>0, <2>2, <2>3, <2>4, <2>5 DEF Starting
  <2>7. QED
    BY <2>6
<1>7. ASSUME NEW x \in School, NEW v \in Version, BeginInstall(s, x, v) PROVE Goal
  <2>1. /\ Begun(v, "install", x, None, None) \in Request
        /\ slot' = [slot EXCEPT ![s] = Begun(v, "install", x, None, None)] /\ used' = used
    BY <1>7, Beginning DEF BeginInstall
  <2>2. ver[v].status # "NONE"
    BY <1>7 DEF BeginInstall
  <2>3. Carries(Begun(v, "install", x, None, None))
    BY <2>1, <2>2, Fields DEF Carries
  <2>4. Asked(v, "install", x, None, None)
    BY <1>0, <1>7, <2>1, <2>3 DEF BeginInstall, Asked
  <2>5. Starting(s, v, "install", x, None, None)
    BY <1>0, <1>7, <2>1, <2>3, <2>4 DEF BeginInstall, Starting
  <2>6. QED
    BY <2>5
<1>8. ASSUME NEW x \in School, BeginActivate(s, x) PROVE Goal
  <2>1. inst[x].v \in Version
    BY <1>8 DEF BeginActivate, Shape
  <2>2. /\ Begun(inst[x].v, "activate", x, None, None) \in Request
        /\ slot' = [slot EXCEPT ![s] = Begun(inst[x].v, "activate", x, None, None)] /\ used' = used
    BY <1>8, <2>1, Beginning DEF BeginActivate
  <2>3. ver[inst[x].v].status # "NONE"
    BY <1>8 DEF BeginActivate
  <2>4. Carries(Begun(inst[x].v, "activate", x, None, None))
    BY <2>1, <2>2, <2>3, Fields DEF Carries
  <2>5. Asked(inst[x].v, "activate", x, None, None)
    BY <1>0, <1>8, <2>2, <2>4 DEF BeginActivate, Asked
  <2>6. Starting(s, inst[x].v, "activate", x, None, None)
    BY <1>0, <1>8, <2>2, <2>4, <2>5 DEF BeginActivate, Starting
  <2>7. QED
    BY <2>6
<1>9. QED
  BY <1>1, <1>2, <1>3, <1>4, <1>5, <1>6, <1>7, <1>8 DEF Starts

LEMMA StartsShape == ASSUME Shape, NEW s \in Slot, Starts(s) PROVE Shape'
<1>1. PICK v, pc, u, to, p : Starting(s, v, pc, u, to, p)
  BY StartsAsk
<1>2. /\ used' \in [crashes : 0..Crashes, stalls : 0..Redeliveries]
      /\ job' \in [Version -> [Package -> {"absent", "waiting", "active", "completed", "failed"}]]
  BY <1>1 DEF Starting, Shape, TypeOK
<1>3. QED
  BY <1>1, <1>2, Going DEF Starting

Vals == [Version -> [Package -> {"NONE", "PENDING", "RUNNING", "PASSED", "FAILED"}]]
Jobs == [Version -> [Package -> {"absent", "waiting", "active", "completed", "failed"}]]

(* A request writes the row of its version and goes on, or ends.           *)
LEMMA Overwriting ==
  ASSUME Shape, NEW s \in Slot, NEW r \in VersionRow, NEW pc \in {"idle", "effects", "enqueue"},
         Overwrite(s, r, pc), slot[s].pc \in OnVersion, Present(slot[s].v),
         r.status # "NONE",
         r.status = "DELETED" \/ ver[slot[s].v].sum \notin Package \/ r.sum \in Package,
         r.obj # None => r.sum \in Package,
         NEW n, n = OnTo(slot[s], pc), pc # "idle" => Carries(n)',
         UNCHANGED <<ext, publisher, key, inst, used>>, objs' \subseteq Object, val' \in Vals,
         job' \in Jobs, approvals' \in [Version -> SUBSET User], sender' \in [Version -> User \cup {None}]
  PROVE  Shape'
<1> DEFINE v == slot[s].v
           new == IF pc = "idle" THEN IdleRequest ELSE n
<1>1. TypeOK /\ v \in Version /\ ver \in [Version -> VersionRow] /\ slot[s] \in Request
  BY DEF Shape, Carries, TypeOK
<1>2. /\ ver' = [ver EXCEPT ![v] = r] /\ slot' = [StaleRequests(s, {v}) EXCEPT ![s] = new]
      /\ wk' = StaleRuns(None, {v}) /\ lost' = (lost \/ slot[s].stale)
  BY DEF Overwrite, OnTo
<1>3. new \in Request
  BY <1>1, Idles, OnFields
<1>4. slot' \in [Slot -> Request] /\ \A t \in Slot : slot'[t] = IF t = s THEN new ELSE StaleRequests(s, {v})[t]
  BY <1>1, <1>2, <1>3, Marks
<1>5. TypeOK'
  <2>1. ver' \in [Version -> VersionRow]
    BY <1>1, <1>2
  <2>2. wk' \in [Worker -> ValidatorRun]
    BY <1>1, <1>2, RunMarks
  <2>3. lost' \in BOOLEAN
    BY <1>1, <1>2 DEF TypeOK, Request
  <2>4. QED
    BY <1>1, <1>4, <2>1, <2>2, <2>3 DEF TypeOK, Vals, Jobs
<1>6. Keeps
  BY <1>1, <1>2 DEF Keeps, Present, Status, AllowedTransitions
<1>7. \A t \in Slot : Same(t) \/ Carries(slot[t])'
  <2>1. ASSUME NEW t \in Slot, t # s PROVE Same(t)
    <3>1. slot'[t] = StaleRequests(s, {v})[t]
      BY <1>4, <2>1
    <3>2. \/ StaleRequests(s, {v})[t] = slot[t]
          \/ StaleRequests(s, {v})[t] = [slot[t] EXCEPT !.stale = TRUE]
      BY <1>1, Marks
    <3>3. QED
      BY <3>1, <3>2 DEF Same
  <2>2. CASE pc = "idle"
    BY <1>4, <2>1, <2>2 DEF Same
  <2>3. CASE pc # "idle"
    <3>1. slot'[s] = n
      BY <1>4, <2>3
    <3>2. Carries(slot[s])'
      BY <2>3, <3>1
    <3>3. QED
      BY <2>1, <3>2
  <2>4. QED
    BY <2>2, <2>3
<1>8. \A t \in Slot : Carries(slot[t])'
  BY <1>6, <1>7, RequestsCarry
<1>9. \A w \in Worker : wk'[w].pc # "idle" => wk'[w].v \in Version /\ wk'[w].p \in Package
  <2>1. \A w \in Worker : RunSame(w)
    BY <1>1, <1>2, RunMarks DEF RunSame
  <2>2. QED
    BY <2>1, RunsCarry
<1>10. \A x \in Version : ver'[x].obj # None => ver'[x].sum \in Package
  BY <1>1, <1>2 DEF Shape
<1>11. QED
  BY <1>5, <1>8, <1>9, <1>10 DEF Shape

(* The others keep what they have, or learn that it is stale.              *)
Others(s) == \A t \in Slot : t = s \/ slot'[t] \in {slot[t], [slot[t] EXCEPT !.stale = TRUE]}

LEMMA Marked ==
  ASSUME TypeOK, NEW s \in Slot, NEW V, NEW new \in Request,
         slot' = [slot EXCEPT ![s] = new] \/ slot' = [StaleRequests(s, V) EXCEPT ![s] = new]
  PROVE  slot' \in [Slot -> Request] /\ slot'[s] = new /\ Others(s)
<1>1. CASE slot' = [slot EXCEPT ![s] = new]
  BY <1>1 DEF TypeOK, Others
<1>2. CASE slot' = [StaleRequests(s, V) EXCEPT ![s] = new]
  <2>1. slot' \in [Slot -> Request] /\ \A t \in Slot : slot'[t] = IF t = s THEN new ELSE StaleRequests(s, V)[t]
    BY <1>2, Marks
  <2>2. ASSUME NEW t \in Slot, t # s PROVE slot'[t] \in {slot[t], [slot[t] EXCEPT !.stale = TRUE]}
    <3>1. slot'[t] = StaleRequests(s, V)[t]
      BY <2>1, <2>2
    <3>2. \/ StaleRequests(s, V)[t] = slot[t]
          \/ StaleRequests(s, V)[t] = [slot[t] EXCEPT !.stale = TRUE]
      BY Marks
    <3>3. QED
      BY <3>1, <3>2
  <2>3. QED
    BY <2>1, <2>2 DEF Others
<1>3. QED
  BY <1>1, <1>2

LEMMA KeepsRows ==
  ASSUME ver' = ver, \A x \in School : inst[x].v \in Version => inst'[x].v \in Version
  PROVE  Keeps
BY DEF Keeps, Present

LEMMA ShapeOf ==
  ASSUME TypeOK', \A t \in Slot : Carries(slot[t])',
         \A v \in Version : ver'[v].obj # None => ver'[v].sum \in Package,
         \A w \in Worker : wk'[w].pc # "idle" => wk'[w].v \in Version /\ wk'[w].p \in Package,
         \A x \in School : inst'[x].state \in {"INSTALLED", "ACTIVE"} => inst'[x].v \in Version
  PROVE  Shape'
BY DEF Shape

LEMMA ShapeAnew ==
  ASSUME Shape, TypeOK', \A t \in Slot : Carries(slot[t])', ver' = ver, wk' = wk,
         \A x \in School : inst'[x].state \in {"INSTALLED", "ACTIVE"} => inst'[x].v \in Version
  PROVE  Shape'
BY DEF Shape

(* A step of a request that writes no row of a version: the request ends   *)
(* or goes on, the others may learn that what they read is stale.          *)
LEMMA Governing ==
  ASSUME Shape, NEW s \in Slot, Carries(slot[s])', slot' \in [Slot -> Request], Others(s),
         UNCHANGED <<ver, val, job, wk, sender, used>>,
         ext' \in {"ACTIVE", "SUSPENDED", "RETIRED", "DELETED"},
         publisher' \in {"ACTIVE", "SUSPENDED", "REVOKED"}, key' \in {"ACTIVE", "REVOKED"},
         approvals' \in [Version -> SUBSET User],
         inst' \in [School -> [v : Version \cup {None},
                              state : {"APPROVED", "INSTALLED", "ACTIVE", "UNINSTALLED"}]],
         \A x \in School : /\ inst[x].v \in Version => inst'[x].v \in Version
                           /\ inst'[x].state \in {"INSTALLED", "ACTIVE"} => inst'[x].v \in Version,
         objs' \subseteq Object, lost' \in BOOLEAN
  PROVE  Shape'
<1>1. TypeOK
  BY DEF Shape
<1>2. TypeOK'
  BY <1>1 DEF TypeOK
<1>3. Keeps
  BY KeepsRows
<1>4. \A t \in Slot : t = s \/ Same(t)
  BY DEF Others, Same
<1>5. \A t \in Slot : Carries(slot[t])'
  BY <1>3, <1>4, RequestsCarry
<1>6. QED
  BY <1>2, <1>5, ShapeAnew

LEMMA Writing ==
  ASSUME Shape, Keeps, TypeOK', \A t \in Slot : Same(t) \/ Carries(slot[t])',
         \A w \in Worker : RunSame(w) \/ (wk'[w].v \in Version /\ wk'[w].p \in Package),
         \A v \in Version : ver'[v].obj # None => ver'[v].sum \in Package,
         \A x \in School : inst'[x].state \in {"INSTALLED", "ACTIVE"} => inst'[x].v \in Version
  PROVE  Shape'
<1>1. \A t \in Slot : Carries(slot[t])'
  BY RequestsCarry
<1>2. \A w \in Worker : wk'[w].pc # "idle" => wk'[w].v \in Version /\ wk'[w].p \in Package
  BY RunsCarry
<1>3. QED
  BY <1>1, <1>2, ShapeOf

(* Runs that are marked, or left alone.                                    *)
LEMMA RunsMarked ==
  ASSUME TypeOK, NEW x, NEW V, wk' = wk \/ wk' = StaleRuns(x, V)
  PROVE  wk' \in [Worker -> ValidatorRun] /\ \A w \in Worker : RunSame(w)
<1>1. CASE wk' = wk
  BY <1>1 DEF TypeOK, RunSame
<1>2. CASE wk' = StaleRuns(x, V)
  <2>1. wk' \in [Worker -> ValidatorRun]
    BY <1>2, RunMarks
  <2>2. ASSUME NEW w \in Worker PROVE RunSame(w)
    <3>1. \/ StaleRuns(x, V)[w] = wk[w]
          \/ StaleRuns(x, V)[w] = [wk[w] EXCEPT !.stale = TRUE]
      BY RunMarks
    <3>2. wk'[w] = StaleRuns(x, V)[w]
      BY <1>2
    <3>3. QED
      BY <3>1, <3>2 DEF RunSame
  <2>3. QED
    BY <2>1, <2>2
<1>3. QED
  BY <1>1, <1>2

(* Goto: the request goes on, and nothing else of it changes.              *)
GoneTo(q, pc) == [q EXCEPT !.pc = pc]

LEMMA GotoFields ==
  ASSUME NEW q \in Request,
         NEW pc \in {"write", "dropRow", "purgeRows", "suspend", "block", "disable"}
  PROVE  LET n == GoneTo(q, pc)
         IN  /\ n \in Request /\ n.pc = pc /\ n.v = q.v /\ n.u = q.u /\ n.to = q.to /\ n.p = q.p
             /\ n.drops = q.drops /\ n.stale = q.stale
BY DEF Request, GoneTo

LEMMA Going2 ==
  ASSUME TypeOK, NEW s \in Slot, NEW pc, Goto(s, pc)
  PROVE  slot' = [slot EXCEPT ![s] = GoneTo(slot[s], pc)]
BY DEF Goto, GoneTo, TypeOK

(* What disables installations, and what leaves them as they are, keeps    *)
(* the versions they refer to.                                             *)
Inst == [School -> [v : Version \cup {None},
                    state : {"APPROVED", "INSTALLED", "ACTIVE", "UNINSTALLED"}]]

LEMMA Disabling ==
  ASSUME Shape, NEW V, inst' = inst \/ inst' = Disabled(V)
  PROVE  /\ inst' \in Inst
         /\ \A x \in School : /\ inst'[x].v = inst[x].v
                              /\ inst'[x].state \in {"INSTALLED", "ACTIVE"} => inst'[x].v \in Version
<1>1. inst \in Inst
  BY DEF Shape, TypeOK, Inst
<1>2. ASSUME NEW y \in [v : Version \cup {None}, state : {"APPROVED", "INSTALLED", "ACTIVE", "UNINSTALLED"}]
      PROVE  LET z == [y EXCEPT !.state = "INSTALLED"]
             IN  /\ z \in [v : Version \cup {None}, state : {"APPROVED", "INSTALLED", "ACTIVE", "UNINSTALLED"}]
                 /\ z.v = y.v
  OBVIOUS
<1>3. CASE inst' = inst
  BY <1>1, <1>3 DEF Shape
<1>4. CASE inst' = Disabled(V)
  <2>1. inst' \in Inst
    BY <1>1, <1>2, <1>4 DEF Disabled, Inst
  <2>2. \A x \in School : /\ inst'[x].v = inst[x].v
                          /\ inst'[x].state = inst[x].state \/ inst[x].state = "ACTIVE"
    BY <1>1, <1>2, <1>4 DEF Disabled, Inst
  <2>3. QED
    BY <2>1, <2>2 DEF Shape
<1>5. QED
  BY <1>3, <1>4

LEMMA ContinuesShape == ASSUME Shape, NEW s \in Slot, Continues(s) PROVE Shape'
<1> DEFINE q == slot[s]
           v == slot[s].v
<1>0. /\ TypeOK /\ slot[s] \in Request /\ Carries(slot[s]) /\ IdleRequest \in Request
      /\ objs \subseteq Object /\ job \in Jobs /\ val \in Vals
  BY Idles DEF Shape, TypeOK, Jobs, Vals
<1>i. Carries(IdleRequest) /\ Carries(IdleRequest)'
  BY DEF Carries, IdleRequest, OnVersion
<1>1. CASE UpdateDraft(s)
  <2>1. v \in Version /\ Present(v) /\ q.pc = "draft" /\ ver[v] \in VersionRow
    BY <1>0, <1>1 DEF UpdateDraft, At, Carries, OnVersion, TypeOK
  <2>2. PICK r : r = DraftOf(ver[v])
    OBVIOUS
  <2>3. r \in VersionRow /\ r.status = ver[v].status /\ r.obj = ver[v].obj /\ r.sum = ver[v].sum
    BY <2>1, <2>2, DraftRow
  <2>4. Overwrite(s, r, "idle") /\ UNCHANGED <<ext, publisher, key, val, approvals, inst, objs, job, sender, used>>
    BY <1>1, <2>2 DEF UpdateDraft, DraftOf
  <2>5. r.status # "NONE" /\ (r.obj # None => r.sum \in Package)
    BY <1>0, <2>1, <2>3 DEF Carries, Shape, OnVersion
  <2>6. QED
    BY <1>0, <2>1, <2>3, <2>4, <2>5, Overwriting DEF TypeOK, OnVersion, Vals, Jobs
<1>2. CASE Quarantine(s)
  <2>1. /\ v \in Version /\ Present(v) /\ q.pc = "stored" /\ q.p \in Package /\ q.u \in User
        /\ ver[v] \in VersionRow
    BY <1>0, <1>2 DEF Quarantine, At, Carries, OnVersion, TypeOK
  <2>2. PICK r : r = QuarantinedOf(ver[v], q.p)
    OBVIOUS
  <2>3. r \in VersionRow /\ r.status = "QUARANTINED" /\ r.sum = q.p
    BY <2>1, <2>2, QuarantinedRow
  <2>4. /\ Overwrite(s, r, "enqueue") /\ UNCHANGED <<ext, publisher, key, approvals, inst, objs, job, used>>
        /\ val' = Pending(v, q.p) /\ sender' = [sender EXCEPT ![v] = q.u]
    BY <1>2, <2>2 DEF Quarantine, QuarantinedOf
  <2>5. val' \in Vals /\ sender' \in [Version -> User \cup {None}]
    BY <1>0, <2>1, <2>4 DEF Vals, Pending, TypeOK
  <2>6. ver'[v].status # "NONE"
    BY <1>0, <2>1, <2>3, <2>4 DEF Overwrite, TypeOK
  <2>7. PICK n : n = OnTo(q, "enqueue")
    OBVIOUS
  <2>8. Carries(n)'
    BY <1>0, <2>1, <2>6, <2>7, OnFields DEF Carries, OnVersion
  <2>9. QED
    BY <1>0, <2>1, <2>3, <2>4, <2>5, <2>7, <2>8, Overwriting DEF TypeOK, OnVersion
<1>3. CASE EnqueueUpload(s)
  <2>1. v \in Version /\ q.p \in Package
    BY <1>0, <1>3 DEF EnqueueUpload, At, Carries, OnVersion
  <2>2. job' \in Jobs
    BY <1>0, <1>3, <2>1 DEF EnqueueUpload, Enqueued, Jobs
  <2>3. QED
    BY <1>0, <1>3, <1>i, <2>2, Going DEF EnqueueUpload, Finish, TypeOK, Jobs
<1>4. CASE Publish(s) \/ DropObjects(s) \/ PurgeObjects(s)
  <2>1. UNCHANGED <<rows, job, wk, sender, lost, used>>
    BY <1>4 DEF Publish, DropObjects, PurgeObjects
  <2>2. used' \in [crashes : 0..Crashes, stalls : 0..Redeliveries] /\ job' \in Jobs
    BY <1>0, <2>1 DEF TypeOK
  <2>3. CASE Publish(s) /\ slot' = [slot EXCEPT ![s] = IdleRequest]
    <3>1. objs' \subseteq Object
      <4>1. CASE objs' = objs
        BY <1>0, <4>1
      <4>2. CASE objs' # objs
        <5>1. objs' = objs \cup {<<"published", v, q.p>>} /\ <<"quarantine", v, q.p>> \in objs
          BY <2>3, <4>2 DEF Publish
        <5>2. <<"published", v, q.p>> \in Object
          BY <1>0, <5>1 DEF Object
        <5>3. QED
          BY <1>0, <5>1, <5>2
      <4>3. QED
        BY <4>1, <4>2
    <3>2. QED
      BY <1>0, <1>i, <2>1, <2>2, <2>3, <3>1, Going DEF Jobs
  <2>4. CASE Publish(s) /\ ~ slot' = [slot EXCEPT ![s] = IdleRequest]
    <3>1. /\ q.pc = "publish" /\ Ready(v) /\ Goto(s, "write")
          /\ objs' = objs \cup {<<"published", v, q.p>>} /\ <<"quarantine", v, q.p>> \in objs
      BY <2>4 DEF Publish, Finish, At
    <3>2. v \in Version /\ ver[v].sum \in Package
      BY <1>0, <3>1, PipelineAssumption DEF Carries, OnVersion, Ready, Shape
    <3>3. PICK n : n = GoneTo(q, "write")
      OBVIOUS
    <3>4. n \in Request /\ Carries(n)
      BY <1>0, <3>1, <3>2, <3>3, GotoFields DEF Carries, OnVersion
    <3>5. objs' \subseteq Object
      BY <1>0, <3>1 DEF Object
    <3>6. slot' = [slot EXCEPT ![s] = n]
      BY <1>0, <3>1, <3>3, Going2
    <3>7. QED
      BY <2>1, <2>2, <3>4, <3>5, <3>6, Going DEF Jobs
  <2>5. ASSUME NEW pc \in {"dropRow", "purgeRows"}, Goto(s, pc), objs' = objs \ q.drops,
               pc = "dropRow" => q.pc = "dropObjects"
        PROVE Shape'
    <3>1. PICK n : n = GoneTo(q, pc)
      OBVIOUS
    <3>2. n \in Request /\ Carries(n)
      BY <1>0, <2>5, <3>1, GotoFields DEF Carries, OnVersion
    <3>3. objs' \subseteq Object
      BY <1>0, <2>5
    <3>4. slot' = [slot EXCEPT ![s] = n]
      BY <1>0, <2>5, <3>1, Going2
    <3>5. QED
      BY <2>1, <2>2, <3>2, <3>3, <3>4, Going DEF Jobs
  <2>6. QED
    BY <1>4, <2>3, <2>4, <2>5 DEF DropObjects, PurgeObjects, At
<1>5. CASE Transition(s)
  <2>1. /\ v \in Version /\ Present(v) /\ q.pc = "write" /\ q.to \in Status /\ q.u \in User
        /\ ver[v] \in VersionRow
    BY <1>0, <1>5 DEF Transition, At, Carries, OnVersion, TypeOK
  <2>2. PICK n, o, b :
          /\ n = IF q.to \in {"APPROVED", "REJECTED"} THEN q.u ELSE ver[v].reviewer
          /\ o = IF q.to = "PUBLISHED" THEN "published" ELSE ver[v].obj
          /\ b = (ver[v].signed \/ q.to = "PUBLISHED")
    OBVIOUS
  <2>3. n \in User \cup {None} /\ o \in {"quarantine", "published", None} /\ b \in BOOLEAN
    BY <2>1, <2>2 DEF VersionRow
  <2>4. PICK r : r = DecidedOf(ver[v], q.to, n, o, b)
    OBVIOUS
  <2>5. r \in VersionRow /\ r.status = q.to /\ r.obj = o /\ r.sum = ver[v].sum
    <3>1. ver[v] \in VersionRow /\ q.to \in Status
      BY <2>1
    <3>2. /\ DecidedOf(ver[v], q.to, n, o, b) \in VersionRow
          /\ DecidedOf(ver[v], q.to, n, o, b).status = q.to
          /\ DecidedOf(ver[v], q.to, n, o, b).obj = o
          /\ DecidedOf(ver[v], q.to, n, o, b).sum = ver[v].sum
      BY <2>3, <3>1, DecidedRow
    <3>3. QED
      BY <2>4, <3>2
  <2>6. PICK pc \in {"effects", "idle"} :
          pc = IF q.to \in {"PUBLISHED", "BLOCKED", "RETIRED", "APPROVED"} THEN "effects" ELSE "idle"
    OBVIOUS
  <2>7. /\ Overwrite(s, r, pc)
        /\ UNCHANGED <<ext, publisher, key, val, approvals, inst, objs, job, sender, used>>
    BY <1>5, <2>2, <2>4, <2>6 DEF Transition, DecidedOf
  <2>8. ver'[v].status # "NONE" /\ r.status # "NONE"
    BY <1>0, <2>1, <2>5, <2>7, Statuses DEF Overwrite, TypeOK
  <2>9. r.obj # None => r.sum \in Package
    BY <1>0, <2>1, <2>2, <2>5 DEF Carries, Shape
  <2>10. PICK m : m = OnTo(q, pc)
    OBVIOUS
  <2>11. pc # "idle" => Carries(m)'
    BY <1>0, <2>1, <2>6, <2>8, <2>10, OnFields DEF Carries, OnVersion
  <2>12. QED
    BY <1>0, <2>1, <2>5, <2>6, <2>7, <2>8, <2>9, <2>10, <2>11, Overwriting
       DEF TypeOK, OnVersion, Vals, Jobs
<1>6. CASE Appeal(s)
  <2>1. v \in Version /\ q.pc = "appeal" /\ ver[v] \in VersionRow
    BY <1>0, <1>6 DEF Appeal, At, Carries, OnVersion, TypeOK
  <2>2. CASE ver' = ver /\ wk' = wk /\ slot' = [slot EXCEPT ![s] = IdleRequest]
    <3>1. UNCHANGED <<rows, wk, sender, lost, objs, job, used>>
      BY <1>6, <2>2 DEF Appeal, rows
    <3>2. QED
      BY <1>0, <1>i, <2>2, <3>1, Going DEF TypeOK, Jobs
  <2>3. CASE ~ (ver' = ver /\ wk' = wk /\ slot' = [slot EXCEPT ![s] = IdleRequest])
    <3>1. /\ ver[v].status = "REJECTED"
          /\ slot' = [StaleRequests(s, {v}) EXCEPT ![s] = IdleRequest]
          /\ wk' = StaleRuns(None, {v})
          /\ ver' = [ver EXCEPT ![v].status = "AWAITING_REVIEW", ![v].reviewer = None]
          /\ UNCHANGED <<ext, publisher, key, val, approvals, inst, objs, job, sender, lost, used>>
      BY <1>6, <2>3 DEF Appeal, Finish
    <3>2. ver' = [ver EXCEPT ![v] = AppealOf(ver[v])]
      BY <1>0, <2>1, <3>1 DEF AppealOf, TypeOK
    <3>3. PICK r \in VersionRow : /\ ver' = [ver EXCEPT ![v] = r] /\ r.status = "AWAITING_REVIEW"
                                  /\ r.obj = ver[v].obj /\ r.sum = ver[v].sum
      BY <2>1, <3>2, AppealRow
    <3>4. ver' \in [Version -> VersionRow] /\ \A x \in Version : ver'[x] = IF x = v THEN r ELSE ver[x]
      BY <1>0, <3>3 DEF TypeOK
    <3>5. slot' \in [Slot -> Request] /\ slot'[s] = IdleRequest /\ Others(s)
      BY <1>0, <3>1, Marked
    <3>6. wk' \in [Worker -> ValidatorRun] /\ \A w \in Worker : RunSame(w)
      BY <1>0, <3>1, RunsMarked
    <3>7. TypeOK'
      BY <1>0, <3>1, <3>4, <3>5, <3>6 DEF TypeOK
    <3>8. Keeps
      BY <2>1, <3>1, <3>3, <3>4, Statuses DEF Keeps, Present
    <3>9. \A t \in Slot : Same(t)
      BY <3>5 DEF Others, Same
    <3>10. \A x \in Version : ver'[x].obj # None => ver'[x].sum \in Package
      BY <3>3, <3>4 DEF Shape
    <3>11. \A x \in School : inst'[x].state \in {"INSTALLED", "ACTIVE"} => inst'[x].v \in Version
      BY <3>1 DEF Shape
    <3>12. QED
      BY <3>6, <3>7, <3>8, <3>9, <3>10, <3>11, Writing
  <2>4. QED
    BY <2>2, <2>3
<1>7. CASE DropRow(s)
  <2>1. v \in Version /\ Present(v) /\ q.pc = "dropRow"
    BY <1>0, <1>7 DEF DropRow, At, Carries, OnVersion, TypeOK
  <2>2. PICK r : r = GoneRow
    OBVIOUS
  <2>3. r \in VersionRow /\ r.status = "DELETED" /\ r.obj = None
    BY <2>2, FreshRows
  <2>4. /\ Overwrite(s, r, "idle") /\ UNCHANGED <<ext, publisher, key, inst, objs, job, sender, used>>
        /\ val' = [val EXCEPT ![v] = [p \in Package |-> "NONE"]]
        /\ approvals' = [approvals EXCEPT ![v] = {}]
    BY <1>7, <2>2 DEF DropRow, GoneRow
  <2>5. val' \in Vals /\ approvals' \in [Version -> SUBSET User]
    BY <1>0, <2>1, <2>4 DEF Vals, TypeOK
  <2>6. QED
    BY <1>0, <2>1, <2>3, <2>4, <2>5, Overwriting DEF TypeOK, OnVersion, Jobs
<1>8. CASE PurgeRows(s)
  <2>1. /\ ext' = "DELETED" /\ ver' = Gone(Version)
        /\ val' = [x \in Version |-> [p \in Package |-> "NONE"]]
        /\ approvals' = [x \in Version |-> {}]
        /\ inst' = [x \in School |-> [v |-> None, state |-> "UNINSTALLED"]]
        /\ slot' = [StaleRequests(s, Version) EXCEPT ![s] = IdleRequest]
        /\ wk' = StaleRuns(None, Version) /\ lost' = (lost \/ slot[s].stale)
        /\ UNCHANGED <<publisher, key, objs, job, sender, used>>
    BY <1>8 DEF PurgeRows
  <2>2. \A x \in Version : ver'[x] = IF Present(x) THEN GoneRow ELSE ver[x]
    BY <2>1 DEF Gone, GoneRow
  <2>3. ver' \in [Version -> VersionRow]
    <3>1. \A x \in Version : ver[x] \in VersionRow
      BY <1>0 DEF TypeOK
    <3>2. ver' = [x \in Version |-> IF Present(x) THEN GoneRow ELSE ver[x]]
      BY <2>1 DEF Gone, GoneRow
    <3>3. QED
      BY <3>1, <3>2, FreshRows
  <2>4. slot' \in [Slot -> Request] /\ slot'[s] = IdleRequest /\ Others(s)
    BY <1>0, <2>1, Marked
  <2>5. wk' \in [Worker -> ValidatorRun] /\ \A w \in Worker : RunSame(w)
    BY <1>0, <2>1, RunsMarked
  <2>6. TypeOK'
    <3>1. lost' \in BOOLEAN
      BY <1>0, <2>1 DEF TypeOK, Request
    <3>2. /\ val' \in Vals /\ approvals' \in [Version -> SUBSET User]
          /\ inst' \in [School -> [v : Version \cup {None},
                                 state : {"APPROVED", "INSTALLED", "ACTIVE", "UNINSTALLED"}]]
      BY <2>1 DEF Vals
    <3>3. QED
      BY <1>0, <2>1, <2>3, <2>4, <2>5, <3>1, <3>2 DEF TypeOK, Vals
  <2>7. \A x \in Version : ~ Present(x)' /\ (ver[x].status # "NONE" => ver'[x].status # "NONE")
    BY <2>2, FreshRows, Statuses DEF Present
  <2>8. Keeps
    BY <2>7 DEF Keeps
  <2>9. \A t \in Slot : Same(t)
    BY <2>4 DEF Others, Same
  <2>10. \A x \in Version : ver'[x].obj # None => ver'[x].sum \in Package
    BY <2>2, FreshRows DEF Shape
  <2>11. \A x \in School : inst'[x].state \in {"INSTALLED", "ACTIVE"} => inst'[x].v \in Version
    BY <2>1
  <2>12. QED
    BY <2>5, <2>6, <2>8, <2>9, <2>10, <2>11, Writing
<1>9. CASE Effects(s)
  <2>1. /\ v \in Version /\ q.pc = "effects" /\ q.u \in User /\ Present(v)
        /\ q.to \in {"PUBLISHED", "BLOCKED", "RETIRED", "APPROVED"}
    BY <1>0, <1>9 DEF Effects, Refused, At, Carries, OnVersion
  <2>2. /\ slot' = [slot EXCEPT ![s] = IdleRequest]
        /\ UNCHANGED <<ver, publisher, key, val, job, wk, sender, used>>
        /\ lost' = (lost \/ (q.to = "PUBLISHED" /\ publisher # "ACTIVE"))
    BY <1>9 DEF Effects, Finish
  <2>3. ext' \in {"ACTIVE", "SUSPENDED", "RETIRED", "DELETED"} /\ objs' \subseteq Object
        /\ approvals' \in [Version -> SUBSET User] /\ (inst' = inst \/ inst' = Disabled({v}))
    <3>1. CASE q.to = "PUBLISHED"
      BY <1>0, <1>9, <3>1 DEF Effects, TypeOK
    <3>2. CASE q.to = "BLOCKED"
      BY <1>0, <1>9, <3>2 DEF Effects, TypeOK
    <3>3. CASE q.to = "RETIRED"
      BY <1>0, <1>9, <3>3 DEF Effects, TypeOK
    <3>4. CASE q.to = "APPROVED"
      BY <1>0, <1>9, <2>1, <3>4 DEF Effects, TypeOK
    <3>5. QED
      BY <2>1, <3>1, <3>2, <3>3, <3>4
  <2>4. slot' \in [Slot -> Request] /\ slot'[s] = IdleRequest /\ Others(s)
    BY <1>0, <2>2, Marked
  <2>5. /\ inst' \in Inst /\ \A x \in School : /\ inst'[x].v = inst[x].v
                                               /\ inst'[x].state \in {"INSTALLED", "ACTIVE"} => inst'[x].v \in Version
    BY <2>3, Disabling
  <2>6. Carries(slot[s])'
    BY <1>i, <2>4
  <2>7. lost' \in BOOLEAN
    BY <1>0, <2>2 DEF TypeOK
  <2>8. publisher' \in {"ACTIVE", "SUSPENDED", "REVOKED"} /\ key' \in {"ACTIVE", "REVOKED"}
    BY <1>0, <2>2 DEF TypeOK
  <2>9. QED
    BY <2>2, <2>3, <2>4, <2>5, <2>6, <2>7, <2>8, Governing DEF Inst
<1>10. ASSUME SetPublisherStatus(s) \/ SuspendExtensions(s) \/ SetSigningKeyStatus(s) \/ DisableSigned(s)
       PROVE  Shape'
  <2>1. /\ UNCHANGED <<ver, val, approvals, objs, job, wk, sender, used>>
        /\ \E V : inst' = inst \/ inst' = Disabled(V)
    BY <1>10 DEF SetPublisherStatus, SuspendExtensions, SetSigningKeyStatus, DisableSigned
  <2>2. /\ inst' \in Inst /\ \A x \in School : /\ inst'[x].v = inst[x].v
                                               /\ inst'[x].state \in {"INSTALLED", "ACTIVE"} => inst'[x].v \in Version
    BY <2>1, Disabling
  <2>3. /\ ext' \in {"ACTIVE", "SUSPENDED", "RETIRED", "DELETED"} /\ lost' \in BOOLEAN
        /\ publisher' \in {"ACTIVE", "SUSPENDED", "REVOKED"} /\ key' \in {"ACTIVE", "REVOKED"}
    <3>1. /\ q.pc \in {"publisher", "suspend"} => q.to \in {"ACTIVE", "SUSPENDED", "REVOKED"}
          /\ q.pc = "key" => q.to \in {"ACTIVE", "REVOKED"}
          /\ ext \in {"ACTIVE", "SUSPENDED", "RETIRED", "DELETED"} /\ lost \in BOOLEAN
          /\ publisher \in {"ACTIVE", "SUSPENDED", "REVOKED"} /\ key \in {"ACTIVE", "REVOKED"}
      BY <1>0 DEF Carries, TypeOK
    <3>2. QED
      BY <1>10, <3>1 DEF SetPublisherStatus, SuspendExtensions, SetSigningKeyStatus, DisableSigned, At
  <2>4. \E V, n : /\ n \in Request /\ Carries(n)
                  /\ slot' = [slot EXCEPT ![s] = n] \/ slot' = [StaleRequests(s, V) EXCEPT ![s] = n]
    <3>1. CASE SetPublisherStatus(s)
      <4>1. PICK n : n = GoneTo(q, "suspend")
        OBVIOUS
      <4>2. n \in Request /\ Carries(n)
        BY <1>0, <3>1, <4>1, GotoFields DEF Carries, OnVersion, SetPublisherStatus, At
      <4>3. slot' = [StaleRequests(s, Version) EXCEPT ![s] = n]
        <5>1. StaleRequests(s, Version)[s] = slot[s]
          BY DEF StaleRequests
        <5>2. slot' = [StaleRequests(s, Version) EXCEPT ![s].pc = "suspend"]
          BY <3>1 DEF SetPublisherStatus
        <5>3. QED
          BY <1>0, <4>1, <5>1, <5>2 DEF GoneTo
      <4>4. QED
        BY <4>2, <4>3
    <3>2. CASE SetSigningKeyStatus(s) /\ q.to = "REVOKED"
      <4>1. PICK n : n = GoneTo(q, "block")
        OBVIOUS
      <4>2. n \in Request /\ Carries(n)
        BY <1>0, <4>1, GotoFields DEF Carries, OnVersion
      <4>3. slot' = [StaleRequests(s, Version) EXCEPT ![s] = n]
        <5>1. StaleRequests(s, Version)[s] = slot[s]
          BY DEF StaleRequests
        <5>2. slot' = [StaleRequests(s, Version) EXCEPT ![s].pc = "block"]
          BY <3>2 DEF SetSigningKeyStatus
        <5>3. QED
          BY <1>0, <4>1, <5>1, <5>2 DEF GoneTo
      <4>4. QED
        BY <4>2, <4>3
    <3>3. CASE SetSigningKeyStatus(s) /\ q.to # "REVOKED"
      BY <1>0, <1>i, <3>3 DEF SetSigningKeyStatus
    <3>4. CASE SuspendExtensions(s) \/ DisableSigned(s)
      BY <1>0, <1>i, <3>4 DEF SuspendExtensions, DisableSigned, Finish
    <3>5. QED
      BY <1>10, <3>1, <3>2, <3>3, <3>4
  <2>5. PICK V, n : /\ n \in Request /\ Carries(n)
                    /\ slot' = [slot EXCEPT ![s] = n] \/ slot' = [StaleRequests(s, V) EXCEPT ![s] = n]
    BY <2>4
  <2>6. slot' \in [Slot -> Request] /\ slot'[s] = n /\ Others(s)
    BY <1>0, <2>5, Marked
  <2>7. Carries(slot[s])'
    <3>1. Carries(n)'
      BY <2>1, <2>2, <2>5 DEF Carries, Present
    <3>2. QED
      BY <2>6, <3>1
  <2>8. approvals' \in [Version -> SUBSET User] /\ objs' \subseteq Object
    BY <1>0, <2>1 DEF TypeOK
  <2>9. QED
    BY <2>1, <2>2, <2>3, <2>6, <2>7, <2>8, Governing DEF Inst
<1>11. CASE BlockSigned(s)
  <2>1. PICK V : /\ V = {x \in Signed : ver[x].status \in {"PUBLISHED", "DEPRECATED"}}
                 /\ ver' = [x \in Version |-> IF x \in V THEN [ver[x] EXCEPT !.status = "BLOCKED"] ELSE ver[x]]
                 /\ slot' = [StaleRequests(s, V) EXCEPT ![s].pc = "disable"]
                 /\ wk' = StaleRuns(None, V) /\ q.pc = "block"
    BY <1>11 DEF BlockSigned, At
  <2>2. UNCHANGED <<ext, publisher, key, val, approvals, inst, objs, job, sender, lost, used>>
    BY <1>11 DEF BlockSigned
  <2>3. \A x \in Version : ver'[x] = IF x \in V THEN StatusOf(ver[x], "BLOCKED") ELSE ver[x]
    BY <2>1 DEF StatusOf
  <2>4. ver' \in [Version -> VersionRow]
    <3>1. ver' = [x \in Version |-> IF x \in V THEN StatusOf(ver[x], "BLOCKED") ELSE ver[x]]
      BY <2>1 DEF StatusOf
    <3>2. \A x \in Version : ver[x] \in VersionRow /\ StatusOf(ver[x], "BLOCKED") \in VersionRow
      BY <1>0, StatusRow, Statuses DEF TypeOK
    <3>3. QED
      BY <3>1, <3>2
  <2>5. \A x \in Version : /\ ver'[x].obj = ver[x].obj /\ ver'[x].sum = ver[x].sum
                           /\ ver'[x].status = IF x \in V THEN "BLOCKED" ELSE ver[x].status
    <3>1. \A x \in Version : ver[x] \in VersionRow
      BY <1>0 DEF TypeOK
    <3>2. QED
      BY <2>3, <3>1, StatusRow, Statuses
  <2>6. PICK n : n = GoneTo(q, "disable")
    OBVIOUS
  <2>7. slot' = [StaleRequests(s, V) EXCEPT ![s] = n]
    <3>1. StaleRequests(s, V)[s] = slot[s]
      BY DEF StaleRequests
    <3>2. QED
      BY <1>0, <2>1, <2>6, <3>1 DEF GoneTo
  <2>8. n \in Request /\ n.pc = "disable"
    BY <1>0, <2>6, GotoFields
  <2>9. slot' \in [Slot -> Request] /\ slot'[s] = n /\ Others(s)
    BY <1>0, <2>7, <2>8, Marked
  <2>10. wk' \in [Worker -> ValidatorRun] /\ \A w \in Worker : RunSame(w)
    BY <1>0, <2>1, RunsMarked
  <2>11. TypeOK'
    BY <1>0, <2>2, <2>4, <2>9, <2>10 DEF TypeOK
  <2>12. Keeps
    BY <2>1, <2>2, <2>5, Statuses DEF Keeps, Present
  <2>13. \A t \in Slot : Same(t) \/ Carries(slot[t])'
    <3>1. Carries(slot[s])'
      BY <2>8, <2>9 DEF Carries, OnVersion
    <3>2. QED
      BY <2>9, <3>1 DEF Others, Same
  <2>14. \A x \in Version : ver'[x].obj # None => ver'[x].sum \in Package
    BY <2>5 DEF Shape
  <2>15. \A x \in School : inst'[x].state \in {"INSTALLED", "ACTIVE"} => inst'[x].v \in Version
    BY <2>2 DEF Shape
  <2>16. QED
    BY <2>10, <2>11, <2>12, <2>13, <2>14, <2>15, Writing
<1>12. CASE Install(s) \/ Activate(s)
  <2>1. /\ slot' = [slot EXCEPT ![s] = IdleRequest] /\ q.u \in School /\ v \in Version
        /\ UNCHANGED <<ver, ext, publisher, key, val, approvals, objs, job, wk, sender, lost, used>>
    BY <1>0, <1>12 DEF Install, Activate, Finish, At, Carries, OnVersion
  <2>2. slot' \in [Slot -> Request] /\ slot'[s] = IdleRequest /\ Others(s)
    BY <1>0, <2>1, Marked
  <2>3. inst \in Inst
    BY <1>0 DEF TypeOK, Inst
  <2>4. /\ inst' \in Inst
        /\ \A x \in School : /\ inst[x].v \in Version => inst'[x].v \in Version
                             /\ inst'[x].state \in {"INSTALLED", "ACTIVE"} => inst'[x].v \in Version
    <3>1. CASE inst' = inst
      BY <2>3, <3>1 DEF Shape
    <3>2. CASE inst' # inst
      <4>1. PICK r : /\ inst' = [inst EXCEPT ![q.u] = r]
                     /\ r = [v |-> v, state |-> "INSTALLED"] \/ (r = [inst[q.u] EXCEPT !.state = "ACTIVE"] /\ q.pc = "activate" /\ Present(v))
        BY <1>12, <2>1, <3>2 DEF Install, Activate, At
      <4>2. r \in [v : Version \cup {None}, state : {"APPROVED", "INSTALLED", "ACTIVE", "UNINSTALLED"}]
            /\ r.v \in Version
        <5>1. q.pc = "activate" /\ Present(v) => inst[q.u].v \in Version
          BY <1>0 DEF Carries
        <5>2. inst[q.u] \in [v : Version \cup {None}, state : {"APPROVED", "INSTALLED", "ACTIVE", "UNINSTALLED"}]
          BY <2>1, <2>3 DEF Inst
        <5>3. QED
          BY <2>1, <4>1, <5>1, <5>2
      <4>3. inst' \in Inst /\ \A x \in School : inst'[x] = IF x = q.u THEN r ELSE inst[x]
        BY <2>1, <2>3, <4>1, <4>2 DEF Inst
      <4>4. QED
        BY <4>2, <4>3 DEF Shape
    <3>3. QED
      BY <3>1, <3>2
  <2>5. Carries(slot[s])'
    BY <1>i, <2>2
  <2>6. /\ ext' \in {"ACTIVE", "SUSPENDED", "RETIRED", "DELETED"} /\ lost' \in BOOLEAN
        /\ publisher' \in {"ACTIVE", "SUSPENDED", "REVOKED"} /\ key' \in {"ACTIVE", "REVOKED"}
        /\ approvals' \in [Version -> SUBSET User] /\ objs' \subseteq Object
    BY <1>0, <2>1 DEF TypeOK
  <2>7. QED
    BY <2>1, <2>2, <2>4, <2>5, <2>6, Governing DEF Inst
<1>13. CASE Fail(s)
  BY <1>0, <1>13, <1>i, Going DEF Fail, Finish, TypeOK, Jobs
<1>14. QED
  BY <1>1, <1>2, <1>3, <1>4, <1>5, <1>6, <1>7, <1>8, <1>9, <1>10, <1>11, <1>12, <1>13 DEF Continues

(* A worker runs a step of a validation.                                   *)
LEMMA SettleJob ==
  ASSUME Shape, NEW w \in Worker, wk[w].pc # "idle", NEW result \in {"completed", "failed"}, Settle(w, result)
  PROVE  job' \in Jobs
BY DEF Shape, TypeOK, Settle, Jobs

LEMMA ValidatesShape == ASSUME Shape, NEW w \in Worker, Validates(w) PROVE Shape'
<1> DEFINE v == wk[w].v
           p == wk[w].p
<1>0. /\ TypeOK /\ wk[w] \in ValidatorRun /\ job \in Jobs /\ val \in Vals
      /\ wk[w].pc # "idle" => v \in Version /\ p \in Package
  BY DEF Shape, TypeOK, Jobs, Vals
<1>k. ver' = ver /\ inst' = inst => Keeps
  BY KeepsRows
<1>1. ASSUME NEW y \in Version, NEW z \in Package, Fetch(w, y, z) PROVE Shape'
  <2>1. PICK r : r = [IdleRun EXCEPT !.pc = "read", !.v = y, !.p = z]
    OBVIOUS
  <2>2. r \in ValidatorRun /\ r.v = y /\ r.p = z
    BY <2>1 DEF IdleRun, ValidatorRun
  <2>3. /\ job' = [job EXCEPT ![y][z] = "active"] /\ wk' = [wk EXCEPT ![w] = r]
        /\ UNCHANGED <<rows, objs, slot, sender, lost, used>>
    BY <1>1, <2>1 DEF Fetch
  <2>4. job' \in Jobs
    BY <1>0, <2>3 DEF Jobs
  <2>5. wk' \in [Worker -> ValidatorRun] /\ \A x \in Worker : wk'[x] = IF x = w THEN r ELSE wk[x]
    BY <1>0, <2>2, <2>3 DEF TypeOK
  <2>6. TypeOK'
    BY <1>0, <2>3, <2>4, <2>5 DEF TypeOK, rows, Jobs
  <2>7. \A x \in Worker : RunSame(x) \/ (wk'[x].v \in Version /\ wk'[x].p \in Package)
    BY <2>2, <2>5 DEF RunSame
  <2>8. QED
    BY <1>k, <2>3, <2>6, <2>7, Writing DEF rows, Same, Shape
<1>2. CASE Scan(w)
  <2>1. wk[w].pc = "scan" /\ UNCHANGED <<rows, objs, slot, sender, lost, used>>
    BY <1>2 DEF Scan
  <2>2. job' \in Jobs
    BY <1>0, <1>2, <2>1, SettleJob DEF Scan
  <2>3. PICK r \in ValidatorRun : wk' = [wk EXCEPT ![w] = r] /\ r.v \in {v, None} /\ (r.pc = "idle" \/ (r.v = v /\ r.p = p))
    <3>1. CASE wk' = [wk EXCEPT ![w].pc = "finish"]
      <4>1. PICK r : r = [wk[w] EXCEPT !.pc = "finish"]
        OBVIOUS
      <4>2. r \in ValidatorRun /\ r.v = v /\ r.p = p
        BY <1>0, <4>1 DEF ValidatorRun
      <4>3. wk' = [wk EXCEPT ![w] = r]
        BY <1>0, <3>1, <4>1 DEF TypeOK
      <4>4. QED
        BY <4>2, <4>3
    <3>2. CASE wk' = [wk EXCEPT ![w] = IdleRun]
      BY <3>2, Idles DEF IdleRun
    <3>3. QED
      BY <1>2, <3>1, <3>2 DEF Scan
  <2>4. wk' \in [Worker -> ValidatorRun] /\ \A x \in Worker : wk'[x] = IF x = w THEN r ELSE wk[x]
    BY <1>0, <2>3 DEF TypeOK
  <2>5. TypeOK'
    BY <1>0, <2>1, <2>2, <2>4 DEF TypeOK, rows, Jobs
  <2>6. ASSUME NEW x \in Worker, wk'[x].pc # "idle" PROVE wk'[x].v \in Version /\ wk'[x].p \in Package
    BY <1>0, <2>1, <2>3, <2>4, <2>6 DEF Shape
  <2>7. \A t \in Slot : Carries(slot[t])'
    <3>1. \A t \in Slot : Same(t)
      BY <2>1 DEF Same
    <3>2. QED
      BY <1>k, <2>1, <3>1, RequestsCarry DEF rows
  <2>8. QED
    BY <2>1, <2>5, <2>6, <2>7, ShapeOf DEF rows, Shape
<1>3. CASE StartValidation(w)
  <2>1. wk[w].pc = "read" /\ UNCHANGED <<ext, publisher, key, approvals, inst, objs, sender, lost, used>>
    BY <1>3 DEF StartValidation
  <2>2. CASE /\ job' \in Jobs /\ wk' = [wk EXCEPT ![w] = IdleRun] /\ UNCHANGED <<ver, val, slot>>
    <3>1. wk' \in [Worker -> ValidatorRun] /\ \A x \in Worker : RunSame(x)
      BY <1>0, <2>2, Idles DEF TypeOK, RunSame
    <3>2. TypeOK'
      BY <1>0, <2>1, <2>2, <3>1 DEF TypeOK, Jobs
    <3>3. QED
      BY <1>k, <2>1, <2>2, <3>1, <3>2, Writing DEF Same, Shape
  <2>3. CASE ~ (/\ job' \in Jobs /\ wk' = [wk EXCEPT ![w] = IdleRun] /\ UNCHANGED <<ver, val, slot>>)
    <3>1. /\ Present(v) /\ ver[v].sum = p
          /\ val' = [val EXCEPT ![v][p] = "RUNNING"]
          /\ \/ /\ ver[v].status \in {"QUARANTINED", "VALIDATING"}
                /\ ver' = [ver EXCEPT ![v].status = "VALIDATING"]
                /\ slot' = StaleRequests(None, {v})
             \/ UNCHANGED <<ver, slot>>
          /\ wk' = [StaleRuns(w, {v}) EXCEPT ![w].pc = "scan", ![w].manifest = ver[v].manifest]
          /\ job' = job
      BY <1>0, <1>3, <2>1, <2>3, SettleJob DEF StartValidation
    <3>2. v \in Version /\ p \in Package /\ ver[v] \in VersionRow
      BY <1>0, <2>1 DEF TypeOK
    <3>3. PICK m : m = [wk[w] EXCEPT !.pc = "scan", !.manifest = ver[v].manifest]
      OBVIOUS
    <3>4. m \in ValidatorRun /\ m.v = v /\ m.p = p
      BY <1>0, <3>2, <3>3 DEF VersionRow, ValidatorRun
    <3>5. wk' = [StaleRuns(w, {v}) EXCEPT ![w] = m]
      <4>1. StaleRuns(w, {v})[w] = wk[w]
        BY DEF StaleRuns
      <4>2. QED
        BY <1>0, <3>1, <3>3, <4>1, RunMarks
    <3>6. wk' \in [Worker -> ValidatorRun] /\ \A x \in Worker : RunSame(x) \/ (wk'[x].v \in Version /\ wk'[x].p \in Package)
      <4>1. wk' \in [Worker -> ValidatorRun] /\ \A x \in Worker : wk'[x] = IF x = w THEN m ELSE StaleRuns(w, {v})[x]
        BY <1>0, <3>4, <3>5, RunMarks
      <4>2. ASSUME NEW x \in Worker, x # w PROVE RunSame(x)
        <5>1. \/ StaleRuns(w, {v})[x] = wk[x]
              \/ StaleRuns(w, {v})[x] = [wk[x] EXCEPT !.stale = TRUE]
          BY <1>0, RunMarks
        <5>2. wk'[x] = StaleRuns(w, {v})[x]
          BY <4>1, <4>2
        <5>3. QED
          BY <5>1, <5>2 DEF RunSame
      <4>3. QED
        BY <3>2, <3>4, <4>1, <4>2
    <3>7. slot' \in [Slot -> Request] /\ \A t \in Slot : Same(t)
      <4>1. CASE slot' = slot
        BY <1>0, <4>1 DEF TypeOK, Same
      <4>2. CASE slot' = StaleRequests(None, {v})
        <5>1. slot' \in [Slot -> Request]
          BY <1>0, <4>2, Marks
        <5>2. ASSUME NEW t \in Slot PROVE Same(t)
          <6>1. \/ StaleRequests(None, {v})[t] = slot[t]
                \/ StaleRequests(None, {v})[t] = [slot[t] EXCEPT !.stale = TRUE]
            BY <1>0, Marks
          <6>2. QED
            BY <4>2, <6>1 DEF Same
        <5>3. QED
          BY <5>1, <5>2
      <4>3. QED
        BY <3>1, <4>1, <4>2
    <3>8. PICK r : /\ r \in VersionRow /\ ver' = [ver EXCEPT ![v] = r]
                   /\ r.obj = ver[v].obj /\ r.sum = ver[v].sum
                   /\ r.status \in {ver[v].status, "VALIDATING"}
      <4>1. CASE ver' = ver
        BY <1>0, <3>2, <4>1 DEF TypeOK
      <4>2. CASE ver' = [ver EXCEPT ![v].status = "VALIDATING"]
        <5>1. ver' = [ver EXCEPT ![v] = StatusOf(ver[v], "VALIDATING")]
          BY <1>0, <3>2, <4>2 DEF StatusOf, TypeOK
        <5>2. PICK n : n = StatusOf(ver[v], "VALIDATING")
          OBVIOUS
        <5>3. "VALIDATING" \in Status
          BY Statuses
        <5>4. n \in VersionRow /\ n.status = "VALIDATING" /\ n.obj = ver[v].obj /\ n.sum = ver[v].sum
          BY <3>2, <5>2, <5>3, StatusRow
        <5>5. QED
          BY <5>1, <5>2, <5>4
      <4>3. QED
        BY <3>1, <4>1, <4>2
    <3>9. ver' \in [Version -> VersionRow] /\ \A x \in Version : ver'[x] = IF x = v THEN r ELSE ver[x]
      BY <1>0, <3>2, <3>8 DEF TypeOK
    <3>10. val' \in Vals
      BY <1>0, <3>1, <3>2 DEF Vals
    <3>11. TypeOK'
      BY <1>0, <2>1, <3>1, <3>6, <3>7, <3>9, <3>10 DEF TypeOK, Vals
    <3>12. Keeps
      BY <2>1, <3>1, <3>2, <3>8, <3>9, Statuses DEF Keeps, Present
    <3>13. QED
      BY <2>1, <3>6, <3>7, <3>8, <3>9, <3>11, <3>12, Writing DEF Shape
  <2>4. QED
    BY <2>2, <2>3
<1>4. CASE Verdict(w)
  <2>1. /\ wk[w].pc = "finish" /\ v \in Version /\ p \in Package
        /\ UNCHANGED <<ext, publisher, key, approvals, inst, objs, sender, used>>
    BY <1>0, <1>4 DEF Verdict
  <2>2. job' \in Jobs
    BY <1>4, <2>1, SettleJob DEF Verdict
  <2>3. CASE ~ Present(v)
    <3>1. wk' = [wk EXCEPT ![w] = IdleRun] /\ UNCHANGED <<ver, val, lost, slot>>
      BY <1>4, <2>3 DEF Verdict
    <3>2. wk' \in [Worker -> ValidatorRun] /\ \A x \in Worker : RunSame(x)
      BY <1>0, <3>1, Idles DEF TypeOK, RunSame
    <3>3. TypeOK'
      BY <1>0, <2>1, <2>2, <3>1, <3>2 DEF TypeOK, Jobs
    <3>4. QED
      BY <1>k, <2>1, <3>1, <3>2, <3>3, Writing DEF Same, Shape
  <2>4. CASE Present(v)
    <3>1. PICK ok \in BOOLEAN :
            /\ val' = [val EXCEPT ![v][p] = IF ok THEN "PASSED" ELSE "FAILED"]
            /\ ver' = [ver EXCEPT ![v].status = IF ok THEN "VALIDATED" ELSE "REJECTED",
                                  ![v].manifest = IF ok THEN p ELSE wk[w].manifest]
            /\ lost' = (lost \/ wk[w].stale)
            /\ slot' = StaleRequests(None, {v})
            /\ wk' = [StaleRuns(w, {v}) EXCEPT ![w] = IdleRun]
      BY <1>4, <2>4 DEF Verdict
    <3>2. PICK st, m : st = (IF ok THEN "VALIDATED" ELSE "REJECTED") /\ m = (IF ok THEN p ELSE wk[w].manifest)
      OBVIOUS
    <3>3. st \in Status /\ m \in {"typed"} \cup Package /\ ver[v] \in VersionRow
      BY <1>0, <2>1, <3>2, Statuses DEF ValidatorRun, TypeOK
    <3>4. PICK r : r = VerdictOf(ver[v], st, m)
      OBVIOUS
    <3>5. r \in VersionRow /\ r.status = st /\ r.obj = ver[v].obj /\ r.sum = ver[v].sum
      BY <3>3, <3>4, VerdictRow
    <3>6. ver' = [ver EXCEPT ![v] = r]
      BY <1>0, <2>1, <3>1, <3>2, <3>4 DEF VerdictOf, TypeOK
    <3>7. ver' \in [Version -> VersionRow] /\ \A x \in Version : ver'[x] = IF x = v THEN r ELSE ver[x]
      BY <1>0, <2>1, <3>5, <3>6 DEF TypeOK
    <3>8. slot' \in [Slot -> Request] /\ \A t \in Slot : Same(t)
      <4>1. slot' \in [Slot -> Request]
        BY <1>0, <3>1, Marks
      <4>2. ASSUME NEW t \in Slot PROVE Same(t)
        <5>1. \/ StaleRequests(None, {v})[t] = slot[t]
              \/ StaleRequests(None, {v})[t] = [slot[t] EXCEPT !.stale = TRUE]
          BY <1>0, Marks
        <5>2. QED
          BY <3>1, <5>1 DEF Same
      <4>3. QED
        BY <4>1, <4>2
    <3>9. wk' \in [Worker -> ValidatorRun] /\ \A x \in Worker : RunSame(x)
      <4>1. wk' \in [Worker -> ValidatorRun] /\ \A x \in Worker : wk'[x] = IF x = w THEN IdleRun ELSE StaleRuns(w, {v})[x]
        BY <1>0, <3>1, RunMarks, Idles
      <4>2. ASSUME NEW x \in Worker, x # w PROVE RunSame(x)
        <5>1. \/ StaleRuns(w, {v})[x] = wk[x]
              \/ StaleRuns(w, {v})[x] = [wk[x] EXCEPT !.stale = TRUE]
          BY <1>0, RunMarks
        <5>2. wk'[x] = StaleRuns(w, {v})[x]
          BY <4>1, <4>2
        <5>3. QED
          BY <5>1, <5>2 DEF RunSame
      <4>3. QED
        BY <4>1, <4>2 DEF RunSame
    <3>10. val' \in Vals /\ lost' \in BOOLEAN
      BY <1>0, <2>1, <3>1 DEF Vals, TypeOK, ValidatorRun
    <3>11. TypeOK'
      BY <1>0, <2>1, <2>2, <3>7, <3>8, <3>9, <3>10 DEF TypeOK, Vals, Jobs
    <3>12. Keeps
      BY <2>1, <2>4, <3>3, <3>5, <3>7, Statuses DEF Keeps, Present
    <3>13. QED
      BY <2>1, <3>5, <3>7, <3>8, <3>9, <3>11, <3>12, Writing DEF Shape
  <2>5. QED
    BY <2>3, <2>4
<1>5. QED
  BY <1>1, <1>2, <1>3, <1>4 DEF Validates

(* A publisher creates a version, or sends its package again.              *)
LEMMA PublishersShape == ASSUME Shape, NEW u \in User, Publishers(u) PROVE Shape'
<1>0. TypeOK /\ val \in Vals /\ job \in Jobs
  BY DEF Shape, TypeOK, Vals, Jobs
<1>1. ASSUME NEW v \in Version, CreateVersion(u, v) PROVE Shape'
  <2>1. PICK r : r = CreatedRow(u)
    OBVIOUS
  <2>2. r \in VersionRow /\ r.status = "UPLOADED" /\ r.obj = None
    BY <2>1, FreshRows
  <2>3. /\ ver[v].status = "NONE" /\ ver' = [ver EXCEPT ![v] = r]
        /\ UNCHANGED <<ext, publisher, key, val, approvals, inst, objs, slot, job, wk, sender, lost, used>>
    BY <1>1, <2>1 DEF CreateVersion, CreatedRow
  <2>4. ver' \in [Version -> VersionRow] /\ \A x \in Version : ver'[x] = IF x = v THEN r ELSE ver[x]
    BY <1>0, <2>2, <2>3 DEF TypeOK
  <2>5. TypeOK'
    BY <1>0, <2>3, <2>4 DEF TypeOK
  <2>6. Keeps
    BY <2>2, <2>3, <2>4, Statuses DEF Keeps, Present
  <2>7. (\A t \in Slot : Same(t)) /\ \A w \in Worker : RunSame(w)
    BY <2>3 DEF Same, RunSame
  <2>8. \A x \in Version : ver'[x].obj # None => ver'[x].sum \in Package
    BY <2>2, <2>4 DEF Shape
  <2>9. \A x \in School : inst'[x].state \in {"INSTALLED", "ACTIVE"} => inst'[x].v \in Version
    BY <2>3 DEF Shape
  <2>10. QED
    BY <2>5, <2>6, <2>7, <2>8, <2>9, Writing
<1>2. ASSUME NEW v \in Version, NEW p \in Package, UploadAgain(u, v, p) PROVE Shape'
  <2>1. /\ val' \in Vals /\ job' \in Jobs
        /\ UNCHANGED <<ver, ext, publisher, key, approvals, inst, objs, slot, wk, sender, lost, used>>
    BY <1>0, <1>2 DEF UploadAgain, Pending, Enqueued, Vals, Jobs
  <2>2. TypeOK'
    BY <1>0, <2>1 DEF TypeOK, Vals, Jobs
  <2>3. Keeps
    BY <2>1, KeepsRows
  <2>4. (\A t \in Slot : Same(t)) /\ \A w \in Worker : RunSame(w)
    BY <2>1 DEF Same, RunSame
  <2>5. QED
    BY <2>1, <2>2, <2>3, <2>4, Writing DEF Shape
<1>3. QED
  BY <1>1, <1>2 DEF Publishers

LEMMA NextShape == ASSUME Shape, [Next]_vars PROVE Shape'
<1>0. /\ TypeOK /\ IdleRequest \in Request
      /\ used \in [crashes : 0..Crashes, stalls : 0..Redeliveries] /\ objs \subseteq Object /\ job \in Jobs
  BY Idles DEF Shape, TypeOK, Jobs
<1>1. ASSUME NEW s \in Slot, Crash(s) PROVE Shape'
  <2>1. used' \in [crashes : 0..Crashes, stalls : 0..Redeliveries]
    BY <1>0, <1>1, PipelineAssumption DEF Crash
  <2>2. slot' = [slot EXCEPT ![s] = IdleRequest] /\ UNCHANGED <<rows, wk, sender, lost, objs, job>>
    BY <1>1 DEF Crash, Finish
  <2>3. Carries(IdleRequest)
    BY DEF Carries, IdleRequest, OnVersion
  <2>4. QED
    BY <1>0, <2>1, <2>2, <2>3, Going DEF Jobs
<1>2. ASSUME NEW v \in Version, NEW p \in Package, Redeliver(v, p) PROVE Shape'
  <2>1. used' \in [crashes : 0..Crashes, stalls : 0..Redeliveries]
    BY <1>0, <1>2, PipelineAssumption DEF Redeliver
  <2>2. job' \in Jobs /\ UNCHANGED <<rows, objs, slot, wk, sender, lost>>
    BY <1>0, <1>2 DEF Redeliver, Jobs
  <2>3. TypeOK'
    BY <1>0, <2>1, <2>2 DEF TypeOK, rows, Jobs
  <2>4. Keeps /\ (\A t \in Slot : Same(t)) /\ \A w \in Worker : RunSame(w)
    BY <2>2, KeepsRows DEF rows, Same, RunSame
  <2>5. QED
    BY <2>2, <2>3, <2>4, Writing DEF rows, Shape
<1>3. ASSUME NEW x \in School, Uninstall(x) PROVE Shape'
  <2>1. /\ inst[x].state \in {"INSTALLED", "ACTIVE"} /\ inst' = [inst EXCEPT ![x].state = "UNINSTALLED"]
        /\ UNCHANGED <<ver, ext, publisher, key, val, approvals, objs, slot, job, wk, sender, lost, used>>
    BY <1>3 DEF Uninstall
  <2>2. inst \in Inst
    BY <1>0 DEF TypeOK, Inst
  <2>3. PICK r : r = [inst[x] EXCEPT !.state = "UNINSTALLED"]
    OBVIOUS
  <2>4. /\ r \in [v : Version \cup {None}, state : {"APPROVED", "INSTALLED", "ACTIVE", "UNINSTALLED"}]
        /\ r.v = inst[x].v /\ r.state = "UNINSTALLED"
    BY <2>2, <2>3 DEF Inst
  <2>5. inst' \in Inst /\ \A y \in School : inst'[y] = IF y = x THEN r ELSE inst[y]
    BY <2>1, <2>2, <2>3, <2>4 DEF Inst
  <2>6. TypeOK'
    BY <1>0, <2>1, <2>5 DEF TypeOK, Inst
  <2>7. Keeps
    BY <2>1, <2>4, <2>5, KeepsRows
  <2>8. (\A t \in Slot : Same(t)) /\ \A w \in Worker : RunSame(w)
    BY <2>1 DEF Same, RunSame
  <2>9. \A y \in School : inst'[y].state \in {"INSTALLED", "ACTIVE"} => inst'[y].v \in Version
    BY <2>4, <2>5 DEF Shape
  <2>10. QED
    BY <2>1, <2>6, <2>7, <2>8, <2>9, Writing DEF Shape
<1>4. CASE UNCHANGED vars
  <2>1. Keeps /\ (\A t \in Slot : Same(t)) /\ \A w \in Worker : RunSame(w)
    BY <1>4, KeepsRows DEF vars, rows, Same, RunSame
  <2>2. TypeOK'
    BY <1>0, <1>4 DEF TypeOK, vars, rows
  <2>3. QED
    BY <1>4, <2>1, <2>2, Writing DEF vars, rows, Shape
<1>5. QED
  BY <1>1, <1>2, <1>3, <1>4, PublishersShape, StartsShape, ContinuesShape, ValidatesShape DEF Next

LEMMA InitShape == Init => Shape
<1> SUFFICES ASSUME Init PROVE Shape
  OBVIOUS
<1>1. IdleRequest \in Request /\ IdleRun \in ValidatorRun /\ NoVersion \in VersionRow
  BY Idles, FreshRows
<1>2. /\ ver \in [Version -> VersionRow] /\ val \in Vals /\ job \in Jobs
      /\ approvals \in [Version -> SUBSET User] /\ objs \subseteq Object
      /\ sender \in [Version -> User \cup {None}]
      /\ \A v \in Version : ver[v].obj # None => ver[v].sum \in Package
  <2>1. CASE Approved
    <3>1. PICK v \in Version, p \in Package, u, r \in User :
            /\ r # u
            /\ ver = [x \in Version |-> IF x # v THEN NoVersion ELSE
                       [status |-> "APPROVED", manifest |-> p, obj |-> "quarantine", sum |-> p,
                        by |-> u, reviewer |-> r, signed |-> FALSE]]
            /\ val = [x \in Version |-> [q \in Package |-> IF x = v /\ q = p THEN "PASSED" ELSE "NONE"]]
            /\ job = [x \in Version |-> [q \in Package |-> IF x = v /\ q = p THEN "completed" ELSE "absent"]]
            /\ approvals = [x \in Version |-> IF x = v THEN {r} ELSE {}]
            /\ objs = {<<"quarantine", v, p>>}
            /\ sender = [x \in Version |-> IF x = v THEN u ELSE None]
      BY <2>1 DEF Init
    <3>2. [status |-> "APPROVED", manifest |-> p, obj |-> "quarantine", sum |-> p,
           by |-> u, reviewer |-> r, signed |-> FALSE] \in VersionRow
      BY Statuses DEF VersionRow
    <3>3. ver \in [Version -> VersionRow]
      BY <1>1, <3>1, <3>2
    <3>4. val \in Vals /\ job \in Jobs
      BY <3>1 DEF Vals, Jobs
    <3>5. \A x \in Version : ver[x].obj # None => ver[x].sum \in Package
      BY <3>1 DEF NoVersion
    <3>6. approvals \in [Version -> SUBSET User] /\ sender \in [Version -> User \cup {None}]
      <4>1. approvals = [x \in Version |-> IF x = v THEN {r} ELSE {}]
        BY <3>1
      <4>2. sender = [x \in Version |-> IF x = v THEN u ELSE None]
        BY <3>1
      <4>3. QED
        BY <4>1, <4>2
    <3>7. objs \subseteq Object
      <4>1. objs = {<<"quarantine", v, p>>}
        BY <3>1
      <4>2. QED
        BY <4>1 DEF Object
    <3>8. QED
      BY <3>3, <3>4, <3>5, <3>6, <3>7
  <2>2. CASE ~ Approved
    <3>1. /\ ver = [v \in Version |-> NoVersion] /\ objs = {}
          /\ val = [v \in Version |-> [p \in Package |-> "NONE"]]
          /\ job = [v \in Version |-> [p \in Package |-> "absent"]]
          /\ approvals = [v \in Version |-> {}]
          /\ sender = [v \in Version |-> None]
      BY <2>2 DEF Init
    <3>2. val \in Vals /\ job \in Jobs
      BY <3>1 DEF Vals, Jobs
    <3>3. ver \in [Version -> VersionRow] /\ \A v \in Version : ver[v].obj # None => ver[v].sum \in Package
      <4>1. \A v \in Version : ver[v] = NoVersion
        BY <3>1
      <4>2. NoVersion.obj = None
        BY DEF NoVersion
      <4>3. QED
        BY <1>1, <3>1, <4>1, <4>2
    <3>4. approvals \in [Version -> SUBSET User] /\ sender \in [Version -> User \cup {None}]
      BY <3>1
    <3>5. QED
      BY <3>1, <3>2, <3>3, <3>4
  <2>3. QED
    BY <2>1, <2>2
<1>3. /\ ext = "ACTIVE" /\ publisher = "ACTIVE" /\ key = "ACTIVE"
      /\ inst = [s \in School |-> [v |-> None, state |-> "APPROVED"]]
      /\ slot = [s \in Slot |-> IdleRequest] /\ wk = [w \in Worker |-> IdleRun]
      /\ lost = FALSE /\ used = [crashes |-> 0, stalls |-> 0]
  BY DEF Init
<1>t. TypeOK
  <2>1. used \in [crashes : 0..Crashes, stalls : 0..Redeliveries]
    BY <1>3, PipelineAssumption
  <2>2. inst \in Inst
    BY <1>3 DEF Inst
  <2>3. slot \in [Slot -> Request] /\ wk \in [Worker -> ValidatorRun]
    BY <1>1, <1>3
  <2>4. QED
    BY <1>2, <1>3, <2>1, <2>2, <2>3 DEF TypeOK, Vals, Jobs, Inst
<1>4. \A s \in Slot : Carries(slot[s])
  BY <1>3 DEF Carries, IdleRequest, OnVersion
<1>5. \A w \in Worker : wk[w].pc = "idle"
  BY <1>3 DEF IdleRun
<1>6. \A x \in School : inst[x].state = "APPROVED"
  BY <1>3
<1>7. QED
  BY <1>2, <1>t, <1>4, <1>5, <1>6 DEF Shape

(* Every row, request and validation has its type, and carries what the    *)
(* steps that are left of it use.                                          *)
THEOREM TypesHold == Spec => []TypeOK
<1>1. Shape => TypeOK
  BY DEF Shape
<1>2. QED
  BY <1>1, InitShape, NextShape, PTL DEF Spec

-----------------------------------------------------------------------------
(* The others go on as they were; those that have read a version of V know *)
(* that it is no longer what they read.                                    *)
Reading == {"draft", "stored", "publish", "write", "dropObjects", "dropRow"}

Knows(t, V) ==
  /\ slot'[t].pc = slot[t].pc /\ slot'[t].v = slot[t].v /\ slot'[t].u = slot[t].u
  /\ slot'[t].to = slot[t].to /\ slot'[t].p = slot[t].p /\ slot'[t].drops = slot[t].drops
  /\ ~ slot'[t].stale => ~ slot[t].stale
  /\ ~ slot'[t].stale /\ slot[t].pc \in Reading => slot[t].v \notin V

RunKnows(w, V) ==
  /\ wk'[w].pc = wk[w].pc /\ wk'[w].v = wk[w].v /\ wk'[w].p = wk[w].p
  /\ ~ wk'[w].stale => ~ wk[w].stale /\ (wk[w].pc # "idle" => wk[w].v \notin V)

LEMMA Telling ==
  ASSUME TypeOK, NEW s, NEW V, NEW t \in Slot, t # s, slot'[t] = StaleRequests(s, V)[t]
  PROVE  Knows(t, V)
<1>1. PICK q \in Request : q = slot[t]
  BY DEF TypeOK
<1>2. PICK n : n = [q EXCEPT !.stale = TRUE]
  OBVIOUS
<1>3. /\ n.pc = q.pc /\ n.v = q.v /\ n.u = q.u /\ n.to = q.to /\ n.p = q.p /\ n.drops = q.drops
      /\ n.stale = TRUE
  BY <1>2 DEF Request
<1>4. \/ slot'[t] = n
      \/ slot'[t] = q /\ ~ (q.pc \in Deciding /\ q.v \in V)
  BY <1>1, <1>2 DEF StaleRequests
<1>5. QED
  BY <1>1, <1>3, <1>4 DEF Knows, Reading, Deciding

LEMMA TellingAll ==
  ASSUME TypeOK, NEW s \in Slot, NEW V, NEW new \in Request,
         slot' = [StaleRequests(s, V) EXCEPT ![s] = new]
  PROVE  slot'[s] = new /\ \A t \in Slot : t # s => Knows(t, V)
<1>1. \A t \in Slot : slot'[t] = IF t = s THEN new ELSE StaleRequests(s, V)[t]
  BY Marks
<1>2. QED
  BY <1>1, Telling

LEMMA Going3 ==
  ASSUME TypeOK, NEW s \in Slot, NEW new, slot' = [slot EXCEPT ![s] = new]
  PROVE  slot'[s] = new /\ \A t \in Slot : t # s => Knows(t, {})
BY DEF TypeOK, Knows

LEMMA TellingRuns ==
  ASSUME TypeOK, NEW x, NEW V, NEW w \in Worker, w # x, wk'[w] = StaleRuns(x, V)[w]
  PROVE  RunKnows(w, V)
<1>1. PICK q \in ValidatorRun : q = wk[w]
  BY DEF TypeOK
<1>2. PICK n : n = [q EXCEPT !.stale = TRUE]
  OBVIOUS
<1>3. n.pc = q.pc /\ n.v = q.v /\ n.p = q.p /\ n.stale = TRUE
  BY <1>2 DEF ValidatorRun
<1>4. \/ wk'[w] = n
      \/ wk'[w] = q /\ q.v \notin V
  BY <1>1, <1>2 DEF StaleRuns
<1>5. QED
  BY <1>1, <1>3, <1>4 DEF RunKnows

LEMMA TellingAllRuns ==
  ASSUME TypeOK, NEW V, wk' = StaleRuns(None, V)
  PROVE  \A w \in Worker : RunKnows(w, V)
BY TellingRuns, PipelineAssumption

(* A request that has written its row ends, or goes on at pc.              *)
Went(s, pc) ==
  IF pc = "idle" THEN slot'[s] = IdleRequest
  ELSE /\ slot'[s].pc = pc /\ slot'[s].v = slot[s].v /\ slot'[s].u = slot[s].u
       /\ slot'[s].to = slot[s].to /\ slot'[s].drops = slot[s].drops

(* A request at s has written the row r of version v, and the others know. *)
Rewritten(s, v, r, pc) ==
  /\ \A x \in Version : ver'[x] = IF x = v THEN r ELSE ver[x]
  /\ Went(s, pc)
  /\ \A t \in Slot : t # s => Knows(t, {v})
  /\ \A w \in Worker : RunKnows(w, {v})
  /\ lost' = (lost \/ slot[s].stale)

LEMMA Overwrites ==
  ASSUME Shape, NEW s \in Slot, NEW r \in VersionRow, NEW pc \in {"idle", "effects", "enqueue"},
         Overwrite(s, r, pc), NEW v \in Version, v = slot[s].v
  PROVE  Rewritten(s, v, r, pc)
<1>1. TypeOK /\ slot[s] \in Request /\ ver \in [Version -> VersionRow]
  BY DEF Shape, TypeOK
<1>2. PICK new : new = IF pc = "idle" THEN IdleRequest ELSE OnTo(slot[s], pc)
  OBVIOUS
<1>3. new \in Request
  BY <1>1, <1>2, Idles, OnFields
<1>4. /\ ver' = [ver EXCEPT ![v] = r] /\ slot' = [StaleRequests(s, {v}) EXCEPT ![s] = new]
      /\ wk' = StaleRuns(None, {v}) /\ lost' = (lost \/ slot[s].stale)
  BY <1>2 DEF Overwrite, OnTo
<1>5. slot'[s] = new /\ \A t \in Slot : t # s => Knows(t, {v})
  BY <1>1, <1>3, <1>4, TellingAll
<1>6. \A w \in Worker : RunKnows(w, {v})
  BY <1>1, <1>4, TellingAllRuns
<1>7. Went(s, pc)
  <2>1. CASE pc = "idle"
    BY <1>2, <1>5, <2>1 DEF Went
  <2>2. CASE pc # "idle"
    <3>1. new = OnTo(slot[s], pc) /\ pc \in {"effects", "enqueue"}
      BY <1>2, <2>2
    <3>2. /\ new.pc = pc /\ new.v = slot[s].v /\ new.u = slot[s].u /\ new.to = slot[s].to
          /\ new.drops = slot[s].drops
      <4>1. PICK q \in Request : q = slot[s]
        BY <1>1
      <4>2. new = OnTo(q, pc)
        BY <3>1, <4>1
      <4>3. QED
        BY <4>1, <4>2 DEF OnTo, Request
    <3>3. QED
      BY <1>5, <2>2, <3>2 DEF Went
  <2>3. QED
    BY <2>1, <2>2
<1>8. QED
  BY <1>1, <1>4, <1>5, <1>6, <1>7 DEF Rewritten
-----------------------------------------------------------------------------
(* The rows of versions outside V are as they were, those in V as they     *)
(* must be, and every request goes on or is as it must be.                 *)
LEMMA StaysReviewed ==
  ASSUME Shape, Reviewed, NEW V,
         \A x \in Version \ V : /\ ver'[x].status = ver[x].status /\ ver'[x].by = ver[x].by
                                /\ approvals'[x] = approvals[x],
         \A x \in Version \cap V :
           /\ ver'[x].status # "NONE"
           /\ Present(x)' => /\ ver'[x].by \notin approvals'[x]
                             /\ Present(x) => ver'[x].by = ver[x].by /\ approvals[x] \subseteq approvals'[x]
                             /\ Present(x) \/ ver[x].status = "NONE"
           /\ ver'[x].status = "PUBLISHED" => approvals'[x] # {},
         \A t \in Slot : Knows(t, V) \/ slot'[t].pc \notin {"write", "effects"} \/ Decides(slot[t])'
  PROVE  Reviewed'
<1>1. \A x \in Version : /\ ver'[x].status = "NONE" => approvals'[x] = {}
                         /\ Present(x)' => ver'[x].by \notin approvals'[x]
                         /\ ver'[x].status = "PUBLISHED" => approvals'[x] # {}
  BY DEF Reviewed, Present
<1>2. ASSUME NEW t \in Slot PROVE Decides(slot[t])'
  <2>1. CASE slot'[t].pc \notin {"write", "effects"}
    BY <2>1 DEF Decides
  <2>2. CASE Knows(t, V) /\ slot[t].pc \in {"write", "effects"}
    <3>1. PICK y \in Version : y = slot[t].v /\ ver[y].status # "NONE" /\ Decides(slot[t])
      BY <2>2 DEF Shape, Carries, OnVersion, Reviewed
    <3>2. slot'[t].v = y /\ slot'[t].pc = slot[t].pc /\ slot'[t].to = slot[t].to /\ slot'[t].u = slot[t].u
      BY <2>2, <3>1 DEF Knows
    <3>3. Present(y)' => /\ Present(y) /\ ver'[y].by = ver[y].by /\ approvals[y] \subseteq approvals'[y]
      <4>1. CASE y \in V
        BY <3>1, <4>1
      <4>2. CASE y \notin V
        BY <3>1, <4>2 DEF Present
      <4>3. QED
        BY <4>1, <4>2
    <3>4. QED
      BY <3>1, <3>2, <3>3 DEF Decides
  <2>3. QED
    BY <2>1, <2>2 DEF Knows
<1>3. QED
  BY <1>1, <1>2 DEF Reviewed

(* A validation is started or awaited for the package of the row.          *)
ValGrows(x, p) ==
  /\ Present(x) /\ ver[x].sum = p /\ ver[x].obj # None /\ val[x][p] \notin {"PASSED", "FAILED"}
  /\ val'[x][p] \in {"PENDING", "RUNNING"} /\ (val[x][p] = "RUNNING" => val'[x][p] = "RUNNING")

LEMMA StaysSound ==
  ASSUME Shape, Sound, NEW V, ~ lost' => ~ lost,
         \A x \in Version \ V : /\ ver'[x].status = ver[x].status /\ ver'[x].sum = ver[x].sum
                                /\ ver'[x].obj = ver[x].obj
                                /\ \A p \in Package : val'[x][p] = val[x][p] \/ ValGrows(x, p),
         \A x \in Version, p \in Package :
           <<"published", x, p>> \in objs =>
             <<"published", x, p>> \in objs' \/ \E t \in Slot : <<"published", x, p>> \in slot[t].drops,
         ~ lost' => \A x \in Version \cap V :
           /\ RowSound(x)'
           /\ ver[x].status \in {"RETIRED", "DELETED"} => ver'[x].status \in {"RETIRED", "DELETED"},
         \A t \in Slot : Knows(t, V) \/ (~ lost' => Reads(slot[t])'),
         \A w \in Worker : RunKnows(w, V) \/ (~ lost' => Validating(wk[w])')
  PROVE  Sound'
<1> SUFFICES ASSUME ~ lost'
             PROVE  /\ \A s \in Slot : Reads(slot[s])'
                    /\ \A w \in Worker : Validating(wk[w])'
                    /\ \A v \in Version : RowSound(v)'
  BY DEF Sound
<1>1. /\ \A s \in Slot : Reads(slot[s])
      /\ \A w \in Worker : Validating(wk[w])
      /\ \A v \in Version : RowSound(v)
  BY DEF Sound, Shape, TypeOK
<1>2. ASSUME NEW x \in Version, NEW p \in Package, <<"published", x, p>> \in objs, <<"published", x, p>> \notin objs'
      PROVE  ver[x].status \in {"RETIRED", "DELETED"}
  BY <1>1, <1>2 DEF Reads
<1>3. ASSUME NEW x \in Version, x \notin V PROVE RowSound(x)'
  <2>1. /\ ver'[x].status = ver[x].status /\ ver'[x].sum = ver[x].sum /\ ver'[x].obj = ver[x].obj
        /\ RowSound(x) /\ \A p \in Package : val'[x][p] = val[x][p] \/ ValGrows(x, p)
    BY <1>1, <1>3
  <2>2. Present(x)' <=> Present(x)
    BY <2>1 DEF Present
  <2>3. ver[x].obj # None => ver[x].sum \in Package
    BY DEF Shape
  <2>4. None # "published"
    BY PipelineAssumption
  <2>5. ver[x].status = "PUBLISHED" => <<"published", x, ver[x].sum>> \in objs'
    BY <1>2, <2>1, <2>3, <2>4 DEF RowSound, Family
  <2>6. ver[x].status \in Family => val'[x][ver[x].sum] = "PASSED"
    BY <2>1, <2>3, <2>4 DEF RowSound, ValGrows
  <2>7. ver[x].status \in {"NONE", "UPLOADED"} => \A p \in Package : val'[x][p] = "NONE"
    BY <2>1 DEF RowSound, ValGrows
  <2>8. \A p \in Package : Present(x) /\ val'[x][p] # "NONE" => ver[x].sum = p
    BY <2>1 DEF RowSound, ValGrows
  <2>9. QED
    BY <2>1, <2>2, <2>5, <2>6, <2>7, <2>8 DEF RowSound
<1>4. \A x \in Version : ver[x].status \in {"RETIRED", "DELETED"} => ver'[x].status \in {"RETIRED", "DELETED"}
  OBVIOUS
<1>5. ASSUME NEW t \in Slot, Knows(t, V) PROVE Reads(slot[t])'
  <2>1. /\ slot'[t].pc = slot[t].pc /\ slot'[t].v = slot[t].v /\ slot'[t].to = slot[t].to
        /\ slot'[t].p = slot[t].p /\ slot'[t].drops = slot[t].drops
        /\ ~ slot'[t].stale => ~ slot[t].stale
        /\ ~ slot'[t].stale /\ slot[t].pc \in Reading => slot[t].v \notin V
    BY <1>5 DEF Knows
  <2>2. Reads(slot[t]) /\ (slot[t].pc \in Reading => slot[t].v \in Version)
    BY <1>1 DEF Shape, Carries, OnVersion, Reading
  <2>3. ~ slot'[t].stale /\ slot[t].pc = "stored" => ver'[slot[t].v].status = "UPLOADED"
    BY <2>1, <2>2 DEF Reads, Reading
  <2>4. ~ slot'[t].stale /\ slot[t].pc \in {"publish", "write"} =>
          /\ Present(slot[t].v)' /\ slot[t].to \in AllowedTransitions[ver'[slot[t].v].status]
          /\ ver'[slot[t].v].sum = slot[t].p
    BY <2>1, <2>2 DEF Reads, Reading, Present
  <2>5. ASSUME ~ slot'[t].stale, slot[t].pc = "write", slot[t].to = "PUBLISHED"
        PROVE  <<"published", slot[t].v, slot[t].p>> \in objs' /\ val'[slot[t].v][slot[t].p] = "PASSED"
    <3>1. /\ slot[t].v \in Version /\ slot[t].v \notin V /\ ~ slot[t].stale
          /\ Present(slot[t].v) /\ slot[t].to \in AllowedTransitions[ver[slot[t].v].status]
          /\ ver[slot[t].v].sum = slot[t].p
          /\ <<"published", slot[t].v, slot[t].p>> \in objs /\ val[slot[t].v][slot[t].p] = "PASSED"
      BY <2>1, <2>2, <2>5 DEF Reads, Reading
    <3>2. slot[t].p \in Package
      BY <3>1 DEF Shape, TypeOK, Object
    <3>3. ver[slot[t].v].status \notin {"RETIRED", "DELETED"}
      BY <3>1, Statuses DEF Present, AllowedTransitions
    <3>4. QED
      BY <1>2, <3>1, <3>2, <3>3 DEF ValGrows
  <2>6. \A v \in Version, p \in Package :
          <<"published", v, p>> \in slot[t].drops => ver'[v].status \in {"RETIRED", "DELETED"}
    BY <1>4, <2>2 DEF Reads
  <2>7. QED
    BY <2>1, <2>3, <2>4, <2>5, <2>6 DEF Reads
<1>6. ASSUME NEW w \in Worker, RunKnows(w, V) PROVE Validating(wk[w])'
  <2>1. /\ wk'[w].pc = wk[w].pc /\ wk'[w].v = wk[w].v /\ wk'[w].p = wk[w].p
        /\ ~ wk'[w].stale => ~ wk[w].stale /\ (wk[w].pc # "idle" => wk[w].v \notin V)
    BY <1>6 DEF RunKnows
  <2>2. Validating(wk[w]) /\ (wk[w].pc # "idle" => wk[w].v \in Version /\ wk[w].p \in Package)
    BY <1>1 DEF Shape
  <2>3. QED
    BY <2>1, <2>2 DEF Validating, Present, ValGrows
<1>7. QED
  BY <1>3, <1>5, <1>6

(* The publisher and the extension as they were, nobody done suspending.   *)
LEMMA StaysSuspended ==
  ASSUME Suspended, ~ lost' => ~ lost, used'.crashes = 0 => used.crashes = 0,
         publisher' = publisher, ext' = ext \/ ext' # "ACTIVE" \/ publisher = "ACTIVE" \/ lost',
         \A t \in Slot : At(t, "suspend") => At(t, "suspend")' \/ ext' # "ACTIVE" \/ publisher = "ACTIVE" \/ lost'
  PROVE  Suspended'
<1> SUFFICES ASSUME ~ lost', used'.crashes = 0, publisher' # "ACTIVE", ext' = "ACTIVE",
                    \A t \in Slot : ~ At(t, "suspend")'
             PROVE  FALSE
  BY DEF Suspended
<1>1. \A t \in Slot : ~ At(t, "suspend")
  OBVIOUS
<1>2. QED
  BY <1>1 DEF Suspended

LEMMA SuspendKept ==
  ASSUME NEW t \in Slot, NEW V, Knows(t, V), At(t, "suspend")
  PROVE  At(t, "suspend")'
BY DEF Knows, At

(* The drops of a request that starts.                                     *)
LEMMA BegunDrops ==
  ASSUME NEW v, NEW pc, NEW u, NEW to, NEW p
  PROVE  LET new == Begun(v, pc, u, to, p)
         IN  /\ new.stale = FALSE
             /\ pc = "dropObjects" => new.drops = Stored({v})
             /\ pc = "purgeObjects" => new.drops = Stored(Version)
             /\ pc \notin {"dropObjects", "purgeObjects"} => new.drops = {}
BY DEF Begun

LEMMA StartsIdle == ASSUME NEW s \in Slot, Starts(s) PROVE At(s, "idle")
BY DEF Starts, Begin, BeginDraft, BeginUpload, BeginTransition, BeginAppeal, BeginDelete, BeginPurge,
       BeginPublisher, BeginKey, BeginInstall, BeginActivate

LEMMA StartsStay ==
  ASSUME Shape, NEW s \in Slot, Starts(s)
  PROVE  /\ Separation /\ Reviewed => Reviewed'
         /\ Sound => Sound'
         /\ Suspended => Suspended'
<1>1. PICK v, pc, u, to, p : Starting(s, v, pc, u, to, p)
  BY StartsAsk
<1>2. PICK n : n = Begun(v, pc, u, to, p)
  OBVIOUS
<1>3. /\ n \in Request /\ n.pc = pc /\ n.v = v /\ n.u = u /\ n.to = to /\ n.p = p /\ n.stale = FALSE
      /\ pc = "dropObjects" => n.drops = Stored({v})
      /\ pc = "purgeObjects" => n.drops = Stored(Version)
      /\ pc \notin {"dropObjects", "purgeObjects"} => n.drops = {}
      /\ Carries(n) /\ Asked(v, pc, u, to, p)
  <2>1. n \in Request /\ Carries(n) /\ Asked(v, pc, u, to, p)
    BY <1>1, <1>2 DEF Starting
  <2>2. n.pc = pc /\ n.v = v /\ n.u = u /\ n.to = to /\ n.p = p
    BY <1>2, Fields
  <2>3. /\ n.stale = FALSE
        /\ pc = "dropObjects" => n.drops = Stored({v})
        /\ pc = "purgeObjects" => n.drops = Stored(Version)
        /\ pc \notin {"dropObjects", "purgeObjects"} => n.drops = {}
    BY <1>2, BegunDrops
  <2>4. QED
    BY <2>1, <2>2, <2>3
<1>4. /\ slot'[s] = n /\ \A t \in Slot : t # s => Knows(t, {})
  BY <1>1, <1>2, Going3 DEF Starting, Shape
<1>5. /\ ver' = ver /\ ext' = ext /\ publisher' = publisher /\ val' = val /\ approvals' = approvals
      /\ wk' = wk /\ lost' = lost /\ used' = used /\ \A o \in objs : o \in objs'
  BY <1>1 DEF Starting, rows
<1>6. \A w \in Worker : RunKnows(w, {})
  BY <1>5 DEF RunKnows
<1>7. ASSUME Separation PROVE Decides(n)'
  <2>1. Decides(n)
    BY <1>3, <1>7 DEF Decides, Asked, MayDecide
  <2>2. QED
    BY <1>5, <2>1 DEF Decides, Present
<1>8. ASSUME Sound, ~ lost PROVE Reads(n)'
  <2>1. \A x \in Version : RowSound(x)
    BY <1>8 DEF Sound
  <2>2. ASSUME NEW x \in Version, NEW q \in Package, <<"published", x, q>> \in n.drops
        PROVE  ver[x].status \in {"RETIRED", "DELETED"}
    <3>1. PICK V : /\ <<"published", x, q>> \in Stored(V)
                   /\ \/ V = {v} /\ pc = "dropObjects"
                      \/ V = Version /\ pc = "purgeObjects"
      <4>1. pc \in {"dropObjects", "purgeObjects"}
        BY <1>3, <2>2
      <4>2. QED
        BY <1>3, <2>2, <4>1
    <3>2. x \in V /\ Present(x) /\ ver[x].obj = "published"
      BY <3>1 DEF Stored
    <3>3. ver[x].status \in Family
      BY <2>1, <3>2 DEF RowSound
    <3>4. QED
      BY <1>3, <3>1, <3>2, <3>3 DEF Asked, Family
  <2>3. Reads(n)
    BY <1>3, <2>2 DEF Reads, Asked
  <2>4. \A x \in Version, q \in Package : <<"published", x, q>> \in n.drops => ver'[x].status \in {"RETIRED", "DELETED"}
    BY <1>5, <2>2
  <2>5. QED
    BY <1>3, <1>5, <2>3, <2>4 DEF Reads, Present, Asked
<1>9. Separation /\ Reviewed => Reviewed'
  <2>1. Separation => Decides(slot[s])'
    BY <1>4, <1>7
  <2>2. QED
    BY <1>4, <1>5, <2>1, StaysReviewed
<1>10. Sound => Sound'
  <2>1. Sound => (~ lost' => Reads(slot[s])')
    BY <1>4, <1>5, <1>8
  <2>2. QED
    BY <1>4, <1>5, <1>6, <2>1, StaysSound
<1>11. Suspended => Suspended'
  <2>1. \A t \in Slot : At(t, "suspend") => At(t, "suspend")' \/ t = s
    BY <1>4, SuspendKept
  <2>2. At(s, "suspend") => FALSE
    BY StartsIdle DEF At
  <2>3. QED
    BY <1>5, <2>1, <2>2, StaysSuspended
<1>12. QED
  BY <1>9, <1>10, <1>11

(* The three invariants, for a step at hand.                               *)
Stay ==
  /\ Separation /\ Reviewed => Reviewed'
  /\ Sound => Sound'
  /\ Suspended => Suspended'

LEMMA IdleReads == Decides(IdleRequest)' /\ Reads(IdleRequest)' /\ IdleRequest.pc = "idle"
BY DEF Decides, Reads, IdleRequest

(* A request ends, and no row of a version has changed.                    *)
LEMMA EndsStay ==
  ASSUME Shape, NEW s \in Slot, slot' = [slot EXCEPT ![s] = IdleRequest],
         ver' = ver, val' = val, approvals' = approvals, wk' = wk, ~ lost' => ~ lost,
         \A x \in Version, p \in Package : <<"published", x, p>> \in objs => <<"published", x, p>> \in objs'
  PROVE  /\ Reviewed => Reviewed'
         /\ Sound => Sound'
         /\ publisher' = publisher /\ ext' = ext /\ used' = used /\ slot[s].pc # "suspend"
              => (Suspended => Suspended')
<1>1. slot'[s] = IdleRequest /\ \A t \in Slot : t # s => Knows(t, {})
  BY Going3 DEF Shape
<1>2. \A w \in Worker : RunKnows(w, {})
  BY DEF RunKnows
<1>3. Reviewed => Reviewed'
  <2>1. slot'[s].pc \notin {"write", "effects"}
    BY <1>1, IdleReads
  <2>2. QED
    BY <1>1, <2>1, StaysReviewed
<1>4. Sound => Sound'
  <2>1. Reads(slot[s])'
    BY <1>1, IdleReads
  <2>2. QED
    BY <1>1, <1>2, <2>1, StaysSound
<1>5. ASSUME publisher' = publisher, ext' = ext, used' = used, slot[s].pc # "suspend", Suspended
      PROVE  Suspended'
  <2>1. \A t \in Slot : At(t, "suspend") => At(t, "suspend")'
    BY <1>1, <1>5, SuspendKept DEF At
  <2>2. QED
    BY <1>5, <2>1, StaysSuspended
<1>6. QED
  BY <1>3, <1>4, <1>5

(* What a request leaves when it writes a row.                             *)
LEMMA WritesStay ==
  ASSUME Shape, NEW s \in Slot, NEW V, \A t \in Slot : t # s => Knows(t, V),
         publisher' = publisher, ext' = ext, used' = used, ~ lost' => ~ lost,
         slot[s].pc # "suspend", Suspended
  PROVE  Suspended'
<1>1. \A t \in Slot : At(t, "suspend") => At(t, "suspend")'
  BY SuspendKept DEF At
<1>2. QED
  BY <1>1, StaysSuspended

(* One row is written.                                                     *)
LEMMA RowStaysReviewed ==
  ASSUME Shape, Reviewed, NEW v \in Version, NEW r,
         \A x \in Version : ver'[x] = IF x = v THEN r ELSE ver[x],
         Present(v), r.status # "NONE", r.by = ver[v].by, approvals' = approvals,
         r.status = "PUBLISHED" => approvals[v] # {},
         \A t \in Slot : Knows(t, {v}) \/ slot'[t].pc \notin {"write", "effects"} \/ Decides(slot[t])'
  PROVE  Reviewed'
<1>1. \A x \in Version \ {v} : /\ ver'[x].status = ver[x].status /\ ver'[x].by = ver[x].by
                               /\ approvals'[x] = approvals[x]
  OBVIOUS
<1>2. \A x \in Version \cap {v} :
        /\ ver'[x].status # "NONE"
        /\ Present(x)' => /\ ver'[x].by \notin approvals'[x]
                          /\ Present(x) => ver'[x].by = ver[x].by /\ approvals[x] \subseteq approvals'[x]
                          /\ Present(x) \/ ver[x].status = "NONE"
        /\ ver'[x].status = "PUBLISHED" => approvals'[x] # {}
  BY DEF Reviewed
<1>3. QED
  BY <1>1, <1>2, StaysReviewed

LEMMA RowStaysSound ==
  ASSUME Shape, Sound, NEW v \in Version, NEW r, ~ lost' => ~ lost,
         \A x \in Version : ver'[x] = IF x = v THEN r ELSE ver[x],
         \A x \in Version \ {v} : val'[x] = val[x], objs' = objs,
         ~ lost' => RowSound(v)',
         ~ lost' => (ver[v].status \in {"RETIRED", "DELETED"} => r.status \in {"RETIRED", "DELETED"}),
         \A t \in Slot : Knows(t, {v}) \/ (~ lost' => Reads(slot[t])'),
         \A w \in Worker : RunKnows(w, {v}) \/ (~ lost' => Validating(wk[w])')
  PROVE  Sound'
<1>1. \A x \in Version \ {v} :
        /\ ver'[x].status = ver[x].status /\ ver'[x].sum = ver[x].sum /\ ver'[x].obj = ver[x].obj
        /\ \A p \in Package : val'[x][p] = val[x][p] \/ ValGrows(x, p)
  OBVIOUS
<1>2. ~ lost' => \A x \in Version \cap {v} :
         /\ RowSound(x)'
         /\ ver[x].status \in {"RETIRED", "DELETED"} => ver'[x].status \in {"RETIRED", "DELETED"}
  OBVIOUS
<1>3. QED
  BY <1>1, <1>2, StaysSound

(* What is known of a row and of a request while nothing is lost.          *)
LEMMA Knowing ==
  ASSUME Shape, Sound, ~ lost
  PROVE  /\ \A s \in Slot : Reads(slot[s])
         /\ \A w \in Worker : Validating(wk[w])
         /\ \A v \in Version : RowSound(v)
BY DEF Sound

(* A request that has written a row has nothing more to read.              *)
LEMMA OnReads ==
  ASSUME NEW s \in Slot, NEW pc \in {"idle", "enqueue", "effects"}, Went(s, pc),
         \A v \in Version, p \in Package :
           <<"published", v, p>> \in slot[s].drops => ver'[v].status \in {"RETIRED", "DELETED"}
  PROVE  Reads(slot[s])'
<1>1. CASE pc = "idle"
  BY <1>1, IdleReads DEF Went
<1>2. CASE pc # "idle"
  <2>1. slot'[s].pc = pc /\ slot'[s].drops = slot[s].drops
    BY <1>2 DEF Went
  <2>2. QED
    BY <1>2, <2>1 DEF Reads
<1>3. QED
  BY <1>1, <1>2

LEMMA DraftStays == ASSUME Shape, NEW s \in Slot, UpdateDraft(s) PROVE Stay
<1>1. PICK v \in Version : /\ v = slot[s].v /\ Present(v) /\ ver[v] \in VersionRow
                         /\ slot[s].pc = "draft"
  BY DEF Shape, TypeOK, UpdateDraft, At, Carries, OnVersion
<1>2. PICK r : r = DraftOf(ver[v])
  OBVIOUS
<1>3. /\ r \in VersionRow /\ r.status = ver[v].status /\ r.obj = ver[v].obj /\ r.sum = ver[v].sum
      /\ r.by = ver[v].by
  BY <1>1, <1>2, DraftRow
<1>4. /\ Overwrite(s, r, "idle")
      /\ UNCHANGED <<ext, publisher, key, val, approvals, inst, objs, job, sender, used>>
  BY <1>1, <1>2 DEF UpdateDraft, DraftOf
<1>5. /\ \A x \in Version : ver'[x] = IF x = v THEN r ELSE ver[x]
      /\ Went(s, "idle")
      /\ \A t \in Slot : t # s => Knows(t, {v})
      /\ \A w \in Worker : RunKnows(w, {v})
      /\ lost' = (lost \/ slot[s].stale)
  <2>1. r \in VersionRow /\ Overwrite(s, r, "idle") /\ v = slot[s].v
    BY <1>1, <1>3, <1>4
  <2>2. Rewritten(s, v, r, "idle")
    BY <2>1, Overwrites
  <2>3. QED
    BY <2>2 DEF Rewritten
<1>6. r.status # "NONE"
  BY <1>1, <1>3, Statuses DEF Present
<1>7. Reviewed => Reviewed'
  <2>1. Reviewed /\ r.status = "PUBLISHED" => approvals[v] # {}
    BY <1>1, <1>3 DEF Reviewed
  <2>2. slot'[s].pc \notin {"write", "effects"}
    BY <1>5, IdleReads DEF Went
  <2>3. QED
    BY <1>1, <1>3, <1>4, <1>5, <1>6, <2>1, <2>2, RowStaysReviewed
<1>8. ASSUME Sound PROVE Sound'
  <2>1. ~ lost' => RowSound(v)'
    <3>1. ~ lost' => RowSound(v)
      BY <1>1, <1>5, <1>8, Knowing
    <3>2. QED
      BY <1>1, <1>3, <1>4, <1>5, <3>1 DEF RowSound, Present
  <2>2. Reads(slot[s])'
    BY <1>5, IdleReads DEF Went
  <2>3. val' = val /\ objs' = objs /\ (~ lost' => ~ lost)
    BY <1>4, <1>5
  <2>4. ver[v].status \in {"RETIRED", "DELETED"} => r.status \in {"RETIRED", "DELETED"}
    BY <1>3
  <2>5. /\ \A t \in Slot : Knows(t, {v}) \/ (~ lost' => Reads(slot[t])')
        /\ \A w \in Worker : RunKnows(w, {v}) \/ (~ lost' => Validating(wk[w])')
    BY <1>5, <2>2
  <2>6. QED
    BY <1>5, <1>8, <2>1, <2>3, <2>4, <2>5, RowStaysSound
<1>9. Suspended => Suspended'
  BY <1>1, <1>4, <1>5, WritesStay
<1>10. QED
  BY <1>7, <1>8, <1>9 DEF Stay

LEMMA QuarantineStays == ASSUME Shape, NEW s \in Slot, Quarantine(s) PROVE Stay
<1>1. PICK v \in Version, p \in Package :
        v = slot[s].v /\ p = slot[s].p /\ Present(v) /\ ver[v] \in VersionRow /\ slot[s].pc = "stored"
  BY DEF Shape, TypeOK, Quarantine, At, Carries, OnVersion
<1>2. PICK r : r = QuarantinedOf(ver[v], p)
  OBVIOUS
<1>3. r \in VersionRow /\ r.status = "QUARANTINED" /\ r.obj = "quarantine" /\ r.sum = p /\ r.by = ver[v].by
  BY <1>1, <1>2, QuarantinedRow
<1>4. /\ Overwrite(s, r, "enqueue") /\ val' = Pending(v, p)
      /\ UNCHANGED <<ext, publisher, key, approvals, inst, objs, job, used>>
  BY <1>1, <1>2 DEF Quarantine, QuarantinedOf
<1>5. /\ \A x \in Version : ver'[x] = IF x = v THEN r ELSE ver[x]
      /\ Went(s, "enqueue")
      /\ \A t \in Slot : t # s => Knows(t, {v})
      /\ \A w \in Worker : RunKnows(w, {v})
      /\ lost' = (lost \/ slot[s].stale)
  <2>1. r \in VersionRow /\ Overwrite(s, r, "enqueue") /\ v = slot[s].v
    BY <1>1, <1>3, <1>4
  <2>2. Rewritten(s, v, r, "enqueue")
    BY <2>1, Overwrites
  <2>3. QED
    BY <2>2 DEF Rewritten
<1>6. slot'[s].pc = "enqueue"
  BY <1>5 DEF Went
<1>7. Reviewed => Reviewed'
  BY <1>1, <1>3, <1>4, <1>5, <1>6, RowStaysReviewed
<1>8. ASSUME Sound PROVE Sound'
  <2>1. /\ \A x \in Version \ {v} : val'[x] = val[x]
        /\ \A q \in Package : q # p => val'[v][q] = val[v][q]
    BY <1>1, <1>4 DEF Pending, Shape, TypeOK
  <2>2. ~ lost' => RowSound(v) /\ ver[v].status = "UPLOADED" /\ Reads(slot[s])
    <3>1. ~ lost' => RowSound(v) /\ Reads(slot[s]) /\ ~ slot[s].stale
      BY <1>1, <1>5, <1>8, Knowing
    <3>2. QED
      BY <1>1, <3>1 DEF Reads
  <2>3. ~ lost' => RowSound(v)'
    BY <1>1, <1>3, <1>5, <2>1, <2>2 DEF RowSound, Family
  <2>4. ~ lost' => Reads(slot[s])'
    <3>1. ASSUME ~ lost', NEW x \in Version, NEW q \in Package, <<"published", x, q>> \in slot[s].drops
          PROVE  ver'[x].status \in {"RETIRED", "DELETED"}
      <4>1. ver[x].status \in {"RETIRED", "DELETED"}
        BY <2>2, <3>1 DEF Reads
      <4>2. QED
        BY <1>5, <2>2, <3>1, <4>1
    <3>2. QED
      BY <1>5, <3>1, OnReads
  <2>5. ~ lost' => (ver[v].status \in {"RETIRED", "DELETED"} => r.status \in {"RETIRED", "DELETED"})
    BY <2>2
  <2>6. QED
    BY <1>1, <1>4, <1>5, <1>8, <2>1, <2>3, <2>4, <2>5, RowStaysSound
<1>9. Suspended => Suspended'
  BY <1>1, <1>4, <1>5, WritesStay
<1>10. QED
  BY <1>7, <1>8, <1>9 DEF Stay

LEMMA TransitionStays == ASSUME Shape, NEW s \in Slot, Transition(s) PROVE Stay
<1>1. PICK v \in Version, to \in Status :
        /\ v = slot[s].v /\ to = slot[s].to /\ Present(v) /\ ver[v] \in VersionRow /\ slot[s].pc = "write"
        /\ slot[s].u \in User /\ slot[s] \in Request
  BY DEF Shape, TypeOK, Transition, At, Carries, OnVersion
<1>2. PICK n, o, b :
        /\ n = IF to \in {"APPROVED", "REJECTED"} THEN slot[s].u ELSE ver[v].reviewer
        /\ o = IF to = "PUBLISHED" THEN "published" ELSE ver[v].obj
        /\ b = (ver[v].signed \/ to = "PUBLISHED")
  OBVIOUS
<1>3. n \in User \cup {None} /\ o \in {"quarantine", "published", None} /\ b \in BOOLEAN
  BY <1>1, <1>2 DEF VersionRow
<1>4. PICK r : r = DecidedOf(ver[v], to, n, o, b)
  OBVIOUS
<1>5. r \in VersionRow /\ r.status = to /\ r.obj = o /\ r.sum = ver[v].sum /\ r.by = ver[v].by
  <2>1. PICK x \in VersionRow : x = ver[v]
    BY <1>1
  <2>2. r = DecidedOf(x, to, n, o, b)
    BY <1>4, <2>1
  <2>3. QED
    BY <1>3, <2>1, <2>2 DEF DecidedOf, VersionRow
<1>6. PICK pc \in {"effects", "idle"} :
        pc = IF to \in {"PUBLISHED", "BLOCKED", "RETIRED", "APPROVED"} THEN "effects" ELSE "idle"
  OBVIOUS
<1>7. /\ Overwrite(s, r, pc)
      /\ UNCHANGED <<ext, publisher, key, val, approvals, inst, objs, job, sender, used>>
  BY <1>1, <1>2, <1>4, <1>6 DEF Transition, DecidedOf
<1>8. /\ \A x \in Version : ver'[x] = IF x = v THEN r ELSE ver[x]
      /\ Went(s, pc)
      /\ \A t \in Slot : t # s => Knows(t, {v})
      /\ \A w \in Worker : RunKnows(w, {v})
      /\ lost' = (lost \/ slot[s].stale)
  <2>1. /\ r \in VersionRow /\ Overwrite(s, r, pc) /\ v = slot[s].v
        /\ pc \in {"idle", "effects", "enqueue"}
    BY <1>1, <1>5, <1>7
  <2>2. Rewritten(s, v, r, pc)
    BY <2>1, Overwrites
  <2>3. QED
    BY <2>2 DEF Rewritten
<1>9. \/ slot'[s] = IdleRequest /\ slot'[s].pc = "idle"
      \/ slot'[s].pc = "effects" /\ slot'[s].to = to /\ slot'[s].v = v /\ slot'[s].u = slot[s].u
  BY <1>1, <1>6, <1>8, IdleReads DEF Went
<1>10. to # "NONE"
  BY <1>1, Statuses
<1>11. ASSUME Reviewed PROVE Reviewed'
  <2>1. Decides(slot[s])
    BY <1>11 DEF Reviewed
  <2>2. to = "PUBLISHED" => approvals[v] # {}
    BY <1>1, <2>1 DEF Decides
  <2>3. to = "APPROVED" => r.by # slot[s].u
    BY <1>1, <1>5, <2>1 DEF Decides
  <2>4. Decides(slot[s])'
    BY <1>1, <1>8, <1>9, <2>3 DEF Decides
  <2>5. QED
    BY <1>1, <1>5, <1>7, <1>8, <1>10, <1>11, <2>2, <2>4, RowStaysReviewed
<1>12. ASSUME Sound PROVE Sound'
  <2>1. ~ lost' => /\ RowSound(v) /\ Reads(slot[s]) /\ to \in AllowedTransitions[ver[v].status]
                   /\ to = "PUBLISHED" => /\ <<"published", v, ver[v].sum>> \in objs
                                          /\ val[v][ver[v].sum] = "PASSED"
    <3>1. ~ lost' => RowSound(v) /\ Reads(slot[s]) /\ ~ slot[s].stale
      BY <1>1, <1>8, <1>12, Knowing
    <3>2. QED
      BY <1>1, <3>1 DEF Reads
  <2>2. ver[v].status \in Status
    BY <1>1 DEF Present
  <2>3. ~ lost' => /\ to \notin {"NONE", "UPLOADED"}
                   /\ ver[v].status \in Family => to \in Family
                   /\ to \in Family /\ to # "PUBLISHED" => ver[v].status \in Family
                   /\ ver[v].status # "RETIRED"
    BY <2>1, <2>2, Statuses DEF AllowedTransitions, Family
  <2>4. ~ lost' => RowSound(v)'
    <3>1. ASSUME ~ lost' PROVE RowSound(v)'
      <4>1. ver'[v].status = to /\ ver'[v].obj = o /\ ver'[v].sum = ver[v].sum /\ val' = val /\ objs' = objs
        BY <1>1, <1>5, <1>7, <1>8
      <4>2. o = IF to = "PUBLISHED" THEN "published" ELSE ver[v].obj
        BY <1>2
      <4>3. QED
        BY <1>1, <2>1, <2>3, <3>1, <4>1, <4>2 DEF RowSound, Family
    <3>2. QED
      BY <3>1
  <2>5. ~ lost' => Reads(slot[s])'
    <3>1. ASSUME ~ lost', NEW x \in Version, NEW q \in Package, <<"published", x, q>> \in slot[s].drops
          PROVE  ver'[x].status \in {"RETIRED", "DELETED"}
      <4>1. ver[x].status \in {"RETIRED", "DELETED"}
        BY <2>1, <3>1 DEF Reads
      <4>2. x # v
        BY <2>2, <2>3, <3>1, <4>1, Statuses
      <4>3. QED
        BY <1>8, <4>1, <4>2
    <3>2. QED
      BY <1>8, <3>1, OnReads
  <2>6. ~ lost' => (ver[v].status \in {"RETIRED", "DELETED"} => r.status \in {"RETIRED", "DELETED"})
    BY <2>2, <2>3, Statuses
  <2>7. QED
    BY <1>1, <1>7, <1>8, <1>12, <2>4, <2>5, <2>6, RowStaysSound
<1>13. Suspended => Suspended'
  BY <1>1, <1>7, <1>8, WritesStay
<1>14. QED
  BY <1>11, <1>12, <1>13 DEF Stay

LEMMA AppealStays == ASSUME Shape, NEW s \in Slot, Appeal(s) PROVE Stay
<1>1. PICK v \in Version : v = slot[s].v /\ ver[v] \in VersionRow /\ slot[s].pc = "appeal" /\ TypeOK
  BY DEF Shape, TypeOK, Appeal, At, Carries, OnVersion
<1>2. UNCHANGED <<ext, publisher, key, val, approvals, inst, objs, job, sender, lost, used>>
  BY DEF Appeal
<1>3. CASE ver' = ver /\ wk' = wk /\ slot' = [slot EXCEPT ![s] = IdleRequest]
  BY <1>1, <1>2, <1>3, EndsStay DEF Stay
<1>4. CASE ~ (ver' = ver /\ wk' = wk /\ slot' = [slot EXCEPT ![s] = IdleRequest])
  <2>1. /\ ver[v].status = "REJECTED"
        /\ slot' = [StaleRequests(s, {v}) EXCEPT ![s] = IdleRequest]
        /\ wk' = StaleRuns(None, {v})
        /\ ver' = [ver EXCEPT ![v].status = "AWAITING_REVIEW", ![v].reviewer = None]
    BY <1>1, <1>4 DEF Appeal, Finish
  <2>2. PICK r : r = AppealOf(ver[v])
    OBVIOUS
  <2>3. r.status = "AWAITING_REVIEW" /\ r.obj = ver[v].obj /\ r.sum = ver[v].sum /\ r.by = ver[v].by
    BY <1>1, <2>2, AppealRow
  <2>4. \A x \in Version : ver'[x] = IF x = v THEN r ELSE ver[x]
    BY <1>1, <2>1, <2>2 DEF AppealOf, TypeOK
  <2>5. slot'[s] = IdleRequest /\ \A t \in Slot : t # s => Knows(t, {v})
    BY <1>1, <2>1, Idles, TellingAll
  <2>6. \A w \in Worker : RunKnows(w, {v})
    BY <1>1, <2>1, TellingAllRuns
  <2>7. Present(v)
    BY <2>1, Statuses DEF Present
  <2>8. Reviewed => Reviewed'
    <3>1. slot'[s].pc \notin {"write", "effects"}
      BY <2>5, IdleReads
    <3>2. QED
      BY <1>2, <2>3, <2>4, <2>5, <2>7, <3>1, RowStaysReviewed
  <2>9. ASSUME Sound PROVE Sound'
    <3>1. ~ lost' => RowSound(v)'
      <4>1. ~ lost' => RowSound(v)
        BY <1>2, <2>9, Knowing
      <4>2. ver'[v].status = "AWAITING_REVIEW" /\ ver'[v].obj = ver[v].obj /\ ver'[v].sum = ver[v].sum
        BY <2>3, <2>4
      <4>3. QED
        BY <1>2, <2>1, <2>7, <4>1, <4>2 DEF RowSound, Family
    <3>2. Reads(slot[s])'
      BY <2>5, IdleReads
    <3>3. ver[v].status \notin {"RETIRED", "DELETED"}
      BY <2>1
    <3>4. QED
      BY <1>2, <2>4, <2>5, <2>6, <2>9, <3>1, <3>2, <3>3, RowStaysSound
  <2>10. Suspended => Suspended'
    BY <1>1, <1>2, <2>5, WritesStay
  <2>11. QED
    BY <2>8, <2>9, <2>10 DEF Stay
<1>5. QED
  BY <1>3, <1>4

LEMMA DropRowStays == ASSUME Shape, NEW s \in Slot, DropRow(s) PROVE Stay
<1>1. PICK v \in Version : v = slot[s].v /\ Present(v) /\ slot[s].pc = "dropRow" /\ TypeOK
  BY DEF Shape, TypeOK, DropRow, At, Carries, OnVersion
<1>2. PICK r : r = GoneRow
  OBVIOUS
<1>3. r \in VersionRow /\ r.status = "DELETED" /\ r.obj = None
  BY <1>2, FreshRows
<1>4. /\ Overwrite(s, r, "idle") /\ UNCHANGED <<ext, publisher, key, inst, objs, job, sender, used>>
      /\ val' = [val EXCEPT ![v] = [p \in Package |-> "NONE"]]
      /\ approvals' = [approvals EXCEPT ![v] = {}]
  BY <1>1, <1>2 DEF DropRow, GoneRow
<1>5. /\ \A x \in Version : ver'[x] = IF x = v THEN r ELSE ver[x]
      /\ Went(s, "idle")
      /\ \A t \in Slot : t # s => Knows(t, {v})
      /\ \A w \in Worker : RunKnows(w, {v})
      /\ lost' = (lost \/ slot[s].stale)
  <2>1. r \in VersionRow /\ Overwrite(s, r, "idle") /\ v = slot[s].v
    BY <1>1, <1>3, <1>4
  <2>2. Rewritten(s, v, r, "idle")
    BY <2>1, Overwrites
  <2>3. QED
    BY <2>2 DEF Rewritten
<1>6. /\ \A x \in Version \ {v} : val'[x] = val[x] /\ approvals'[x] = approvals[x]
      /\ \A p \in Package : val'[v][p] = "NONE"
  BY <1>1, <1>4 DEF TypeOK
<1>7. slot'[s].pc = "idle" /\ Reads(slot[s])'
  BY <1>5, IdleReads DEF Went
<1>8. ~ Present(v)' /\ ver'[v].status = "DELETED"
  BY <1>3, <1>5, Statuses DEF Present
<1>9. Reviewed => Reviewed'
  <2>1. \A x \in Version \ {v} : /\ ver'[x].status = ver[x].status /\ ver'[x].by = ver[x].by
                                 /\ approvals'[x] = approvals[x]
    BY <1>5, <1>6
  <2>2. \A x \in Version \cap {v} : ver'[x].status = "DELETED" /\ ~ Present(x)'
    BY <1>8
  <2>3. QED
    BY <1>5, <1>7, <2>1, <2>2, StaysReviewed
<1>10. ASSUME Sound PROVE Sound'
  <2>1. RowSound(v)'
    BY <1>3, <1>5, <1>6, <1>8, PipelineAssumption DEF RowSound, Family
  <2>2. QED
    BY <1>3, <1>4, <1>5, <1>6, <1>7, <1>10, <2>1, RowStaysSound
<1>11. Suspended => Suspended'
  BY <1>1, <1>4, <1>5, WritesStay
<1>12. QED
  BY <1>9, <1>10, <1>11 DEF Stay

LEMMA PurgeRowsStays == ASSUME Shape, NEW s \in Slot, PurgeRows(s) PROVE Stay
<1>1. /\ TypeOK /\ ext' = "DELETED" /\ ver' = Gone(Version)
      /\ val' = [x \in Version |-> [p \in Package |-> "NONE"]]
      /\ approvals' = [x \in Version |-> {}]
      /\ slot' = [StaleRequests(s, Version) EXCEPT ![s] = IdleRequest]
      /\ wk' = StaleRuns(None, Version) /\ lost' = (lost \/ slot[s].stale)
      /\ UNCHANGED <<publisher, key, objs, job, sender, used>>
  BY DEF PurgeRows, Shape
<1>2. \A x \in Version : ver'[x] = IF Present(x) THEN GoneRow ELSE ver[x]
  BY <1>1 DEF Gone, GoneRow
<1>3. \A x \in Version : /\ ver'[x].status = IF Present(x) THEN "DELETED" ELSE ver[x].status
                         /\ ~ Present(x)' /\ approvals'[x] = {} /\ \A p \in Package : val'[x][p] = "NONE"
  BY <1>1, <1>2, FreshRows, Statuses DEF Present
<1>4. slot'[s] = IdleRequest /\ \A t \in Slot : t # s => Knows(t, Version)
  BY <1>1, Idles, TellingAll
<1>5. \A w \in Worker : RunKnows(w, Version)
  BY <1>1, TellingAllRuns
<1>6. slot'[s].pc = "idle" /\ Reads(slot[s])'
  BY <1>4, IdleReads
<1>7. ASSUME Reviewed PROVE Reviewed'
  <2>1. ASSUME NEW t \in Slot PROVE Decides(slot[t])'
    <3>1. CASE t = s
      BY <1>6, <3>1 DEF Decides
    <3>2. CASE t # s
      <4>1. slot'[t].pc \in {"write", "effects"} => slot'[t].v \in Version
        BY <1>4, <3>2 DEF Knows, Shape, Carries, OnVersion
      <4>2. QED
        BY <1>3, <4>1 DEF Decides
    <3>3. QED
      BY <3>1, <3>2
  <2>2. \A x \in Version : ver'[x].status # "PUBLISHED"
    BY <1>3, Statuses DEF Present
  <2>3. QED
    BY <1>3, <2>1, <2>2 DEF Reviewed
<1>8. ASSUME Sound PROVE Sound'
  <2>1. ~ lost' => \A x \in Version \cap Version :
          /\ RowSound(x)'
          /\ ver[x].status \in {"RETIRED", "DELETED"} => ver'[x].status \in {"RETIRED", "DELETED"}
    <3>1. ASSUME ~ lost', NEW x \in Version PROVE RowSound(x)'
      <4>1. CASE Present(x)
        <5>1. ver'[x].status = "DELETED"
          BY <1>3, <4>1
        <5>2. QED
          BY <1>3, <5>1 DEF RowSound, Family
      <4>2. CASE ~ Present(x)
        <5>1. ver'[x].obj = ver[x].obj /\ ver'[x].status = ver[x].status /\ ver[x].status \notin Status
          BY <1>2, <4>2 DEF Present
        <5>2. RowSound(x)
          BY <1>1, <1>8, <3>1, Knowing
        <5>3. QED
          BY <1>3, <5>1, <5>2, Statuses DEF RowSound, Family
      <4>3. QED
        BY <4>1, <4>2
    <3>2. \A x \in Version : ver[x].status \in {"RETIRED", "DELETED"} => ver'[x].status \in {"RETIRED", "DELETED"}
      BY <1>3
    <3>3. QED
      BY <3>1, <3>2
  <2>2. QED
    BY <1>1, <1>4, <1>5, <1>6, <1>8, <2>1, StaysSound
<1>9. Suspended'
  BY <1>1 DEF Suspended
<1>10. QED
  BY <1>7, <1>8, <1>9 DEF Stay

LEMMA BlockStays == ASSUME Shape, NEW s \in Slot, BlockSigned(s) PROVE Stay
<1>1. PICK V : /\ V = {x \in Signed : ver[x].status \in {"PUBLISHED", "DEPRECATED"}}
               /\ ver' = [x \in Version |-> IF x \in V THEN [ver[x] EXCEPT !.status = "BLOCKED"] ELSE ver[x]]
               /\ slot' = [StaleRequests(s, V) EXCEPT ![s].pc = "disable"]
               /\ wk' = StaleRuns(None, V) /\ slot[s].pc = "block" /\ TypeOK
  BY DEF BlockSigned, At, Shape
<1>2. UNCHANGED <<ext, publisher, key, val, approvals, inst, objs, job, sender, lost, used>>
  BY DEF BlockSigned
<1>3. \A x \in Version : /\ ver'[x].obj = ver[x].obj /\ ver'[x].sum = ver[x].sum /\ ver'[x].by = ver[x].by
                         /\ ver'[x].status = IF x \in V THEN "BLOCKED" ELSE ver[x].status
  <2>1. ASSUME NEW x \in Version
        PROVE  /\ ver'[x].obj = ver[x].obj /\ ver'[x].sum = ver[x].sum /\ ver'[x].by = ver[x].by
               /\ ver'[x].status = IF x \in V THEN "BLOCKED" ELSE ver[x].status
    <3>1. PICK y \in VersionRow : y = ver[x]
      BY <1>1 DEF TypeOK
    <3>2. ver'[x] = IF x \in V THEN [y EXCEPT !.status = "BLOCKED"] ELSE y
      BY <1>1, <3>1
    <3>3. QED
      BY <3>1, <3>2 DEF VersionRow
  <2>2. QED
    BY <2>1
<1>4. PICK n : n = GoneTo(slot[s], "disable")
  OBVIOUS
<1>5. PICK q \in Request : q = slot[s]
  BY <1>1 DEF TypeOK
<1>6. n \in Request /\ n.pc = "disable" /\ n.drops = q.drops
  BY <1>4, <1>5, GotoFields
<1>7. slot' = [StaleRequests(s, V) EXCEPT ![s] = n]
  <2>1. StaleRequests(s, V)[s] = slot[s]
    BY DEF StaleRequests
  <2>2. QED
    BY <1>1, <1>4, <2>1 DEF GoneTo
<1>8. slot'[s] = n /\ \A t \in Slot : t # s => Knows(t, V)
  <2>1. TypeOK /\ n \in Request /\ slot' = [StaleRequests(s, V) EXCEPT ![s] = n]
    BY <1>1, <1>6, <1>7
  <2>2. QED
    BY <2>1, TellingAll
<1>9. \A w \in Worker : RunKnows(w, V)
  BY <1>1, TellingAllRuns
<1>10. \A x \in V : x \in Version /\ ver[x].status \in {"PUBLISHED", "DEPRECATED"} /\ Present(x)
  BY <1>1, Statuses DEF Signed, Present
<1>11. ASSUME Reviewed PROVE Reviewed'
  <2>1. \A x \in Version \ V : /\ ver'[x].status = ver[x].status /\ ver'[x].by = ver[x].by
                               /\ approvals'[x] = approvals[x]
    BY <1>2, <1>3
  <2>2. \A x \in Version \cap V : /\ ver'[x].status = "BLOCKED" /\ Present(x) /\ ver'[x].by = ver[x].by
                                  /\ approvals'[x] = approvals[x] /\ ver'[x].by \notin approvals'[x]
    BY <1>2, <1>3, <1>10, <1>11 DEF Reviewed
  <2>3. slot'[s].pc \notin {"write", "effects"}
    BY <1>6, <1>8
  <2>4. QED
    BY <1>8, <1>11, <2>1, <2>2, <2>3, StaysReviewed
<1>12. ASSUME Sound PROVE Sound'
  <2>1. ~ lost' => \A x \in Version \cap V :
          /\ RowSound(x)'
          /\ ver[x].status \in {"RETIRED", "DELETED"} => ver'[x].status \in {"RETIRED", "DELETED"}
    <3>1. ASSUME ~ lost', NEW x \in Version, x \in V PROVE RowSound(x)'
      <4>1. RowSound(x) /\ ver[x].status \in Family /\ Present(x) /\ ver'[x].status = "BLOCKED"
            /\ ver'[x].obj = ver[x].obj /\ ver'[x].sum = ver[x].sum
        BY <1>2, <1>3, <1>10, <1>12, <3>1, Knowing DEF Family
      <4>2. QED
        BY <1>2, <4>1 DEF RowSound, Family
    <3>2. QED
      BY <1>10, <3>1
  <2>2. \A x \in Version \ V : /\ ver'[x].status = ver[x].status /\ ver'[x].sum = ver[x].sum
                               /\ ver'[x].obj = ver[x].obj
                               /\ \A p \in Package : val'[x][p] = val[x][p] \/ ValGrows(x, p)
    BY <1>2, <1>3
  <2>3. ~ lost' => Reads(slot[s])'
    <3>1. ASSUME ~ lost', NEW x \in Version, NEW p \in Package, <<"published", x, p>> \in slot'[s].drops
          PROVE  ver'[x].status \in {"RETIRED", "DELETED"}
      <4>1. <<"published", x, p>> \in slot[s].drops /\ Reads(slot[s])
        BY <1>2, <1>5, <1>6, <1>8, <1>12, <3>1, Knowing
      <4>2. ver[x].status \in {"RETIRED", "DELETED"}
        BY <4>1 DEF Reads
      <4>3. QED
        BY <1>3, <1>10, <4>2
    <3>2. QED
      BY <1>6, <1>8, <3>1 DEF Reads
  <2>4. QED
    BY <1>2, <1>8, <1>9, <1>12, <2>1, <2>2, <2>3, StaysSound
<1>13. Suspended => Suspended'
  BY <1>1, <1>2, <1>8, WritesStay
<1>14. QED
  BY <1>11, <1>12, <1>13 DEF Stay

LEMMA KnowsLess == ASSUME NEW t \in Slot, NEW V, Knows(t, V) PROVE Knows(t, {})
BY DEF Knows

(* A request goes on, and no row of a version has changed.                 *)
LEMMA GoesStay ==
  ASSUME Shape, NEW s \in Slot, NEW V, \A t \in Slot : t # s => Knows(t, V),
         ver' = ver, val' = val, approvals' = approvals, wk' = wk, ~ lost' => ~ lost,
         \A x \in Version, p \in Package : <<"published", x, p>> \in objs =>
           <<"published", x, p>> \in objs' \/ <<"published", x, p>> \in slot[s].drops,
         Separation /\ Reviewed => Decides(slot[s])', Sound /\ ~ lost' => Reads(slot[s])'
  PROVE  /\ Separation /\ Reviewed => Reviewed'
         /\ Sound => Sound'
<1>1. \A t \in Slot : t # s => Knows(t, {})
  BY KnowsLess
<1>2. \A w \in Worker : RunKnows(w, {})
  BY DEF RunKnows
<1>3. ASSUME Separation, Reviewed PROVE Reviewed'
  BY <1>1, <1>3, StaysReviewed
<1>4. ASSUME Sound PROVE Sound'
  BY <1>1, <1>2, <1>4, StaysSound
<1>5. QED
  BY <1>3, <1>4

LEMMA EffectsStay == ASSUME Shape, NEW s \in Slot, Effects(s) PROVE Stay
<1>1. PICK v \in Version :
        /\ v = slot[s].v /\ slot[s].pc = "effects" /\ slot[s].u \in User /\ Present(v) /\ TypeOK
        /\ slot[s].to \in {"PUBLISHED", "BLOCKED", "RETIRED", "APPROVED"}
  BY DEF Shape, Effects, Refused, At, Carries, OnVersion
<1>2. /\ slot' = [slot EXCEPT ![s] = IdleRequest]
      /\ UNCHANGED <<ver, publisher, key, val, job, wk, sender, used>>
      /\ lost' = (lost \/ (slot[s].to = "PUBLISHED" /\ publisher # "ACTIVE"))
  BY DEF Effects, Finish
<1>3. slot'[s] = IdleRequest /\ \A t \in Slot : t # s => Knows(t, {})
  BY <1>1, <1>2, Going3
<1>4. \A t \in Slot : At(t, "suspend") => At(t, "suspend")'
  BY <1>1, <1>3, SuspendKept DEF At
<1>5. /\ slot[s].to # "APPROVED" => approvals' = approvals
      /\ slot[s].to = "APPROVED" => /\ ext' = ext /\ objs' = objs
                                    /\ approvals' = [approvals EXCEPT ![v] = @ \cup {slot[s].u}]
      /\ \A x \in Version, p \in Package : <<"published", x, p>> \in objs => <<"published", x, p>> \in objs'
      /\ slot[s].to # "PUBLISHED" => ext' = ext \/ ext' = "RETIRED"
  <2>1. CASE slot[s].to = "PUBLISHED"
    BY <2>1 DEF Effects
  <2>2. CASE slot[s].to = "BLOCKED"
    BY <2>2 DEF Effects
  <2>3. CASE slot[s].to = "RETIRED"
    BY <2>3 DEF Effects
  <2>4. CASE slot[s].to = "APPROVED"
    BY <1>1, <2>4 DEF Effects
  <2>5. QED
    BY <1>1, <2>1, <2>2, <2>3, <2>4
<1>6. Suspended => Suspended'
  <2>1. ext' = ext \/ ext' # "ACTIVE" \/ publisher = "ACTIVE" \/ lost'
    BY <1>1, <1>2, <1>5
  <2>2. QED
    BY <1>2, <1>4, <2>1, StaysSuspended
<1>7. CASE slot[s].to # "APPROVED"
  BY <1>1, <1>2, <1>5, <1>6, <1>7, EndsStay DEF Stay
<1>8. CASE slot[s].to = "APPROVED"
  <2>1. PICK u \in User : u = slot[s].u
    BY <1>1
  <2>2. \A x \in Version : approvals'[x] = IF x = v THEN approvals[x] \cup {u} ELSE approvals[x]
    BY <1>1, <1>5, <1>8, <2>1 DEF TypeOK
  <2>3. ASSUME Reviewed PROVE Reviewed'
    <3>1. ver[v].by # u /\ ver[v].by \notin approvals[v]
      BY <1>1, <1>8, <2>1, <2>3 DEF Reviewed, Decides
    <3>2. \A x \in Version \ {v} : /\ ver'[x].status = ver[x].status /\ ver'[x].by = ver[x].by
                                   /\ approvals'[x] = approvals[x]
      BY <1>2, <2>2
    <3>3. \A x \in Version \cap {v} :
            /\ ver'[x].status # "NONE" /\ Present(x) /\ ver'[x].by = ver[x].by
            /\ ver'[x].by \notin approvals'[x] /\ approvals[x] \subseteq approvals'[x] /\ approvals'[x] # {}
      BY <1>1, <1>2, <2>2, <3>1, Statuses DEF Present
    <3>4. ASSUME NEW t \in Slot, t # s PROVE Knows(t, {v}) \/ slot'[t].pc \notin {"write", "effects"} \/ Decides(slot[t])'
      <4>1. Knows(t, {}) /\ Decides(slot[t])
        BY <1>3, <2>3, <3>4 DEF Reviewed
      <4>2. slot'[t].pc \in {"write", "effects"} => slot[t].v \in Version
        BY <4>1 DEF Knows, Shape, Carries, OnVersion
      <4>3. \A x \in Version : approvals[x] # {} => approvals'[x] # {}
        BY <2>2
      <4>4. QED
        BY <1>2, <4>1, <4>2, <4>3 DEF Knows, Decides, Present
    <3>5. slot'[s].pc \notin {"write", "effects"}
      BY <1>3, IdleReads
    <3>6. \A x \in Version \cap {v} :
            /\ ver'[x].status # "NONE"
            /\ Present(x)' => /\ ver'[x].by \notin approvals'[x]
                              /\ Present(x) => ver'[x].by = ver[x].by /\ approvals[x] \subseteq approvals'[x]
                              /\ Present(x) \/ ver[x].status = "NONE"
            /\ ver'[x].status = "PUBLISHED" => approvals'[x] # {}
      BY <3>3
    <3>7. QED
      BY <2>3, <3>2, <3>4, <3>5, <3>6, StaysReviewed
  <2>4. Sound => Sound'
    <3>1. Reads(slot[s])'
      BY <1>3, IdleReads
    <3>2. \A w \in Worker : RunKnows(w, {})
      BY <1>2 DEF RunKnows
    <3>3. ~ lost' => ~ lost
      BY <1>2
    <3>4. QED
      BY <1>2, <1>3, <1>5, <3>1, <3>2, <3>3, StaysSound
  <2>5. QED
    BY <1>6, <2>3, <2>4 DEF Stay
<1>9. QED
  BY <1>7, <1>8

LEMMA PublishStays == ASSUME Shape, NEW s \in Slot, Publish(s) PROVE Stay
<1>1. PICK q \in Request : q = slot[s] /\ q.pc = "publish" /\ TypeOK /\ Carries(q)
  BY DEF Shape, TypeOK, Publish, At
<1>2. /\ UNCHANGED <<ver, ext, publisher, key, val, approvals, inst, job, wk, sender, lost, used>>
      /\ \A o \in objs : o \in objs'
  BY DEF Publish, rows
<1>3. CASE slot' = [slot EXCEPT ![s] = IdleRequest]
  BY <1>1, <1>2, <1>3, EndsStay DEF Stay
<1>4. CASE slot' # [slot EXCEPT ![s] = IdleRequest]
  <2>1. PICK v \in Version : v = q.v /\ q.to = "PUBLISHED"
    BY <1>1 DEF Carries, OnVersion
  <2>2. /\ Goto(s, "write") /\ Present(v) /\ Ready(v)
        /\ objs' = objs \cup {<<"published", v, q.p>>}
    BY <1>1, <1>4, <2>1 DEF Publish, Finish
  <2>3. PICK n : n = GoneTo(q, "write")
    OBVIOUS
  <2>4. /\ n.pc = "write" /\ n.v = v /\ n.to = "PUBLISHED" /\ n.p = q.p /\ n.drops = q.drops
        /\ n.stale = q.stale
    BY <1>1, <2>1, <2>3 DEF GoneTo, Request
  <2>5. slot'[s] = n /\ \A t \in Slot : t # s => Knows(t, {})
    <3>1. slot' = [slot EXCEPT ![s] = n]
      BY <1>1, <2>2, <2>3, Going2
    <3>2. QED
      BY <1>1, <3>1, Going3
  <2>6. Decides(slot[s])'
    BY <1>2, <2>2, <2>4, <2>5 DEF Decides, Ready
  <2>7. ASSUME Sound, ~ lost' PROVE Reads(slot[s])'
    <3>1. Reads(q) /\ RowSound(v)
      BY <1>1, <1>2, <2>7, Knowing
    <3>2. ASSUME ~ q.stale
          PROVE  Present(v) /\ q.to \in AllowedTransitions[ver[v].status] /\ ver[v].sum = q.p /\ val[v][q.p] = "PASSED"
      <4>1. Present(v) /\ q.to \in AllowedTransitions[ver[v].status] /\ ver[v].sum = q.p
        BY <1>1, <2>1, <3>1, <3>2 DEF Reads
      <4>2. PICK p \in Package : val[v][p] = "PASSED"
        BY <2>2 DEF Ready
      <4>3. ver[v].sum = p
        BY <3>1, <4>1, <4>2 DEF RowSound
      <4>4. QED
        BY <4>1, <4>2, <4>3
    <3>3. \A x \in Version, p \in Package :
            <<"published", x, p>> \in n.drops => ver'[x].status \in {"RETIRED", "DELETED"}
      BY <1>2, <2>4, <3>1 DEF Reads
    <3>4. QED
      BY <1>2, <2>1, <2>2, <2>4, <2>5, <3>2, <3>3 DEF Reads, Present
  <2>8. Suspended => Suspended'
    BY <1>1, <1>2, <2>5, WritesStay
  <2>9. QED
    BY <1>1, <1>2, <2>5, <2>6, <2>7, <2>8, GoesStay DEF Stay
<1>5. QED
  BY <1>3, <1>4

LEMMA DropsStay == ASSUME Shape, NEW s \in Slot, DropObjects(s) \/ PurgeObjects(s) PROVE Stay
<1>1. PICK q \in Request, pc \in {"dropRow", "purgeRows"} :
        q = slot[s] /\ TypeOK /\ Goto(s, pc) /\ q.pc \in {"dropObjects", "purgeObjects"} /\ objs' = objs \ q.drops
  BY DEF Shape, TypeOK, DropObjects, PurgeObjects, At
<1>2. UNCHANGED <<ver, ext, publisher, key, val, approvals, inst, job, wk, sender, lost, used>>
  BY DEF DropObjects, PurgeObjects, rows
<1>3. PICK n : n = GoneTo(q, pc)
  OBVIOUS
<1>4. n.pc = pc /\ n.drops = q.drops
  BY <1>1, <1>3 DEF GoneTo, Request
<1>5. slot'[s] = n /\ \A t \in Slot : t # s => Knows(t, {})
  <2>1. slot' = [slot EXCEPT ![s] = n]
    BY <1>1, <1>3, Going2
  <2>2. QED
    BY <1>1, <2>1, Going3
<1>6. Decides(slot[s])'
  BY <1>1, <1>4, <1>5 DEF Decides
<1>7. ASSUME Sound, ~ lost' PROVE Reads(slot[s])'
  <2>1. Reads(q)
    BY <1>1, <1>2, <1>7, Knowing
  <2>2. \A x \in Version, p \in Package :
          <<"published", x, p>> \in n.drops => ver'[x].status \in {"RETIRED", "DELETED"}
    BY <1>2, <1>4, <2>1 DEF Reads
  <2>3. QED
    BY <1>1, <1>4, <1>5, <2>2 DEF Reads
<1>8. \A x \in Version, p \in Package : <<"published", x, p>> \in objs =>
        <<"published", x, p>> \in objs' \/ <<"published", x, p>> \in slot[s].drops
  BY <1>1
<1>9. Suspended => Suspended'
  BY <1>1, <1>2, <1>5, WritesStay
<1>10. QED
  BY <1>1, <1>2, <1>5, <1>6, <1>7, <1>8, <1>9, GoesStay DEF Stay

LEMMA PublisherStays == ASSUME Shape, NEW s \in Slot, SetPublisherStatus(s) PROVE Stay
<1>1. PICK q \in Request : q = slot[s] /\ q.pc = "publisher" /\ TypeOK
  BY DEF Shape, TypeOK, SetPublisherStatus, At
<1>2. /\ UNCHANGED <<ver, ext, key, val, approvals, inst, objs, job, wk, sender, lost, used>>
      /\ slot' = [StaleRequests(s, Version) EXCEPT ![s].pc = "suspend"]
  BY DEF SetPublisherStatus
<1>3. PICK n : n = GoneTo(q, "suspend")
  OBVIOUS
<1>4. n \in Request /\ n.pc = "suspend" /\ n.drops = q.drops
  BY <1>3 DEF GoneTo, Request
<1>5. slot' = [StaleRequests(s, Version) EXCEPT ![s] = n]
  <2>1. StaleRequests(s, Version)[s] = slot[s]
    BY DEF StaleRequests
  <2>2. QED
    BY <1>1, <1>2, <1>3, <2>1 DEF GoneTo
<1>6. slot'[s] = n /\ \A t \in Slot : t # s => Knows(t, Version)
  BY <1>1, <1>4, <1>5, TellingAll
<1>7. Decides(slot[s])'
  BY <1>4, <1>6 DEF Decides
<1>8. ASSUME Sound, ~ lost' PROVE Reads(slot[s])'
  <2>1. Reads(q)
    BY <1>1, <1>2, <1>8, Knowing
  <2>2. \A x \in Version, p \in Package :
          <<"published", x, p>> \in n.drops => ver'[x].status \in {"RETIRED", "DELETED"}
    BY <1>2, <1>4, <2>1 DEF Reads
  <2>3. QED
    BY <1>4, <1>6, <2>2 DEF Reads
<1>9. Suspended'
  BY <1>4, <1>6 DEF Suspended, At
<1>10. QED
  BY <1>2, <1>6, <1>7, <1>8, <1>9, GoesStay DEF Stay

LEMMA KeyStays == ASSUME Shape, NEW s \in Slot, SetSigningKeyStatus(s) PROVE Stay
<1>1. PICK q \in Request : q = slot[s] /\ q.pc = "key" /\ TypeOK
  BY DEF Shape, TypeOK, SetSigningKeyStatus, At
<1>2. UNCHANGED <<ver, ext, publisher, val, approvals, inst, objs, job, wk, sender, lost, used>>
  BY DEF SetSigningKeyStatus
<1>3. PICK n \in Request : /\ n = IdleRequest \/ n = GoneTo(q, "block")
                           /\ slot' = [StaleRequests(s, Version) EXCEPT ![s] = n]
  <2>1. StaleRequests(s, Version)[s] = slot[s]
    BY DEF StaleRequests
  <2>2. CASE q.to = "REVOKED"
    <3>1. slot' = [StaleRequests(s, Version) EXCEPT ![s].pc = "block"]
      BY <1>1, <2>2 DEF SetSigningKeyStatus
    <3>2. slot' = [StaleRequests(s, Version) EXCEPT ![s] = GoneTo(q, "block")]
      BY <1>1, <2>1, <3>1 DEF GoneTo
    <3>3. QED
      BY <3>2, GotoFields
  <2>3. CASE q.to # "REVOKED"
    BY <1>1, <2>3, Idles DEF SetSigningKeyStatus
  <2>4. QED
    BY <2>2, <2>3
<1>4. n.pc \in {"idle", "block"} /\ (n.drops = q.drops \/ n.drops = {})
  BY <1>3 DEF GoneTo, Request, IdleRequest
<1>5. slot'[s] = n /\ \A t \in Slot : t # s => Knows(t, Version)
  BY <1>1, <1>3, TellingAll
<1>6. Decides(slot[s])'
  BY <1>4, <1>5 DEF Decides
<1>7. ASSUME Sound, ~ lost' PROVE Reads(slot[s])'
  <2>1. Reads(q)
    BY <1>1, <1>2, <1>7, Knowing
  <2>2. \A x \in Version, p \in Package :
          <<"published", x, p>> \in n.drops => ver'[x].status \in {"RETIRED", "DELETED"}
    BY <1>2, <1>4, <2>1 DEF Reads
  <2>3. QED
    BY <1>4, <1>5, <2>2 DEF Reads
<1>8. Suspended => Suspended'
  BY <1>1, <1>2, <1>5, WritesStay
<1>9. QED
  BY <1>2, <1>5, <1>6, <1>7, <1>8, GoesStay DEF Stay

LEMMA ContinuesStay == ASSUME Shape, NEW s \in Slot, Continues(s) PROVE Stay
<1>1. CASE EnqueueUpload(s) \/ DisableSigned(s) \/ Install(s) \/ Activate(s) \/ Fail(s)
  <2>1. /\ slot' = [slot EXCEPT ![s] = IdleRequest]
        /\ UNCHANGED <<ver, ext, publisher, val, approvals, objs, wk, lost, used>>
        /\ slot[s].pc # "suspend"
    BY <1>1 DEF EnqueueUpload, DisableSigned, Install, Activate, Fail, Finish, At, Refused, rows
  <2>2. QED
    BY <2>1, EndsStay DEF Stay
<1>2. CASE SuspendExtensions(s)
  <2>1. /\ slot' = [slot EXCEPT ![s] = IdleRequest]
        /\ UNCHANGED <<ver, publisher, key, val, approvals, objs, job, wk, sender, used>>
        /\ lost' = (lost \/ slot[s].to # publisher)
        /\ slot[s].to # "ACTIVE" => ext' # "ACTIVE"
    BY <1>2 DEF SuspendExtensions, Finish
  <2>2. Suspended'
    BY <2>1 DEF Suspended
  <2>3. QED
    BY <2>1, <2>2, EndsStay DEF Stay
<1>3. QED
  BY <1>1, <1>2, DraftStays, QuarantineStays, TransitionStays, AppealStays, DropRowStays, PurgeRowsStays,
     BlockStays, EffectsStay, PublishStays, DropsStay, PublisherStays, KeyStays DEF Continues

(* A step that no request takes.                                           *)
LEMMA ElseStays ==
  ASSUME Shape, slot' = slot, publisher' = publisher, ext' = ext,
         used'.crashes = used.crashes, ~ lost' => ~ lost, Suspended
  PROVE  Suspended'
BY StaysSuspended DEF At

LEMMA SlotsKept ==
  ASSUME slot' = slot
  PROVE  \A t \in Slot : Knows(t, {})
BY DEF Knows

(* A step that changes no row of a version, nor a request.                 *)
LEMMA QuietStays ==
  ASSUME Shape, slot' = slot, ver' = ver, approvals' = approvals, lost' = lost, publisher' = publisher,
         ext' = ext, objs' = objs, used'.crashes = used.crashes,
         \A x \in Version, p \in Package : val'[x][p] = val[x][p] \/ ValGrows(x, p),
         \A w \in Worker : RunKnows(w, {}) \/ (Sound /\ ~ lost' => Validating(wk[w])')
  PROVE  Stay
<1>1. \A t \in Slot : Knows(t, {})
  BY SlotsKept
<1>2. Reviewed => Reviewed'
  BY <1>1, StaysReviewed
<1>3. ASSUME Sound PROVE Sound'
  BY <1>1, <1>3, StaysSound
<1>4. Suspended => Suspended'
  BY ElseStays
<1>5. QED
  BY <1>2, <1>3, <1>4 DEF Stay

LEMMA PublishersStay == ASSUME Shape, NEW u \in User, Publishers(u) PROVE Stay
<1>1. ASSUME NEW v \in Version, CreateVersion(u, v) PROVE Stay
  <2>1. PICK r : r = CreatedRow(u)
    OBVIOUS
  <2>2. r.status = "UPLOADED" /\ r.obj = None /\ r.by = u
    BY <2>1, FreshRows
  <2>3. /\ ver[v].status = "NONE" /\ ver' = [ver EXCEPT ![v] = r]
        /\ UNCHANGED <<ext, publisher, key, val, approvals, inst, objs, slot, job, wk, sender, lost, used>>
    BY <1>1, <2>1 DEF CreateVersion, CreatedRow
  <2>4. \A x \in Version : ver'[x] = IF x = v THEN r ELSE ver[x]
    BY <2>3 DEF Shape, TypeOK
  <2>5. \A t \in Slot : Knows(t, {v})
    <3>1. \A t \in Slot : slot[t].pc \in Reading => slot[t].v # v
      BY <2>3 DEF Shape, Carries, OnVersion, Reading
    <3>2. QED
      BY <2>3, <3>1 DEF Knows
  <2>6. ~ Present(v)
    BY <2>3, Statuses DEF Present
  <2>7. ASSUME Reviewed PROVE Reviewed'
    <3>1. approvals'[v] = {}
      BY <2>3, <2>7 DEF Reviewed
    <3>2. \A x \in Version \ {v} : /\ ver'[x].status = ver[x].status /\ ver'[x].by = ver[x].by
                                   /\ approvals'[x] = approvals[x]
      BY <2>3, <2>4
    <3>3. \A x \in Version \cap {v} :
            /\ ver'[x].status = "UPLOADED" /\ approvals'[x] = {} /\ ~ Present(x) /\ ver[x].status = "NONE"
      BY <2>2, <2>3, <2>4, <2>6, <3>1
    <3>4. QED
      BY <2>5, <2>7, <3>2, <3>3, StaysReviewed
  <2>8. ASSUME Sound PROVE Sound'
    <3>1. ~ lost' => RowSound(v)'
      <4>1. ~ lost' => RowSound(v)
        BY <2>3, <2>8, Knowing
      <4>2. ver'[v].status = "UPLOADED" /\ ver'[v].obj = None
        BY <2>2, <2>4
      <4>3. QED
        BY <2>3, <4>1, <4>2, PipelineAssumption DEF RowSound, Family
    <3>2. ASSUME NEW w \in Worker, ~ lost' PROVE Validating(wk[w])'
      <4>1. Validating(wk[w])
        BY <2>3, <2>8, <3>2, Knowing
      <4>2. wk[w].pc # "idle" => wk[w].v \in Version
        BY DEF Shape
      <4>3. wk'[w] = wk[w] /\ val' = val
        BY <2>3
      <4>4. ~ wk[w].stale /\ wk[w].pc \in {"scan", "finish"} => wk[w].v # v
        BY <2>6, <4>1 DEF Validating
      <4>5. QED
        BY <2>4, <4>1, <4>2, <4>3, <4>4 DEF Validating, Present
    <3>3. ver[v].status \notin {"RETIRED", "DELETED"}
      BY <2>3
    <3>4. QED
      BY <2>3, <2>4, <2>5, <2>8, <3>1, <3>2, <3>3, RowStaysSound
  <2>9. Suspended => Suspended'
    BY <2>3, ElseStays
  <2>10. QED
    BY <2>7, <2>8, <2>9 DEF Stay
<1>2. ASSUME NEW v \in Version, NEW p \in Package, UploadAgain(u, v, p) PROVE Stay
  <2>1. /\ ver[v].status \in {"QUARANTINED", "VALIDATING"} /\ ver[v].sum = p /\ ver[v].obj # None
        /\ val' = Pending(v, p)
        /\ UNCHANGED <<ver, ext, publisher, key, approvals, inst, objs, slot, wk, sender, lost, used>>
    BY <1>2 DEF UploadAgain
  <2>2. \A x \in Version, q \in Package :
          val'[x][q] = IF x = v /\ q = p /\ val[v][p] = "NONE" THEN "PENDING" ELSE val[x][q]
    BY <2>1 DEF Pending, Shape, TypeOK
  <2>3. \A x \in Version, q \in Package : val'[x][q] = val[x][q] \/ ValGrows(x, q)
    BY <2>1, <2>2, Statuses DEF ValGrows, Present
  <2>4. \A w \in Worker : RunKnows(w, {})
    BY <2>1 DEF RunKnows
  <2>5. QED
    BY <2>1, <2>3, <2>4, QuietStays
<1>3. QED
  BY <1>1, <1>2 DEF Publishers

(* A worker that ends its attempt has nothing to validate.                 *)
LEMMA IdleValidating == IdleRun.pc = "idle"
BY DEF IdleRun

LEMMA RunEnds ==
  ASSUME TypeOK, NEW w \in Worker, wk' = [wk EXCEPT ![w] = IdleRun]
  PROVE  \A x \in Worker : RunKnows(x, {}) \/ Validating(wk[x])'
<1>1. \A x \in Worker : wk'[x] = IF x = w THEN IdleRun ELSE wk[x]
  BY DEF TypeOK
<1>2. Validating(wk[w])'
  BY <1>1, IdleValidating DEF Validating
<1>3. \A x \in Worker : x # w => RunKnows(x, {})
  BY <1>1 DEF RunKnows
<1>4. QED
  BY <1>2, <1>3

LEMMA FetchStays ==
  ASSUME Shape, NEW w \in Worker, NEW v \in Version, NEW p \in Package, Fetch(w, v, p)
  PROVE  Stay
<1>1. PICK r : r = [IdleRun EXCEPT !.pc = "read", !.v = v, !.p = p]
  OBVIOUS
<1>2. r.pc = "read"
  BY <1>1 DEF IdleRun
<1>3. wk' = [wk EXCEPT ![w] = r] /\ UNCHANGED <<rows, objs, slot, sender, lost, used>>
  BY <1>1 DEF Fetch
<1>4. \A x \in Worker : wk'[x] = IF x = w THEN r ELSE wk[x]
  BY <1>3 DEF Shape, TypeOK
<1>5. Validating(wk[w])'
  BY <1>2, <1>4 DEF Validating
<1>6. \A x \in Worker : x # w => RunKnows(x, {})
  BY <1>4 DEF RunKnows
<1>7. QED
  BY <1>3, <1>5, <1>6, QuietStays DEF rows

LEMMA ScanStays == ASSUME Shape, NEW w \in Worker, Scan(w) PROVE Stay
<1>1. PICK q \in ValidatorRun : q = wk[w] /\ q.pc = "scan" /\ TypeOK
  BY DEF Scan, Shape, TypeOK
<1>2. UNCHANGED <<rows, objs, slot, sender, lost, used>>
  BY DEF Scan
<1>3. CASE wk' = [wk EXCEPT ![w] = IdleRun]
  BY <1>1, <1>2, <1>3, RunEnds, QuietStays DEF rows
<1>4. CASE wk' = [wk EXCEPT ![w].pc = "finish"]
  <2>1. PICK n : n = [q EXCEPT !.pc = "finish"]
    OBVIOUS
  <2>2. n.pc = "finish" /\ n.v = q.v /\ n.p = q.p /\ n.stale = q.stale
    BY <2>1 DEF ValidatorRun
  <2>3. \A x \in Worker : wk'[x] = IF x = w THEN n ELSE wk[x]
    BY <1>1, <1>4, <2>1 DEF TypeOK
  <2>4. Sound /\ ~ lost' => Validating(wk[w])'
    <3>1. Sound /\ ~ lost' => Validating(q)
      BY <1>1, <1>2, Knowing
    <3>2. QED
      BY <1>1, <1>2, <2>2, <2>3, <3>1 DEF Validating, rows, Present
  <2>5. \A x \in Worker : x # w => RunKnows(x, {})
    BY <2>3 DEF RunKnows
  <2>6. QED
    BY <1>2, <2>4, <2>5, QuietStays DEF rows
<1>5. QED
  BY <1>3, <1>4 DEF Scan

LEMMA StartValidationStays == ASSUME Shape, NEW w \in Worker, StartValidation(w) PROVE Stay
<1>1. PICK v \in Version, p \in Package : v = wk[w].v /\ p = wk[w].p /\ wk[w].pc = "read" /\ TypeOK
  BY DEF StartValidation, Shape
<1>2. UNCHANGED <<ext, publisher, key, approvals, inst, objs, sender, lost, used>>
  BY DEF StartValidation
<1>3. CASE wk' = [wk EXCEPT ![w] = IdleRun] /\ UNCHANGED <<ver, val, slot>>
  BY <1>1, <1>2, <1>3, RunEnds, QuietStays
<1>4. CASE ~ (wk' = [wk EXCEPT ![w] = IdleRun] /\ UNCHANGED <<ver, val, slot>>)
  <2>1. /\ Present(v) /\ ver[v].sum = p /\ ver[v].obj # None /\ val[v][p] \notin {"PASSED", "FAILED"}
        /\ val' = [val EXCEPT ![v][p] = "RUNNING"]
        /\ wk' = [StaleRuns(w, {v}) EXCEPT ![w].pc = "scan", ![w].manifest = ver[v].manifest]
    BY <1>1, <1>4 DEF StartValidation
  <2>2. \/ /\ ver[v].status \in {"QUARANTINED", "VALIDATING"}
           /\ ver' = [ver EXCEPT ![v].status = "VALIDATING"] /\ slot' = StaleRequests(None, {v})
        \/ ver' = ver /\ slot' = slot
    BY <1>1, <1>4 DEF StartValidation
  <2>3. PICK q \in ValidatorRun : q = wk[w]
    BY <1>1 DEF TypeOK
  <2>4. PICK m : m = [q EXCEPT !.pc = "scan", !.manifest = ver[v].manifest]
    OBVIOUS
  <2>5. m.pc = "scan" /\ m.v = v /\ m.p = p /\ m \in ValidatorRun
    BY <1>1, <2>3, <2>4 DEF ValidatorRun, TypeOK, VersionRow
  <2>6. \A x \in Worker : wk'[x] = IF x = w THEN m ELSE StaleRuns(w, {v})[x]
    <3>1. StaleRuns(w, {v})[w] = q /\ StaleRuns(w, {v}) \in [Worker -> ValidatorRun]
      <4>1. StaleRuns(w, {v})[w] = q
        BY <2>3 DEF StaleRuns
      <4>2. QED
        BY <1>1, <4>1, RunMarks
    <3>2. wk' = [StaleRuns(w, {v}) EXCEPT ![w] = m]
      BY <2>1, <2>4, <3>1
    <3>3. QED
      BY <3>1, <3>2
  <2>7. \A x \in Worker : x # w => RunKnows(x, {v})
    BY <1>1, <2>6, TellingRuns
  <2>8. \A x \in Version, y \in Package : val'[x][y] = IF x = v /\ y = p THEN "RUNNING" ELSE val[x][y]
    BY <1>1, <2>1 DEF TypeOK
  <2>9. CASE ver' = ver /\ slot' = slot
    <3>1. \A x \in Version, y \in Package : val'[x][y] = val[x][y] \/ ValGrows(x, y)
      BY <2>1, <2>8 DEF ValGrows
    <3>2. Validating(wk[w])'
      BY <2>1, <2>5, <2>6, <2>8, <2>9 DEF Validating, Present
    <3>3. \A x \in Worker : x # w => RunKnows(x, {})
      BY <2>7 DEF RunKnows
    <3>4. QED
      BY <1>2, <2>9, <3>1, <3>2, <3>3, QuietStays
  <2>10. CASE /\ ver[v].status \in {"QUARANTINED", "VALIDATING"}
              /\ ver' = [ver EXCEPT ![v].status = "VALIDATING"] /\ slot' = StaleRequests(None, {v})
    <3>1. PICK y \in VersionRow : y = ver[v]
      BY <1>1 DEF TypeOK
    <3>2. PICK r : r = [y EXCEPT !.status = "VALIDATING"]
      OBVIOUS
    <3>3. r.status = "VALIDATING" /\ r.obj = ver[v].obj /\ r.sum = ver[v].sum /\ r.by = ver[v].by
      BY <3>1, <3>2 DEF VersionRow
    <3>4. \A x \in Version : ver'[x] = IF x = v THEN r ELSE ver[x]
      BY <1>1, <2>10, <3>1, <3>2 DEF TypeOK
    <3>5. \A t \in Slot : Knows(t, {v})
      <4>1. \A t \in Slot : t # None /\ slot'[t] = StaleRequests(None, {v})[t]
        BY <2>10, PipelineAssumption
      <4>2. QED
        BY <1>1, <4>1, Telling
    <3>6. Reviewed => Reviewed'
      BY <1>2, <2>1, <3>3, <3>4, <3>5, RowStaysReviewed
    <3>7. ASSUME Sound PROVE Sound'
      <4>1. ~ lost' => RowSound(v)'
        <5>1. ~ lost' => RowSound(v)
          BY <1>2, <3>7, Knowing
        <5>2. ver'[v].status = "VALIDATING" /\ ver'[v].obj = ver[v].obj /\ ver'[v].sum = p /\ Present(v)
          BY <2>1, <3>3, <3>4
        <5>3. QED
          BY <1>2, <2>8, <2>10, <5>1, <5>2, <2>1 DEF RowSound, Family
      <4>2. Validating(wk[w])'
        <5>1. Present(v)' /\ ver'[v].sum = p /\ val'[v][p] = "RUNNING"
          BY <2>1, <2>8, <3>3, <3>4, Statuses DEF Present
        <5>2. QED
          BY <2>5, <2>6, <5>1 DEF Validating
      <4>3. ver[v].status \notin {"RETIRED", "DELETED"}
        BY <2>10
      <4>4. \A x \in Version \ {v} : val'[x] = val[x]
        BY <1>1, <2>1 DEF TypeOK
      <4>5. QED
        BY <1>2, <2>7, <3>4, <3>5, <3>7, <4>1, <4>2, <4>3, <4>4, RowStaysSound
    <3>8. Suspended => Suspended'
      <4>1. \A t \in Slot : At(t, "suspend") => At(t, "suspend")'
        BY <3>5, SuspendKept
      <4>2. QED
        BY <1>2, <4>1, StaysSuspended
    <3>9. QED
      BY <3>6, <3>7, <3>8 DEF Stay
  <2>11. QED
    BY <2>2, <2>9, <2>10
<1>5. QED
  BY <1>3, <1>4

LEMMA VerdictStays == ASSUME Shape, NEW w \in Worker, Verdict(w) PROVE Stay
<1>1. PICK v \in Version, p \in Package : v = wk[w].v /\ p = wk[w].p /\ wk[w].pc = "finish" /\ TypeOK
  BY DEF Verdict, Shape
<1>2. UNCHANGED <<ext, publisher, key, approvals, inst, objs, sender, used>>
  BY DEF Verdict
<1>3. CASE ~ Present(v)
  <2>1. wk' = [wk EXCEPT ![w] = IdleRun] /\ UNCHANGED <<ver, val, lost, slot>>
    BY <1>1, <1>3 DEF Verdict
  <2>2. QED
    BY <1>1, <1>2, <2>1, RunEnds, QuietStays
<1>4. CASE Present(v)
  <2>1. PICK ok \in BOOLEAN :
          /\ val' = [val EXCEPT ![v][p] = IF ok THEN "PASSED" ELSE "FAILED"]
          /\ ver' = [ver EXCEPT ![v].status = IF ok THEN "VALIDATED" ELSE "REJECTED",
                                ![v].manifest = IF ok THEN p ELSE wk[w].manifest]
          /\ lost' = (lost \/ wk[w].stale)
          /\ slot' = StaleRequests(None, {v})
          /\ wk' = [StaleRuns(w, {v}) EXCEPT ![w] = IdleRun]
    BY <1>1, <1>4 DEF Verdict
  <2>2. PICK y \in VersionRow : y = ver[v]
    BY <1>1 DEF TypeOK
  <2>3. PICK r : r = [y EXCEPT !.status = IF ok THEN "VALIDATED" ELSE "REJECTED",
                              !.manifest = IF ok THEN p ELSE wk[w].manifest]
    OBVIOUS
  <2>4. /\ r.status \in {"VALIDATED", "REJECTED"} /\ r.obj = ver[v].obj /\ r.sum = ver[v].sum
        /\ r.by = ver[v].by
    BY <2>2, <2>3 DEF VersionRow
  <2>5. \A x \in Version : ver'[x] = IF x = v THEN r ELSE ver[x]
    BY <1>1, <2>1, <2>2, <2>3 DEF TypeOK
  <2>6. \A x \in Version, q \in Package :
          val'[x][q] = IF x = v /\ q = p THEN (IF ok THEN "PASSED" ELSE "FAILED") ELSE val[x][q]
    BY <1>1, <2>1 DEF TypeOK
  <2>7. \A t \in Slot : Knows(t, {v})
    <3>1. \A t \in Slot : t # None /\ slot'[t] = StaleRequests(None, {v})[t]
      BY <2>1, PipelineAssumption
    <3>2. QED
      BY <1>1, <3>1, Telling
  <2>8. \A x \in Worker : wk'[x] = IF x = w THEN IdleRun ELSE StaleRuns(w, {v})[x]
    <3>1. StaleRuns(w, {v}) \in [Worker -> ValidatorRun]
      BY <1>1, RunMarks
    <3>2. QED
      BY <2>1, <3>1
  <2>9. \A x \in Worker : x # w => RunKnows(x, {v})
    BY <1>1, <2>8, TellingRuns
  <2>10. Validating(wk[w])'
    BY <2>8, IdleValidating DEF Validating
  <2>11. Reviewed => Reviewed'
    BY <1>2, <1>4, <2>4, <2>5, <2>7, RowStaysReviewed
  <2>12. ASSUME Sound PROVE Sound'
    <3>1. ~ lost' => RowSound(v) /\ ver[v].sum = p /\ val[v][p] = "RUNNING"
      <4>1. ~ lost' => RowSound(v) /\ Validating(wk[w]) /\ ~ wk[w].stale
        BY <2>1, <2>12, Knowing
      <4>2. QED
        BY <1>1, <4>1 DEF Validating
    <3>2. ver'[v].status \in {"VALIDATED", "REJECTED"} /\ ver'[v].obj = ver[v].obj /\ ver'[v].sum = ver[v].sum
      BY <2>4, <2>5
    <3>3. ~ lost' => ver[v].status \notin Family /\ ver[v].obj # "published"
      BY <1>4, <3>1 DEF RowSound
    <3>4. ~ lost' => RowSound(v)'
      BY <1>4, <2>6, <3>1, <3>2, <3>3 DEF RowSound, Family
    <3>5. ~ lost' => ver[v].status \notin {"RETIRED", "DELETED"}
      BY <1>4, <3>3, Statuses DEF Family, Present
    <3>6. \A x \in Version \ {v} : val'[x] = val[x]
      BY <1>1, <2>1 DEF TypeOK
    <3>7. ~ lost' => ~ lost
      BY <2>1
    <3>8. QED
      BY <1>2, <2>5, <2>7, <2>9, <2>10, <2>12, <3>4, <3>5, <3>6, <3>7, RowStaysSound
  <2>13. Suspended => Suspended'
    <3>1. \A t \in Slot : At(t, "suspend") => At(t, "suspend")'
      BY <2>7, SuspendKept
    <3>2. QED
      BY <1>2, <2>1, <3>1, StaysSuspended
  <2>14. QED
    BY <2>11, <2>12, <2>13 DEF Stay
<1>5. QED
  BY <1>3, <1>4

LEMMA NextStay == ASSUME Shape, [Next]_vars PROVE Stay
<1>1. ASSUME NEW s \in Slot, Crash(s) PROVE Stay
  <2>1. /\ slot' = [slot EXCEPT ![s] = IdleRequest] /\ UNCHANGED <<rows, objs, wk, lost>>
        /\ used' = [used EXCEPT !.crashes = @ + 1]
    BY <1>1 DEF Crash, Finish
  <2>2. used'.crashes # 0
    BY <2>1 DEF Shape, TypeOK
  <2>3. Suspended'
    BY <2>2 DEF Suspended
  <2>4. QED
    BY <2>1, <2>3, EndsStay DEF Stay, rows
<1>2. ASSUME NEW v \in Version, NEW p \in Package, Redeliver(v, p) PROVE Stay
  <2>1. UNCHANGED <<rows, objs, slot, wk, lost>> /\ used' = [used EXCEPT !.stalls = @ + 1]
    BY <1>2 DEF Redeliver
  <2>2. used'.crashes = used.crashes
    BY <2>1 DEF Shape, TypeOK
  <2>3. QED
    BY <2>1, <2>2, QuietStays DEF rows, RunKnows
<1>3. CASE (\E x \in School : Uninstall(x)) \/ UNCHANGED vars
  <2>1. UNCHANGED <<ver, ext, publisher, val, approvals, objs, slot, wk, lost, used>>
    BY <1>3 DEF Uninstall, vars, rows
  <2>2. QED
    BY <2>1, QuietStays DEF RunKnows
<1>4. ASSUME NEW s \in Slot, Starts(s) PROVE Stay
  BY <1>4, StartsStay DEF Stay
<1>5. ASSUME NEW w \in Worker, Validates(w) PROVE Stay
  BY <1>5, FetchStays, ScanStays, StartValidationStays, VerdictStays DEF Validates
<1>6. QED
  BY <1>1, <1>2, <1>3, <1>4, <1>5, PublishersStay, ContinuesStay DEF Next

LEMMA InitStays == Init => Reviewed /\ Sound /\ Suspended
<1> SUFFICES ASSUME Init PROVE Reviewed /\ Sound /\ Suspended
  OBVIOUS
<1>1. /\ publisher = "ACTIVE" /\ slot = [s \in Slot |-> IdleRequest] /\ wk = [w \in Worker |-> IdleRun]
  BY DEF Init
<1>2. \A s \in Slot : Decides(slot[s]) /\ Reads(slot[s])
  BY <1>1 DEF Decides, Reads, IdleRequest
<1>3. \A w \in Worker : Validating(wk[w])
  BY <1>1 DEF Validating, IdleRun
<1>4. \A v \in Version :
        \/ ver[v] = NoVersion /\ approvals[v] = {} /\ \A p \in Package : val[v][p] = "NONE"
        \/ \E p \in Package, u, r \in User :
             /\ r # u /\ ver[v].status = "APPROVED" /\ ver[v].by = u /\ ver[v].obj = "quarantine"
             /\ ver[v].sum = p /\ approvals[v] = {r}
             /\ \A q \in Package : val[v][q] = IF q = p THEN "PASSED" ELSE "NONE"
  <2>1. CASE Approved
    <3>1. PICK v \in Version, p \in Package, u, r \in User :
            /\ r # u
            /\ ver = [x \in Version |-> IF x # v THEN NoVersion ELSE
                       [status |-> "APPROVED", manifest |-> p, obj |-> "quarantine", sum |-> p,
                        by |-> u, reviewer |-> r, signed |-> FALSE]]
            /\ val = [x \in Version |-> [q \in Package |-> IF x = v /\ q = p THEN "PASSED" ELSE "NONE"]]
            /\ job = [x \in Version |-> [q \in Package |-> IF x = v /\ q = p THEN "completed" ELSE "absent"]]
            /\ approvals = [x \in Version |-> IF x = v THEN {r} ELSE {}]
            /\ objs = {<<"quarantine", v, p>>}
            /\ sender = [x \in Version |-> IF x = v THEN u ELSE None]
      BY <2>1 DEF Init
    <3>2. \A x \in Version : x # v => /\ ver[x] = NoVersion /\ approvals[x] = {}
                                      /\ \A q \in Package : val[x][q] = "NONE"
      BY <3>1
    <3>3. /\ ver[v].status = "APPROVED" /\ ver[v].by = u /\ ver[v].obj = "quarantine" /\ ver[v].sum = p
          /\ approvals[v] = {r} /\ \A q \in Package : val[v][q] = IF q = p THEN "PASSED" ELSE "NONE"
      BY <3>1
    <3>4. QED
      BY <3>1, <3>2, <3>3
  <2>2. CASE ~ Approved
    BY <2>2 DEF Init
  <2>3. QED
    BY <2>1, <2>2
<1>5. Reviewed
  <2>1. \A v \in Version : /\ ver[v].status = "NONE" => approvals[v] = {}
                           /\ Present(v) => ver[v].by \notin approvals[v]
                           /\ ver[v].status = "PUBLISHED" => approvals[v] # {}
    BY <1>4, Statuses DEF NoVersion, Present
  <2>2. QED
    BY <1>2, <2>1 DEF Reviewed
<1>6. ASSUME NEW v \in Version PROVE RowSound(v)
  <2>1. CASE ver[v] = NoVersion /\ approvals[v] = {} /\ \A p \in Package : val[v][p] = "NONE"
    BY <2>1, PipelineAssumption, Statuses DEF NoVersion, RowSound, Family, Present
  <2>2. CASE ver[v].status = "APPROVED" /\ ver[v].obj = "quarantine"
               /\ \A q \in Package : val[v][q] = IF q = ver[v].sum THEN "PASSED" ELSE "NONE"
    BY <2>2 DEF RowSound, Family
  <2>3. QED
    BY <1>4, <2>1, <2>2
<1>7. Sound
  BY <1>2, <1>3, <1>6 DEF Sound
<1>8. QED
  BY <1>1, <1>5, <1>7 DEF Suspended
-----------------------------------------------------------------------------
(* Whatever requests overlap, and wherever they crash, a school runs only  *)
(* a version that somebody other than its creator approved, if uploaders   *)
(* and reviewers are kept apart (extensions.service.ts, transition).       *)
THEOREM OnlyReviewedRuns == ASSUME Separation PROVE Spec => []RunsOnlyReviewed
<1>1. Shape /\ Reviewed => RunsOnlyReviewed
  BY Statuses DEF Shape, Reviewed, RunsOnlyReviewed, Runs, Present
<1>2. Init => Shape /\ Reviewed
  BY InitShape, InitStays
<1>3. Shape /\ Reviewed /\ [Next]_vars => Shape' /\ Reviewed'
  BY NextShape, NextStay DEF Stay
<1>4. QED
  BY <1>1, <1>2, <1>3, PTL DEF Spec

(* While no request overwrites what it has not read, a school runs only a  *)
(* package that passed validation (completePackageUpload, transition).     *)
THEOREM OnlyValidatedRuns == Spec => []RunsOnlyValidated
<1>1. Shape /\ Sound => RunsOnlyValidated
  BY DEF Shape, Sound, RowSound, RunsOnlyValidated, Runs, Family
<1>2. Init => Shape /\ Sound
  BY InitShape, InitStays
<1>3. Shape /\ Sound /\ [Next]_vars => Shape' /\ Sound'
  BY NextShape, NextStay DEF Stay
<1>4. QED
  BY <1>1, <1>2, <1>3, PTL DEF Spec

(* Both together: where uploaders and reviewers are kept apart, a school   *)
(* runs only what was reviewed and validated.                              *)
THEOREM OnlyCheckedRuns == ASSUME Separation PROVE Spec => []RunsOnlyChecked
<1>1. RunsOnlyReviewed /\ RunsOnlyValidated => RunsOnlyChecked
  BY DEF RunsOnlyChecked
<1>2. QED
  BY <1>1, OnlyReviewedRuns, OnlyValidatedRuns, PTL

(* While no request overwrites what it has not read, the object of a       *)
(* published version is stored, whatever is deleted meanwhile              *)
(* (deleteVersion, deleteExtension).                                       *)
THEOREM PublishedStaysStored == Spec => []PublishedIsStored
<1>1. Sound => PublishedIsStored
  BY DEF Sound, RowSound, PublishedIsStored
<1>2. Init => Shape /\ Sound
  BY InitShape, InitStays
<1>3. Shape /\ Sound /\ [Next]_vars => Shape' /\ Sound'
  BY NextShape, NextStay DEF Stay
<1>4. QED
  BY <1>1, <1>2, <1>3, PTL DEF Spec

(* The extension of a suspended publisher runs nowhere once the request    *)
(* that suspended it has ended (setPublisherStatus).                       *)
THEOREM SuspendedRunNowhere == Spec => []SuspendedRunsNowhere
<1>1. Suspended => SuspendedRunsNowhere
  BY DEF Suspended, SuspendedRunsNowhere, Runs
<1>2. Init => Shape /\ Suspended
  BY InitShape, InitStays
<1>3. Shape /\ Suspended /\ [Next]_vars => Shape' /\ Suspended'
  BY NextShape, NextStay DEF Stay
<1>4. QED
  BY <1>1, <1>2, <1>3, PTL DEF Spec

(* A step that writes verdicts, or drops them.                             *)
FinalStep ==
  \A v \in Version : \A p \in Package :
    val[v][p] \in {"PASSED", "FAILED"} /\ Present(v)' /\ ~ lost' => val'[v][p] = val[v][p]

LEMMA NextKeepsVerdicts == ASSUME Shape, Sound, [Next]_vars PROVE FinalStep
<1>0. TypeOK /\ \A s \in Slot : Carries(slot[s])
  BY DEF Shape
<1>1. CASE val' = val
  BY <1>1 DEF FinalStep
<1>2. ASSUME NEW v, NEW p, val' = Pending(v, p) PROVE FinalStep
  <2>1. \A x \in Version, q \in Package : val[x][q] # "NONE" => val'[x][q] = val[x][q]
    BY <1>0, <1>2 DEF Pending, TypeOK
  <2>2. QED
    BY <2>1 DEF FinalStep
<1>3. ASSUME NEW w \in Worker, StartValidation(w), val' # val PROVE FinalStep
  <2>1. PICK v \in Version, p \in Package : val[v][p] \notin {"PASSED", "FAILED"} /\ val' = [val EXCEPT ![v][p] = "RUNNING"]
    BY <1>3 DEF StartValidation, Shape
  <2>2. \A x \in Version, q \in Package : ~ (x = v /\ q = p) => val'[x][q] = val[x][q]
    BY <1>0, <2>1 DEF TypeOK
  <2>3. QED
    BY <2>1, <2>2 DEF FinalStep
<1>4. ASSUME NEW w \in Worker, Verdict(w), val' # val PROVE FinalStep
  <2>1. PICK v \in Version, p \in Package : v = wk[w].v /\ p = wk[w].p /\ wk[w].pc = "finish"
    BY <1>4 DEF Verdict, Shape
  <2>2. PICK ok \in BOOLEAN : /\ val' = [val EXCEPT ![v][p] = IF ok THEN "PASSED" ELSE "FAILED"]
                              /\ lost' = (lost \/ wk[w].stale)
    BY <1>4, <2>1 DEF Verdict
  <2>3. ~ lost' => val[v][p] = "RUNNING"
    <3>1. ~ lost' => Validating(wk[w]) /\ ~ wk[w].stale
      BY <2>2, Knowing
    <3>2. QED
      BY <2>1, <3>1 DEF Validating
  <2>4. \A x \in Version, q \in Package : ~ (x = v /\ q = p) => val'[x][q] = val[x][q]
    BY <1>0, <2>2 DEF TypeOK
  <2>5. QED
    BY <2>3, <2>4 DEF FinalStep
<1>5. ASSUME NEW s \in Slot, DropRow(s) PROVE FinalStep
  <2>1. PICK v \in Version : v = slot[s].v
    BY <1>0, <1>5 DEF DropRow, At, Carries, OnVersion
  <2>2. /\ ver' = [ver EXCEPT ![v] = [NoVersion EXCEPT !.status = "DELETED"]]
        /\ val' = [val EXCEPT ![v] = [p \in Package |-> "NONE"]]
    BY <1>5, <2>1 DEF DropRow, Overwrite
  <2>3. ver'[v].status = "DELETED" /\ \A x \in Version \ {v} : val'[x] = val[x]
    BY <1>0, <2>2 DEF TypeOK, NoVersion
  <2>4. ~ Present(v)'
    BY <2>3, Statuses DEF Present
  <2>5. QED
    BY <2>3, <2>4 DEF FinalStep
<1>6. ASSUME NEW s \in Slot, PurgeRows(s) PROVE FinalStep
  <2>1. \A x \in Version : ver'[x] = IF Present(x) THEN GoneRow ELSE ver[x]
    BY <1>6 DEF PurgeRows, Gone, GoneRow
  <2>2. \A x \in Version : ~ Present(x)'
    BY <2>1, FreshRows, Statuses DEF Present
  <2>3. QED
    BY <2>2 DEF FinalStep
<1>7. ASSUME NEW u \in User, Publishers(u) PROVE FinalStep
  BY <1>1, <1>2, <1>7 DEF Publishers, CreateVersion, UploadAgain
<1>8. ASSUME NEW s \in Slot, Starts(s) PROVE FinalStep
  <2>1. val' = val
    BY <1>8, StartsAsk DEF Starting, rows
  <2>2. QED
    BY <1>1, <2>1
<1>9. ASSUME NEW s \in Slot, Continues(s) PROVE FinalStep
  <2>1. CASE Quarantine(s)
    BY <1>2, <2>1 DEF Quarantine
  <2>2. CASE ~ Quarantine(s) /\ ~ DropRow(s) /\ ~ PurgeRows(s)
    <3>1. val' = val
      BY <1>9, <2>2
         DEF Continues, UpdateDraft, EnqueueUpload, Publish, Transition, Effects, Appeal, DropObjects,
             PurgeObjects, SetPublisherStatus, SuspendExtensions, SetSigningKeyStatus, BlockSigned,
             DisableSigned, Install, Activate, Fail, rows
    <3>2. QED
      BY <1>1, <3>1
  <2>3. QED
    BY <1>5, <1>6, <2>1, <2>2
<1>10. ASSUME NEW w \in Worker, Validates(w) PROVE FinalStep
  BY <1>1, <1>3, <1>4, <1>10 DEF Validates, Fetch, Scan, rows
<1>11. CASE (\E s \in Slot : Crash(s)) \/ (\E v \in Version, p \in Package : Redeliver(v, p))
            \/ (\E x \in School : Uninstall(x)) \/ UNCHANGED vars
  BY <1>1, <1>11 DEF Crash, Redeliver, Uninstall, vars, rows
<1>12. QED
  BY <1>7, <1>8, <1>9, <1>10, <1>11 DEF Next

(* A verdict on a package is never changed, unless a validation that was   *)
(* handed out twice overwrites it (completePackageUpload).                 *)
THEOREM VerdictsAreFinal == Spec => VerdictIsFinal
<1>1. Shape /\ Sound /\ [Next]_vars =>
        [\A v \in Version : \A p \in DOMAIN val[v] :
           val[v][p] \in {"PASSED", "FAILED"} /\ Present(v)' /\ ~lost' => val'[v][p] = val[v][p]]_vars
  <2>1. Shape => \A v \in Version : DOMAIN val[v] = Package
    BY DEF Shape, TypeOK
  <2>2. QED
    BY <2>1, NextKeepsVerdicts DEF FinalStep
<1>2. Init => Shape /\ Sound
  BY InitShape, InitStays
<1>3. Shape /\ Sound /\ [Next]_vars => Shape' /\ Sound'
  BY NextShape, NextStay DEF Stay
<1>4. QED
  BY <1>1, <1>2, <1>3, PTL DEF Spec, VerdictIsFinal
=============================================================================
