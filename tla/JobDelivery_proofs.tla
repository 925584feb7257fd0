------------------------- MODULE JobDelivery_proofs -------------------------
(***************************************************************************)
(* What each step of the delivery does to one BullMQ job, for any number   *)
(* of attempts and stalls.  The proofs about the services use it.          *)
(***************************************************************************)
EXTENDS JobDelivery, TLAPS

(* A job that BullMQ may still deliver has an attempt and a stall left,    *)
(* and only a job that is being executed has an owner.                     *)
BullOK(b) ==
  /\ b.state \in {"absent", "waiting", "active"} =>
       b.made < Attempts /\ b.stalled <= MaxStalledCount
  /\ b.owner # Nobody => b.state = "active"

USE DeliveryAssumption

(* What each delivery step does to one BullMQ job.                         *)
LEMMA TakenOK ==
  ASSUME NEW b \in BullJob, BullOK(b), b.state = "waiting", NEW w \in Worker
  PROVE  Taken(b, w) \in BullJob /\ BullOK(Taken(b, w)) /\ Taken(b, w).state # "absent"
BY DEF BullJob, BullOK, Taken

LEMMA AbandonedOK ==
  ASSUME NEW b \in BullJob, BullOK(b)
  PROVE  /\ Abandoned(b) \in BullJob /\ BullOK(Abandoned(b))
         /\ Abandoned(b).state = b.state
BY DEF BullJob, BullOK, Abandoned

LEMMA StallOK ==
  ASSUME NEW b \in BullJob, BullOK(b), b.state = "active"
  PROVE  AfterStall(b) \in BullJob /\ BullOK(AfterStall(b)) /\ AfterStall(b).state # "absent"
<1>1. /\ b.made \in 0..Attempts /\ b.stalled \in 0..(MaxStalledCount + 1)
      /\ b.made < Attempts /\ b.stalled <= MaxStalledCount
  BY DEF BullJob, BullOK
<1>2. b.stalled + 1 \in 0..(MaxStalledCount + 1)
  BY <1>1
<1> DEFINE r == AfterStall(b)
<1>3. r \in BullJob
  BY <1>2 DEF BullJob, AfterStall
<1>4. r.stalled = b.stalled + 1 /\ r.made = b.made /\ r.owner = Nobody
      /\ r.state = IF b.stalled < MaxStalledCount THEN "waiting" ELSE "failed"
  BY DEF BullJob, AfterStall
<1> HIDE DEF r
<1>5. BullOK(r) /\ r.state # "absent"
  BY <1>1, <1>4 DEF BullOK
<1>6. QED
  BY <1>3, <1>5 DEF r

LEMMA ReportedOK ==
  ASSUME NEW b \in BullJob, BullOK(b), b.state # "absent", NEW w \in Worker,
         NEW ok \in BOOLEAN
  PROVE  LET r == Reported(b, w, ok)
         IN r \in BullJob /\ BullOK(r) /\ r.state # "absent"
<1>1. CASE b.owner # w
  BY <1>1 DEF Reported
<1>2. CASE b.owner = w /\ ok
  <2>1. Done(b) \in BullJob /\ BullOK(Done(b)) /\ Done(b).state # "absent"
    BY DEF BullJob, BullOK, Done
  <2>2. QED
    BY <1>2, <2>1 DEF Reported
<1>3. CASE b.owner = w /\ ~ok
  <2>1. /\ b.made \in 0..Attempts /\ b.stalled \in 0..(MaxStalledCount + 1)
        /\ b.made < Attempts /\ b.stalled <= MaxStalledCount
    BY <1>3 DEF BullJob, BullOK
  <2>2. b.made + 1 \in 0..Attempts
    BY <2>1
  <2> DEFINE f == AfterFailure(b)
  <2>3. f \in BullJob
    BY <2>2 DEF BullJob, AfterFailure
  <2>4. f.stalled = b.stalled /\ f.made = b.made + 1 /\ f.owner = Nobody
        /\ f.state = IF b.made + 1 < Attempts THEN "waiting" ELSE "failed"
    BY DEF BullJob, AfterFailure
  <2>5. Reported(b, w, ok) = f
    BY <1>3 DEF Reported
  <2> HIDE DEF f
  <2>6. BullOK(f) /\ f.state # "absent"
    BY <2>1, <2>4 DEF BullOK
  <2>7. QED
    BY <2>3, <2>5, <2>6
<1>4. QED
  BY <1>1, <1>2, <1>3

LEMMA AddedOK ==
  ASSUME NEW b \in BullJob, BullOK(b)
  PROVE  Added(b) \in BullJob /\ BullOK(Added(b)) /\ Added(b).state # "absent"
BY DEF BullJob, BullOK, Added
=============================================================================
