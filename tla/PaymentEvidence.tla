--------------------------- MODULE PaymentEvidence ---------------------------
(***************************************************************************)
(* What a school pays for an extension and shows for it: the price and the *)
(* visibility of the extension, requests, uploaded invoices, review,       *)
(* approval and billing, legal holds, and the nightly cleanup of evidence  *)
(* whose retention has ended (platform/extensions, extension-installations *)
(* and extension-cleanup services).  One school and one extension.         *)
(***************************************************************************)
EXTENDS Integers, FiniteSets

CONSTANTS
  Key,        \* storage keys of invoices, one for each request that uploads
  Slot,       \* API requests in flight at a time
  Crashes,    \* bound: crashes of the cleanup worker
  Failures,   \* bound: failing storage and database calls
  Ops,        \* bound: what happens in an instance
  None

VARIABLES
  offer,    \* the Extension row: pricing model, visibility, the school's grant
  row,      \* the ExtensionInstallation row
  ev,       \* ev[k]: the ExtensionPaymentEvidence row
  objects,  \* invoices in R2
  links,    \* presigned uploads handed out
  slot,     \* slot[s]: what each request has read and will write
  sweep,    \* the cleanup: the row it is purging and its status before
  crossed,  \* history: since the school asked, was the price changed, or the row
            \* written by a request that had read it before another one wrote?
  torn,     \* history: invoices deleted by a cleanup that could not record it
  used      \* crashes and failures so far

payVars == <<offer, row, ev, objects, links, slot, sweep, crossed, torn, used>>

Paid == {"ONE_TIME", "PRIVATE_CONTRACT"}   \* SUBSCRIPTION is handled as ONE_TIME is
NoEvidence == [status |-> "NONE", due |-> FALSE, hold |-> FALSE, late |-> FALSE]
IdleSlot == [op |-> "idle", k |-> None, to |-> None, stale |-> FALSE]
IdleSweep == [pc |-> "idle", k |-> None, was |-> "NONE"]

PayTypeOK ==
  /\ offer \in [model : Paid \cup {"FREE"}, visibility : {"LISTED", "PRIVATE"}, granted : BOOLEAN]
  /\ row \in [state : {"NONE", "REQUESTED", "PAYMENT_REVIEW", "APPROVED", "INSTALLED", "ACTIVE"},
              billing : {"PENDING", "ACTIVE", "OVERDUE"}, key : Key \cup {None}, submitted : BOOLEAN,
              asked : Paid \cup {"FREE"}]
  /\ ev \in [Key -> [status : {"NONE", "PENDING", "SUBMITTED", "PURGING", "PURGED"},
                     due : BOOLEAN, hold : BOOLEAN, late : BOOLEAN]]
  /\ objects \subseteq Key /\ links \subseteq Key /\ torn \subseteq Key
  /\ crossed \in BOOLEAN

PayInit ==
  /\ offer = [model |-> "ONE_TIME", visibility |-> "LISTED", granted |-> FALSE]
  /\ row = [state |-> "NONE", billing |-> "PENDING", key |-> None, submitted |-> FALSE,
            asked |-> "FREE"]
  /\ ev = [k \in Key |-> NoEvidence]
  /\ objects = {} /\ links = {} /\ torn = {}
  /\ slot = [s \in Slot |-> IdleSlot]
  /\ sweep = IdleSweep
  /\ crossed = FALSE
  /\ used = [crashes |-> 0, failures |-> 0]

-----------------------------------------------------------------------------
(* setPricing, setVisibility, grantPrivateAccess: one write each.          *)
SetPricing(model) ==
  /\ "offer" \in Ops /\ model # offer.model
  /\ offer' = [offer EXCEPT !.model = model]
  /\ crossed' = (crossed \/ row.state # "NONE")
  /\ UNCHANGED <<row, ev, objects, links, slot, sweep, torn, used>>
SetVisibility(visibility) ==
  /\ "offer" \in Ops
  /\ offer' = [offer EXCEPT !.visibility = visibility]
  /\ UNCHANGED <<row, ev, objects, links, slot, sweep, crossed, torn, used>>
GrantPrivateAccess(granted) ==
  /\ "offer" \in Ops
  /\ offer' = [offer EXCEPT !.granted = granted]
  /\ UNCHANGED <<row, ev, objects, links, slot, sweep, crossed, torn, used>>

(* What the school may ask for.                                            *)
Offered == offer.visibility = "LISTED" \/ offer.granted
Asks == Offered /\ row.state # "ACTIVE"

Begin(s, op, k, to) ==
  /\ slot[s].op = "idle"
  /\ slot' = [slot EXCEPT ![s] = [op |-> op, k |-> k, to |-> to, stale |-> FALSE]]
  /\ UNCHANGED <<offer, row, ev, objects, links, sweep, crossed, torn, used>>

(* A write by id; what others in flight have read of the row is stale now. *)
(* A new request starts from a clean row.                                  *)
Write(s, newRow) ==
  /\ row' = newRow
  /\ crossed' = (slot[s].op \notin {"request", "paid", "initiate"} /\ (crossed \/ slot[s].stale))
  /\ slot' = [x \in Slot |-> IF x = s THEN IdleSlot ELSE [slot[x] EXCEPT !.stale = @ \/ slot[x].op # "idle"]]

(* request: a free extension or one under a private contract.  It leaves   *)
(* what it knows of payments alone.                                        *)
BeginRequest(s) == Asks /\ offer.model # "ONE_TIME" /\ Begin(s, "request", None, offer.model)
Request(s) ==
  /\ slot[s].op = "request"
  /\ Write(s, [row EXCEPT !.state = "REQUESTED", !.asked = slot[s].to,
                          !.billing = IF slot[s].to = "FREE" THEN "ACTIVE" ELSE "PENDING"])
  /\ UNCHANGED <<offer, ev, objects, links, sweep, torn, used>>

Unused(k) == ev[k].status = "NONE" /\ \A s \in Slot : slot[s].k # k

(* requestPaid: the invoice is stored before the transaction, and deleted  *)
(* again, if that works, when the transaction fails.                       *)
BeginRequestPaid(s, k) ==
  Asks /\ offer.model = "ONE_TIME" /\ Unused(k) /\ k \notin objects /\ Begin(s, "paid", k, offer.model)
PutInvoice(s) ==
  /\ slot[s].op = "paid" /\ slot[s].k \notin objects
  /\ objects' = objects \cup {slot[s].k}
  /\ UNCHANGED <<offer, row, ev, links, slot, sweep, crossed, torn, used>>
RequestPaid(s) ==
  /\ slot[s].op = "paid" /\ slot[s].k \in objects
  /\ Write(s, [state |-> "PAYMENT_REVIEW", billing |-> "PENDING", key |-> slot[s].k,
               submitted |-> TRUE, asked |-> slot[s].to])
  /\ ev' = [ev EXCEPT ![slot[s].k].status = "SUBMITTED"]
  /\ UNCHANGED <<offer, objects, links, sweep, torn, used>>
RequestPaidFails(s) ==
  /\ slot[s].op = "paid" /\ slot[s].k \in objects /\ used.failures < Failures
  /\ objects' \in {objects, objects \ {slot[s].k}}
  /\ slot' = [slot EXCEPT ![s] = IdleSlot]
  /\ used' = [used EXCEPT !.failures = @ + 1]
  /\ UNCHANGED <<offer, row, ev, links, sweep, crossed, torn>>

(* initiatePaymentEvidence hands out a link to upload the invoice with.    *)
BeginInitiate(s, k) ==
  Asks /\ offer.model = "ONE_TIME" /\ Unused(k) /\ k \notin objects /\ Begin(s, "initiate", k, offer.model)
InitiatePaymentEvidence(s) ==
  /\ slot[s].op = "initiate"
  /\ Write(s, [state |-> "REQUESTED", billing |-> "PENDING", key |-> slot[s].k,
               submitted |-> FALSE, asked |-> slot[s].to])
  /\ ev' = [ev EXCEPT ![slot[s].k].status = "PENDING"]
  /\ links' = links \cup {slot[s].k}
  /\ UNCHANGED <<offer, objects, sweep, torn, used>>
Upload(k) ==
  /\ k \in links
  /\ objects' = objects \cup {k} /\ links' = links \ {k}
  /\ UNCHANGED <<offer, row, ev, slot, sweep, crossed, torn, used>>

(* finalizePaymentEvidence checks the object of the row it has read.  Only *)
(* its evidence row is compared again, not the installation.               *)
BeginFinalize(s) ==
  /\ row.key # None /\ ~ row.submitted /\ row.key \in objects
  /\ Begin(s, "finalize", row.key, None)
(* Faulty variant: the status of the evidence is not compared.             *)
FinalizeById(s) ==
  /\ slot[s].op = "finalize"
  /\ ev' = [ev EXCEPT ![slot[s].k].status = "SUBMITTED", ![slot[s].k].due = FALSE]
  /\ Write(s, [row EXCEPT !.state = "PAYMENT_REVIEW", !.submitted = TRUE])
  /\ UNCHANGED <<offer, objects, links, sweep, torn, used>>
FinalizePaymentEvidence(s) ==
  /\ slot[s].op = "finalize" /\ ev[slot[s].k].status = "PENDING"
  /\ ev' = [ev EXCEPT ![slot[s].k].status = "SUBMITTED", ![slot[s].k].due = FALSE]
  /\ Write(s, [row EXCEPT !.state = "PAYMENT_REVIEW", !.submitted = TRUE])
  /\ UNCHANGED <<offer, objects, links, sweep, torn, used>>

(* approve and setBillingStatus; install and activate as the jobs do them. *)
(* Faulty variant: evidence is not asked for.                              *)
ApprovableUnpaid ==
  /\ row.state \in {"REQUESTED", "PAYMENT_REVIEW"}
  /\ offer.model # "FREE" => row.billing = "ACTIVE"
Approvable ==
  /\ row.state \in {"REQUESTED", "PAYMENT_REVIEW"}
  /\ offer.model # "FREE" => row.billing = "ACTIVE"
  /\ offer.model = "ONE_TIME" => row.submitted
BeginApprove(s) == "approve" \in Ops /\ Approvable /\ Begin(s, "approve", None, "APPROVED")
BeginBilling(s, status) ==
  /\ "approve" \in Ops
  /\ row.state # "NONE" /\ offer.model # "FREE" /\ (row.state = "ACTIVE" => status = "ACTIVE")
  /\ Begin(s, "billing", None, status)
SetBillingStatus(s) ==
  /\ slot[s].op = "billing"
  /\ Write(s, [row EXCEPT !.billing = slot[s].to])
  /\ UNCHANGED <<offer, ev, objects, links, sweep, torn, used>>
BeginInstall(s) == row.state = "APPROVED" /\ Begin(s, "install", None, "INSTALLED")
BeginActivate(s) ==
  /\ row.state = "INSTALLED" /\ (offer.model # "FREE" => row.billing = "ACTIVE")
  /\ Begin(s, "activate", None, "ACTIVE")
BeginDeactivate(s) == row.state = "ACTIVE" /\ Begin(s, "deactivate", None, "INSTALLED")
SetState(s) ==
  /\ slot[s].op \in {"approve", "install", "activate", "deactivate"}
  /\ Write(s, [row EXCEPT !.state = slot[s].to])
  /\ UNCHANGED <<offer, ev, objects, links, sweep, torn, used>>

(* A request is refused where it compares, or its connection is lost.      *)
Abandon(s) ==
  /\ slot[s].op \notin {"idle", "paid"}
  /\ slot' = [slot EXCEPT ![s] = IdleSlot]
  /\ UNCHANGED <<offer, row, ev, objects, links, sweep, crossed, torn, used>>
-----------------------------------------------------------------------------
(* setPaymentEvidenceLegalHold writes by id on evidence it read SUBMITTED. *)
BeginHold(s, k, held) ==
  "sweep" \in Ops /\ ev[k].status = "SUBMITTED" /\ Begin(s, "hold", k, IF held THEN "hold" ELSE "release")
SetLegalHold(s) ==
  /\ slot[s].op = "hold"
  /\ ev' = [ev EXCEPT ![slot[s].k].hold = (slot[s].to = "hold"),
                      ![slot[s].k].late = ev[slot[s].k].status \in {"PURGING", "PURGED"}]
  /\ slot' = [slot EXCEPT ![s] = IdleSlot]
  /\ UNCHANGED <<offer, row, objects, links, sweep, crossed, torn, used>>

(* A day after an upload was announced, or years after it was submitted.   *)
RetentionEnds(k) ==
  /\ "sweep" \in Ops /\ ev[k].status \in {"PENDING", "SUBMITTED"} /\ ~ ev[k].due
  /\ ev' = [ev EXCEPT ![k].due = TRUE]
  /\ UNCHANGED <<offer, row, objects, links, slot, sweep, crossed, torn, used>>

(* The cleanup: find, claim by compare-and-set, delete, record.            *)
FindExpired(k) ==
  /\ sweep.pc = "idle" /\ ev[k].status \in {"PENDING", "SUBMITTED"} /\ ev[k].due /\ ~ ev[k].hold
  /\ sweep' = [pc |-> "claim", k |-> k, was |-> ev[k].status]
  /\ UNCHANGED <<offer, row, ev, objects, links, slot, crossed, torn, used>>
(* Faulty variant: the claim does not look at the hold again.              *)
ClaimHeld(k) == ev[k].status = sweep.was /\ ev[k].due
Claimable(k) == ev[k].status = sweep.was /\ ev[k].due /\ ~ ev[k].hold
ClaimEvidence ==
  /\ sweep.pc = "claim" /\ Claimable(sweep.k)
  /\ ev' = [ev EXCEPT ![sweep.k].status = "PURGING"]
  /\ sweep' = [sweep EXCEPT !.pc = "delete"]
  /\ UNCHANGED <<offer, row, objects, links, slot, crossed, torn, used>>
SkipEvidence ==
  /\ sweep.pc = "claim" /\ ~ Claimable(sweep.k)
  /\ sweep' = IdleSweep
  /\ UNCHANGED <<offer, row, ev, objects, links, slot, crossed, torn, used>>
DeleteInvoice ==
  /\ sweep.pc = "delete"
  /\ objects' = objects \ {sweep.k}
  /\ sweep' = [sweep EXCEPT !.pc = "record"]
  /\ UNCHANGED <<offer, row, ev, links, slot, crossed, torn, used>>
RecordPurge ==
  /\ sweep.pc = "record"
  /\ ev' = [ev EXCEPT ![sweep.k].status = "PURGED"]
  /\ row' = IF row.key = sweep.k THEN [row EXCEPT !.key = None] ELSE row
  /\ sweep' = IdleSweep
  /\ UNCHANGED <<offer, objects, links, slot, crossed, torn, used>>
(* A call fails: the row gets the status back that it had, even when the   *)
(* invoice is deleted already.                                             *)
SweepFails ==
  /\ sweep.pc \in {"delete", "record"} /\ used.failures < Failures
  /\ ev' = [ev EXCEPT ![sweep.k].status = sweep.was]
  /\ torn' = IF sweep.pc = "record" THEN torn \cup {sweep.k} ELSE torn
  /\ sweep' = IdleSweep
  /\ used' = [used EXCEPT !.failures = @ + 1]
  /\ UNCHANGED <<offer, row, objects, links, slot, crossed>>
(* No later run looks at a row that is PURGING.                            *)
SweepCrash ==
  /\ sweep.pc # "idle" /\ used.crashes < Crashes
  /\ sweep' = IdleSweep
  /\ used' = [used EXCEPT !.crashes = @ + 1]
  /\ UNCHANGED <<offer, row, ev, objects, links, slot, crossed, torn>>

PayNext ==
  \/ \E m \in Paid \cup {"FREE"} : SetPricing(m)
  \/ \E v \in {"LISTED", "PRIVATE"} : SetVisibility(v)
  \/ \E g \in BOOLEAN : GrantPrivateAccess(g)
  \/ \E s \in Slot :
       \/ BeginRequest(s) \/ Request(s) \/ PutInvoice(s) \/ RequestPaid(s) \/ RequestPaidFails(s)
       \/ InitiatePaymentEvidence(s) \/ BeginFinalize(s) \/ FinalizePaymentEvidence(s)
       \/ BeginApprove(s) \/ SetBillingStatus(s) \/ BeginInstall(s) \/ BeginActivate(s)
       \/ BeginDeactivate(s) \/ SetState(s) \/ SetLegalHold(s) \/ Abandon(s)
       \/ \E status \in {"PENDING", "ACTIVE", "OVERDUE"} : BeginBilling(s, status)
       \/ \E k \in Key : BeginRequestPaid(s, k) \/ BeginInitiate(s, k)
                         \/ \E held \in BOOLEAN : BeginHold(s, k, held)
  \/ \E k \in Key : Upload(k) \/ RetentionEnds(k) \/ FindExpired(k)
  \/ ClaimEvidence \/ SkipEvidence \/ DeleteInvoice \/ RecordPurge \/ SweepFails \/ SweepCrash
-----------------------------------------------------------------------------
(* Nothing that has to be paid runs, or waits to run, without an invoice   *)
(* somebody could review, unless requests crossed or the price was changed *)
(* after the school asked.                                                 *)
ApprovedWasSubmitted ==
  row.state = "APPROVED" /\ row.asked = "ONE_TIME" /\ offer.model = "ONE_TIME" /\ ~ crossed
    => row.submitted /\ \E k \in Key : ev[k].status \in {"SUBMITTED", "PURGING", "PURGED"}

(* An invoice counts as submitted only while it is stored: a late finalize *)
(* does not bring back what the cleanup has claimed.  Only a cleanup that  *)
(* could not record its work leaves a row without its object.              *)
SubmittedIsStored == \A k \in Key : ev[k].status = "SUBMITTED" /\ k \notin torn => k \in objects

(* A legal hold keeps the invoice, whatever the cleanup had read before,   *)
(* if it was written before the cleanup claimed the row.                   *)
HeldInvoiceIsKept == \A k \in Key : ev[k].hold /\ ~ ev[k].late /\ k \notin torn => k \in objects

=============================================================================
