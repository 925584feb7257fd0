---------------------------- MODULE MCInstallations ----------------------------
(* Small instances of the modules around an installation in one state      *)
(* graph: the records of a school (records, with the constants of the      *)
(* configuration), who may act for a publisher (team), pricing and paid    *)
(* requests (offer, evidence), and dependencies (graph, needs).  area says *)
(* which of them a behaviour is of; the others stay in their initial       *)
(* states.  The configuration gives the constants their values; m1 and m2  *)
(* serve as members, invoices, records and extensions, so that symmetry    *)
(* stays cheap.                                                            *)
EXTENDS ExtensionData, TLC

CONSTANTS
  m1, m2, a1, a2, k1, k2, p1, x1, q1,
  User, Ask, KeyId, Pem,                              \* Team
  Slot, Invoice, OfferOps, OfferFaults,               \* Offer
  Key, EvidenceCrashes, EvidenceFailures, SweepOps,   \* Evidence
  Extension, Version, VersionRange, Installer, NeedsOps, Optional, Releases   \* Needs

VARIABLES area,
          team, org, keys, ask, crossed,
          offer, row, ev, objects, links, slot, sweep, overtaken, torn, used,
          release, installed, request, raced, withdrawn, released

Team == INSTANCE PublisherTeam

Offer == INSTANCE PaymentEvidence WITH
  crossed <- overtaken, Key <- Invoice, Ops <- OfferOps,
  Crashes <- OfferFaults, Failures <- OfferFaults
Evidence == INSTANCE PaymentEvidence WITH
  crossed <- overtaken, Crashes <- EvidenceCrashes, Failures <- EvidenceFailures,
  Ops <- SweepOps

AtLeast == [op |-> ">=", target |-> <<1, 0, 0>>]
Below == [op |-> "<", target |-> <<1, 1, 0>>]
FirstMinor == {<<AtLeast, Below>>}
TwoVersions == {<<1, 0, 0>>, <<1, 1, 0>>}
Graph == INSTANCE ExtensionGraph WITH
  school <- installed, VersionRange <- {<<AtLeast>>}, Request <- {a1, a2}, Ops <- {"publish"},
  Releases <- 4
Needs == INSTANCE ExtensionGraph WITH
  school <- installed, Request <- Installer, Ops <- NeedsOps

teamVars == <<team, org, keys, ask, crossed>>
payVars == <<offer, row, ev, objects, links, slot, sweep, overtaken, torn, used>>
graphVars == <<release, installed, request, raced, withdrawn, released>>

MCInit ==
  /\ area \in {"team", "offer", "evidence", "records", "graph", "needs"}
  /\ Team!TeamInit /\ DataInit
  /\ IF area = "evidence" THEN Evidence!PayInit ELSE Offer!PayInit
  /\ IF area = "needs" THEN Needs!GraphInit ELSE Graph!GraphInit

MCNext ==
  /\ \/ area = "team" /\ Team!Next
           /\ UNCHANGED <<payVars, dataVars, graphVars>>
     \/ area = "offer" /\ Offer!PayNext
           /\ UNCHANGED <<teamVars, dataVars, graphVars>>
     \/ area = "evidence" /\ Evidence!PayNext
           /\ UNCHANGED <<teamVars, dataVars, graphVars>>
     \/ area = "records" /\ DataNext
           /\ UNCHANGED <<teamVars, payVars, graphVars>>
     \/ area = "graph" /\ Graph!GraphNext
           /\ UNCHANGED <<teamVars, payVars, dataVars>>
     \/ area = "needs" /\ Needs!GraphNext
           /\ UNCHANGED <<teamVars, payVars, dataVars>>
  /\ UNCHANGED area

MCSpec == MCInit /\ [][MCNext]_<<area, teamVars, payVars, dataVars, graphVars>>

TypeOK ==
  /\ Team!TeamTypeOK /\ DataTypeOK
  /\ IF area = "evidence" THEN Evidence!PayTypeOK ELSE Offer!PayTypeOK
  /\ IF area = "needs" THEN Needs!GraphTypeOK ELSE Graph!GraphTypeOK

(* Overlapping changes leave a publisher an active member who may manage   *)
(* it, and no key is registered twice.                                     *)
TeamIsSound == Team!ManagerRemains /\ Team!PemOnce
(* What was approved is what was submitted, what is submitted is stored,   *)
(* and an invoice under a hold is kept.                                    *)
EvidenceIsKept ==
  /\ area # "evidence" => Offer!ApprovedWasSubmitted
  /\ area = "evidence" => Evidence!SubmittedIsStored /\ Evidence!HeldInvoiceIsKept
(* No releases require each other in a circle, and what a school runs has  *)
(* what it requires.                                                       *)
GraphIsSound == Needs!Acyclic /\ Needs!RequirementsMet

Interchangeable == Permutations({m1, m2}) \cup Permutations({a1, a2}) \cup Permutations({k1, k2})
=============================================================================
