------------------------------ MODULE MCArrives ------------------------------
(* What was asked for arrives: small instances of the modules with a       *)
(* promise about the end, in one state graph.  area says which of them a   *)
(* behaviour is of; the others stay in a state in which no fair action is  *)
(* enabled.                                                                *)
EXTENDS Idempotency

CONSTANTS c1, c2, c3, p1, p2, s1, w1, f1, f2, NoData

VARIABLES area,
          tSchool, tDomain, routes, dns, cache, lookup, tJob, upset,
          req, hits, slots, inexact, circuit, probe, killed, twice, pFaults,
          level, alert, scan, paged, aFaults, aEdits,
          inst, rec, school, run, writer, purger, report, stored, blind, drift, past,
          server, shown, load, ui, call, cEdits, cFaults

(* One new school with one host; two processes cache what they resolved.   *)
Hosts == INSTANCE Tenancy WITH
  school <- tSchool, domain <- tDomain, job <- tJob,
  School <- {s1}, Host <- {w1}, Fresh <- {s1}, Home <- [s \in {s1} |-> w1],
  Rail <- [s \in {s1} |-> w1], Process <- {p1, p2}, Job <- {c1}, Challenges <- 1,
  Deeds <- {"retry", "crash", "suspend", "resolve"}

(* Two requests, a circuit that the first failure opens.                   *)
Guard == INSTANCE Protection WITH
  faults <- pFaults, Request <- {c1, c2}, Quota <- 2, Threshold <- 1, Faults <- 2,
  Slots <- [k \in {"school", "extension"} |-> 4]

(* One thing the operational scan watches, one that others raise.          *)
Pager == INSTANCE Alerts WITH
  faults <- aFaults, edits <- aEdits, Fingerprint <- {f1, f2}, Operational <- {f1},
  Faults <- 1, Edits <- 4

(* One record, one client, the two purges and a crash of a worker.         *)
Data == INSTANCE ExtensionData WITH
  client <- writer, Record <- {c1}, Client <- {c2}, Content <- {p1}, Quota <- 3,
  MaxAttempts <- 2, MaxVersion <- 3, Crashes <- 1, Ops <- {"records", "purge"}

(* An installation's card, with two loads and one call in flight.          *)
Page == INSTANCE Console WITH
  edits <- cEdits, faults <- cFaults, Load <- {c1, c2}, Call <- {c3},
  Parts <- {"installations"}, HistoryAnswers <- TRUE, Starts <- {"APPROVED"},
  Releases <- {"PUBLISHED"}, Edits <- 2, Faults <- 1

hostVars == <<tSchool, tDomain, routes, dns, cache, lookup, tJob, upset>>
guardVars == <<req, hits, slots, inexact, circuit, probe, killed, twice, pFaults>>
pagerVars == <<level, alert, scan, paged, aFaults, aEdits>>
dataVars == <<inst, rec, school, run, writer, purger, report, stored, blind, drift, past>>
pageVars == <<server, shown, load, ui, call, cEdits, cFaults>>

MCInit ==
  /\ area \in {"key", "hosts", "guard", "pager", "data", "page"}
  /\ Init /\ Hosts!TenancyInit /\ Data!DataInit
  /\ IF area = "guard" THEN Guard!ProtectionInit
     ELSE /\ req = [r \in {c1, c2} |-> "frozen"] /\ hits = 0 /\ slots = 0 /\ inexact = FALSE
          /\ circuit = [failures |-> 0, state |-> "closed"] /\ probe = FALSE
          /\ killed = FALSE /\ twice = FALSE /\ pFaults = 0
  /\ IF area = "pager" THEN Pager!AlertsInit
     ELSE /\ level = [f \in {f1, f2} |-> "ok"] /\ alert = [f \in {f1, f2} |-> Pager!NoAlert]
          /\ scan = [Pager!NoScan EXCEPT !.step = "frozen"] /\ paged = [f \in {f1, f2} |-> FALSE]
          /\ aFaults = 0 /\ aEdits = 0
  /\ IF area = "page" THEN Page!ConsoleInit
     ELSE /\ server = Page!Server("PUBLISHED", "APPROVED") /\ shown = NoData
          /\ load = [l \in {c1, c2} |-> Page!NoLoad] /\ call = [c \in {c3} |-> Page!Idle]
          /\ ui = [tab |-> "none"] /\ cEdits = 0 /\ cFaults = 0

MCNext ==
  /\ \/ area = "key" /\ Next
           /\ UNCHANGED <<hostVars, guardVars, pagerVars, dataVars, pageVars>>
     \/ area = "hosts" /\ Hosts!TenancyNext
           /\ UNCHANGED <<vars, guardVars, pagerVars, dataVars, pageVars>>
     \/ area = "guard" /\ Guard!ProtectionNext
           /\ UNCHANGED <<vars, hostVars, pagerVars, dataVars, pageVars>>
     \/ area = "pager" /\ Pager!AlertsNext
           /\ UNCHANGED <<vars, hostVars, guardVars, dataVars, pageVars>>
     \/ area = "data" /\ Data!DataNext
           /\ UNCHANGED <<vars, hostVars, guardVars, pagerVars, pageVars>>
     \/ area = "page" /\ Page!ConsoleNext
           /\ UNCHANGED <<vars, hostVars, guardVars, pagerVars, dataVars>>
  /\ UNCHANGED area

MCSpec ==
  /\ MCInit /\ [][MCNext]_<<area, vars, hostVars, guardVars, pagerVars, dataVars, pageVars>>
  /\ Fairness /\ Hosts!TenancyFairness /\ Guard!ProtectionFairness /\ Pager!AlertsFairness
  /\ Data!DataFairness /\ Page!ConsoleFairness

(* A suspended school is not served at its host in the end.                *)
SuspensionArrives == Hosts!SuspensionArrives
(* The circuit closes again once failures and crashes end.                 *)
CircuitRecovers == Guard!CircuitRecovers
(* Whatever stays critical is paged, after a failed webhook too.           *)
CriticalIsPaged == Pager!CriticalIsPaged
(* The report of every purge is written, and only then offered.            *)
ReportsArrive == Data!ReportsArrive
(* The card of an installation shows how its job ended.                    *)
JobEndIsShown == Page!JobEndIsShown
=============================================================================
