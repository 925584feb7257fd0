------------------------------ MODULE Protection -------------------------------
(***************************************************************************)
(* What a request to an extension passes before and after its handler: the *)
(* rate limiter, the resource governor, the circuit breaker and the kill   *)
(* switches (backend/src/security, backend/src/platform).  All their state *)
(* is in Redis or PostgreSQL; each command to Redis is one step.           *)
(***************************************************************************)
EXTENDS Integers, FiniteSets

CONSTANTS
  Request,
  Quota,       \* requests admitted in a window
  Slots,       \* Slots[k]: concurrent requests of the school, of the extension
  Threshold,   \* failures that open the circuit
  Faults       \* bound: crashes, failures, client errors, flips of the switch, expiries

VARIABLES
  req,       \* req[r]: how far a request is
  hits,      \* the counter of the window
  slots,     \* slots[k]: the counter of the requests that run
  inexact,   \* inexact[k]: history: a crash or an expiry left the counter wrong
  circuit,   \* the breaker's hash: failures, and the age of openedAt
  probe,     \* does the breaker's probe key exist?
  killed,    \* the kill switch, and whether its last change was audited
  twice,     \* history: did two probes of one opening run?
  faults

protectionVars == <<req, hits, slots, inexact, circuit, probe, killed, twice, faults>>

Counter == {"school", "extension"}
Stage == {"idle", "school", "both", "ripe", "run", "probing", "act", "actProbing", "leave"}
Running == {"run", "probing", "act", "actProbing"}
Probing == {"probing", "actProbing"}

Holders(k) ==
  {r \in Request : req[r] \notin {"idle"} \cup (IF k = "extension" THEN {"school"} ELSE {})}

ProtectionTypeOK ==
  /\ req \in [Request -> Stage]
  /\ hits \in 0..(Quota + 1)
  /\ slots \in [Counter -> 0..(Cardinality(Request) + Faults)]
  /\ inexact \in [Counter -> BOOLEAN]
  /\ circuit \in [failures : 0..Threshold, state : {"closed", "open", "ripe"}]
  /\ probe \in BOOLEAN /\ twice \in BOOLEAN
  /\ killed \in [on : BOOLEAN, audited : BOOLEAN]
  /\ faults \in 0..Faults

Closed == [failures |-> 0, state |-> "closed"]

ProtectionInit ==
  /\ req = [r \in Request |-> "idle"] /\ hits = 0
  /\ slots = [k \in Counter |-> 0] /\ inexact = [k \in Counter |-> FALSE]
  /\ circuit = Closed /\ probe = FALSE /\ twice = FALSE
  /\ killed = [on |-> FALSE, audited |-> TRUE] /\ faults = 0

Fault == faults < Faults /\ faults' = faults + 1
Goes(r, stage) == req' = [req EXCEPT ![r] = stage]
-----------------------------------------------------------------------------
(* consume counts every request, refused ones too, in a window that starts *)
(* with the first of them; the quotas of school and extension are one here.*)
Consumed == hits' = IF hits > Quota THEN hits ELSE hits + 1
Throttled(r) ==
  /\ req[r] = "idle" /\ hits >= Quota /\ Consumed
  /\ UNCHANGED <<req, slots, inexact, circuit, probe, killed, twice, faults>>
WindowEnds ==
  /\ hits > 0 /\ hits' = 0
  /\ UNCHANGED <<req, slots, inexact, circuit, probe, killed, twice, faults>>

Released(s, K) == [k \in Counter |-> IF k \in K /\ s[k] > 0 THEN s[k] - 1 ELSE s[k]]

(* acquire: INCR, and DECR when that passed the limit; the school first.   *)
AcquireSchool(r) ==
  /\ req[r] = "idle" /\ hits < Quota /\ Consumed
  /\ IF slots["school"] < Slots["school"]
     THEN slots' = [slots EXCEPT !["school"] = @ + 1] /\ Goes(r, "school")
     ELSE UNCHANGED <<req, slots>>
  /\ UNCHANGED <<inexact, circuit, probe, killed, twice, faults>>
(* Faulty variant: a request refused by the extension's limit keeps the    *)
(* slot of the school.                                                     *)
KeepSchool(r) ==
  /\ req[r] = "school"
  /\ IF slots["extension"] < Slots["extension"]
     THEN slots' = [slots EXCEPT !["extension"] = @ + 1] /\ Goes(r, "both")
     ELSE UNCHANGED slots /\ Goes(r, "idle")
  /\ UNCHANGED <<hits, inexact, circuit, probe, killed, twice, faults>>
AcquireExtension(r) ==
  /\ req[r] = "school"
  /\ IF slots["extension"] < Slots["extension"]
     THEN slots' = [slots EXCEPT !["extension"] = @ + 1] /\ Goes(r, "both")
     ELSE slots' = Released(slots, {"school"}) /\ Goes(r, "idle")
  /\ UNCHANGED <<hits, inexact, circuit, probe, killed, twice, faults>>
Leave(r) ==
  /\ req[r] = "leave" /\ Goes(r, "idle")
  /\ slots' = Released(slots, Counter)
  /\ UNCHANGED <<hits, inexact, circuit, probe, killed, twice, faults>>

(* A process dies, or Redis does not answer the release.                   *)
Lose(r) ==
  /\ Fault /\ req[r] # "idle" /\ Goes(r, "idle")
  /\ inexact' = [k \in Counter |-> inexact[k] \/ r \in Holders(k)]
  /\ UNCHANGED <<hits, slots, circuit, probe, killed, twice>>
(* The key of a counter lapses 300 s after the last request that asked for *)
(* a slot, whatever still runs.                                            *)
Lapse(k) ==
  /\ Fault /\ slots[k] > 0 /\ slots' = [slots EXCEPT ![k] = 0]
  /\ inexact' = [inexact EXCEPT ![k] = Holders(k) # {}]
  /\ UNCHANGED <<req, hits, circuit, probe, killed, twice>>
-----------------------------------------------------------------------------
(* assertRequestAllowed: HGET, then SET NX when the opening is old enough. *)
AskCircuit(r) ==
  /\ req[r] = "both"
  /\ Goes(r, CASE circuit.state = "closed" -> "run" [] circuit.state = "open" -> "leave"
               [] circuit.state = "ripe" -> "ripe")
  /\ UNCHANGED <<hits, slots, inexact, circuit, probe, killed, twice, faults>>
TakeProbe(r) ==
  /\ req[r] = "ripe" /\ probe' = TRUE
  /\ Goes(r, IF probe THEN "leave" ELSE "probing")
  /\ twice' = (twice \/ (~ probe /\ \E s \in Request : req[s] \in Probing))
  /\ UNCHANGED <<hits, slots, inexact, circuit, killed, faults>>

(* assertAllowed of the kill switches, then the handler.                   *)
Authorize(r) ==
  /\ req[r] \in {"run", "probing"} /\ ~ killed.on
  /\ Goes(r, IF req[r] = "run" THEN "act" ELSE "actProbing")
  /\ UNCHANGED <<hits, slots, inexact, circuit, probe, killed, twice, faults>>
(* Faulty variant: a success forgets the probe and not the opening.        *)
ForgetProbe(r) ==
  /\ req[r] \in {"act", "actProbing"} /\ Goes(r, "leave") /\ probe' = FALSE
  /\ UNCHANGED <<hits, slots, inexact, circuit, killed, twice, faults>>
Succeed(r) ==
  /\ req[r] \in {"act", "actProbing"} /\ Goes(r, "leave")
  /\ circuit' = Closed /\ probe' = FALSE
  /\ UNCHANGED <<hits, slots, inexact, killed, twice, faults>>
Fail(r) ==
  /\ Fault /\ req[r] \in {"act", "actProbing"} /\ Goes(r, "leave")
  /\ LET n == circuit.failures + 1
     IN circuit' = IF n >= Threshold THEN [failures |-> Threshold, state |-> "open"]
                   ELSE [circuit EXCEPT !.failures = n]
  /\ probe' = FALSE
  /\ UNCHANGED <<hits, slots, inexact, killed, twice>>
(* An error below 500, the kill switch's 403 among them, is recorded       *)
(* neither as a success nor as a failure.                                  *)
Refuse(r) ==
  /\ \/ req[r] \in {"run", "probing"} /\ killed.on /\ UNCHANGED faults
     \/ req[r] \in {"act", "actProbing"} /\ Fault
  /\ Goes(r, "leave")
  /\ UNCHANGED <<hits, slots, inexact, circuit, probe, killed, twice>>

Ripen ==
  /\ circuit.state = "open" /\ circuit' = [circuit EXCEPT !.state = "ripe"]
  /\ UNCHANGED <<req, hits, slots, inexact, probe, killed, twice, faults>>
ProbeExpires ==
  /\ probe /\ probe' = FALSE
  /\ UNCHANGED <<req, hits, slots, inexact, circuit, killed, twice, faults>>
CircuitExpires ==
  /\ Fault /\ circuit # Closed /\ circuit' = Closed
  /\ UNCHANGED <<req, hits, slots, inexact, probe, killed, twice>>

(* ExtensionControlService.set: the switch, then the audit record.         *)
SetSwitch ==
  /\ Fault /\ killed' = [on |-> ~ killed.on, audited |-> FALSE]
  /\ UNCHANGED <<req, hits, slots, inexact, circuit, probe, twice>>
AuditSwitch ==
  /\ ~ killed.audited /\ killed' = [killed EXCEPT !.audited = TRUE]
  /\ UNCHANGED <<req, hits, slots, inexact, circuit, probe, twice, faults>>
-----------------------------------------------------------------------------
Serve(r) ==
  \/ AcquireSchool(r) \/ AcquireExtension(r) \/ AskCircuit(r) \/ TakeProbe(r)
  \/ Authorize(r) \/ Leave(r)
Happens == WindowEnds \/ Ripen \/ ProbeExpires

ProtectionNext ==
  \/ Happens \/ CircuitExpires \/ SetSwitch \/ AuditSwitch
  \/ \E k \in Counter : Lapse(k)
  \/ \E r \in Request :
       Serve(r) \/ Succeed(r) \/ Fail(r) \/ Refuse(r) \/ Throttled(r) \/ Lose(r)

ProtectionSpec == ProtectionInit /\ [][ProtectionNext]_protectionVars

(* Time passes and requests that entered are carried on.  That requests    *)
(* enter again and again, and that from some time on one of them succeeds, *)
(* is an assumption about clients and the handler.                         *)
ProtectionFairness ==
  /\ WF_protectionVars(WindowEnds) /\ WF_protectionVars(Ripen) /\ WF_protectionVars(ProbeExpires)
  /\ \A r \in Request : SF_protectionVars(Serve(r)) /\ WF_protectionVars(Succeed(r))

-----------------------------------------------------------------------------
(* The counters of concurrent requests count the requests that run: a      *)
(* refusal or an end at any stage gives back what was taken and no more,   *)
(* unless a process died or the key lapsed under a running request         *)
(* (extension-resource-governor.service.ts, enterRequest and release).     *)
CountsWhatRuns ==
  \A k \in Counter : inexact[k] \/ slots[k] = Cardinality(Holders(k))

(* Once the failures, crashes and client errors end, the circuit closes    *)
(* again, although its hash would last ten times longer: a lost probe does *)
(* not hold it open (circuit-breaker.service.ts:41).  A switch that stays  *)
(* on does: nothing it refuses counts as a success.                        *)
CircuitRecovers == (circuit.state # "closed") ~> (circuit.state = "closed" \/ killed.on)

(* "permits one recovery probe" (docs/extension-emergency-controls.md:17): *)
(* refuted, a failure of an older request deletes the key of a probe that  *)
(* still runs.                                                             *)
OneProbe == ~ twice
(* A request acts only while no switch forbids it: refuted, the check is   *)
(* made before the handler reads and writes.                               *)
NothingActsWhileKilled == killed.on => \A r \in Request : req[r] \notin {"act", "actProbing"}
=============================================================================
