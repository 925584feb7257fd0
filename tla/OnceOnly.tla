------------------------------ MODULE OnceOnly ------------------------------
(***************************************************************************)
(* What an Idempotency-Key promises, docs/api-idempotency.md: the mutation *)
(* sent under one key is applied once, and whoever is told of its success  *)
(* sent the payload that was applied.  Where the response of a mutation is *)
(* lost, the promise ends: it may be applied again.                        *)
(***************************************************************************)
EXTENDS Sequences, Naturals

CONSTANT Payload

VARIABLES
  applied,  \* the payloads applied, in order
  answers,  \* the successes reported: whose payload, and which application
  lost      \* was the response of an application lost?

Init == applied = <<>> /\ answers = {} /\ lost = FALSE

Apply(p) ==
  /\ applied = <<>> \/ lost
  /\ applied' = Append(applied, p)
  /\ UNCHANGED <<answers, lost>>

Answer(p, n) ==
  /\ applied[n] = p
  /\ answers' = answers \cup {[payload |-> p, effect |-> n]}
  /\ UNCHANGED <<applied, lost>>

Lose ==
  /\ applied # <<>> /\ lost' = TRUE
  /\ UNCHANGED <<applied, answers>>

Next ==
  \/ \E p \in Payload : Apply(p) \/ \E n \in DOMAIN applied : Answer(p, n)
  \/ Lose

Spec == Init /\ [][Next]_<<applied, answers, lost>>
=============================================================================
