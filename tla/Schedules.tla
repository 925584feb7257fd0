------------------------------- MODULE Schedules -------------------------------
(***************************************************************************)
(* Who runs a scheduled task: every API or worker process calls it at the  *)
(* same time of its own clock, and a claim in Redis lets one of them run   *)
(* it in each window (security/scheduled-task-guard.service.ts).           *)
(***************************************************************************)
EXTENDS Integers, FiniteSets

CONSTANTS
  Server,   \* processes
  Skew,     \* Skew[p]: how far its clock is ahead
  Window,   \* length of a window, in ticks
  LastTick  \* bound on the time

VARIABLES
  now,    \* the time, by the clock of Redis
  tried,  \* tried[p]: the window of p's last call
  claim,  \* claim[b]: when the key of window b expires, 0 without a key
  ran     \* ran[b]: history: who ran the task of window b

scheduleVars == <<now, tried, claim, ran>>

Local(p) == now + Skew[p]
Windows == 0..((LastTick + Window) \div Window)

SchedulesTypeOK ==
  /\ now \in 0..LastTick /\ tried \in [Server -> {-1} \cup Windows]
  /\ claim \in [Windows -> Nat] /\ ran \in [Windows -> SUBSET Server]
SchedulesInit ==
  /\ now = 0 /\ tried = [p \in Server |-> -1]
  /\ claim = [b \in Windows |-> 0] /\ ran = [b \in Windows |-> {}]

(* Faulty variant: the claim lasts as long as the window.                  *)
OneWindow == Window
(* ttlMs: two windows.                                                     *)
Lifetime == 2 * Window

(* acquire: SET NX with an expiry. The call comes late when the process is *)
(* busy, but within the window of its clock that the cron fired in.        *)
Acquire(p) ==
  LET b == Local(p) \div Window
  IN  /\ Local(p) >= 0 /\ tried[p] < b /\ tried' = [tried EXCEPT ![p] = b]
      /\ IF claim[b] > now
         THEN UNCHANGED <<claim, ran>>
         ELSE /\ claim' = [claim EXCEPT ![b] = now + Lifetime]
              /\ ran' = [ran EXCEPT ![b] = @ \cup {p}]
      /\ UNCHANGED now
Tick == now < LastTick /\ now' = now + 1 /\ UNCHANGED <<tried, claim, ran>>

SchedulesNext == Tick \/ \E p \in Server : Acquire(p)
-----------------------------------------------------------------------------
(* A window's task runs in one process, though clocks differ by less than  *)
(* a window and calls come late (scheduled-task-guard.service.ts:19-22).   *)
OncePerWindow == \A b \in Windows : Cardinality(ran[b]) <= 1
=============================================================================
