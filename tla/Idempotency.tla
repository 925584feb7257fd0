----------------------------- MODULE Idempotency -----------------------------
(***************************************************************************)
(* The requests that carry one Idempotency-Key, as IdempotencyInterceptor  *)
(* and IdempotencyStore handle them: the key is reserved in Redis, the     *)
(* handler runs, its response is stored under the key and replayed to      *)
(* later requests, and a failure releases the key.                         *)
(*                                                                         *)
(* The key's time to live, 24 hours, is longer than the behaviours of this *)
(* model.  A handler is one transaction: it applies its payload or fails.  *)
(***************************************************************************)
EXTENDS Sequences, Naturals

CONSTANTS
  Client,      \* requests in flight at a time
  Payload,     \* request bodies, told apart by their fingerprints
  Sends,       \* bound: requests sent with the key
  HandlerFaults, \* may the handler fail?
  Oversized,   \* may the response exceed IDEMPOTENCY_MAX_RESPONSE_BYTES?
  RedisFaults, \* calls of the store that may throw
  MaxCrashes,  \* bound: API crashes
  None         \* no payload

ASSUME IdempotencyAssumption ==
  /\ None \notin Payload
  /\ {Sends, MaxCrashes} \subseteq Nat
  /\ {HandlerFaults, Oversized} \subseteq BOOLEAN
  /\ RedisFaults \subseteq {"reserve", "complete", "release"}

VARIABLES
  record,   \* the value of the key in Redis
  client,   \* what each request in flight is doing
  sends,    \* requests sent so far
  crashes,  \* API crashes so far
  applied,  \* history: the payloads the handlers applied
  answers,  \* history: the successes reported
  lost,     \* history: was the response of an application not kept?
  cutOff    \* history: did a request end without its last call of the store?

history == <<applied, answers, lost, cutOff>>
vars == <<record, client, sends, crashes, history>>

(* effect is the response: which application it reports.                   *)
Absent == [state |-> "ABSENT", fingerprint |-> None, effect |-> 0]
Record == [state : {"ABSENT", "PROCESSING", "COMPLETED"},
           fingerprint : Payload \cup {None}, effect : 0..Sends]

Idle == [pc |-> "idle", payload |-> None, effect |-> 0]
Slot == [pc : {"idle", "reserve", "get", "handle", "complete", "discard", "release"},
         payload : Payload \cup {None}, effect : 0..Sends]

TypeOK ==
  /\ record \in Record
  /\ client \in [Client -> Slot]
  /\ sends \in 0..Sends /\ crashes \in 0..MaxCrashes
  /\ applied \in Seq(Payload) /\ Len(applied) <= Sends
  /\ answers \subseteq [payload : Payload, effect : 1..Sends]
  /\ {lost, cutOff} \subseteq BOOLEAN

Init ==
  /\ record = Absent
  /\ client = [c \in Client |-> Idle]
  /\ sends = 0 /\ crashes = 0
  /\ applied = <<>> /\ answers = {} /\ lost = FALSE /\ cutOff = FALSE

-----------------------------------------------------------------------------
Goto(c, pc) == client' = [client EXCEPT ![c].pc = pc]
Ends(c) == client' = [client EXCEPT ![c] = Idle]
Succeeds(c, effect) ==
  /\ answers' = answers \cup {[payload |-> client[c].payload, effect |-> effect]}
  /\ Ends(c)

Send(c, p) ==
  /\ client[c].pc = "idle" /\ sends < Sends /\ sends' = sends + 1
  /\ client' = [client EXCEPT ![c] = [pc |-> "reserve", payload |-> p, effect |-> 0]]
  /\ UNCHANGED <<record, crashes, history>>

(* SET NX.                                                                 *)
Reserve(c) ==
  /\ client[c].pc = "reserve"
  /\ IF record = Absent
     THEN /\ record' = [Absent EXCEPT !.state = "PROCESSING", !.fingerprint = client[c].payload]
          /\ Goto(c, "handle")
     ELSE Goto(c, "get") /\ UNCHANGED record
  /\ UNCHANGED <<sends, crashes, history>>

(* A call that throws may have reached Redis.  So may the first of the two *)
(* attempts that ioredis makes: the second then finds the key taken.       *)
ReserveFails(c) ==
  /\ "reserve" \in RedisFaults /\ client[c].pc \in {"reserve", "get"}
  /\ Ends(c) /\ cutOff' = TRUE
  /\ \/ UNCHANGED record
     \/ /\ client[c].pc = "reserve" /\ record = Absent
        /\ record' = [Absent EXCEPT !.state = "PROCESSING", !.fingerprint = client[c].payload]
  /\ UNCHANGED <<sends, crashes, applied, answers, lost>>

(* Faulty variant: catchError encloses the reservation too.                *)
ReadOrRelease(c) ==
  /\ client[c].pc = "get"
  /\ CASE record = Absent                             -> Goto(c, "reserve") /\ UNCHANGED answers
       [] record # Absent /\ record.state = "COMPLETED"
            /\ record.fingerprint = client[c].payload -> Succeeds(c, record.effect)
       [] OTHER                                       -> Goto(c, "release") /\ UNCHANGED answers
  /\ UNCHANGED <<record, sends, crashes, applied, lost, cutOff>>

(* Faulty variant: the fingerprints are not compared.                      *)
ReplayAnything(c) ==
  /\ client[c].pc = "get"
  /\ CASE record = Absent              -> Goto(c, "reserve") /\ UNCHANGED answers
       [] record.state = "COMPLETED"   -> Succeeds(c, record.effect)
       [] OTHER                        -> Ends(c) /\ UNCHANGED answers
  /\ UNCHANGED <<record, sends, crashes, applied, lost, cutOff>>

(* Faulty variant: the response of the request itself is sent.             *)
ReplayOwn(c) ==
  /\ client[c].pc = "get"
  /\ CASE record = Absent                             -> Goto(c, "reserve") /\ UNCHANGED answers
       [] record # Absent /\ record.state = "COMPLETED"
            /\ record.fingerprint = client[c].payload -> Succeeds(c, client[c].effect)
       [] OTHER                                       -> Ends(c) /\ UNCHANGED answers
  /\ UNCHANGED <<record, sends, crashes, applied, lost, cutOff>>

(* GET.  The key may have been released since it could not be reserved.    *)
ReadRecord(c) ==
  /\ client[c].pc = "get"
  /\ CASE record = Absent                             -> Goto(c, "reserve") /\ UNCHANGED answers
       [] record # Absent /\ record.state = "COMPLETED"
            /\ record.fingerprint = client[c].payload -> Succeeds(c, record.effect)
       [] OTHER                                       -> Ends(c) /\ UNCHANGED answers
  /\ UNCHANGED <<record, sends, crashes, applied, lost, cutOff>>

(* The controller: only a handler that succeeds has an effect.             *)
Handle(c) ==
  /\ client[c].pc = "handle"
  /\ applied' = Append(applied, client[c].payload)
  /\ client' = [client EXCEPT ![c] = [pc |-> "complete", payload |-> client[c].payload,
                                      effect |-> Len(applied) + 1]]
  /\ UNCHANGED <<record, sends, crashes, answers, lost, cutOff>>

HandlerFails(c) ==
  /\ HandlerFaults /\ client[c].pc = "handle"
  /\ Goto(c, "release")
  /\ UNCHANGED <<record, sends, crashes, history>>

(* SET XX: a key that is gone is not created again.                        *)
Complete(c) ==
  /\ client[c].pc = "complete"
  /\ record' = IF record = Absent THEN Absent
               ELSE [state |-> "COMPLETED", fingerprint |-> client[c].payload,
                     effect |-> client[c].effect]
  /\ Succeeds(c, client[c].effect)
  /\ UNCHANGED <<sends, crashes, applied, lost, cutOff>>

(* The key is released, and again by catchError.                           *)
TooLarge(c) ==
  /\ Oversized /\ client[c].pc = "complete"
  /\ Goto(c, "discard") /\ lost' = TRUE
  /\ UNCHANGED <<record, sends, crashes, applied, answers, cutOff>>

(* The SET throws, having reached Redis or not.                            *)
CompleteFails(c) ==
  /\ "complete" \in RedisFaults /\ client[c].pc = "complete"
  /\ Goto(c, "release") /\ lost' = TRUE
  /\ \/ UNCHANGED record
     \/ /\ record # Absent
        /\ record' = [state |-> "COMPLETED", fingerprint |-> client[c].payload,
                      effect |-> client[c].effect]
  /\ UNCHANGED <<sends, crashes, applied, answers, cutOff>>

AfterRelease(c) ==
  \/ client[c].pc = "discard" /\ Goto(c, "release")
  \/ client[c].pc = "release" /\ Ends(c)

(* Faulty variant: a failed handler keeps the reservation.                 *)
KeepReservation(c) ==
  /\ client[c].pc = "release"
  /\ Ends(c)
  /\ UNCHANGED <<record, sends, crashes, history>>

(* The script deletes a key that is PROCESSING with this fingerprint.      *)
Release(c) ==
  /\ client[c].pc \in {"discard", "release"}
  /\ record' = IF record.state = "PROCESSING" /\ record.fingerprint = client[c].payload
               THEN Absent ELSE record
  /\ AfterRelease(c)
  /\ UNCHANGED <<sends, crashes, history>>

ReleaseFails(c) ==
  /\ "release" \in RedisFaults /\ client[c].pc \in {"discard", "release"}
  /\ AfterRelease(c) /\ cutOff' = TRUE
  /\ UNCHANGED <<record, sends, crashes, applied, answers, lost>>

Crash(c) ==
  /\ client[c].pc # "idle" /\ crashes < MaxCrashes /\ crashes' = crashes + 1
  /\ Ends(c) /\ cutOff' = TRUE
  /\ UNCHANGED <<record, sends, applied, answers, lost>>

-----------------------------------------------------------------------------
Intercept(c) == Reserve(c) \/ ReadRecord(c) \/ Handle(c) \/ Complete(c) \/ Release(c)

Next ==
  \E c \in Client :
    \/ \E p \in Payload : Send(c, p)
    \/ Intercept(c)
    \/ HandlerFails(c) \/ TooLarge(c) \/ Crash(c)
    \/ ReserveFails(c) \/ CompleteFails(c) \/ ReleaseFails(c)

Spec == Init /\ [][Next]_vars

(* A request that was accepted is carried on.                              *)
Fairness == \A c \in Client : WF_vars(Intercept(c))

FairSpec == Spec /\ Fairness
-----------------------------------------------------------------------------
(* Properties.                                                             *)

(* The interceptor implements the promise of the key, however the requests *)
(* that carry it overlap, fail or are cut off: until a response could not  *)
(* be kept the mutation is applied once, and every success that is         *)
(* reported is about the payload of the request that is told of it.        *)
Once == INSTANCE OnceOnly WITH
  Payload <- Payload, applied <- applied, answers <- answers, lost <- lost
AppliedOnce == Once!Spec

(* An application whose success nobody was told is replayed to a retry     *)
(* unless its response could not be kept or the API died before storing    *)
(* it: the key never returns to where the mutation could be applied again. *)
AppliedKeyIsKept == applied # <<>> /\ ~lost => record.state # "ABSENT"

(* As long as no request is cut off, the key of a failed mutation becomes  *)
(* free for a retry, docs/api-idempotency.md.                              *)
ReservationEnds ==
  record.state = "PROCESSING" ~> record.state # "PROCESSING" \/ cutOff

(* docs/api-idempotency.md: clients may make any request safely retryable  *)
(* by sending an Idempotency-Key.                                          *)
RetryIsSafe == Len(applied) <= 1
=============================================================================
