--------------------------- MODULE Requests_proofs ---------------------------
(***************************************************************************)
(* Proofs about the two ends of a request, for any value of the constants. *)
(* First Idempotency, for any number of requests, payloads, crashes and    *)
(* failing calls of the store: the interceptor implements OnceOnly.  Then  *)
(* the pages that send requests (MCPages), for any number of requests in   *)
(* flight, tokens, posts, slides, domains and operations: requests that    *)
(* refresh at once do not end a session, the operator's pages tell what is *)
(* so, and the editors of a website keep what they were given.             *)
(***************************************************************************)
EXTENDS Idempotency, MCPages, TLAPS


Holds(c) == client[c].pc \in {"handle", "complete", "release"}

(* The types the argument needs; TypeOK adds the bounds of the model.      *)
Typed ==
  /\ client \in [Client -> [pc : {"idle", "reserve", "get", "handle", "complete",
                                  "discard", "release"},
                            payload : Payload \cup {None}, effect : Nat]]
  /\ record \in [state : {"ABSENT", "PROCESSING", "COMPLETED"},
                 fingerprint : Payload \cup {None}, effect : Nat]
  /\ record.state = "ABSENT" => record = Absent
  /\ \A c \in Client : client[c].pc # "idle" => client[c].payload \in Payload
  /\ applied \in Seq(Payload)
  /\ lost \in BOOLEAN

(* A response tells of an application of the payload it answers.           *)
Tells(n, p) == n \in 1..Len(applied) /\ applied[n] = p

EffectInv ==
  /\ \A c \in Client : client[c].pc = "complete" => Tells(client[c].effect, client[c].payload)
  /\ record.state = "COMPLETED" => Tells(record.effect, record.fingerprint)

(* Until a response is lost, one request holds the key, and nothing was    *)
(* applied before it does so ...                                           *)
HolderInv ==
  /\ \A c \in Client : client[c].pc # "discard"
  /\ \A c \in Client : Holds(c) =>
       /\ record.state = "PROCESSING" /\ record.fingerprint = client[c].payload
       /\ client[c].pc # "complete" => applied = <<>>
  /\ \A c, d \in Client : Holds(c) /\ Holds(d) => c = d

(* ... and a key that can be reserved is one whose mutation was not applied. *)
RecordInv == record.state = "ABSENT" => applied = <<>>

KeyInv == Typed /\ EffectInv /\ (~lost => HolderInv /\ RecordInv)

LEMMA InitKeyInv == Init => KeyInv
<1> SUFFICES ASSUME Init PROVE KeyInv
  OBVIOUS
<1>1. client \in [Client -> {Idle}] /\ record = Absent /\ applied = <<>> /\ lost = FALSE
  BY DEF Init
<1>2. Typed
  <2>1. /\ Idle.pc = "idle" /\ Idle.payload = None /\ Idle.effect = 0
        /\ Idle \in [pc : {"idle", "reserve", "get", "handle", "complete", "discard", "release"},
                     payload : Payload \cup {None}, effect : Nat]
    BY DEF Idle
  <2>2. Absent \in [state : {"ABSENT", "PROCESSING", "COMPLETED"},
                    fingerprint : Payload \cup {None}, effect : Nat]
    BY DEF Absent
  <2>3. \A c \in Client : client[c] = Idle
    BY <1>1
  <2>4. client \in [Client -> [pc : {"idle", "reserve", "get", "handle", "complete",
                                     "discard", "release"},
                               payload : Payload \cup {None}, effect : Nat]]
    BY <1>1, <2>1
  <2>5. applied \in Seq(Payload) /\ record \in [state : {"ABSENT", "PROCESSING", "COMPLETED"},
                                                fingerprint : Payload \cup {None}, effect : Nat]
    BY <1>1, <2>2
  <2>6. \A c \in Client : client[c].pc # "idle" => client[c].payload \in Payload
    BY <2>1, <2>3
  <2>7. QED
    BY <1>1, <2>4, <2>5, <2>6 DEF Typed
<1>3. EffectInv
  BY <1>1 DEF EffectInv, Idle, Absent
<1>4. HolderInv /\ RecordInv
  BY <1>1 DEF HolderInv, RecordInv, Holds, Idle
<1>5. QED
  BY <1>2, <1>3, <1>4 DEF KeyInv

-----------------------------------------------------------------------------
(* What the steps of a request do to its own slot.                         *)
LEMMA GotoSlot ==
  ASSUME Typed, NEW c \in Client, NEW pc, Goto(c, pc),
         pc \in {"reserve", "get", "handle", "complete", "discard", "release"},
         client[c].pc # "idle"
  PROVE  /\ client' \in [Client -> [pc : {"idle", "reserve", "get", "handle", "complete",
                                          "discard", "release"},
                                    payload : Payload \cup {None}, effect : Nat]]
         /\ client'[c].pc = pc /\ client'[c].payload = client[c].payload
         /\ client'[c].effect = client[c].effect
         /\ \A d \in Client : d # c => client'[d] = client[d]
         /\ \A d \in Client : client'[d].pc # "idle" => client'[d].payload \in Payload
<1>1. client' = [client EXCEPT ![c].pc = pc]
  BY DEF Goto
<1>2. client[c].payload \in Payload
  BY DEF Typed
<1>3. QED
  BY <1>1, <1>2 DEF Typed

LEMMA EndsSlot ==
  ASSUME Typed, NEW c \in Client, Ends(c)
  PROVE  /\ client' \in [Client -> [pc : {"idle", "reserve", "get", "handle", "complete",
                                          "discard", "release"},
                                    payload : Payload \cup {None}, effect : Nat]]
         /\ client'[c] = Idle
         /\ \A d \in Client : d # c => client'[d] = client[d]
         /\ \A d \in Client : client'[d].pc # "idle" => client'[d].payload \in Payload
<1>1. client' = [client EXCEPT ![c] = Idle]
  BY DEF Ends
<1>2. Idle \in [pc : {"idle", "reserve", "get", "handle", "complete", "discard", "release"},
                payload : Payload \cup {None}, effect : Nat]
  BY DEF Idle
<1>3. QED
  BY <1>1, <1>2 DEF Typed, Idle

(* A request that ends without having touched the key or applied anything. *)
LEMMA EndKeepsKey ==
  ASSUME KeyInv, NEW c \in Client, Ends(c), UNCHANGED <<record, applied, lost>>
  PROVE  KeyInv'
<1>1. Typed'
  BY EndsSlot DEF KeyInv, Typed
<1>2. EffectInv'
  BY EndsSlot DEF KeyInv, EffectInv, Tells, Idle
<1>3. ASSUME ~lost' PROVE HolderInv' /\ RecordInv'
  BY <1>3, EndsSlot DEF KeyInv, HolderInv, RecordInv, Holds, Idle
<1>4. QED
  BY <1>1, <1>2, <1>3 DEF KeyInv

(* A request that goes on to a step that does not hold the key.            *)
LEMMA GotoKeepsKey ==
  ASSUME KeyInv, NEW c \in Client, NEW pc \in {"reserve", "get"}, Goto(c, pc),
         client[c].pc # "idle", UNCHANGED <<record, applied, lost>>
  PROVE  KeyInv'
<1>1. Typed'
  BY GotoSlot DEF KeyInv, Typed
<1>2. EffectInv'
  BY GotoSlot DEF KeyInv, EffectInv, Tells
<1>3. ASSUME ~lost' PROVE HolderInv' /\ RecordInv'
  BY <1>3, GotoSlot DEF KeyInv, HolderInv, RecordInv, Holds
<1>4. QED
  BY <1>1, <1>2, <1>3 DEF KeyInv

-----------------------------------------------------------------------------
LEMMA SendKeyInv ==
  ASSUME KeyInv, NEW c \in Client, NEW p \in Payload, Send(c, p)
  PROVE  KeyInv'
<1>1. /\ client' = [client EXCEPT ![c] = [pc |-> "reserve", payload |-> p, effect |-> 0]]
      /\ UNCHANGED <<record, applied, lost>>
  BY DEF Send, history
<1>2. Typed'
  BY <1>1 DEF KeyInv, Typed
<1>3. EffectInv'
  BY <1>1 DEF KeyInv, EffectInv, Tells, Typed
<1>4. ASSUME ~lost' PROVE HolderInv' /\ RecordInv'
  BY <1>1, <1>4 DEF KeyInv, Typed, HolderInv, RecordInv, Holds
<1>5. QED
  BY <1>2, <1>3, <1>4 DEF KeyInv

LEMMA ReserveKeyInv ==
  ASSUME KeyInv, NEW c \in Client, Reserve(c)
  PROVE  KeyInv'
<1>1. UNCHANGED <<applied, lost>> /\ client[c].pc = "reserve"
  BY DEF Reserve, history
<1>2. CASE record = Absent
  <2>1. /\ record' = [state |-> "PROCESSING", fingerprint |-> client[c].payload, effect |-> 0]
        /\ Goto(c, "handle")
    BY <1>2 DEF Reserve, Absent
  <2>2. client[c].payload \in Payload
    BY <1>1 DEF KeyInv, Typed
  <2>3. Typed'
    BY <1>1, <2>1, <2>2, GotoSlot DEF KeyInv, Typed
  <2>4. EffectInv'
    BY <1>1, <2>1, GotoSlot DEF KeyInv, EffectInv, Tells
  <2>5. ASSUME ~lost' PROVE HolderInv' /\ RecordInv'
    <3>1. applied = <<>> /\ \A d \in Client : ~Holds(d)
      BY <1>1, <1>2, <2>5 DEF KeyInv, HolderInv, RecordInv, Absent
    <3>2. QED
      BY <1>1, <2>1, <2>5, <3>1, GotoSlot DEF KeyInv, HolderInv, RecordInv, Holds
  <2>6. QED
    BY <2>3, <2>4, <2>5 DEF KeyInv
<1>3. CASE record # Absent
  BY <1>1, <1>3, GotoKeepsKey DEF Reserve
<1>4. QED
  BY <1>2, <1>3

LEMMA ReserveFailsKeyInv ==
  ASSUME KeyInv, NEW c \in Client, ReserveFails(c)
  PROVE  KeyInv'
<1>1. UNCHANGED <<applied, lost>> /\ Ends(c)
  BY DEF ReserveFails
<1>2. CASE record' = record
  BY <1>1, <1>2, EndKeepsKey
<1>3. CASE record' # record
  <2>1. /\ record = Absent /\ client[c].pc = "reserve"
        /\ record' = [state |-> "PROCESSING", fingerprint |-> client[c].payload, effect |-> 0]
    BY <1>3 DEF ReserveFails, Absent
  <2>2. client[c].payload \in Payload
    BY <2>1 DEF KeyInv, Typed
  <2>3. Typed'
    BY <1>1, <2>1, <2>2, EndsSlot DEF KeyInv, Typed
  <2>4. EffectInv'
    BY <1>1, <2>1, EndsSlot DEF KeyInv, EffectInv, Tells, Idle
  <2>5. ASSUME ~lost' PROVE HolderInv' /\ RecordInv'
    <3>1. \A d \in Client : ~Holds(d)
      BY <1>1, <2>1, <2>5 DEF KeyInv, HolderInv, Absent
    <3>2. QED
      BY <1>1, <2>1, <2>5, <3>1, EndsSlot DEF KeyInv, HolderInv, RecordInv, Holds, Idle
  <2>6. QED
    BY <2>3, <2>4, <2>5 DEF KeyInv
<1>4. QED
  BY <1>2, <1>3

LEMMA HandleKeyInv ==
  ASSUME KeyInv, NEW c \in Client, Handle(c)
  PROVE  KeyInv'
<1>1. /\ client' = [client EXCEPT ![c] = [pc |-> "complete", payload |-> client[c].payload,
                                          effect |-> Len(applied) + 1]]
      /\ applied' = Append(applied, client[c].payload) /\ client[c].pc = "handle"
      /\ UNCHANGED <<record, lost>>
  BY DEF Handle
<1>2. client[c].payload \in Payload /\ applied \in Seq(Payload) /\ Len(applied) \in Nat
  BY <1>1 DEF KeyInv, Typed
<1>3. Typed'
  <2>1. client' \in [Client -> [pc : {"idle", "reserve", "get", "handle", "complete",
                                      "discard", "release"},
                                payload : Payload \cup {None}, effect : Nat]]
    BY <1>1, <1>2 DEF KeyInv, Typed
  <2>2. \A d \in Client : client'[d].pc # "idle" => client'[d].payload \in Payload
    BY <1>1, <1>2 DEF KeyInv, Typed
  <2>3. applied' \in Seq(Payload)
    BY <1>1, <1>2
  <2>4. QED
    BY <1>1, <2>1, <2>2, <2>3 DEF KeyInv, Typed
<1>4. /\ client'[c].pc = "complete" /\ client'[c].effect = Len(applied) + 1
      /\ client'[c].payload = client[c].payload
      /\ \A d \in Client : d # c => client'[d] = client[d]
  BY <1>1 DEF KeyInv, Typed
<1>5. /\ Len(applied') = Len(applied) + 1
      /\ applied'[Len(applied) + 1] = client[c].payload
      /\ \A n \in 1..Len(applied) : applied'[n] = applied[n]
  BY <1>1, <1>2
<1>6. EffectInv'
  <2>1. \A n \in 1..Len(applied) : n \in 1..Len(applied') /\ applied'[n] = applied[n]
    BY <1>2, <1>5
  <2>2. Len(applied) + 1 \in 1..Len(applied')
    BY <1>2, <1>5
  <2>3. ASSUME NEW d \in Client, client'[d].pc = "complete"
        PROVE  Tells(client[d].effect, client[d].payload)'
    <3>1. CASE d = c
      BY <1>4, <1>5, <2>2, <3>1 DEF Tells
    <3>2. CASE d # c
      <4>1. Tells(client[d].effect, client[d].payload) /\ client'[d] = client[d]
        BY <1>4, <2>3, <3>2 DEF KeyInv, EffectInv
      <4>2. QED
        BY <2>1, <4>1 DEF Tells
    <3>3. QED
      BY <3>1, <3>2
  <2>4. record'.state = "COMPLETED" => Tells(record.effect, record.fingerprint)'
    BY <1>1, <2>1 DEF KeyInv, EffectInv, Tells
  <2>5. QED
    BY <2>3, <2>4 DEF EffectInv
<1>7. ASSUME ~lost' PROVE HolderInv' /\ RecordInv'
  BY <1>1, <1>4, <1>7 DEF KeyInv, HolderInv, RecordInv, Holds
<1>8. QED
  BY <1>3, <1>6, <1>7 DEF KeyInv

LEMMA CompleteKeyInv ==
  ASSUME KeyInv, NEW c \in Client, Complete(c)
  PROVE  KeyInv'
<1>1. client[c].pc = "complete" /\ Ends(c) /\ UNCHANGED <<applied, lost>>
  BY DEF Complete, Succeeds
<1>2. client[c].payload \in Payload /\ Tells(client[c].effect, client[c].payload)
  BY <1>1 DEF KeyInv, Typed, EffectInv
<1>3. \/ record' = record
      \/ record' = [state |-> "COMPLETED", fingerprint |-> client[c].payload,
                    effect |-> client[c].effect]
  BY DEF Complete
<1>4. CASE record' = record
  BY <1>1, <1>4, EndKeepsKey
<1>5. CASE record' = [state |-> "COMPLETED", fingerprint |-> client[c].payload,
                      effect |-> client[c].effect]
  <2>1. Typed'
    BY <1>1, <1>2, <1>5, EndsSlot DEF KeyInv, Typed
  <2>2. EffectInv'
    BY <1>1, <1>2, <1>5, EndsSlot DEF KeyInv, EffectInv, Tells, Idle
  <2>3. ASSUME ~lost' PROVE HolderInv' /\ RecordInv'
    <3>1. \A d \in Client : Holds(d) => d = c
      BY <1>1, <2>3 DEF KeyInv, HolderInv, Holds
    <3>2. QED
      BY <1>1, <1>5, <2>3, <3>1, EndsSlot DEF KeyInv, HolderInv, RecordInv, Holds, Idle
  <2>4. QED
    BY <2>1, <2>2, <2>3 DEF KeyInv
<1>6. QED
  BY <1>3, <1>4, <1>5

(* Once a response is lost, the types and the effects are all there is to keep. *)
LEMMA LostKeyInv ==
  ASSUME KeyInv, NEW c \in Client, TooLarge(c) \/ CompleteFails(c)
  PROVE  KeyInv'
<1>1. /\ client[c].pc = "complete" /\ lost' = TRUE /\ applied' = applied
      /\ Goto(c, "discard") \/ Goto(c, "release")
      /\ \/ record' = record
         \/ record' = [state |-> "COMPLETED", fingerprint |-> client[c].payload,
                       effect |-> client[c].effect]
  BY DEF TooLarge, CompleteFails
<1>2. client[c].payload \in Payload /\ Tells(client[c].effect, client[c].payload)
  BY <1>1 DEF KeyInv, Typed, EffectInv
<1>3. PICK pc \in {"discard", "release"} : Goto(c, pc)
  BY <1>1
<1>4. Typed'
  BY <1>1, <1>2, <1>3, GotoSlot DEF KeyInv, Typed
<1>5. EffectInv'
  BY <1>1, <1>2, <1>3, GotoSlot DEF KeyInv, EffectInv, Tells
<1>6. QED
  BY <1>1, <1>4, <1>5 DEF KeyInv

LEMMA HandlerFailsKeyInv ==
  ASSUME KeyInv, NEW c \in Client, HandlerFails(c)
  PROVE  KeyInv'
<1>1. client[c].pc = "handle" /\ Goto(c, "release") /\ UNCHANGED <<record, applied, lost>>
  BY DEF HandlerFails, history
<1>2. Typed'
  BY <1>1, GotoSlot DEF KeyInv, Typed
<1>3. EffectInv'
  BY <1>1, GotoSlot DEF KeyInv, EffectInv, Tells
<1>4. ASSUME ~lost' PROVE HolderInv' /\ RecordInv'
  BY <1>1, <1>4, GotoSlot DEF KeyInv, HolderInv, RecordInv, Holds
<1>5. QED
  BY <1>2, <1>3, <1>4 DEF KeyInv

LEMMA ReleaseKeyInv ==
  ASSUME KeyInv, NEW c \in Client, Release(c) \/ ReleaseFails(c)
  PROVE  KeyInv'
<1>1. /\ client[c].pc \in {"discard", "release"} /\ AfterRelease(c)
      /\ UNCHANGED <<applied, lost>>
      /\ record' = record \/ (record.state = "PROCESSING" /\ record' = Absent)
  BY DEF Release, ReleaseFails, history
<1>2. /\ client' \in [Client -> [pc : {"idle", "reserve", "get", "handle", "complete",
                                        "discard", "release"},
                                  payload : Payload \cup {None}, effect : Nat]]
      /\ client'[c].pc \in {"idle", "release"}
      /\ \A d \in Client : d # c => client'[d] = client[d]
      /\ \A d \in Client : client'[d].pc # "idle" => client'[d].payload \in Payload
  BY <1>1, GotoSlot, EndsSlot DEF AfterRelease, Idle, KeyInv
<1>3. Typed'
  BY <1>1, <1>2 DEF KeyInv, Typed, Absent
<1>4. EffectInv'
  BY <1>1, <1>2 DEF KeyInv, EffectInv, Tells, Absent
<1>5. ASSUME ~lost' PROVE HolderInv' /\ RecordInv'
  <2>1. client[c].pc = "release" /\ Holds(c) /\ applied = <<>>
    BY <1>1, <1>5 DEF KeyInv, HolderInv, Holds
  <2>2. client'[c] = Idle /\ \A d \in Client : Holds(d) => d = c
    BY <1>1, <1>5, <2>1, EndsSlot DEF AfterRelease, KeyInv, HolderInv
  <2>3. \A d \in Client : ~Holds(d)'
    BY <1>2, <2>2 DEF Holds, Idle
  <2>4. \A d \in Client : client'[d].pc # "discard"
    BY <1>1, <1>2, <1>5 DEF KeyInv, HolderInv
  <2>5. QED
    BY <1>1, <2>1, <2>3, <2>4 DEF HolderInv, RecordInv
<1>6. QED
  BY <1>3, <1>4, <1>5 DEF KeyInv

LEMMA NextKeyInv == KeyInv /\ [Next]_vars => KeyInv'
<1> SUFFICES ASSUME KeyInv, [Next]_vars PROVE KeyInv'
  OBVIOUS
<1>1. ASSUME NEW c \in Client, ReadRecord(c) PROVE KeyInv'
  <2>1. UNCHANGED <<record, applied, lost>> /\ client[c].pc # "idle"
    BY <1>1 DEF ReadRecord
  <2>2. Goto(c, "reserve") \/ Ends(c)
    BY <1>1 DEF ReadRecord, Succeeds
  <2>3. QED
    BY <2>1, <2>2, GotoKeepsKey, EndKeepsKey
<1>2. ASSUME NEW c \in Client, Crash(c) PROVE KeyInv'
  BY <1>2, EndKeepsKey DEF Crash
<1>3. CASE UNCHANGED vars
  BY <1>3 DEF vars, history, KeyInv, Typed, EffectInv, Tells, HolderInv, RecordInv, Holds
<1>4. QED
  BY <1>1, <1>2, <1>3, SendKeyInv, ReserveKeyInv, ReserveFailsKeyInv, HandleKeyInv,
     CompleteKeyInv, LostKeyInv, HandlerFailsKeyInv, ReleaseKeyInv
  DEF Next, Intercept

-----------------------------------------------------------------------------
(* Until a response is lost, a mutation that was applied keeps its key     *)
(* from being free again, for any number of requests and faults.           *)
THEOREM AppliedKeepsKey == Spec => []AppliedKeyIsKept
<1>1. KeyInv => AppliedKeyIsKept
  BY DEF KeyInv, RecordInv, AppliedKeyIsKept
<1>2. QED
  BY InitKeyInv, NextKeyInv, <1>1, PTL DEF Spec

(* Every step applies the mutation, for the first time unless a response   *)
(* was lost, reports its success to a request that sent it, loses a        *)
(* response, or changes nothing that the promise is about.                 *)
LEMMA StepIsAbstract ==
  KeyInv /\ [Next]_vars => [Once!Next]_<<applied, answers, lost>>
<1> SUFFICES ASSUME KeyInv, [Next]_vars PROVE [Once!Next]_<<applied, answers, lost>>
  OBVIOUS
<1>1. ASSUME NEW c \in Client, Handle(c) PROVE Once!Next
  <2>1. client[c].payload \in Payload
    BY <1>1 DEF Handle, KeyInv, Typed
  <2>2. applied = <<>> \/ lost
    BY <1>1 DEF Handle, KeyInv, HolderInv, Holds, Typed
  <2>3. Once!Apply(client[c].payload)
    BY <1>1, <2>2 DEF Handle, Once!Apply
  <2>4. QED
    BY <2>1, <2>3 DEF Once!Next
<1>2. ASSUME NEW c \in Client, NEW n, Succeeds(c, n), UNCHANGED <<applied, lost>>,
             client[c].payload \in Payload, Tells(n, client[c].payload)
      PROVE  Once!Next
  <2>1. n \in DOMAIN applied
    BY <1>2 DEF Tells, KeyInv, Typed
  <2>2. Once!Answer(client[c].payload, n)
    BY <1>2 DEF Succeeds, Tells, Once!Answer
  <2>3. QED
    BY <1>2, <2>1, <2>2 DEF Once!Next
<1>3. ASSUME NEW c \in Client, Complete(c) PROVE Once!Next
  <2>1. /\ Succeeds(c, client[c].effect) /\ UNCHANGED <<applied, lost>>
        /\ client[c].pc = "complete"
    BY <1>3 DEF Complete
  <2>2. client[c].payload \in Payload /\ Tells(client[c].effect, client[c].payload)
    BY <2>1 DEF KeyInv, EffectInv, Typed
  <2>3. QED
    BY <1>2, <2>1, <2>2
<1>4. ASSUME NEW c \in Client, ReadRecord(c)
      PROVE  Once!Next \/ UNCHANGED <<applied, answers, lost>>
  <2>1. client[c].pc = "get" /\ UNCHANGED <<applied, lost>>
    BY <1>4 DEF ReadRecord
  <2>2. CASE answers' = answers
    BY <2>1, <2>2
  <2>3. CASE answers' # answers
    <3>1. /\ record.state = "COMPLETED" /\ record.fingerprint = client[c].payload
          /\ Succeeds(c, record.effect)
      BY <1>4, <2>3 DEF ReadRecord
    <3>2. client[c].payload \in Payload /\ Tells(record.effect, client[c].payload)
      BY <2>1, <3>1 DEF KeyInv, EffectInv, Typed
    <3>3. QED
      BY <1>2, <2>1, <3>1, <3>2
  <2>4. QED
    BY <2>2, <2>3
<1>5. ASSUME NEW c \in Client, TooLarge(c) \/ CompleteFails(c) PROVE Once!Next
  <2>1. client[c].pc = "complete" /\ lost' = TRUE /\ UNCHANGED <<applied, answers>>
    BY <1>5 DEF TooLarge, CompleteFails
  <2>2. applied # <<>>
    BY <2>1 DEF KeyInv, EffectInv, Tells
  <2>3. QED
    BY <2>1, <2>2 DEF Once!Next, Once!Lose
<1>6. ASSUME NEW c \in Client,
             \/ Reserve(c) \/ Release(c) \/ HandlerFails(c) \/ Crash(c)
             \/ ReserveFails(c) \/ ReleaseFails(c)
      PROVE  UNCHANGED <<applied, answers, lost>>
  BY <1>6 DEF Reserve, Release, HandlerFails, Crash, ReserveFails, ReleaseFails, history
<1>7. ASSUME NEW c \in Client, NEW p \in Payload, Send(c, p)
      PROVE  UNCHANGED <<applied, answers, lost>>
  BY <1>7 DEF Send, history
<1>8. CASE UNCHANGED vars
  BY <1>8 DEF vars, history
<1>9. QED
  BY <1>1, <1>3, <1>4, <1>5, <1>6, <1>7, <1>8 DEF Next, Intercept

(* The interceptor and its store implement the promise of the key.         *)
THEOREM KeyKeepsPromise == Spec => AppliedOnce
<1>1. Init => Once!Init
  BY DEF Init, Once!Init
<1>2. QED
  BY InitKeyInv, NextKeyInv, StepIsAbstract, <1>1, PTL DEF Spec, AppliedOnce, Once!Spec
-----------------------------------------------------------------------------
(* The pages: the session of a browser.                                    *)
Page == {"login", "admin", "platform", "mfa"}
Kinds == {"page", "who", "setup", "verify"}
Asks == [at : {"idle", "arriving", "waiting"}, kind : Kinds, on : Request \cup {"none"},
         answer : {"none", "ok", "401", "failed"}]

TabShape ==
  /\ issued \in Nat /\ live \in SUBSET Nat
  /\ jar \in [access : {"none", "own", "view", "old"}, refresh : Nat]
  /\ DOMAIN tab = {"at", "open"} /\ tab.at \in Page /\ DOMAIN me = {"at", "mount"}
  /\ flight \in [Staff!Owner -> [at : {"none", "sent", "ok", "no"}, token : Nat]]
  /\ req \in [Request -> Asks]

(* Who refreshes waits for it.                                             *)
Awaited ==
  /\ \A r \in Request : Staff!Flies(r) => req[r].at = "waiting" /\ req[r].on = r
  /\ Staff!Flies("guard") => me.at = "renewing"

(* As long as nothing else may have ended the session, one refresh flies   *)
(* at a time, and the newest refresh token, in the cookies or on its way   *)
(* to them, is one that the server accepts.                                *)
Fits(f) ==
  /\ f.at # "no"
  /\ f.at = "sent" => f.token = jar.refresh /\ jar.refresh \in live
  /\ f.at = "ok" => f.token \in live
Alive ==
  /\ \A o, p \in Staff!Owner : Staff!Flies(o) /\ Staff!Flies(p) => o = p
  /\ \A o \in Staff!Owner : Fits(flight[o])
  /\ (\A o \in Staff!Owner : ~Staff!Flies(o)) => jar.refresh \in live
  /\ me.at = "second" => Staff!Valid

TabInv == TabShape /\ Awaited /\ (why = {} => Alive)

(* What a step of the tab may not do.                                      *)
Stays == ~(tab.at # "login" /\ Staff!Allowed(tab.at) /\ tab'.at = "login") \/ why' # {}

LEMMA TabBegins == Staff!TabInit => TabInv
BY DEF Staff!TabInit, TabInv, TabShape, Page, Awaited, Staff!Flies, Staff!Owner, Staff!NoFlight, Staff!Idle,
       Staff!NoMe, Asks, Kinds

LEMMA OwnersAreApart ==
  /\ "guard" \in Staff!Owner /\ "timer" \in Staff!Owner /\ Request \subseteq Staff!Owner
  /\ "guard" \notin Request /\ "timer" \notin Request
BY PagesAssumption DEF Staff!Owner

(* A flight that the step changes, and nothing else.                       *)
LEMMA NobodyFlies ==
  ASSUME NEW o \in Staff!Owner, Alive, TabShape, Staff!Flies(o)
  PROVE  \A p \in Staff!Owner \ {o} : ~Staff!Flies(p)
BY DEF Alive

(* Loading a page anew.                                                    *)
LEMMA AnewKeepsTab ==
  ASSUME TabInv, NEW path \in Page, Staff!Anew(path),
         jar' \in [access : {"none", "own", "view", "old"}, refresh : Nat], jar'.refresh = jar.refresh,
         UNCHANGED <<live, issued>>
  PROVE  TabInv' /\ tab'.at = path /\ (why' = {} => why = {})
<1> USE DEF Asks, Kinds, Staff!Anew, Staff!NoFlight, Staff!Idle, Staff!NoCache, Staff!Unread
<1>1. TabShape'
  BY DEF TabInv, TabShape
<1>2. \A o \in Staff!Owner : ~Staff!Flies(o)'
  BY DEF Staff!Flies
<1>3. Awaited'
  BY <1>2, OwnersAreApart DEF Awaited
<1>4. ASSUME why' = {} PROVE Alive'
  <2>1. why = {} /\ \A o \in Staff!Owner : flight[o].at # "ok"
    BY <1>4
  <2>2. jar.refresh \in live
    <3>1. CASE \A o \in Staff!Owner : ~Staff!Flies(o)
      BY <2>1, <3>1 DEF TabInv, Alive
    <3>2. CASE \E o \in Staff!Owner : Staff!Flies(o)
      BY <2>1, <3>2 DEF TabInv, TabShape, Alive, Fits, Staff!Flies
    <3>3. QED
      BY <3>1, <3>2
  <2>3. \A o \in Staff!Owner : Fits(flight[o])'
    BY DEF Fits
  <2>4. me'.at # "second"
    OBVIOUS
  <2>5. QED
    BY <1>2, <2>2, <2>3, <2>4 DEF Alive
<1>5. QED
  BY <1>1, <1>3, <1>4 DEF TabInv

(* Steps that leave the refreshes, the cookies and the server alone.       *)
LEMMA QuietStepKeepsTab ==
  ASSUME TabInv, UNCHANGED <<live, issued, jar, flight>>, DOMAIN tab' = {"at", "open"}, tab'.at \in Page,
         DOMAIN me' = {"at", "mount"}, me'.at = "second" => me.at = "second",
         me.at = "renewing" => me'.at = "renewing", why' = {} => why = {},
         req' \in [Request -> Asks],
         \A r \in Request : req[r].at = "waiting" => req'[r] = req[r]
  PROVE  TabInv'
<1>1. TabShape'
  BY DEF TabInv, TabShape
<1>2. Awaited'
  BY DEF TabInv, TabShape, Awaited, Staff!Flies
<1>3. ASSUME why' = {} PROVE Alive'
  BY <1>3 DEF TabInv, Alive, Fits, Staff!Flies, Staff!Valid
<1>4. QED
  BY <1>1, <1>2, <1>3 DEF TabInv

LEMMA GoSets ==
  ASSUME TabInv, NEW path \in {"admin", "platform", "mfa"}, Staff!Go(path)
  PROVE  /\ DOMAIN tab' = {"at", "open"} /\ DOMAIN me' = {"at", "mount"}
         /\ me'.at # me.at => me.at = "idle" /\ me'.at = "first"
         /\ tab'.at = Staff!Routed(path) /\ tab'.at \in Page
BY DEF TabInv, TabShape, Page, Staff!Go, Staff!Routed

LEMMA VisitKeepsTab ==
  ASSUME TabInv, NEW path \in {"admin", "platform", "mfa"}, Staff!Visit(path)
  PROVE  TabInv' /\ Stays
<1>1. tab'.at = path /\ path # "login"
  BY GoSets DEF Staff!Visit
<1>2. TabInv'
  BY GoSets, QuietStepKeepsTab DEF Staff!Visit, TabInv, TabShape
<1>3. QED
  BY <1>1, <1>2 DEF Stays

LEMMA LoginKeepsTab == ASSUME TabInv, Staff!Login PROVE TabInv' /\ Stays
<1>1. Staff!Destination = "admin"
  BY DEF Staff!Destination
<1>2. /\ DOMAIN tab' = {"at", "open"} /\ DOMAIN me' = {"at", "mount"}
      /\ me'.at # me.at => me.at = "idle" /\ me'.at = "first"
      /\ tab'.at \in Page
  BY <1>1, GoSets DEF Staff!Login
<1>3. TabShape'
  BY <1>2 DEF Staff!Login, TabInv, TabShape
<1>4. Awaited'
  BY <1>2, OwnersAreApart DEF Staff!Login, TabInv, Awaited, Staff!Flies
<1>5. ASSUME why' = {} PROVE Alive'
  <2>1. Staff!Quiet
    BY <1>5 DEF Staff!Login
  <2>2. \A o \in Staff!Owner : flight'[o].at = "none"
    BY <2>1 DEF Staff!Login, Staff!Quiet, Staff!Flies
  <2>3. me'.at # "second"
    BY <1>2, <2>1 DEF Staff!Quiet
  <2>4. jar'.refresh \in live'
    BY DEF Staff!Login
  <2>5. QED
    BY <2>2, <2>3, <2>4 DEF Alive, Fits, Staff!Flies
<1>6. QED
  BY <1>3, <1>4, <1>5 DEF TabInv, Stays, Staff!Login

LEMMA QuietActionsKeepTab ==
  ASSUME TabInv, \/ Staff!CacheAges \/ Staff!Scan \/ Staff!OpenWizard
                 \/ \E r \in Request : \/ Staff!Ended(r)
                                       \/ \E kind \in Kinds : Staff!Send(r, kind)
  PROVE  TabInv' /\ Stays
<1>1. CASE Staff!CacheAges \/ Staff!Scan \/ Staff!OpenWizard
  BY <1>1, QuietStepKeepsTab DEF Staff!CacheAges, Staff!Scan, Staff!OpenWizard, TabInv, TabShape, Stays
<1>2. ASSUME NEW r \in Request, Staff!Ended(r) PROVE TabInv' /\ Stays
  BY <1>2, QuietStepKeepsTab DEF Staff!Ended, Staff!Idle, TabInv, TabShape, Stays, Asks, Kinds
<1>3. ASSUME NEW r \in Request, NEW kind \in Kinds, Staff!Send(r, kind)
      PROVE  TabInv' /\ Stays
  BY <1>3, QuietStepKeepsTab DEF Staff!Send, Staff!Answer, Staff!Idle, TabInv, TabShape, Stays, Asks, Kinds
<1>4. QED
  BY <1>1, <1>2, <1>3

LEMMA ReloadKeepsTab == ASSUME TabInv, Staff!Reload \/ Staff!Bridge PROVE TabInv' /\ Stays
<1>1. jar' \in [access : {"none", "own", "view", "old"}, refresh : Nat] /\ jar'.refresh = jar.refresh
  BY DEF Staff!Reload, Staff!Bridge, TabInv, TabShape
<1>2. CASE Staff!Bridge
  BY <1>1, <1>2, AnewKeepsTab DEF Staff!Bridge, Stays, Page
<1>3. CASE Staff!Reload /\ tab.at \in {"admin", "platform", "mfa"}
  BY <1>1, <1>3, AnewKeepsTab DEF Staff!Reload, Stays, Page
<1>4. QED
  BY <1>2, <1>3 DEF Staff!Reload, TabInv, TabShape, Page

LEMMA EndingsKeepTab ==
  ASSUME TabInv, Staff!Logout \/ Staff!SessionEnds \/ Staff!AccessExpires
  PROVE  TabInv' /\ Stays
<1>1. CASE Staff!Logout
  <2>1. TabShape'
    BY <1>1 DEF Staff!Logout, Staff!Leave, TabInv, TabShape, Page
  <2>2. Awaited'
    BY <1>1 DEF Staff!Logout, TabInv, TabShape, Awaited, Staff!Flies
  <2>3. why' # {}
    BY <1>1 DEF Staff!Logout
  <2>4. QED
    BY <2>1, <2>2, <2>3 DEF TabInv, Stays
<1>2. CASE Staff!SessionEnds
  <2>1. TabShape' /\ Awaited' /\ why' # {}
    BY <1>2 DEF Staff!SessionEnds, TabInv, TabShape, Awaited, Staff!Flies
  <2>2. QED
    BY <2>1 DEF TabInv, Stays
<1>3. CASE Staff!AccessExpires
  <2>1. TabShape' /\ Awaited' /\ tab' = tab
    BY <1>3 DEF Staff!AccessExpires, TabInv, TabShape, Awaited, Staff!Flies
  <2>2. ASSUME why' = {} PROVE Alive'
    <3>1. why = {} /\ jar'.refresh = jar.refresh /\ me'.at # "second"
      BY <1>3, <2>2 DEF Staff!AccessExpires, TabInv, TabShape
    <3>2. QED
      BY <1>3, <3>1 DEF Staff!AccessExpires, TabInv, Alive, Fits, Staff!Flies
  <2>3. QED
    BY <2>1, <2>2 DEF TabInv, Stays
<1>4. QED
  BY <1>1, <1>2, <1>3

(* The server's answer to a refresh.                                       *)
LEMMA RotateKeepsTab == ASSUME TabInv, NEW o \in Staff!Owner, Staff!Rotate(o) PROVE TabInv' /\ Stays
<1>1. PICK f \in [at : {"none", "sent", "ok", "no"}, token : Nat] :
        flight' = [flight EXCEPT ![o] = f] /\ f.at # "none"
  BY DEF Staff!Rotate, TabInv, TabShape
<1>2. TabShape'
  BY <1>1 DEF Staff!Rotate, TabInv, TabShape
<1>3. \A p \in Staff!Owner : Staff!Flies(p)' = Staff!Flies(p)
  BY <1>1 DEF Staff!Rotate, Staff!Flies, TabInv, TabShape
<1>4. Awaited'
  BY <1>3, OwnersAreApart DEF Staff!Rotate, TabInv, Awaited
<1>5. ASSUME why' = {} PROVE Alive'
  <2>1. why = {} /\ Fits(flight[o]) /\ flight[o].at = "sent"
    BY <1>5 DEF Staff!Rotate, TabInv, Alive
  <2>2. /\ live' = (live \ {flight[o].token}) \cup {issued'}
        /\ flight' = [flight EXCEPT ![o] = [at |-> "ok", token |-> issued']]
    BY <1>5, <2>1 DEF Staff!Rotate, Fits
  <2>3. flight'[o] = [at |-> "ok", token |-> issued'] /\ \A p \in Staff!Owner \ {o} : flight'[p] = flight[p]
    BY <2>2 DEF TabInv, TabShape
  <2>4. \A p \in Staff!Owner \ {o} : flight[p].at = "none"
    BY <2>1, NobodyFlies DEF TabInv, Staff!Flies
  <2>5. \A p \in Staff!Owner : Fits(flight[p])'
    BY <2>2, <2>3, <2>4 DEF Fits
  <2>6. UNCHANGED <<me, jar>>
    BY DEF Staff!Rotate
  <2>7. QED
    BY <1>3, <2>1, <2>3, <2>5, <2>6 DEF TabInv, Alive, Staff!Valid, Staff!Flies
<1>6. QED
  BY <1>2, <1>4, <1>5 DEF TabInv, Stays, Staff!Rotate

(* Known and Unknown: the end of a question about the session.             *)
LEMMA KnownStays ==
  ASSUME TabInv, Staff!Known
  PROVE  /\ DOMAIN tab' = {"at", "open"} /\ tab'.at \in Page /\ DOMAIN me' = {"at", "mount"}
         /\ me'.at = "idle" /\ (Staff!Allowed(tab.at) => tab'.at = tab.at)
BY DEF TabInv, TabShape, Page, Staff!Known, Staff!Leave, Staff!NoMe

LEMMA UnknownStays ==
  ASSUME TabInv, Staff!Unknown
  PROVE  /\ DOMAIN tab' = {"at", "open"} /\ tab'.at \in Page /\ DOMAIN me' = {"at", "mount"}
         /\ me'.at = "idle"
BY DEF TabInv, TabShape, Page, Staff!Unknown, Staff!Leave, Staff!NoMe

LEMMA WaitingIsTyped ==
  ASSUME NEW q \in Asks
  PROVE  /\ \A r \in Request : /\ [q EXCEPT !.at = "waiting", !.on = r] \in Asks
                              /\ [q EXCEPT !.at = "waiting", !.on = r].at = "waiting"
                              /\ [q EXCEPT !.at = "waiting", !.on = r].on = r
         /\ [q EXCEPT !.at = "arriving", !.on = "none", !.answer = "ok"] \in Asks
<1>1. PICK w \in Asks : w = [q EXCEPT !.at = "waiting"]
  BY DEF Asks
<1>2. ASSUME NEW r \in Request PROVE [w EXCEPT !.on = r] \in Asks /\ [w EXCEPT !.on = r].at = w.at
                                    /\ [w EXCEPT !.on = r].on = r
  BY DEF Asks
<1>3. PICK a \in Asks : a = [q EXCEPT !.at = "arriving"]
  BY DEF Asks
<1>4. PICK b \in Asks : b = [a EXCEPT !.on = "none"]
  BY DEF Asks
<1>5. [b EXCEPT !.answer = "ok"] \in Asks
  BY DEF Asks
<1>6. w.at = "waiting"
  BY <1>1 DEF Asks
<1>7. QED
  BY <1>1, <1>2, <1>3, <1>4, <1>5, <1>6

(* A refresh that begins while nobody else refreshes.                      *)
LEMMA RefreshKeepsTab ==
  ASSUME TabInv, NEW o \in Staff!Owner, Staff!Refresh(o), ~Staff!Flies(o), UNCHANGED <<live, issued, jar, tab>>,
         o \in Request => \A r \in Request : ~Staff!Flies(r),
         o \in Request => req' = [req EXCEPT ![o] = [req[o] EXCEPT !.at = "waiting", !.on = o]] /\ me' = me,
         o \notin Request => req' = req,
         o = "guard" => me'.at = "renewing",
         o # "guard" => me' = me,
         DOMAIN me' = {"at", "mount"}
  PROVE  TabInv'
<1>1. flight' = [flight EXCEPT ![o] = [at |-> "sent", token |-> jar.refresh]]
  BY DEF Staff!Refresh
<1>2. flight'[o] = [at |-> "sent", token |-> jar.refresh] /\ \A p \in Staff!Owner \ {o} : flight'[p] = flight[p]
  BY <1>1 DEF TabInv, TabShape
<1>6. o \in Request => /\ req' \in [Request -> Asks] /\ req'[o].at = "waiting" /\ req'[o].on = o
                       /\ \A r \in Request \ {o} : req'[r] = req[r]
  <2>1. SUFFICES ASSUME o \in Request
                 PROVE  /\ req' \in [Request -> Asks] /\ req'[o].at = "waiting" /\ req'[o].on = o
                        /\ \A r \in Request \ {o} : req'[r] = req[r]
    OBVIOUS
  <2>2. req \in [Request -> Asks]
    BY DEF TabInv, TabShape
  <2>3. PICK q \in Asks : q = [req[o] EXCEPT !.at = "waiting", !.on = o] /\ q.at = "waiting" /\ q.on = o
    <3>1. PICK old \in Asks : old = req[o]
      BY <2>1, <2>2
    <3>2. PICK q : q = [old EXCEPT !.at = "waiting", !.on = o]
      OBVIOUS
    <3>3. q \in Asks /\ q.at = "waiting" /\ q.on = o
      BY <2>1, <3>2, WaitingIsTyped
    <3>4. QED
      BY <3>1, <3>2, <3>3
  <2>4. req' = [req EXCEPT ![o] = q]
    BY <2>1, <2>3
  <2>5. QED
    BY <2>1, <2>2, <2>3, <2>4
<1>3. TabShape'
  BY <1>1, <1>6 DEF TabInv, TabShape
<1>4. Awaited'
  BY <1>2, <1>6, OwnersAreApart DEF TabInv, TabShape, Awaited, Staff!Flies
<1>5. ASSUME why' = {} PROVE Alive'
  <2>1. why = {} /\ ~Staff!Overlaps(o)
    BY <1>5 DEF Staff!Refresh
  <2>2. \A p \in Staff!Owner \ {o} : flight[p].at = "none"
    BY <2>1 DEF Staff!Overlaps, Staff!Flies, Staff!Owner
  <2>3. jar.refresh \in live
    BY <2>1, <2>2 DEF TabInv, Alive, Staff!Flies
  <2>4. \A p \in Staff!Owner : Fits(flight[p])'
    BY <1>2, <2>2, <2>3 DEF Fits
  <2>5. me'.at = "second" => me.at = "second"
    OBVIOUS
  <2>6. QED
    BY <1>2, <2>1, <2>2, <2>4, <2>5 DEF TabInv, Alive, Staff!Valid, Staff!Flies
<1>7. QED
  BY <1>3, <1>4, <1>5 DEF TabInv

LEMMA RefusedKeepsTab == ASSUME TabInv, NEW r \in Request, Staff!Refused(r) PROVE TabInv' /\ Stays
<1> DEFINE others == {s \in Request : Staff!Flies(s)}
<1>1. ~Staff!Flies(r) /\ r \in Staff!Owner
  BY OwnersAreApart DEF Staff!Refused, TabInv, Awaited
<1>2. CASE others = {}
  <2>1. Staff!JoinsRefresh(r) = r
    BY <1>2 DEF Staff!JoinsRefresh
  <2>2. TabInv'
    BY <1>1, <1>2, <2>1, RefreshKeepsTab, OwnersAreApart DEF Staff!Refused, TabInv, TabShape
  <2>3. QED
    BY <2>2 DEF Stays, Staff!Refused
<1>3. CASE others # {}
  <2>1. Staff!JoinsRefresh(r) \in others
    BY <1>3 DEF Staff!JoinsRefresh
  <2>2. Staff!JoinsRefresh(r) # r /\ Staff!JoinsRefresh(r) \in Request
    BY <1>1, <2>1
  <2>5. PICK q : q = [req[r] EXCEPT !.at = "waiting", !.on = Staff!JoinsRefresh(r)]
    OBVIOUS
  <2>6. req' = [req EXCEPT ![r] = q] /\ req[r].at = "arriving"
    BY <2>5 DEF Staff!Refused, TabInv, TabShape
  <2>7. q \in Asks
    BY <2>2, <2>5, WaitingIsTyped DEF TabInv, TabShape
  <2>8. UNCHANGED <<live, issued, jar, flight, tab, me, why>>
    BY <2>2 DEF Staff!Refused
  <2>3. TabInv'
    BY <2>6, <2>7, <2>8, QuietStepKeepsTab DEF TabInv, TabShape
  <2>4. QED
    BY <2>3 DEF Stays, Staff!Refused
<1>4. QED
  BY <1>2, <1>3

LEMMA TimerKeepsTab == ASSUME TabInv, Staff!Timer PROVE TabInv' /\ Stays
<1>1. TabInv'
  BY RefreshKeepsTab, OwnersAreApart DEF Staff!Timer, TabInv, TabShape
<1>2. QED
  BY <1>1 DEF Staff!Timer, Stays

(* A refresh whose answer arrives.                                         *)
LEMMA LandingKeepsTab ==
  ASSUME TabInv, NEW o \in Staff!Owner, flight[o].at \in {"ok", "no"}, jar' = Staff!Baked(o), Staff!Landed(o),
         UNCHANGED <<live, issued, why>>,
         DOMAIN tab' = {"at", "open"}, tab'.at \in Page, DOMAIN me' = {"at", "mount"},
         me'.at = "second" => me.at = "second" \/ flight[o].at = "ok",
         o = "guard" \/ (me.at = "renewing" => me'.at = "renewing"),
         req' \in [Request -> Asks],
         \A r \in Request \ {o} : Staff!Flies(r) => req'[r] = req[r]
  PROVE  TabInv'
<1>1. flight' = [flight EXCEPT ![o] = Staff!NoFlight]
  BY DEF Staff!Landed
<1>2. flight'[o] = Staff!NoFlight /\ \A p \in Staff!Owner \ {o} : flight'[p] = flight[p]
  BY <1>1 DEF TabInv, TabShape
<1>3. jar' \in [access : {"none", "own", "view", "old"}, refresh : Nat]
  BY DEF Staff!Baked, TabInv, TabShape
<1>4. TabShape'
  BY <1>1, <1>3 DEF TabInv, TabShape, Staff!NoFlight
<1>5. Awaited'
  BY <1>2, OwnersAreApart DEF TabInv, Awaited, Staff!Flies, Staff!NoFlight
<1>6. ASSUME why' = {} PROVE Alive'
  <2>1. why = {} /\ flight[o].at = "ok" /\ flight[o].token \in live
    BY <1>6 DEF TabInv, Alive, Fits
  <2>2. jar'.access = "own" /\ jar'.refresh \in live'
    BY <2>1 DEF Staff!Baked
  <2>3. \A p \in Staff!Owner \ {o} : flight[p].at = "none"
    BY <2>1, NobodyFlies DEF TabInv, Staff!Flies
  <2>4. \A p \in Staff!Owner : flight'[p].at = "none"
    BY <1>2, <2>3 DEF Staff!NoFlight
  <2>5. QED
    BY <2>2, <2>4 DEF Alive, Fits, Staff!Flies, Staff!Valid
<1>7. QED
  BY <1>4, <1>5, <1>6 DEF TabInv

LEMMA RenewedKeepsTab == ASSUME TabInv, NEW r \in Request, Staff!Renewed(r) PROVE TabInv' /\ Stays
<1> DEFINE again(q) == [q EXCEPT !.at = "arriving", !.on = "none", !.answer = "ok"]
<1>1. req' = [s \in Request |-> IF req[s].on = r THEN again(req[s]) ELSE req[s]]
  BY DEF Staff!Renewed
<1>2. \A s \in Request : again(req[s]) \in Asks
  BY WaitingIsTyped DEF TabInv, TabShape
<1> HIDE DEF again
<1>3. \A s \in Request \ {r} : Staff!Flies(s) => req'[s] = req[s]
  BY <1>1 DEF TabInv, Awaited
<1>4. req' \in [Request -> Asks]
  BY <1>1, <1>2 DEF TabInv, TabShape
<1>5. TabInv'
  BY <1>3, <1>4, LandingKeepsTab, OwnersAreApart DEF Staff!Renewed, TabInv, TabShape
<1>6. QED
  BY <1>5 DEF Staff!Renewed, Stays

LEMMA ExpelledKeepsTab == ASSUME TabInv, NEW r \in Request, Staff!Expelled(r) PROVE TabInv' /\ Stays
<1>1. TabInv' /\ (why' = {} => why = {})
  BY AnewKeepsTab DEF Staff!Expelled, TabInv, TabShape, Page
<1>2. why # {}
  BY OwnersAreApart DEF Staff!Expelled, TabInv, Alive, Fits
<1>3. QED
  BY <1>1, <1>2 DEF Stays

LEMMA AskMeKeepsTab == ASSUME TabInv, Staff!AskMe PROVE TabInv' /\ Stays
<1>1. me.at = "first" /\ ~Staff!Flies("guard") /\ UNCHANGED <<live, issued, jar, req>>
  BY DEF Staff!AskMe, TabInv, Awaited
<1>2. CASE Staff!Known /\ UNCHANGED <<flight, why>>
  <2>1. TabInv'
    BY <1>1, <1>2, KnownStays, QuietStepKeepsTab DEF TabInv, TabShape
  <2>2. QED
    BY <1>2, <2>1, KnownStays DEF Stays
<1>3. CASE me' = [me EXCEPT !.at = "renewing"] /\ Staff!Refresh("guard") /\ UNCHANGED tab
  <2>1. TabInv'
    BY <1>1, <1>3, RefreshKeepsTab, OwnersAreApart DEF TabInv, TabShape
  <2>2. QED
    BY <1>3, <2>1 DEF Stays
<1>4. CASE why' = why \cup {"lost"} /\ Staff!Unknown /\ UNCHANGED flight
  <2>1. TabInv'
    BY <1>1, <1>4, UnknownStays, QuietStepKeepsTab DEF TabInv, TabShape
  <2>2. QED
    BY <1>4, <2>1 DEF Stays
<1>5. CASE /\ why' = why \cup {"lost"} /\ me' = [me EXCEPT !.at = "renewing"] /\ UNCHANGED tab
           /\ flight' = [flight EXCEPT !["guard"] = [at |-> "sent", token |-> jar.refresh]]
  <2>1. TabShape'
    BY <1>1, <1>5, OwnersAreApart DEF TabInv, TabShape
  <2>2. Awaited'
    BY <1>1, <1>5, OwnersAreApart DEF TabInv, TabShape, Awaited, Staff!Flies
  <2>3. QED
    BY <1>5, <2>1, <2>2 DEF TabInv, Stays
<1>6. QED
  BY <1>2, <1>3, <1>4, <1>5 DEF Staff!AskMe

LEMMA GuardRenewedKeepsTab == ASSUME TabInv, Staff!GuardRenewed PROVE TabInv' /\ Stays
<1>1. CASE flight["guard"].at = "ok"
  <2>1. UNCHANGED tab /\ me' = [me EXCEPT !.at = "second"]
    BY <1>1 DEF Staff!GuardRenewed
  <2>2. TabInv'
    BY <1>1, <2>1, LandingKeepsTab, OwnersAreApart DEF Staff!GuardRenewed, TabInv, TabShape
  <2>3. QED
    BY <2>1, <2>2 DEF Stays
<1>2. CASE flight["guard"].at = "no"
  <2>1. Staff!Unknown /\ why' = why
    BY <1>2 DEF Staff!GuardRenewed
  <2>2. why # {}
    BY <1>2, OwnersAreApart DEF TabInv, Alive, Fits
  <2>3. TabInv'
    BY <1>2, <2>1, UnknownStays, LandingKeepsTab, OwnersAreApart DEF Staff!GuardRenewed, TabInv, TabShape
  <2>4. QED
    BY <2>1, <2>2, <2>3 DEF Stays
<1>3. QED
  BY <1>1, <1>2 DEF Staff!GuardRenewed

LEMMA AskMeAgainKeepsTab == ASSUME TabInv, Staff!AskMeAgain PROVE TabInv' /\ Stays
<1>1. me.at = "second" /\ UNCHANGED <<live, issued, jar, flight, req>>
  BY DEF Staff!AskMeAgain
<1>2. CASE Staff!Known /\ UNCHANGED why
  <2>1. TabInv'
    BY <1>1, <1>2, KnownStays, QuietStepKeepsTab DEF TabInv, TabShape
  <2>2. QED
    BY <1>2, <2>1, KnownStays DEF Stays
<1>3. CASE Staff!Unknown /\ (why' = why \cup {"lost"} \/ (~Staff!Valid /\ why' = why))
  <2>1. TabInv'
    BY <1>1, <1>3, UnknownStays, QuietStepKeepsTab DEF TabInv, TabShape
  <2>2. why' # {}
    BY <1>1, <1>3 DEF TabInv, Alive
  <2>3. QED
    BY <2>1, <2>2 DEF Stays
<1>4. QED
  BY <1>2, <1>3 DEF Staff!AskMeAgain

LEMMA TimerRenewedKeepsTab == ASSUME TabInv, Staff!TimerRenewed PROVE TabInv' /\ Stays
<1>1. TabInv'
  BY LandingKeepsTab, OwnersAreApart DEF Staff!TimerRenewed, TabInv, TabShape
<1>2. QED
  BY <1>1 DEF Staff!TimerRenewed, Stays

LEMMA StaffKeepTab == TabInv /\ [Staff!TabNext]_tabVars => TabInv' /\ Stays
<1>1. CASE TabInv /\ UNCHANGED tabVars
  BY <1>1 DEF tabVars, TabInv, TabShape, Awaited, Alive, Fits, Staff!Flies, Staff!Valid, Stays
<1>2. CASE TabInv /\ Staff!TabNext
  BY <1>2, LoginKeepsTab, EndingsKeepTab, ReloadKeepsTab, QuietActionsKeepTab, VisitKeepsTab, RotateKeepsTab,
     RefusedKeepsTab, RenewedKeepsTab, ExpelledKeepsTab, AskMeKeepsTab, GuardRenewedKeepsTab,
     AskMeAgainKeepsTab, TimerKeepsTab, TimerRenewedKeepsTab DEF Staff!TabNext, Kinds
<1>3. QED
  BY <1>1, <1>2

(* On the platform's host no page of a school is ever open.                *)
OperatorTab == DOMAIN tab = {"at", "open"} /\ tab.at \in {"login", "platform", "mfa"}

LEMMA OperatorsStayOut == OperatorTab /\ [Operator!TabNext]_tabVars => OperatorTab'
<1> SUFFICES ASSUME OperatorTab, [Operator!TabNext]_tabVars PROVE OperatorTab'
  OBVIOUS
<1> USE DEF OperatorTab
<1>1. ASSUME NEW path \in {"admin", "platform", "mfa"}, Operator!Go(path) PROVE OperatorTab'
  BY <1>1 DEF Operator!Go, Operator!Routed
<1>2. CASE Operator!Login
  BY <1>1, <1>2 DEF Operator!Login, Operator!Destination
<1>3. CASE \E path \in {"admin", "platform", "mfa"} : Operator!Visit(path)
  BY <1>1, <1>3 DEF Operator!Visit
<1>4. CASE \/ Operator!Logout \/ Operator!Reload \/ Operator!Bridge
           \/ \E r \in Enrolment : Operator!Expelled(r)
  BY <1>4 DEF Operator!Logout, Operator!Reload, Operator!Bridge, Operator!Expelled, Operator!Anew, Operator!Leave
<1>5. CASE Operator!AskMe \/ Operator!GuardRenewed \/ Operator!AskMeAgain
  BY <1>5 DEF Operator!AskMe, Operator!GuardRenewed, Operator!AskMeAgain, Operator!Known, Operator!Unknown,
     Operator!Leave
<1>6. CASE \/ Operator!AccessExpires \/ Operator!SessionEnds \/ Operator!CacheAges
           \/ \E o \in Operator!Owner : Operator!Rotate(o)
           \/ Operator!Scan \/ Operator!OpenWizard \/ Operator!Timer \/ Operator!TimerRenewed
           \/ UNCHANGED tabVars
  BY <1>6 DEF Operator!AccessExpires, Operator!SessionEnds, Operator!CacheAges, Operator!Rotate, Operator!Scan,
     Operator!OpenWizard, Operator!Timer, Operator!TimerRenewed, tabVars
<1>7. CASE \E r \in Enrolment :
             \/ \E kind \in {"page", "who", "setup", "verify"} : Operator!Send(r, kind)
             \/ Operator!Refused(r) \/ Operator!Ended(r) \/ Operator!Renewed(r)
  BY <1>7 DEF Operator!Send, Operator!Refused, Operator!Ended, Operator!Renewed
<1> HIDE DEF OperatorTab
<1>8. CASE Operator!TabNext
  BY <1>2, <1>3, <1>4, <1>5, <1>6, <1>7, <1>8 DEF Operator!TabNext
<1>9. QED
  BY <1>6, <1>8

TabAreaInv == IF area = "operator" THEN OperatorTab ELSE TabInv

LEMMA PagesKeepTab == TabAreaInv /\ [MCNext]_<<area, consoleVars, webVars, tabVars, deskVars>> => TabAreaInv' /\ Stays
<1> SUFFICES ASSUME TabAreaInv, [MCNext]_<<area, consoleVars, webVars, tabVars, deskVars>>
             PROVE  TabAreaInv' /\ Stays
  OBVIOUS
<1>1. UNCHANGED area
  BY DEF MCNext
<1>2. CASE area = "operator"
  <2>1. [Operator!TabNext]_tabVars
    BY <1>2 DEF MCNext
  <2>2. OperatorTab'
    BY <1>2, <2>1, OperatorsStayOut DEF TabAreaInv
  <2>3. Stays
    BY <1>2 DEF TabAreaInv, OperatorTab, Stays, Staff!Allowed
  <2>4. QED
    BY <1>1, <1>2, <2>2, <2>3 DEF TabAreaInv
<1>3. CASE area # "operator"
  <2>1. [Staff!TabNext]_tabVars
    BY <1>3 DEF MCNext
  <2>2. QED
    BY <1>1, <1>3, <2>1, StaffKeepTab DEF TabAreaInv
<1>4. QED
  BY <1>2, <1>3

(* However many requests a tab sends, no step that nothing else excuses    *)
(* leads from a page the administrator may see to the login page.          *)
THEOREM NobodyIsExpelledByRequests == MCSpec => NobodyIsExpelled
<1>1. MCInit => TabAreaInv
  BY TabBegins DEF MCInit, TabAreaInv, OperatorTab, Operator!TabInit
<1>2. TabAreaInv /\ [MCNext]_<<area, consoleVars, webVars, tabVars, deskVars>> => TabAreaInv'
  BY PagesKeepTab
<1>3. TabAreaInv /\ [MCNext]_<<area, consoleVars, webVars, tabVars, deskVars>>
      => [tab.at # "login" /\ Staff!Allowed(tab.at) /\ tab'.at = "login" => why' # {}]_(Staff!tabVars)
  BY PagesKeepTab DEF Stays
<1>4. QED
  BY <1>1, <1>2, <1>3, PTL DEF MCSpec, NobodyIsExpelled, Staff!NobodyIsExpelled
-----------------------------------------------------------------------------
(* A button that the page offers for a row is accepted for that row, by    *)
(* whatever the row may hold.                                              *)
LEMMA CatalogButtonsPass ==
  ASSUME NEW s, NEW d \in Catalog!Offered(s) \ {"approve", "retire"} PROVE Catalog!Accepts(s, d)
<1>1. d \in Catalog!ReleaseButtons(s.release)
  BY DEF Catalog!Offered
<1>2. CASE d \in {"upload", "appeal", "delete", "preview"}
  BY <1>1, <1>2 DEF Catalog!ReleaseButtons, Catalog!NextButtons, Catalog!NextActions, Catalog!Accepts
<1>3. CASE d \in Catalog!NextActions(s.release)
  BY <1>3 DEF Catalog!NextActions, Catalog!Accepts
<1>4. QED
  BY <1>1, <1>2, <1>3 DEF Catalog!ReleaseButtons, Catalog!NextButtons

LEMMA DeskButtonsPass ==
  ASSUME NEW s, NEW d \in Operations!Offered(s) \ {"approve", "retire"} PROVE Operations!Accepts(s, d)
<1>1. d \in Operations!PublisherButtons(s) \cup Operations!KeyButtons(s) \cup Operations!AlertButtons(s)
  BY DEF Operations!Offered
<1>2. CASE d \in Operations!PublisherButtons(s)
  BY <1>2 DEF Operations!PublisherButtons, Operations!Accepts
<1>3. CASE d \in Operations!KeyButtons(s)
  BY <1>3 DEF Operations!KeyButtons, Operations!Accepts
<1>4. CASE d \in Operations!AlertButtons(s)
  BY <1>4 DEF Operations!AlertButtons, Operations!Accepts
<1>5. QED
  BY <1>1, <1>2, <1>3, <1>4
-----------------------------------------------------------------------------
(* The reset of an administrator's password: while one is on its way the   *)
(* page shows none, and what it answers is what the account has, unless    *)
(* another operator reset it since.                                        *)
Reset == asks[School!K("reset")]

DeskShape ==
  /\ DOMAIN asks = School!Kind /\ \A k \in School!Kind : DOMAIN asks[k] = {"at", "to"}
  /\ DOMAIN school = {"status", "password", "deletion", "others"} /\ school.password \in Nat
  /\ DOMAIN panel = {"at", "tab", "status", "counts", "list", "busy", "password"} /\ panel.password \in Nat

ResetInv ==
  /\ Reset.at \in {"idle", "sent", "ok", "failed"}
  /\ Reset.at # "idle" => panel.password = 0
  /\ Reset.at = "ok" => Reset.to \in Nat /\ (Reset.to = school.password \/ school.others)
  /\ panel.password > 0 => school.password = panel.password \/ school.others

DeskInv == DeskShape /\ ResetInv

LEMMA DeskBegins == School!DeskInit => DeskInv
BY DEF School!DeskInit, School!Blank, School!Free, DeskInv, DeskShape, ResetInv, Reset, School!K, School!Kind, School!Simple

LEMMA ResetIsAKind ==
  /\ School!K("reset") \in School!Kind /\ School!K("reset")[1] = "reset" /\ School!K("reset")[2] = "school"
  /\ ~School!OfDomains(School!K("reset"))
BY DEF School!K, School!Kind, School!Simple, School!OfDomains

(* A step that leaves the password of the page and that of the account,    *)
(* and lets the reset at most fail.                                        *)
LEMMA ResetRests ==
  ASSUME DeskInv, DeskShape', school'.password = school.password, school'.others = school.others,
         panel'.password = panel.password,
         \/ Reset' = Reset
         \/ Reset'.at \in {"idle", "failed"} /\ (Reset.at = "idle" => Reset'.at = "idle")
  PROVE  DeskInv'
BY DEF DeskInv, ResetInv

LEMMA AnswerSet ==
  ASSUME DeskShape, NEW k \in School!Kind, NEW answer, DOMAIN answer = {"at", "to"},
         asks' = [asks EXCEPT ![k] = answer]
  PROVE  /\ DOMAIN asks' = School!Kind /\ \A j \in School!Kind : DOMAIN asks'[j] = {"at", "to"}
         /\ k = School!K("reset") => Reset' = answer
         /\ k # School!K("reset") => Reset' = Reset
BY ResetIsAKind DEF DeskShape, Reset

(* The page through its own eyes: what it renders keeps the password.      *)
LEMMA RenderedKeeps ==
  ASSUME NEW p, DOMAIN p = {"at", "tab", "status", "counts", "list", "busy", "password"}
  PROVE  DOMAIN School!Rendered(p) = DOMAIN p /\ School!Rendered(p).password = p.password
BY DEF School!Rendered

LEMMA PageStepsKeepReset ==
  ASSUME DeskInv, \/ School!Load \/ School!Reload \/ School!PasswordNoted \/ School!Elsewhere
                  \/ \E name \in {"overview", "danger"} : School!OpenTab(name)
  PROVE  DeskInv'
<1>1. CASE School!Load
  <2>1. /\ panel'.password = panel.password /\ UNCHANGED <<school, asks>>
        /\ DOMAIN panel' = {"at", "tab", "status", "counts", "list", "busy", "password"}
    BY <1>1 DEF School!Load, DeskInv, DeskShape
  <2>2. DeskShape'
    BY <2>1 DEF DeskInv, DeskShape
  <2>3. Reset' = Reset
    BY <2>1 DEF Reset
  <2>4. QED
    BY <2>1, <2>2, <2>3, ResetRests
<1>2. CASE School!Reload
  <2>1. DeskShape' /\ panel'.password = 0
    BY <1>2 DEF School!Reload, School!Blank, School!Free, DeskInv, DeskShape
  <2>2. Reset'.at = "idle"
    BY <1>2, ResetIsAKind DEF School!Reload, School!Free, Reset
  <2>3. QED
    BY <2>1, <2>2 DEF DeskInv, ResetInv
<1>3. CASE School!PasswordNoted
  <2>1. DeskShape' /\ panel'.password = 0 /\ UNCHANGED <<school, asks>>
    BY <1>3 DEF School!PasswordNoted, DeskInv, DeskShape
  <2>2. QED
    BY <2>1 DEF DeskInv, ResetInv, Reset
<1>4. CASE School!Elsewhere
  <2>1. DeskShape' /\ UNCHANGED <<panel, asks>>
        /\ (school'.others \/ (school'.password = school.password /\ school'.others = school.others))
    <3>1. UNCHANGED <<panel, asks>>
      BY <1>4 DEF School!Elsewhere
    <3>2. CASE school' = [school EXCEPT !.password = @ + 1, !.others = TRUE]
      <4>1. PICK s : s = [school EXCEPT !.password = @ + 1]
        OBVIOUS
      <4>2. s.password \in Nat /\ DOMAIN s = DOMAIN school
        BY <4>1 DEF DeskInv, DeskShape
      <4>3. school' = [s EXCEPT !.others = TRUE]
        BY <3>2, <4>1
      <4>4. school'.others /\ school'.password \in Nat /\ DOMAIN school' = DOMAIN school
        BY <4>2, <4>3 DEF DeskInv, DeskShape
      <4>5. QED
        BY <3>1, <4>4 DEF DeskInv, DeskShape
    <3>3. CASE \E to \in {"ACTIVE", "SUSPENDED"} : school' = [school EXCEPT !.status = to]
      BY <3>1, <3>3 DEF DeskInv, DeskShape
    <3>4. QED
      BY <1>4, <3>2, <3>3 DEF School!Elsewhere
  <2>2. QED
    BY <2>1 DEF DeskInv, ResetInv, Reset
<1>5. ASSUME NEW name \in {"overview", "danger"}, School!OpenTab(name) PROVE DeskInv'
  <2>1. PICK p : p = [panel EXCEPT !.tab = name]
    OBVIOUS
  <2>2. p.password = panel.password /\ DOMAIN p = DOMAIN panel
    BY <2>1 DEF DeskInv, DeskShape
  <2>3. panel' = School!Rendered(p) /\ UNCHANGED <<school, asks>>
    BY <1>5, <2>1 DEF School!OpenTab
  <2>4. panel'.password = panel.password /\ DOMAIN panel' = DOMAIN panel
    BY <2>2, <2>3, RenderedKeeps DEF DeskInv, DeskShape
  <2>5. DeskShape' /\ Reset' = Reset
    BY <2>3, <2>4 DEF DeskInv, DeskShape, Reset
  <2>6. QED
    BY <2>3, <2>4, <2>5, ResetRests
<1>6. QED
  BY <1>1, <1>2, <1>3, <1>4, <1>5

(* A command other than the reset, at the server and on the page.          *)
LEMMA OthersKeepReset ==
  ASSUME DeskInv, NEW k \in School!Kind, k # School!K("reset"), NEW answer, DOMAIN answer = {"at", "to"},
         asks' = [asks EXCEPT ![k] = answer],
         school' = school \/ \E status, deletion : school' = [school EXCEPT !.status = status, !.deletion = deletion],
         DOMAIN panel' = DOMAIN panel, panel'.password = panel.password
  PROVE  DeskInv'
<1>1. /\ DOMAIN asks' = School!Kind /\ \A j \in School!Kind : DOMAIN asks'[j] = {"at", "to"}
      /\ Reset' = Reset
  BY AnswerSet DEF DeskInv
<1>2. DOMAIN school' = DOMAIN school /\ school'.password = school.password /\ school'.others = school.others
  BY DEF DeskInv, DeskShape
<1>3. DeskShape'
  BY <1>1, <1>2 DEF DeskInv, DeskShape
<1>4. QED
  BY <1>1, <1>2, <1>3, ResetRests

LEMMA OtherKinds ==
  /\ \A name \in {"status", "view", "check", "delete", "register"} :
       School!K(name) \in School!Kind /\ School!K(name) # School!K("reset")
  /\ \A d \in Dom : /\ <<"verify", d>> \in School!Kind /\ <<"verify", d>> # School!K("reset")
                   /\ <<"route", d>> \in School!Kind /\ <<"route", d>> # School!K("reset")
BY DEF School!K, School!Kind, School!Simple

LEMMA ServerKeepsReset ==
  ASSUME DeskInv, \/ School!UpdateStatus \/ School!Impersonate \/ School!CheckDomain \/ School!RequestDeletion
                  \/ \E d \in Dom : \/ School!RegisterDomain(d)
                                    \/ \E to \in {"PENDING", "VERIFIED", "READY"} :
                                         School!VerifyDomain(d, to) \/ School!RouteDomain(d, to)
  PROVE  DeskInv'
<1>1. ASSUME NEW k \in School!Kind, k # School!K("reset"), NEW to, School!Outcome(k, to),
             school' = school \/ \E status, deletion : school' = [school EXCEPT !.status = status, !.deletion = deletion]
      PROVE  DeskInv'
  <2>1. \E answer : DOMAIN answer = {"at", "to"} /\ asks' = [asks EXCEPT ![k] = answer]
    BY <1>1 DEF School!Outcome, School!Answers, School!Lost
  <2>2. panel' = panel
    BY <1>1 DEF School!Outcome
  <2>3. QED
    BY <1>1, <2>1, <2>2, OthersKeepReset
<1>2. ASSUME NEW status, NEW new, new = [school EXCEPT !.status = status]
      PROVE  new = [school EXCEPT !.status = status, !.deletion = school.deletion]
  BY <1>2 DEF DeskInv, DeskShape
<1>3. CASE School!UpdateStatus
  <2>1. PICK status : school' = [school EXCEPT !.status = status]
    BY <1>3 DEF School!UpdateStatus
  <2>2. PICK to : School!Outcome(School!K("status"), to)
    BY <1>3 DEF School!UpdateStatus
  <2>3. school' = [school EXCEPT !.status = status, !.deletion = school.deletion]
    BY <1>2, <2>1
  <2>4. School!K("status") \in School!Kind /\ School!K("status") # School!K("reset")
    BY OtherKinds
  <2>5. QED
    BY <1>1, <2>2, <2>3, <2>4
<1>4. CASE School!Impersonate
  BY <1>1, <1>4, OtherKinds DEF School!Impersonate
<1>5. CASE School!CheckDomain
  BY <1>1, <1>2, <1>5, OtherKinds DEF School!CheckDomain
<1>6. CASE School!RequestDeletion
  <2>1. School!Outcome(School!K("delete"), 0)
    BY <1>6 DEF School!RequestDeletion
  <2>2. school' = school \/ school' = [school EXCEPT !.status = "DELETION_SCHEDULED", !.deletion = TRUE]
    BY <1>6 DEF School!RequestDeletion, DeskInv, DeskShape
  <2>3. QED
    BY <1>1, <2>1, <2>2, OtherKinds
<1>7. ASSUME NEW d \in Dom, \/ School!RegisterDomain(d)
                            \/ \E to \in {"PENDING", "VERIFIED", "READY"} :
                                 School!VerifyDomain(d, to) \/ School!RouteDomain(d, to)
      PROVE  DeskInv'
  <2>1. school' = school
    BY <1>7 DEF School!RegisterDomain, School!VerifyDomain, School!RouteDomain
  <2>2. \E k \in {School!K("register"), <<"verify", d>>, <<"route", d>>} : School!Outcome(k, 0)
    BY <1>7 DEF School!RegisterDomain, School!VerifyDomain, School!RouteDomain
  <2>3. QED
    BY <1>1, <2>1, <2>2, OtherKinds
<1>8. QED
  BY <1>3, <1>4, <1>5, <1>6, <1>7

LEMMA ResetKeepsReset == ASSUME DeskInv, School!ResetAdminPassword \/ School!PasswordReset PROVE DeskInv'
<1>1. CASE School!ResetAdminPassword
  <2>1. /\ Reset.at = "sent" /\ panel.password = 0 /\ panel' = panel
        /\ school' = [school EXCEPT !.password = @ + 1, !.others = FALSE]
    BY <1>1 DEF School!ResetAdminPassword, School!Outcome, Reset, DeskInv, ResetInv
  <2>2. PICK s : s = [school EXCEPT !.password = @ + 1]
    OBVIOUS
  <2>3. s.password = school.password + 1 /\ s.password \in Nat /\ DOMAIN s = DOMAIN school
    BY <2>2 DEF DeskInv, DeskShape
  <2>4. school' = [s EXCEPT !.others = FALSE]
    BY <2>1, <2>2
  <2>5. school'.password = school.password + 1 /\ school'.password \in Nat /\ DOMAIN school' = DOMAIN school
    BY <2>3, <2>4 DEF DeskInv, DeskShape
  <2>6. PICK answer \in {[at |-> "ok", to |-> school.password + 1], [at |-> "failed", to |-> 0]} :
          asks' = [asks EXCEPT ![School!K("reset")] = answer]
    BY <1>1 DEF School!ResetAdminPassword, School!Outcome, School!Answers, School!Lost
  <2>7. DOMAIN answer = {"at", "to"}
    BY <2>6
  <2>8. /\ DOMAIN asks' = School!Kind /\ \A j \in School!Kind : DOMAIN asks'[j] = {"at", "to"}
        /\ Reset' = answer
    BY <2>6, <2>7, AnswerSet, ResetIsAKind DEF DeskInv
  <2>9. DeskShape'
    BY <2>1, <2>5, <2>8 DEF DeskInv, DeskShape
  <2>10. QED
    BY <2>1, <2>5, <2>6, <2>8, <2>9 DEF DeskInv, ResetInv
<1>2. CASE School!PasswordReset
  <2>1. /\ Reset.at = "ok" /\ asks' = [asks EXCEPT ![School!K("reset")] = School!Free] /\ school' = school
        /\ panel' = IF School!Here THEN [panel EXCEPT !.password = Reset.to] ELSE panel
    BY <1>2 DEF School!PasswordReset, School!Settles, Reset
  <2>2. DOMAIN School!Free = {"at", "to"} /\ School!Free.at = "idle"
    BY DEF School!Free
  <2>3. /\ DOMAIN asks' = School!Kind /\ \A j \in School!Kind : DOMAIN asks'[j] = {"at", "to"}
        /\ Reset'.at = "idle"
    BY <2>1, <2>2, AnswerSet, ResetIsAKind DEF DeskInv
  <2>4. DOMAIN panel' = DOMAIN panel /\ (panel'.password = Reset.to \/ panel' = panel)
    BY <2>1 DEF DeskInv, DeskShape
  <2>5. DeskShape'
    BY <2>1, <2>3, <2>4 DEF DeskInv, DeskShape, ResetInv
  <2>6. QED
    BY <2>1, <2>3, <2>4, <2>5 DEF DeskInv, ResetInv
<1>3. QED
  BY <1>1, <1>2

LEMMA AnswersKeepReset ==
  ASSUME DeskInv, School!StatusSet \/ School!ViewOpened \/ School!DomainChecked \/ School!DeletionRequested
  PROVE  DeskInv'
<1>1. PICK k \in {School!K("status"), School!K("view"), School!K("check"), School!K("delete")} : School!Settles(k)
  BY DEF School!StatusSet, School!ViewOpened, School!DomainChecked, School!DeletionRequested
<1>2. asks' = [asks EXCEPT ![k] = School!Free] /\ school' = school
  BY <1>1 DEF School!Settles
<1>3. DOMAIN panel' = DOMAIN panel /\ panel'.password = panel.password
  <2>1. CASE School!StatusSet
    <3>1. PICK p : p = [panel EXCEPT !.counts = FALSE,
                          !.status = IF asks[School!K("status")].to = School!Active THEN "ACTIVE" ELSE "SUSPENDED"]
      OBVIOUS
    <3>2. DOMAIN p = DOMAIN panel /\ p.password = panel.password
      BY <3>1 DEF DeskInv, DeskShape
    <3>3. panel' = School!Rendered(p) \/ panel' = panel
      BY <2>1, <3>1 DEF School!StatusSet
    <3>4. QED
      BY <3>2, <3>3, RenderedKeeps DEF DeskInv, DeskShape
  <2>2. CASE School!ViewOpened \/ School!DomainChecked \/ School!DeletionRequested
    BY <2>2 DEF School!ViewOpened, School!DomainChecked, School!DeletionRequested, DeskInv, DeskShape
  <2>3. QED
    BY <2>1, <2>2
<1>4. DOMAIN School!Free = {"at", "to"}
  BY DEF School!Free
<1>5. QED
  BY <1>1, <1>2, <1>3, <1>4, OthersKeepReset, OtherKinds

LEMMA KindsKeepReset ==
  ASSUME DeskInv, NEW k \in School!Kind,
         \/ School!Press(k) \/ School!Refuse(k) \/ School!ListDomains(k)
         \/ School!DomainDone(k) \/ School!DomainsShown(k) \/ School!Failed(k)
  PROVE  DeskInv'
<1>1. school' = school /\ DOMAIN panel' = DOMAIN panel /\ panel'.password = panel.password
  BY DEF School!Press, School!Refuse, School!ListDomains, School!DomainDone, School!DomainsShown, School!Failed,
         School!Settles, DeskInv, DeskShape
<1>2. PICK answer : /\ DOMAIN answer = {"at", "to"} /\ asks' = [asks EXCEPT ![k] = answer]
                    /\ \/ answer.at = "sent" /\ School!Press(k)
                       \/ answer.at = "failed" /\ asks[k].at # "idle"
                       \/ answer.at = "idle" /\ asks[k].at \in {"failed", "listed"}
                       \/ School!ListDomains(k) \/ School!DomainDone(k)
  <2>1. CASE School!Press(k)
    <3>1. PICK answer : answer = [at |-> "sent",
                                  to |-> IF panel.status = "SUSPENDED" THEN School!Active ELSE School!Suspended]
      OBVIOUS
    <3>2. asks' = [asks EXCEPT ![k] = answer]
      BY <2>1, <3>1 DEF School!Press
    <3>3. DOMAIN answer = {"at", "to"} /\ answer.at = "sent"
      BY <3>1
    <3>4. QED
      BY <2>1, <3>2, <3>3
  <2>2. CASE School!Refuse(k)
    <3>1. PICK answer : answer = [asks[k] EXCEPT !.at = "failed"]
      OBVIOUS
    <3>2. DOMAIN answer = {"at", "to"} /\ answer.at = "failed"
      BY <3>1 DEF DeskInv, DeskShape
    <3>3. asks' = [asks EXCEPT ![k] = answer] /\ asks[k].at # "idle"
      BY <2>2, <3>1 DEF School!Refuse
    <3>4. QED
      BY <3>2, <3>3
  <2>3. CASE School!ListDomains(k)
    BY <2>3 DEF School!ListDomains, DeskInv, DeskShape
  <2>4. CASE School!DomainDone(k)
    BY <2>4 DEF School!DomainDone
  <2>5. CASE School!DomainsShown(k) \/ School!Failed(k)
    <3>1. asks' = [asks EXCEPT ![k] = School!Free] /\ asks[k].at \in {"failed", "listed"}
      BY <2>5 DEF School!DomainsShown, School!Failed, School!Settles
    <3>2. DOMAIN School!Free = {"at", "to"} /\ School!Free.at = "idle"
      BY DEF School!Free
    <3>3. QED
      BY <3>1, <3>2
  <2>6. QED
    BY <2>1, <2>2, <2>3, <2>4, <2>5
<1>3. CASE k # School!K("reset")
  BY <1>1, <1>2, <1>3, OthersKeepReset
<1>4. CASE k = School!K("reset")
  <2>1. /\ DOMAIN asks' = School!Kind /\ \A j \in School!Kind : DOMAIN asks'[j] = {"at", "to"}
        /\ Reset' = answer
    BY <1>2, <1>4, AnswerSet DEF DeskInv
  <2>2. DeskShape'
    BY <1>1, <2>1 DEF DeskInv, DeskShape
  <2>3. ~School!ListDomains(k) /\ ~School!DomainDone(k)
    BY <1>4, ResetIsAKind DEF School!ListDomains, School!DomainDone, DeskInv, ResetInv, Reset
  <2>4. CASE answer.at = "sent" /\ School!Press(k)
    <3>1. panel.password = 0
      BY <1>4, <2>4, ResetIsAKind DEF School!Press, School!Shown, School!K
    <3>2. QED
      BY <1>1, <2>1, <2>2, <2>4, <3>1 DEF DeskInv, ResetInv
  <2>5. CASE answer.at \in {"failed", "idle"} /\ asks[k].at # "idle"
    BY <1>1, <1>4, <2>1, <2>2, <2>5, ResetRests DEF Reset
  <2>6. QED
    BY <1>2, <2>3, <2>4, <2>5
<1>5. QED
  BY <1>3, <1>4

LEMMA DeskKeepsReset == DeskInv /\ [School!DeskNext]_deskVars => DeskInv'
<1> SUFFICES ASSUME DeskInv, [School!DeskNext]_deskVars PROVE DeskInv'
  OBVIOUS
<1>1. CASE UNCHANGED deskVars
  BY <1>1 DEF deskVars, DeskInv, DeskShape, ResetInv, Reset
<1>2. CASE School!DeskNext
  BY <1>2, PageStepsKeepReset, ServerKeepsReset, ResetKeepsReset, AnswersKeepReset, KindsKeepReset
     DEF School!DeskNext
<1>3. QED
  BY <1>1, <1>2

(* An operator is not offered what the row as it is would refuse, whatever *)
(* the rows hold, and a password that the page shows is the account's.     *)
THEOREM OperatorsStayTold == MCSpec => []OperatorsAreTold
<1>1. MCInit => DeskInv
  BY DeskBegins DEF MCInit
<1>2. DeskInv /\ [MCNext]_<<area, consoleVars, webVars, tabVars, deskVars>> => DeskInv'
  BY DeskKeepsReset DEF MCNext
<1>3. DeskInv => OperatorsAreTold
  <2>1. Catalog!OfferedIsAccepted
    BY CatalogButtonsPass DEF Catalog!OfferedIsAccepted
  <2>2. Operations!OfferedIsAccepted
    BY DeskButtonsPass DEF Operations!OfferedIsAccepted
  <2>3. DeskInv => School!ShownPasswordWorks
    BY DEF DeskInv, ResetInv, School!ShownPasswordWorks
  <2>4. QED
    BY <2>1, <2>2, <2>3 DEF OperatorsAreTold
<1>4. QED
  BY <1>1, <1>2, <1>3, PTL DEF MCSpec
-----------------------------------------------------------------------------
(* The settings of a site: what is being saved is what the page shows, as  *)
(* long as nothing was edited and nobody else has saved since.             *)
SiteShape ==
  /\ DOMAIN page = {"at", "set", "saved"} /\ page.saved \in BOOLEAN
  /\ DOMAIN save = {"at", "body", "since"}

SavedInv ==
  /\ SiteShape
  /\ page.at = "loading" => save.at = "idle" /\ ~page.saved
  /\ save.since = {} => /\ save.at = "sent" => save.body = page.set
                        /\ save.at = "done" => site = page.set
                        /\ page.saved => site = page.set

(* The same page while the behaviour is one of the posts.                  *)
SiteRests ==
  /\ SavedInv /\ page.at = "loading"
  /\ DOMAIN upload = Picture /\ \A u \in Picture : upload[u].slide = 0

LEMMA SiteBegins ==
  /\ Looks!WebsiteInit => SavedInv
  /\ Posts!WebsiteInit => SiteRests
<1>1. Looks!WebsiteInit => SavedInv
  BY DEF Looks!WebsiteInit, Looks!NoSave, SavedInv, SiteShape
<1>2. Posts!WebsiteInit => SavedInv
  BY DEF Posts!WebsiteInit, Posts!NoSave, SavedInv, SiteShape
<1>3. Posts!WebsiteInit => SiteRests
  BY <1>2 DEF Posts!WebsiteInit, Posts!NoUpload, SiteRests
<1>4. QED
  BY <1>1, <1>3

LEMMA EditKeepsSaved == ASSUME SavedInv, NEW set, Looks!Patch(set), UNCHANGED site PROVE SavedInv'
<1>1. SiteShape' /\ page'.at = page.at /\ save'.at = save.at /\ ~page'.saved
  BY DEF Looks!Patch, SavedInv, SiteShape
<1>2. save'.since # {}
  BY DEF Looks!Patch, SavedInv, SiteShape
<1>3. QED
  BY <1>1, <1>2 DEF SavedInv

LEMMA SettingsKeepSaved ==
  ASSUME SavedInv, \/ Looks!LoadSettings \/ Looks!EditField \/ Looks!AddSlide \/ Looks!Save
                   \/ Looks!UpdateSettings \/ Looks!EndSave \/ Looks!SavedFades \/ Looks!OtherSettings
  PROVE  SavedInv'
<1>1. CASE Looks!LoadSettings
  <2>1. SiteShape' /\ page'.saved = page.saved /\ page'.at = "ready" /\ page.at = "loading"
    BY <1>1 DEF Looks!LoadSettings, SavedInv, SiteShape
  <2>2. UNCHANGED <<site, save>>
    BY <1>1 DEF Looks!LoadSettings
  <2>3. QED
    BY <2>1, <2>2 DEF SavedInv
<1>2. CASE Looks!EditField \/ Looks!AddSlide
  BY <1>2, EditKeepsSaved DEF Looks!EditField, Looks!AddSlide, Looks!Banner
<1>3. CASE Looks!Save
  <2>1. /\ page.at = "ready" /\ UNCHANGED <<site, page>>
        /\ save' = [at |-> "sent", body |-> page.set, since |-> IF page.saved THEN save.since ELSE {}]
    BY <1>3 DEF Looks!Save, Looks!OnPage
  <2>2. QED
    BY <2>1 DEF SavedInv, SiteShape
<1>4. CASE Looks!UpdateSettings
  <2>1. /\ save.at = "sent" /\ page' = page /\ site' \in {site, save.body}
        /\ \/ site' = save.body /\ save' = [save EXCEPT !.at = "done"]
           \/ save' = [save EXCEPT !.at = "refused"]
    BY <1>4 DEF Looks!UpdateSettings
  <2>2. SiteShape' /\ save'.since = save.since /\ page.at # "loading" /\ save'.at \in {"done", "refused"}
        /\ (save'.at = "done" => site' = save.body)
    BY <2>1 DEF SavedInv, SiteShape
  <2>3. QED
    BY <2>1, <2>2 DEF SavedInv
<1>5. CASE Looks!EndSave
  <2>1. /\ save.at \in {"done", "refused"} /\ site' = site
        /\ save' = [save EXCEPT !.at = "idle"] /\ page' = [page EXCEPT !.saved = @ \/ save.at = "done"]
    BY <1>5 DEF Looks!EndSave
  <2>2. /\ SiteShape' /\ save'.since = save.since /\ save'.at = "idle" /\ page.at # "loading" /\ page'.at = page.at
        /\ page'.set = page.set /\ (page'.saved => page.saved \/ save.at = "done")
    BY <2>1 DEF SavedInv, SiteShape
  <2>3. QED
    BY <2>1, <2>2 DEF SavedInv
<1>6. CASE Looks!SavedFades
  BY <1>6 DEF Looks!SavedFades, SavedInv, SiteShape
<1>7. CASE Looks!OtherSettings
  <2>1. page' = page /\ SiteShape' /\ save'.since # {} /\ save'.at = save.at
    BY <1>7 DEF Looks!OtherSettings, SavedInv, SiteShape
  <2>2. QED
    BY <2>1 DEF SavedInv
<1>8. QED
  BY <1>1, <1>2, <1>3, <1>4, <1>5, <1>6, <1>7

LEMMA SlidesKeepSaved ==
  ASSUME SavedInv, \/ \E i \in DOMAIN page.set.slides :
                       \/ Looks!UpdateSlide(i) \/ Looks!RemoveSlide(i) \/ Looks!MoveSlide(i, i + 1)
                       \/ Looks!MoveSlide(i, i - 1) \/ \E u \in Picture : Looks!BeginUpload(u, i)
                   \/ \E u \in Picture : Looks!EndUpload(u) \/ Looks!FailUpload(u)
  PROVE  SavedInv'
<1>1. ASSUME NEW i \in DOMAIN page.set.slides,
             \/ Looks!UpdateSlide(i) \/ Looks!RemoveSlide(i) \/ Looks!MoveSlide(i, i + 1)
             \/ Looks!MoveSlide(i, i - 1)
      PROVE  SavedInv'
  <2>1. \E slides : Looks!Banner(slides)
    BY <1>1 DEF Looks!UpdateSlide, Looks!RemoveSlide, Looks!MoveSlide
  <2>2. QED
    BY <2>1, EditKeepsSaved DEF Looks!Banner
<1>2. ASSUME NEW u \in Picture, Looks!EndUpload(u) PROVE SavedInv'
  BY <1>2, EditKeepsSaved DEF Looks!EndUpload
<1>3. ASSUME NEW u \in Picture, Looks!FailUpload(u) \/ \E i \in DOMAIN page.set.slides : Looks!BeginUpload(u, i)
      PROVE  SavedInv'
  BY <1>3 DEF Looks!FailUpload, Looks!BeginUpload, SavedInv, SiteShape
<1>4. QED
  BY <1>1, <1>2, <1>3

LEMMA LooksKeepSaved == SavedInv /\ [Looks!WebsiteNext]_webVars => SavedInv'
<1> SUFFICES ASSUME SavedInv, [Looks!WebsiteNext]_webVars PROVE SavedInv'
  OBVIOUS
<1>1. CASE UNCHANGED <<site, page, save>>
  BY <1>1 DEF SavedInv, SiteShape
<1>2. CASE \/ Looks!LoadPosts \/ (\E rows \in desk.loads : Looks!ShowPosts(rows))
           \/ Looks!ConfirmDelete \/ Looks!EndCommand
           \/ \E ids \in SUBSET Post : Looks!AskDelete(ids)
           \/ \E to \in Looks!There : Looks!ApplyBulk(to)
           \/ \E body \in BOOLEAN : Looks!TypePost(body)
  BY <1>1, <1>2 DEF Looks!LoadPosts, Looks!ShowPosts, Looks!ConfirmDelete, Looks!EndCommand, Looks!AskDelete,
     Looks!ApplyBulk, Looks!Command, Looks!TypePost
<1>3. ASSUME NEW p \in Post,
             \/ Looks!Pick(p) \/ Looks!TogglePublish(p) \/ Looks!ServePost(p) \/ Looks!OpenEditor(p)
             \/ Looks!LoadPost(p) \/ Looks!StorePost(p) \/ Looks!DeletePost(p)
             \/ \E to \in Looks!There : Looks!SavePost(p, to)
             \/ \E to \in Looks!There \cup {"gone"} : Looks!OtherPost(p, to)
      PROVE  SavedInv'
  <2>1. UNCHANGED <<site, page, save>>
    BY <1>3 DEF Looks!Pick, Looks!TogglePublish, Looks!Command, Looks!ServePost, Looks!OpenEditor, Looks!LoadPost,
       Looks!StorePost, Looks!DeletePost, Looks!SavePost, Looks!OtherPost
  <2>2. QED
    BY <1>1, <2>1
<1>4. CASE Looks!WebsiteNext
  BY <1>2, <1>3, <1>4, SettingsKeepSaved, SlidesKeepSaved DEF Looks!WebsiteNext
<1>5. QED
  BY <1>1, <1>4 DEF webVars

LEMMA PostsKeepSite == SiteRests /\ [Posts!WebsiteNext]_webVars => SiteRests'
<1> SUFFICES ASSUME SiteRests, [Posts!WebsiteNext]_webVars PROVE SiteRests'
  OBVIOUS
<1>1. CASE UNCHANGED <<site, page, save, upload>>
  BY <1>1 DEF SiteRests, SavedInv, SiteShape
<1>2. ~Posts!OnPage /\ "settings" \notin {"posts"}
  BY DEF SiteRests, Posts!OnPage
<1>3. ~(\/ Posts!LoadSettings \/ Posts!EditField \/ Posts!AddSlide \/ Posts!Save
        \/ Posts!UpdateSettings \/ Posts!EndSave \/ Posts!SavedFades \/ Posts!OtherSettings)
  BY <1>2 DEF Posts!LoadSettings, Posts!EditField, Posts!AddSlide, Posts!Banner, Posts!Save, Posts!UpdateSettings,
     Posts!EndSave, Posts!SavedFades, Posts!OtherSettings, SiteRests, SavedInv
<1>4. ASSUME NEW i \in DOMAIN page.set.slides
      PROVE  ~(\/ Posts!UpdateSlide(i) \/ Posts!RemoveSlide(i) \/ Posts!MoveSlide(i, i + 1)
               \/ Posts!MoveSlide(i, i - 1) \/ \E u \in Picture : Posts!BeginUpload(u, i))
  BY <1>2 DEF Posts!UpdateSlide, Posts!RemoveSlide, Posts!MoveSlide, Posts!Banner, Posts!BeginUpload
<1>5. ASSUME NEW u \in Picture PROVE ~(Posts!EndUpload(u) \/ Posts!FailUpload(u))
  BY DEF Posts!EndUpload, Posts!FailUpload, SiteRests
<1>6. CASE \/ Posts!LoadPosts \/ (\E rows \in desk.loads : Posts!ShowPosts(rows))
           \/ Posts!ConfirmDelete \/ Posts!EndCommand
           \/ \E ids \in SUBSET Post : Posts!AskDelete(ids)
           \/ \E to \in Posts!There : Posts!ApplyBulk(to)
           \/ \E body \in BOOLEAN : Posts!TypePost(body)
  BY <1>1, <1>6 DEF Posts!LoadPosts, Posts!ShowPosts, Posts!ConfirmDelete, Posts!EndCommand, Posts!AskDelete,
     Posts!ApplyBulk, Posts!Command, Posts!TypePost
<1>7. ASSUME NEW p \in Post,
             \/ Posts!Pick(p) \/ Posts!TogglePublish(p) \/ Posts!ServePost(p) \/ Posts!OpenEditor(p)
             \/ Posts!LoadPost(p) \/ Posts!StorePost(p) \/ Posts!DeletePost(p)
             \/ \E to \in Posts!There : Posts!SavePost(p, to)
             \/ \E to \in Posts!There \cup {"gone"} : Posts!OtherPost(p, to)
      PROVE  SiteRests'
  <2>1. UNCHANGED <<site, page, save, upload>>
    BY <1>7 DEF Posts!Pick, Posts!TogglePublish, Posts!Command, Posts!ServePost, Posts!OpenEditor, Posts!LoadPost,
       Posts!StorePost, Posts!DeletePost, Posts!SavePost, Posts!OtherPost
  <2>2. QED
    BY <1>1, <2>1
<1>8. CASE Posts!WebsiteNext
  BY <1>3, <1>4, <1>5, <1>6, <1>7, <1>8 DEF Posts!WebsiteNext
<1>9. QED
  BY <1>1, <1>8 DEF webVars

(* The posts: a form that is open for a post holds its body.               *)
States == {"none", "draft", "live", "gone"}
AnyPost == [state : States, title : Nat, body : {"blank", "written"}]
Bodied(p) == post[p].state \in Posts!There /\ post[p].body = "written"

PostShape ==
  /\ post \in [Post -> AnyPost] /\ work \in Nat
  /\ editor \in [at : {"closed", "loading", "open", "missing", "saving"}, on : SUBSET Post, form : AnyPost]
  /\ DOMAIN request = {"kind", "todo", "all", "to"} /\ request.to \in States

BodyInv ==
  /\ PostShape
  /\ \A p, q \in editor.on : p = q
  /\ editor.at \in {"open", "saving"} => \A p \in editor.on : Bodied(p) => editor.form.body = "written"

(* The posts while the behaviour is one of the settings: there are none.   *)
PostsRest ==
  /\ DOMAIN post = Post /\ (\A p \in Post : post[p].state = "none")
  /\ editor.at = "closed"

BodiesStay == \A p \in Post : Bodied(p) => post'[p].body = "written"

LEMMA PostsBegin ==
  /\ Posts!WebsiteInit => BodyInv
  /\ Looks!WebsiteInit => PostsRest
<1>1. Posts!NoPost \in AnyPost /\ Posts!Written(0) \in AnyPost
  BY DEF Posts!NoPost, Posts!Written, AnyPost, States
<1>2. Posts!WebsiteInit => BodyInv
  BY <1>1 DEF Posts!WebsiteInit, Posts!Closed, Posts!NoCall, BodyInv, PostShape, States
<1>3. Looks!WebsiteInit => PostsRest
  BY DEF Looks!WebsiteInit, Looks!NoPost, Looks!Closed, PostsRest
<1>4. QED
  BY <1>2, <1>3

LEMMA StateIsSet ==
  ASSUME NEW q \in AnyPost, NEW to \in States
  PROVE  [q EXCEPT !.state = to] \in AnyPost /\ [q EXCEPT !.state = to].body = q.body
BY DEF AnyPost

LEMMA ClosedIsTyped == Posts!Closed \in [at : {"closed"}, on : {{}}, form : AnyPost]
BY PostsBegin DEF Posts!Closed, Posts!NoPost, AnyPost, States

(* A post becomes another state: its body stays.                           *)
LEMMA BecomesKeepsBodies ==
  ASSUME BodyInv, NEW p \in Post, NEW to \in States, Posts!Becomes(p, to), work' \in Nat,
         DOMAIN request' = {"kind", "todo", "all", "to"}, request'.to \in States,
         editor' = editor \/ editor' = Posts!Closed
  PROVE  BodyInv' /\ BodiesStay
<1>1. /\ editor' \in [at : {"closed", "loading", "open", "missing", "saving"}, on : SUBSET Post, form : AnyPost]
      /\ editor' = editor \/ (editor'.at = "closed" /\ editor'.on = {})
  BY ClosedIsTyped DEF BodyInv, PostShape
<1>2. post' \in [Post -> AnyPost] /\ BodiesStay /\ \A q \in Post : Bodied(q)' => Bodied(q)
  <2>1. CASE post' = post
    BY <2>1 DEF BodyInv, PostShape, Bodied, BodiesStay
  <2>2. CASE post[p].state \in Posts!There /\ post' = [post EXCEPT ![p].state = to]
    <3>1. PICK old \in AnyPost : old = post[p]
      BY DEF BodyInv, PostShape
    <3>2. PICK new \in AnyPost : new = [old EXCEPT !.state = to] /\ new.body = old.body
      BY StateIsSet
    <3>3. new \in AnyPost /\ new.body = post[p].body
      BY <3>1, <3>2
    <3>4. post' = [post EXCEPT ![p] = new]
      BY <2>2, <3>1, <3>2
    <3>5. post' \in [Post -> AnyPost] /\ post'[p] = new /\ \A q \in Post \ {p} : post'[q] = post[q]
      BY <3>3, <3>4 DEF BodyInv, PostShape
    <3>6. QED
      BY <2>2, <3>3, <3>5 DEF BodiesStay, Bodied
  <2>3. QED
    BY <2>1, <2>2 DEF Posts!Becomes
<1>3. QED
  BY <1>1, <1>2 DEF BodyInv, PostShape

(* Steps that leave the posts alone.                                       *)
LEMMA EditorKeepsBodies ==
  ASSUME BodyInv, post' = post, work' \in Nat,
         DOMAIN request' = {"kind", "todo", "all", "to"}, request'.to \in States,
         editor' \in [at : {"closed", "loading", "open", "missing", "saving"}, on : SUBSET Post, form : AnyPost],
         editor'.on = editor.on \/ \E p \in Post : editor'.on = {p},
         editor'.at \in {"open", "saving"} =>
           \A p \in editor'.on : Bodied(p) => editor'.form.body = "written"
  PROVE  BodyInv' /\ BodiesStay
BY DEF BodyInv, PostShape, Bodied, BodiesStay

LEMMA EditingKeepsBodies ==
  ASSUME BodyInv, NEW p \in Post, \/ Posts!OpenEditor(p) \/ Posts!LoadPost(p)
                                  \/ \E to \in Posts!There : Posts!SavePost(p, to)
  PROVE  BodyInv' /\ BodiesStay
<1>1. CASE Posts!OpenEditor(p)
  <2>1. /\ editor' = [at |-> IF post[p].state = "none" THEN "open" ELSE "loading", on |-> {p}, form |-> Posts!NoPost]
        /\ UNCHANGED <<post, request>> /\ work' = work + 1
    BY <1>1 DEF Posts!OpenEditor, Posts!Spend
  <2>2. Posts!NoPost \in AnyPost
    BY DEF Posts!NoPost, AnyPost, States
  <2>3. editor'.on = {p} /\ (editor'.at = "open" => ~Bodied(p)) /\ editor'.at # "saving"
    BY <2>1 DEF Bodied, Posts!There
  <2>4. editor' \in [at : {"closed", "loading", "open", "missing", "saving"}, on : SUBSET Post, form : AnyPost]
    BY <2>1, <2>2
  <2>5. work' \in Nat
    BY <2>1 DEF BodyInv, PostShape
  <2>6. QED
    BY <2>1, <2>3, <2>4, <2>5, EditorKeepsBodies DEF BodyInv, PostShape
<1>2. CASE Posts!LoadPost(p)
  <2>1. /\ p \in editor.on /\ UNCHANGED <<post, request, work>>
        /\ editor' = [editor EXCEPT !.at = "open", !.form = post[p]] \/ editor' = [editor EXCEPT !.at = "missing"]
    BY <1>2 DEF Posts!LoadPost
  <2>2. PICK e : e = [editor EXCEPT !.at = "open"]
    OBVIOUS
  <2>3. /\ e \in [at : {"closed", "loading", "open", "missing", "saving"}, on : SUBSET Post, form : AnyPost]
        /\ e.on = editor.on
    BY <2>2 DEF BodyInv, PostShape
  <2>4. editor' = [e EXCEPT !.form = post[p]] \/ editor' = [editor EXCEPT !.at = "missing"]
    BY <2>1, <2>2
  <2>5. /\ editor' \in [at : {"closed", "loading", "open", "missing", "saving"}, on : SUBSET Post, form : AnyPost]
        /\ editor'.on = editor.on /\ (editor'.form = post[p] \/ editor'.at = "missing")
    BY <2>3, <2>4 DEF BodyInv, PostShape
  <2>6. \A q \in editor.on : q = p
    BY <2>1 DEF BodyInv
  <2>7. QED
    BY <2>1, <2>5, <2>6, EditorKeepsBodies DEF BodyInv, PostShape, Bodied
<1>3. ASSUME NEW to \in Posts!There, Posts!SavePost(p, to) PROVE BodyInv' /\ BodiesStay
  <2>1. /\ editor.at = "open" /\ UNCHANGED <<post, request, work>>
        /\ editor' = [editor EXCEPT !.at = "saving", !.form.state = to]
    BY <1>3 DEF Posts!SavePost
  <2>2. PICK e : e = [editor EXCEPT !.at = "saving"]
    OBVIOUS
  <2>3. /\ e \in [at : {"closed", "loading", "open", "missing", "saving"}, on : SUBSET Post, form : AnyPost]
        /\ e.on = editor.on /\ e.form = editor.form
    BY <2>2 DEF BodyInv, PostShape
  <2>4. PICK old \in AnyPost : old = editor.form
    BY DEF BodyInv, PostShape
  <2>. to \in States
    BY DEF Posts!There, States
  <2>5. PICK form \in AnyPost : form = [old EXCEPT !.state = to] /\ form.body = old.body
    BY StateIsSet
  <2>6. form \in AnyPost /\ form.body = editor.form.body
    BY <2>4, <2>5
  <2>7. editor' = [e EXCEPT !.form = form]
    BY <2>1, <2>2, <2>3, <2>4, <2>5
  <2>8. /\ editor' \in [at : {"closed", "loading", "open", "missing", "saving"}, on : SUBSET Post, form : AnyPost]
        /\ editor'.on = editor.on /\ editor'.form = form
    BY <2>3, <2>6, <2>7
  <2>9. QED
    BY <2>1, <2>6, <2>8, EditorKeepsBodies DEF BodyInv, PostShape
<1>4. QED
  BY <1>1, <1>2, <1>3

LEMMA TypingKeepsBodies == ASSUME BodyInv, NEW body \in BOOLEAN, Posts!TypePost(body) PROVE BodyInv' /\ BodiesStay
<1>1. /\ editor.at = "open" /\ UNCHANGED <<post, request>> /\ work' = work + 1
      /\ editor' = [editor EXCEPT !.form.title = work', !.form.body = IF body THEN "written" ELSE @]
  BY DEF Posts!TypePost, Posts!Spend
<1>2. work' \in Nat
  BY <1>1 DEF BodyInv, PostShape
<1>3. PICK old \in AnyPost : old = editor.form
  BY DEF BodyInv, PostShape
<1>. DEFINE typed == IF body THEN "written" ELSE old.body
<1>4. typed \in {"blank", "written"}
  BY <1>3 DEF AnyPost
<1>. HIDE DEF typed
<1>5. PICK form \in AnyPost : form = [old EXCEPT !.title = work', !.body = typed] /\ form.body = typed
  <2>1. PICK n \in Nat : n = work'
    BY <1>2
  <2>2. PICK t \in AnyPost : t = [old EXCEPT !.title = n]
    BY DEF AnyPost
  <2>3. [t EXCEPT !.body = typed] \in AnyPost /\ [t EXCEPT !.body = typed].body = typed
    BY <1>4 DEF AnyPost
  <2>4. QED
    BY <2>1, <2>2, <2>3
<1>6. editor' = [editor EXCEPT !.form = form]
  BY <1>1, <1>3, <1>5 DEF typed, BodyInv, PostShape, AnyPost
<1>7. /\ editor' \in [at : {"closed", "loading", "open", "missing", "saving"}, on : SUBSET Post, form : AnyPost]
      /\ editor'.on = editor.on /\ editor'.form = form /\ editor'.at = "open"
  BY <1>1, <1>5, <1>6 DEF BodyInv, PostShape
<1>8. QED
  BY <1>1, <1>2, <1>3, <1>5, <1>7, EditorKeepsBodies DEF typed, BodyInv, PostShape

LEMMA StoringKeepsBodies == ASSUME BodyInv, NEW p \in Post, Posts!StorePost(p) PROVE BodyInv' /\ BodiesStay
<1>1. editor.at = "saving" /\ p \in editor.on /\ UNCHANGED <<request, work>>
  BY DEF Posts!StorePost
<1>2. post' = post \/ post' = [post EXCEPT ![p] = editor.form]
  <2>1. CASE post' = [post EXCEPT ![p] = IF @.state = "gone" THEN @ ELSE editor.form]
    BY <2>1 DEF BodyInv, PostShape
  <2>2. QED
    BY <2>1 DEF Posts!StorePost
<1>3. /\ post' \in [Post -> AnyPost]
      /\ \A q \in Post \ {p} : post'[q] = post[q]
      /\ post'[p] = post[p] \/ post'[p] = editor.form
  BY <1>2 DEF BodyInv, PostShape
<1>4. editor' = Posts!Closed \/ editor' = [editor EXCEPT !.at = "open"]
  BY DEF Posts!StorePost
<1>5. /\ editor' \in [at : {"closed", "loading", "open", "missing", "saving"}, on : SUBSET Post, form : AnyPost]
      /\ \/ editor'.at = "closed" /\ editor'.on = {}
         \/ editor'.on = editor.on /\ editor'.form = editor.form
  BY <1>4, ClosedIsTyped DEF BodyInv, PostShape
<1>6. BodiesStay
  BY <1>1, <1>3 DEF BodyInv, BodiesStay, Bodied
<1>7. QED
  BY <1>1, <1>3, <1>5, <1>6 DEF BodyInv, PostShape, Bodied

(* The buttons of the list, its requests, a post's other editor.           *)
LEMMA ListKeepsBodies ==
  ASSUME BodyInv, NEW p \in Post,
         \/ Posts!Pick(p) \/ Posts!TogglePublish(p) \/ Posts!ServePost(p) \/ Posts!DeletePost(p)
         \/ \E to \in Posts!There \cup {"gone"} : Posts!OtherPost(p, to)
  PROVE  BodyInv' /\ BodiesStay
<1>0. /\ work \in Nat /\ DOMAIN request = {"kind", "todo", "all", "to"} /\ request.to \in States
      /\ editor \in [at : {"closed", "loading", "open", "missing", "saving"}, on : SUBSET Post, form : AnyPost]
      /\ {"draft", "live", "gone"} \subseteq States
      /\ Posts!NoCall.to = "none" /\ DOMAIN Posts!NoCall = {"kind", "todo", "all", "to"} /\ "none" \in States
  BY DEF BodyInv, PostShape, States, Posts!NoCall
<1>1. CASE Posts!Pick(p)
  BY <1>0, <1>1, EditorKeepsBodies DEF Posts!Pick, BodyInv
<1>2. CASE Posts!TogglePublish(p)
  <2>1. /\ UNCHANGED <<post, editor>> /\ work' = work + 1
        /\ request' = [kind |-> "toggle", todo |-> {p}, all |-> {p},
                       to |-> IF desk.rows[p] = "live" THEN "draft" ELSE "live"]
    BY <1>2 DEF Posts!TogglePublish, Posts!Command, Posts!Spend
  <2>2. DOMAIN request' = {"kind", "todo", "all", "to"} /\ request'.to \in States /\ work' \in Nat
    BY <1>0, <2>1
  <2>3. QED
    BY <1>0, <2>1, <2>2, EditorKeepsBodies DEF BodyInv
<1>3. CASE Posts!ServePost(p)
  <2>1. /\ UNCHANGED <<editor, work>>
        /\ request' = Posts!NoCall \/ request' = [request EXCEPT !.todo = @ \ {p}]
        /\ post' = post \/ Posts!Becomes(p, request.to)
    BY <1>3 DEF Posts!ServePost
  <2>2. DOMAIN request' = {"kind", "todo", "all", "to"} /\ request'.to \in States
    BY <1>0, <2>1
  <2>3. CASE post' = post
    BY <1>0, <2>1, <2>2, <2>3, EditorKeepsBodies DEF BodyInv
  <2>4. CASE Posts!Becomes(p, request.to)
    BY <1>0, <2>1, <2>2, <2>4, BecomesKeepsBodies
  <2>5. QED
    BY <2>1, <2>3, <2>4
<1>4. CASE Posts!DeletePost(p)
  <2>1. /\ UNCHANGED <<request, work>> /\ editor' = Posts!Closed
        /\ post' = post \/ Posts!Becomes(p, "gone")
    BY <1>4 DEF Posts!DeletePost
  <2>2. "gone" \in States
    BY <1>0
  <2>3. CASE post' = post
    BY <1>0, <2>1, <2>3, ClosedIsTyped DEF BodyInv, PostShape, Bodied, BodiesStay
  <2>4. CASE Posts!Becomes(p, "gone")
    BY <1>0, <2>1, <2>2, <2>4, BecomesKeepsBodies
  <2>5. QED
    BY <2>1, <2>3, <2>4
<1>5. ASSUME NEW to \in Posts!There \cup {"gone"}, Posts!OtherPost(p, to) PROVE BodyInv' /\ BodiesStay
  <2>1. UNCHANGED <<request, editor>> /\ work' = work + 1 /\ Posts!Becomes(p, to)
    BY <1>5 DEF Posts!OtherPost, Posts!Spend
  <2>2. to \in States /\ work' \in Nat
    BY <1>0, <2>1 DEF Posts!There
  <2>3. QED
    BY <1>0, <2>1, <2>2, BecomesKeepsBodies
<1>6. QED
  BY <1>1, <1>2, <1>3, <1>4, <1>5

LEMMA CallsKeepBodies ==
  ASSUME BodyInv, \/ Posts!LoadPosts \/ (\E rows \in desk.loads : Posts!ShowPosts(rows))
                  \/ Posts!ConfirmDelete \/ Posts!EndCommand
                  \/ \E ids \in SUBSET Post : Posts!AskDelete(ids)
                  \/ \E to \in Posts!There : Posts!ApplyBulk(to)
  PROVE  BodyInv' /\ BodiesStay
<1>0. /\ work \in Nat /\ DOMAIN request = {"kind", "todo", "all", "to"} /\ request.to \in States
      /\ editor \in [at : {"closed", "loading", "open", "missing", "saving"}, on : SUBSET Post, form : AnyPost]
      /\ {"draft", "live", "gone"} \subseteq States
      /\ Posts!NoCall.to = "none" /\ DOMAIN Posts!NoCall = {"kind", "todo", "all", "to"} /\ "none" \in States
  BY DEF BodyInv, PostShape, States, Posts!NoCall
<1>1. CASE Posts!LoadPosts
  BY <1>0, <1>1, EditorKeepsBodies DEF Posts!LoadPosts, Posts!Spend, BodyInv
<1>2. ASSUME NEW rows \in desk.loads, Posts!ShowPosts(rows) PROVE BodyInv' /\ BodiesStay
  BY <1>0, <1>2, EditorKeepsBodies DEF Posts!ShowPosts, BodyInv
<1>3. ASSUME NEW ids \in SUBSET Post, Posts!AskDelete(ids) PROVE BodyInv' /\ BodiesStay
  BY <1>0, <1>3, EditorKeepsBodies DEF Posts!AskDelete, BodyInv
<1>4. CASE Posts!EndCommand
  BY <1>0, <1>4, EditorKeepsBodies DEF Posts!EndCommand, BodyInv
<1>5. ASSUME NEW kind, NEW ids, NEW to \in States, Posts!Command(kind, ids, to) PROVE BodyInv' /\ BodiesStay
  <2>1. /\ UNCHANGED <<post, editor>> /\ work' = work + 1
        /\ request' = [kind |-> kind, todo |-> ids, all |-> ids, to |-> to]
    BY <1>5 DEF Posts!Command, Posts!Spend
  <2>2. DOMAIN request' = {"kind", "todo", "all", "to"} /\ request'.to \in States /\ work' \in Nat
    BY <1>0, <2>1
  <2>3. QED
    BY <1>0, <2>1, <2>2, EditorKeepsBodies DEF BodyInv
<1>6. CASE Posts!ConfirmDelete
  BY <1>0, <1>5, <1>6 DEF Posts!ConfirmDelete
<1>7. ASSUME NEW to \in Posts!There, Posts!ApplyBulk(to) PROVE BodyInv' /\ BodiesStay
  BY <1>0, <1>5, <1>7 DEF Posts!ApplyBulk, Posts!There
<1>8. QED
  BY <1>1, <1>2, <1>3, <1>4, <1>6, <1>7

LEMMA PostsKeepBodies == SiteRests /\ BodyInv /\ [Posts!WebsiteNext]_webVars => BodyInv' /\ BodiesStay
<1> SUFFICES ASSUME SiteRests, BodyInv, [Posts!WebsiteNext]_webVars PROVE BodyInv' /\ BodiesStay
  OBVIOUS
<1>1. CASE UNCHANGED webVars
  BY <1>1 DEF webVars, BodyInv, PostShape, Bodied, BodiesStay
<1>2. ~Posts!OnPage /\ "settings" \notin {"posts"}
  BY DEF SiteRests, Posts!OnPage
<1>3. ~(\/ Posts!LoadSettings \/ Posts!EditField \/ Posts!AddSlide \/ Posts!Save
        \/ Posts!UpdateSettings \/ Posts!EndSave \/ Posts!SavedFades \/ Posts!OtherSettings)
  BY <1>2 DEF Posts!LoadSettings, Posts!EditField, Posts!AddSlide, Posts!Banner, Posts!Save, Posts!UpdateSettings,
     Posts!EndSave, Posts!SavedFades, Posts!OtherSettings, SiteRests, SavedInv
<1>4. ASSUME NEW i \in DOMAIN page.set.slides
      PROVE  ~(\/ Posts!UpdateSlide(i) \/ Posts!RemoveSlide(i) \/ Posts!MoveSlide(i, i + 1)
               \/ Posts!MoveSlide(i, i - 1) \/ \E u \in Picture : Posts!BeginUpload(u, i))
  BY <1>2 DEF Posts!UpdateSlide, Posts!RemoveSlide, Posts!MoveSlide, Posts!Banner, Posts!BeginUpload
<1>5. ASSUME NEW u \in Picture PROVE ~(Posts!EndUpload(u) \/ Posts!FailUpload(u))
  BY DEF Posts!EndUpload, Posts!FailUpload, SiteRests
<1>6. ASSUME NEW p \in Post,
             \/ Posts!Pick(p) \/ Posts!TogglePublish(p) \/ Posts!ServePost(p) \/ Posts!OpenEditor(p)
             \/ Posts!LoadPost(p) \/ Posts!StorePost(p) \/ Posts!DeletePost(p)
             \/ \E to \in Posts!There : Posts!SavePost(p, to)
             \/ \E to \in Posts!There \cup {"gone"} : Posts!OtherPost(p, to)
      PROVE  BodyInv' /\ BodiesStay
  BY <1>6, ListKeepsBodies, EditingKeepsBodies, StoringKeepsBodies
<1>7. CASE Posts!WebsiteNext
  BY <1>3, <1>4, <1>5, <1>6, <1>7, CallsKeepBodies, TypingKeepsBodies DEF Posts!WebsiteNext
<1>8. QED
  BY <1>1, <1>7

(* Nothing happens to a post while the behaviour is one of the settings.   *)
LEMMA LooksLeavePosts == PostsRest /\ [Looks!WebsiteNext]_webVars => PostsRest' /\ post' = post
<1> SUFFICES ASSUME PostsRest, [Looks!WebsiteNext]_webVars PROVE PostsRest' /\ post' = post
  OBVIOUS
<1>1. CASE UNCHANGED <<post, editor>>
  BY <1>1 DEF PostsRest
<1>2. "posts" \notin {"settings"} /\ \A p \in Post : post[p].state \notin Looks!There
  BY DEF PostsRest, Looks!There
<1>3. CASE \/ Looks!LoadSettings \/ Looks!EditField \/ Looks!AddSlide \/ Looks!Save
           \/ Looks!UpdateSettings \/ Looks!EndSave \/ Looks!SavedFades \/ Looks!OtherSettings
  BY <1>1, <1>3 DEF Looks!LoadSettings, Looks!EditField, Looks!AddSlide, Looks!Banner, Looks!Patch, Looks!Save,
     Looks!UpdateSettings, Looks!EndSave, Looks!SavedFades, Looks!OtherSettings
<1>4. ASSUME NEW i \in DOMAIN page.set.slides,
             \/ Looks!UpdateSlide(i) \/ Looks!RemoveSlide(i) \/ Looks!MoveSlide(i, i + 1)
             \/ Looks!MoveSlide(i, i - 1) \/ \E u \in Picture : Looks!BeginUpload(u, i)
      PROVE  UNCHANGED <<post, editor>>
  BY <1>4 DEF Looks!UpdateSlide, Looks!RemoveSlide, Looks!MoveSlide, Looks!Banner, Looks!BeginUpload
<1>5. ASSUME NEW u \in Picture, Looks!EndUpload(u) \/ Looks!FailUpload(u) PROVE UNCHANGED <<post, editor>>
  BY <1>5 DEF Looks!EndUpload, Looks!FailUpload
<1>6. CASE \/ Looks!LoadPosts \/ (\E rows \in desk.loads : Looks!ShowPosts(rows))
           \/ Looks!ConfirmDelete \/ Looks!EndCommand
           \/ \E ids \in SUBSET Post : Looks!AskDelete(ids)
           \/ \E to \in Looks!There : Looks!ApplyBulk(to)
  BY <1>1, <1>6 DEF Looks!LoadPosts, Looks!ShowPosts, Looks!ConfirmDelete, Looks!EndCommand, Looks!AskDelete,
     Looks!ApplyBulk, Looks!Command
<1>7. ASSUME NEW body \in BOOLEAN PROVE ~Looks!TypePost(body)
  BY DEF PostsRest, Looks!TypePost
<1>8. ASSUME NEW p \in Post,
              \/ Looks!Pick(p) \/ Looks!TogglePublish(p) \/ Looks!ServePost(p) \/ Looks!OpenEditor(p)
              \/ Looks!LoadPost(p) \/ Looks!StorePost(p) \/ Looks!DeletePost(p)
              \/ \E to \in Looks!There : Looks!SavePost(p, to)
              \/ \E to \in Looks!There \cup {"gone"} : Looks!OtherPost(p, to)
       PROVE  UNCHANGED <<post, editor>>
  <2>1. CASE Looks!Pick(p) \/ Looks!TogglePublish(p) \/ Looks!ServePost(p)
    BY <1>2, <2>1 DEF Looks!Pick, Looks!TogglePublish, Looks!Command, Looks!ServePost, Looks!Becomes
  <2>2. ~(Looks!OpenEditor(p) \/ Looks!LoadPost(p) \/ Looks!StorePost(p) \/ Looks!DeletePost(p))
    BY <1>2 DEF PostsRest, Looks!OpenEditor, Looks!LoadPost, Looks!StorePost, Looks!DeletePost
  <2>3. ASSUME NEW to, Looks!SavePost(p, to) \/ Looks!OtherPost(p, to) PROVE FALSE
    BY <1>2, <2>3 DEF PostsRest, Looks!SavePost, Looks!OtherPost
  <2>4. QED
    BY <1>8, <2>1, <2>2, <2>3
<1>9. CASE Looks!EndCommand
  BY <1>1, <1>9 DEF Looks!EndCommand
<1>10. CASE Looks!WebsiteNext
  BY <1>1, <1>3, <1>4, <1>5, <1>6, <1>7, <1>8, <1>9, <1>10 DEF Looks!WebsiteNext
<1>11. QED
  BY <1>1, <1>10 DEF webVars

(* The two editors, each while the behaviour is of the other.              *)
EditorsInv == IF area = "posts" THEN SiteRests /\ BodyInv ELSE SavedInv /\ PostsRest

LEMMA EditorsBegin == MCInit => EditorsInv
BY SiteBegins, PostsBegin DEF MCInit, EditorsInv

LEMMA EditorsGo ==
  ASSUME EditorsInv, [MCNext]_<<area, consoleVars, webVars, tabVars, deskVars>>
  PROVE  EditorsInv' /\ BodiesStay
<1>1. CASE UNCHANGED <<area, webVars>>
  BY <1>1 DEF webVars, EditorsInv, SiteRests, SavedInv, SiteShape, BodyInv, PostShape, Bodied, PostsRest, BodiesStay
<1>2. CASE area = "looks" /\ Looks!WebsiteNext /\ area' = area
  <2>1. SavedInv' /\ PostsRest' /\ post' = post
    BY <1>2, LooksKeepSaved, LooksLeavePosts DEF EditorsInv
  <2>2. BodiesStay
    BY <1>2 DEF EditorsInv, PostsRest, BodiesStay, Bodied, Posts!There
  <2>3. QED
    BY <1>2, <2>1, <2>2 DEF EditorsInv
<1>3. CASE area = "posts" /\ Posts!WebsiteNext /\ area' = area
  BY <1>3, PostsKeepSite, PostsKeepBodies DEF EditorsInv
<1>4. QED
  BY <1>1, <1>2, <1>3 DEF MCNext

(* The editors of a school's website (frontend/app/admin/appearance): what *)
(* the appearance page calls saved is stored, unless something was edited  *)
(* or somebody else saved meanwhile; and no step on a post - of its form,  *)
(* of the list's buttons or of another editor - empties the body it has.   *)
THEOREM EditorsStayTrue == MCSpec => EditorsKeep
<1>1. MCInit => EditorsInv
  BY EditorsBegin
<1>2. EditorsInv /\ [MCNext]_<<area, consoleVars, webVars, tabVars, deskVars>> => EditorsInv'
  BY EditorsGo
<1>3. EditorsInv /\ [MCNext]_<<area, consoleVars, webVars, tabVars, deskVars>>
      => [\A p \in Post : post[p].state \in Posts!There /\ post[p].body = "written"
                            => post'[p].body = "written"]_(Posts!webVars)
  BY EditorsGo DEF BodiesStay, Bodied
<1>4. EditorsInv => Looks!SavedIsStored
  BY DEF EditorsInv, SiteRests, SavedInv, Looks!SavedIsStored
<1>5. QED
  BY <1>1, <1>2, <1>3, <1>4, PTL DEF MCSpec, EditorsKeep, Posts!BodyIsKept
=============================================================================
