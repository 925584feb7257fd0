---------------------------- MODULE PublisherTeam ----------------------------
(***************************************************************************)
(* The people and the keys of one external publisher: onboarding,          *)
(* verification, members, their roles and status, signing keys             *)
(* (ExtensionsService, platform/extensions.service.ts).  Every handler     *)
(* reads and checks first and writes by id later; the two steps of a       *)
(* request are actions of their own and other requests come in between.    *)
(***************************************************************************)
EXTENDS FiniteSets

CONSTANTS
  User,         \* platform administrators
  Ask,          \* API requests in flight at a time
  KeyId, Pem,   \* ids and public keys that may be registered
  None

VARIABLES
  team,     \* team[u]: the ExtensionPublisherMember row of u
  org,      \* the ExtensionPublisher row
  keys,     \* keys[k]: the ExtensionSigningKey row of key id k
  ask,      \* ask[a]: what each request has read and will write
  crossed   \* history: where was a request written that others had overtaken?

tVars == <<team, org, keys, ask, crossed>>

Roles == (SUBSET {"UPLOAD", "REVIEW", "PUBLISH", "MANAGE"}) \ {{}}
Member == [roles : Roles \cup {{}}, status : {"NONE", "ACTIVE", "SUSPENDED"}]
Publisher == [status : {"NONE", "ACTIVE", "SUSPENDED", "REVOKED"},
              verification : {"PENDING", "VERIFIED", "REJECTED"}]
KeyRow == [pem : Pem \cup {None}, status : {"NONE", "ACTIVE", "RETIRED", "REVOKED"}]

Idle == [op |-> "idle", u |-> None, member |-> [roles |-> {}, status |-> "NONE"], k |-> None,
         pem |-> None, to |-> None, stale |-> FALSE]

TeamTypeOK ==
  /\ team \in [User -> Member]
  /\ org \in Publisher
  /\ keys \in [KeyId -> KeyRow]
  /\ crossed \subseteq {"team", "org", "keys"}

TeamInit ==
  /\ team = [u \in User |-> [roles |-> {}, status |-> "NONE"]]
  /\ org = [status |-> "NONE", verification |-> "PENDING"]
  /\ keys = [k \in KeyId |-> [pem |-> None, status |-> "NONE"]]
  /\ ask = [a \in Ask |-> Idle]
  /\ crossed = {}

(* requirePublisherRole: an active membership with the role.               *)
Holds(u, role) == team[u].status = "ACTIVE" /\ role \in team[u].roles

Manages(m) == m.status = "ACTIVE" /\ "MANAGE" \in m.roles

(* Faulty variants: any active member will do; nobody looks.               *)
AnotherMember(u) == \E x \in User \ {u} : team[x].status = "ACTIVE"
NoCheck(u) == TRUE
(* assertAnotherActivePublisherManager.                                    *)
AnotherManager(u) == \E x \in User \ {u} : Manages(team[x])

Begin(a, op, request) ==
  /\ ask[a] = Idle
  /\ ask' = [ask EXCEPT ![a] = [request EXCEPT !.op = op, !.stale = FALSE]]
  /\ UNCHANGED <<team, org, keys, crossed>>

(* A write ends its request; others may have read the rows it changes.     *)
Rows(op) == CASE op \in {"member", "status"} -> "team" [] op \in {"verify", "publisher"} -> "org"
              [] op = "register" -> "keys" [] OTHER -> "none"
Written(a) ==
  /\ ask' = [x \in Ask |-> IF x = a THEN Idle
                           ELSE [ask[x] EXCEPT !.stale = @ \/ Rows(ask[x].op) = Rows(ask[a].op)]]
  /\ crossed' = crossed \cup (IF ask[a].stale THEN {Rows(ask[a].op)} ELSE {})

Abandon(a) == ask[a] # Idle /\ ask' = [ask EXCEPT ![a] = Idle] /\ UNCHANGED <<team, org, keys, crossed>>

(* onboardPublisher: the key is unique, so of two requests one creates.    *)
OnboardPublisher(u) ==
  /\ org.status = "NONE"
  /\ org' = [org EXCEPT !.status = "SUSPENDED", !.verification = "PENDING"]
  /\ team' = [team EXCEPT ![u] = [roles |-> {"UPLOAD", "PUBLISH", "MANAGE"}, status |-> "ACTIVE"]]
  /\ UNCHANGED <<keys, ask, crossed>>

(* setPublisherMemberRoles, also reached by addPublisherMemberByEmail.     *)
BeginMemberRoles(a, by, u, roles) ==
  /\ Holds(by, "MANAGE")
  /\ Manages(team[u]) /\ "MANAGE" \notin roles => AnotherManager(u)
  /\ Begin(a, "member", [Idle EXCEPT !.u = u, !.member = [roles |-> roles, status |-> "ACTIVE"]])
SetPublisherMemberRoles(a) ==
  /\ ask[a].op = "member"
  /\ team' = [team EXCEPT ![ask[a].u] = ask[a].member]
  /\ Written(a) /\ UNCHANGED <<org, keys>>

(* setPublisherMemberStatus.                                               *)
BeginMemberStatus(a, by, u, status) ==
  /\ Holds(by, "MANAGE") /\ team[u].status # "NONE"
  /\ status = "SUSPENDED" /\ Manages(team[u]) => AnotherManager(u)
  /\ Begin(a, "status", [Idle EXCEPT !.u = u, !.to = status])
SetPublisherMemberStatus(a) ==
  /\ ask[a].op = "status"
  /\ team' = [team EXCEPT ![ask[a].u].status = ask[a].to]
  /\ Written(a) /\ UNCHANGED <<org, keys>>

(* verifyPublisher: not by an active member, not after a revocation.       *)
MayVerify(by) == team[by].status # "ACTIVE" /\ org.status \in {"ACTIVE", "SUSPENDED"}
AnyoneVerifies(by) == org.status \in {"ACTIVE", "SUSPENDED"}
BeginVerify(a, by, decision) == MayVerify(by) /\ Begin(a, "verify", [Idle EXCEPT !.to = decision])
VerifyPublisher(a) ==
  /\ ask[a].op = "verify"
  /\ org' = [status |-> IF ask[a].to = "VERIFIED" THEN "ACTIVE" ELSE "SUSPENDED",
             verification |-> ask[a].to]
  /\ Written(a) /\ UNCHANGED <<team, keys>>

(* setPublisherStatus; what it does to extensions is in VersionPipeline.   *)
BeginPublisherStatus(a, by, status) ==
  /\ org.status # "NONE" /\ Holds(by, "MANAGE")
  /\ status = "ACTIVE" => org.verification = "VERIFIED"
  /\ Begin(a, "publisher", [Idle EXCEPT !.to = status])
PublisherStatusSet(a) ==
  /\ ask[a].op = "publisher"
  /\ org' = [org EXCEPT !.status = ask[a].to]
  /\ Written(a) /\ UNCHANGED <<team, keys>>

(* registerSigningKey; the id is unique in the database, the public key is *)
(* only looked up.  rotateSigningKey asks for an active key before.        *)
BeginRegister(a, by, k, pem) ==
  /\ Holds(by, "MANAGE")
  /\ \A x \in KeyId : keys[x].pem # pem
  /\ keys[k].status = "NONE"
  /\ Begin(a, "register", [Idle EXCEPT !.k = k, !.pem = pem])
BeginRotate(a, by, old, k, pem) == keys[old].status = "ACTIVE" /\ BeginRegister(a, by, k, pem)
RegisterSigningKey(a) ==
  /\ ask[a].op = "register" /\ keys[ask[a].k].status = "NONE"
  /\ keys' = [keys EXCEPT ![ask[a].k] = [pem |-> ask[a].pem, status |-> "ACTIVE"]]
  /\ Written(a) /\ UNCHANGED <<team, org>>

Next ==
  \/ \E u \in User : OnboardPublisher(u)
  \/ \E a \in Ask :
       \/ \E by, u \in User :
            \/ \E roles \in {{"UPLOAD"}, {"UPLOAD", "MANAGE"}} : BeginMemberRoles(a, by, u, roles)
            \/ \E status \in {"ACTIVE", "SUSPENDED"} : BeginMemberStatus(a, by, u, status)
       \/ \E by \in User :
            \/ \E decision \in {"VERIFIED", "REJECTED"} : BeginVerify(a, by, decision)
            \/ \E status \in {"ACTIVE", "SUSPENDED", "REVOKED"} : BeginPublisherStatus(a, by, status)
            \/ \E k \in KeyId, pem \in Pem :
                 BeginRegister(a, by, k, pem) \/ \E old \in KeyId : BeginRotate(a, by, old, k, pem)
       \/ SetPublisherMemberRoles(a) \/ SetPublisherMemberStatus(a) \/ VerifyPublisher(a)
       \/ PublisherStatusSet(a) \/ RegisterSigningKey(a) \/ Abandon(a)

-----------------------------------------------------------------------------
(* A publisher that was onboarded has somebody who manages it, unless two  *)
(* requests were in flight and each took for granted what the other undid: *)
(* assertAnotherActivePublisherManager reads, nothing locks.               *)
ManagerRemains == org.status # "NONE" /\ "team" \notin crossed => \E u \in User : Manages(team[u])

(* A publisher runs only after somebody outside verified it: what it       *)
(* needs is the decision, whatever members did to its status meanwhile.    *)
ActiveIsVerified == org.status = "ACTIVE" /\ "org" \notin crossed => org.verification = "VERIFIED"

(* Public keys are not registered twice unless two requests crossed.       *)
PemOnce ==
  "keys" \notin crossed => \A k, x \in KeyId : keys[k].status # "NONE" /\ keys[k].pem = keys[x].pem => k = x
=============================================================================
