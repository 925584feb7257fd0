------------------------------- MODULE Accounts -------------------------------
(***************************************************************************)
(* Accounts and sessions: login with its second factor, refresh tokens and *)
(* their rotation, reset links, and what administrators do to the accounts *)
(* of others (backend/src/auth, frontend/lib/api.ts, AuthGuard).  A       *)
(* request reads, waits, and writes; it runs in one transaction            *)
(* (database/tenant-database.interceptor.ts), so that what it writes       *)
(* appears at once when it commits, or not at all.                         *)
(***************************************************************************)
EXTENDS Integers, FiniteSets

CONSTANTS
  User, Token, Link,
  Call,        \* API requests in flight at a time
  Roles,       \* Roles[u]: the role of u at the start
  Assigned,    \* bound: roles administrators assign
  Passwords,   \* bound: passwords and authenticator secrets an account had
  Deeds,       \* bound: what happens in an instance
  None

VARIABLES
  acct,      \* acct[u]: the User row, and the secret the authenticator app holds
  refresh,   \* refresh[t]: the RefreshToken row, its password and first token
  link,      \* link[l]: the PasswordResetToken row
  browser,   \* browser[u]: the cookies of u
  call,      \* call[c]: what each request has read and will write
  astray     \* history: which writes were made on rows read before they changed?

accountVars == <<acct, refresh, link, browser, call, astray>>

Role == {"SUPER_ADMIN", "ADMIN", "TEACHER", "PLATFORM_ADMIN"}
NoToken == [of |-> None, state |-> "unused", pw |-> 0, root |-> None]
NoCookies == [access |-> None, token |-> None]
IdleCall == [op |-> "idle", by |-> None, on |-> None, t |-> None, pw |-> 0, as |-> None]

NewAccount(r) == [exists |-> TRUE, role |-> r, pw |-> 0, enabled |-> FALSE, secret |-> 0, scanned |-> 0]

AccountsTypeOK ==
  /\ acct \in [User -> [exists : BOOLEAN, role : Role, pw : 0..Passwords, enabled : BOOLEAN,
                        secret : 0..Passwords, scanned : 0..Passwords]]
  /\ refresh \in [Token -> [of : User \cup {None}, state : {"unused", "live", "expired", "gone"},
                            pw : 0..Passwords, root : Token \cup {None}]]
  /\ link \in [Link -> [of : User \cup {None}, state : {"unused", "sent", "used", "expired"}]]
  /\ browser \in [User -> [access : Role \cup {None}, token : Token \cup {None}]]
  /\ astray \subseteq {"reset", "rotation", "link", "manage"}

AccountsInit ==
  /\ acct = [u \in User |-> NewAccount(Roles[u])]
  /\ refresh = [t \in Token |-> NoToken]
  /\ link = [l \in Link |-> [of |-> None, state |-> "unused"]]
  /\ browser = [u \in User |-> NoCookies]
  /\ call = [c \in Call |-> IdleCall]
  /\ astray = {}

-----------------------------------------------------------------------------
Begin(c, new) == call[c] = IdleCall /\ call' = [call EXCEPT ![c] = new]
End(c) == call' = [call EXCEPT ![c] = IdleCall]
Live(t) == refresh[t].state = "live"
Revoked(u) == [t \in Token |-> IF refresh[t].of = u /\ Live(t) THEN [refresh[t] EXCEPT !.state = "gone"]
                               ELSE refresh[t]]

(* validateUser and the second factor of a platform administrator.         *)
Admits(u) == acct[u].exists /\ (acct[u].role = "PLATFORM_ADMIN" /\ acct[u].enabled
                                  => acct[u].secret > 0 /\ acct[u].scanned = acct[u].secret)
BeginLogin(c, u) ==
  /\ "login" \in Deeds /\ browser[u] = NoCookies /\ Admits(u)
  /\ Begin(c, [IdleCall EXCEPT !.op = "login", !.on = u, !.pw = acct[u].pw, !.as = acct[u].role])
  /\ UNCHANGED <<acct, refresh, link, browser, astray>>

(* createRefreshToken and setTokenCookies; the answer may get lost.  An    *)
(* account deleted meanwhile has no row for the token to refer to, and the *)
(* request fails.                                                          *)
NewToken(c, root) ==
  [of |-> call[c].on, state |-> "live", pw |-> call[c].pw, root |-> root]
Answer(c, t) ==
  \/ browser' = [browser EXCEPT ![call[c].on] = [access |-> call[c].as, token |-> t]]
  \/ UNCHANGED browser
Issue(c, t) ==
  /\ call[c].op = "login" /\ refresh[t] = NoToken /\ acct[call[c].on].exists
  /\ refresh' = [refresh EXCEPT ![t] = NewToken(c, t)]
  /\ Answer(c, t) /\ End(c) /\ UNCHANGED <<acct, link, astray>>

AccessExpires(u) ==
  /\ browser[u].access # None
  /\ browser' = [browser EXCEPT ![u].access = None]
  /\ UNCHANGED <<acct, refresh, link, call, astray>>
TokenExpires(t) ==
  /\ "expiry" \in Deeds /\ Live(t)
  /\ refresh' = [refresh EXCEPT ![t].state = "expired"]
  /\ UNCHANGED <<acct, link, browser, call, astray>>

(* rotateRefreshToken: the user of a valid token, then its replacement.    *)
BeginRotate(c, u) ==
  LET t == browser[u].token
  IN /\ t # None /\ Live(t)
     /\ Begin(c, [IdleCall EXCEPT !.op = "rotate", !.on = u, !.t = t, !.pw = refresh[t].pw,
                                  !.as = acct[u].role])
     /\ UNCHANGED <<acct, refresh, link, browser, astray>>
(* The transaction that deletes an expired token is rolled back with the   *)
(* error; the browser goes to /login.                                      *)
RefuseRefresh(u) ==
  LET t == browser[u].token
  IN /\ t # None /\ ~ Live(t)
     /\ browser' = [browser EXCEPT ![u] = NoCookies]
     /\ UNCHANGED <<acct, refresh, link, call, astray>>
(* Faulty variant: the old token stays valid.                              *)
KeepOld(c, t) ==
  LET old == call[c].t
  IN /\ call[c].op = "rotate" /\ refresh[t] = NoToken /\ acct[call[c].on].exists
     /\ refresh' = [refresh EXCEPT ![t] = NewToken(c, refresh[old].root)]
     /\ Answer(c, t) /\ End(c) /\ UNCHANGED <<acct, link, astray>>
(* deleteMany, which does not ask whether there was a token to delete.     *)
Rotate(c, t) ==
  LET old == call[c].t
  IN /\ call[c].op = "rotate" /\ refresh[t] = NoToken /\ acct[call[c].on].exists
     /\ refresh' = [refresh EXCEPT ![old].state = "gone", ![t] = NewToken(c, refresh[old].root)]
     /\ astray' = IF Live(old) THEN astray ELSE astray \cup {"rotation"}
     /\ Answer(c, t) /\ End(c) /\ UNCHANGED <<acct, link>>

(* logout revokes every token of the account, if the access cookie is      *)
(* still valid; it clears the cookies in any case.                         *)
Logout(u) ==
  /\ "logout" \in Deeds /\ browser[u] # NoCookies
  /\ refresh' = IF browser[u].access = None THEN refresh ELSE Revoked(u)
  /\ browser' = [browser EXCEPT ![u] = NoCookies]
  /\ astray' = IF \E c \in Call : call[c].on = u /\ call[c].op = "rotate"
               THEN astray \cup {"rotation"} ELSE astray
  /\ UNCHANGED <<acct, link, call>>
-----------------------------------------------------------------------------
(* setupMfa stores a new secret at once; verifyAndEnableMfa compares a     *)
(* code of the app with it.                                                *)
SetupMfa(u) ==
  /\ "mfa" \in Deeds /\ browser[u].access # None /\ acct[u].secret < Passwords
  /\ acct' = [acct EXCEPT ![u].secret = @ + 1]
  /\ UNCHANGED <<refresh, link, browser, call, astray>>
VerifyMfa(u) ==
  /\ browser[u].access # None /\ acct[u].secret > 0
  /\ acct' = [acct EXCEPT ![u].enabled = TRUE, ![u].scanned = acct[u].secret]
  /\ UNCHANGED <<refresh, link, browser, call, astray>>
-----------------------------------------------------------------------------
(* A sign-in or a rotation of u that has read its row and not written yet. *)
Pending(u) == \E c \in Call : call[c].on = u /\ call[c].op \in {"login", "rotate"}
Crossed(u, what) == IF Pending(u) THEN astray \cup {what} ELSE astray

RequestPasswordReset(u, l) ==
  /\ "reset" \in Deeds /\ link[l].state = "unused" /\ acct[u].exists
  /\ link' = [link EXCEPT ![l] = [of |-> u, state |-> "sent"]]
  /\ UNCHANGED <<acct, refresh, browser, call, astray>>
LinkExpires(l) ==
  /\ "expiry" \in Deeds /\ link[l].state = "sent"
  /\ link' = [link EXCEPT ![l].state = "expired"]
  /\ UNCHANGED <<acct, refresh, browser, call, astray>>
BeginReset(c, l) ==
  /\ link[l].state = "sent"
  /\ Begin(c, [IdleCall EXCEPT !.op = "reset", !.on = link[l].of, !.t = l])
  /\ UNCHANGED <<acct, refresh, link, browser, astray>>
(* The transaction of resetPassword: it marks the link used without asking *)
(* whether it is.                                                          *)
ResetPassword(c) ==
  LET u == call[c].on  l == call[c].t
  IN /\ call[c].op = "reset" /\ acct[u].exists /\ acct[u].pw < Passwords
     /\ acct' = [acct EXCEPT ![u].pw = @ + 1]
     /\ link' = [link EXCEPT ![l].state = "used"]
     /\ refresh' = Revoked(u)
     /\ astray' = Crossed(u, "reset") \cup (IF link[l].state = "used" THEN {"link"} ELSE {})
     /\ End(c) /\ UNCHANGED browser
-----------------------------------------------------------------------------
(* RolesGuard with the role of the access token, and assertCanManageTarget. *)
Above == {"ADMIN", "SUPER_ADMIN"}
MayManage(actor, u, op, to) ==
  /\ browser[actor].access \in Above /\ acct[u].exists
  /\ acct[u].role = "SUPER_ADMIN" => browser[actor].access = "SUPER_ADMIN"
  /\ op = "role" /\ to = "SUPER_ADMIN" => browser[actor].access = "SUPER_ADMIN"
  /\ op = "delete" => actor # u

BeginManage(c, actor, u, op, to) ==
  /\ "manage" \in Deeds /\ MayManage(actor, u, op, to)
  /\ Begin(c, [IdleCall EXCEPT !.op = op, !.by = browser[actor].access, !.on = u, !.as = to])
  /\ UNCHANGED <<acct, refresh, link, browser, astray>>

(* The target became a super administrator after the check.                *)
Overtaken(c) == IF acct[call[c].on].role = "SUPER_ADMIN" /\ call[c].by # "SUPER_ADMIN"
                THEN {"manage"} ELSE {}

UpdateUser(c) ==
  /\ call[c].op = "role" /\ acct[call[c].on].exists
  /\ acct' = [acct EXCEPT ![call[c].on].role = call[c].as]
  /\ astray' = astray \cup Overtaken(c)
  /\ End(c) /\ UNCHANGED <<refresh, link, browser>>
DeleteUser(c) ==
  LET u == call[c].on
  IN /\ call[c].op = "delete" /\ acct[u].exists
     /\ acct' = [acct EXCEPT ![u].exists = FALSE]
     /\ refresh' = Revoked(u)
     /\ link' = [l \in Link |-> IF link[l].of = u THEN [link[l] EXCEPT !.state = "used"] ELSE link[l]]
     /\ astray' = astray \cup Overtaken(c)
     /\ End(c) /\ UNCHANGED browser
(* Faulty variant: sessions outlive the password they were opened with.    *)
KeepSessions(c) ==
  LET u == call[c].on
  IN /\ call[c].op = "password" /\ acct[u].exists /\ acct[u].pw < Passwords
     /\ acct' = [acct EXCEPT ![u].pw = @ + 1]
     /\ astray' = astray \cup Overtaken(c)
     /\ End(c) /\ UNCHANGED <<refresh, link, browser>>
ResetUserPassword(c) ==
  LET u == call[c].on
  IN /\ call[c].op = "password" /\ acct[u].exists /\ acct[u].pw < Passwords
     /\ acct' = [acct EXCEPT ![u].pw = @ + 1]
     /\ refresh' = Revoked(u)
     /\ astray' = Crossed(u, "reset") \cup Overtaken(c)
     /\ End(c) /\ UNCHANGED <<link, browser>>
(* The API goes down, or a row is gone, before a request committed.        *)
Die(c) ==
  /\ call[c].op # "idle" /\ End(c)
  /\ UNCHANGED <<acct, refresh, link, browser, astray>>

(* register also opens a session for the new account, whose token nobody   *)
(* keeps; bulkRegister (t = None) does not.  An email or phone that is     *)
(* taken is refused.                                                       *)
Register(actor, u, r, t) ==
  /\ "manage" \in Deeds /\ browser[actor].access \in Above
  /\ ~ acct[u].exists /\ \A c \in Call : call[c].on # u
  /\ acct' = [acct EXCEPT ![u] = NewAccount(r)]
  /\ IF t = None THEN UNCHANGED refresh
     ELSE refresh[t] = NoToken
          /\ refresh' = [refresh EXCEPT ![t] = [of |-> u, state |-> "live", pw |-> 0, root |-> t]]
  /\ browser' = [browser EXCEPT ![u] = NoCookies]
  /\ UNCHANGED <<link, call, astray>>

AccountsNext ==
  \/ \E c \in Call :
       \/ \E u \in User : BeginLogin(c, u) \/ BeginRotate(c, u)
       \/ \E t \in Token : Issue(c, t) \/ Rotate(c, t)
       \/ \E l \in Link : BeginReset(c, l)
       \/ \E a, u \in User : \/ \E op \in {"password", "delete"} : BeginManage(c, a, u, op, None)
                             \/ \E r \in Assigned : BeginManage(c, a, u, "role", r)
       \/ ResetPassword(c) \/ UpdateUser(c) \/ DeleteUser(c) \/ ResetUserPassword(c) \/ Die(c)
  \/ \E u \in User : \/ AccessExpires(u) \/ RefuseRefresh(u) \/ Logout(u) \/ SetupMfa(u) \/ VerifyMfa(u)
                     \/ \E l \in Link : RequestPasswordReset(u, l)
  \/ \E a, u \in User, r \in Assigned, t \in Token \cup {None} : Register(a, u, r, t)
  \/ \E t \in Token : TokenExpires(t)
  \/ \E l \in Link : LinkExpires(l)
-----------------------------------------------------------------------------
(* No session outlives the password it was opened with, unless a sign-in   *)
(* or a rotation was under way when it changed.                            *)
ResetEndsSessions ==
  "reset" \notin astray
    => \A t \in Token : Live(t) => refresh[t].pw = acct[refresh[t].of].pw

(* A session has one refresh token that works, unless two rotations of the *)
(* same token overlapped or one was overtaken by a logout.                 *)
OneTokenPerSession ==
  "rotation" \notin astray =>
    \A s, t \in Token : Live(s) /\ Live(t) /\ refresh[s].root = refresh[t].root => s = t

(* Refuted: "Only a SUPER_ADMIN can modify or delete another SUPER_ADMIN"  *)
(* (auth.controller.ts:36), "can only be used once" (auth.service.ts:212)  *)
(* and "so a user can't get locked out by an enrollment that never         *)
(* completed" (auth.service.ts:125).                                       *)
OnlySuperManagesSuper == "manage" \notin astray
LinkWorksOnce == "link" \notin astray
NeverLockedOut == \A u \in User : acct[u].exists => Admits(u)
=============================================================================
