---------------------------- MODULE BrowserSession ----------------------------
(***************************************************************************)
(* One tab of the web application and the session behind its cookies: the  *)
(* requests of its pages and the refresh that they share (lib/api.ts), the *)
(* guard of the pages with a refresh and a timer of its own                *)
(* (components/AuthGuard.tsx), login, logout, the routes of a host         *)
(* (middleware.ts), the session that looks into a school                   *)
(* (session-bridge) and the page that enrols a second factor               *)
(* (platform/mfa-setup).                                                   *)
(***************************************************************************)
EXTENDS Integers, FiniteSets

CONSTANTS
  Request,   \* requests of the pages at a time
  Host,      \* "school" or "platform"
  Role,      \* of the account that signs in
  Tokens,    \* bound: refresh tokens issued
  Visits,    \* bound: pages opened and cookies that expire
  Faults     \* bound: requests that fail or whose answer is lost

VARIABLES
  live,      \* refresh tokens that the server accepts
  issued,    \* refresh tokens it issued
  jar,       \* the cookies: access token (own, view, expired, none), refresh token or 0
  page,      \* the path, and whether its guard shows the content
  cache,     \* authCache: whether the role is known, and whether it is fresh
  me,        \* authInflight, and who waits for it
  flight,    \* refreshes: those requests started, the guard's and the timer's
  req,
  wizard,    \* the page that enrols
  account,   \* the account's second factor, and the secret the authenticator has
  why,       \* what may have ended the session since the last login
  visits, misses

tabVars == <<live, issued, jar, page, cache, me, flight, req, wizard, account, why, visits, misses>>

Owner == Request \cup {"guard", "timer"}
NoFlight == [at |-> "none", token |-> 0]
Idle == [at |-> "idle", kind |-> "page", on |-> "none", answer |-> "none"]
NoMe == [at |-> "idle", mount |-> FALSE]
NoCache == [known |-> FALSE, fresh |-> FALSE]
Valid == jar.access \in {"own", "view"}
Flies(o) == flight[o].at # "none"

TabTypeOK ==
  /\ live \subseteq 1..Tokens /\ issued \in 0..Tokens
  /\ jar.access \in {"none", "own", "view", "old"} /\ jar.refresh \in 0..issued
  /\ page.at \in {"login", "admin", "platform", "mfa"} /\ page.open \in BOOLEAN
  /\ me.at \in {"idle", "first", "renewing", "second"}
  /\ \A o \in Owner : flight[o].at \in {"none", "sent", "ok", "no"}
  /\ \A r \in Request : req[r].at \in {"idle", "arriving", "waiting"}
  /\ wizard \in {"none", "asking", "starting", "code", "enabled", "failed", "done"}
  /\ why \subseteq {"over", "lost", "overlap", "earlier"}
  /\ visits \in 0..Visits /\ misses \in 0..Faults

TabInit ==
  /\ live = {} /\ issued = 0 /\ jar = [access |-> "none", refresh |-> 0]
  /\ page = [at |-> "login", open |-> FALSE] /\ cache = NoCache /\ me = NoMe
  /\ flight = [o \in Owner |-> NoFlight] /\ req = [r \in Request |-> Idle]
  /\ wizard = "none" /\ account = [enabled |-> FALSE, secret |-> 0, phone |-> 0]
  /\ why = {"over"} /\ visits = 0 /\ misses = 0

Miss == misses < Faults /\ misses' = misses + 1
-----------------------------------------------------------------------------
(* Where a role is sent after login, where the middleware lets a path      *)
(* lead, and whom the guard of a page admits.                              *)
Destination ==
  CASE Role \in {"ADMIN", "SUPER_ADMIN", "SCHOOL_ADMIN", "DEPARTMENT_ADMIN", "OFFICE_ADMIN"} -> "admin"
    [] Role = "CLASS_ADMIN" -> "classes"
    [] Role = "PLATFORM_ADMIN" -> IF account.enabled THEN "platform" ELSE "mfa"
    [] OTHER -> "portal"
Routed(path) ==
  CASE Host = "platform" /\ path \in {"admin", "classes", "portal"} -> "platform"
    [] Host = "school" /\ path = "classes" -> "admin"
    [] Host = "school" /\ path \in {"portal", "platform", "mfa"} -> "login"
    [] OTHER -> path
Allowed(path) ==
  IF path = "admin" THEN Role \in {"ADMIN", "SUPER_ADMIN"} ELSE Role = "PLATFORM_ADMIN"

(* A guarded page opens at once for a cached role; only a fresh cache      *)
(* spares the question.                                                    *)
Opens(path) == cache.known /\ Allowed(path)
Go(path) ==
  LET to == Routed(path)
      asks == to # "login" /\ ~(Opens(to) /\ cache.fresh)
  IN /\ page' = [at |-> to, open |-> to # "login" /\ Opens(to)]
     /\ me' = [at |-> IF asks /\ me.at = "idle" THEN "first" ELSE me.at, mount |-> asks]
Leave == page' = [at |-> "login", open |-> FALSE]

(* Loading a page anew forgets everything but the cookies; an answer of    *)
(* the server that nobody reads any more is lost.                          *)
Unread == {o \in Owner : flight[o].at = "ok"}
Anew(path) ==
  /\ page' = [at |-> path, open |-> FALSE] /\ cache' = NoCache
  /\ me' = [at |-> IF path = "login" THEN "idle" ELSE "first", mount |-> path # "login"]
  /\ flight' = [o \in Owner |-> NoFlight] /\ req' = [r \in Request |-> Idle]
  /\ wizard' = "none"
  /\ why' = IF Unread = {} THEN why ELSE why \cup {"lost"}

(* handleLogin.  What the tab asked before is still on its way.            *)
Quiet == me.at = "idle" /\ \A o \in Owner : ~Flies(o) /\ (o \in Request => req[o] = Idle)
Login ==
  /\ page.at = "login" /\ issued < Tokens
  /\ issued' = issued + 1 /\ live' = live \cup {issued'}
  /\ jar' = [access |-> "own", refresh |-> issued'] /\ why' = IF Quiet THEN {} ELSE {"earlier"}
  /\ Go(Destination)
  /\ UNCHANGED <<cache, flight, req, wizard, account, visits, misses>>
(* handleLogout: a failure is ignored; the cached role stays.              *)
Logout ==
  /\ page.open /\ Leave /\ me' = [me EXCEPT !.mount = FALSE]
  /\ \/ /\ live' = IF jar.access = "own" THEN {} ELSE live
        /\ jar' = [access |-> "none", refresh |-> 0] /\ UNCHANGED misses
     \/ Miss /\ live' \in {live, IF jar.access = "own" THEN {} ELSE live} /\ UNCHANGED jar
  /\ why' = why \cup {"over"}
  /\ UNCHANGED <<issued, cache, flight, req, wizard, account, visits>>
Spend == visits < Visits /\ visits' = visits + 1
Visit(path) ==
  /\ Spend /\ Routed(path) = path /\ Go(path)
  /\ UNCHANGED <<live, issued, jar, cache, flight, req, wizard, account, why, misses>>
Reload ==
  /\ page.at # "login" /\ Spend /\ Anew(page.at)
  /\ UNCHANGED <<live, issued, jar, account, misses>>
(* The platform's look into a school: its token replaces the access cookie *)
(* and nothing else.                                                       *)
Bridge ==
  /\ Host = "school" /\ Spend /\ jar' = [jar EXCEPT !.access = "view"] /\ Anew("admin")
  /\ UNCHANGED <<live, issued, account, misses>>
(* It lives for 15 minutes: not so short that fetchMe's second question    *)
(* would find it expired.                                                  *)
AccessExpires ==
  /\ Valid /\ me.at # "second" /\ Spend /\ jar' = [jar EXCEPT !.access = "old"]
  /\ why' = IF jar.access = "view" THEN why \cup {"over"} ELSE why
  /\ UNCHANGED <<live, issued, page, cache, me, flight, req, wizard, account, misses>>
SessionEnds ==
  /\ live # {} /\ Spend /\ live' = {} /\ why' = why \cup {"over"}
  /\ UNCHANGED <<issued, jar, page, cache, me, flight, req, wizard, account, misses>>
CacheAges ==
  /\ cache.fresh /\ cache' = [cache EXCEPT !.fresh = FALSE]
  /\ UNCHANGED <<live, issued, jar, page, me, flight, req, wizard, account, why, visits, misses>>
-----------------------------------------------------------------------------
(* A refresh presents the cookie of its moment; requests share one, the    *)
(* guard and the timer look at nobody.                                     *)
Overlaps(o) == \E other \in Owner \ {o} : Flies(other) /\ {o, other} \cap {"guard", "timer"} # {}
Refresh(o) ==
  /\ flight' = [flight EXCEPT ![o] = [at |-> "sent", token |-> jar.refresh]]
  /\ why' = IF Overlaps(o) THEN why \cup {"overlap"} ELSE why
(* rotateRefreshToken.  A token presented twice is refused the second time.*)
Rotate(o) ==
  /\ flight[o].at = "sent" /\ UNCHANGED <<jar, page, cache, me, req, wizard, account, visits>>
  /\ \/ /\ flight[o].token \in live /\ issued < Tokens /\ UNCHANGED <<misses, why>>
        /\ issued' = issued + 1 /\ live' = (live \ {flight[o].token}) \cup {issued'}
        /\ flight' = [flight EXCEPT ![o] = [at |-> "ok", token |-> issued']]
     \/ /\ flight[o].token \notin live /\ UNCHANGED <<live, issued, misses, why>>
        /\ flight' = [flight EXCEPT ![o].at = "no"]
     \/ /\ Miss /\ why' = why \cup {"lost"} /\ live' \in {live, live \ {flight[o].token}}
        /\ flight' = [flight EXCEPT ![o].at = "no"] /\ UNCHANGED issued
Baked(o) == IF flight[o].at = "ok" THEN [access |-> "own", refresh |-> flight[o].token] ELSE jar
Landed(o) == flight' = [flight EXCEPT ![o] = NoFlight]

(* What a request of a page does at the server, when it is let in.         *)
Applies(kind) ==
  account' = CASE kind = "setup" -> [account EXCEPT !.secret = @ + 1]
               [] kind = "verify" /\ account.phone = account.secret -> [account EXCEPT !.enabled = TRUE]
               [] OTHER -> account
Answer(r, kind) ==
  \/ /\ Valid /\ Applies(kind) /\ UNCHANGED misses
     /\ req' = [req EXCEPT ![r] = [at |-> "arriving", kind |-> kind, on |-> "none", answer |-> "ok"]]
  \/ /\ ~Valid /\ UNCHANGED <<account, misses>>
     /\ req' = [req EXCEPT ![r] = [at |-> "arriving", kind |-> kind, on |-> "none", answer |-> "401"]]
  \/ /\ Miss /\ UNCHANGED account
     /\ req' = [req EXCEPT ![r] = [at |-> "arriving", kind |-> kind, on |-> "none", answer |-> "failed"]]
Wanted ==
  CASE wizard = "asking" -> {"who", "page"} [] wizard = "starting" -> {"setup", "page"}
    [] wizard = "code" -> {"verify", "page"} [] OTHER -> {"page"}
Send(r, kind) ==
  /\ page.open /\ req[r] = Idle /\ kind \in Wanted
  /\ kind # "page" => page.at = "mfa" /\ \A s \in Request : req[s].kind = "page"
  /\ kind = "setup" => account.secret < 2
  /\ Answer(r, kind)
  /\ UNCHANGED <<live, issued, jar, page, cache, me, flight, wizard, why, visits>>

(* What the page makes of an answer: getCurrentUser makes null of any      *)
(* failure, and null is not enrolled.                                      *)
Wizard(kind, answer) ==
  CASE kind = "who" -> IF answer = "ok" /\ account.enabled THEN "enabled" ELSE "starting"
    [] kind = "setup" -> IF answer = "ok" THEN "code" ELSE "failed"
    [] kind = "verify" -> IF answer = "ok" /\ account.enabled THEN "done" ELSE "code"
    [] OTHER -> wizard
(* Faulty variant: everyone refreshes for himself.                         *)
JoinsNobody(r) == r
(* The first 401 starts the refresh, the others wait for it.               *)
JoinsRefresh(r) ==
  LET others == {s \in Request : Flies(s)} IN IF others = {} THEN r ELSE CHOOSE s \in others : TRUE
Refused(r) ==
  /\ req[r].at = "arriving" /\ req[r].answer = "401"
  /\ req' = [req EXCEPT ![r].at = "waiting", ![r].on = JoinsRefresh(r)]
  /\ IF JoinsRefresh(r) = r THEN Refresh(r) ELSE UNCHANGED <<flight, why>>
  /\ UNCHANGED <<live, issued, jar, page, cache, me, wizard, account, visits, misses>>
Ended(r) ==
  /\ req[r].at = "arriving" /\ req[r].answer # "401"
  /\ req' = [req EXCEPT ![r] = Idle] /\ wizard' = Wizard(req[r].kind, req[r].answer)
  /\ UNCHANGED <<live, issued, jar, page, cache, me, flight, account, why, visits, misses>>
(* Everyone who waits goes on with the new cookies, once; without them the *)
(* tab loads the login page.                                               *)
Renewed(r) ==
  /\ flight[r].at = "ok" /\ jar' = Baked(r) /\ Landed(r)
  /\ req' = [s \in Request |->
               IF req[s].on = r THEN [req[s] EXCEPT !.at = "arriving", !.on = "none", !.answer = "ok"] ELSE req[s]]
  /\ LET held == {s \in Request : req[s].on = r /\ req[s].kind # "page"}
     IN IF held = {} THEN UNCHANGED account ELSE Applies(req[CHOOSE s \in held : TRUE].kind)
  /\ UNCHANGED <<live, issued, page, cache, me, wizard, why, visits, misses>>
Expelled(r) ==
  /\ flight[r].at = "no" /\ Anew("login")
  /\ UNCHANGED <<live, issued, jar, account, visits, misses>>

Scan ==
  /\ wizard = "code" /\ account.phone # account.secret
  /\ account' = [account EXCEPT !.phone = account.secret]
  /\ UNCHANGED <<live, issued, jar, page, cache, me, flight, req, wizard, why, visits, misses>>
OpenWizard ==
  /\ page.at = "mfa" /\ page.open /\ wizard \notin {"asking", "starting", "code"} /\ Spend
  /\ wizard' = "asking"
  /\ UNCHANGED <<live, issued, jar, page, cache, me, flight, req, account, why, misses>>
-----------------------------------------------------------------------------
(* fetchMe: the question, on any failure a refresh, the question again.    *)
Known ==
  /\ cache' = [known |-> TRUE, fresh |-> TRUE] /\ me' = NoMe
  /\ IF ~me.mount THEN UNCHANGED page
     ELSE IF Allowed(page.at) THEN page' = [page EXCEPT !.open = TRUE] ELSE Leave
Unknown == me' = NoMe /\ UNCHANGED cache /\ IF me.mount THEN Leave ELSE UNCHANGED page
AskMe ==
  /\ me.at = "first" /\ UNCHANGED <<live, issued, jar, req, wizard, account, visits>>
  /\ \/ Valid /\ Known /\ UNCHANGED <<flight, why, misses>>
     \/ /\ ~Valid /\ me' = [me EXCEPT !.at = "renewing"] /\ Refresh("guard")
        /\ UNCHANGED <<page, cache, misses>>
     \/ /\ Miss /\ why' = why \cup {"lost"}
        /\ \/ Unknown /\ UNCHANGED flight
           \/ /\ me' = [me EXCEPT !.at = "renewing"] /\ UNCHANGED <<page, cache>>
              /\ flight' = [flight EXCEPT !["guard"] = [at |-> "sent", token |-> jar.refresh]]
GuardRenewed ==
  /\ me.at = "renewing" /\ flight["guard"].at \in {"ok", "no"} /\ jar' = Baked("guard") /\ Landed("guard")
  /\ IF flight["guard"].at = "ok" THEN me' = [me EXCEPT !.at = "second"] /\ UNCHANGED <<page, cache>> ELSE Unknown
  /\ UNCHANGED <<live, issued, req, wizard, account, why, visits, misses>>
AskMeAgain ==
  /\ me.at = "second" /\ UNCHANGED <<live, issued, jar, flight, req, wizard, account, visits>>
  /\ \/ Valid /\ Known /\ UNCHANGED <<why, misses>>
     \/ ~Valid /\ Unknown /\ UNCHANGED <<why, misses>>
     \/ Miss /\ why' = why \cup {"lost"} /\ Unknown
Timer ==
  /\ page.at # "login" /\ ~Flies("timer") /\ Spend /\ Refresh("timer")
  /\ UNCHANGED <<live, issued, jar, page, cache, me, req, wizard, account, misses>>
TimerRenewed ==
  /\ flight["timer"].at \in {"ok", "no"} /\ jar' = Baked("timer") /\ Landed("timer")
  /\ me' = IF me.at = "idle" THEN [me EXCEPT !.at = "first"] ELSE me
  /\ UNCHANGED <<live, issued, page, cache, req, wizard, account, why, visits, misses>>

TabNext ==
  \/ Login \/ Logout \/ Reload \/ Bridge \/ AccessExpires \/ SessionEnds \/ CacheAges
  \/ \E path \in {"admin", "platform", "mfa"} : Visit(path)
  \/ \E o \in Owner : Rotate(o)
  \/ \E r \in Request :
       \/ \E kind \in {"page", "who", "setup", "verify"} : Send(r, kind)
       \/ Refused(r) \/ Ended(r) \/ Renewed(r) \/ Expelled(r)
  \/ Scan \/ OpenWizard \/ AskMe \/ GuardRenewed \/ AskMeAgain \/ Timer \/ TimerRenewed
-----------------------------------------------------------------------------
(* Nobody who may see a page is sent from it to the login page, unless the *)
(* session was over, an answer was lost, or a refresh of the guard or of   *)
(* its timer overlapped another one, or a request of an earlier session    *)
(* was still on its way at login: however many requests a page sends,   *)
(* they never spend each other's refresh token.                            *)
NobodyIsExpelled ==
  [][page.at # "login" /\ Allowed(page.at) /\ page'.at = "login" => why' # {}]_tabVars

(* Refuted: that opening the page that enrols never replaces the secret of *)
(* an enrolled account; that the guard's refresh keeps the session; that a *)
(* look into a school lasts until it expires; that everybody's destination *)
(* after login is a page that he may see.                                  *)
EnrolledIsKept == [][account.enabled => account'.secret = account.secret]_tabVars
SessionIsKept ==
  [][page.at # "login" /\ Allowed(page.at) /\ page'.at = "login" => why' \cap {"over", "lost", "earlier"} # {}]_tabVars
ViewIsKept == [][jar.access = "view" => jar'.access # "own" \/ page.at = "login"]_tabVars
LoginLands ==
  [][issued' > issued /\ jar'.refresh = issued' => page'.at # "login" /\ Allowed(page'.at)]_tabVars
=============================================================================
