----------------------------- MODULE MCPlatform ------------------------------
(* The services around the extensions, small instances in one state graph: *)
(* accounts, school domains, tenant requests, rollouts, the catalogue,     *)
(* schedules, replayed jobs, the request pipeline and the audit trail.      *)
(* area says which of them a behaviour is of; the others stay as they are.  *)
(* The configuration gives the constants their values; c1, c2 and k1 to k3  *)
(* serve several modules, so that symmetry stays cheap.                     *)
EXTENDS Rollout, TLC

CONSTANTS
  c1, c2, k1, k2, k3, u1, u2, l1, s1, s2, x1, h1, w1, p1, p2,
  User, Token, Link, Call, Roles, Assigned, Passwords, Deeds,      \* Sessions
  Host, Added, Home, Rail, Process, Job, Challenges, HostDeeds,    \* Hosts
  Caller, Quota, Slots, Failures,                                  \* Guard
  Request, TenantRow, MaxAttempts, Rls,                            \* Tenants
  Item, Values, Limit, ListEdits, ListDeeds,                       \* Lists
  Wares, ShelfEdits, ShelfDeeds,                                   \* Shelf
  Server, Skew, Window, LastTick,                                  \* Tasks
  Operator, Runs, Deaths, Stalls,                                  \* Replays
  Attempt, InSchool, Faults,                                       \* Pipe
  LogSchool, MinRetention, LastDay, LogRows, LogEdits              \* Trail

VARIABLES area,
          acct, refresh, link, browser, call, astray,
          school, domain, routes, dns, cache, lookup, errand, upset,
          guarded, hits, slots, inexact, circuit, probe, killed, twice, faults,
          owner, req, queued, touched,
          ext, walk, steady, coll, change, pay, kept, changes,
          now, tried, claim, ran,
          source, dead, copier, lease, ask, runs, deaths, stalls,
          key, piped, applied, audited, metrics, broken,
          today, log, written, schedule, hold, sweep, metric, rollup, view, orders

(* One account with two requests at a time: logins, rotations, resets.     *)
Sessions == INSTANCE Accounts
(* The same account while it sets up its second factor.                    *)
Enrol == INSTANCE Accounts WITH
  User <- {u1}, Token <- {k1, k2, k3}, Link <- {l1}, Call <- {c1, c2},
  Roles <- [u \in {u1} |-> "PLATFORM_ADMIN"], Assigned <- {"SUPER_ADMIN"}, Passwords <- 2,
  Deeds <- {"login", "reset", "mfa"}
(* Two accounts, of which the first administers the second.                *)
Staff == INSTANCE Accounts WITH
  User <- {u1, u2}, Token <- {c1, c2}, Link <- {l1}, Call <- {p1, p2},
  Roles <- (u1 :> "SUPER_ADMIN" @@ u2 :> "ADMIN"), Assigned <- {"SUPER_ADMIN"}, Passwords <- 1,
  Deeds <- {"login", "manage"}

(* A school that is created beside another one, two requests at a time.    *)
Hosts == INSTANCE Tenancy WITH
  job <- errand, Fresh <- Added, Deeds <- HostDeeds

(* Three requests of a school for one extension.                           *)
Guard == INSTANCE Protection WITH req <- guarded, Request <- Caller, Faults <- Failures

(* Two schools' requests for two rows, with row level security.            *)
Tenants == INSTANCE TenantRequests WITH job <- queued, Row <- TenantRow

(* The configuration's own instance: a pilot school and one in the upper   *)
(* half of the others.                                                     *)
PilotAndGeneral == s1 :> "PILOT" @@ s2 :> "GENERAL"
HalfAndTenth == s1 :> 50 @@ s2 :> 10
BothAutomatic == [s \in School |-> "AUTOMATIC"]

(* ... one platform administrator; a school's hosts under the platform's   *)
(* domain and at Railway; the limits of a school and of an extension; two  *)
(* clocks that differ by two thirds of a window.                           *)
OnePlatformAdmin == u1 :> "PLATFORM_ADMIN"
HomeHost == s1 :> h1
RailHost == s1 :> w1
TwoAndOne == "school" :> 2 @@ "extension" :> 1
TwoTicksApart == p1 :> 0 @@ p2 :> 2

(* Three extensions on pages of one; one extension that is arranged.       *)
Lists == INSTANCE Catalogue WITH
  edit <- change, history <- kept, edits <- changes,
  Row <- Item, Edits <- ListEdits, Deeds <- ListDeeds
Shelf == INSTANCE Catalogue WITH
  edit <- change, history <- kept, edits <- changes,
  Row <- Wares, Edits <- ShelfEdits, Deeds <- ShelfDeeds

(* Two processes that each start the scheduled tasks.                      *)
Tasks == INSTANCE Schedules

(* Two operators who replay one dead job, two deaths of a process.         *)
Replays == INSTANCE DeadLetters WITH ran <- runs

(* Three requests of a school with one key.                                *)
Pipe == INSTANCE RequestPipeline WITH
  req <- piped, faults <- broken, Request <- Attempt, Scoped <- InSchool

(* One school, two rows, three days.                                       *)
Trail == INSTANCE AuditTrail WITH
  edits <- orders, School <- LogSchool, Rows <- LogRows, Edits <- LogEdits

accountVars == <<acct, refresh, link, browser, call, astray>>
hostVars == <<school, domain, routes, dns, cache, lookup, errand, upset>>
guardVars == <<guarded, hits, slots, inexact, circuit, probe, killed, twice, faults>>
rowVars == <<owner, req, queued, touched>>
listVars == <<ext, walk, steady, coll, change, pay, kept, changes>>
taskVars == <<now, tried, claim, ran>>
letterVars == <<source, dead, copier, lease, ask, runs, deaths, stalls>>
pipeVars == <<key, piped, applied, audited, metrics, broken>>
trailVars == <<today, log, written, schedule, hold, sweep, metric, rollup, view, orders>>
allVars == <<area, accountVars, hostVars, guardVars, rowVars, rolloutVars, listVars, taskVars,
             letterVars, pipeVars, trailVars>>

MCInit ==
  /\ area \in {"sessions", "enrol", "staff", "hosts", "guard", "rows", "waves", "lists", "shelf",
               "tasks", "letters", "pipe", "trail"}
  /\ Hosts!TenancyInit /\ Guard!ProtectionInit /\ RolloutInit /\ Tasks!SchedulesInit
  /\ Replays!LettersInit /\ Pipe!PipelineInit /\ Trail!AuditInit
  /\ IF area = "staff" THEN Staff!AccountsInit ELSE Sessions!AccountsInit
  /\ IF area = "rows" THEN Tenants!RequestsInit
     ELSE owner = 0 /\ req = 0 /\ queued = 0 /\ touched = 0
  /\ IF area = "lists" THEN Lists!CatalogueInit
     ELSE IF area = "shelf" THEN Shelf!CatalogueInit
     ELSE /\ ext = 0 /\ walk = 0 /\ steady = 0 /\ coll = 0
          /\ change = 0 /\ pay = 0 /\ kept = 0 /\ changes = 0

MCNext ==
  /\ \/ /\ \/ area = "sessions" /\ Sessions!AccountsNext
           \/ area = "enrol" /\ Enrol!AccountsNext
           \/ area = "staff" /\ Staff!AccountsNext
        /\ UNCHANGED <<hostVars, guardVars, rowVars, rolloutVars, listVars, taskVars, letterVars,
                       pipeVars, trailVars>>
     \/ area = "hosts" /\ Hosts!TenancyNext
           /\ UNCHANGED <<accountVars, guardVars, rowVars, rolloutVars, listVars, taskVars, letterVars,
                          pipeVars, trailVars>>
     \/ area = "guard" /\ Guard!ProtectionNext
           /\ UNCHANGED <<accountVars, hostVars, rowVars, rolloutVars, listVars, taskVars, letterVars,
                          pipeVars, trailVars>>
     \/ area = "rows" /\ Tenants!RequestsNext
           /\ UNCHANGED <<accountVars, hostVars, guardVars, rolloutVars, listVars, taskVars, letterVars,
                          pipeVars, trailVars>>
     \/ area = "waves" /\ RolloutNext
           /\ UNCHANGED <<accountVars, hostVars, guardVars, rowVars, listVars, taskVars, letterVars,
                          pipeVars, trailVars>>
     \/ /\ \/ area = "lists" /\ Lists!CatalogueNext
           \/ area = "shelf" /\ Shelf!CatalogueNext
        /\ UNCHANGED <<accountVars, hostVars, guardVars, rowVars, rolloutVars, taskVars, letterVars,
                       pipeVars, trailVars>>
     \/ area = "tasks" /\ Tasks!SchedulesNext
           /\ UNCHANGED <<accountVars, hostVars, guardVars, rowVars, rolloutVars, listVars, letterVars,
                          pipeVars, trailVars>>
     \/ area = "letters" /\ Replays!LettersNext
           /\ UNCHANGED <<accountVars, hostVars, guardVars, rowVars, rolloutVars, listVars, taskVars,
                          pipeVars, trailVars>>
     \/ area = "pipe" /\ Pipe!PipelineNext
           /\ UNCHANGED <<accountVars, hostVars, guardVars, rowVars, rolloutVars, listVars, taskVars,
                          letterVars, trailVars>>
     \/ area = "trail" /\ Trail!AuditNext
           /\ UNCHANGED <<accountVars, hostVars, guardVars, rowVars, rolloutVars, listVars, taskVars,
                          letterVars, pipeVars>>
  /\ UNCHANGED area

MCSpec == MCInit /\ [][MCNext]_allVars

(* A session has one refresh token that is accepted, and a reset password  *)
(* ends the sessions that began with the old one.                          *)
SessionsAreExact ==
  area \in {"sessions", "enrol"} => Sessions!OneTokenPerSession /\ Sessions!ResetEndsSessions
(* A host that is READY leads to its school, and no command takes a        *)
(* verified host from one school for another.                              *)
HostsAreSound == []Hosts!ReadyIsReachable /\ Hosts!HostsKeepTheirSchool
(* The counters of the governor count the requests that run.               *)
CountsWhatRuns == Guard!CountsWhatRuns
(* What a request of a school commits is the school's own, and audited.    *)
RequestsAreConfined ==
  /\ area = "rows" => Tenants!OwnRowsOnly
  /\ Pipe!AppliedIsAudited
(* Whoever reads all pages of a list sees a row that stays in its place    *)
(* once, and a change of half of the payment settings keeps the other.     *)
ListsAreWhole ==
  /\ area = "lists" => Lists!SteadyRowsSeenOnce
  /\ area = "shelf" => Shelf!SettingsAreKept
(* The task of a window runs in one process, and a replayed job is not     *)
(* lost, whoever dies.                                                     *)
WorkIsDoneOnce == Tasks!OncePerWindow /\ Replays!JobIsKept
(* The nightly figures count every request of the day.                     *)
NightlyIsExact == Trail!NightlyIsExact

Interchangeable == Permutations({k1, k2, k3})
=============================================================================
