-------------------------------- MODULE Tenancy --------------------------------
(***************************************************************************)
(* Schools and the hosts they are reached at: provisioning and its retry,  *)
(* custom domains and their DNS challenge, suspension, and the cache with  *)
(* which every API process resolves a host (platform/schools.service.ts,   *)
(* tenancy/school-domain.service.ts, tenant-host.middleware.ts).           *)
(***************************************************************************)
EXTENDS Integers, FiniteSets

CONSTANTS
  School, Host,
  Fresh,       \* schools that are created; the others are ACTIVE at the start
  Home, Rail,  \* Home[s], Rail[s]: s's hosts under SCHOOL_ROOT_DOMAIN and at Railway
  Process,     \* API processes, each with a cache
  Job,         \* API requests in flight at a time
  Challenges,  \* bound: DNS challenges issued
  Deeds,       \* bound: what happens in an instance
  None

VARIABLES
  school,    \* school[s]: the School row and its SchoolProvisioningJob
  domain,    \* domain[h]: the SchoolDomain row
  routes,    \* hosts that Railway routes to the frontend
  dns,       \* dns[h]: the challenge published for h
  cache,     \* cache[p][h]: what process p answers without asking
  lookup,    \* lookup[p]: the resolve of p that has read and not cached yet
  job,       \* job[j]: what each request has read and will write
  upset      \* history: which writes were made on rows read before they changed?

tenancyVars == <<school, domain, routes, dns, cache, lookup, job, upset>>

NoDomain == [of |-> None, type |-> "NONE", status |-> "NONE", challenge |-> 0, routing |-> "NONE"]
Miss == [of |-> None, status |-> "NONE"]
NoLookup == [h |-> None, row |-> Miss]
IdleJob == [op |-> "idle", s |-> None, h |-> None, ok |-> FALSE, challenge |-> 0,
            saw |-> None]

TenancyTypeOK ==
  /\ school \in [School -> [status : {"NONE", "PROVISIONING", "ACTIVE", "SUSPENDED"},
                            job : {"NONE", "RUNNING", "COMPLETED", "FAILED"}]]
  /\ domain \in [Host -> [of : School \cup {None}, type : {"NONE", "MANAGED", "CUSTOM"},
                          status : {"NONE", "PENDING", "VERIFIED"}, challenge : 0..Challenges,
                          routing : {"NONE", "READY", "FAILED"}]]
  /\ routes \subseteq Host /\ dns \in [Host -> 0..Challenges]
  /\ cache \in [Process -> [Host -> [of : School \cup {None}, status : {"NONE", "PROVISIONING", "ACTIVE", "SUSPENDED"}]]]

TenancyInit ==
  /\ school = [s \in School |-> [status |-> IF s \in Fresh THEN "NONE" ELSE "ACTIVE", job |-> "NONE"]]
  /\ domain = [h \in Host |-> NoDomain]
  /\ routes = {} /\ dns = [h \in Host |-> 0]
  /\ cache = [p \in Process |-> [h \in Host |-> Miss]]
  /\ lookup = [p \in Process |-> NoLookup]
  /\ job = [j \in Job |-> IdleJob]
  /\ upset = {}

-----------------------------------------------------------------------------
(* resolve: a cached row, or the row of a verified domain, which is cached *)
(* after the query has come back.                                          *)
Row(h) == IF domain[h].status = "VERIFIED"
          THEN [of |-> domain[h].of, status |-> school[domain[h].of].status] ELSE Miss
BeginResolve(p, h) ==
  /\ "resolve" \in Deeds /\ lookup[p] = NoLookup /\ cache[p][h] = Miss /\ Row(h) # Miss
  /\ lookup' = [lookup EXCEPT ![p] = [h |-> h, row |-> Row(h)]]
  /\ UNCHANGED <<school, domain, routes, dns, cache, job, upset>>
Resolve(p) ==
  /\ lookup[p] # NoLookup
  /\ cache' = [cache EXCEPT ![p][lookup[p].h] = lookup[p].row]
  /\ lookup' = [lookup EXCEPT ![p] = NoLookup]
  /\ UNCHANGED <<school, domain, routes, dns, job, upset>>
(* Faulty variant: an entry lives until something evicts it.               *)
ExpireNever(p, h) == FALSE /\ UNCHANGED tenancyVars
(* The time to live has passed; the next request deletes the entry.        *)
Expire(p, h) ==
  /\ cache[p][h] # Miss
  /\ cache' = [cache EXCEPT ![p][h] = Miss]
  /\ UNCHANGED <<school, domain, routes, dns, lookup, job, upset>>

(* TenantHostMiddleware lets the requests of host h through to school s.   *)
Serves(p, h, s) == cache[p][h].of = s /\ cache[p][h].status # "SUSPENDED"

InvalidateHost(p, h) == cache' = [cache EXCEPT ![p][h] = Miss]
InvalidateSchool(p, s) ==
  cache' = [cache EXCEPT ![p] = [h \in Host |-> IF cache[p][h].of = s THEN Miss ELSE cache[p][h]]]
-----------------------------------------------------------------------------
Begin(j, new) == job[j] = IdleJob /\ job' = [job EXCEPT ![j] = new]
End(j) == job' = [job EXCEPT ![j] = IdleJob]
Next_(j, op) == job' = [job EXCEPT ![j].op = op]

(* create: the transaction; a request key or subdomain that is taken ends  *)
(* the request before it.                                                  *)
Create(j, s) ==
  /\ school[s] = [status |-> "NONE", job |-> "NONE"]
  /\ Begin(j, [IdleJob EXCEPT !.op = "register", !.s = s])
  /\ school' = [school EXCEPT ![s] = [status |-> "PROVISIONING", job |-> "RUNNING"]]
  /\ UNCHANGED <<domain, routes, dns, cache, lookup, upset>>

(* registerManagedDomain: an upsert that takes the host from whoever asked *)
(* for it and leaves its status as it was.                                 *)
RegisterManaged(j, p) ==
  LET s == job[j].s  h == Home[s]
  IN /\ job[j].op = "register" /\ Next_(j, "provision")
     /\ domain' = [domain EXCEPT ![h] = IF @ = NoDomain
          THEN [NoDomain EXCEPT !.of = s, !.type = "MANAGED", !.status = "VERIFIED"]
          ELSE [@ EXCEPT !.of = s, !.type = "MANAGED"]]
     /\ upset' = IF domain[h].of \in {None, s} THEN upset ELSE upset \cup {"taken"}
     /\ InvalidateHost(p, h) /\ UNCHANGED <<school, routes, dns, lookup>>

BeginRetry(j, s) ==
  /\ "retry" \in Deeds /\ school[s].status # "NONE"
  /\ Begin(j, [IdleJob EXCEPT !.op = "provision", !.s = s])
  /\ school' = [school EXCEPT ![s].job = IF @ = "NONE" THEN @ ELSE "RUNNING"]
  /\ UNCHANGED <<domain, routes, dns, cache, lookup, upset>>

(* provisionDomain never throws: a Railway failure is a result.            *)
Provision(j, ok) ==
  /\ job[j].op = "provision" /\ job' = [job EXCEPT ![j].op = "verified", ![j].ok = ok]
  /\ routes' = IF ok THEN routes \cup {Rail[job[j].s]} ELSE routes
  /\ UNCHANGED <<school, domain, dns, cache, lookup, upset>>
(* registerVerifiedDomain: a host that another school holds is a conflict, *)
(* which ends the request here.                                            *)
RegisterVerified(j, p) ==
  LET s == job[j].s  h == Rail[s]
  IN /\ job[j].op = "verified"
     /\ IF job[j].ok /\ domain[h].of \in {None, s}
        THEN domain' = [domain EXCEPT ![h] = [NoDomain EXCEPT !.of = s, !.type = "MANAGED",
                                                !.status = "VERIFIED", !.routing = "READY"]]
             /\ InvalidateHost(p, h)
        ELSE UNCHANGED <<domain, cache>>
     /\ IF job[j].ok /\ domain[h].of \notin {None, s} THEN End(j) ELSE Next_(j, "finish")
     /\ UNCHANGED <<school, routes, dns, lookup, upset>>
(* Faulty variant: the row of the domain is left to the retry.             *)
SkipVerified(j, p) ==
  /\ job[j].op = "verified" /\ Next_(j, "finish")
  /\ UNCHANGED <<school, domain, routes, dns, cache, lookup, upset>>

(* The last transaction of create and retryDomainProvisioning: the status  *)
(* follows the result, whatever it was.                                    *)
Finish(j) ==
  LET s == job[j].s
  IN /\ job[j].op = "finish" /\ End(j)
     /\ school' = [school EXCEPT
          ![s].status = IF job[j].ok THEN "ACTIVE" ELSE "PROVISIONING",
          ![s].job = IF @ = "NONE" THEN @ ELSE IF job[j].ok THEN "COMPLETED" ELSE "FAILED"]
     /\ upset' = IF school[s].status = "SUSPENDED" THEN upset \cup {"revived"} ELSE upset
     /\ UNCHANGED <<domain, routes, dns, cache, lookup>>
(* The API dies; the provisioning job stays RUNNING until it is retried.   *)
Die(j) ==
  /\ "crash" \in Deeds /\ job[j] # IdleJob /\ End(j)
  /\ UNCHANGED <<school, domain, routes, dns, cache, lookup, upset>>

(* update: the process that changed the status forgets what it cached.     *)
Update(p, s, status) ==
  /\ "suspend" \in Deeds /\ school[s].status # "NONE"
  /\ school' = [school EXCEPT ![s].status = status]
  /\ InvalidateSchool(p, s) /\ UNCHANGED <<domain, routes, dns, lookup, job, upset>>
-----------------------------------------------------------------------------
(* Faulty variant: the host is not looked up first.                        *)
ClaimableByAll(s, h) == TRUE
(* requestCustomDomain: a host that another school holds is a conflict; a  *)
(* host of one's own is a new challenge, even the managed one.             *)
Claimable(s, h) == domain[h].of \in {None, s}
BeginRequestDomain(j, s, h) ==
  /\ "custom" \in Deeds /\ school[s].status # "NONE" /\ Claimable(s, h)
  /\ Begin(j, [IdleJob EXCEPT !.op = "request", !.s = s, !.h = h, !.saw = domain[h].of])
  /\ UNCHANGED <<school, domain, routes, dns, cache, lookup, upset>>
Issued == CHOOSE n \in 0..Challenges : /\ \E h \in Host : domain[h].challenge = n
                                       /\ \A h \in Host : domain[h].challenge <= n
RequestDomain(j, p) ==
  LET s == job[j].s  h == job[j].h
  IN /\ job[j].op = "request" /\ Issued < Challenges /\ End(j)
     /\ domain' = [domain EXCEPT ![h] = [@ EXCEPT !.of = s, !.type = "CUSTOM", !.status = "PENDING",
                                                  !.challenge = Issued + 1]]
     /\ upset' = upset \cup (IF domain[h].of = job[j].saw THEN {} ELSE {"claimed"})
                       \cup (IF domain[h].type = "MANAGED" THEN {"demoted"} ELSE {})
     /\ InvalidateHost(p, h) /\ UNCHANGED <<school, routes, dns, lookup>>

(* The holder of the host publishes the latest challenge.                  *)
Publish(h) ==
  /\ dns[h] # domain[h].challenge
  /\ dns' = [dns EXCEPT ![h] = domain[h].challenge]
  /\ UNCHANGED <<school, domain, routes, cache, lookup, job, upset>>

BeginVerifyDomain(j, h) ==
  /\ domain[h].type = "CUSTOM"
  /\ Begin(j, [IdleJob EXCEPT !.op = "verify", !.s = domain[h].of, !.h = h, !.challenge = domain[h].challenge])
  /\ UNCHANGED <<school, domain, routes, dns, cache, lookup, upset>>
(* resolveTxt answers, and the row is updated by its id, whatever became   *)
(* of it.                                                                  *)
VerifyDomain(j, p) ==
  LET h == job[j].h  ok == dns[h] = job[j].challenge
  IN /\ job[j].op = "verify"
     /\ domain' = [domain EXCEPT ![h].status = IF ok THEN "VERIFIED" ELSE "PENDING"]
     /\ upset' = IF domain[h].challenge # job[j].challenge \/ domain[h].of # job[j].s
                 THEN upset \cup {"challenge"} ELSE upset
     /\ IF ok THEN Next_(j, "route") /\ InvalidateHost(p, h) ELSE End(j) /\ UNCHANGED cache
     /\ UNCHANGED <<school, routes, dns, lookup>>
(* provisionHostname and updateRoutingState, also of retryDomainRouting.   *)
BeginRouteAgain(j, h) ==
  /\ domain[h].status = "VERIFIED" /\ domain[h].routing # "READY"
  /\ Begin(j, [IdleJob EXCEPT !.op = "route", !.s = domain[h].of, !.h = h])
  /\ UNCHANGED <<school, domain, routes, dns, cache, lookup, upset>>
RouteDomain(j, p, ok) ==
  LET h == job[j].h
  IN /\ job[j].op = "route" /\ End(j)
     /\ routes' = IF ok THEN routes \cup {h} ELSE routes
     /\ domain' = IF domain[h].of # job[j].s THEN domain
                  ELSE [domain EXCEPT ![h].routing = IF ok THEN "READY" ELSE "FAILED"]
     /\ InvalidateHost(p, h) /\ UNCHANGED <<school, dns, lookup, upset>>

TenancyNext ==
  \/ \E p \in Process : \/ Resolve(p) \/ \E h \in Host : BeginResolve(p, h) \/ Expire(p, h)
                        \/ \E s \in School, status \in {"ACTIVE", "SUSPENDED"} : Update(p, s, status)
  \/ \E j \in Job :
       \/ \E s \in Fresh : Create(j, s) \/ BeginRetry(j, s)
       \/ \E s \in School, h \in Host : BeginRequestDomain(j, s, h)
       \/ \E ok \in BOOLEAN : Provision(j, ok) \/ \E p \in Process : RouteDomain(j, p, ok)
       \/ \E p \in Process : RegisterManaged(j, p) \/ RegisterVerified(j, p) \/ RequestDomain(j, p) \/ VerifyDomain(j, p)
       \/ \E h \in Host : BeginVerifyDomain(j, h) \/ BeginRouteAgain(j, h)
       \/ Finish(j) \/ Die(j)
  \/ \E h \in Host : Publish(h)

(* Queries come back and the time to live passes.                          *)
TenancyFairness ==
  \A p \in Process : WF_tenancyVars(Resolve(p)) /\ \A h \in Host : WF_tenancyVars(Expire(p, h))
-----------------------------------------------------------------------------
(* A school that stays suspended is not served at any host in the end, by  *)
(* no process, whatever they had cached or were reading.                   *)
SuspensionArrives ==
  \A s \in School : <>[](school[s].status = "SUSPENDED")
                      => <>[](\A p \in Process, h \in Host : ~ Serves(p, h, s))

(* A school whose provisioning is COMPLETED is reached at its Railway      *)
(* host: routed, and the host resolves to it, whichever attempt, crash or  *)
(* failure came before, unless a custom domain was requested on the host   *)
(* or an answer for an earlier challenge was written to it.                *)
ReadyIsReachable ==
  upset \cap {"demoted", "claimed", "challenge"} = {} =>
    \A s \in Fresh : school[s].job = "COMPLETED"
      => Rail[s] \in routes /\ Row(Rail[s]) = [of |-> s, status |-> school[s].status]

(* A host never passes from one school to another, unless the platform     *)
(* creates a school of that name or two requests for it overlapped.        *)
HostsKeepTheirSchool ==
  [][\A h \in Host : domain[h].of # domain'[h].of /\ domain[h].of # None
       => upset' \cap {"taken", "claimed"} # {}]_tenancyVars

(* Refuted: "suspension needs to take effect immediately"                  *)
(* (tenant-host.middleware.ts:52-53), and that only update ends it.           *)
SuspendedIsNotServed ==
  \A s \in School, p \in Process, h \in Host : school[s].status = "SUSPENDED" => ~ Serves(p, h, s)
OnlyUpdateRevives == "revived" \notin upset
=============================================================================
