------------------------------- MODULE SchoolDesk -------------------------------
(***************************************************************************)
(* The page on which a platform operator keeps one school                  *)
(* (frontend/app/platform/schools/[id]/page.tsx), with what its commands   *)
(* do at the server (platform/schools.service.ts,                          *)
(* platform/schools.controller.ts).  What the server does to hosts and     *)
(* routes is Tenancy's; here they are rows that the page lists.            *)
(***************************************************************************)
EXTENDS Integers, FiniteSets

CONSTANTS
  Dom,       \* custom domains of the school
  Edits,     \* bound: commands of this page and of other operators
  Faults     \* bound: requests that fail or whose answer is lost

VARIABLES
  school,    \* the School row, its administrator's password, the deletion requested
  domains,   \* the SchoolDomain rows
  desk,      \* the page
  asks,      \* the commands on their way, with what they will answer
  edits, misses

deskVars == <<school, domains, desk, asks, edits, misses>>

Simple == {"status", "view", "reset", "check", "delete"}
Kind == ((Simple \cup {"register"}) \X {"school"}) \cup ({"verify", "route"} \X Dom)
K(name) == <<name, "school">>
Active == 1
Suspended == 2
Free == [at |-> "idle", to |-> 0]
Unlisted == [d \in Dom |-> "none"]
Blank == [at |-> "loading", tab |-> "overview", status |-> "none", counts |-> TRUE,
          list |-> Unlisted, busy |-> {}, password |-> 0]

DeskTypeOK ==
  /\ school.status \in {"ACTIVE", "SUSPENDED", "PROVISIONING", "DELETION_SCHEDULED"}
  /\ school.password \in 0..Edits
  /\ \A d \in Dom : domains[d] \in {"none", "PENDING", "VERIFIED", "READY"}
  /\ desk.at \in {"loading", "ready", "failed", "crashed", "left"} /\ desk.busy \subseteq Kind
  /\ \A k \in Kind : asks[k].at \in {"idle", "sent", "ok", "failed", "list", "listed"}
  /\ edits \in 0..Edits /\ misses \in 0..Faults

DeskInit ==
  /\ school = [status |-> "ACTIVE", password |-> 0, deletion |-> FALSE, others |-> FALSE]
  /\ domains = Unlisted /\ desk = Blank /\ asks = [k \in Kind |-> Free]
  /\ edits = 0 /\ misses = 0

Miss == misses < Faults /\ misses' = misses + 1
Spend == edits < Edits /\ edits' = edits + 1
-----------------------------------------------------------------------------
(* load: the school with its counts, and its domains if they come.         *)
Load ==
  /\ desk.at = "loading" /\ UNCHANGED <<school, domains, asks, edits>>
  /\ \/ /\ desk' = [desk EXCEPT !.at = "ready", !.status = school.status, !.counts = TRUE, !.list = domains]
        /\ UNCHANGED misses
     \/ /\ Miss /\ desk' \in {[desk EXCEPT !.at = "failed"],
                              [desk EXCEPT !.at = "ready", !.status = school.status, !.counts = TRUE]}
Reload ==
  /\ desk.at # "loading" /\ Spend /\ desk' = Blank /\ asks' = [k \in Kind |-> Free]
  /\ UNCHANGED <<school, domains, misses>>

(* The overview reads the school's counts; without them the page is gone.  *)
Rendered(shown) == IF shown.tab = "overview" /\ ~shown.counts THEN [shown EXCEPT !.at = "crashed"] ELSE shown
OpenTab(tab) ==
  /\ desk.at = "ready" /\ tab # desk.tab /\ desk' = Rendered([desk EXCEPT !.tab = tab])
  /\ UNCHANGED <<school, domains, asks, edits, misses>>

(* Which buttons there are, and which of them can be pressed.              *)
TabOf(k) == IF k \in {K("status"), K("delete")} THEN "danger" ELSE "overview"
(* Faulty variant: the form stays beside the password it gave.             *)
FormStays(k) ==
  CASE k = K("view") -> desk.status # "SUSPENDED"
    [] k[1] = "verify" -> desk.list[k[2]] = "PENDING"
    [] k[1] = "route" -> desk.list[k[2]] = "VERIFIED"
    [] OTHER -> TRUE
Shown(k) ==
  CASE k = K("view") -> desk.status # "SUSPENDED"
    [] k = K("reset") -> desk.password = 0
    [] k[1] = "verify" -> desk.list[k[2]] = "PENDING"
    [] k[1] = "route" -> desk.list[k[2]] = "VERIFIED"
    [] OTHER -> TRUE
OfDomains(k) == k[1] \in {"register", "verify", "route"}
Press(k) ==
  /\ desk.at = "ready" /\ desk.tab = TabOf(k) /\ Shown(k) /\ desk.busy # {k} /\ asks[k] = Free /\ Spend
  /\ desk' = IF OfDomains(k) THEN [desk EXCEPT !.busy = {k}] ELSE desk
  /\ asks' = [asks EXCEPT ![k] = [at |-> "sent", to |-> IF desk.status = "SUSPENDED" THEN Active ELSE Suspended]]
  /\ UNCHANGED <<school, domains, misses>>
-----------------------------------------------------------------------------
(* The commands at the server.  A request may fail before or after that.   *)
Answers(k, to) == asks' = [asks EXCEPT ![k] = [at |-> "ok", to |-> to]] /\ UNCHANGED misses
Lost(k) == asks' = [asks EXCEPT ![k] = [at |-> "failed", to |-> 0]] /\ Miss
Outcome(k, to) == /\ asks[k].at = "sent" /\ (Answers(k, to) \/ Lost(k)) /\ UNCHANGED <<desk, edits>>

UpdateStatus ==
  LET to == asks[K("status")].to
  IN /\ Outcome(K("status"), to) /\ UNCHANGED domains
     /\ school' = [school EXCEPT !.status = IF to = Active THEN "ACTIVE" ELSE "SUSPENDED"]
Impersonate == Outcome(K("view"), 0) /\ UNCHANGED <<school, domains>>
ResetAdminPassword ==
  /\ Outcome(K("reset"), school.password + 1)
  /\ school' = [school EXCEPT !.password = @ + 1, !.others = FALSE] /\ UNCHANGED domains
(* retryDomainProvisioning leaves a school ACTIVE or PROVISIONING,         *)
(* suspended or not.                                                       *)
CheckDomain ==
  /\ Outcome(K("check"), 0) /\ UNCHANGED domains
  /\ \E to \in {"ACTIVE", "PROVISIONING"} : school' = [school EXCEPT !.status = to]
(* A second request finds the open one and is answered with it.            *)
RequestDeletion ==
  /\ Outcome(K("delete"), 0) /\ UNCHANGED domains
  /\ school' = IF school.deletion THEN school
               ELSE [school EXCEPT !.deletion = TRUE, !.status = "DELETION_SCHEDULED"]
RegisterDomain(d) ==    \* registering a host again starts its verification over
  /\ Outcome(K("register"), 0)
  /\ domains' = [domains EXCEPT ![d] = "PENDING"] /\ UNCHANGED school
VerifyDomain(d, to) ==
  /\ domains[d] # "none" /\ to \in {"PENDING", "VERIFIED", "READY"} /\ Outcome(<<"verify", d>>, 0)
  /\ domains' = [domains EXCEPT ![d] = to] /\ UNCHANGED school
RouteDomain(d, to) ==
  /\ domains[d] \in {"VERIFIED", "READY"} /\ to \in {"VERIFIED", "READY"} /\ Outcome(<<"route", d>>, 0)
  /\ domains' = [domains EXCEPT ![d] = to] /\ UNCHANGED school
(* Refused, or failed before it did anything.                              *)
Refuse(k) ==
  /\ asks[k].at = "sent" /\ asks' = [asks EXCEPT ![k].at = "failed"]
  /\ (k[1] = "route" /\ domains[k[2]] = "PENDING" /\ UNCHANGED misses) \/ Miss
  /\ UNCHANGED <<school, domains, desk, edits>>
ListDomains(k) ==
  /\ asks[k].at = "list" /\ desk' = desk /\ UNCHANGED <<school, domains, edits>>
  /\ \/ asks' = [asks EXCEPT ![k] = [at |-> "listed", to |-> domains]] /\ UNCHANGED misses
     \/ asks' = [asks EXCEPT ![k].at = "failed"] /\ Miss
-----------------------------------------------------------------------------
(* What the page makes of the answers.  toggleStatus shows the row that    *)
(* the PATCH returned, and that has no counts.                             *)
Settles(k) == asks' = [asks EXCEPT ![k] = Free] /\ UNCHANGED <<school, domains, edits, misses>>
Here == desk.at = "ready"
StatusSet ==
  /\ asks[K("status")].at = "ok" /\ Settles(K("status"))
  /\ desk' = IF Here THEN Rendered([desk EXCEPT !.counts = FALSE,
                                     !.status = IF asks[K("status")].to = Active THEN "ACTIVE" ELSE "SUSPENDED"])
             ELSE desk
ViewOpened == asks[K("view")].at = "ok" /\ Settles(K("view")) /\ UNCHANGED desk
PasswordReset ==
  /\ asks[K("reset")].at = "ok" /\ Settles(K("reset"))
  /\ desk' = IF Here THEN [desk EXCEPT !.password = asks[K("reset")].to] ELSE desk
PasswordNoted ==
  /\ Here /\ desk.password > 0 /\ desk' = [desk EXCEPT !.password = 0]
  /\ UNCHANGED <<school, domains, asks, edits, misses>>
DomainChecked == asks[K("check")].at = "ok" /\ Settles(K("check")) /\ UNCHANGED desk
(* handleDelete: the button stays disabled on the way to the next page.    *)
DeletionRequested ==
  /\ asks[K("delete")].at = "ok" /\ Settles(K("delete"))
  /\ desk' = IF Here THEN [desk EXCEPT !.at = "left"] ELSE desk
(* registerCustomDomain, verifyCustomDomain and retryDomainRouting ask for *)
(* the list again; the end of any of them ends the one "busy" they share.  *)
DomainDone(k) ==
  /\ OfDomains(k) /\ asks[k].at = "ok" /\ asks' = [asks EXCEPT ![k] = [at |-> "list", to |-> 0]]
  /\ UNCHANGED <<school, domains, desk, edits, misses>>
DomainsShown(k) ==
  /\ asks[k].at = "listed" /\ Settles(k)
  /\ desk' = IF Here THEN [desk EXCEPT !.list = asks[k].to, !.busy = {}] ELSE desk
Failed(k) ==
  /\ asks[k].at = "failed" /\ Settles(k)
  /\ desk' = IF Here /\ OfDomains(k) THEN [desk EXCEPT !.busy = {}] ELSE desk

(* Another operator resets the password, or sets the school's status.      *)
Elsewhere ==
  /\ Spend /\ UNCHANGED <<domains, desk, asks, misses>>
  /\ \/ school' = [school EXCEPT !.password = @ + 1, !.others = TRUE]
     \/ \E to \in {"ACTIVE", "SUSPENDED"} : school' = [school EXCEPT !.status = to]

DeskNext ==
  \/ Load \/ Reload \/ (\E tab \in {"overview", "danger"} : OpenTab(tab))
  \/ UpdateStatus \/ Impersonate \/ ResetAdminPassword \/ CheckDomain \/ RequestDeletion
  \/ \E d \in Dom : \/ RegisterDomain(d)
                    \/ \E to \in {"PENDING", "VERIFIED", "READY"} : VerifyDomain(d, to) \/ RouteDomain(d, to)
  \/ StatusSet \/ ViewOpened \/ PasswordReset \/ PasswordNoted \/ DomainChecked \/ DeletionRequested
  \/ \E k \in Kind : Press(k) \/ Refuse(k) \/ ListDomains(k) \/ DomainDone(k) \/ DomainsShown(k) \/ Failed(k)
  \/ Elsewhere
-----------------------------------------------------------------------------
(* The temporary password on the page, shown once and handed on to the     *)
(* school, is the one that its administrator's account has, unless another *)
(* operator reset it later: also when a reset was done and its answer lost.*)
ShownPasswordWorks ==
  desk.at = "ready" /\ desk.password > 0 => school.password = desk.password \/ school.others

(* The page says that a school has counts, and reads them.  A school whose *)
(* status was just set has none.                                           *)
PageSurvives == desk.at # "crashed"

(* Refuted: one command at a time for a domain; a list that is the newest  *)
(* when nothing is on its way.                                             *)
OneCommandPerDomain == \A k \in Kind : desk.at = "ready" /\ OfDomains(k) /\ asks[k] # Free => desk.busy = {k}
ListIsFresh == desk.at = "ready" /\ misses = 0 /\ (\A k \in Kind : asks[k] = Free) => desk.list = domains
=============================================================================
