-------------------------------- MODULE Console --------------------------------
(***************************************************************************)
(* The platform operator's page of extensions                              *)
(* (frontend/app/platform/extensions/page.tsx): one tab, its overlapping   *)
(* loads, the panels that a load unmounts, the calls of the buttons, the   *)
(* polling, and the server behind it, which other operators and workers    *)
(* change too.                                                             *)
(*                                                                         *)
(* One extension with one release, one installation and one row of each    *)
(* list of the operations view.  The lists of one answer are read at one    *)
(* moment: no property compares two of them.                               *)
(***************************************************************************)
EXTENDS Integers, FiniteSets

CONSTANTS
  Load, Call,     \* loads and calls of this tab that may be in flight at once
  Parts,          \* the groups of handlers of the instance
  HistoryAnswers, \* does the server answer the two requests that carry a limit twice?
  Releases, Starts,  \* states the release and the installation may start in
  Edits,          \* bound: what operators press, here and elsewhere
  Faults,         \* bound: loads that fail
  NoData

VARIABLES
  server,  \* the rows
  shown,   \* what the page holds of them
  load,    \* loads in flight
  ui,      \* component state of the tab
  call,    \* calls in flight
  edits, faults

consoleVars == <<server, shown, load, ui, call, edits, faults>>

Newest == 2  \* the newest published version; an installation starts with version 1
Pending == {"QUEUED", "RUNNING"}
Validating == {"QUARANTINED", "VALIDATING"}
Server(release, place) ==
  [release |-> release, extension |-> "ACTIVE", text |-> 0, place |-> place,
   bill |-> IF place = "PAYMENT_REVIEW" THEN "PENDING" ELSE "FREE", held |-> FALSE,
   job |-> [command |-> "none", status |-> "none"],
   version |-> 1, former |-> 0, feedback |-> FALSE, payment |-> "set",
   publisher |-> "ACTIVE", verified |-> FALSE, member |-> "ACTIVE", key |-> "ACTIVE",
   alert |-> "OPEN", control |-> FALSE, collection |-> "DRAFT"]
Idle == [at |-> "idle", part |-> "none", deed |-> "none", live |-> FALSE, load |-> NoData]
NoLoad == [at |-> "idle", got |-> NoData]
Places == {"REQUESTED", "PAYMENT_REVIEW", "APPROVED", "INSTALLED", "ACTIVE", "UNINSTALLED"}
Tabs == [tab : {"catalog", "installations", "operations"}, loading : BOOLEAN,
         filter : Places \cup {"ALL"},
         open : BOOLEAN, details : BOOLEAN, typed : SUBSET {"notes", "form"},
         list : {"none", "ready", "blocked"}, payment : {"blank", "set", "typed"}, busy : SUBSET {"release", "extension", "card", "payment"}]

ConsoleTypeOK ==
  /\ DOMAIN server = DOMAIN Server("UPLOADED", "REQUESTED") /\ ui \in Tabs
  /\ shown = NoData \/ DOMAIN shown = DOMAIN server
  /\ \A l \in Load : load[l].at \in {"idle", "asked", "read"}
  /\ \A c \in Call : call[c].at \in {"idle", "review", "asked", "done", "refused", "wait", "reload"}
  /\ edits \in 0..Edits /\ faults \in 0..Faults
-----------------------------------------------------------------------------
(* What the page offers of the rows it holds.                              *)
NextActions(r) ==
  CASE r = "VALIDATED" -> {"AWAITING_REVIEW"}
    [] r = "AWAITING_REVIEW" -> {"APPROVED", "REJECTED"}
    [] r = "APPROVED" -> {"PUBLISHED"}
    [] r = "PUBLISHED" -> {"DEPRECATED", "BLOCKED"}
    [] r = "DEPRECATED" -> {"BLOCKED", "RETIRED"}
    [] r = "BLOCKED" -> {"DEPRECATED", "RETIRED"}
    [] OTHER -> {}
(* Faulty variant: a published release may be retired at once.             *)
NextActionsRetire(r) ==
  NextActions(r) \cup (IF r = "PUBLISHED" THEN {"RETIRED"} ELSE {})
NextButtons(r) == NextActions(r)
ReleaseButtons(r) ==
  NextButtons(r) \cup {d \in {"upload", "appeal", "delete", "preview"} :
    \/ d = "upload" /\ r = "UPLOADED"
    \/ d = "appeal" /\ r = "REJECTED"
    \/ d = "delete" /\ r \in {"UPLOADED", "VALIDATED", "REJECTED"}
    \/ d = "preview" /\ r \in {"VALIDATED", "AWAITING_REVIEW", "APPROVED", "PUBLISHED", "DEPRECATED"}}
Installed(s) == s.place \in {"INSTALLED", "ACTIVE", "UNINSTALLED"}
CardButtons(s) == {d \in {"approve", "install", "activate", "deactivate", "uninstall",
                          "upgrade", "rollback", "feedback"} :
  \/ d = "approve" /\ s.place \in {"REQUESTED", "PAYMENT_REVIEW"} /\ s.bill \in {"FREE", "ACTIVE"}
  \/ d = "install" /\ s.place = "APPROVED"
  \/ d = "activate" /\ s.place = "INSTALLED"
  \/ d = "deactivate" /\ s.place = "ACTIVE"
  \/ d = "upgrade" /\ Installed(s) /\ s.version # Newest
  \/ d = "rollback" /\ s.former # 0
  \/ d = "feedback" /\ Installed(s)
  \/ d = "uninstall" /\ s.place \in {"INSTALLED", "ACTIVE"}}
PublisherButtons(s) == {d \in {"verify", "refuse", "reactivate", "suspend", "revoke"} :
  \/ d \in {"verify", "refuse"} /\ ~s.verified /\ s.publisher # "REVOKED"
  \/ d = "reactivate" /\ s.publisher # "ACTIVE" /\ s.verified
  \/ d = "suspend" /\ s.publisher = "ACTIVE"
  \/ d = "revoke" /\ s.publisher # "REVOKED"}
KeyButtons(s) == {d \in {"rotate", "retire", "revive", "withdraw"} :
  \/ d \in {"rotate", "retire"} /\ s.key = "ACTIVE"
  \/ d = "revive" /\ s.key = "RETIRED"
  \/ d = "withdraw" /\ s.key # "REVOKED"}
AlertButtons(s) == {d \in {"acknowledge", "resolve"} :
  \/ d = "acknowledge" /\ s.alert = "OPEN"
  \/ d = "resolve" /\ s.alert # "RESOLVED"}
Offered(s) ==
  UNION {IF part = "catalog" THEN ReleaseButtons(s.release)
         ELSE IF part = "installations" THEN CardButtons(s)
         ELSE PublisherButtons(s) \cup KeyButtons(s) \cup AlertButtons(s) : part \in Parts}

(* The server's side: whether the state of the row lets the command pass   *)
(* (dependencies, quotas, signatures and roles may refuse it all the       *)
(* same), and what is written.                                             *)
Accepts(s, d) ==
  CASE d \in {"upload"} -> s.release = "UPLOADED"
    [] d = "appeal" -> s.release = "REJECTED"
    [] d = "delete" -> s.release \in {"UPLOADED", "VALIDATED", "REJECTED"}
    [] d = "preview" -> s.release \notin {"UPLOADED", "QUARANTINED", "VALIDATING", "REJECTED",
                                          "BLOCKED", "RETIRED", "gone"}
    [] d = "AWAITING_REVIEW" -> s.release = "VALIDATED"
    [] d \in {"APPROVED", "REJECTED"} -> s.release = "AWAITING_REVIEW"
    [] d = "PUBLISHED" -> s.release = "APPROVED"
    [] d = "DEPRECATED" -> s.release \in {"PUBLISHED", "BLOCKED"}
    [] d = "BLOCKED" -> s.release \in {"PUBLISHED", "DEPRECATED"}
    [] d = "RETIRED" -> s.release \in {"DEPRECATED", "BLOCKED"}
    [] d = "approve" -> s.place = "APPROVED"
                        \/ (s.place \in {"REQUESTED", "PAYMENT_REVIEW"} /\ s.bill = "FREE")
                        \/ (s.place = "PAYMENT_REVIEW" /\ s.bill = "ACTIVE")
    [] d = "install" -> s.place \in {"APPROVED", "INSTALLED"}
    [] d \in {"activate", "deactivate"} -> s.place \in {"INSTALLED", "ACTIVE"}
    [] d = "uninstall" -> s.place \in {"INSTALLED", "ACTIVE", "UNINSTALLED"}
    [] d \in {"upgrade", "feedback"} -> Installed(s)
    [] d = "rollback" -> s.former # 0
    [] d \in {"verify", "refuse"} -> s.publisher # "REVOKED"
    [] d = "reactivate" -> s.verified
    [] d = "rotate" -> s.key = "ACTIVE"
    [] d \in {"retire", "revive"} -> s.key # "REVOKED"
    [] d = "remove" -> s.extension = "RETIRED" /\ s.release \in {"RETIRED", "REJECTED", "gone"}
    [] OTHER -> TRUE
Commands == {"install", "activate", "deactivate", "uninstall", "upgrade", "rollback", "remove"}
Placed(s, d) ==
  CASE d = "install" -> [s EXCEPT !.place = "INSTALLED"]
    [] d = "activate" -> [s EXCEPT !.place = "ACTIVE"]
    [] d = "deactivate" -> [s EXCEPT !.place = "INSTALLED"]
    [] d = "uninstall" -> [s EXCEPT !.place = "UNINSTALLED"]
    [] d = "upgrade" -> [s EXCEPT !.version = Newest, !.former = IF s.version = Newest THEN @ ELSE s.version]
    [] d = "rollback" -> [s EXCEPT !.version = s.former, !.former = s.version]
    [] OTHER -> [s EXCEPT !.extension = "gone"]
Done(s, d) ==
  CASE d = "upload" -> [s EXCEPT !.release = "QUARANTINED"]
    [] d = "appeal" -> [s EXCEPT !.release = "AWAITING_REVIEW"]
    [] d = "delete" -> [s EXCEPT !.release = "gone"]
    [] d = "DEPRECATED" \/ d = "RETIRED" -> [s EXCEPT !.release = d,
         !.extension = IF d = "RETIRED" THEN "RETIRED" ELSE @]
    [] d = "PUBLISHED" -> [s EXCEPT !.release = d, !.extension = "ACTIVE"]
    [] d = "BLOCKED" -> [s EXCEPT !.release = d, !.place = IF @ = "ACTIVE" THEN "INSTALLED" ELSE @]
    [] d \in {"AWAITING_REVIEW", "APPROVED", "REJECTED"} -> [s EXCEPT !.release = d]
    [] d = "approve" -> [s EXCEPT !.place = "APPROVED"]
    [] d \in Commands -> [s EXCEPT !.job = [command |-> d, status |-> "QUEUED"]]
    [] d \in {"PENDING", "ACTIVE"} -> [s EXCEPT !.bill = d]
    [] d = "feedback" -> [s EXCEPT !.feedback = TRUE]
    [] d \in {"blank", "set", "typed"} -> [s EXCEPT !.payment = d]
    [] d \in {"hold", "release"} -> [s EXCEPT !.held = d = "hold"]
    [] d = "verify" -> [s EXCEPT !.verified = TRUE, !.publisher = "ACTIVE"]
    [] d \in {"refuse", "suspend"} -> [s EXCEPT !.publisher = "SUSPENDED", !.verified = @ /\ d = "suspend"]
    [] d = "reactivate" -> [s EXCEPT !.publisher = "ACTIVE"]
    [] d = "revoke" -> [s EXCEPT !.publisher = "REVOKED"]
    [] d = "member" -> [s EXCEPT !.member = IF @ = "ACTIVE" THEN "SUSPENDED" ELSE "ACTIVE"]
    [] d \in {"retire", "revive", "withdraw"} -> [s EXCEPT !.key =
         CASE d = "retire" -> "RETIRED" [] d = "revive" -> "ACTIVE" [] OTHER -> "REVOKED"]
    [] d \in {"acknowledge", "resolve"} -> [s EXCEPT !.alert =
         IF d = "resolve" THEN "RESOLVED" ELSE "ACKNOWLEDGED"]
    [] d \in {"isolate", "lift"} -> [s EXCEPT !.control = d = "isolate"]
    [] d \in {"publish", "archive"} -> [s EXCEPT !.collection =
         IF d = "publish" THEN "PUBLISHED" ELSE "ARCHIVED"]
    [] d = "save" -> [s EXCEPT !.text = 1 - @]
    [] OTHER -> s
-----------------------------------------------------------------------------
(* The filter of the installations: a card that it hides is unmounted.     *)
Matches(place) == ui.filter \in {"ALL", place}

(* A load: the lists are asked for, the server reads them, the answer      *)
(* comes.  While it loads the cards of the catalogue are not rendered, so  *)
(* that their state (opened, typed, busy) is gone when they come back.     *)
CatalogParts == {"release", "extension"}
Folded(u) == [u EXCEPT !.open = FALSE, !.details = FALSE, !.typed = {}, !.list = "none",
                       !.busy = @ \ CatalogParts]
Unmounted(cs, parts) ==
  [c \in Call |-> IF cs[c].part \in parts THEN [cs[c] EXCEPT !.live = FALSE] ELSE cs[c]]
BeginLoad(l, cs) ==
  /\ load[l].at = "idle" /\ load' = [load EXCEPT ![l] = [NoLoad EXCEPT !.at = "asked"]]
  /\ ui' = [Folded(ui) EXCEPT !.loading = TRUE]
  /\ call' = Unmounted(cs, CatalogParts)
Read(l) ==
  /\ load[l].at = "asked" /\ load' = [load EXCEPT ![l] = [at |-> "read", got |-> server]]
  /\ UNCHANGED <<server, shown, ui, call, edits, faults>>
(* Whoever awaits the load goes on: a component that is still mounted is   *)
(* no longer busy.                                                         *)
Awaiting(l) == {c \in Call : call[c].at = "reload" /\ call[c].load = l}
EndLoad(l, gone, payment) ==
  /\ load' = [load EXCEPT ![l] = NoLoad]
  /\ call' = [c \in Call |-> IF c \in Awaiting(l) THEN Idle ELSE Unmounted(call, gone)[c]]
  /\ ui' = [ui EXCEPT !.loading = FALSE, !.payment = payment,
       !.busy = @ \ (gone \cup {call[c].part : c \in {x \in Awaiting(l) : call[x].live}})]
Show(l) ==
  /\ load[l].at = "read" /\ HistoryAnswers /\ shown' = load[l].got
  /\ IF Matches(load[l].got.place) THEN EndLoad(l, {}, load[l].got.payment)
     ELSE EndLoad(l, {"card"}, load[l].got.payment)
  /\ UNCHANGED <<server, edits, faults>>
(* Promise.all: one refused request and nothing of the others is shown.    *)
Refused(l) ==
  /\ load[l].at = "read" /\ ~HistoryAnswers /\ EndLoad(l, {}, ui.payment)
  /\ UNCHANGED <<server, shown, edits, faults>>
FailLoad(l) ==
  /\ load[l].at # "idle" /\ faults < Faults /\ faults' = faults + 1 /\ EndLoad(l, {}, ui.payment)
  /\ UNCHANGED <<server, shown, edits>>

ConsoleInit ==
  /\ server \in {Server(r, p) : r \in Releases, p \in Starts}
  /\ \E l \in Load : load = [x \in Load |-> IF x = l THEN [NoLoad EXCEPT !.at = "asked"] ELSE NoLoad]
  /\ ui = [tab |-> "installations", filter |-> "REQUESTED", loading |-> TRUE, open |-> FALSE, details |-> FALSE,
           typed |-> {}, list |-> "none", payment |-> "blank", busy |-> {}]
  /\ shown = NoData /\ call = [c \in Call |-> Idle] /\ edits = 0 /\ faults = 0

Catalog == ui.tab = "catalog" /\ ~ui.loading /\ shown # NoData
ReleasePanel == Catalog /\ ui.open /\ shown.release # "gone"
Card == ui.tab = "installations" /\ shown # NoData /\ Matches(shown.place)
Desk == ui.tab = "operations" /\ shown # NoData

(* The timers of the panels: every two seconds while what is shown is not  *)
(* settled.                                                                *)
PollRelease ==
  /\ ReleasePanel /\ shown.release \in Validating
  /\ \E l \in Load : BeginLoad(l, call)
  /\ UNCHANGED <<server, shown, edits, faults>>
(* Faulty variant: a job that runs is not polled.                          *)
PolledQueued == {"QUEUED"}
Polled == Pending
PollJob ==
  /\ Card /\ shown.job.status \in Polled
  /\ \E l \in Load : BeginLoad(l, call)
  /\ UNCHANGED <<server, shown, edits, faults>>

(* Clicks that ask the server nothing.                                     *)
OpenTab(t) ==
  /\ ui.tab # t /\ edits < Edits /\ edits' = edits + 1
  /\ ui' = [Folded(ui) EXCEPT !.tab = t, !.busy = @ \cap {"payment"}]
  /\ call' = Unmounted(call, CatalogParts \cup {"card"})
  /\ UNCHANGED <<server, shown, load, faults>>
SetFilter(f) ==
  /\ ui.tab = "installations" /\ ui.filter # f /\ edits < Edits /\ edits' = edits + 1
  /\ ui' = [ui EXCEPT !.filter = f, !.busy = IF Card /\ f \in {"ALL", shown.place} THEN @ ELSE @ \ {"card"}]
  /\ call' = IF Card /\ f \in {"ALL", shown.place} THEN call ELSE Unmounted(call, {"card"})
  /\ UNCHANGED <<server, shown, load, faults>>
Expand ==
  /\ Catalog /\ ~ui.open /\ ui' = [ui EXCEPT !.open = TRUE]
  /\ UNCHANGED <<server, shown, load, call, edits, faults>>
TypeNotes ==
  /\ ReleasePanel /\ ui.details /\ shown.release = "AWAITING_REVIEW"
  /\ ui' = [ui EXCEPT !.typed = @ \cup {"notes"}]
  /\ UNCHANGED <<server, shown, load, call, edits, faults>>
TypeForm ==
  /\ Catalog /\ ui.open /\ ui' = [ui EXCEPT !.typed = @ \cup {"form"}]
  /\ UNCHANGED <<server, shown, load, call, edits, faults>>
Checklist(answer) ==
  /\ ReleasePanel /\ shown.release = "APPROVED" /\ ui.list = "none"
  /\ ui' = [ui EXCEPT !.list = answer]
  /\ UNCHANGED <<server, shown, load, call, edits, faults>>
-----------------------------------------------------------------------------
(* The calls of the buttons.  Press is a handler that makes its component  *)
(* busy, Submit one of the page itself, which has no such flag.            *)
Submit(c, part, deed, at) ==
  /\ call[c].at = "idle" /\ part \notin ui.busy /\ edits < Edits /\ edits' = edits + 1
  /\ call' = [call EXCEPT ![c] = [Idle EXCEPT !.at = at, !.part = part, !.deed = deed,
                                              !.live = TRUE]]
  /\ UNCHANGED <<server, shown, load, faults>>
Press(c, part, deed) ==
  /\ Submit(c, part, deed, "asked") /\ ui' = [ui EXCEPT !.busy = @ \cup {part}]

Upload(c) == ReleasePanel /\ "upload" \in ReleaseButtons(shown.release) /\ Press(c, "release", "upload")
Preview(c) == ReleasePanel /\ "preview" \in ReleaseButtons(shown.release) /\ Press(c, "release", "preview")
Appeal(c) == ReleasePanel /\ "appeal" \in ReleaseButtons(shown.release) /\ Press(c, "release", "appeal")
DeleteVersion(c) ==
  ReleasePanel /\ "delete" \in ReleaseButtons(shown.release) /\ Press(c, "release", "delete")
Decision == {"APPROVED", "REJECTED"}
Transition(c, to) ==
  /\ ReleasePanel /\ to \in NextButtons(shown.release)
  /\ to = "PUBLISHED" => ui.list = "ready"
  /\ to \in Decision => "notes" \in ui.typed
  /\ Press(c, "release", to)
(* A decision without its notes opens the form and sends nothing.          *)
AskForNotes ==
  /\ ReleasePanel /\ NextButtons(shown.release) \cap Decision # {} /\ ~ui.details
  /\ "release" \notin ui.busy /\ ui' = [ui EXCEPT !.details = TRUE]
  /\ UNCHANGED <<server, shown, load, call, edits, faults>>

SaveForm(c) == Catalog /\ "form" \in ui.typed /\ Press(c, "extension", "save")
DeleteExtension(c) ==
  Catalog /\ shown.extension = "RETIRED" /\ Press(c, "extension", "remove")

Approve(c) == Card /\ "approve" \in CardButtons(shown) /\ Press(c, "card", "approve")
SetBilling(c, status) ==
  /\ Card /\ shown.bill # "FREE" /\ status # shown.bill /\ shown.place # "ACTIVE"
  /\ Press(c, "card", status)
Action(c, deed) == Card /\ deed \in CardButtons(shown) /\ Press(c, "card", deed)
ChangeEvidenceHold(c) ==
  Card /\ shown.place # "REQUESTED" /\ Press(c, "card", IF shown.held THEN "release" ELSE "hold")
(* upgrade: permissions and dependencies are reviewed first; the operator  *)
(* may decline.                                                            *)
Upgrade(c) ==
  /\ Card /\ "upgrade" \in CardButtons(shown) /\ Submit(c, "card", "upgrade", "review")
  /\ ui' = [ui EXCEPT !.busy = @ \cup {"card"}]
PilotFeedback(c) == Card /\ "feedback" \in CardButtons(shown) /\ Press(c, "card", "feedback")
(* The payment form is one form for the page: it is filled by a load, and  *)
(* saves whatever it holds.                                                *)
TypePayment ==
  /\ ui.tab = "installations" /\ ui' = [ui EXCEPT !.payment = "typed"]
  /\ UNCHANGED <<server, shown, load, call, edits, faults>>
SavePayment(c) ==
  ui.tab = "installations" /\ Press(c, "payment", ui.payment)
(* install: the dependencies are reviewed before the card is busy.         *)
ReviewInstall(c) ==
  Card /\ "install" \in CardButtons(shown) /\ Submit(c, "card", "install", "review") /\ UNCHANGED ui
Confirm(c) ==
  /\ call[c].at = "review" /\ call' = [call EXCEPT ![c].at = "asked"]
  /\ ui' = [ui EXCEPT !.busy = IF call[c].live THEN @ \cup {"card"} ELSE @]
  /\ UNCHANGED <<server, shown, load, edits, faults>>

OnDesk(c, deed) == Desk /\ Submit(c, "desk", deed, "asked") /\ UNCHANGED ui
DecidePublisher(c, deed) == deed \in PublisherButtons(shown) /\ OnDesk(c, deed)
SetMemberStatus(c) == OnDesk(c, "member")
SetSigningKey(c, deed) == deed \in KeyButtons(shown) /\ OnDesk(c, deed)
SetAlertStatus(c, deed) == deed \in AlertButtons(shown) /\ OnDesk(c, deed)
SaveKillSwitch(c) == OnDesk(c, IF shown.control THEN "lift" ELSE "isolate")
EditCollection(c) ==
  /\ ui.tab = "catalog" /\ shown # NoData
  /\ Submit(c, "desk", IF shown.collection = "PUBLISHED" THEN "archive" ELSE "publish", "asked")
  /\ UNCHANGED ui

(* The server answers; a lifecycle command answers with its job.           *)
Serve(c) ==
  /\ call[c].at = "asked"
  /\ IF Accepts(server, call[c].deed)
     THEN server' = Done(server, call[c].deed) /\ call' = [call EXCEPT ![c].at = "done"]
     ELSE call' = [call EXCEPT ![c].at = "refused"] /\ UNCHANGED server
  /\ UNCHANGED <<shown, load, ui, edits, faults>>
Dropped(c) ==
  /\ call' = [call EXCEPT ![c] = Idle]
  /\ ui' = [ui EXCEPT !.busy = IF call[c].live THEN @ \ {call[c].part} ELSE @]
  /\ UNCHANGED <<server, shown, load, edits, faults>>
Decline(c) == call[c].at = "review" /\ Dropped(c)
Reload(c) ==
  /\ \E l \in Load : BeginLoad(l, [call EXCEPT ![c].at = "reload", ![c].load = l])
  /\ UNCHANGED <<server, shown, edits, faults>>
Answered(c) ==
  \/ call[c].at = "refused" /\ Dropped(c)
  \/ call[c].at = "done" /\ call[c].deed = "preview" /\ Dropped(c)
  \/ /\ call[c].at = "done" /\ call[c].part = "payment" /\ call' = [call EXCEPT ![c] = Idle]
     /\ ui' = [ui EXCEPT !.payment = call[c].deed, !.busy = @ \ {"payment"}]
     /\ UNCHANGED <<server, shown, load, edits, faults>>
  \/ /\ call[c].at = "done" /\ call[c].part # "payment"
     /\ call[c].deed \notin Commands \cup {"preview"} /\ Reload(c)
  \/ /\ call[c].at = "done" /\ call[c].deed \in Commands
     /\ call' = [call EXCEPT ![c].at = "wait"] /\ UNCHANGED <<server, shown, load, ui, edits, faults>>
(* waitForLifecycleJob: the page is loaded again only after a success; a   *)
(* failure and the deadline of two minutes end the wait with an error.     *)
Waited(c) ==
  /\ call[c].at = "wait"
  /\ \/ server.job = [command |-> call[c].deed, status |-> "SUCCEEDED"] /\ Reload(c)
     \/ Dropped(c)

(* Workers and other operators.                                            *)
Validate ==
  /\ server.release \in Validating
  /\ \E r \in IF server.release = "QUARANTINED" THEN {"VALIDATING"} ELSE {"VALIDATED", "REJECTED"} :
       server' = [server EXCEPT !.release = r]
  /\ UNCHANGED <<shown, load, ui, call, edits, faults>>
RunJob ==
  /\ server.job.status \in Pending
  /\ IF server.job.status = "QUEUED"
     THEN server' = [server EXCEPT !.job.status = "RUNNING"]
     ELSE IF Accepts(server, server.job.command)
          THEN \E s \in {"SUCCEEDED", "FAILED"} : server' =
                 [IF s = "FAILED" THEN server ELSE Placed(server, server.job.command)
                    EXCEPT !.job.status = s]
          ELSE server' = [server EXCEPT !.job.status = "FAILED"]
  /\ UNCHANGED <<shown, load, ui, call, edits, faults>>
Elsewhere(d) ==
  /\ edits < Edits /\ edits' = edits + 1 /\ d \in Offered(server) /\ Accepts(server, d)
  /\ server' = Done(server, d) /\ UNCHANGED <<shown, load, ui, call, faults>>

CatalogClick ==
  /\ "catalog" \in Parts
  /\ \/ Expand \/ TypeNotes \/ TypeForm \/ AskForNotes \/ \E a \in {"ready", "blocked"} : Checklist(a)
     \/ \E c \in Call :
          \/ Upload(c) \/ Preview(c) \/ Appeal(c) \/ DeleteVersion(c) \/ SaveForm(c)
          \/ DeleteExtension(c) \/ EditCollection(c)
          \/ shown # NoData /\ \E to \in NextButtons(shown.release) : Transition(c, to)
CardClick ==
  /\ "installations" \in Parts
  /\ \/ TypePayment
     \/ \E c \in Call :
          \/ Approve(c) \/ ChangeEvidenceHold(c) \/ ReviewInstall(c) \/ Upgrade(c)
          \/ Confirm(c) \/ Decline(c) \/ PilotFeedback(c) \/ SavePayment(c)
          \/ \E d \in {"activate", "deactivate", "uninstall", "rollback"} : Action(c, d)
          \/ \E b \in {"PENDING", "ACTIVE"} : SetBilling(c, b)
          \/ \E f \in {"ALL", "REQUESTED"} : SetFilter(f)
DeskClick ==
  /\ "operations" \in Parts
  /\ \E c \in Call :
       \/ SetMemberStatus(c) \/ SaveKillSwitch(c)
       \/ shown # NoData /\ \/ \E d \in PublisherButtons(shown) : DecidePublisher(c, d)
                            \/ \E d \in KeyButtons(shown) : SetSigningKey(c, d)
                            \/ \E d \in AlertButtons(shown) : SetAlertStatus(c, d)
Arrival == \E l \in Load : Read(l) \/ Show(l) \/ Refused(l)
Machine == Validate \/ RunJob \/ \E c \in Call : Serve(c) \/ Answered(c) \/ Waited(c)
ConsoleNext ==
  \/ CatalogClick \/ CardClick \/ DeskClick \/ Arrival \/ Machine \/ PollRelease \/ PollJob
  \/ \E t \in Parts : OpenTab(t)
  \/ \E l \in Load : FailLoad(l)
  \/ \E d \in Offered(server) : Elsewhere(d)

(* Requests are answered, workers work, an interval fires, and an operator *)
(* who wants to know opens the card.                                       *)
ConsoleFairness ==
  /\ \A l \in Load : WF_consoleVars(Read(l)) /\ WF_consoleVars(Show(l) \/ Refused(l))
  /\ WF_consoleVars(Validate) /\ WF_consoleVars(RunJob)
  /\ WF_consoleVars(PollRelease) /\ WF_consoleVars(PollJob)
ConsoleSpec == ConsoleInit /\ [][ConsoleNext]_consoleVars /\ ConsoleFairness
-----------------------------------------------------------------------------
(* A button shown for a row as it is on the server is not refused for the  *)
(* state of that row (page.tsx:436-458, 1508-1621, 2365-2402 against the   *)
(* transitions and guards of the services).  Not among them: approving and *)
(* billing, and the key that signs at present.                             *)
OfferedIsAccepted ==
  shown = server => \A d \in Offered(shown) \ {"approve", "retire"} : Accepts(server, d)

(* The job of an installation that is shown as pending is shown ended in   *)
(* the end, whichever answers overtake each other, while its card is open  *)
(* (docs/extension-lifecycle-jobs.md:47).                                  *)
JobEndIsShown ==
  (Card /\ shown.job.status \in Pending) ~> (~Card \/ shown.job.status \notin Pending)

(* docs/stage-3-marketplace.md:357 "The platform UI polls while a package  *)
(* is quarantined or validating.": the verdict of a panel that is open is   *)
(* shown, unless the operator leaves the catalogue.                        *)
VerdictIsShown ==
  (ReleasePanel /\ shown.release \in Validating)
    ~> (ui.tab # "catalog" \/ (shown # NoData /\ shown.release \notin Validating))

(* docs/cursor-pagination.md:19-22: the platform catalogue and the queue   *)
(* of installations are shown to the operator.                             *)
ConsoleLoads == <>(shown # NoData)

(* Refuted: what was typed into the review form stays until it is sent.    *)
NotesAreKept == [][("notes" \in ui.typed /\ "notes" \notin ui'.typed)
  => \E c \in Call : call'[c].deed \in Decision]_consoleVars
(* Refuted: the payment settings are not overwritten with a form that was  *)
(* never filled.                                                           *)
BlankIsNotSaved == server.payment # "blank"
(* Refuted: a card has one command in flight.                              *)
OneCommandPerCard == \A c, d \in Call :
  (c # d /\ call[c].part = "card" /\ call[d].part = "card")
    => "idle" \in {call[c].at, call[d].at}
=============================================================================
