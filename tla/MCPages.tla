------------------------------- MODULE MCPages -------------------------------
(* The pages of the frontend, small instances in one state graph: the      *)
(* operator's console of extensions (Console), the editors of a school's   *)
(* website (Website), the session of a browser (BrowserSession) and the    *)
(* operator's page of one school (SchoolDesk).  area says which of them a  *)
(* behaviour is of; the others stay in one of their initial states.        *)
(* The configuration gives the constants their values.                     *)
EXTENDS Integers, TLC

CONSTANTS
  Fetch, Call, NoData,                    \* Catalog, Operations
  Picture, Post, Slides, Writes, Errors,  \* Looks, Posts
  Request, Tokens, Visits, Enrolment,     \* Staff, Operator
  Dom, Orders, Misses                     \* School

(* The refreshes of requests are none of the guard's and of its timer's.   *)
ASSUME PagesAssumption == {"guard", "timer"} \cap Request = {}

VARIABLES area,
          server, shown, load, ui, call, presses, losses,
          site, page, upload, save, post, desk, request, editor, work, misses,
          live, issued, jar, tab, cache, me, flight, req, wizard, account, why, visits, drops,
          school, domains, panel, asks, edits, faults

(* One release through its life; the operations view and its lists.        *)
Catalog == INSTANCE Console WITH
  edits <- presses, faults <- losses, Load <- Fetch, Parts <- {"catalog"},
  HistoryAnswers <- TRUE, Starts <- {"ACTIVE"}, Edits <- 3, Faults <- 0,
  Releases <- {"UPLOADED", "PUBLISHED", "QUARANTINED", "AWAITING_REVIEW", "APPROVED"}
Operations == INSTANCE Console WITH
  edits <- presses, faults <- losses, Load <- Fetch, Parts <- {"operations"},
  HistoryAnswers <- TRUE, Starts <- {"ACTIVE"}, Edits <- 4, Faults <- 0,
  Releases <- {"PUBLISHED"}

(* One upload at a time and two slides; one post that two people edit.     *)
Looks == INSTANCE Website WITH
  call <- request, Upload <- Picture, Edits <- Writes, Faults <- Errors, Deeds <- {"settings"}
Posts == INSTANCE Website WITH
  call <- request, Upload <- Picture, Edits <- Writes, Faults <- Errors, Deeds <- {"posts"}

(* An administrator of a school with two requests in flight; a platform    *)
(* administrator who enrols for multi-factor authentication.               *)
Staff == INSTANCE BrowserSession WITH
  page <- tab, misses <- drops, Host <- "school", Role <- "ADMIN", Faults <- Errors
Operator == INSTANCE BrowserSession WITH
  page <- tab, misses <- drops, Host <- "platform", Role <- "PLATFORM_ADMIN",
  Request <- Enrolment, Faults <- Errors

School == INSTANCE SchoolDesk WITH
  desk <- panel, misses <- faults, Edits <- Orders, Faults <- Misses

consoleVars == <<server, shown, load, ui, call, presses, losses>>
webVars == <<site, page, upload, save, post, desk, request, editor, work, misses>>
tabVars == <<live, issued, jar, tab, cache, me, flight, req, wizard, account, why, visits, drops>>
deskVars == <<school, domains, panel, asks, edits, faults>>

MCInit ==
  /\ area \in {"catalog", "operations", "looks", "posts", "staff", "operator", "school"}
  /\ IF area = "catalog" THEN Catalog!ConsoleInit
     ELSE Operations!ConsoleInit /\ load[CHOOSE l \in Fetch : TRUE] # Operations!NoLoad
  /\ IF area = "posts" THEN Posts!WebsiteInit ELSE Looks!WebsiteInit
  /\ IF area = "operator" THEN Operator!TabInit ELSE Staff!TabInit
  /\ School!DeskInit

MCNext ==
  /\ \/ /\ \/ area = "catalog" /\ Catalog!ConsoleNext
           \/ area = "operations" /\ Operations!ConsoleNext
        /\ UNCHANGED <<webVars, tabVars, deskVars>>
     \/ /\ \/ area = "looks" /\ Looks!WebsiteNext
           \/ area = "posts" /\ Posts!WebsiteNext
        /\ UNCHANGED <<consoleVars, tabVars, deskVars>>
     \/ /\ \/ area = "staff" /\ Staff!TabNext
           \/ area = "operator" /\ Operator!TabNext
        /\ UNCHANGED <<consoleVars, webVars, deskVars>>
     \/ area = "school" /\ School!DeskNext
           /\ UNCHANGED <<consoleVars, webVars, tabVars>>
  /\ UNCHANGED area

MCSpec == MCInit /\ [][MCNext]_<<area, consoleVars, webVars, tabVars, deskVars>>

(* What an operator is shown is so: a button is not refused for the state  *)
(* of its row, and the password that the page shows is the one that works. *)
OperatorsAreTold ==
  /\ area = "catalog" => Catalog!OfferedIsAccepted
  /\ area = "operations" => Operations!OfferedIsAccepted
  /\ School!ShownPasswordWorks
(* What the editors call saved is stored, and editing a post never empties *)
(* the body that it has.                                                   *)
EditorsKeep == []Looks!SavedIsStored /\ Posts!BodyIsKept
(* Requests that refresh at once do not end each other's session.          *)
NobodyIsExpelled == Staff!NobodyIsExpelled
=============================================================================
