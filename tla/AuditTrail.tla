------------------------------ MODULE AuditTrail -------------------------------
(***************************************************************************)
(* The audit log of the schools after it is written: who reads it by which *)
(* route, the schedules that clean it up, legal holds, and the daily usage *)
(* figures that are made of it and must outlive it (backend/src/audit,     *)
(* backend/src/school-metrics).                                            *)
(***************************************************************************)
EXTENDS Integers, FiniteSets, Sequences, SequencesExt, FiniteSetsExt, TLC

CONSTANTS
  School,
  MinRetention,  \* MIN_RETENTION_DAYS
  LastDay,       \* bound on the time, in days
  Rows,          \* bound: rows written
  Edits          \* bound: schedules, holds, recomputations and reads

VARIABLES
  today,
  log,       \* the table AuditLog
  written,   \* history: the rows ever written
  schedule,  \* schedule[s]: its cleanup schedule
  hold,      \* schools whose audit log is under a legal hold
  sweep,     \* the cleanup that runs
  metric,    \* SchoolDailyMetric, one row for a school and a day
  rollup,    \* the rollup that runs
  view,      \* the last answer to a reader
  edits

auditVars == <<today, log, written, schedule, hold, sweep, metric, rollup, view, edits>>

NoSchedule == [state |-> "none", retain |-> MinRetention, last |-> -1]
NoSweep == [left |-> {}, school |-> {}]
NoRollup == [day |-> -1, by |-> "cron", left |-> {}, school |-> {}, rows |-> {}]
NoView == [asked |-> <<>>, served |-> <<>>, rows |-> {}]
NoMetric == [by |-> "none", requests |-> 0, errors |-> 0]
Retentions == {MinRetention, MinRetention + 1}

AuditTypeOK ==
  /\ today \in 0..LastDay /\ log \subseteq written /\ Cardinality(written) <= Rows
  /\ schedule \in [School -> [state : {"none", "on", "off"}, retain : Retentions, last : -1..LastDay]]
  /\ hold \subseteq School /\ sweep.left \subseteq (School \X Retentions) /\ rollup.left \subseteq School
  /\ metric \in [School \X (0..LastDay) -> [by : {"none", "cron", "hand"}, requests : 0..Rows, errors : 0..Rows]]
  /\ edits \in 0..Edits

AuditInit ==
  /\ today = 0 /\ log = {} /\ written = {}
  /\ schedule = [s \in School |-> NoSchedule] /\ hold = {}
  /\ sweep = NoSweep /\ rollup = NoRollup /\ view = NoView
  /\ metric = [x \in School \X (0..LastDay) |-> NoMetric] /\ edits = 0

Edit == edits < Edits /\ edits' = edits + 1
-----------------------------------------------------------------------------
(* AuditService.log. A transaction lasts 30 s and the rollup comes five    *)
(* minutes after midnight, so that a row is there on the day it bears.     *)
Log(s, ok) ==
  LET row == [id |-> Cardinality(written), school |-> s, day |-> today, ok |-> ok]
  IN  /\ row.id < Rows
      /\ log' = log \cup {row} /\ written' = written \cup {row}
      /\ UNCHANGED <<today, schedule, hold, sweep, metric, rollup, view, edits>>
(* A rollup ends on the day it began.                                      *)
NextDay ==
  /\ today < LastDay /\ rollup = NoRollup /\ today' = today + 1
  /\ UNCHANGED <<log, written, schedule, hold, sweep, metric, rollup, view, edits>>
SetHold(s, on) ==
  /\ Edit /\ hold' = IF on THEN hold \cup {s} ELSE hold \ {s}
  /\ UNCHANGED <<today, log, written, schedule, sweep, metric, rollup, view>>
-----------------------------------------------------------------------------
Sets(s, new) ==
  /\ schedule' = [schedule EXCEPT ![s] = new]
  /\ UNCHANGED <<today, log, written, hold, metric, rollup, view>>
CreateCleanupSchedule(s, retain, on) ==
  /\ Edit /\ schedule[s].state = "none" /\ retain >= MinRetention
  /\ Sets(s, [state |-> IF on THEN "on" ELSE "off", retain |-> retain, last |-> -1])
  /\ UNCHANGED sweep
ToggleCleanupSchedule(s) ==
  /\ Edit /\ schedule[s].state # "none"
  /\ Sets(s, [schedule[s] EXCEPT !.state = IF @ = "on" THEN "off" ELSE "on"])
  /\ UNCHANGED sweep
DeleteCleanupSchedule(s) ==
  /\ Edit /\ schedule[s].state # "none" /\ Sets(s, NoSchedule) /\ UNCHANGED sweep

(* isDue: here the schedules are daily.                                    *)
IsDue(s) == schedule[s].last < today
(* runScheduledCleanup: the schedules are read once, then each school's    *)
(* hold is looked up and its old rows are deleted.                         *)
RunScheduledCleanup ==
  /\ sweep = NoSweep
  /\ LET due == {s \in School : schedule[s].state = "on" /\ IsDue(s)}
     IN  due # {} /\ sweep' = [left |-> {<<s, schedule[s].retain>> : s \in due}, school |-> {}]
  /\ UNCHANGED <<today, log, written, schedule, hold, metric, rollup, view, edits>>
RunCleanupNow(s) ==
  /\ Edit /\ sweep = NoSweep /\ schedule[s].state # "none"
  /\ sweep' = [left |-> {<<s, schedule[s].retain>>}, school |-> {}]
  /\ UNCHANGED <<today, log, written, schedule, hold, metric, rollup, view>>
FindHold(s) ==
  /\ sweep.school = {}
  /\ \E x \in sweep.left :
       /\ x[1] = s
       /\ sweep' = [left |-> sweep.left \ {x}, school |-> IF s \in hold THEN {} ELSE {x}]
  /\ UNCHANGED <<today, log, written, schedule, hold, metric, rollup, view, edits>>
Expired(s, retain) == {r \in log : r.school = s /\ r.day < today - Max({retain, MinRetention})}
DeleteExpired(s) ==
  /\ \E x \in sweep.school : x[1] = s /\ log' = log \ Expired(s, x[2])
  /\ sweep' = [sweep EXCEPT !.school = {}]
  /\ schedule' = IF schedule[s].state = "none" THEN schedule ELSE [schedule EXCEPT ![s].last = today]
  /\ UNCHANGED <<today, written, hold, metric, rollup, view, edits>>
-----------------------------------------------------------------------------
Ran(by, d) ==
  /\ rollup = NoRollup /\ d \in 0..today
  /\ rollup' = [NoRollup EXCEPT !.day = d, !.by = by, !.left = School]
  /\ UNCHANGED <<today, log, written, schedule, hold, sweep, metric, view>>
(* Faulty variant: the day that has just begun.                            *)
RollUpToday == Ran("cron", today) /\ UNCHANGED edits
(* runDailyRollup: yesterday; recompute: the day that is asked for.        *)
RunDailyRollup == Ran("cron", today - 1) /\ UNCHANGED edits
Recompute(d) == Edit /\ Ran("hand", d)

(* computeOneSchool: rows of one school and one day, then the upsert. An   *)
(* error leaves the school out.                                            *)
ReadDay(s) ==
  /\ s \in rollup.left /\ rollup.school = {}
  /\ rollup' = [rollup EXCEPT !.left = @ \ {s}, !.school = {s},
                              !.rows = {r \in log : r.school = s /\ r.day = rollup.day}]
  /\ UNCHANGED <<today, log, written, schedule, hold, sweep, metric, view, edits>>
Rolled == IF rollup.left = {} THEN NoRollup ELSE [rollup EXCEPT !.school = {}, !.rows = {}]
UpsertMetric(s) ==
  /\ s \in rollup.school /\ rollup' = Rolled
  /\ metric' = [metric EXCEPT ![<<s, rollup.day>>] =
       [by |-> rollup.by, requests |-> Cardinality(rollup.rows),
        errors |-> Cardinality({r \in rollup.rows : ~ r.ok})]]
  /\ UNCHANGED <<today, log, written, schedule, hold, sweep, view, edits>>
SkipSchool(s) ==
  /\ s \in rollup.school /\ rollup' = Rolled
  /\ UNCHANGED <<today, log, written, schedule, hold, sweep, metric, view, edits>>
-----------------------------------------------------------------------------
(* The routes of AuditController in the order of their declaration, which  *)
(* is the order in which the router tries them.                            *)
Routes ==
  << <<"logs">>, <<"logs", ":id">>, <<"logs", "facets">>, <<"logs", "export.csv">>,
     <<"logs", "stats">>, <<"portal-activity">>, <<"cleanup-schedules">> >>
Matches(route, path) ==
  /\ Len(route) = Len(path)
  /\ \A i \in 1..Len(path) : route[i] \in {path[i], ":id"}
Serves(path) == SelectInSeq(Routes, LAMBDA route : Matches(route, path))

(* buildWhere: what a filter leaves of the rows the school may see.        *)
Where(s, since, failed) ==
  {r \in log : r.school = s /\ r.day >= since /\ (failed => ~ r.ok)}
Newest(rows, n) == {r \in rows : Cardinality({q \in rows : q.id > r.id}) < n}
List(s) == Newest(Where(s, 0, FALSE), 1)
Facets(s) == Where(s, today - 30, FALSE)
ExportCsv(s, failed) == Newest(Where(s, 0, failed), 50000)
Stats(s) == [last |-> Where(s, today - 1, FALSE), failures |-> Where(s, today - 1, TRUE)]
PortalActivity(s) ==
  LET n == Cardinality(Stats(s).last)  f == Cardinality(Stats(s).failures)
  IN  IF n = 0 THEN "quiet" ELSE IF 10 * f >= n THEN "warning" ELSE "healthy"
GetOne(s, id) == {r \in Where(s, 0, FALSE) : ToString(r.id) = id}

Ask(s, path) ==
  LET route == Routes[Serves(path)]
  IN  /\ Edit /\ view' = [asked |-> path, served |-> route,
          rows |-> CASE route = <<"logs">> -> List(s)
                     [] route = <<"logs", ":id">> -> GetOne(s, path[2])
                     [] route = <<"logs", "facets">> -> Facets(s)
                     [] route = <<"logs", "export.csv">> -> ExportCsv(s, FALSE)
                     [] route = <<"logs", "stats">> -> Stats(s).last
                     [] route = <<"portal-activity">> -> IF PortalActivity(s) = "quiet" THEN {} ELSE Stats(s).last
                     [] OTHER -> {}]
      /\ UNCHANGED <<today, log, written, schedule, hold, sweep, metric, rollup>>

Reads ==
  \E s \in School : \/ \E i \in 1..Len(Routes) : i # 2 /\ Ask(s, Routes[i])
                    \/ \E r \in log : Ask(s, <<"logs", ToString(r.id)>>)
AuditNext ==
  \/ Reads \/ NextDay \/ RunScheduledCleanup \/ RunDailyRollup
  \/ \E d \in 0..LastDay : Recompute(d)
  \/ \E s \in School :
       \/ \E b \in BOOLEAN : Log(s, b) \/ SetHold(s, b)
       \/ \E n \in Retentions, b \in BOOLEAN : CreateCleanupSchedule(s, n, b)
       \/ ToggleCleanupSchedule(s) \/ DeleteCleanupSchedule(s) \/ RunCleanupNow(s)
       \/ FindHold(s) \/ DeleteExpired(s)
       \/ ReadDay(s) \/ UpsertMetric(s) \/ SkipSchool(s)
-----------------------------------------------------------------------------
(* The figures that the nightly rollup left for a school and a day are     *)
(* those of every request of that day, whatever has been cleaned up before *)
(* and since (school-metrics.service.ts:17-23).                            *)
NightlyIsExact ==
  \A s \in School, d \in 0..LastDay :
    metric[<<s, d>>].by = "cron" =>
      LET rows == {r \in written : r.school = s /\ r.day = d}
      IN  /\ metric[<<s, d>>].requests = Cardinality(rows)
          /\ metric[<<s, d>>].errors = Cardinality({r \in rows : ~ r.ok})

(* Refuted: the figures of a day, once final, persist "independently of    *)
(* that retention setting" (school-metrics.service.ts:22-23): the operator *)
(* recomputes a day whose rows are gone.                                   *)
FinalizedIsKept == [][\A s \in School, d \in 0..LastDay :
  metric[<<s, d>>].by = "cron" => metric'[<<s, d>>].requests >= metric[<<s, d>>].requests]_auditVars

(* What audit.controller.ts:83 says of GET audit/logs/facets: "Distinct    *)
(* values for filter dropdowns". The route of a single row, declared       *)
(* before it, takes the request.                                           *)
FacetsAreServed == view.asked = <<"logs", "facets">> => view.served = <<"logs", "facets">>
=============================================================================
