-------------------------- MODULE ComplianceReports --------------------------
(***************************************************************************)
(* The monthly compliance report of ComplianceService                      *)
(* (src/src/compliance/compliance.service.ts), composed with the user-data *)
(* exports of ComplianceExport in the one process they share.  On the      *)
(* first of every month at midnight the cron computes last month,          *)
(* awaits FinancialReportGenerator.generateMonthlyComplianceReport, whose  *)
(* trade reports read the trades created Between(startDate, endDate) of    *)
(* that month (AuditTrailExporterService the audit logs of it), and      *)
(* awaits writeFile of compliance_report_YYYY_MM.json.                     *)
(* Any failure is caught and logged; nothing retries a month.              *)
(*                                                                         *)
(* Dates are modelled by what the JavaScript Date constructor does with    *)
(* them: months carry into years, day 0 is the last day of the month      *)
(* before, and the Gregorian leap years give February its length.  A row  *)
(* (a trade or an audit log) is an instant and a status; the report is the *)
(* set of rows each of its queries counted, the sums, rates and breakdowns *)
(* being arithmetic over that set.                                          *)
(***************************************************************************)
EXTENDS ComplianceExport

CONSTANTS
  StartYear,   \* the year of the clock's first month
  StartMonth,  \* its Date month (0 = January)
  MaxMonths,   \* months the clock may advance
  MaxRows,     \* bound on trades and audit logs created
  LateTimes    \* ms after midnight a trade on a month's last day may carry

ASSUME StartMonth \in 0..11 /\ MaxMonths \in Nat /\ MaxRows \in Nat
       /\ LateTimes \subseteq 0..86399999

-----------------------------------------------------------------------------
(* The Date arithmetic                                                     *)

IsLeap(y) == (y % 4 = 0 /\ y % 100 # 0) \/ y % 400 = 0

\* Days in Date month m (0 = January) of year y.
DaysIn(y, m) ==
  CASE m = 1                -> IF IsLeap(y) THEN 29 ELSE 28
    [] m \in {3, 5, 8, 10}  -> 30
    [] OTHER                -> 31

\* new Date(y, m): a month outside 0..11 carries into the year.
NormYM(y, m) == <<y + m \div 12, m % 12>>

\* new Date(y, m, d, ...) at ms after midnight, for d in 0..28 or a day of
\* the month: day 0 is the last day of the month before.
MkDate(y, m, d, ms) ==
  LET ym == NormYM(y, m)
      pm == NormYM(ym[1], ym[2] - 1)
  IN  IF d = 0 THEN [y |-> pm[1], m |-> pm[2], d |-> DaysIn(pm[1], pm[2]), ms |-> ms]
      ELSE [y |-> ym[1], m |-> ym[2], d |-> d, ms |-> ms]

\* Date comparison, day first, then the time of day.
DayNum(t) == (t.y * 12 + t.m) * 32 + t.d
NotAfter(a, b) == DayNum(a) < DayNum(b) \/ (DayNum(a) = DayNum(b) /\ a.ms <= b.ms)

\* typeorm Between(a, b): a <= createdAt <= b.
Between(t, a, b) == NotAfter(a, t) /\ NotAfter(t, b)

\* The clock's k-th month, as <<year, Date month>>.
MonthAt(k) == NormYM(StartYear, StartMonth + k)

\* Mutant of LastMonth: the month is decremented without carrying into
\* the year.
LastMonthNoCarry(ym) == <<ym[1], ym[2] - 1>>

\* new Date(now.getFullYear(), now.getMonth() - 1).
LastMonth(ym) == NormYM(ym[1], ym[2] - 1)

\* Mutant of ReportWindow: the end is midnight of the next month's first day.
ReportWindowNextMidnight(year, month) ==
  <<MkDate(year, month - 1, 1, 0), MkDate(year, month, 1, 0)>>

\* generateMonthlyComplianceReport(year, month), month 1..12: startDate
\* new Date(year, month - 1, 1), endDate new Date(year, month, 0, 23, 59, 59).
ReportWindow(year, month) ==
  <<MkDate(year, month - 1, 1, 0), MkDate(year, month, 0, 86399000)>>

VARIABLES
  month,    \* the clock: index k of MonthAt(k)
  rows,     \* trades and audit_logs rows: id -> [kind, at, flag]
  cron,     \* the generateMonthlyReports run in flight
  reports   \* report files: <<year, month 1..12>> -> Rep

rvars == <<month, rows, cron, reports>>
svars == <<files, timers, req, nextFile, crashes, month, rows, cron, reports>>

\* The rows each query of the report counted.
NoRep  == [volume |-> {}, closed |-> {}, events |-> {}, failed |-> {}]
NoCron == [pc |-> "idle", y |-> 0, mo |-> 0, rep |-> NoRep]

RowsIn(k, a, b) == {i \in DOMAIN rows : rows[i].kind = k /\ Between(rows[i].at, a, b)}

\* generateTradeVolumeReport counts the trades created in the window;
\* generateFinancialSummary those of them that are closed (flag).
VolumeReport(a, b) == RowsIn("trade", a, b)
FinancialSummary(a, b) == {i \in VolumeReport(a, b) : rows[i].flag}

\* generateAuditReport counts the audit logs of the window, and those
\* whose status is FAILURE (flag).
AuditReport(a, b) ==
  [events |-> RowsIn("audit", a, b),
   failed |-> {i \in RowsIn("audit", a, b) : rows[i].flag}]

-----------------------------------------------------------------------------
(* Operations                                                              *)

\* Instants of month k a row may be created at: the first midnight and
\* times on the last day.
TradeInstants(k) ==
  LET ym == MonthAt(k) IN
  {MkDate(ym[1], ym[2], 1, 0)}
    \cup {MkDate(ym[1], ym[2], DaysIn(ym[1], ym[2]), t) : t \in LateTimes}

\* The rest of the platform records a trade (open) or an audit log (with
\* its status) now, and closes a trade later.
RecordRow ==
  /\ Cardinality(DOMAIN rows) < MaxRows
  /\ \E t \in TradeInstants(month), r \in {[kind |-> "trade", flag |-> FALSE],
                                          [kind |-> "audit", flag |-> FALSE],
                                          [kind |-> "audit", flag |-> TRUE]} :
       rows' = rows @@ (Cardinality(DOMAIN rows) + 1 :> [kind |-> r.kind, at |-> t, flag |-> r.flag])
  /\ UNCHANGED <<month, cron, reports>> /\ UNCHANGED vars

TradeClose(i) ==
  /\ i \in DOMAIN rows /\ rows[i].kind = "trade" /\ ~rows[i].flag
  /\ rows' = [rows EXCEPT ![i].flag = TRUE]
  /\ UNCHANGED <<month, cron, reports>> /\ UNCHANGED vars

\* Midnight of the first: the clock enters the next month and the
\* EVERY_1ST_DAY_OF_MONTH_AT_MIDNIGHT cron computes last month (the run of
\* the month before has finished by then).
MonthStart ==
  /\ month < MaxMonths /\ cron.pc = "idle"
  /\ month' = month + 1
  /\ LET lm == LastMonth(MonthAt(month + 1)) IN
       cron' = [NoCron EXCEPT !.pc = "gen", !.y = lm[1], !.mo = lm[2] + 1]
  /\ UNCHANGED <<rows, reports>> /\ UNCHANGED vars

\* await generateMonthlyComplianceReport(y, mo): Promise.all of the trade
\* and audit reports over the window.
CronGenerate ==
  /\ cron.pc = "gen"
  /\ LET w == ReportWindow(cron.y, cron.mo)
         au == AuditReport(w[1], w[2])
     IN  cron' = [cron EXCEPT !.pc = "write",
                   !.rep = [volume |-> VolumeReport(w[1], w[2]),
                            closed |-> FinancialSummary(w[1], w[2]),
                            events |-> au.events, failed |-> au.failed]]
  /\ UNCHANGED <<month, rows, reports>> /\ UNCHANGED vars

\* await writeFile(compliance_report_YYYY_MM.json) replaces any file of
\* that name; a rejection is caught and logged.
CronWrite ==
  /\ cron.pc = "write"
  /\ \/ reports' = (<<cron.y, cron.mo>> :> cron.rep) @@ reports
     \/ WriteFaults /\ UNCHANGED reports
  /\ cron' = NoCron
  /\ UNCHANGED <<month, rows>> /\ UNCHANGED vars

\* A restart stops the exports and the report run in flight alike.
ServiceCrash == Crash /\ cron' = NoCron /\ UNCHANGED <<month, rows, reports>>

ServiceInit == Init /\ month = 0 /\ rows = <<>> /\ cron = NoCron /\ reports = <<>>

ServiceNext ==
  \/ (Next /\ ~Crash) /\ UNCHANGED rvars
  \/ ServiceCrash
  \/ RecordRow \/ \E i \in 1..MaxRows : TradeClose(i)
  \/ MonthStart \/ CronGenerate \/ CronWrite

\* The exports' fairness over the composed steps, taken for the requests
\* together and the timers together (weaker than per request: one request's
\* steps never disable another's, and every one of them ends it), and the
\* report run, once started, goes on.
ServiceFairness ==
  /\ WF_svars(\E r \in Requests : (ExportGather(r) \/ ExportWrite(r)) /\ UNCHANGED rvars)
  /\ WF_svars(\E f \in FileIds : TimerFires(f) /\ UNCHANGED rvars)
  /\ WF_svars(Tick /\ UNCHANGED rvars)
  /\ WF_svars(CronGenerate) /\ WF_svars(CronWrite)

ServiceSpec == ServiceInit /\ [][ServiceNext]_svars /\ ServiceFairness

-----------------------------------------------------------------------------
(* Properties                                                              *)

MonthOf(t) == <<t.y, t.m + 1>>

\* A compliance_report_YYYY_MM.json file only counts rows created in the
\* calendar month its name gives: generateMonthlyReports' last month, the
\* generator's Date windows and the typeorm Between agree, across a year
\* end and a leap February.
ReportHoldsItsMonth ==
  \A f \in DOMAIN reports :
    \A i \in UNION {reports[f][q] : q \in DOMAIN NoRep} : MonthOf(rows[i].at) = f

\* The report file the cron of month k must leave: the clock's previous
\* month, named by its year and 1-based month.
ReportFileOf(k) == <<MonthAt(k - 1)[1], MonthAt(k - 1)[2] + 1>>

\* Once the clock enters a month, the report of the month before is
\* eventually on disk under that month's name (the cron awaits the
\* generator and writeFile), unless the process restarts first: the cron
\* fires only at midnight and nothing catches a missed run up.
MonthlyReportWritten ==
  \A k \in 1..MaxMonths :
    (month = k /\ crashes = 0) ~> (ReportFileOf(k) \in DOMAIN reports \/ crashes > 0)

\* A monthly report counts every trade and every audit log created in its
\* month: the rows of a month are all recorded before its report is
\* generated.
ReportCountsWholeMonth ==
  \A f \in DOMAIN reports, i \in DOMAIN rows :
    MonthOf(rows[i].at) = f => i \in reports[f].volume \cup reports[f].events
=============================================================================
