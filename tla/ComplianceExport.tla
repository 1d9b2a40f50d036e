--------------------------- MODULE ComplianceExport ---------------------------
(***************************************************************************)
(* User-data exports of ComplianceService                                  *)
(* (src/src/compliance/compliance.service.ts): POST                        *)
(* /compliance/export/user-data awaits the exporter, refuses PDF, awaits   *)
(* writeFile of the encrypted export and then arms a setTimeout that       *)
(* unlinks the file `days` days later; the controller tells the user the   *)
(* file expires in 7 days.                                                 *)
(*                                                                         *)
(* Files live on disk and survive a restart; the timers live in the        *)
(* process and do not.  Time is counted in whole days: a timer holds the   *)
(* days it still has to wait and a file its age, capped at the retention,  *)
(* so the state space is finite while the clock runs forever.  Each       *)
(* export gets its own file (the name carries Date.now()).                 *)
(***************************************************************************)
EXTENDS Integers, FiniteSets, TLC

CONSTANTS
  Requests,    \* concurrent export requests (model values)
  Formats,     \* ExportFormat values a request may ask for
  MaxExports,  \* bound on exports (and so on files)
  MaxCrashes,  \* bound on process restarts
  WriteFaults  \* may writeFile reject

ASSUME Formats \subseteq {"json", "csv", "pdf"} /\ WriteFaults \in BOOLEAN

FileIds == 1..MaxExports

\* setTimeout's delay is a signed 32-bit count of milliseconds: a delay
\* above 2^31 - 1 ms is replaced by 1 ms.  In whole seconds:
MaxTimeoutSeconds == 2147483

\* Mutant of ExportRetentionDays: a month's retention.
ExportRetentionDaysMonth == 30

\* scheduleFileDeletion(filePath, 7).
ExportRetentionDays == 7

\* deleteAt - Date.now() = days * 86400000 ms, as Node's timer runs it:
\* the days the timer waits.
TimerDelayDays(days) == IF days * 86400 > MaxTimeoutSeconds THEN 0 ELSE days

VARIABLES
  files,    \* export files on disk: file id -> age in days (capped)
  timers,   \* armed deletion timers: file id -> days left
  req,      \* the request in each slot
  nextFile, \* the next file id
  crashes   \* restarts so far

vars == <<files, timers, req, nextFile, crashes>>

NoReq == [pc |-> "idle", fmt |-> "json", file |-> 0]

-----------------------------------------------------------------------------
\* A user asks for an export: await userDataExporter.exportUserData.  The
\* export's file name (its Date.now()) is drawn here, one per export.
ExportStart(r) ==
  /\ req[r].pc = "idle" /\ nextFile <= MaxExports
  /\ \E fmt \in Formats :
       req' = [req EXCEPT ![r] = [pc |-> "e_gather", fmt |-> fmt, file |-> nextFile]]
  /\ nextFile' = nextFile + 1
  /\ UNCHANGED <<files, timers, crashes>>

\* The data is in: PDF throws before anything is written; otherwise the
\* content is encrypted and await writeFile starts.
ExportGather(r) ==
  /\ req[r].pc = "e_gather"
  /\ req' = [req EXCEPT ![r] = IF req[r].fmt = "pdf" THEN NoReq
                                ELSE [@ EXCEPT !.pc = "e_write"]]
  /\ UNCHANGED <<files, timers, nextFile, crashes>>

\* Mutant of ScheduleFileDeletion: exportUserData forgets to arm the timer.
ScheduleFileDeletionNone(f) == UNCHANGED timers

\* scheduleFileDeletion(filePath, ExportRetentionDays).
ScheduleFileDeletion(f) ==
  timers' = timers @@ (f :> TimerDelayDays(ExportRetentionDays))

\* writeFile resolves and the deletion timer is armed; or writeFile rejects,
\* possibly after creating the file, and exportUserData throws with no
\* timer armed.
ExportWrite(r) ==
  /\ req[r].pc = "e_write"
  /\ LET f == req[r].file IN
       \/ /\ files' = files @@ (f :> 0)
          /\ ScheduleFileDeletion(f)
       \/ /\ WriteFaults /\ UNCHANGED timers
          /\ files' \in {files, files @@ (f :> 0)}
  /\ req' = [req EXCEPT ![r] = NoReq]
  /\ UNCHANGED <<nextFile, crashes>>

\* The timer of file f is due: await unlink(filePath); an unlink that
\* fails (the file is already gone) is only logged.
TimerFires(f) ==
  /\ f \in DOMAIN timers /\ timers[f] = 0
  /\ timers' = [x \in DOMAIN timers \ {f} |-> timers[x]]
  /\ files' = [x \in DOMAIN files \ {f} |-> files[x]]
  /\ UNCHANGED <<req, nextFile, crashes>>

\* A day passes: files age (up to the retention) and timers count down.
Tick ==
  /\ files' = [x \in DOMAIN files |->
                 IF files[x] < ExportRetentionDays THEN files[x] + 1 ELSE files[x]]
  /\ timers' = [x \in DOMAIN timers |-> IF timers[x] > 0 THEN timers[x] - 1 ELSE 0]
  /\ UNCHANGED <<req, nextFile, crashes>>

\* The process restarts: the export directory survives, the pending
\* timers and the requests in flight are lost; nothing rescans the
\* directory at startup (ensureExportDir only creates it).
Crash ==
  /\ crashes < MaxCrashes /\ crashes' = crashes + 1
  /\ timers' = <<>> /\ req' = [r \in Requests |-> NoReq]
  /\ UNCHANGED <<files, nextFile>>

Init ==
  /\ files = <<>> /\ timers = <<>>
  /\ req = [r \in Requests |-> NoReq] /\ nextFile = 1 /\ crashes = 0

Next ==
  \/ \E r \in Requests : ExportStart(r) \/ ExportGather(r) \/ ExportWrite(r)
  \/ \E f \in FileIds : TimerFires(f)
  \/ Tick \/ Crash

\* The exporter and the file system answer, the event loop runs every due
\* timer, and days go by.
Fairness ==
  /\ \A r \in Requests : WF_vars(ExportGather(r)) /\ WF_vars(ExportWrite(r))
  /\ \A f \in FileIds : WF_vars(TimerFires(f))
  /\ WF_vars(Tick)

Spec == Init /\ [][Next]_vars /\ Fairness

-----------------------------------------------------------------------------
\* The controller answers `expiresIn: '7 days'`: an export file is only ever
\* removed once it is at least the retention period old, never earlier.
KeptForRetention ==
  [][\A f \in DOMAIN files :
       f \notin DOMAIN files' => files[f] >= ExportRetentionDays]_vars

\* Every export file written to the export directory is eventually deleted
\* by its scheduleFileDeletion timer.
ExportEventuallyDeleted ==
  \A f \in FileIds : (f \in DOMAIN files) ~> (f \notin DOMAIN files)

\* What exportUserData does promise across a restart: an export file the
\* first process life wrote is eventually deleted by its timer, unless the
\* process restarts first (the restart drops the in-memory timer and nothing
\* re-arms it).
ExportDeletedUnlessRestart ==
  \A f \in FileIds :
    (f \in DOMAIN files /\ crashes = 0) ~> (f \notin DOMAIN files \/ crashes > 0)
====
