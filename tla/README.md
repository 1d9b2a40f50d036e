# TLA+ models of the StellarSwipe KYC lifecycle and contests

This directory holds TLA+ models of the KYC verification engine in
`src/src/kyc/` (lifecycle, guard and limit check, webhook authentication)
with its audit trail and lifecycle events, of contest finalization in
`src/src/contests/`, and of the user-data export and the monthly compliance report of
`src/src/compliance/`,
and the TLC runs that check them. Paths below are relative to
the repository's `src/` tree.

## 1. Inventory

### Components

| Component | Source | State it keeps | Operations |
|---|---|---|---|
| LifecycleEngine (`KycService`) | `src/kyc/kyc.service.ts` | rows of `kyc_verifications` (status, level, provider, inquiry id, expiresAt, attemptCount) | `startKyc`, `resumeKyc`, `processPersonaWebhook`, `processOnfidoWebhook`, `applyVerificationResult`, `manualReview`, `getActiveKycLevel`, `checkMonthlyLimit`, `expireVerifications` (midnight cron), `generateComplianceReport` |
| ProviderAdapter (`PersonaProvider`, `OnfidoProvider`) | `src/kyc/providers/onfido.provider.ts` (Onfido at lines 1-204, Persona at 205-450) | none locally; the inquiry or workflow run lives at the provider | create session, resume session, map raw status to canonical, HTTP with a 15 s timeout |
| WebhookVerifier | `verifyWebhookSignature` in both providers | none | HMAC-SHA256 check; Persona adds a 300 s replay window |
| LimitEnforcer | `checkMonthlyLimit`, `KycGuard` (`src/kyc/kyc.guard.ts`) | none (usage is a placeholder 0) | tier to limit lookup, limit check |
| AuditLogger | `audit()`, `kyc-audit-log.entity.ts` | `kyc_audit_logs` rows, append-only | best-effort insert; failures are swallowed |
| EventPublisher | `EventEmitter2`, `kyc-event.listener.ts` | none | synchronous emit; the listeners only log |
| Contests | `src/contests/contests.service.ts` | `contests` rows (status, winners) | create, leaderboard, `finalizeContest` |
| Compliance export and reports | `src/compliance/*`, the audit-trail exporter (`unnamed/part_008`) | export files and report files on disk, deletion timers, the monthly cron run | export, encrypt, schedule deletion; monthly report over the trade and audit-log queries |

### How they interact

NestJS runs every HTTP handler and the cron job on a single event loop. A
handler runs atomically between two `await`s, and concurrent requests
interleave at those points. All shared state is in the database: the
`KycService` instance has no mutable fields.

- `startKyc` reads the table three times (prerequisite, existing PENDING
  record, attempt count). It then saves a PENDING record, calls the provider,
  stores the inquiry id and audits. If anything fails after the save, it
  deletes the record.
- Webhooks find their record by inquiry id and overwrite its status. Neither
  the status nor a version is checked.
- `manualReview` overwrites the status by id.
- The sweep reads every APPROVED record with `expiresAt < now`, then updates
  each one by id in a loop with three awaits per record.
- `getActiveKycLevel` recomputes freshness on every read. `KycGuard` and
  `checkMonthlyLimit` read it; the sweep only moves the stored status later.

### What is hard

- Interleaving at the awaits:
  - the create race in `startKyc`;
  - webhook redeliveries that race each other;
  - the sweep racing a webhook or a review.
- Ordering: providers over-deliver and may deliver out of order.
- Partial failure:
  - the provider session created but the local update failed;
  - the rollback delete failing;
  - one sweep update throwing.
- Restarts: the only cleanup is in-process.
- Time: expiry is checked in three places with different comparisons:
  - the sweep uses `<`;
  - `getActiveKycLevel` uses `>`;
  - the ENHANCED prerequisite does not check expiry at all.

### What makes each component correct

- **LifecycleEngine**
  - There is at most one live provider session per (user, level).
  - No orphan PENDING records are left behind.
  - Status changes follow the state machine of spec 4.1.
  - Webhook application is idempotent.
  - Every provider session has a record its webhooks can find.
  - Every approval carries an expiry.
  - An approval grants its level at once.
  - Every stale approval is eventually expired.
  - The sweep expires only stale records and finishes its batch.
- **ProviderAdapter**
  - Each raw status maps to the intended canonical outcome.
  - A resume goes to the provider that owns the inquiry.
- **WebhookVerifier**
  - A delivery is accepted only if its HMAC matches and its timestamp is within 300 s.
- **LimitEnforcer**
  - A request is allowed only if usage plus the amount stays within the limit of the active level.
  - A level route runs only while its user still holds that level.
- **AuditLogger and EventPublisher**
  - Every status a record holds is explained by an audit row (when audit
    saves succeed).
  - Every approval in the table has had its APPROVED event; every sweep
    expiry has its EXPIRED event (both lost to a restart, section 5).
  - An APPROVED event names a record that is APPROVED, and is sent once.
- **Compliance export and reports**
  - An export file is kept for the 7 days the controller announces, then
    deleted.
  - Every month gets its report, named for that month, counting exactly the
    trades and audit logs of that month.
- **Contests**
  - A contest is finalized once.
  - Prizes never exceed the pool.
  - Tied providers share a rank and split the prize equally (the contest
    docs).

## 2. Modules at a glance

| Module | Models | Composes |
|---|---|---|
| `ProviderAdapter` | raw-to-canonical status tables, resume provider | none |
| `KycLifecycle` (+ `MC_KycLifecycle`) | `KycService` handlers and the sweep, one action per await | `ProviderAdapter`; refines `KycRecords` |
| `KycRecords` | the record contract of spec section 3, every operation atomic | none (abstract) |
| `KycGuard` (+ `MC_KycGuard`) | `KycGuard.canActivate` and `checkMonthlyLimit` | extends `KycLifecycle` |
| `WebhookVerifier` (+ `MC_WebhookVerifier`) | both `verifyWebhookSignature`s and the controllers' raw body | none |
| `KycEvents` (+ `MC_KycEvents`) | the `kyc_audit_logs` rows and the emitted events of every audited step | extends `KycLifecycle` |
| `ContestFinalize` (+ `MC_ContestFinalize`) | `finalizeContest`, scoring, ranking and the prize split | none |
| `ComplianceExport` (+ `MC_ComplianceExport`) | `exportUserData`, the deletion timer, restarts | none |
| `ComplianceReports` (+ `MC_ComplianceReports`) | the monthly cron, the generator's Date windows, the trade and audit-trail queries, the report file | extends `ComplianceExport`; shares its restart and write faults |

## 3. Modules

### `ProviderAdapter.tla`

This module holds the raw-to-canonical status tables of both providers
(`mapInquiryToResult`, `mapWorkflowRunToResult`), the fallback to `pending`,
and `ResumeProvider`. `ResumeProvider` is the provider that `resumeKyc`
actually calls, and it is always Persona.

### `KycLifecycle.tla`

- **State**
  - `db` is the table: record id to record. Only the fields that a read or a
    property uses are kept.
  - `sessions` is the provider side: record id to provider, one inquiry per
    record that got one.
  - `req` is the request in each slot of `Procs`: a program counter naming its
    pending await, plus its locals.
  - `sweep` is the cron job: its program counter, the batch it read, and the
    record it is on.
  - `now` and `lastSweep` are days.
- **Actions**
  - Every await is one action:
    - `startKyc`: `CheckPrerequisite`, `FindPending`, `CountAttempts`,
      `SaveRecord`, `CreateSession`, `StoreSession`, `AuditInitiated`,
      `DeleteRecord`;
    - `resumeKyc`: `ResumeCall`, `ResumeUpdate`;
    - the Persona webhook: `PersonaAudit`, then `PersonaFind`;
    - the Onfido webhook: `OnfidoFind`, then `OnfidoAudit`;
    - `applyVerificationResult`: `ApplyUpdate`, `ApplyAudit`;
    - `manualReview`: `ReviewFind`, `ReviewUpdate`, `ReviewAudit`;
    - the sweep: `SweepFind`, `SweepUpdate`, `SweepAudit`.
  - `StartKyc`, `ReceiveWebhook` and `ManualReview` take their inputs with `\E`
    and include the early returns that happen before any await: level NONE,
    and a bad signature or payload.
  - Provider calls and, when `DbFaults` is set, repository writes may fail. A
    failure takes the code's error path (catch and delete, or rethrow).
  - A provider call may also fail after the provider created the session
    (`SessionCreatedCallFailed`): Onfido's `createApplicantSession` fails at
    `POST /sdk_token` after `POST /workflow_runs` started the run, or the
    15 s `AbortSignal.timeout` of `request()` fires after the provider acted.
    The record is deleted and the provider session lives on and sends
    webhooks, which `findOne` drops: `ProviderSessionsLinked` is violated
    (`MC_OrphanSession.cfg`, section 5).
- **Environment**
  - `Tick` advances the clock by one day.
  - `Crash` is a process restart: every in-flight handler stops, and the
    tables and provider sessions survive.
  - `Quiescent` is the stutter step at the end of the bounded clock, so a
    deadlock check still catches a request that is stuck in flight.
- **Abstracted data**
  - `sessionToken`, `rejectionReason`, `providerMetadata` and
    `verificationId` are not kept, since nothing reads them. Their writes are
    still steps.
  - The audit rows and the emitted events are kept by `KycEvents`. Here the
    audit call is a step, so other requests can interleave at it.
  - `approvedAt` is always `expiresAt - TTL`.
  - Time is counted in days, with `TTL` days of validity.

### `KycRecords.tla` and the refinement

`KycRecords` is the record contract of spec section 3, with every operation
atomic. Its actions are:

- `Open`: a new PENDING record without an inquiry or an expiry, at an unused id;
- `Attach`: the inquiry id, stored once;
- `Approve`: sets `expiresAt` to `clock + TTL`;
- `SetStatus`: any other status, touching nothing else;
- `Rollback`: deletes a PENDING record without an inquiry;
- `Tick`.

`KycLifecycle` instantiates it with `recs <- db` and `clock <- now`, and checks
`RecordsRefined == Records!Spec` as a property. Every step of the interleaved
handlers must therefore be one of these atomic steps or leave `db` unchanged.

### `KycGuard.tla`

This module extends `KycLifecycle`. A guarded request is a slot of `Gates`
with one action per await:

- `GuardStart`: the route metadata. A route without metadata passes at once.
- `GuardLevel`: `getActiveKycLevel`, then Forbidden if the level is too low.
- `LimitLevel`, `LimitUsage`, `LimitAudit`: the three awaits of
  `checkMonthlyLimit`, then the throw or the return.

A request that passes books its amount on `ledger`, which stands in for the
trading service that the spec says the usage comes from. `GuardNext` runs the
lifecycle's steps (the restart drops the guard slots too), the new requests and
the guard steps. Guard steps are weakly fair, as the handlers are.

`ActiveLevel` is translated from `getActiveKycLevel`: the approved records in
descending level order (`SortSeq`), and the first one that is still fresh
(`FirstFresh`). `ActiveLevelIsHighestFresh` checks it against the reference
maximum `HighestFreshLevel`.

### `KycEvents.tla`

This module extends `KycLifecycle` with two variables:

- `audit`, the set of `kyc_audit_logs` rows as `[action, rec, to]`. `to` is
  the status the row's details record: `details.to` for a webhook,
  `details.status` for a manual review, EXPIRED for an EXPIRED row.
- `events`, the bag of emitted `[type, rec]` events. A bag, so a duplicate
  APPROVED counts.

Each lifecycle step that awaits `audit()` is conjoined with its row and with
the emits of the synchronous code after that await:

- `EvAuditInitiated`: INITIATED row and event;
- `EvPersonaAudit` and `EvOnfidoAudit`: WEBHOOK_RECEIVED rows (Persona's with
  a null verificationId);
- `EvApplyAudit`: a STATUS_CHANGED row with `to = updates.status`, then
  APPROVED and LEVEL_CHANGED or REJECTED;
- `EvReviewAudit`: a STATUS_CHANGED row, then APPROVED on approval;
- `EvSweepAudit`: an EXPIRED row and event.

Every other step leaves both unchanged. `Audit(e)` is the `try { save }
catch { log }` of `audit()`: with `AuditFaults` set, the row may be missing
while the step goes on. The `@OnEvent` listeners only log, so emitting has no
other effect on state.

### `ComplianceExport.tla`

This module models `POST /compliance/export/user-data`. The actions are:

- `ExportStart`: the request, with the file name its `Date.now()` gives;
- `ExportGather`: the exporter's await; PDF throws;
- `ExportWrite`: `writeFile`, then `scheduleFileDeletion(filePath, 7)`.
  With `WriteFaults`, `writeFile` may reject, with or without having created
  the file, and no timer is armed.
- `TimerFires`: a due timer unlinks its file.
- `Tick`: a day passes.
- `Crash`: a restart. Files stay on disk; timers and requests are lost.

`TimerDelayDays` is the delay Node actually waits. A delay above 2^31 - 1 ms
is replaced by 1 ms, so a retention of more than 24.8 days fires at once.
Files keep their age and timers their remaining days, both bounded, so the
clock runs forever in a finite state space.

### `ComplianceReports.tla`

This module extends `ComplianceExport` with the monthly compliance report in
the same process. `month` is the clock, one month per step. `rows` holds
trades and audit logs, each with its instant and a status flag: a closed
trade, or an audit log with status FAILURE. `cron` is the report run in
flight, and `reports` the report files by name. The actions are:

- `MonthStart`: midnight of the first. The clock moves on and the `@Cron`
  job computes `lastMonth` with `new Date(y, m - 1)`. The job of the month
  before has finished by then.
- `CronGenerate`: `generateMonthlyComplianceReport(y, m)`. Its window runs
  from `new Date(year, month - 1, 1)` to
  `new Date(year, month, 0, 23, 59, 59)`. The volume, financial and
  audit-trail queries keep the rows `Between` that window.
- `CronWrite`: `writeFile` of `compliance_report_YYYY_MM.json`. It replaces
  a file of that name. With `WriteFaults` it may fail, and the failure is
  only logged.
- `ServiceCrash`: the exports' `Crash`, which also drops the report run.
- `RecordRow` and `TradeClose`: the rest of the platform writing rows.

`MkDate`, `NormYM` and `DaysIn` model the `Date` constructor. Months carry
into years, day 0 is the last day of the month before, and leap years
follow the Gregorian rule. `Between` compares day, then time of day in ms.

### `WebhookVerifier.tla`

Both `verifyWebhookSignature` methods are operators over a symbolic HMAC
`<<"hmac", key, message>>`:

- Persona: header parts present, `age > 300` refused, HMAC over
  `<<t, rawBody>>`;
- Onfido: HMAC over the raw body, with no timestamp.

The controllers' `req.rawBody ?? JSON.stringify(payload)` is `ReceivedBody`.
Its `RawBody` constant says whether the app was created with `rawBody: true`;
the repository has no bootstrap. A body outside `Compact` changes when it is
re-serialized.

The environment is:

- providers sign and send (`ProviderSend`);
- the network delivers any sent webhook at any later time, any number of times
  up to the bound (`Deliver`);
- an attacker without a key sends any body with any timestamp and any seen or
  garbage signature (`Forge`).

Time is in units of 100 s, so the window is 3.

### `ContestFinalize.tla`

`finalizeContest` has three awaits, and each is one action:

- `FinalizeStart`: `getContest`;
- `FinalizeEntries`: the two checks, then the signals query, which snapshots
  the signals;
- `FinalizeSave`: scoring, ranking, the prize split and the save of the loaded
  entity, which overwrites status and winners.

The rest of the platform creates signals while the window is open and closes
them at any time with an ROI, a copied volume and a profit or loss
(`BEST_SUCCESS_RATE` counts the signals with `totalProfitLoss > 0`). The ranking is translated from the code:

- the entries Map is filled in the row order of an unordered query, so any
  insertion order is possible (`InsertionOrders`);
- `Array.prototype.sort` is stable (`SortEntries`, an insertion sort);
- `slice(0, 3)` keeps the first three (`TopThree`).

`ToFixed8` rounds to units of 1e-8. At an exact half, the double product can
lie on either side, so either neighbour is possible. `createContest` gives the
initial state: an ACTIVE contest with no winners.

### Fairness

The fairness is weak fairness on:

- each slot's in-flight steps;
- the sweep's steps;
- the cron trigger;
- the clock.

The event loop runs every started handler on, every awaited call is bounded
(15 s provider timeouts, database calls), and the cron fires daily. Arrivals
of new requests, reviews and restarts are not fair. `KycGuard` adds weak
fairness on each guard slot's steps. `KycEvents` keeps the lifecycle's
fairness over its composed steps. `ComplianceExport` has weak fairness on:

- the exporter and `writeFile` answering;
- each due timer firing, since the event loop runs due timers;
- the clock.

`ComplianceReports` takes the export fairness for all requests together and
for all timers together. This is weaker than per request, so a passing
liveness check under it is a stronger result. It adds weak fairness on the
cron's generate and write steps, since the awaited queries and `writeFile`
answer. New export requests, new rows and the month clock are not fair. `WebhookVerifier` and `ContestFinalize`
are checked for safety only.

## 4. Runs

The lifecycle runs use `MC_KycLifecycle.tla` or, with the audit trail and
events, `MC_KycEvents.tla`: one user, two request slots, `TTL = 1`, and
symmetry on slots in the safety-only runs. The bounds column
lists records/days/starts/deliveries/reviews/crashes/write faults.

| Run | cfg | Expect | Bounds | What it shows |
|---|---|---|---|---|
| safety | `MC_Safety.cfg` (`MC_KycEvents.tla`) | pass | 2/2/2/1/1/0/no | Holds under every interleaving of two concurrent requests, provider failures, a review and the sweep: `NoOrphanPending`, `ApprovalsExpire`, `ApprovalGrantsLevel`, `ActiveLevelIsHighestFresh` (the sorted scan of `getActiveKycLevel` returns the highest fresh level), `AuditTrailComplete` (when quiet, each record's status has an audit row with that `to`, whatever order concurrent writers took) and `ApprovalPublished` (when quiet, every APPROVED record has had its APPROVED event). |
| events | `MC_Events.cfg` (`MC_KycEvents.tla`) | pass | 1/2/1/2/0/0/no, audit saves may fail | A stale approval is eventually swept, including when a re-approval races the sweep (`ExpiredEventuallySwept`). Without restarts the sweep's EXPIRED event always follows its update; the restart that loses it is `MC_EventCrash.cfg` in section 5. |
| refinement | `MC_Refinement.cfg` | pass | 2/2/2/1/1/1/yes, the review only to PENDING | Every handler step is a step of `KycRecords`, even with write failures, a restart and a review that sends a record back to PENDING. In particular, every approval sets `expiresAt = now + TTL`. An approving review is left out, since it is the review_rollback violation. |
| guard | `MC_KycGuard.cfg` (`MC_KycGuard.tla`) | pass | 1/2/1/1/0/1/no; two gates, amounts 5 and 6 | `GuardTypeOK` over every interleaving of the guard's and `checkMonthlyLimit`'s awaits with the lifecycle, the sweep and a restart; it fires every guard step. What the guard gets wrong is in section 5: the usage placeholder (`MC_LimitUsage.cfg`) and a level that lapses before the route runs (`MC_GuardStale.cfg`). |
| webhook_auth | `MC_WebhookVerifier.cfg` | pass | clock 4, 2 sends, 2 requests, raw body on | Three properties: `AcceptedAuthentic` (only provider-signed bodies and timestamps are accepted), `PersonaAcceptedFresh` (Persona only within 300 s of signing) and `GenuineAccepted` (a genuine webhook in its window is accepted). |
| contest_finalize | `MC_ContestFinalize.cfg` | violation | 3 providers, 2 admins, 3 signals, ROI −1 or 2, 2 calls | `TiedWinnersShareEqually`: the contest docs say tied providers share a rank and split the prize equally; the stable sort ranks them in query order and pays 50/30/20 by position. |
| compliance | `MC_Compliance.cfg` (`MC_ComplianceReports.tla`) | pass | 2 requests, 1 export, JSON/PDF, one restart, no write failures; clock Dec 2023 to Mar 2024, one row | `KeptForRetention`: no export file is removed before it is 7 days old, restart or not. `ExportDeletedUnlessRestart`: a file written before any restart is eventually removed by its timer, unless the restart comes first. That the restart then orphans it for good is the `MC_ExportCrash.cfg` counterexample in section 5. `ReportHoldsItsMonth`: a report file counts only rows of the month its name gives, across the year end (the December report) and the leap February (a row on 29 February). `MonthlyReportWritten`: every month's report is eventually written, unless a restart comes first. The expected file name is checked against the clock's previous month, not against the code's `Date` arithmetic. |
| create_race | `MC_CreateRace.cfg` | violation | 2/0/2/0/0/0/no | Two concurrent starts each create a provider session. |
| webhook_order | `MC_WebhookOrder.cfg` | violation | 1/1/1/2/0/0/no | Two deliveries applied out of order move APPROVED back to UNDER_REVIEW. |
| sweep_race | `MC_SweepRace.cfg` | violation | 1/2/1/2/0/0/no | The sweep expires a record re-approved after the sweep selected it. |
| review_rollback | `MC_ReviewRollback.cfg` | violation | 1/0/1/0/1/0/no | An admin approves a just-saved record, the provider call fails, and the rollback deletes the APPROVED record (`RecordsRefined`). |
| double_finalize | `MC_DoubleFinalize.cfg` | violation | 1 signal, 2 admins | Two concurrent `finalizeContest` calls both return winners and prizes. |

### Why the bounds are enough

- Every race above needs at most two concurrent actors on one (user, level).
  Two slots and two records exercise:
  - the create race;
  - a second start that resumes;
  - ENHANCED after BASIC;
  - a webhook or review racing the sweep.
- Two days with `TTL = 1` are enough for a record to be approved on day 0 and
  go stale on day 2, when the sweep runs.
- Two deliveries give the out-of-order and duplicate cases.
- One review covers every status the DTO admits.
- Larger bounds make the safety run exceed a few minutes without adding a new
  shape of interleaving.
- Guard: two gates give a guard racing another guarded request, and amounts
  5 and 6 at level NONE (limit 10) give a pair that fits alone and not
  together. One restart drops guards in flight.
- Webhooks: a clock of 4 with a window of 3 gives deliveries on both sides of
  the window. Two bodies, one of them not compact, give a replayed signature
  over the other body and a re-serialized body.
- Events: the safety bounds give two writers of one record's status in
  every order. One record with two deliveries gives the redelivery and the
  stale emit; reviews are left to the safety run to keep the liveness check
  small.
- Compliance: one export, JSON or PDF, gives a refused export or a file
  whose timer a restart may drop. Both export properties are about one file
  at a time, and files do not interact; two exports with three months made
  the run take more than four minutes. CSV behaves as JSON in the model. Files and timers are
  bounded by the retention, so every timer runs out. One restart can fall
  between any two steps of an export or of the report run.
- Reports: the clock runs from December 2023 to March 2024, so the cron
  writes the December report in January (the year carries) and the February
  report in March (February has 29 days). The properties
  are about one row at a time, and rows do not interact, so one row is
  enough. It may be a trade, open or closed, or an audit log with either
  status. It sits at the first midnight of its month or at 23:59:59.500 of
  the last day. The 23:59:59.000 case is in `MC_ReportLastSecond.cfg`.
- Refinement: one delivery keeps the run short with a review added. The
  out-of-order deliveries that two would give are the webhook_order
  violation, which the contract forbids anyway.
- Contests: three providers fill the top three. Two ROI values give ties and
  strict orders; a tie is what contest_finalize needs. Two admins give the finalize race. A clock past `EndTime`
  lets signals be closed after a finalize has read them.

Each run is a separate question. Each violation run corresponds to a finding
in `PROJECT.json`. Each property of a passing run has a mutant, defined just
before the definition it replaces, that TLC finds violating it.

## 5. Further checks

These cfgs check properties that the modules state and TLC finds violated.
Each disagreement is listed as a hazard in `PROJECT.json`.

| cfg | Module | Property | What TLC shows |
|---|---|---|---|
| `MC_ResumeProvider.cfg` | `MC_KycLifecycle` | `ResumeUsesRecordProvider` | A pending Onfido verification is resumed through Persona (`kyc.service.ts:181`). |
| `MC_Prerequisite.cfg` | `MC_KycLifecycle` | `PrerequisiteFresh` | ENHANCED starts on an expired BASIC approval that has not been swept (`:572`). |
| `MC_ReviewStatus.cfg` | `MC_KycLifecycle` | `SpecTransitions` | Manual review moves PENDING to EXPIRED (`:374`). |
| `MC_Redelivery.cfg` | `MC_KycLifecycle` | `ApprovalIdempotent` | A redelivered approval extends `expiresAt` (`:302`). |
| `MC_SweepFailure.cfg` | `MC_KycLifecycle` | `SweepVisitsWholeBatch` | One failing update leaves the rest of the batch APPROVED (`:493`). |
| `MC_CrashOrphan.cfg` | `MC_KycLifecycle` | `NoOrphanPending` | A restart after the save leaves an orphan PENDING record (`:102`). |
| `MC_AttemptRace.cfg` | `MC_KycLifecycle` | `AttemptsDistinct` | Concurrent starts save the same `attemptCount` (`:101`). |
| `MC_SweepBoundary.cfg` | `MC_KycLifecycle` | `SweepSelectsAllExpired` | `LessThan(now)` leaves out a record with `expiresAt = now`; spec 4.5 says `<=` (`:488`). |
| `MC_LimitUsage.cfg` | `MC_KycGuard` | `LimitCountsUsage` | With usage always 0, amounts 5 and 6 both pass the limit of 10 (`:591`). |
| `MC_PrizeRounding.cfg` | `MC_ContestFinalize` | `PrizesWithinPool` | For a pool of 19e-8, `toFixed(8)` of each share gives 10 + 6 + 4 units, more than the pool (`contests.service.ts:213`). |
| `MC_OrphanSession.cfg` | `MC_KycLifecycle` | `ProviderSessionsLinked` | The provider creates the session and the call still rejects (Onfido's `POST /sdk_token` after `POST /workflow_runs`, `onfido.provider.ts:83`, or the 15 s timeout, `:189`); the catch deletes the record and the session's webhooks find none. With `DbFaults`, a failed store of the inquiry id does the same (`kyc.service.ts:121`). |
| `MC_GuardStale.cfg` | `MC_KycGuard` | `RouteRunsAtRequiredLevel` | The guard reads a fresh approval, the day passes during `checkMonthlyLimit`'s awaits, and the amount route runs for a user whose approval has lapsed (`kyc.guard.ts:49`). |
| `MC_EventCrash.cfg` | `MC_KycEvents` | `ApprovalPublished` | A restart after the approving update and before the emit leaves an APPROVED record whose event is never sent (`kyc.service.ts:337`). With `ExpiryEventuallyPublished` instead, the same cfg loses an EXPIRED event (`:494`). |
| `MC_StaleEvent.cfg` | `MC_KycEvents` | `ApprovedEventsCurrent` | An approved delivery updates the record; a pending delivery updates it back before the first one's audit await returns; APPROVED is then emitted for a PENDING record (`:337`). |
| `MC_DuplicateEvent.cfg` | `MC_KycEvents` | `ApprovedPublishedOnce` | A redelivered approval publishes APPROVED twice; spec section 8 asks for a dedup rule (`:302`). |
| `MC_ExportCrash.cfg` | `MC_ComplianceExport` | `ExportEventuallyDeleted` | A restart drops the deletion timers and nothing rescans the directory, so the encrypted export stays forever (`compliance.service.ts:126`). |
| `MC_ExportWriteFault.cfg` | `MC_ComplianceExport` | `ExportEventuallyDeleted` | `writeFile` rejects after creating the file; no timer was armed (`compliance.service.ts:55`). |
| `MC_ReportLastSecond.cfg` | `MC_ComplianceReports` | `ReportCountsWholeMonth` | A trade at 23:59:59.500 on the last day of December is in no monthly report. The window ends at 23:59:59.000 (`reports/financial-report.generator.ts:16`), and the audit-trail query has the same gap. With rows at 23:59:59.000 at the latest, the property holds. |
| `MC_ReportWriteFault.cfg` | `MC_ComplianceReports` | `MonthlyReportWritten` | A failed `writeFile` of the report is only logged (`compliance.service.ts:95`), and the cron never runs that month again. |
| `MC_RawBody.cfg` | `MC_WebhookVerifier` | `GenuineAccepted` | Without `rawBody: true`, a genuine webhook with a non-compact body is refused (`kyc.controller.ts:101`). |

## 6. Not modelled, and why

- HTTP routing, DTO validation beyond the inputs it admits, and the Swagger
  metadata are left out.
- In the compliance export, the content, its AES encryption and CSV
  conversion are data. The reports keep which rows each query counted; the
  sums, rates, breakdowns, the 100-event slice and the anonymization are
  arithmetic and formatting over those rows. `generateComplianceReport` and
  `POST /compliance/reports/generate` only read and return, with no state
  change. The GDPR generator and the geo-blocking, sanctions and reporting
  services the controller injects are not in the repository's `src/`.
  The user-data export's content, including its `take: 1000` limit on
  audit logs, is abstracted to the file.
  The race between the constructor's un-awaited `ensureExportDir` and a first
  export is not modelled: the HTTP server listens only after the module is
  created.
- The dice animation is UI.
- The markdown and shell scripts under `unnamed/` are not program code.
- `KycGuard`'s path for a request without a user id, which is left to the
  auth guard, is not modelled.
- The read-only contest queries (`getContestLeaderboard`, `getActiveContests`,
  `getAllContests`) are not modelled. `createContest`'s date validation is not
  modelled either; the model starts from a created contest.
- The LIMIT_CHECKED and LIMIT_EXCEEDED rows of `checkMonthlyLimit` are steps
  of `KycGuard` but not kept, since no property reads them.
- Audit rows keep no `ipAddress`, `details` beyond the status, or
  `createdAt`. Event payloads keep only the record.
- The event listeners only log.
