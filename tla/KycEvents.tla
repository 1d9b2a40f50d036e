------------------------------ MODULE KycEvents ------------------------------
(***************************************************************************)
(* The audit trail and the lifecycle events of KycService                  *)
(* (src/src/kyc/kyc.service.ts), composed onto KycLifecycle.  Each step of *)
(* the lifecycle that awaits `this.audit(...)` also inserts a kyc_audit_log *)
(* row (src/src/kyc/entities/kyc-audit-log.entity.ts), and the synchronous *)
(* code after that await emits the EventEmitter2 events of the step.       *)
(*                                                                         *)
(* audit() catches a failing save and only logs it, so with repository     *)
(* faults an entry may be missing while the step goes on; emit() is        *)
(* fire-and-forget and the @OnEvent listeners (kyc-event.listener.ts) only *)
(* log.  Events are kept as a bag, so a duplicate counts; the properties  *)
(* only ask whether an audit row exists, so the rows are a set.          *)
(***************************************************************************)
EXTENDS KycLifecycle, Bags, BagsExt

CONSTANT AuditFaults   \* may a kycAuditRepo.save throw

ASSUME AuditFaults \in BOOLEAN

VARIABLES
  audit,   \* kyc_audit_log rows: set of [action, rec, to]
  events   \* events emitted on the in-process bus: bag of [type, rec]

evars   == <<audit, events>>
allvars == <<db, sessions, req, sweep, now, lastSweep, nextId, used, audit, events>>

\* KycAuditAction, the actions the lifecycle writes.
AuditActions == {"initiated", "webhook_received", "status_changed", "expired"}
\* The lifecycle events of KYC_EVENTS.
EventTypes   == {"kyc.initiated", "kyc.approved", "kyc.rejected",
                 "kyc.expired", "kyc.level_changed"}

\* An audit row: its action, verificationId (0 = null) and the status the
\* details record as `to` (Null when the details carry none).
Entry(a, i, st) == [action |-> a, rec |-> i, to |-> st]
Ev(t, i) == [type |-> t, rec |-> i]

\* await this.audit(...): kycAuditRepo.save(entry), or a caught failure.
Audit(e) ==
  \/ audit' = audit \cup {e}
  \/ AuditFaults /\ UNCHANGED audit

\* this.eventEmitter.emit(...) for each event of the set.
Emit(E) == events' = events (+) SetToBag(E)

-----------------------------------------------------------------------------
(* The audited steps                                                       *)

\* startKyc: audit(INITIATED), then emit(INITIATED).
EvAuditInitiated(p) ==
  /\ AuditInitiated(p)
  /\ Audit(Entry("initiated", req[p].rec, Null))
  /\ Emit({Ev("kyc.initiated", req[p].rec)})

\* processPersonaWebhook audits before its findOne, with a null
\* verificationId; processOnfidoWebhook audits after it, with the id.
EvPersonaAudit(p) ==
  /\ PersonaAudit(p)
  /\ Audit(Entry("webhook_received", 0, Null))
  /\ UNCHANGED events

EvOnfidoAudit(p) ==
  /\ OnfidoAudit(p)
  /\ Audit(Entry("webhook_received", req[p].rec, Null))
  /\ UNCHANGED events

\* Mutant of ApplyEntries: only terminal outcomes are audited.
ApplyEntriesTerminal(i, st) ==
  Entry("status_changed", i, IF st \in {"approved", "rejected"} THEN st ELSE Null)

\* The STATUS_CHANGED row of applyVerificationResult: to = updates.status.
ApplyEntries(i, st) == Entry("status_changed", i, st)

\* The events applyVerificationResult emits for the status it wrote.
ApplyEvents(i, st) ==
  CASE st = "approved" -> {Ev("kyc.approved", i), Ev("kyc.level_changed", i)}
    [] st = "rejected" -> {Ev("kyc.rejected", i)}
    [] OTHER           -> {}

EvApplyAudit(p) ==
  /\ ApplyAudit(p)
  /\ LET i == req[p].rec
         st == WebhookTarget[req[p].res]
     IN  Audit(ApplyEntries(i, st)) /\ Emit(ApplyEvents(i, st))

\* Mutant of ReviewEvents: manualReview emits nothing.
ReviewEventsNone(i, st) == {}

\* manualReview emits APPROVED only when it approves.
ReviewEvents(i, st) == IF st = "approved" THEN {Ev("kyc.approved", i)} ELSE {}

\* manualReview: audit(STATUS_CHANGED, manual: true), then the emit.
EvReviewAudit(p) ==
  /\ ReviewAudit(p)
  /\ Audit(Entry("status_changed", req[p].rec, req[p].res))
  /\ Emit(ReviewEvents(req[p].rec, req[p].res))

\* The EXPIRED event of the sweep's loop body for record v.
SweepEvents(v) == {Ev("kyc.expired", v)}

\* expireVerifications: audit(EXPIRED), emit(EXPIRED), next record.
EvSweepAudit ==
  /\ SweepAudit
  /\ Audit(Entry("expired", sweep.cur, "expired"))
  /\ Emit(SweepEvents(sweep.cur))

-----------------------------------------------------------------------------
\* Every other lifecycle step writes no audit row and emits nothing.
Silent(p) ==
  \/ CheckPrerequisite(p) \/ FindPending(p) \/ CountAttempts(p)
  \/ SaveRecord(p) \/ CreateSession(p) \/ StoreSession(p)
  \/ DeleteRecord(p) \/ ResumeCall(p) \/ ResumeUpdate(p)
  \/ PersonaFind(p) \/ OnfidoFind(p) \/ ApplyUpdate(p)
  \/ ReviewFind(p) \/ ReviewUpdate(p)

EvContinue(p) ==
  \/ Silent(p) /\ UNCHANGED evars
  \/ EvAuditInitiated(p) \/ EvPersonaAudit(p) \/ EvOnfidoAudit(p)
  \/ EvApplyAudit(p) \/ EvReviewAudit(p)

EvInit == Init /\ audit = {} /\ events = EmptyBag

EvNext ==
  \/ \E p \in Procs : (StartKyc(p) \/ ReceiveWebhook(p) \/ ManualReview(p))
                      /\ UNCHANGED evars
  \/ \E p \in Procs : EvContinue(p)
  \/ (SweepFind \/ SweepUpdate) /\ UNCHANGED evars
  \/ EvSweepAudit
  \/ (Tick \/ Crash \/ Quiescent) /\ UNCHANGED evars

\* The fairness of KycLifecycle, over the composed steps.
EvFairness ==
  /\ \A p \in Procs : WF_allvars(EvContinue(p))
  /\ WF_allvars(SweepUpdate /\ UNCHANGED evars) /\ WF_allvars(EvSweepAudit)
  /\ WF_allvars(SweepFind /\ UNCHANGED evars)
  /\ WF_allvars(Tick /\ UNCHANGED evars)

EvSpec == EvInit /\ [][EvNext]_allvars /\ EvFairness

-----------------------------------------------------------------------------
(* Properties                                                              *)

EvTypeOK ==
  /\ TypeOK
  /\ audit \subseteq [action: AuditActions, rec: {0} \cup Ids,
                                to: Statuses \cup {Null}]
  /\ BagToSet(events) \subseteq [type: EventTypes, rec: Ids]

Published(t, i) == BagIn(Ev(t, i), events)

\* No handler in flight and the sweep idle.
Quiet == (\A p \in Procs : req[p].pc = "idle") /\ sweep.pc = "idle"

\* Whenever the service is quiet, every APPROVED record has had its APPROVED
\* event published (applyVerificationResult and manualReview emit it after
\* the audit await that follows their update), so a subscriber never misses
\* an approval the table holds.
ApprovalPublished ==
  Quiet => \A i \in DOMAIN db :
             db[i].status = "approved" => Published("kyc.approved", i)

\* In a run where no audit save fails (audit() swallows a failed save,
\* spec 4.6), whenever the service is quiet the trail
\* explains every record's current status: a record that left PENDING has a
\* STATUS_CHANGED or EXPIRED row whose `to` is the status it holds now,
\* whatever order concurrent deliveries, reviews and the sweep wrote in.
AuditTrailComplete ==
  Quiet => \A i \in DOMAIN db :
             db[i].status # "pending" =>
               \E e \in audit : e.rec = i /\ e.to = db[i].status

\* Once the sweep has written EXPIRED to a record, the EXPIRED event for it
\* is eventually published (expireVerifications, lines 493-502).
ExpiryEventuallyPublished ==
  \A i \in Ids :
    (sweep.pc = "sw_audit" /\ sweep.cur = i) ~> Published("kyc.expired", i)

\* Spec 4.1: applyProviderResult publishes APPROVED on reaching APPROVED.
\* A step that publishes an APPROVED event does so while the record it names
\* is APPROVED in the table (applyVerificationResult emits after the audit
\* await, from its local `updates`).
ApprovedEventsCurrent ==
  [][\A i \in Ids :
       CopiesIn(Ev("kyc.approved", i), events') > CopiesIn(Ev("kyc.approved", i), events)
         => i \in DOMAIN db /\ db[i].status = "approved"]_allvars

\* Spec section 8: no duplicate APPROVED event beyond the first application
\* of an approved result; applyVerificationResult has no dedup rule.
ApprovedPublishedOnce ==
  \A i \in Ids : CopiesIn(Ev("kyc.approved", i), events) <= 1
=============================================================================
