----------------------------- MODULE KycLifecycle -----------------------------
(***************************************************************************)
(* The KYC verification lifecycle engine of KycService                     *)
(* (src/src/kyc/kyc.service.ts): startKyc with its resume and rollback     *)
(* paths, the Persona and Onfido webhook handlers with                     *)
(* applyVerificationResult, the admin manualReview, and the daily          *)
(* expireVerifications sweep, over a kyc_verifications table.              *)
(*                                                                         *)
(* NestJS runs every handler on one event loop: a handler runs atomically  *)
(* between two `await`s and requests interleave at the awaits.  Each       *)
(* request in flight is a slot of Procs with a program counter `pc` that   *)
(* names the await it is suspended at; every repository call, provider     *)
(* call and audit write is one step.  The table is a function from record  *)
(* id to record; each TypeORM statement is atomic.                         *)
(***************************************************************************)
EXTENDS Integers, Sequences, SequencesExt, Functions, TLC, ProviderAdapter

CONSTANTS
  Users,          \* user ids (model values)
  Procs,          \* concurrent request slots (model values)
  Null,           \* the SQL NULL of a timestamp column
  MaxRecords,     \* bound on records ever saved (uuids are never reused)
  MaxTime,        \* bound on the clock, in days
  TTL,            \* VERIFICATION_TTL_MS, in days
  MaxStarts,      \* bound on POST /kyc/start requests
  MaxDeliveries,  \* bound on webhook deliveries
  MaxReviews,     \* bound on admin manual reviews
  MaxCrashes,     \* bound on process restarts
  DbFaults,       \* may a repository write throw
  ReviewStatuses  \* statuses an admin may submit (ManualReviewDto.status)

Ids          == 1..MaxRecords
Levels       == {0, 1, 2}            \* KycLevel NONE, BASIC, ENHANCED
Providers    == {"persona", "onfido"}
Statuses     == {"pending", "under_review", "approved", "rejected",
                 "expired", "requires_action"}

ASSUME /\ MaxStarts <= MaxRecords
       /\ TTL \in Nat \ {0}
       /\ DbFaults \in BOOLEAN
       /\ ReviewStatuses \subseteq Statuses

\* LEVEL_PREREQUISITES: ENHANCED requires BASIC, the others nothing.
Prerequisite(l) == IF l = 2 THEN 1 ELSE 0

VARIABLES
  db,         \* kyc_verifications: record id -> record
  sessions,   \* provider-side inquiries / workflow runs: record id -> provider
  req,        \* the request in each slot
  sweep,      \* the expireVerifications cron job
  now,        \* the clock, in days
  lastSweep,  \* the day the cron job last fired
  nextId,     \* the next fresh record id
  used        \* how much of each bound has been spent

vars == <<db, sessions, req, sweep, now, lastSweep, nextId, used>>

Record == [user: Users, level: {1, 2}, status: Statuses, provider: Providers,
           inquiry: BOOLEAN, expiresAt: Nat \cup {Null}, attempt: Nat]

Pcs == {"idle", "s_prereq", "s_find", "s_count", "s_save", "s_session",
        "s_update", "s_audit", "s_delete", "r_call", "r_update",
        "wp_audit", "wp_find", "wo_find", "wo_audit", "wh_update", "wh_audit",
        "m_find", "m_update", "m_audit"}

\* An idle slot; `res` holds the canonical webhook outcome or the reviewed
\* status, `rec` the record the request works on (0 = none yet).
NoReq == [pc |-> "idle", user |-> Null, level |-> 0, prov |-> Null, rec |-> 0,
          attempt |-> 0, res |-> Null]

Goto(p, to) == req' = [req EXCEPT ![p].pc = to]
Finish(p)   == req' = [req EXCEPT ![p] = NoReq]

-----------------------------------------------------------------------------
(* Queries of the repository                                               *)

\* getApprovedVerification: any APPROVED record at (user, level).
ApprovedAt(u, l) ==
  {i \in DOMAIN db : db[i].user = u /\ db[i].level = l
                     /\ db[i].status = "approved"}

\* findOne({userId, level, status: PENDING}).
PendingAt(u, l) ==
  {i \in DOMAIN db : db[i].user = u /\ db[i].level = l
                     /\ db[i].status = "pending"}

\* getAttemptCount: count({userId, level}).
AttemptCount(u, l) ==
  Cardinality({i \in DOMAIN db : db[i].user = u /\ db[i].level = l})

\* findOne({inquiryId}): the inquiry of session s is stored on record s.
HasInquiry(s) == s \in DOMAIN db /\ db[s].inquiry

\* Mutant of ExpiryFromNow: the TTL is not added.
ExpiryNoTTL == now

\* new Date(Date.now() + VERIFICATION_TTL_MS).
ExpiryFromNow == now + TTL

\* A record not yet past its expiry (`!v.expiresAt || v.expiresAt > now`).
Fresh(r) == r.expiresAt = Null \/ r.expiresAt > now

\* find({userId, status: APPROVED}, order: {level: DESC}).
ApprovedByLevel(u) ==
  SortSeq(SetToSeq({i \in DOMAIN db : db[i].user = u /\ db[i].status = "approved"}),
          LAMBDA a, b : db[a].level >= db[b].level)

\* Mutant of FirstFresh: the freshness test is dropped from the loop.
FirstAny(s) == IF s = <<>> THEN 0 ELSE db[Head(s)].level

\* The for loop: the level of the first fresh record, else NONE.
RECURSIVE FirstFresh(_)
FirstFresh(s) ==
  IF s = <<>> THEN 0
  ELSE IF Fresh(db[Head(s)]) THEN db[Head(s)].level ELSE FirstFresh(Tail(s))

\* getActiveKycLevel.
ActiveLevel(u) == FirstFresh(ApprovedByLevel(u))

\* Mutant of Stale: an off-by-one in the expiry comparison.
StaleOffByOne(r) ==
  r.status = "approved" /\ r.expiresAt # Null /\ r.expiresAt < now - 1

\* The sweep's filter: {status: APPROVED, expiresAt: LessThan(now)}.
Stale(r) == r.status = "approved" /\ r.expiresAt # Null /\ r.expiresAt < now

-----------------------------------------------------------------------------
(* startKyc and resumeKyc                                                  *)

\* POST /kyc/start arrives; level NONE is refused before any await.
StartKyc(p) ==
  /\ req[p].pc = "idle" /\ used.starts < MaxStarts
  /\ used' = [used EXCEPT !.starts = @ + 1]
  /\ \E u \in Users, l \in Levels, prov \in Providers :
       IF l = 0 THEN UNCHANGED req
       ELSE req' = [req EXCEPT ![p] = [NoReq EXCEPT
                      !.pc = IF Prerequisite(l) # 0 THEN "s_prereq" ELSE "s_find",
                      !.user = u, !.level = l, !.prov = prov]]
  /\ UNCHANGED <<db, sessions, sweep, now, lastSweep, nextId>>

\* await getApprovedVerification(userId, prereq); none -> BadRequest.
CheckPrerequisite(p) ==
  /\ req[p].pc = "s_prereq"
  /\ IF ApprovedAt(req[p].user, Prerequisite(req[p].level)) # {}
       THEN Goto(p, "s_find") ELSE Finish(p)
  /\ UNCHANGED <<db, sessions, sweep, now, lastSweep, nextId, used>>

\* await findOne(PENDING): a found record with an inquiry is resumed.
FindPending(p) ==
  /\ req[p].pc = "s_find"
  /\ LET found == PendingAt(req[p].user, req[p].level)
     IN  \/ /\ found = {} /\ Goto(p, "s_count")
         \/ \E e \in found :
              IF db[e].inquiry
                THEN req' = [req EXCEPT ![p].pc = "r_call", ![p].rec = e]
                ELSE Goto(p, "s_count")
  /\ UNCHANGED <<db, sessions, sweep, now, lastSweep, nextId, used>>

\* await getAttemptCount(userId, level).
CountAttempts(p) ==
  /\ req[p].pc = "s_count"
  /\ req' = [req EXCEPT ![p].pc = "s_save",
               ![p].attempt = AttemptCount(req[p].user, req[p].level)]
  /\ UNCHANGED <<db, sessions, sweep, now, lastSweep, nextId, used>>

\* await kycRepo.save(create({..., PENDING, attemptCount: attempt + 1})).
SaveRecord(p) ==
  /\ req[p].pc = "s_save"
  /\ \/ /\ db' = db @@ (nextId :> [user |-> req[p].user, level |-> req[p].level,
                     status |-> "pending", provider |-> req[p].prov,
                     inquiry |-> FALSE, expiresAt |-> Null,
                     attempt |-> req[p].attempt + 1])
        /\ nextId' = nextId + 1
        /\ req' = [req EXCEPT ![p].pc = "s_session", ![p].rec = nextId]
     \/ /\ DbFaults /\ Finish(p) /\ UNCHANGED <<db, nextId>>
  /\ UNCHANGED <<sessions, sweep, now, lastSweep, used>>

\* Mutant of SessionFailed: the catch block rethrows without deleting.
SessionFailedNoCleanup(p) == Finish(p) /\ UNCHANGED sessions

\* The provider call failed: the catch block deletes the record.
SessionFailed(p) == Goto(p, "s_delete") /\ UNCHANGED sessions

\* The provider holds the session and the call still rejects: Onfido's
\* createApplicantSession fails at POST /sdk_token after POST /workflow_runs
\* started the run, or a request() timeout (AbortSignal.timeout) fires
\* after the provider created it.  The catch block deletes the record.
SessionCreatedCallFailed(p) ==
  /\ sessions' = sessions @@ (req[p].rec :> req[p].prov)
  /\ Goto(p, "s_delete")

\* await persona.createInquiry / onfido.createApplicantSession.
CreateSession(p) ==
  /\ req[p].pc = "s_session"
  /\ \/ /\ sessions' = sessions @@ (req[p].rec :> req[p].prov)
        /\ Goto(p, "s_update")
     \/ SessionFailed(p)
     \/ SessionCreatedCallFailed(p)
  /\ UNCHANGED <<db, sweep, now, lastSweep, nextId, used>>

\* await kycRepo.update(id, {inquiryId, sessionToken, ...}).
StoreSession(p) ==
  /\ req[p].pc = "s_update"
  /\ \/ /\ db' = [db EXCEPT ![req[p].rec].inquiry = TRUE]
        /\ Goto(p, "s_audit")
     \/ /\ DbFaults /\ Goto(p, "s_delete") /\ UNCHANGED db
  /\ UNCHANGED <<sessions, sweep, now, lastSweep, nextId, used>>

\* await audit(INITIATED) (never throws); emit INITIATED; respond.
AuditInitiated(p) ==
  /\ req[p].pc = "s_audit" /\ Finish(p)
  /\ UNCHANGED <<db, sessions, sweep, now, lastSweep, nextId, used>>

\* await kycRepo.delete(id) in the catch block, then rethrow.
DeleteRecord(p) ==
  /\ req[p].pc = "s_delete"
  /\ \/ db' = Restrict(db, DOMAIN db \ {req[p].rec})
     \/ DbFaults /\ UNCHANGED db
  /\ Finish(p)
  /\ UNCHANGED <<sessions, sweep, now, lastSweep, nextId, used>>

\* resumeKyc: await persona.resumeInquiry(inquiryId).  Persona only knows
\* its own inquiries, so the call fails for an Onfido workflow run.
ResumeCall(p) ==
  /\ req[p].pc = "r_call"
  /\ \/ /\ db[req[p].rec].provider = ResumeProvider
        /\ Goto(p, "r_update")
     \/ Finish(p)
  /\ UNCHANGED <<db, sessions, sweep, now, lastSweep, nextId, used>>

\* await kycRepo.update(id, {sessionToken}): the token is not modelled.
ResumeUpdate(p) ==
  /\ req[p].pc = "r_update" /\ Finish(p)
  /\ UNCHANGED <<db, sessions, sweep, now, lastSweep, nextId, used>>

-----------------------------------------------------------------------------
(* Webhooks and applyVerificationResult                                    *)

\* A webhook for session s arrives at its provider's endpoint.  A bad
\* signature or payload is refused before any await.
ReceiveWebhook(p) ==
  /\ req[p].pc = "idle" /\ used.deliveries < MaxDeliveries
  /\ used' = [used EXCEPT !.deliveries = @ + 1]
  /\ \E s \in DOMAIN sessions : \E raw \in RawStatuses(sessions[s]),
                                   valid \in BOOLEAN :
       IF ~valid THEN UNCHANGED req
       ELSE req' = [req EXCEPT ![p] = [NoReq EXCEPT
                      !.pc = IF sessions[s] = "persona" THEN "wp_audit"
                                                        ELSE "wo_find",
                      !.rec = s, !.prov = sessions[s],
                      !.res = ToCanonical(sessions[s], raw)]]
  /\ UNCHANGED <<db, sessions, sweep, now, lastSweep, nextId>>

\* processPersonaWebhook: await audit(WEBHOOK_RECEIVED), then findOne.
PersonaAudit(p) ==
  /\ req[p].pc = "wp_audit" /\ Goto(p, "wp_find")
  /\ UNCHANGED <<db, sessions, sweep, now, lastSweep, nextId, used>>

\* findOne({where: {inquiryId}}): a record is found only once its inquiry
\* id is stored.
PersonaFind(p) ==
  /\ req[p].pc = "wp_find"
  /\ IF HasInquiry(req[p].rec) THEN Goto(p, "wh_update") ELSE Finish(p)
  /\ UNCHANGED <<db, sessions, sweep, now, lastSweep, nextId, used>>

\* processOnfidoWebhook: await findOne, then audit(WEBHOOK_RECEIVED).
OnfidoFind(p) ==
  /\ req[p].pc = "wo_find"
  /\ IF HasInquiry(req[p].rec) THEN Goto(p, "wo_audit") ELSE Finish(p)
  /\ UNCHANGED <<db, sessions, sweep, now, lastSweep, nextId, used>>

OnfidoAudit(p) ==
  /\ req[p].pc = "wo_audit" /\ Goto(p, "wh_update")
  /\ UNCHANGED <<db, sessions, sweep, now, lastSweep, nextId, used>>

\* Mutant of WebhookTarget: the canonical outcome is written as the status.
WebhookTargetRaw == [approved |-> "approved", declined |-> "declined",
                     needs_review |-> "needs_review", pending |-> "pending"]

\* The status each canonical outcome writes (the switch on result.status).
WebhookTarget == [approved |-> "approved", declined |-> "rejected",
                  needs_review |-> "under_review", pending |-> "pending"]

\* The updates of applyVerificationResult, applied whatever the status is.
ApplyResult(r, res) ==
  [r EXCEPT !.status = WebhookTarget[res],
            !.expiresAt = IF res = "approved" THEN ExpiryFromNow ELSE @]

\* await kycRepo.update(verification.id, updates).
ApplyUpdate(p) ==
  /\ req[p].pc = "wh_update"
  /\ LET i == req[p].rec IN
       \/ /\ db' = [db EXCEPT ![i] = ApplyResult(@, req[p].res)]
          /\ Goto(p, "wh_audit")
       \/ /\ DbFaults /\ Finish(p) /\ UNCHANGED db
  /\ UNCHANGED <<sessions, sweep, now, lastSweep, nextId, used>>

\* await audit(STATUS_CHANGED); emit APPROVED+LEVEL_CHANGED or REJECTED.
ApplyAudit(p) ==
  /\ req[p].pc = "wh_audit" /\ Finish(p)
  /\ UNCHANGED <<db, sessions, sweep, now, lastSweep, nextId, used>>

-----------------------------------------------------------------------------
(* manualReview                                                            *)

ManualReview(p) ==
  /\ req[p].pc = "idle" /\ used.reviews < MaxReviews
  /\ used' = [used EXCEPT !.reviews = @ + 1]
  /\ \E i \in Ids, st \in ReviewStatuses :
       req' = [req EXCEPT ![p] = [NoReq EXCEPT !.pc = "m_find", !.rec = i,
                                               !.res = st]]
  /\ UNCHANGED <<db, sessions, sweep, now, lastSweep, nextId>>

\* await findOneOrFail: an unknown id throws.
ReviewFind(p) ==
  /\ req[p].pc = "m_find"
  /\ IF req[p].rec \in DOMAIN db THEN Goto(p, "m_update") ELSE Finish(p)
  /\ UNCHANGED <<db, sessions, sweep, now, lastSweep, nextId, used>>

\* Mutant of ReviewedRecord: approval without setting expiresAt.
ReviewedRecordNoExpiry(r, st) == [r EXCEPT !.status = st]

\* The updates of manualReview: the status, and the expiry on approval.
ReviewedRecord(r, st) ==
  [r EXCEPT !.status = st,
            !.expiresAt = IF st = "approved" THEN ExpiryFromNow ELSE @]

\* await kycRepo.update(verificationId, updates); a vanished row is a no-op.
ReviewUpdate(p) ==
  /\ req[p].pc = "m_update"
  /\ LET i == req[p].rec IN
       \/ /\ db' = IF i \in DOMAIN db
                     THEN [db EXCEPT ![i] = ReviewedRecord(@, req[p].res)]
                     ELSE db
          /\ Goto(p, "m_audit")
       \/ /\ DbFaults /\ Finish(p) /\ UNCHANGED db
  /\ UNCHANGED <<sessions, sweep, now, lastSweep, nextId, used>>

\* await audit(STATUS_CHANGED, manual); emit APPROVED if approved.
ReviewAudit(p) ==
  /\ req[p].pc = "m_audit" /\ Finish(p)
  /\ UNCHANGED <<db, sessions, sweep, now, lastSweep, nextId, used>>

-----------------------------------------------------------------------------
(* expireVerifications, the midnight cron job                              *)

NoSweep == [pc |-> "idle", batch |-> {}, cur |-> 0]

\* The cron fires once a day; await find(APPROVED, expiresAt < now).
SweepFind ==
  /\ sweep.pc = "idle" /\ lastSweep < now
  /\ lastSweep' = now
  /\ LET batch == {i \in DOMAIN db : Stale(db[i])} IN
       sweep' = IF batch = {} THEN NoSweep
                ELSE [pc |-> "sw_update", batch |-> batch, cur |-> 0]
  /\ UNCHANGED <<db, sessions, req, now, nextId, used>>

\* await update(v.id, {status: EXPIRED}), by id only, for the next v.
SweepExpire(v) ==
  /\ db' = IF v \in DOMAIN db THEN [db EXCEPT ![v].status = "expired"] ELSE db
  /\ sweep' = [sweep EXCEPT !.pc = "sw_audit", !.cur = v]

\* A throwing update leaves the for loop: the rest of the batch is skipped.
SweepUpdate ==
  /\ sweep.pc = "sw_update"
  /\ \E v \in sweep.batch :
       \/ SweepExpire(v)
       \/ DbFaults /\ sweep' = NoSweep /\ UNCHANGED db
  /\ UNCHANGED <<sessions, req, now, lastSweep, nextId, used>>

\* await audit(EXPIRED); emit EXPIRED; continue with the loop.
SweepAudit ==
  /\ sweep.pc = "sw_audit"
  /\ LET rest == sweep.batch \ {sweep.cur} IN
       sweep' = IF rest = {} THEN NoSweep
                ELSE [pc |-> "sw_update", batch |-> rest, cur |-> 0]
  /\ UNCHANGED <<db, sessions, req, now, lastSweep, nextId, used>>

-----------------------------------------------------------------------------
(* Environment: the clock and process restarts                             *)

Tick ==
  /\ now < MaxTime /\ now' = now + 1
  /\ UNCHANGED <<db, sessions, req, sweep, lastSweep, nextId, used>>

\* The process restarts: every request and the sweep stop where they are;
\* the table and the provider's sessions survive.
Crash ==
  /\ used.crashes < MaxCrashes
  /\ used' = [used EXCEPT !.crashes = @ + 1]
  /\ req' = [p \in Procs |-> NoReq] /\ sweep' = NoSweep
  /\ UNCHANGED <<db, sessions, now, lastSweep, nextId>>

\* Everything is quiet at the end of the bounded clock.
Quiescent ==
  /\ \A p \in Procs : req[p].pc = "idle"
  /\ sweep.pc = "idle" /\ now = MaxTime /\ lastSweep = MaxTime
  /\ UNCHANGED vars

-----------------------------------------------------------------------------
Init ==
  /\ db = <<>> /\ sessions = <<>>
  /\ req = [p \in Procs |-> NoReq] /\ sweep = NoSweep
  /\ now = 0 /\ lastSweep = -1 /\ nextId = 1
  /\ used = [starts |-> 0, deliveries |-> 0, reviews |-> 0, crashes |-> 0]

\* The steps of a request already in flight.
Continue(p) ==
  \/ CheckPrerequisite(p) \/ FindPending(p) \/ CountAttempts(p)
  \/ SaveRecord(p) \/ CreateSession(p) \/ StoreSession(p)
  \/ AuditInitiated(p) \/ DeleteRecord(p) \/ ResumeCall(p) \/ ResumeUpdate(p)
  \/ PersonaAudit(p) \/ PersonaFind(p) \/ OnfidoFind(p) \/ OnfidoAudit(p)
  \/ ApplyUpdate(p) \/ ApplyAudit(p)
  \/ ReviewFind(p) \/ ReviewUpdate(p) \/ ReviewAudit(p)

Next ==
  \/ \E p \in Procs : StartKyc(p) \/ ReceiveWebhook(p) \/ ManualReview(p)
  \/ \E p \in Procs : Continue(p)
  \/ SweepFind \/ SweepUpdate \/ SweepAudit
  \/ Tick \/ Crash \/ Quiescent

\* The event loop runs every started handler on, the repository and the
\* providers answer (15 s timeouts), the clock advances and the cron fires.
Fairness ==
  /\ \A p \in Procs : WF_vars(Continue(p))
  /\ WF_vars(SweepUpdate) /\ WF_vars(SweepAudit) /\ WF_vars(SweepFind)
  /\ WF_vars(Tick)

Spec == Init /\ [][Next]_vars /\ Fairness

-----------------------------------------------------------------------------
(* Properties                                                              *)

TypeOK ==
  /\ DOMAIN db \subseteq Ids /\ \A i \in DOMAIN db : db[i] \in Record
  /\ DOMAIN sessions \subseteq Ids
  /\ \A s \in DOMAIN sessions : sessions[s] \in Providers
  /\ req \in [Procs -> [pc: Pcs, user: Users \cup {Null}, level: Levels,
                        prov: Providers \cup {Null}, rec: 0..MaxRecords,
                        attempt: 0..MaxRecords,
                        res: Canonical \cup Statuses \cup {Null}]]
  /\ sweep \in [pc: {"idle", "sw_update", "sw_audit"}, batch: SUBSET Ids,
                cur: 0..MaxRecords]
  /\ now \in 0..MaxTime /\ lastSweep \in -1..MaxTime
  /\ nextId \in 1..(MaxRecords + 1)
  /\ used \in [starts: 0..MaxStarts, deliveries: 0..MaxDeliveries,
               reviews: 0..MaxReviews, crashes: 0..MaxCrashes]

\* startKyc saves a PENDING record before calling the provider and deletes
\* it in its catch block if the call fails: a PENDING record without a
\* provider inquiry exists only while the startKyc that saved it is still
\* between its save and its rollback (no orphan PENDING records).
NoOrphanPending ==
  \A i \in DOMAIN db :
    db[i].status = "pending" /\ ~db[i].inquiry =>
      \E p \in Procs : req[p].rec = i
                       /\ req[p].pc \in {"s_session", "s_update", "s_delete"}

\* Every APPROVED record carries an expiry: getActiveKycLevel treats a NULL
\* expiresAt as never expiring, so an approval by webhook or by manual
\* review without an expiry would grant its level for ever.
ApprovalsExpire ==
  \A i \in DOMAIN db : db[i].status = "approved" => db[i].expiresAt # Null

\* A step that moves a record to APPROVED (webhook or manual review) raises
\* the user's active level (getActiveKycLevel, read by KycGuard) to at
\* least the record's level at once.
ApprovalGrantsLevel ==
  [][\A i \in DOMAIN db \cap DOMAIN db' :
       db[i].status # "approved" /\ db'[i].status = "approved" =>
         (ActiveLevel(db[i].user))' >= db[i].level]_vars

\* KycGuard and checkMonthlyLimit read getActiveKycLevel while the stored
\* status lags the clock until the midnight sweep: the level the scan of
\* APPROVED records (ordered by level, first fresh one wins) returns is the
\* highest level among the user's APPROVED records not past their expiry,
\* whether or not the sweep has run yet.
HighestFreshLevel(u) ==
  LET live == {db[i].level : i \in {j \in DOMAIN db :
                 db[j].user = u /\ db[j].status = "approved" /\ Fresh(db[j])}}
  IN  IF live = {} THEN 0 ELSE CHOOSE l \in live : \A m \in live : l >= m

ActiveLevelIsHighestFresh == \A u \in Users : ActiveLevel(u) = HighestFreshLevel(u)

\* The daily sweep eventually moves every APPROVED record whose expiry has
\* passed out of APPROVED, unless it was re-approved or rejected first.
PastExpiry(r) ==
  r.status = "approved" /\ r.expiresAt # Null /\ r.expiresAt < now

ExpiredEventuallySwept ==
  \A i \in Ids :
    (i \in DOMAIN db /\ PastExpiry(db[i]))
      ~> (i \in DOMAIN db => ~PastExpiry(db[i]))

\* The record contract of spec section 3 (KycRecords): read one committed
\* statement at a time, the table evolves only by creating a PENDING record,
\* attaching its inquiry, approving (expiry from today), setting another
\* status, and rolling back a PENDING record that has no inquiry yet; the
\* identity fields and attemptCount of a record never change.
Records == INSTANCE KycRecords WITH recs <- db, clock <- now, Ids <- Ids,
                                    Statuses <- Statuses, Providers <- Providers

RecordsRefined == Records!Spec

-----------------------------------------------------------------------------
(* Properties the specification states and the code does not keep; each  *)
(* is checked by a run that expects a violation.                           *)

\* Spec 5 and 8: two concurrent startKyc(u, level) with no record yet
\* create exactly one provider session; the loser resumes it.  Here: at
\* most one provider session per (user, level) backs a PENDING record.
OnePendingSessionPerLevel ==
  \A u \in Users, l \in {1, 2} :
    Cardinality({s \in DOMAIN sessions : s \in PendingAt(u, l)}) <= 1

\* Spec 4.1, resume: the fresh session token is requested from the adapter
\* of the provider that created the inquiry.
ResumeUsesRecordProvider ==
  [][\A p \in Procs :
       ResumeCall(p) => db[req[p].rec].provider = ResumeProvider]_vars

\* Spec 4.1, startKyc: ENHANCED starts only if the user holds an APPROVED
\* BASIC record whose expiresAt is null or in the future.
PrerequisiteFresh ==
  [][\A p \in Procs :
       req[p].pc = "s_prereq" /\ req'[p].pc = "s_find" =>
         \E i \in ApprovedAt(req[p].user, Prerequisite(req[p].level)) :
           Fresh(db[i])]_vars

\* Spec 4.1, the state machine: webhook results move PENDING to a decision
\* and UNDER_REVIEW to APPROVED or REJECTED, only the sweep moves APPROVED
\* to EXPIRED, manual review moves any record to APPROVED or REJECTED.
WebhookEdges ==
  {<<"pending", t>> : t \in {"approved", "rejected", "under_review",
                             "requires_action"}}
  \cup {<<"under_review", t>> : t \in {"approved", "rejected"}}

SpecEdges ==
  WebhookEdges \cup {<<"approved", "expired">>}
  \cup {<<f, t>> : f \in Statuses, t \in {"approved", "rejected"}}

SpecTransitions ==
  [][\A i \in DOMAIN db \cap DOMAIN db' :
       db'[i].status # db[i].status =>
         <<db[i].status, db'[i].status>> \in SpecEdges]_db

\* Spec 8, idempotence: a second identical "approved" result leaves the
\* approval (and its expiresAt) of an APPROVED record unchanged.
ApprovalIdempotent ==
  [][\A i \in DOMAIN db \cap DOMAIN db' :
       db[i].status = "approved" /\ db'[i].status = "approved" =>
         db'[i].expiresAt = db[i].expiresAt]_db

\* Spec 4.1 startVerification: the record persists the external handles of
\* the session createSession made, so every provider session a user can
\* complete is one whose webhooks reach a record: its inquiry id is stored
\* on the record, or the start that created it is about to store it.  A session created when
\* the call still rejects, or whose kycRepo.update fails, is orphaned: the
\* catch deletes the record and findOne drops every webhook of it.
ProviderSessionsLinked ==
  \A s \in DOMAIN sessions :
    HasInquiry(s) \/ \E p \in Procs : req[p].pc = "s_update" /\ req[p].rec = s

\* Spec 5: the sweep and webhook application use optimistic concurrency;
\* the sweep's update expires a record only if it is, when written, still
\* APPROVED and past its expiry.
SweepExpiresOnlyStale ==
  [][\A v \in Ids :
       sweep.pc = "sw_update" /\ sweep'.pc = "sw_audit" /\ sweep'.cur = v =>
         v \in DOMAIN db /\ Stale(db[v])]_vars

\* Spec 4.5: a failure to persist one record does not abort the batch; the
\* sweep stops only after visiting every record it selected.
SweepVisitsWholeBatch ==
  [][sweep.pc # "idle" /\ sweep'.pc = "idle" =>
       Cardinality(sweep.batch) <= 1]_sweep

\* Spec 3, VerificationRecord: one record per (user, level, attempt), with
\* attemptCount = the count of prior records at this (user, level) + 1.
AttemptsDistinct ==
  \A i, j \in DOMAIN db :
    i # j /\ db[i].user = db[j].user /\ db[i].level = db[j].level =>
      db[i].attempt # db[j].attempt

\* Spec 4.5: the sweep selects every APPROVED record with expiresAt <= now.
SweepSelectsAllExpired ==
  [][sweep.pc = "idle" /\ lastSweep' # lastSweep =>
       \A i \in DOMAIN db :
         db[i].status = "approved" /\ db[i].expiresAt # Null
         /\ db[i].expiresAt <= now => i \in sweep'.batch]_vars
=============================================================================
