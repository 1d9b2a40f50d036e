------------------------------ MODULE KycRecords ------------------------------
(***************************************************************************)
(* The record contract of the KYC lifecycle engine (spec section 3), with  *)
(* every operation atomic: what a kyc_verifications row may do, seen one   *)
(* committed statement at a time.                                          *)
(*                                                                         *)
(*  - A record is created PENDING, without an inquiry or an expiry, at a   *)
(*    fresh id; its user, level, provider and attemptCount never change.   *)
(*  - The provider inquiry id is attached once.                            *)
(*  - Approval sets expiresAt to now + TTL; no other change touches it, so *)
(*    expiresAt stays set after the record leaves APPROVED.                *)
(*  - Any other status change leaves every other field alone.             *)
(*  - A record is never deleted, except a just-created PENDING record      *)
(*    whose provider session was not stored (the rollback of startKyc).    *)
(*                                                                         *)
(* KycLifecycle, with its interleaved multi-step handlers, is checked to   *)
(* implement this specification (KycLifecycle!RecordsRefined).             *)
(***************************************************************************)
EXTENDS Integers

CONSTANTS Users, Null, TTL, Ids, Statuses, Providers

VARIABLES
  recs,   \* record id -> record
  clock   \* the current day

NewRecords ==
  [user: Users, level: {1, 2}, status: {"pending"}, provider: Providers,
   inquiry: {FALSE}, expiresAt: {Null}, attempt: Nat \ {0}]

\* A new PENDING record at an unused id; the others are untouched.
Open(i) ==
  /\ i \in Ids \ DOMAIN recs
  /\ DOMAIN recs' = DOMAIN recs \cup {i}
  /\ recs'[i] \in NewRecords
  /\ \A j \in DOMAIN recs : recs'[j] = recs[j]

\* The provider session's id is stored on the record.
Attach(i) ==
  /\ ~recs[i].inquiry
  /\ recs' = [recs EXCEPT ![i].inquiry = TRUE]

\* The record is approved: the expiry runs from today.
Approve(i) ==
  recs' = [recs EXCEPT ![i].status = "approved", ![i].expiresAt = clock + TTL]

\* Any other status is set; nothing else changes.
SetStatus(i) ==
  \E st \in Statuses \ {"approved"} : recs' = [recs EXCEPT ![i].status = st]

\* startKyc's rollback removes its own record before a session is stored.
Rollback(i) ==
  /\ recs[i].status = "pending" /\ ~recs[i].inquiry
  /\ recs' = [j \in DOMAIN recs \ {i} |-> recs[j]]

Tick == clock' = clock + 1 /\ UNCHANGED recs

Init == recs = [i \in {} |-> Null] /\ clock = 0

Next ==
  \/ \E i \in Ids : Open(i) /\ UNCHANGED clock
  \/ \E i \in DOMAIN recs :
       (Attach(i) \/ Approve(i) \/ SetStatus(i) \/ Rollback(i)) /\ UNCHANGED clock
  \/ Tick

Spec == Init /\ [][Next]_<<recs, clock>>
=============================================================================
