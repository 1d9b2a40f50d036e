------------------------------- MODULE KycGuard -------------------------------
(***************************************************************************)
(* KycGuard.canActivate (src/src/kyc/kyc.guard.ts) and                      *)
(* KycService.checkMonthlyLimit (kyc.service.ts 435-479), composed with    *)
(* the lifecycle engine whose records they read through getActiveKycLevel. *)
(*                                                                         *)
(* A guarded request reads the active level (await), then, on an amount    *)
(* route, checkMonthlyLimit reads it again, reads the month's usage and    *)
(* writes a LIMIT_CHECKED or LIMIT_EXCEEDED audit entry (three more        *)
(* awaits) before it throws or lets the route run.  The route's handler    *)
(* then books the amount on the trading ledger (`ledger`), the external    *)
(* collaborator the spec says the usage comes from.  Lifecycle requests,   *)
(* the sweep and the clock interleave with every guard step.               *)
(* Amounts are in units of 100 USD.                                        *)
(***************************************************************************)
EXTENDS KycLifecycle

CONSTANTS
  Gates,      \* concurrent guarded requests (model values)
  Amounts,    \* requiredAmount values of the routes, in 100 USD
  MaxGuarded  \* bound on guarded requests

NotSet == -1   \* a route metadata key that is undefined

\* KYC_MONTHLY_LIMITS in 100 USD; ENHANCED has no limit (null).
MonthlyLimit == [l \in Levels |-> CASE l = 0 -> 10 [] l = 1 -> 100 [] l = 2 -> Null]

VARIABLES
  gate,     \* the guarded request in each slot
  ledger,   \* per user: route runs and USD volume booked this month
  guarded   \* guarded requests so far

gvars == <<gate, ledger, guarded>>
allvars == <<vars, gvars>>

NoGate == [pc |-> "idle", user |-> Null, need |-> NotSet, amount |-> NotSet,
           level |-> 0, usage |-> 0]

\* getCurrentMonthUsage: a placeholder that always returns 0.
CurrentMonthUsage(u) == 0

\* isLimitReached: a non-null limit below usage + requested.
LimitReached(level, usage, amount) ==
  MonthlyLimit[level] # Null /\ usage + amount > MonthlyLimit[level]

\* The route handler runs and books its amount.
Admit(g) ==
  /\ ledger' = [ledger EXCEPT ![gate[g].user].runs = @ + 1,
                 ![gate[g].user].volume =
                   @ + IF gate[g].amount = NotSet THEN 0 ELSE gate[g].amount]
  /\ gate' = [gate EXCEPT ![g] = NoGate]

Refuse(g) == gate' = [gate EXCEPT ![g] = NoGate] /\ UNCHANGED ledger

\* A request reaches the guard; a route without metadata is let through.
GuardStart(g) ==
  /\ gate[g].pc = "idle" /\ guarded < MaxGuarded
  /\ guarded' = guarded + 1
  /\ \E u \in Users, need \in {NotSet, 1, 2}, amount \in Amounts \cup {NotSet} :
       IF need = NotSet /\ amount = NotSet THEN UNCHANGED <<gate, ledger>>
       ELSE /\ gate' = [gate EXCEPT ![g] = [NoGate EXCEPT !.pc = "g_level",
                          !.user = u, !.need = need, !.amount = amount]]
            /\ UNCHANGED ledger

\* await getActiveKycLevel; a level below the requirement is Forbidden.
GuardLevel(g) ==
  /\ gate[g].pc = "g_level"
  /\ LET lvl == ActiveLevel(gate[g].user) IN
       CASE gate[g].need # NotSet /\ lvl < gate[g].need -> Refuse(g)
         [] gate[g].amount # NotSet -> gate' = [gate EXCEPT ![g].pc = "c_level"]
                                     /\ UNCHANGED ledger
         [] OTHER -> Admit(g)
  /\ UNCHANGED guarded

\* checkMonthlyLimit: await getActiveKycLevel.
LimitLevel(g) ==
  /\ gate[g].pc = "c_level"
  /\ gate' = [gate EXCEPT ![g].pc = "c_usage", ![g].level = ActiveLevel(gate[g].user)]
  /\ UNCHANGED <<ledger, guarded>>

\* await getCurrentMonthUsage.
LimitUsage(g) ==
  /\ gate[g].pc = "c_usage"
  /\ gate' = [gate EXCEPT ![g].pc = "c_audit",
                          ![g].usage = CurrentMonthUsage(gate[g].user)]
  /\ UNCHANGED <<ledger, guarded>>

\* await audit(LIMIT_EXCEEDED or LIMIT_CHECKED); then throw or return.
LimitAudit(g) ==
  /\ gate[g].pc = "c_audit"
  /\ IF LimitReached(gate[g].level, gate[g].usage, gate[g].amount)
       THEN Refuse(g) ELSE Admit(g)
  /\ UNCHANGED guarded

GuardStep(g) == GuardLevel(g) \/ LimitLevel(g) \/ LimitUsage(g) \/ LimitAudit(g)

\* A restart also drops the guarded requests in flight.
GuardedCrash ==
  Crash /\ gate' = [g \in Gates |-> NoGate] /\ UNCHANGED <<ledger, guarded>>

GuardInit ==
  /\ Init
  /\ gate = [g \in Gates |-> NoGate]
  /\ ledger = [u \in Users |-> [runs |-> 0, volume |-> 0]]
  /\ guarded = 0

GuardNext ==
  \/ (Next /\ ~Crash) /\ UNCHANGED gvars
  \/ GuardedCrash
  \/ \E g \in Gates : GuardStart(g) /\ UNCHANGED vars
  \/ \E g \in Gates : GuardStep(g) /\ UNCHANGED vars

GuardSpec ==
  /\ GuardInit /\ [][GuardNext]_allvars
  /\ Fairness /\ \A g \in Gates : WF_allvars(GuardStep(g) /\ UNCHANGED vars)

-----------------------------------------------------------------------------
GuardTypeOK ==
  /\ TypeOK
  /\ gate \in [Gates -> [pc: {"idle", "g_level", "c_level", "c_usage", "c_audit"},
                         user: Users \cup {Null}, need: {NotSet, 1, 2},
                         amount: Amounts \cup {NotSet}, level: Levels, usage: Nat]]
  /\ ledger \in [Users -> [runs: 0..MaxGuarded, volume: Nat]]
  /\ guarded \in 0..MaxGuarded

\* A route with @RequireKycLevel(L) runs only while its user holds level L:
\* on an amount route the handler runs after checkMonthlyLimit's three
\* further awaits, and the approval the guard read must still be APPROVED
\* and unexpired when it does.
RouteRunsAtRequiredLevel ==
  [][\A g \in Gates :
       LET u == gate[g].user IN
       gate[g].pc # "idle" /\ gate[g].need # NotSet /\ gate'[g].pc = "idle"
       /\ ledger'[u].runs > ledger[u].runs => ActiveLevel(u) >= gate[g].need]_allvars

\* Spec 4.4 and 8: checkMonthlyLimit refuses a request when the month's usage
\* plus the requested amount exceeds the level's limit (usage 600 and 500
\* requested at level NONE is refused): a request the limit check lets
\* through keeps the month's booked volume within the limit it was checked
\* against.
LimitCountsUsage ==
  [][\A g \in Gates :
       LET u == gate[g].user IN
       gate[g].pc = "c_audit" /\ gate'[g].pc = "idle"
       /\ ledger'[u].runs > ledger[u].runs
       /\ MonthlyLimit[gate[g].level] # Null =>
         ledger'[u].volume <= MonthlyLimit[gate[g].level]]_allvars
=============================================================================
