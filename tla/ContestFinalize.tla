---------------------------- MODULE ContestFinalize ----------------------------
(***************************************************************************)
(* Contest finalization in ContestsService                                 *)
(* (src/src/contests/contests.service.ts): finalizeContest loads the       *)
(* contest (await), refuses it before endTime or once FINALIZED, loads the *)
(* signals created in [startTime, endTime] (await), scores the providers   *)
(* that submitted at least minSignals, keeps the top three, splits the     *)
(* prize pool 50/30/20 and saves the contest (await) before returning the  *)
(* winners and prizes.  Signals keep being created until endTime and       *)
(* closed at any time by the rest of the platform; concurrent admin calls  *)
(* of finalizeContest interleave at the awaits.                            *)
(*                                                                         *)
(* A signal is a record of its provider, whether it is CLOSED, the ROI     *)
(* calculateSignalROI gives it, its copied volume and its profit or loss;  *)
(* amounts are in units of 1e-8 (the eight decimals toFixed(8) keeps).     *)
(***************************************************************************)
EXTENDS Integers, Sequences, SequencesExt, FiniteSets, Functions

CONSTANTS
  SignalProviders, \* provider ids (model values)
  Admins,          \* concurrent finalizeContest calls (model values)
  Metric,          \* the contest's ContestMetric
  MinSignals,      \* contest.minSignals
  PrizePool,       \* contest.prizePool, in units of 1e-8
  EndTime,         \* contest.endTime, in clock ticks
  MaxTime,         \* bound on the clock
  MaxSignals,      \* bound on signals created
  Rois,            \* ROI values a closed signal may have
  Volumes,         \* totalCopiedVolume values a closed signal may have
  Pnls,            \* totalProfitLoss values a closed signal may have
  MaxCalls         \* bound on finalizeContest calls

Metrics == {"HIGHEST_ROI", "BEST_SUCCESS_RATE", "MOST_VOLUME", "MOST_FOLLOWERS"}

ASSUME Metric \in Metrics /\ MinSignals \in Nat /\ PrizePool \in Nat

VARIABLES
  contest,  \* the contests row: [status, winners]
  signals,  \* signals created in the contest window: id -> signal
  now,      \* the clock
  call,     \* each admin call in flight
  payouts,  \* results finalizeContest returned, in order: [winners, prizes, scores]
  calls     \* calls made so far

vars == <<contest, signals, now, call, payouts, calls>>

Null == "null"
NoCall == [pc |-> "idle", status |-> Null, snap |-> <<>>]

-----------------------------------------------------------------------------
(* Scoring: calculateContestEntries, calculateScore                        *)

\* The providers with an entry, and their submitted and closed signals.
Entrants(snap) == {snap[i].provider : i \in DOMAIN snap}
SignalsOf(snap, p) == {i \in DOMAIN snap : snap[i].provider = p}
ClosedOf(snap, p) == {i \in SignalsOf(snap, p) : snap[i].closed}

SumRoi(snap, S) == FoldSet(LAMBDA i, acc : snap[i].roi + acc, 0, S)

\* calculateScore(entry, metric).  successRate is the share of closed
\* signals whose totalProfitLoss is positive, in percent (floored: with at
\* most three signals no two distinct rates floor alike); followerCount is
\* never set, so 0.
Score(snap, p) ==
  CASE Metric = "HIGHEST_ROI" -> SumRoi(snap, ClosedOf(snap, p))
    [] Metric = "BEST_SUCCESS_RATE" ->
         IF ClosedOf(snap, p) = {} THEN 0
         ELSE (100 * Cardinality({i \in ClosedOf(snap, p) : snap[i].pnl > 0}))
                \div Cardinality(ClosedOf(snap, p))
    [] Metric = "MOST_VOLUME" ->
         FoldSet(LAMBDA i, acc : snap[i].volume + acc, 0, ClosedOf(snap, p))
    [] Metric = "MOST_FOLLOWERS" -> 0

\* entries.filter(e => e.signalsSubmitted.length >= contest.minSignals).
Qualified(snap) ==
  {p \in Entrants(snap) : Cardinality(SignalsOf(snap, p)) >= MinSignals}

\* The entries in Map insertion order, i.e. in the order the unordered
\* signals query returned their first signals: any order.
InsertionOrders(snap) == SetToSeqs(Qualified(snap))

\* The comparator of the descending sort: a goes first when it scores more.
Before(snap, a, b) == Score(snap, a) > Score(snap, b)

\* Insert x after every entry of the sorted s that x does not outscore.
RECURSIVE InsertSorted(_, _, _)
InsertSorted(snap, x, s) ==
  IF s = <<>> THEN <<x>>
  ELSE IF Before(snap, x, Head(s)) THEN <<x>> \o s
  ELSE <<Head(s)>> \o InsertSorted(snap, x, Tail(s))

\* Array.prototype.sort is stable: taking the entries in insertion order,
\* equal scores keep that order.
RECURSIVE SortEntries(_, _)
SortEntries(snap, s) ==
  IF s = <<>> THEN <<>>
  ELSE InsertSorted(snap, Last(s), SortEntries(snap, Front(s)))

\* sortedEntries.slice(0, 3).map(e => e.provider).
TopThree(s) == SubSeq(s, 1, IF Len(s) < 3 THEN Len(s) ELSE 3)

\* (total * share).toFixed(8) in units of 1e-8: the nearest unit; at an
\* exact half the binary double of parseFloat(prizePool) * share lies on
\* either side of it, so either neighbour can come out.
ToFixed8(num, den) ==
  IF 2 * (num % den) = den THEN {num \div den, num \div den + 1}
  ELSE {(2 * num + den) \div (2 * den)}

Shares == <<50, 30, 20>>

\* distributePrizes(winners, prizePool): the possible prize maps.
Prizes(winners) ==
  LET Share(k) == ToFixed8(PrizePool * Shares[k], 100)
      Amounts == {x \in [1..Len(winners) -> UNION {Share(k) : k \in 1..3}] :
                    \A k \in 1..Len(winners) : x[k] \in Share(k)}
  IN  {[p \in Range(winners) |-> x[CHOOSE k \in 1..Len(winners) : winners[k] = p]] :
         x \in Amounts}

-----------------------------------------------------------------------------
(* Operations                                                              *)

\* The rest of the platform creates a signal while the window is open.
CreateSignal ==
  /\ now <= EndTime /\ Cardinality(DOMAIN signals) < MaxSignals
  /\ \E p \in SignalProviders :
       LET i == Cardinality(DOMAIN signals) + 1 IN
       signals' = signals @@ (i :> [provider |-> p, closed |-> FALSE,
                                    roi |-> 0, volume |-> 0, pnl |-> 0])
  /\ UNCHANGED <<contest, now, call, payouts, calls>>

\* A signal is closed with its ROI, volume and profit, during the contest
\* or after it.
CloseSignal ==
  /\ \E i \in DOMAIN signals, r \in Rois, v \in Volumes, l \in Pnls :
       /\ ~signals[i].closed
       /\ signals' = [signals EXCEPT ![i].closed = TRUE, ![i].roi = r,
                                     ![i].volume = v, ![i].pnl = l]
  /\ UNCHANGED <<contest, now, call, payouts, calls>>

\* POST /contests/:id/finalize: await getContest(contestId).
FinalizeStart(a) ==
  /\ call[a].pc = "idle" /\ calls < MaxCalls
  /\ calls' = calls + 1
  /\ call' = [call EXCEPT ![a] = [NoCall EXCEPT !.pc = "f_entries",
                                                !.status = contest.status]]
  /\ UNCHANGED <<contest, signals, now, payouts>>

\* The two checks, then await calculateContestEntries(contest).
FinalizeEntries(a) ==
  /\ call[a].pc = "f_entries"
  /\ IF now < EndTime \/ call[a].status = "finalized"
       THEN call' = [call EXCEPT ![a] = NoCall]
       ELSE call' = [call EXCEPT ![a].pc = "f_save", ![a].snap = signals]
  /\ UNCHANGED <<contest, signals, now, payouts, calls>>

\* Score, pick and split, then await contestRepository.save(contest) and
\* return; with no qualified entry the winners are [] and prizes {}.
FinalizeSave(a) ==
  /\ call[a].pc = "f_save"
  /\ LET snap == call[a].snap IN
       \E order \in InsertionOrders(snap) :
         LET winners == TopThree(SortEntries(snap, order)) IN
         \E prizes \in Prizes(winners) :
           /\ contest' = [status |-> "finalized", winners |-> winners]
           /\ payouts' = Append(payouts,
                [winners |-> winners, prizes |-> prizes,
                 scores |-> [p \in Qualified(snap) |-> Score(snap, p)]])
  /\ call' = [call EXCEPT ![a] = NoCall]
  /\ UNCHANGED <<signals, now, calls>>

Tick == now < MaxTime /\ now' = now + 1 /\ UNCHANGED <<contest, signals, call, payouts, calls>>

\* createContest has saved an ACTIVE contest with no winners.
Init ==
  /\ contest = [status |-> "active", winners |-> Null]
  /\ signals = <<>> /\ now = 0
  /\ call = [a \in Admins |-> NoCall] /\ payouts = <<>> /\ calls = 0

Next ==
  \/ CreateSignal \/ CloseSignal \/ Tick
  \/ \E a \in Admins : FinalizeStart(a) \/ FinalizeEntries(a) \/ FinalizeSave(a)
  \/ UNCHANGED vars /\ now = MaxTime /\ calls = MaxCalls
     /\ \A a \in Admins : call[a].pc = "idle"

Spec == Init /\ [][Next]_vars

-----------------------------------------------------------------------------
\* The contest docs (part_005 "Tie in Scores", part_008 and part_000 edge
\* case 7): tied providers receive the same rank and the prize is split
\* equally between tied winners.  Of the qualified providers finalizeContest
\* scored, two with equal scores are both winners or both not, and tied
\* winners are paid the same.
TiedWinnersShareEqually ==
  \A k \in 1..Len(payouts) :
    LET w == payouts[k].winners
        sc == payouts[k].scores
    IN  \A p, q \in DOMAIN sc :
          sc[p] = sc[q] =>
            /\ (p \in Range(w) <=> q \in Range(w))
            /\ p \in Range(w) => payouts[k].prizes[p] = payouts[k].prizes[q]

\* contests.service.spec.ts 'should throw error if already finalized': a
\* contest is finalized once, so finalizeContest returns winners and prizes
\* at most once.
FinalizedOnce == Len(payouts) <= 1

\* The prizes finalizeContest hands out never add up to more than the prize
\* pool.
PrizesWithinPool ==
  \A k \in 1..Len(payouts) :
    SumFunction(payouts[k].prizes) <= PrizePool
=============================================================================
