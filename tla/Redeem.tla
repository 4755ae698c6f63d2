------------------------------- MODULE Redeem -------------------------------
(***************************************************************************)
(* redeem_all of src/redeem.rs: drain a wallet's redeemable positions in   *)
(* passes over the paged index of DataPaging, through a relayer that takes *)
(* one action per wallet at a time.  The index lags the chain: a redeemed  *)
(* row stays listed until it is forgotten.                                 *)
(*                                                                         *)
(* A settle wait lasts until the action of redeem_all that is in flight    *)
(* has landed, as the timely ConvertEngine's do.                           *)
(***************************************************************************)
EXTENDS DataPaging

CONSTANTS
  CondOf,      \* condition of a row
  SideOf,      \* its outcome: "yes", "no", or "other" for a named one
  NegRisk,     \* the conditions redeemed through the adapter
  Holdings,    \* the balances the wallet may start with
  Caps,        \* values of max_conditions, 0 for none
  MinShares,   \* min_shares_raw
  BatchSize,   \* batch_size.max(1)
  Retries,     \* batch_max_retries
  BusyMax,     \* wallet_busy_max_retries
  MayLose,     \* an accepted submission's HTTP response may be lost
  Shared,      \* others submit actions of the wallet, the convert worker for one
  MayFail      \* page and balance reads and submissions may fail

Condition == {CondOf[r] : r \in Row}

ASSUME RedeemAssumption ==
  /\ CondOf \in [Row -> Condition] /\ SideOf \in [Row -> {"yes", "no", "other"}]
  /\ NegRisk \subseteq Condition /\ Holdings \subseteq [Row -> Nat] /\ Caps \subseteq Nat
  /\ {MinShares, Retries, BusyMax} \subseteq Nat /\ BatchSize \in Nat \ {0}
  /\ {MayLose, Shared, MayFail} \subseteq BOOLEAN
  \* a condition has one token on either side
  /\ \A r, q \in Row : CondOf[r] = CondOf[q] /\ SideOf[r] = SideOf[q] /\ SideOf[r] # "other" => r = q

VARIABLES
  bal,        \* balances on chain
  inflight,   \* calls of the wallet's active relayer action, or <<>>
  pc,         \* where redeem_all is
  max,        \* max_conditions
  todo,       \* calls of this pass not yet disposed of
  attempt,    \* of submit_batches, for the batch at the head of todo
  busy,       \* of submit_and_settle_with_busy_retry
  ok, bad,    \* conditions redeemed and failed in this pass
  summary,    \* the totals of the passes before
  result,     \* how redeem_all ended: which `break`, or "err"
  \* history, read by the properties alone
  reverted,   \* a batch reverted on chain
  lost,       \* a response was lost
  skipped,    \* a batch was given up
  claimed     \* rows whose condition was counted redeemed

chain == <<bal, inflight, reverted>>
batch == <<todo, attempt, busy, ok, bad, lost, skipped, claimed>>
outcome == <<summary, result>>
vars == <<pvars, chain, pc, max, batch, outcome>>

Init ==
  /\ PInit /\ bal \in Holdings /\ inflight = <<>> /\ reverted = FALSE
  /\ pc = "idle" /\ max \in Caps /\ todo = <<>> /\ attempt = 0 /\ busy = 0
  /\ ok = 0 /\ bad = 0 /\ lost = FALSE /\ skipped = FALSE /\ claimed = {}
  /\ summary = [redeemed |-> 0, failed |-> 0] /\ result = "none"

---------------------------------------------------------------------------
(* The chain, the relayer and the index.                                   *)

\* A redeem burns the whole balance of the index sets it names, and reverts
\* when nothing is held of them; a reverting call reverts its batch.
Pays(b, c) == \E r \in c.rows : b[r] > 0
Burns(calls) == UNION {calls[i].rows : i \in DOMAIN calls}

Foreign == <<[cond |-> "none", rows |-> {}]>>
Busy    == inflight # <<>>
Landed  == inflight \in {<<>>, Foreign}

Land ==
  /\ Busy /\ inflight' = <<>>
  /\ \/ inflight = Foreign /\ UNCHANGED <<bal, reverted>>
     \/ /\ ~Landed /\ \A i \in DOMAIN inflight : Pays(bal, inflight[i])
        /\ bal' = [r \in Row |-> IF r \in Burns(inflight) THEN 0 ELSE bal[r]]
        /\ UNCHANGED reverted
     \/ /\ ~Landed /\ \E i \in DOMAIN inflight : ~Pays(bal, inflight[i])
        /\ reverted' = TRUE /\ UNCHANGED bal
  /\ UNCHANGED <<pvars, pc, max, batch, outcome>>

Accept(calls) == ~Busy /\ inflight' = calls

Others ==
  /\ Shared /\ Accept(Foreign)
  /\ UNCHANGED <<pvars, bal, reverted, pc, max, batch, outcome>>

\* The index notices some of the redeemed rows, or a resolved condition.
Forget ==
  /\ \E gone \in SUBSET {r \in ToSet(listed) : bal[r] = 0} : Delist(gone)
  /\ UNCHANGED <<chain, pc, max, batch, outcome>>

Resolve ==
  /\ \E c \in Condition :
       LET rows == {r \in Row : CondOf[r] = c /\ bal[r] > 0}
       IN  rows # {} /\ \E order \in SetToSeqs(rows) : Enlist(order)
  /\ UNCHANGED <<chain, pc, max, batch, outcome>>

---------------------------------------------------------------------------
(* group_redeemable, build_redemptions, build_calls.                       *)

\* First-seen order of the conditions of a page set.
Order(rows) ==
  FoldLeft(LAMBDA s, r : IF CondOf[r] \in ToSet(s) THEN s ELSE Append(s, CondOf[r]),
           <<>>, rows)

\* yes_token and no_token of a group; a row with a named outcome sets neither.
Tokens(c) == {r \in ToSet(out) : CondOf[r] = c /\ SideOf[r] \in {"yes", "no"}}
TokenHeld(c, side) ==
  LET token == {r \in Tokens(c) : SideOf[r] = side}
  IN  IF token = {} THEN 0 ELSE bal[CHOOSE r \in token : TRUE]
Held(c) == TokenHeld(c, "yes") + TokenHeld(c, "no")
Kept(c) == Held(c) > 0 /\ Held(c) >= MinShares

\* The adapter is told the sides held, the CTF both outcome slots.
CallFirstSide(c) ==          \* mutant: one index set, whatever is held
  LET held == {r \in Tokens(c) : bal[r] > 0}
  IN  [cond |-> c, rows |-> IF c \in NegRisk THEN {CHOOSE r \in held : TRUE}
                            ELSE {r \in Row : CondOf[r] = c}]
Call(c) ==
  [cond |-> c, rows |-> IF c \in NegRisk THEN {r \in Tokens(c) : bal[r] > 0}
                        ELSE {r \in Row : CondOf[r] = c}]

Calls ==
  LET kept == Only(Order(out), {c \in Condition : Kept(c)})
  IN  [i \in DOMAIN kept |-> Call(kept[i])]

Total == summary.redeemed + summary.failed

TruncatePass(calls) ==       \* mutant: every pass may redeem max_conditions
  IF max > 0 /\ max < Len(calls) THEN SubSeq(calls, 1, max) ELSE calls
Truncate(calls) ==
  IF max > 0 /\ max - Total < Len(calls) THEN SubSeq(calls, 1, max - Total) ELSE calls

---------------------------------------------------------------------------
(* redeem_all: passes.                                                     *)

NewPass == pc' = "fetch" /\ StartFetch("redeemable")
Stop(how) == pc' = "idle" /\ result' = how /\ UNCHANGED pvars

RedeemAll ==
  /\ pc = "idle" /\ ~Fetching /\ NewPass
  /\ summary' = [redeemed |-> 0, failed |-> 0] /\ result' = "none"
  /\ ok' = 0 /\ bad' = 0 /\ claimed' = {}
  /\ UNCHANGED <<chain, max, todo, attempt, busy, lost, skipped>>

\* all_positions, by a caller of its own.
ListAll ==
  /\ pc = "idle" /\ StartFetch("all") /\ result' = "none"
  /\ UNCHANGED <<chain, pc, max, batch, summary>>

Page ==
  /\ AllPage \/ RedeemablePage \/ (MayFail /\ PageFails)
  /\ UNCHANGED <<chain, pc, max, batch, outcome>>

\* A page or the balance read failed: the summary so far is lost.
PassFails ==
  /\ pc = "fetch"
  /\ fetch = "failed" \/ (MayFail /\ fetch = "redeemableDone" /\ out # <<>>)
  /\ Stop("err") /\ UNCHANGED <<chain, max, batch, summary>>

NothingListed ==
  /\ pc = "fetch" /\ fetch = "redeemableDone" /\ out = <<>>
  /\ Stop("empty") /\ UNCHANGED <<chain, max, batch, summary>>

\* read_and_plan; the guard `remaining == 0` never stops a pass here, the
\* pass before has.
NothingHeld ==
  /\ pc = "fetch" /\ fetch = "redeemableDone" /\ out # <<>> /\ Calls = <<>>
  /\ Stop("nothing") /\ UNCHANGED <<chain, max, batch, summary>>

PlanPass ==
  /\ pc = "fetch" /\ fetch = "redeemableDone" /\ Calls # <<>>
  /\ pc' = "submit" /\ todo' = Truncate(Calls)
  /\ ok' = 0 /\ bad' = 0 /\ attempt' = 0 /\ busy' = 0
  /\ UNCHANGED <<pvars, chain, max, lost, skipped, claimed, outcome>>

---------------------------------------------------------------------------
(* submit_batches.                                                         *)

Smaller(a, b) == IF a < b THEN a ELSE b
Batch == SubSeq(todo, 1, Smaller(BatchSize, Len(todo)))

Rest == SubSeq(todo, Len(Batch) + 1, Len(todo))

EndPass ==
  /\ summary' = [redeemed |-> summary.redeemed + ok', failed |-> summary.failed + bad']
  /\ LET total == summary'.redeemed + summary'.failed
     IN  IF max > 0 /\ total >= max THEN Stop("cap")
         ELSE IF ok' = 0 THEN Stop("stuck")
         ELSE IF ~hitCap THEN Stop("drained")
         ELSE NewPass /\ UNCHANGED result

NextBatch ==
  /\ todo' = Rest /\ attempt' = 0 /\ busy' = 0
  /\ IF Rest # <<>> THEN pc' = "submit" /\ UNCHANGED <<pvars, outcome>> ELSE EndPass

FailBatchForever ==          \* mutant: a failed try is not counted
  /\ pc' = "retrywait"
  /\ UNCHANGED <<pvars, todo, attempt, busy, ok, bad, skipped, claimed, outcome>>
FailBatchCountedOk ==        \* mutant: a batch given up counts as redeemed
  \/ /\ attempt < Retries /\ attempt' = attempt + 1 /\ pc' = "retrywait"
     /\ UNCHANGED <<pvars, todo, busy, ok, bad, skipped, claimed, outcome>>
  \/ /\ attempt = Retries /\ ok' = ok + Len(Batch) /\ skipped' = TRUE
     /\ UNCHANGED <<bad, claimed>> /\ NextBatch
\* Any error of the submission, quota exhaustion included.
FailBatch ==
  \/ /\ attempt < Retries /\ attempt' = attempt + 1 /\ pc' = "retrywait"
     /\ UNCHANGED <<pvars, todo, busy, ok, bad, skipped, claimed, outcome>>
  \/ /\ attempt = Retries /\ bad' = bad + Len(Batch) /\ skipped' = TRUE
     /\ UNCHANGED <<ok, claimed>> /\ NextBatch

Accepted ==
  /\ pc = "submit" /\ Accept(Batch) /\ pc' = "settle"
  /\ UNCHANGED <<pvars, bal, reverted, max, batch, outcome>>

Lost ==
  /\ MayLose /\ pc = "submit" /\ Accept(Batch) /\ lost' = TRUE /\ FailBatch
  /\ UNCHANGED <<bal, reverted, max>>

Refused ==
  /\ MayFail /\ pc = "submit" /\ FailBatch
  /\ UNCHANGED <<chain, max, lost>>

WalletBusy ==
  /\ pc = "submit" /\ Busy /\ busy < BusyMax
  /\ busy' = busy + 1 /\ pc' = "busywait"
  /\ UNCHANGED <<pvars, chain, max, todo, attempt, ok, bad, lost, skipped, claimed, outcome>>

WalletStillBusy ==
  /\ pc = "submit" /\ Busy /\ busy = BusyMax /\ FailBatch
  /\ UNCHANGED <<chain, max, lost>>

BusyWaited ==
  /\ pc = "busywait" /\ Landed /\ pc' = "submit"
  /\ UNCHANGED <<pvars, chain, max, batch, outcome>>

RetryWaited ==
  /\ pc = "retrywait" /\ Landed /\ pc' = "submit" /\ busy' = 0
  /\ UNCHANGED <<pvars, chain, max, todo, attempt, ok, bad, lost, skipped, claimed, outcome>>

Counted ==
  /\ ok' = ok + Len(Batch) /\ UNCHANGED bad
  /\ claimed' = claimed \union UNION {Tokens(Batch[i].cond) : i \in DOMAIN Batch}

SettledAtOnce ==             \* mutant: the settle wait is dropped
  /\ pc = "settle" /\ Counted /\ NextBatch
  /\ UNCHANGED <<chain, max, lost, skipped>>
Settled ==
  /\ pc = "settle" /\ Landed /\ Counted /\ NextBatch
  /\ UNCHANGED <<chain, max, lost, skipped>>

---------------------------------------------------------------------------
PassStep  == PassFails \/ NothingListed \/ NothingHeld \/ PlanPass
BatchStep == Accepted \/ Lost \/ Refused \/ WalletBusy \/ WalletStillBusy
               \/ BusyWaited \/ RetryWaited \/ Settled
Next == RedeemAll \/ ListAll \/ Page \/ PassStep \/ BatchStep
          \/ Land \/ Others \/ Forget \/ Resolve

Spec == Init /\ [][Next]_vars

\* A ready task is run, every request returns, an accepted action lands.
Fairness == WF_vars(Page) /\ WF_vars(PassStep) /\ WF_vars(BatchStep) /\ WF_vars(Land)
FairSpec == Spec /\ Fairness

---------------------------------------------------------------------------
Returned == pc = "idle" /\ result \notin {"none", "err"}

\* The conditions counted, redeemed or failed, never exceed max_conditions,
\* however many passes they take (RedeemOptions, "across the whole call").
CapIsTotal ==
  max > 0 => Total + (IF pc \in {"idle", "fetch"} THEN 0 ELSE ok + bad) <= max

\* Resubmitting a whole batch is the only way to submit a redeem of nothing:
\* no batch reverts unless a response was lost ("a re-fetch never returns it
\* twice", though the index lags).
FreshBatchesRun == reverted => lost

\* A condition counted as redeemed has been paid out once the chain is quiet,
\* responses lost and batches resubmitted included, unless a batch was given
\* up: a given-up batch may still land and spoil a later one.
ClaimedArePaid ==
  Landed /\ ~skipped => \A r \in claimed : bal[r] = 0

\* "the redeemable set is fully drained": when the loop ends because the page
\* set was not cut off, that page set was all the index listed, if it did not
\* move meanwhile, and nothing worth min_shares_raw is left of it, unless a
\* batch was given up.
DrainedMeansPaid ==
  Returned /\ result = "drained" /\ bad = 0 /\ ~reverted /\ Landed =>
    (\A r \in ToSet(out) : ~Kept(CondOf[r])) /\ (still => missed = {})

\* redeem_all returns: passes, batches, retries and busy retries all end.
RedeemReturns == pc # "idle" ~> pc = "idle"

\* What the comment of redeem_all claims, refuted by its own steps: "draining
\* the redeemable set to empty (or until `max_conditions`)".
StopsOnlyWhenDone ==
  Returned /\ result \in {"empty", "nothing", "drained"} /\ still /\ Landed =>
    \A r \in ToSet(listed) : SideOf[r] = "other" \/ bal[r] = 0
=============================================================================
