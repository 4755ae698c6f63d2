---------------------------- MODULE ConvertEngine ----------------------------
(***************************************************************************)
(* The merge -> convert -> wrap cycle of src/convert.rs (process_jobs and  *)
(* the helpers it awaits) against a relayer that takes one action per      *)
(* wallet at a time, a chain that lands it later, and a user who trades.   *)
(*                                                                         *)
(* Every await of the code is a point where the rest may move.  A sleep is *)
(* a step of its own; with Timely it lasts until the action it waits for   *)
(* has landed, which is what the `settle` constant is chosen for, and      *)
(* without it nothing is known when it ends.                               *)
(***************************************************************************)
EXTENDS ConvertPlan

CONSTANTS
  Wallets,    \* the wallets a run may start from
  Jobs,       \* the distinct events handed to process_jobs
  Rebuilds,   \* REBUILD_ATTEMPTS
  BusyMax,    \* ConvertDelays.wallet_busy_max_retries
  Timely,     \* a settle wait outlasts the action in flight
  MayLose,    \* an accepted submission's HTTP response may be lost
  MayDrop,    \* the relayer may give an accepted action up
  MaxTrades,  \* bound: fills during a run
  MaySell,    \* fills may also take NO away
  DirectOps   \* process_merge and process_convert are called between cycles

ASSUME EngineAssumption ==
  /\ Rebuilds \in Nat /\ BusyMax \in Nat /\ MaxTrades \in Nat
  /\ {Timely, MayLose, MayDrop, MaySell, DirectOps} \subseteq BOOLEAN
ASSUME HandedOverAssumption == Wallets \subseteq Wallet /\ IsJobList(Jobs)

VARIABLES
  wallet,     \* balances on chain
  inflight,   \* the wallet's active relayer action, or NoAction
  reverted,   \* a chunk of a cycle reverted on chain
  trades,     \* fills so far
  pc,         \* where the engine is
  round,      \* `attempt` of process_jobs
  read,       \* which of the two joined RPC reads of plan_jobs have answered
  chunks,     \* this round's submissions
  cash,       \* WrapSnapshot.balance as plan_jobs read it
  k,          \* the chunk being submitted
  busy,       \* `attempt` of the busy-retry loop running
  ctx,        \* which wrap_best_effort call this is
  wrapping,   \* the wrap batch built from the last wrap snapshot
  result,     \* what the last operation returned
  \* history, read by the properties alone
  wrapped,    \* how the cycle's last wrap ended
  journal,    \* the chunks of this round the relayer accepted
  owed,       \* cash the wallet holds once this round's plan has landed
  dirty,      \* a fill happened since the balances were read
  quota       \* the relayer answered "quota" in this cycle

chain   == <<wallet, inflight, reverted, trades>>
engine  == <<pc, round, read, chunks, cash, k, busy, ctx, wrapping, result>>
history == <<wrapped, journal, owed, dirty, quota>>
vars    == <<chain, engine, history>>

NoAction == [kind |-> "none", calls |-> <<>>]
Action(kind, calls) == [kind |-> kind, calls |-> calls]

Where == {"idle", "plan", "submit", "settle", "busywait", "rebuildwait",
          "wrapread", "wrapsubmit", "wrapwait", "direct"}

ControlTypeOK ==
  /\ pc \in Where /\ round \in 0..Rebuilds /\ read \subseteq {"balances", "cash"}
  /\ k \in Nat \ {0} /\ busy \in 0..BusyMax
  /\ ctx \in {"leftover", "post", "salvage"}
  /\ result \in {"none", "ok", "err", "quota", "merged", "converted"}
  /\ wrapped \in {"no", "nothing", "sent", "failed"}
  /\ trades \in 0..MaxTrades

TypeOK ==
  /\ ControlTypeOK
  /\ wallet \in Wallet /\ cash \in Nat /\ owed \in Nat
  /\ {reverted, dirty, quota} \subseteq BOOLEAN
  /\ inflight.kind \in {"none", "chunk", "wrap", "direct"}
  /\ inflight.kind = "none" <=> inflight = NoAction
  /\ pc \in {"submit", "settle", "busywait"} => k \in DOMAIN chunks

Init ==
  /\ wallet \in Wallets /\ inflight = NoAction /\ reverted = FALSE /\ trades = 0
  /\ pc = "idle" /\ round = 0 /\ read = {} /\ chunks = <<>> /\ cash = 0
  /\ k = 1 /\ busy = 0 /\ ctx = "post" /\ wrapping = <<>> /\ result = "none"
  /\ wrapped = "no" /\ journal = <<>> /\ owed = 0 /\ dirty = FALSE /\ quota = FALSE

---------------------------------------------------------------------------
(* The relayer and the chain.                                              *)

Accept(kind, calls) == inflight = NoAction /\ inflight' = Action(kind, calls)
Busy    == inflight # NoAction
Settled == Timely => ~Busy

Land ==
  LET run == RunBatch(wallet, inflight.calls)
  IN  /\ Busy /\ inflight' = NoAction
      /\ wallet' = run.w
      /\ reverted' = (reverted \/ (inflight.kind = "chunk" /\ ~run.ok))
      /\ UNCHANGED <<trades, engine, history>>

Drop ==
  /\ MayDrop /\ Busy /\ inflight' = NoAction
  /\ UNCHANGED <<wallet, reverted, trades, engine, history>>

Trade ==
  /\ trades < MaxTrades /\ trades' = trades + 1 /\ dirty' = TRUE
  /\ \E l \in Leg :
       \/ wallet' = [wallet EXCEPT !.no[l] = @ + 1]
       \/ wallet' = [wallet EXCEPT !.yes[l] = @ + 1]
       \/ MaySell /\ wallet.no[l] > 0 /\ wallet' = [wallet EXCEPT !.no[l] = @ - 1]
  /\ UNCHANGED <<inflight, reverted, engine, wrapped, journal, owed, quota>>

---------------------------------------------------------------------------
(* process_jobs: rounds.                                                   *)

\* convert_worker sleeps out retry_backoff after a failed cycle; after an Ok
\* the next cycle may follow at once.
StartCycle ==
  /\ pc = "idle" /\ pc' = "plan"
  /\ result \in {"err", "quota"} => Settled
  /\ round' = 0 /\ read' = {} /\ result' = "none"
  /\ wrapped' = "no" /\ quota' = FALSE
  /\ UNCHANGED <<chain, chunks, cash, k, busy, ctx, wrapping, journal, owed, dirty>>

FailRoundForever ==          \* mutant: `attempt` never advances
  /\ pc' = "rebuildwait" /\ UNCHANGED <<round, busy, ctx>>

\* An Err other than quota: rebuild, or salvage after the last round.
FailRound ==
  \/ /\ round < Rebuilds /\ round' = round + 1
     /\ pc' = "rebuildwait" /\ UNCHANGED <<busy, ctx>>
  \/ /\ round = Rebuilds /\ pc' = "wrapread"
     /\ ctx' = "salvage" /\ busy' = 0 /\ UNCHANGED round

RebuildAtOnce ==             \* mutant: no settle wait before the re-read
  /\ pc = "rebuildwait"
  /\ pc' = "plan" /\ read' = {}
  /\ UNCHANGED <<chain, round, chunks, cash, k, busy, ctx, wrapping, result, history>>
RebuildWaited ==
  /\ pc = "rebuildwait" /\ Settled
  /\ pc' = "plan" /\ read' = {}
  /\ UNCHANGED <<chain, round, chunks, cash, k, busy, ctx, wrapping, result, history>>

\* plan_jobs joins two RPC reads: either may answer first, the chain between.
ReadBalances ==
  /\ pc = "plan" /\ "balances" \notin read
  /\ read' = read \union {"balances"}
  /\ chunks' = GasChunks(PlanCalls(wallet, Jobs))
  /\ k' = 1 /\ busy' = 0
  /\ journal' = <<>> /\ dirty' = FALSE
  /\ owed' = Cash(wallet) + Proceeds(wallet, Jobs)
  /\ UNCHANGED <<chain, pc, round, cash, ctx, wrapping, result, wrapped, quota>>

ReadCash ==
  /\ pc = "plan" /\ "cash" \notin read
  /\ read' = read \union {"cash"} /\ cash' = wallet.usdce
  /\ UNCHANGED <<chain, pc, round, chunks, k, busy, ctx, wrapping, result, history>>

PlanFails ==
  /\ pc = "plan" /\ FailRound
  /\ UNCHANGED <<chain, read, chunks, cash, k, wrapping, result, history>>

PlanRead == pc = "plan" /\ read = {"balances", "cash"}

PlannedCalls ==
  /\ PlanRead /\ chunks # <<>> /\ pc' = "submit"
  /\ UNCHANGED <<chain, round, read, chunks, cash, k, busy, ctx, wrapping, result, history>>

PlannedLeftover ==
  /\ PlanRead /\ chunks = <<>> /\ cash > 0
  /\ pc' = "wrapread" /\ ctx' = "leftover"
  /\ UNCHANGED <<chain, round, read, chunks, cash, k, busy, wrapping, result, history>>

PlannedNothing ==
  /\ PlanRead /\ chunks = <<>> /\ cash = 0
  /\ pc' = "idle" /\ result' = "ok"
  /\ UNCHANGED <<chain, round, read, chunks, cash, k, busy, ctx, wrapping, history>>

---------------------------------------------------------------------------
(* submit_and_settle_with_busy_retry on chunk k.                           *)

SubmitChunk == pc = "submit" /\ Accept("chunk", CallsOf(chunks[k])) /\ journal' = Append(journal, k)

ChunkAccepted ==
  /\ SubmitChunk /\ pc' = "settle"
  /\ UNCHANGED <<wallet, reverted, trades, round, read, chunks, cash, k, busy, ctx, wrapping,
                 result, wrapped, owed, dirty, quota>>

ChunkLostRetried ==          \* mutant: every error is retried as busy is
  /\ MayLose /\ SubmitChunk
  /\ busy < BusyMax /\ busy' = busy + 1 /\ pc' = "busywait"
  /\ UNCHANGED <<wallet, reverted, trades, round, read, chunks, cash, k, ctx, wrapping,
                 result, wrapped, owed, dirty, quota>>
\* Accepted, but the response never arrives: Err, and not a busy one.
ChunkLost ==
  /\ MayLose /\ SubmitChunk /\ FailRound
  /\ UNCHANGED <<wallet, reverted, trades, read, chunks, cash, k, wrapping,
                 result, wrapped, owed, dirty, quota>>

ChunkBusy ==
  /\ pc = "submit" /\ Busy /\ busy < BusyMax
  /\ busy' = busy + 1 /\ pc' = "busywait"
  /\ UNCHANGED <<chain, round, read, chunks, cash, k, ctx, wrapping, result, history>>

ChunkStillBusy ==
  /\ pc = "submit" /\ Busy /\ busy = BusyMax /\ FailRound
  /\ UNCHANGED <<chain, read, chunks, cash, k, wrapping, result, history>>

ChunkWaited ==
  /\ pc = "busywait" /\ Settled /\ pc' = "submit"
  /\ UNCHANGED <<chain, round, read, chunks, cash, k, busy, ctx, wrapping, result, history>>

\* The nonce read fails, the request is refused, the batch would revert.
ChunkRejected ==
  /\ pc = "submit" /\ FailRound
  /\ UNCHANGED <<chain, read, chunks, cash, k, wrapping, result, history>>

ChunkQuotaRebuilds ==        \* mutant: quota is an error like any other
  /\ pc = "submit" /\ quota' = TRUE /\ FailRound
  /\ UNCHANGED <<chain, read, chunks, cash, k, wrapping, result, wrapped, journal, owed, dirty>>
ChunkQuota ==
  /\ pc = "submit" /\ quota' = TRUE /\ pc' = "idle" /\ result' = "quota"
  /\ UNCHANGED <<chain, round, read, chunks, cash, k, busy, ctx, wrapping,
                 wrapped, journal, owed, dirty>>

NextChunkPastEnd ==          \* mutant: the loop over the ranges runs one too far
  k <= Len(chunks) /\ k' = k + 1 /\ pc' = "submit" /\ busy' = 0 /\ UNCHANGED ctx
NextChunk == k < Len(chunks) /\ k' = k + 1 /\ pc' = "submit" /\ busy' = 0 /\ UNCHANGED ctx
LastChunk == k = Len(chunks) /\ pc' = "wrapread" /\ ctx' = "post" /\ busy' = 0 /\ UNCHANGED k

SettleSkipped ==             \* mutant: the wait after a submission is dropped
  /\ pc = "settle" /\ (NextChunk \/ LastChunk)
  /\ UNCHANGED <<chain, round, read, chunks, cash, wrapping, result, history>>
LastChunkSkipped ==          \* mutant: the loop over the ranges ends one early
  /\ pc = "settle" /\ Settled
  /\ \/ k + 1 < Len(chunks) /\ NextChunk
     \/ k + 1 >= Len(chunks) /\ pc' = "wrapread" /\ ctx' = "post" /\ busy' = 0 /\ UNCHANGED k
  /\ UNCHANGED <<chain, round, read, chunks, cash, wrapping, result, history>>
ChunkSettled ==
  /\ pc = "settle" /\ Settled /\ (NextChunk \/ LastChunk)
  /\ UNCHANGED <<chain, round, read, chunks, cash, wrapping, result, history>>

---------------------------------------------------------------------------
(* wrap_best_effort / wrap_with_busy_retry: each try reads afresh.         *)

EndWrap(how) ==
  /\ wrapped' = how /\ pc' = "idle"
  /\ result' = IF ctx = "salvage" THEN "err" ELSE "ok"

WrapNothing ==
  /\ pc = "wrapread" /\ wallet.usdce = 0 /\ EndWrap("nothing")
  /\ UNCHANGED <<chain, round, read, chunks, cash, k, busy, ctx, wrapping,
                 journal, owed, dirty, quota>>

WrapReadFails ==
  /\ pc = "wrapread" /\ EndWrap("failed")
  /\ UNCHANGED <<chain, round, read, chunks, cash, k, busy, ctx, wrapping,
                 journal, owed, dirty, quota>>

WrapCalls(amount, allowance) ==
  (IF allowance < amount THEN <<Approve>> ELSE <<>>) \o <<Wrap(amount)>>

WrapPlanned ==               \* mutant: sized by the balance plan_jobs read
  /\ pc = "wrapread" /\ wallet.usdce > 0
  /\ wrapping' = WrapCalls(cash, wallet.allowance) /\ pc' = "wrapsubmit"
  /\ UNCHANGED <<chain, round, read, chunks, cash, k, busy, ctx, result, history>>
WrapRead ==
  /\ pc = "wrapread" /\ wallet.usdce > 0
  /\ wrapping' = WrapCalls(wallet.usdce, wallet.allowance) /\ pc' = "wrapsubmit"
  /\ UNCHANGED <<chain, round, read, chunks, cash, k, busy, ctx, result, history>>

WrapAccepted ==
  /\ pc = "wrapsubmit" /\ Accept("wrap", wrapping) /\ EndWrap("sent")
  /\ UNCHANGED <<wallet, reverted, trades, round, read, chunks, cash, k, busy, ctx, wrapping,
                 journal, owed, dirty, quota>>

WrapLost ==
  /\ MayLose /\ pc = "wrapsubmit" /\ Accept("wrap", wrapping) /\ EndWrap("failed")
  /\ UNCHANGED <<wallet, reverted, trades, round, read, chunks, cash, k, busy, ctx, wrapping,
                 journal, owed, dirty, quota>>

WrapBusy ==
  /\ pc = "wrapsubmit" /\ Busy /\ busy < BusyMax
  /\ busy' = busy + 1 /\ pc' = "wrapwait"
  /\ UNCHANGED <<chain, round, read, chunks, cash, k, ctx, wrapping, result, history>>

WrapWaited ==
  /\ pc = "wrapwait" /\ Settled /\ pc' = "wrapread"
  /\ UNCHANGED <<chain, round, read, chunks, cash, k, busy, ctx, wrapping, result, history>>

\* Refused, out of quota, or busy once too often: logged, never fatal.
WrapRejected ==
  /\ pc = "wrapsubmit" /\ EndWrap("failed") /\ quota' \in {quota, TRUE}
  /\ UNCHANGED <<chain, round, read, chunks, cash, k, busy, ctx, wrapping,
                 journal, owed, dirty>>

---------------------------------------------------------------------------
(* process_merge and process_convert, called between cycles.               *)

ProcessMerge ==
  /\ DirectOps /\ pc = "idle"
  /\ \E l \in Leg : /\ CallValid(wallet, Merge(l, 1))
                    /\ Accept("direct", <<Merge(l, 1)>>)
  /\ result' = "merged"
  /\ UNCHANGED <<wallet, reverted, trades, pc, round, read, chunks, cash, k, busy, ctx,
                 wrapping, history>>

ProcessConvert ==
  /\ DirectOps /\ pc = "idle"
  /\ \E l \in Leg : /\ CallValid(wallet, Convert({l}, 1))
                    /\ Accept("direct", <<Convert({l}, 1)>>)
  /\ pc' = "direct"
  /\ UNCHANGED <<wallet, reverted, trades, round, read, chunks, cash, k, busy, ctx,
                 wrapping, result, history>>

ConvertSettled ==
  /\ pc = "direct" /\ Settled /\ pc' = "idle" /\ result' = "converted"
  /\ UNCHANGED <<chain, round, read, chunks, cash, k, busy, ctx, wrapping, history>>

\* Accepted, but the response never arrives.
DirectLost ==
  /\ MayLose /\ DirectOps /\ pc = "idle"
  /\ \E l \in Leg : \E c \in {Merge(l, 1), Convert({l}, 1)} :
       CallValid(wallet, c) /\ Accept("direct", <<c>>)
  /\ result' = "err"
  /\ UNCHANGED <<wallet, reverted, trades, pc, round, read, chunks, cash, k, busy, ctx,
                 wrapping, history>>

DirectRejected ==
  /\ DirectOps /\ pc = "idle" /\ result' = "err"
  /\ UNCHANGED <<chain, pc, round, read, chunks, cash, k, busy, ctx, wrapping, history>>

---------------------------------------------------------------------------
Planning == ReadBalances \/ ReadCash \/ PlanFails
              \/ PlannedCalls \/ PlannedLeftover \/ PlannedNothing
Submitting == ChunkAccepted \/ ChunkLost \/ ChunkBusy \/ ChunkStillBusy \/ ChunkWaited
                \/ ChunkRejected \/ ChunkQuota \/ ChunkSettled \/ RebuildWaited
Wrapping == WrapNothing \/ WrapReadFails \/ WrapRead \/ WrapAccepted \/ WrapLost
              \/ WrapBusy \/ WrapWaited \/ WrapRejected

EngineStep == Planning \/ Submitting \/ Wrapping \/ ConvertSettled
Operation  == StartCycle \/ ProcessMerge \/ ProcessConvert \/ DirectLost \/ DirectRejected
Next == EngineStep \/ Operation \/ Land \/ Drop \/ Trade

Spec == Init /\ [][Next]_vars

EngineReady ==
  pc # "idle" /\ (pc \in {"settle", "busywait", "rebuildwait", "wrapwait", "direct"} => Settled)

\* tokio runs a ready task and every RPC and HTTP call returns; an accepted
\* action lands or is given up.  This is WF_vars(EngineStep) and WF_vars(Land
\* \/ Drop) with their ENABLED written out: TLC would plan anew to decide it.
Fairness ==
  /\ []<>(~EngineReady) \/ []<><<EngineStep>>_vars
  /\ []<>(~Busy) \/ []<><<Land \/ Drop>>_vars
FairSpec == Spec /\ Fairness

---------------------------------------------------------------------------
Returned(how) == pc = "idle" /\ result = how

\* Chunks are submitted in plan order and, whatever is retried or lost, the
\* relayer accepts none of them twice in a round; a cycle that returns Ok had
\* every chunk of its last plan accepted (submit_and_settle_with_busy_retry,
\* "there is no double-submission risk").
EachChunkOnceInOrder ==
  /\ journal = [i \in 1..Len(journal) |-> i]
  /\ Returned("ok") => Len(journal) = Len(chunks)

\* Quota exhaustion ends the cycle: nothing is submitted after it, not even a
\* salvage wrap (process_jobs, "would just burn another rejected request").
QuotaEndsCycle == quota => pc \in {"idle", "direct"}

\* Every started operation returns: the busy retries and the rebuilds end.
CycleEnds == pc # "idle" ~> pc = "idle"

\* With settle waits long enough, no chunk reverts on chain, though responses
\* are lost, rounds rebuilt and NO bought meanwhile.
ChunksNeverRevert == ~reverted

\* The proceeds an Ok reports are the cash the wallet gained.
ReportedProceedsArrive == Returned("ok") => Cash(wallet) = owed

\* An Ok leaves nothing to do, but for fills after the balance read.
OkIsFixpoint == Returned("ok") /\ ~dirty => PlanCalls(wallet, Jobs) = <<>>

\* After an Ok whose wrap was sent or found nothing, no USDC.e is left once
\* the relayer is idle.
CashIsWrapped ==
  Returned("ok") /\ wrapped \in {"sent", "nothing"} /\ ~Busy => wallet.usdce = 0

\* What comments of the code claim, refuted by its own steps:
\* process_jobs, the salvage wrap leaves no freed USDC.e stranded until the
\* next cycle.
SalvageLeavesNothing ==
  Returned("err") /\ wrapped \in {"sent", "nothing"} /\ ~Busy => wallet.usdce = 0
\* process_merge, "Submit a batch of YES+NO merges and wait for settlement".
MergeWaitsForSettlement == Returned("merged") => inflight.kind # "direct"
=============================================================================
