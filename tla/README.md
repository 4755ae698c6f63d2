# Verification of eggplant-sdk-rs

TLA+ modules, TLC configurations and TLAPS proofs for the crate in `src/`
(paths below are relative to the crate root, `src/convert.rs` and so on).
`PROJECT.json` lists the components, the runs, the lines every definition
stands for, the hazards the properties aim at, and the theorems.

To repeat the checks, in this directory:

    tlc -workers 2 -config PlanExec.cfg MCPlanExec      # likewise the other runs
    tlapm ConvertWorkerProofs.tla                       # likewise the other *Proofs modules

## 1. The system

The crate is a trading SDK: pure planners and codecs, HTTP clients, two
WebSocket channels, and three long-running orchestrations on top of them. What
keeps state and can go wrong is the following.

| component | state | operations | meets |
| --- | --- | --- | --- |
| convert planner (`src/convert.rs`, before `mod engine`) | none: a snapshot of balances in, a call list out | `classify_event`, `plan_tiers`, `plan_event`, `plan_calls`, `gas_chunks` | the contracts, which execute the calls |
| convert engine (`mod engine`: `process_jobs` and below) | the round, the plan, the chunk index, retry counters; the wallet's balances live on chain | `process_jobs`, `process_job`, `process_merge`, `process_convert`, `wrap_with_busy_retry` | the relayer (one active action per wallet), the chain, fills |
| convert worker (`convert_worker`) | channel, batch, the running sleep | one pass: receive, wait, drain, wait, cycle, results, backoff | the caller's job channel and its result channel, the engine |
| relayer client (`src/relayer.rs`) | none; nonces are read per submission | batch submit, Safe submit and deploy | HTTP |
| sweep (`src/sweep.rs`) | summary counters | discover, classify, one `process_job` per actionable event | Data API, Gamma, engine |
| redeem (`src/redeem.rs`) | summary counters, passes | `redeem_all`, `submit_batches` | Data API paging, relayer |
| Data API client (`src/data.rs`) | offset, ids seen | paged positions, redeemable set with `hit_cap` | an API whose offset recycles |
| order poster (`src/clob/poster.rs`) | rate-limit signal, call counters, warm connections | post, cancel singly / batched, partition results | venue, supervisor loop |
| CLOB client, auth (`src/clob/mod.rs`, `src/auth.rs`) | credentials; cursor | create-or-derive handshake, cursor paging | venue |
| tick table (`src/clob/tick.rs`) | tick entry per token | insert, update, size rounding | order building |
| order book (`src/book.rs`) | two ladders | snapshot, delta, depth queries | market stream |
| market and user streams (`src/ws/`) | socket, ping timer, last PONG; ids seen; recycle timers | next frame, dedup, recycle | redundant connections |
| approvals (`src/approval.rs`) | local Safe nonce | deploy, approve each target | relayer, chain |
| gamma, books, chain, fee, signing, types | none | stateless fetches, encodings, formulas | |

What makes the code hard to test:

* **Nothing is awaited on chain.** After a submission the engine sleeps a fixed
  `settle` and goes on. Everything it then reads or submits assumes the action
  landed, while the relayer's answer may have been lost, or the action may
  still be in flight.
* **A plan is a promise about a sequence of transactions** made from one
  snapshot: later calls consume what earlier calls mint, over chunk boundaries.
* **Retries at three levels** (busy retry, rebuild rounds, the caller's requeue)
  around operations that burn tokens.
* **The worker coalesces** jobs that arrive while it waits, and still owes one
  result per job and a full fill delay to each of them.
* **APIs that do not end or repeat themselves**: offsets that recycle, redundant
  sockets delivering twice and late, half-open sockets.

What each component has to get right:

* planner - every call can run where it stands; announced proceeds are exact;
  one pass is the fixpoint; nothing that netting can free is left; submissions
  respect both limits and are no more than needed.
* engine - no burn is submitted twice; an `Ok` means the plan landed and its
  proceeds are there; quota exhaustion ends the cycle; every call returns.
* worker - one result per job, in order; no cycle on unsettled fills; one plan
  per event; failed cycles are damped; a closed worker finishes.
* redeem and paging - termination, no condition submitted as drained while it
  is not, `hit_cap` true exactly when a tail may remain.
* poster - an order still resting is never dropped from tracking; an Ok of a
  side's cancel covers the side; a rate limit is never missed and every request
  counted.
* streams - a dead socket is reported within a bound; a fill is handled once;
  redundant copies are never down together; the book converges.
* approvals - nonces are consecutive and every target ends approved.
* sweep - what it calls executed leaves nothing to do, and it skips no event that
  has work.
* identity, signing, sizing - every order is one its exchange accepts, for
  amounts that say exactly the price and stay within book and budget.

## 2. The modules

    Lists            helpers on sequences
      ListsProofs    what they, and the folds of the library, return
    NegRisk          the contracts: wallet, calls, their effect      (external)
      ConvertPlan    the planner as operators
        PlanExec       a plan executed alone, chunk by chunk         MCPlanExec
          PlanProofs     (with ListsProofs)
        ConvertEngine  process_jobs, relayer, chain, fills           MCConvertEngine
          ConvertEngineProofs  (with PlanProofs)
    JobService       what the worker promises
      ConvertWorker  convert_worker; refines JobService              MCConvertWorker
        ConvertWorkerProofs
    DataPaging       a paged, moving, recycling index
      Redeem         redeem_all over it, relayer, chain              MCRedeem
        RedeemProofs   (with ListsProofs)
    OrderTracking    where an order is, and what its owner knows
      OrderPoster    post, cancel, sweep a side, 429s; refines it    MCOrderPoster
        OrderPosterProofs
    SeenIds          a bounded set of ids     OrderBook   a book's two ladders
      Streams        redundant connections, clock, readers           MCStreams
        StreamsProofs
    OrderSizing      sizes, rails, books fetched in chunks
      OrderSigning   identities, domains, signatures, request HMACs
        Session      credentials to a cancelled order
    Approvals        ensure_approvals over a Safe
    Sweep            sweep_all over ConvertPlan
      Programs       Session, Approvals or Sweep is run              MCPrograms
        ProgramsProofs   (with PlanProofs)

**NegRisk** is the one model of code outside the repository: the adapter's merge
and convert and the onramp's approve and wrap, as `src/convert.rs` counts on
them (a convert of `k` legs burns `amount` NO on each, mints `amount` YES on the
event's other legs and frees `(k-1)*amount` USDC.e). Calls are records, not
calldata; a batch runs whole or not at all.

**ConvertPlan** is the planner, function by function, without recursion: a
tier's amount is the distance to the next lower level instead of a loop's
`prev`, and the loop's `break` on a lone dust tier is the condition that no
level up to this one is dust. Legs carry two booleans for the ids that may be
missing (`condition_id`, `yes_token_id`), which decide what can merge and what
is seen. `unpack_balances` is the pair of operators `No` and `Yes`: the YES of a
leg without a token id reads zero.

**PlanExec** reads a snapshot (`Plan`), takes the chunks `due` in order (`Submit`)
and runs the calls of a `batch` one by one on what is `held` (`Execute`). It asks the questions about the
planner that need an execution to answer.

**ConvertEngine** has one action per await of `process_jobs`,
`submit_and_settle_with_busy_retry`, `wrap_best_effort` and `process_convert`,
and one per outcome of the await. The two RPC reads of `plan_jobs` are joined,
so they are two actions in either order with the chain in between. `pc` is the
await the engine is at, `round` is `attempt` of the rebuild loop, `busy` that of
the retry loop. A submission is `Accept`ed when the wallet has no active action;
it may be accepted and its answer lost (`ChunkLost`, `WrapLost`, `DirectLost`),
found busy, refused, or answered with the quota error. The chain `Land`s the
action (a chunk that is not valid by then reverts as a whole), the relayer may
`Drop` it, and a `Trade` changes balances at any time. `FailRound` is the `Err`
arm of the round: rebuild after a settle wait, or salvage. `journal`, `owed`,
`dirty`, `wrapped` and `quota` are history the properties read and no guard does.

**ConvertWorker** has one action per await of `convert_worker` and one per
`try_recv`, so a job may arrive between two drained ones. Ages and sleeps count
ticks: an age is capped at the fill delay, where it stops mattering to
`fill_residual`, and a sleep may overrun but not underrun. The cycle is one step
that takes any time and returns any of the three outcomes ConvertEngine's
operations return.

**JobService** is the abstract specification: jobs sent, answers given, each
answer for the oldest unanswered job. The worker implements it under the
identity mapping of `sent` and `answers`, fairness included.

**DataPaging** is `all_positions` and `all_redeemable_positions`, one request per
step over `listed`, the index in its order. Between requests rows may leave
(`Delist`) or enter at the front (`Enlist`), which shifts what an offset means.
`Served` clamps the offset as the API does: beyond the cap it re-serves a page.
`fetch` names the call running and how the last one ended; `still` and `missed`
are history.

**Redeem** extends it with `redeem_all`. A pass is `NewPass` (the listing starts
over), `Page`s, `PlanPass` (grouping, balances, filter, truncation: `Calls` and
`Truncate`) and, for each batch of `todo`, a submission with its busy retries and
whole-batch retries. The end of the last batch is the end of the pass, because
the code awaits nothing in between; `EndPass` lists the loop's breaks in their
order and `result` names the one taken. A call is the set of rows its index sets
burn: the sides held for an adapter condition, both slots for a CTF one. The
index lags: `Forget` drops redeemed rows at any later time or never. `Others` is
another engine's action on the same wallet, which is what makes the busy retries
run out. A settle wait ends when redeem_all's own action has landed.

**OrderPoster** has three callers on one `FastPoster`: a placer (`post_signed`
and the entries above it), a repricer (`cancel_for_reprice`, batched or one
DELETE per id as `cancel_endpoint` says, then `partition_cancels`), and a third
task that lists the open orders page by page, to reconcile after a failed
placement or to cancel a side in batches. Between them and the venue is `wire`:
a request is served at any time after it was sent, also when its caller has timed
out or was dropped by `try_join_all`, and its answer may be lost. A call's
`pending` requests are awaited, `yes` is what the answers said; a 429 is signalled in
two steps (`alarm`: store the endpoint, leave a permit), which interleave with
the supervisor's two (take the permit, read the endpoint). A served DELETE
cancels any of the resting orders it names and speaks of any of the gone ones;
`CancelFailed` folds a failed singular cancel's text into `not_canceled`, where
`cancel_reason_is_terminal` may read it as an ended order (`misread`): of the texts
the client makes, an HTTP 404 ("Not Found") is read so, a 429 or a timeout is not.
`start`, `asked` and `spoilt` are history of the side's cancel.

**OrderTracking** is its abstract specification: per order, where the venue has
it and what the owner knows. `lost` is an order whose placement the caller was
told had failed; it may still arrive, and a listing brings it back. An order
leaves tracking (`closed`) only when it is gone. The poster implements it under
`venue <- book`; that misread orders are excepted is part of the specification.

**Streams** has one record per connection: why it is down, whether its ping tick
is `due`, the units since the last PONG (`quiet`), a PONG on its way, the recycle
timer (`ripe`), what was delivered and not read (`feed`), and, as ghost, for how
long the peer has been `silent`. A unit of time is `PING_INTERVAL`; `Pass` waits
until what is due or delivered was handled, which is to say that readers are
polled promptly (a reader that stalls for 30 s may time out on a live peer; that
is not modelled). `next_text` is `PingTick` (deadline, then PING), `ReadPong`,
`ReadFrame`, `Breaks`; the reader's loop around it, with the recycle tick in its
`select!`, is code of the caller, taken from the examples and from what
`recycle_interval` and `ReaderExit` are for. The grids of `recycle_offset` and
`market_recycle_offset` are `Slot`, `Offset` and `OnGrid`; a tick that comes while the
connection is down is served when it is polled again (`MissedTickBehavior::Skip`)
and is called `late`; beyond 255 connections, where `market_recycle_offset`'s `u8`
ends, nothing recycles. On the market channel frames go through **OrderBook**; on the
user channel fills pass the final-status gate and **SeenIds** before they are
credited. `our_maker_side` and the depth queries are functions; `MCStreams`
checks them against their definitions by assumptions TLC evaluates.

**OrderSizing** and **OrderSigning** are functions on integers (a decimal is a
multiple of its unit) and on records: a hash or a signature is the record of what
goes into it, so two are equal when their inputs are, and `ExchangeAccepts` and
`VenueAdmits` recompute them from the other side. **Session** strings them
together in the order of `examples/quickstart.rs`, from `CreateKey` to `Cancel`,
over every signature type, chain, exchange and funder, a wallet that has keys or
not, refused calls and tokens without a parsable book.

**Approvals** has a run of `ensure_approvals` (`pc`, `step`, the local `nonce`), the
relayer's pool of SafeTxs, and a chain that runs each at its nonce or never. A
failed nonce read is taken for a missing Safe, as in the code; other submitters
use nonces; a run may follow one that failed, whatever is still in the pool.

**Sweep** lists rows from the floor up, resolves the events held, classifies each
from the listed sizes alone and settles the actionable ones; what `process_job`
does to the wallet is the plan of ConvertPlan, in whole or, after an error, in
part. **Programs** is one machine that runs one of the three, which share no
state.

Operators commented `mutant:` are broken variants of the definition that follows
them (a dropped wait, a swapped order, an off-by-one). They are used by nothing;
replacing the definition by its variant must make the property listed with it
in `PROJECT.json` fail, which shows that the property can fail.

## 3. The runs

| run | instance | shows |
| --- | --- | --- |
| `PlanExec.cfg` | three legs of a four-leg event and a second event; NO 0..3, YES 0..1 per leg; ids missing on no leg, one leg or all; at most 2 legs per convert, dust below 2, 2 calls and 1.2M gas per submission | `EveryCallRuns`, `ProceedsExact`, `OnePassSuffices`, `FreesTheMost`, `ChunksPackGreedily` |
| `PlanPreBatch.cfg` | the same | violated: `ValidAgainstSnapshot` (section 6) |
| `EngineTimely.cfg` | three legs, one call per submission, 2 rebuilds, 1 busy retry, responses may be lost, one fill; settle waits outlast the action | `ChunksNeverRevert`, `ReportedProceedsArrive`, `OkIsFixpoint`, `CashIsWrapped` |
| `EngineFaulty.cfg` | two legs, 1 rebuild; waits prove nothing, actions are dropped, NO is sold away, merges and converts are called directly between cycles | `EachChunkOnceInOrder`, `QuotaEndsCycle`, liveness `CycleEnds` |
| `SalvageStranded.cfg` | as EngineTimely, without fills | violated: `SalvageLeavesNothing` (section 6) |
| `MergeNotSettled.cfg` | as EngineTimely, with direct operations | violated: `MergeWaitsForSettlement` (section 6) |
| `ConvertWorker.cfg` | 4 jobs on 2 events, channel of 2, fill delay 2, backoff 3 | `JobsConserved`, `FillsHaveSettled`, `CycleCoversEachEventOnce`, `FailuresAreDamped`, liveness `ClosedWorkerExits`, refinement `ImplementsJobService` |
| `Redeem.cfg` | five rows of four conditions, pages of 2, offsets up to 2, so four rows are within reach; batches of 2, one whole-batch and one busy retry; no cap and a cap of 4; lost responses, refusals, failing reads, a shared wallet; a wallet already redeemed but still listed | `RowsAreDistinct`, `HitCapIsHonest`, `CapIsTotal`, `FreshBatchesRun`, `ClaimedArePaid`, `DrainedMeansPaid`, liveness `RedeemReturns` |
| `RedeemDrain.cfg` | the listing with a row beyond the cap, no failures at all | violated: `StopsOnlyWhenDone` (section 6) |
| `OrderPoster.cfg` | three orders on two sides, one order per POST, DELETE chunk and page; either cancel endpoint; 2 faults, 3 calls | `OkCoversTheSide`, `WakeNamesLatest`, `CountersCoverWire`, refinement `ImplementsOrderTracking`, liveness `ListingEnds` |
| `Streams.cfg` | a book on two copies with 3 events and a fault; recycling alone on two shards of two copies with a fault; fills on two copies, 3 events and a fault or 4 and none; cap 1, deadline of 3 units, a unit to reconnect | `BookConverges`, `CreditedApart`, `NothingMissed`, `AlwaysCovered`, `HalfOpenDetected` |
| `Programs.cfg` | a session over all accounts, three tokens fetched two at a time, one refusal; approvals for two targets, two runs, one foreign nonce, one failing call; a sweep over three events, one fill, one failing call | `SessionVerifies`, `ApprovalsGranted`, `SweepSettles` |

`TypeOK` is proved for the convert engine, the worker and the order poster, and
checked as well for the engine and the worker.

**Why the bounds are enough for the interesting cases.** The planner's case
distinctions are: one level or several, a tier wider than the leg cap, a lone
dust tier, a leg holding both sides, a missing id, a call that alone exceeds the
gas budget (a convert on three legs weighs 1.225M against 1.2M), a cut by count
and a cut by gas. All of them occur with three legs and balances up to 3; the
fourth leg, outside the job, makes converts mint YES the job does not know of.
The engine's behaviour depends on the plan through its number of chunks and on
whether a later chunk needs an earlier one: the three-leg wallet plans a merge,
a truncated convert and the post-merge that burns what the convert mints, one
per submission, and the second wallet plans nothing but holds cash. Two
rebuilds are the code's `REBUILD_ATTEMPTS`. Four jobs on two events through a
channel of two allow duplicates within a batch, jobs drained younger than the
first, and a sender that finds the channel full. Five rows against a reach of
four give a page set that is cut off, with an adapter condition split by the
cut; the fewer-row listing, joined by a resolving condition of two rows, gives
a short listing that shifts by a whole page, so that a full page adds nothing
new. One row has a named outcome and never leaves the listing; the part of the
split condition within reach is less than `min_shares_raw`. The cap of 4 is
between what a pass redeems and what two passes with a failed batch would count.

With one order per chunk and page, three orders are enough for a batch of
several chunks of which one fails, for a page that shifts when an order before it
leaves, for a listing of three pages and for a side with an order of the other side
between. Two faults lose an answer and signal a 429, or signal two 429s that
coalesce; three calls run the three callers at once, or a placement, a
reconciliation and a cancel one after the other. `MaxFaults` and `MaxCalls` bound no
call's own retries: the code has none here.
Two copies are what redundancy needs, two shards what the difference between
copy-major and shard-major slots needs, and a period of four gives each of four
slots its own unit. Three events on one price level make an old size
come back over a newer one; a cap of one is passed by two trades.
`Targets` is 2 where the code has three: a third only repeats a target's two steps.
Depths, budgets and ticks of a session are chosen so that floors bite (49999 and
51234 hundredths, 47777 of cash, rails of two grids).

**Named bounds.** `MaxTrades` (fills of a run), `MaxJobs` (jobs of a run),
`MaxFaults`, `MaxCalls`, `MaxRefusals`, `MaxForeign`, `MaxErrors`, `MaxRuns`,
`MaxFills`, `MaxMisses`, the events and faults of a member of `Fans`, and
`Unlimited`, the allowance an approve sets, which no wrap lowers, as with
`U256::MAX` in the token contract. Retry counters are bounded by the code.

**Fairness.** `ConvertEngine!FairSpec` assumes that a ready engine steps (tokio
polls a ready task; every RPC and HTTP call returns, with an answer or an error)
and that an accepted action lands or is dropped. It is weak fairness on
`EngineStep` and on `Land \/ Drop` with the enabling condition written out,
because TLC would compute a plan again to decide `ENABLED`. That HTTP calls
return is an assumption on the network: the client sets no timeout.
`ConvertWorker!FairSpec` is weak fairness of the worker and of time;
`process_jobs` returning is `CycleEnds`. Nothing is assumed of the caller.
`Redeem!FairSpec` is weak fairness of pages, of the passes' and the batches'
steps, and of landing, for the same reasons; the index need never catch up.
`OrderPoster!FairSpec` is weak fairness of the listing task alone: tokio runs a
ready task, and `REQUEST_TIMEOUT` ends every wait for the venue, so a page or a batch
that is never answered is an error. The placer, the repricer, the supervisor and
the venue need not move for `ListingEnds`.
`RedeemReturns` without a cap relies on a landed redeem burning what it names: a
wrong `ctf_collateral`, a no-op on chain, would keep a cut-off listing going
until `max_conditions`, and is not modelled.

**What the poster's and the streams' properties except.** `OkCoversTheSide` leaves
out sweeps during which an order left the listing while it was paged, or the venue
named one cursor for ever: offsets then no longer mean the same orders, and the
code cannot know. `AlwaysCovered` speaks of ticks served on time; see section 6.
`NothingMissed` speaks of runs without faults: the user channel has no replay, and a
fill announced while both copies are broken is lost. `ApprovalsGranted` requires that the
run found the Safe idle and had its nonces to itself. `SweepSettles` requires that listing
and events were whole and holdings did not move.

**What `Timely` means.** With `Timely` a settle wait ends only when no action is
in flight; the code's comment for the wait is that the action has then landed.
`EngineTimely` shows what the engine guarantees when the constant is chosen well,
`EngineFaulty` what it guarantees without. `ChunksNeverRevert`,
`ReportedProceedsArrive` and `OkIsFixpoint` do depend on it: without `Timely`, or
with a user who sells NO between read and landing, a chunk can revert and `Ok`
be returned all the same.

## 4. What is proved

For every value of the constants that meets the named assumptions
(`UnlimitedAssumption`, `PlanAssumption`, `ExecAssumption`, `EngineAssumption`,
`HandedOverAssumption`, `WorkerAssumption`, `PagingAssumption`, `RedeemAssumption`,
`PosterAssumption`, `StreamsAssumption`, `ApprovalsAssumption`, `SweepAssumption`,
`SessionAssumption`: naturals, positive
where the code divides the work by them; booleans for the failure switches; wallets
with balances, and job lists whose legs appear once). A theorem that needs more says so in
its `ASSUME`; these hypotheses are named below, and the runs' instances meet them.

`ListsProofs` has the lemmas the other modules keep needing: what filtering,
de-duplicating, flattening, cutting and folding a sequence returns. Recursion over
data is out of the prover's reach as an induction rule, but not as an argument
about sets of numbers: a fold is shown to be the last element of a trace
(a function on `0..n` that satisfies the recursion), and what holds of every
element of a trace follows by taking the least index at which it does not.

`PlanProofs`:

* `EveryCallRunsAlways`, `ProceedsAlwaysExact` - `EveryCallRuns`, `ProceedsExact`.
  The bulk is a statement about one event: the merges, the tiers' converts with
  their post-merges, one after the other, lead from the snapshot to a wallet that is
  written down in closed form (`Finally`): every pair merged, every level of what is left
  converted. Tiers are taken by level: after those up to a level each leg
  holds what it had above that level. The YES a post-merge burns is what the
  truncated convert before it has minted. Other events' legs are never touched, so
  events compose. `PlanInv` says that the calls still to run (`Rest`) lead from
  what is held to where the plan ends (`Done`).
* `OnePassAlwaysSuffices` - `OnePassSuffices`. Where a plan ends its jobs plan nothing:
  no pair is left and at most one leg, below the minimum.
* `FreesTheMostAlways` - `FreesTheMost`, whose own premise is that every leg has both
  ids. It is a conservation law, so the sum over levels is never exchanged
  with one over legs. Seen from the leg of a job that has most left after its merges,
  what has been freed, plus the NO of all the job's legs, plus that leg's YES less its
  NO, is the same before and after each merge and each tier of the job; other
  events' calls leave it alone. Where the plan ends no other leg has any NO and that leg
  no YES, so what was freed is all the NO but the most that one leg had left. Where
  nothing is left the job's calls are merges only, and the same holds of any leg.
* `ChunksAlwaysPacked` - `ChunksPackGreedily`, by the trace of the fold that packs.

`ConvertEngineProofs` (the last four under `Calm`: `Timely` and no `MayDrop`,
`MaySell`, `DirectOps`, as in `EngineTimely.cfg`):

* `EngineTypeCorrect` - `TypeOK`: no round passes `Rebuilds`, no retry `BusyMax`, no
  balance falls below zero whatever lands, and the chunk under submission is one of
  the plan's.
* `ChunksAcceptedOnceInOrder` - `EachChunkOnceInOrder`. The strengthening
  `SerialInv` says that the journal is `1..j` and what `j` is at each place:
  `k - 1` while chunk `k` is being submitted or waited for, `k` while it
  settles, all chunks once the wrap runs. A lost response is the case that
  matters: it leaves `j = k`, and the only ways on are a fresh read, which
  empties the journal, or salvage, which submits no chunk.
* `QuotaIsFinal` - `QuotaEndsCycle`.
* `ChunksAlwaysLand` - `ChunksNeverRevert`. `SteadyInv` says that what is in flight and
  then the chunks not yet accepted (`Ahead`) lead from the wallet to where the plan ends,
  but for what fills have added since the balances were read; so a chunk is
  valid when it lands, however late. A fill only adds NO and disturbs nothing; a
  lost response leaves the chunk in flight while a settle wait runs, and the next
  read comes after it. It rests on `PlanProofs`.
* `ReportedProceedsAlwaysArrive` - `ReportedProceedsArrive`, from the same invariant
  with nothing left ahead.
* `OkIsAlwaysFixpoint` - `OkIsFixpoint`, if every leg knows its condition or its YES
  token.
* `CashIsAlwaysWrapped` - `CashIsWrapped`. `SweepInv`: a wrap in flight or about to be
  submitted takes all the USDC.e there is. It holds while the balance is a 256-bit
  word (`InWord`), which an approve of `Unlimited` covers.

`ConvertWorkerProofs`:

* `TypeCorrect` - `TypeOK`. The interesting conjunct is `timer \in Nat`:
  `fill_residual` saturates.
* `NoJobLostOrDoubled` - `JobsConserved`. Its three index equations say that
  answers, batch and channel, laid end to end, are `sent`; they are inductive
  once it is known that the batch is empty whenever the worker is back at `recv`
  (`BatchIsSpent`), or `Recv` would overwrite jobs.
* `CyclesWaitForFills` - `FillsHaveSettled`. Not inductive as it stands: the
  strengthening (`TimerCoversBatch`) says that during the top-up wait no job of
  the batch needs more than the sleep has left: `Drained` sets it so, every tick
  takes one from both, and nothing joins the batch any more.
* `CyclesCoverEachEventOnce` - `CycleCoversEachEventOnce`: what `dedup_by_slug` keeps of a
  batch has each of its events, at one place.
* `FailedCyclesAreDamped` - `FailuresAreDamped`. The strengthening relates the
  running backoff to the time since the failure was reported: their sum never
  falls below `Backoff`; and at `recv` the backoff is over.
* `WorkerImplementsService` - `Spec => Service!Spec`: `Send` maps to `Send`,
  `Report` to `Answer` (by `NoJobLostOrDoubled` the head of the batch is the
  oldest unanswered job), every other step to a stutter.

`RedeemProofs`, by one invariant, `RedeemInv`:

* `DistinctRows`, `HonestHitCap` - `RowsAreDistinct`, `HitCapIsHonest`. `PagingInv`:
  over an index that has not moved, what was collected is its prefix up to the
  offset, which is on a page boundary within the cap; so a short page is the end, and
  a page that brings nothing new is one served again.
* `TotalCapped` - `CapIsTotal`. `CapInv`: counted so far, counted in this pass and
  still planned fit `max_conditions`; a listing starts only with room left.
* `BatchesRun` - `FreshBatchesRun`. `Planned`: the calls of a pass burn different rows,
  and what they do not burn of their conditions is empty. `BatchInv`: where the batch
  at the head may be - not submitted, in flight, landed - at every place of the
  retry loops; only a lost answer lets one that has landed be submitted again.
* `ClaimsPaid` - `ClaimedArePaid`, from the same: what was counted holds nothing
  once it has landed.
* `DrainedPaid` - `DrainedMeansPaid`. `DrainInv`: until a pass is cut off or fails,
  every condition of its page set still worth redeeming is in a batch to come.

`OrderPosterProofs`:

* `TypeCorrect` - the poster's state is typed, for any set of orders, any chunk
  and page sizes.
* `RefinesTracking` - `ImplementsOrderTracking`, which is a safety property. The
  strengthening says where an order in a request is (posting or lost until its POST
  was served), that what a call collected in `yes` was placed or is gone or was
  misread, and that the chunks still pending cover what was not answered. The
  case that matters is a placement that ends early: it makes its orders `lost`, which
  the late service of their requests then respects.
* `WakesNameLatest` - `WakeNamesLatest`. The strengthening `SignalInv` says that
  the endpoint stored is that of the latest 429 from the store on, whoever
  signals, and that nothing stirs before the first; so what a supervisor reads after the
  last notification is the latest.
* `CountersCover` - `CountersCoverWire`. Strengthened to: served plus on the wire is
  at most counted, which needs that a batch has no more chunks than were
  counted, hence finite sets and their cardinalities.

* `SideCovered` - `OkCoversTheSide`. The strengthening says where an order is that
  rested when the call began: gone, in a page already read, or still listed at or
  behind the cursor, which is a statement about how many listed orders sort
  before it and so needs the cardinalities of finite sets; and, once the batches
  run, gone, still pending in a chunk, or asked for. It rests on the invariant of
  `RefinesTracking`: a POST served late brings only orders the venue has not seen,
  so it never puts one back.

`StreamsProofs`:

* `HalfOpenGivenUp` - `HalfOpenDetected`. The deadline counts from the last PONG, so
  the strengthening bounds the silence by the time since then: a peer is never
  silent longer than `quiet`, a PONG on its way means it is not silent yet, and past
  `PongTimeout` a ping tick is due before time goes on.
* `TradesCreditedApart` - `CreditedApart`. The strengthening says that `SeenIds` holds
  exactly the last `Cap` trades credited, in their order, and that its set is that of
  its queue; so an id it no longer knows is that far back.

* `PeersAlwaysCover` - `AlwaysCovered`, if a reconnect fits between the grid points of
  two copies of a shard (`Spaced`: the period is at least `Reconnect + 1` units for each
  copy). `CoverInv` dates each recycle: a connection that is down for it went down on its
  grid point, and its `gap` is the time since. Two copies' grid points are the
  period divided by the copies apart (rounded down, hence the arithmetic), so the first
  is back when the second goes.
* `NoFillMissed` - `NothingMissed`, under `Spaced`, with one shard on the user
  channel (`OneShard`) and a deadline of at least one unit. `FillsInv`: without faults
  every connection is answered and reconnects on time (`CalmIs`), and a final trade
  not yet credited sits in the feed of a connection that will be read before it
  goes down.
* `BookAlwaysConverges` - `BookConverges`, if a market fan has a connection (`Carried`).
  `BookInv`: what is unread on any connection that is heard leaves each level where the
  venue has it, or does not mention it; and a level of the book that is wrong is
  mentioned on some feed, or a connection is down whose snapshot will correct it.
  It is the last-writer argument, for frames duplicated and delayed per connection.

`ProgramsProofs`:

* `SweepAlwaysSettles` - `SweepSettles`, if every leg knows its condition or its YES
  token (`LegsKnown`). `SweepInv` (`OnlySettledSince`): as long as nothing failed and the
  holdings did not move by themselves, what was listed is what is held but for the
  events settled since; an event passed over has nothing to convert or has been settled.
  It rests on `PlanProofs`: an event's plan brings that event to rest and moves no other
  event's legs, and the listing's classification skips only events whose plan is empty.
* `SessionAlwaysVerifies` - `SessionVerifies`. `SessionInv`: past the handshake the key
  is one the venue holds, past the resolution the identity is the one that account
  type and funder resolve to, and the books are all that parse once they have been
  quoted. The amounts need that a size cut down to the exchange's grid stays within cap,
  book and budget; the books, that the chunks of the request cover every token.

* `ApprovalsComplete` - `ApprovalsGranted`. In a run that had the Safe to itself the
  SafeTxs in the relayer's hands have nonces of their own, from the Safe's up to
  what the run has counted to; none is stale, so what the chain takes off the pool
  it grants. A run that deploys starts at 0, the nonce of a Safe that is not there.

## 5. What is only model-checked

* `CycleEnds`, `RedeemReturns`, `ClosedWorkerExits`, `ListingEnds` and the fairness
  part of `ImplementsJobService`: liveness is out of the prover's reach.

## 6. Where code and comments part

* `plan_calls` (`src/convert.rs:666`): "Every call here is also individually
  valid against the *pre-batch* balance snapshot." The post-merges of a
  truncated tier are not; they burn the YES their convert mints.
* The salvage wrap (`src/convert.rs:1242`) is there so that freed USDC.e "isn't
  stranded until the next cycle". It does not wait for the last accepted action
  as the rebuild before it does; a chunk whose response was lost lands after the
  salvage has read an empty balance.
* `process_merge` (`src/convert.rs:1287`): "Submit a batch of YES+NO merges and
  wait for settlement." It does not wait.
* `redeem_all` (`src/redeem.rs:319`): "draining the redeemable set to empty", and
  it "stops when the set is empty, a pass makes no progress (every batch failed),
  or the cap is reached". It also stops when a page set plans nothing
  (354-356), even if `hit_cap` says that more is listed beyond it. Right after a
  successful pass the lagging index may still list just the rows redeemed; the
  run ends with a held position beyond the cap and no failure. Rows of named
  outcomes and dust, which never leave the listing, have the same effect.

The following also part from what a comment, a document or a log line says; no run
of its own refutes them.

* A half-open connection is given up within 40 s, not "within ~30s" (`README.md:297`): the deadline of
  30 s is compared strictly and only on the ticks of a 10 s ping timer
  (`src/ws/market.rs:324`). `HalfOpenDetected` holds with 40 s; an instance with the
  bound lowered by one unit fails.
* `recycle_interval`'s comment (`src/ws/util.rs:76`): "`Skip` keeps the phase grid
  after a tick is missed during a backoff instead of bursting a catch-up recycle
  onto the fresh connection." `MissedTickBehavior::Skip` skips all but one: the overdue tick
  fires at the next poll, so a fresh connection whose backoff spanned a grid point
  is recycled at once, outside the stagger. `AlwaysCovered` speaks of the other ones.
* `ensure_approvals` ends with "all approvals verified" (`src/approval.rs:157`) though it
  only submitted them: a run that overlaps an earlier one's pending SafeTxs, or
  took a failed nonce read for a missing Safe, returns `Ok` with approvals missing.
* An error text of `cancel_singly` that holds "Not Found" is read as a terminal
  reason, as the comment at `src/clob/poster.rs:820` warns; OrderTracking names these
  orders (`misread`).

## 7. What is not modelled

Left out for good: calldata and EIP-712 encodings, HMAC headers, address
derivations, serde shapes and URL building (pure byte layouts, fixed by the
golden-vector tests; in OrderSigning they are injective records); stateless fetches
(`src/gamma.rs`, and the CLOB endpoints that only wrap a request helper); logging;
`src/lib.rs` and the live tests; `platform_fee`, one exact product nothing calls;
`TickSizeCache`, one value per token, of which only a hazard is worth telling: a
tick change is delivered over several connections, and a copy that lags may set an
old tick again until the next change. Within the modelled parts: 256-bit and 64-bit saturation
(amounts are token balances, gas sums are tiny), duplicate legs inside one job
(the callers build a job's legs from an event's distinct markets), an empty
`question_ids` (a tier has a member and `MAX_LEGS_PER_CONVERT` is 20), the
relayer's nonces and deadlines (each submission reads a fresh nonce; a stale one
is a refusal), and a caller that runs two engine operations at once on one wallet. Of the
poster: HTTP set-up, DNS pinning, `warm_up` and the pooled connections, timings,
and calls that fail before anything is sent (signing, an empty batch, an empty list
of ids). Of the streams: frame parsing, event kinds no book or fill depends on, deltas
of an unknown side (skipped by the example), snapshots the venue sends in mid-stream,
consumers that stall, and the supervisors' backoff growth (a unit or more).

## 8. Plan

Done: all components that keep state, and the proofs of all the safety properties the
passing runs check; liveness stays with TLC. What could follow, most important first:

1. `TickSizeCache` behind Streams' fan-out, and consumers that stall.
2. Sweep over ConvertEngine itself instead of the effect of `process_job`.
