------------------------------ MODULE PlanExec ------------------------------
(***************************************************************************)
(* A plan read from one snapshot and executed alone: the chunks land in    *)
(* order and each call of a chunk runs on what the calls before it left.   *)
(* The machine asks of the planner what plan_calls' and EventPlan's        *)
(* comments claim: every call is executable where it stands, the proceeds  *)
(* are exact, and one pass is the fixpoint of read -> convert -> re-read.  *)
(***************************************************************************)
EXTENDS ConvertPlan

CONSTANTS Snapshots, JobLists   \* the snapshots and the job lists a run starts from

ASSUME ExecAssumption ==
  Snapshots \subseteq Wallet /\ \A js \in JobLists : IsJobList(js)

VARIABLES
  jobs,     \* the legs the plan is made for
  planned,  \* the snapshot has been read and planned
  snap,     \* the wallet the balances were read from
  held,     \* the wallet now
  due,      \* submissions not started
  batch     \* calls of the submission under execution still to run

planVars == <<jobs, planned, snap, held, due, batch>>

PlanInit ==
  /\ jobs \in JobLists
  /\ snap \in Snapshots
  /\ held = snap
  /\ planned = FALSE
  /\ due = <<>> /\ batch = <<>>

Plan ==
  /\ ~planned /\ planned' = TRUE
  /\ due' = GasChunks(PlanCalls(snap, jobs))
  /\ UNCHANGED <<jobs, snap, held, batch>>

\* The next submission goes out once the one before it has landed.
Submit ==
  /\ batch = <<>> /\ due # <<>>
  /\ batch' = CallsOf(Head(due))
  /\ due' = Tail(due)
  /\ UNCHANGED <<jobs, planned, snap, held>>

Execute ==
  /\ batch # <<>> /\ CallValid(held, Head(batch))
  /\ held' = ApplyCall(held, Head(batch))
  /\ batch' = Tail(batch)
  /\ UNCHANGED <<jobs, planned, snap, due>>

PlanNext == Plan \/ Submit \/ Execute
PlanSpec == PlanInit /\ [][PlanNext]_planVars

Finished == planned /\ due = <<>> /\ batch = <<>>

---------------------------------------------------------------------------
Legs(js)   == UNION {ToSet(js[i]) : i \in DOMAIN js}
AllMergeable == \A l \in Legs(jobs) : l.cid /\ l.yid

\* Order is load-bearing (plan_calls): at every point of every submission the
\* next call burns no more than the wallet holds by then, so nothing reverts.
EveryCallRuns == batch # <<>> => CallValid(held, Head(batch))

\* EventPlan.proceeds is exact: the USDC.e the executed calls freed is the sum
\* the planner announced from the snapshot.
ProceedsExact == Finished => held.usdce = snap.usdce + Proceeds(snap, jobs)

\* One pass is the fixpoint (plan_tiers): re-reading the balances afterwards
\* plans nothing, unless a leg knows neither its condition id nor its YES token
\* (the YES a truncated convert mints on it is then neither merged nor seen).
OnePassSuffices ==
  Finished /\ (\A l \in Legs(jobs) : l.cid \/ l.yid) => PlanCalls(held, jobs) = <<>>

\* The tiers, truncated or not, free all that netting can free: per event the
\* YES+NO pairs, and every remaining NO but the largest - that is, all the NO
\* there is but the most that is left of one leg's.
Best(w, job) ==
  LET left(l) == w.no[l.id] - Min({w.no[l.id], w.yes[l.id]})
  IN  SumUp([i \in DOMAIN job |-> w.no[job[i].id]]) - Max({0} \union {left(l) : l \in ToSet(job)})
FreesTheMost ==
  Finished /\ AllMergeable =>
    held.usdce = snap.usdce + SumUp([i \in DOMAIN jobs |-> Best(snap, jobs[i])])

\* gas_chunks: every submission keeps to the call cap and the gas budget unless
\* it is one call, and no submission could have taken the next one's first call.
WithinBudget(chunk) == Len(chunk) <= Max({MaxCalls, 1}) /\ Gas(chunk) <= MaxGas
ChunksPackGreedily ==
  \A i \in DOMAIN due :
    /\ due[i] # <<>>
    /\ Len(due[i]) = 1 \/ WithinBudget(due[i])
    /\ i < Len(due) => ~WithinBudget(Append(due[i], due[i + 1][1]))

\* plan_calls, "Every call here is also individually valid against the
\* pre-batch balance snapshot": what the comment claims, not what the code does.
ValidAgainstSnapshot == batch # <<>> => CallValid(snap, Head(batch))
=============================================================================
