----------------------------- MODULE ConvertPlan -----------------------------
(***************************************************************************)
(* The pure planner of src/convert.rs: balances of a snapshot -> merges,   *)
(* convert tiers, one ordered call list, and its chunks.                   *)
(*                                                                         *)
(* A leg of a job is [id, cid, yid]: `cid` says the ConvertLeg carries a   *)
(* condition id, `yid` that it carries a YES token id.  A job is the       *)
(* sequence of its legs; jobs are a sequence of jobs.                      *)
(***************************************************************************)
EXTENDS NegRisk, Lists

CONSTANTS
  MaxLegs,    \* MAX_LEGS_PER_CONVERT
  MinQty,     \* ConvertDelays.single_leg_min_qty_raw
  MaxCalls,   \* ConvertDelays.max_calls_per_submission
  MaxGas      \* ConvertDelays.max_gas_per_submission, in thousands

ASSUME PlanAssumption ==
  MaxLegs \in Nat \ {0} /\ MinQty \in Nat /\ MaxCalls \in Nat /\ MaxGas \in Nat

JobLeg == [id : Leg, cid : BOOLEAN, yid : BOOLEAN]

\* What the callers hand over: a job is the distinct markets of one event, and
\* no event has two jobs (dedup_by_slug).
IsJob(job) ==
  /\ job \in Seq(JobLeg)
  /\ \A i, j \in DOMAIN job : /\ job[i].id = job[j].id => i = j
                              /\ EventOf[job[i].id] = EventOf[job[j].id]
IsJobList(jobs) ==
  /\ jobs \in Seq(Seq(JobLeg))
  /\ \A i \in DOMAIN jobs : IsJob(jobs[i])
  /\ \A i, j \in DOMAIN jobs : \A l \in ToSet(jobs[i]), m \in ToSet(jobs[j]) :
       EventOf[l.id] = EventOf[m.id] => i = j

---------------------------------------------------------------------------
(* Balances as read: a leg without a YES token id reads a zero YES.        *)

No(w, l)  == w.no[l.id]
Yes(w, l) == IF l.yid THEN w.yes[l.id] ELSE 0

(* classify_event: what merges, and the NO that is left.                   *)
Netted(w, l) == Min({No(w, l), Yes(w, l)})

Remaining(w, l) == No(w, l) - Netted(w, l)

Merges(w, job) ==
  LET merging == Only(job, {l \in ToSet(job) : Netted(w, l) > 0 /\ l.cid})
  IN  [i \in DOMAIN merging |-> Merge(merging[i].id, Netted(w, merging[i]))]

---------------------------------------------------------------------------
(* plan_tiers.  A tier is [members, amount, post]: the legs converted, the *)
(* NO burned on each, the compensating merges of members past MaxLegs.     *)

Levels(w, job)     == {Remaining(w, l) : l \in ToSet(job)} \ {0}
Members(w, job, v) == Only(job, {l \in ToSet(job) : Remaining(w, l) >= v})

Amount(w, job, v) == v - Max({0} \union {u \in Levels(w, job) : u < v})

\* A lone leg below the minimum ends the decomposition.
DustAnyWidth(w, job, v) == Amount(w, job, v) < MinQty   \* mutant: of any width
Dust(w, job, v) == Len(Members(w, job, v)) = 1 /\ Amount(w, job, v) < MinQty
TierLevels(w, job) ==
  Ascending({v \in Levels(w, job) : \A u \in Levels(w, job) : u <= v => ~Dust(w, job, u)})

TierNoPost(w, job, v) ==                           \* mutant: no compensation
  LET members == Members(w, job, v)
  IN  [members |-> SubSeq(members, 1, Min({MaxLegs, Len(members)})),
       amount |-> Amount(w, job, v), post |-> <<>>]
Tier(w, job, v) ==
  LET members == Members(w, job, v)
      width   == Min({MaxLegs, Len(members)})
      amount  == Amount(w, job, v)
      rest    == Only(SubSeq(members, width + 1, Len(members)), {l \in ToSet(job) : l.cid})
  IN  [members |-> SubSeq(members, 1, width), amount |-> amount,
       post |-> [i \in DOMAIN rest |-> Merge(rest[i].id, amount)]]
Tiers(w, job) ==
  LET levels == TierLevels(w, job) IN [i \in DOMAIN levels |-> Tier(w, job, levels[i])]

---------------------------------------------------------------------------
(* plan_event's proceeds and plan_calls' order.                            *)

SumAmounts(merges) == SumUp([i \in DOMAIN merges |-> merges[i].amount])

TierProceedsFull(t) == Len(t.members) * t.amount + SumAmounts(t.post)   \* mutant: k for k - 1
TierProceeds(t) == (Len(t.members) - 1) * t.amount + SumAmounts(t.post)
JobProceeds(w, job) ==
  LET tiers == Tiers(w, job)
  IN  SumAmounts(Merges(w, job)) + SumUp([i \in DOMAIN tiers |-> TierProceeds(tiers[i])])
Proceeds(w, jobs) == SumUp([i \in DOMAIN jobs |-> JobProceeds(w, jobs[i])])

\* Gas weights, in thousands.
MergeGas      == 400
ConvertGas(n) == 700 + 175 * n
Planned(call, gas) == [call |-> call, gas |-> gas]
AllMerges(merges)  == [i \in DOMAIN merges |-> Planned(merges[i], MergeGas)]

TierCallsPostFirst(t, n) ==                        \* mutant: post-merges go first
  AllMerges(t.post)
    \o <<Planned(Convert({l.id : l \in ToSet(t.members)}, t.amount), ConvertGas(n))>>
TierCalls(t, n) ==
  <<Planned(Convert({l.id : l \in ToSet(t.members)}, t.amount), ConvertGas(n))>>
    \o AllMerges(t.post)

JobCalls(w, job) ==
  LET tiers == Tiers(w, job)
  IN  AllMerges(Merges(w, job))
        \o FlattenSeq([i \in DOMAIN tiers |-> TierCalls(tiers[i], Len(job))])
PlanCalls(w, jobs) == FlattenSeq([i \in DOMAIN jobs |-> JobCalls(w, jobs[i])])

---------------------------------------------------------------------------
(* gas_chunks: greedy and contiguous, under both caps; a first call always *)
(* fits.                                                                   *)

Gas(chunk) == SumUp([i \in DOMAIN chunk |-> chunk[i].gas])

FitsOneMore(chunk, p) ==                           \* mutant: `count > max_calls`
  Len(chunk) <= Max({MaxCalls, 1}) /\ Gas(chunk) + p.gas <= MaxGas
Fits(chunk, p) ==
  Len(chunk) < Max({MaxCalls, 1}) /\ Gas(chunk) + p.gas <= MaxGas

GasChunks(planned) ==
  FoldLeft(LAMBDA chunks, p :
             IF chunks # <<>> /\ Fits(Last(chunks), p)
             THEN Front(chunks) \o <<Append(Last(chunks), p)>>
             ELSE Append(chunks, <<p>>),
           <<>>, planned)

CallsOf(chunk) == [i \in DOMAIN chunk |-> chunk[i].call]
=============================================================================
