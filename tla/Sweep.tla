-------------------------------- MODULE Sweep --------------------------------
(***************************************************************************)
(* The safety net of src/sweep.rs: list the wallet's positions, resolve    *)
(* the negRisk events they belong to, classify each from the listed sizes  *)
(* alone, and run the convert cycle over each actionable one in turn.      *)
(***************************************************************************)
EXTENDS ConvertPlan

CONSTANTS
  JobOf,           \* the legs Gamma names for each event
  NegRiskEvents,   \* those that are negRisk
  SweepWallets,    \* the wallets a sweep may find
  MinShares,       \* the values of opts.min_shares
  MaxFills, MaxMisses   \* bounds: fills during a sweep, failures of its calls

ASSUME SweepAssumption ==
  /\ IsFiniteSet(NegRiskEvents) /\ SweepWallets \subseteq Wallet /\ MinShares \subseteq Nat
  /\ MaxFills \in Nat /\ MaxMisses \in Nat
  /\ \A e \in NegRiskEvents : IsJob(JobOf[e]) /\ \A l \in ToSet(JobOf[e]) : EventOf[l.id] = e

VARIABLES
  wallet,     \* balances on chain
  sweep,      \* the call: pc, floor (min_shares), only (only_slug), rows, the
              \* events left, the ones resolved, those actionable, summary counts
  whole,      \* history: every event was resolved, the rows were all there is
  misses      \* bound: fills and failures so far

svars == <<wallet, sweep, whole, misses>>

All == "every event"
NoRows == [no |-> [l \in Leg |-> 0], yes |-> [l \in Leg |-> 0]]
Rows(w) == [no |-> w.no, yes |-> w.yes]

Options == [floor: MinShares, only: NegRiskEvents \union {All}]
SInit(wallets, options) ==
  /\ wallet \in wallets /\ whole = TRUE /\ misses = [fills |-> 0, fails |-> 0]
  /\ \E o \in options :
       sweep = [pc |-> "idle", floor |-> o.floor, only |-> o.only, rows |-> NoRows,
                slugs |-> {}, found |-> {}, todo |-> {}, executed |-> 0, failed |-> 0, actionable |-> 0]

\* A row per token held, from the floor up.
Listed(w) ==
  LET above(n) == IF n >= sweep.floor THEN n ELSE 0
  IN  [no |-> [l \in Leg |-> above(w.no[l])], yes |-> [l \in Leg |-> above(w.yes[l])]]
Held(rows) == {EventOf[l] : l \in {m \in Leg : rows.no[m] + rows.yes[m] > 0}}

---------------------------------------------------------------------------
(* leg_sizes and classify_event, on a job's legs.                          *)

Size(rows, l)     == [no |-> rows.no[l.id], yes |-> IF l.yid THEN rows.yes[l.id] ELSE 0]
Pair(s)           == IF s.no < s.yes THEN s.no ELSE s.yes
Mergeable(rows, job) == \E l \in ToSet(job) : Pair(Size(rows, l)) > 0 /\ l.cid
Leftover(rows, job) ==
  {i \in DOMAIN job : LET s == Size(rows, job[i]) IN s.no - Pair(s) > 0}
ConvertibleInPairs(rows, job) == Cardinality(Leftover(rows, job)) > 1   \* mutant: no lone leg
Convertible(rows, job) ==
  LET left == Leftover(rows, job)
  IN  \/ Cardinality(left) > 1
      \/ \E i \in left : LET s == Size(rows, job[i]) IN s.no - Pair(s) >= MinQty
Actionable(rows, job) == Mergeable(rows, job) \/ Convertible(rows, job)

---------------------------------------------------------------------------
(* discover.                                                               *)

Fails == misses.fails < MaxMisses /\ misses' = [misses EXCEPT !.fails = @ + 1]

\* all_positions: a failure is the call's; the distinct negRisk slugs follow.
List ==
  /\ sweep.pc = "idle"
  /\ \/ LET rows  == Listed(wallet)
            slugs == {e \in Held(rows) \intersect NegRiskEvents : sweep.only \in {All, e}}
        IN  /\ sweep' = [sweep EXCEPT !.pc = "resolve", !.rows = rows, !.slugs = slugs]
            /\ whole' = (rows = Rows(wallet)) /\ UNCHANGED misses
     \/ sweep' = [sweep EXCEPT !.pc = "error"] /\ Fails /\ UNCHANGED whole
  /\ UNCHANGED wallet

\* resolve_event, several at a time: a Gamma error skips the event, and so does
\* a job of fewer than two legs.
Resolve ==
  /\ sweep.pc = "resolve"
  /\ \E e \in sweep.slugs :
       \/ /\ sweep' = [sweep EXCEPT !.slugs = @ \ {e},
                                    !.found = IF Len(JobOf[e]) >= 2 THEN @ \union {e} ELSE @]
          /\ UNCHANGED <<whole, misses>>
       \/ sweep' = [sweep EXCEPT !.slugs = @ \ {e}] /\ whole' = FALSE /\ Fails
  /\ UNCHANGED wallet

Classify ==
  /\ sweep.pc = "resolve" /\ sweep.slugs = {}
  /\ LET todo == {e \in sweep.found : Actionable(sweep.rows, JobOf[e])}
     IN  sweep' = [sweep EXCEPT !.pc = "settle", !.todo = todo, !.actionable = Cardinality(todo)]
  /\ UNCHANGED <<wallet, whole, misses>>

---------------------------------------------------------------------------
(* sweep_all: one process_job after the other.  An Ok means that the whole *)
(* plan of the balances read at that moment has run, as ConvertEngine      *)
(* establishes; after an Err some of its chunks may have, and the sweep    *)
(* goes on with the next event.                                            *)

After(w, job, n) == RunBatch(w, CallsOf(SubSeq(PlanCalls(w, <<job>>), 1, n))).w

SettleAnyWay(e) == sweep' = [sweep EXCEPT !.todo = @ \ {e}, !.executed = @ + 1]   \* mutant
SettleFails(e) == sweep' = [sweep EXCEPT !.todo = @ \ {e}, !.failed = @ + 1]
Settle ==
  /\ sweep.pc = "settle"
  /\ \E e \in sweep.todo :
       LET plan == PlanCalls(wallet, <<JobOf[e]>>)
       IN  \/ /\ wallet' = After(wallet, JobOf[e], Len(plan)) /\ UNCHANGED misses
              /\ sweep' = [sweep EXCEPT !.todo = @ \ {e}, !.executed = @ + 1]
           \/ \E n \in 0..Len(plan) :
                wallet' = After(wallet, JobOf[e], n) /\ SettleFails(e) /\ Fails
  /\ UNCHANGED whole

Report ==
  /\ sweep.pc = "settle" /\ sweep.todo = {}
  /\ sweep' = [sweep EXCEPT !.pc = "done"]
  /\ UNCHANGED <<wallet, whole, misses>>

\* A fill changes what is held: the rows may be stale by the time they are used.
FillDuringSweep ==
  /\ sweep.pc \notin {"done", "error"} /\ misses.fills < MaxFills /\ misses' = [misses EXCEPT !.fills = @ + 1]
  /\ \E l \in Leg : wallet' = [wallet EXCEPT !.no[l] = @ + 1]
  /\ whole' = (whole /\ sweep.pc = "idle")
  /\ UNCHANGED sweep

SNext == List \/ Resolve \/ Classify \/ Settle \/ Report \/ FillDuringSweep

\* A sweep that reports no failure has left nothing a convert cycle would act on,
\* in any event it was asked about - though it looked at listed sizes, not at
\* balances, and skips what looks like no work - unless the listing or an event
\* was incomplete or holdings moved ("a re-run simply finds less to do").
SweepSettles ==
  sweep.pc = "done" /\ sweep.failed = 0 /\ whole =>
    /\ sweep.executed = sweep.actionable
    /\ \A e \in NegRiskEvents :
         sweep.only \in {All, e} /\ Len(JobOf[e]) >= 2 => PlanCalls(wallet, <<JobOf[e]>>) = <<>>
=============================================================================
