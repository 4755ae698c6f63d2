---------------------------- MODULE ConvertWorker ----------------------------
(***************************************************************************)
(* convert_worker of src/convert.rs: drains queued jobs into one coalesced *)
(* cycle per pass.  process_jobs is the step CycleReturns here, with the   *)
(* results ConvertEngine shows it returns; its duration is arbitrary.      *)
(*                                                                         *)
(* Time is counted in ticks: a job's age is the time since its queued_at,  *)
(* capped where it stops mattering, and `timer` what the running sleep has *)
(* left.  A sleep may overrun, never underrun.                             *)
(***************************************************************************)
EXTENDS Integers, Sequences

CONSTANTS
  Slug,       \* the events jobs are about
  FillDelay,  \* ConvertDelays.fill_to_convert
  Backoff,    \* ConvertDelays.retry_backoff
  Capacity,   \* of the job channel, chosen by the caller
  MaxJobs     \* bound: jobs sent during a run

ASSUME WorkerAssumption ==
  FillDelay \in Nat /\ Backoff \in Nat /\ Capacity \in Nat \ {0} /\ MaxJobs \in Nat

VARIABLES
  queue,    \* jobs in the channel: [slug, age]
  open,     \* a sender is alive
  pc,       \* where the worker is
  batch,    \* jobs of this pass not answered yet
  timer,    \* ticks left of the running sleep
  cycle,    \* the positions in batch of the jobs process_jobs was given
  outcome,  \* what process_jobs returned
  cooled,   \* history: ticks since the last failed cycle was reported
  sent, answers   \* history: slugs sent, results returned

vars == <<queue, open, pc, batch, timer, cycle, outcome, cooled, sent, answers>>

Job == [slug : Slug, age : 0..FillDelay]
Outcomes == {"ok", "quota", "err"}
Where == {"recv", "fillwait", "drain", "topup", "cycle", "report", "backoff", "exit"}

TypeOK ==
  /\ queue \in Seq(Job) /\ batch \in Seq(Job) /\ cycle \subseteq Nat
  /\ open \in BOOLEAN /\ pc \in Where /\ timer \in Nat
  /\ outcome \in Outcomes /\ cooled \in 0..Backoff
  /\ sent \in Seq(Slug) /\ answers \in Seq([slug : Slug, how : Outcomes])

Init ==
  /\ queue = <<>> /\ open = TRUE /\ pc = "recv" /\ batch = <<>> /\ timer = 0
  /\ cycle = {} /\ outcome = "ok" /\ cooled = Backoff
  /\ sent = <<>> /\ answers = <<>>

---------------------------------------------------------------------------
(* The caller and the clock.                                               *)

Send ==
  /\ open /\ Len(queue) < Capacity /\ Len(sent) < MaxJobs
  /\ \E s \in Slug, age \in 0..FillDelay :
       /\ queue' = Append(queue, [slug |-> s, age |-> age])
       /\ sent' = Append(sent, s)
  /\ UNCHANGED <<open, pc, batch, timer, cycle, outcome, cooled, answers>>

Close ==
  /\ open /\ open' = FALSE
  /\ UNCHANGED <<queue, pc, batch, timer, cycle, outcome, cooled, sent, answers>>

Upto(n, bound) == IF n < bound THEN n + 1 ELSE n
Aged(jobs) == [i \in DOMAIN jobs |-> [slug |-> jobs[i].slug, age |-> Upto(jobs[i].age, FillDelay)]]

Tick ==
  /\ queue' = Aged(queue) /\ batch' = Aged(batch)
  /\ timer' = (IF timer > 0 THEN timer - 1 ELSE 0)
  /\ cooled' = Upto(cooled, Backoff)
  /\ UNCHANGED <<open, pc, cycle, outcome, sent, answers>>

---------------------------------------------------------------------------
(* fill_residual and dedup_by_slug.                                        *)

\* The longest wait any of the jobs still needs, zero for none.
ResidualUnsaturated(jobs) ==            \* mutant: operands swapped, no saturation
  {jobs[i].age - FillDelay : i \in DOMAIN jobs}
FillResidual(jobs) ==
  {t \in 0..FillDelay :
     /\ \A i \in DOMAIN jobs : t >= FillDelay - jobs[i].age
     /\ t = 0 \/ \E i \in DOMAIN jobs : t = FillDelay - jobs[i].age}

Undeduplicated(jobs) == DOMAIN jobs     \* mutant: every job is handed over
DedupBySlug(jobs) ==
  {i \in DOMAIN jobs : \A j \in 1..(i - 1) : jobs[j].slug # jobs[i].slug}

---------------------------------------------------------------------------
(* The worker's pass.                                                      *)

\* rx.recv() yields a job; the first fill wait starts.
Recv ==
  /\ pc = "recv" /\ queue # <<>>
  /\ batch' = <<Head(queue)>> /\ queue' = Tail(queue)
  /\ timer' \in FillResidual(batch') /\ pc' = "fillwait"
  /\ UNCHANGED <<open, cycle, outcome, cooled, sent, answers>>

\* rx.recv() yields None: every sender is gone and the channel is empty.
ExitWhenClosed ==               \* mutant: leaves with jobs still queued
  /\ pc = "recv" /\ ~open /\ pc' = "exit"
  /\ UNCHANGED <<queue, open, batch, timer, cycle, outcome, cooled, sent, answers>>
Exit ==
  /\ pc = "recv" /\ queue = <<>> /\ ~open /\ pc' = "exit"
  /\ UNCHANGED <<queue, open, batch, timer, cycle, outcome, cooled, sent, answers>>

FillWaited ==
  /\ pc = "fillwait" /\ timer = 0 /\ pc' = "drain"
  /\ UNCHANGED <<queue, open, batch, timer, cycle, outcome, cooled, sent, answers>>

\* try_recv until it yields nothing; the caller may still be sending.
DrainInFront ==                 \* mutant: drained jobs overtake the first
  /\ pc = "drain" /\ queue # <<>>
  /\ batch' = <<Head(queue)>> \o batch /\ queue' = Tail(queue)
  /\ UNCHANGED <<open, pc, timer, cycle, outcome, cooled, sent, answers>>
Drain ==
  /\ pc = "drain" /\ queue # <<>>
  /\ batch' = Append(batch, Head(queue)) /\ queue' = Tail(queue)
  /\ UNCHANGED <<open, pc, timer, cycle, outcome, cooled, sent, answers>>

NoTopUp ==                      \* mutant: drained jobs are not waited for
  /\ pc = "drain" /\ queue = <<>>
  /\ timer' = 0 /\ pc' = "topup"
  /\ UNCHANGED <<queue, open, batch, cycle, outcome, cooled, sent, answers>>
Drained ==
  /\ pc = "drain" /\ queue = <<>>
  /\ timer' \in FillResidual(batch) /\ pc' = "topup"
  /\ UNCHANGED <<queue, open, batch, cycle, outcome, cooled, sent, answers>>

StartCycle ==
  /\ pc = "topup" /\ timer = 0
  /\ cycle' = DedupBySlug(batch) /\ pc' = "cycle"
  /\ UNCHANGED <<queue, open, batch, timer, outcome, cooled, sent, answers>>

CycleReturns ==
  /\ pc = "cycle" /\ outcome' \in Outcomes /\ pc' = "report"
  /\ UNCHANGED <<queue, open, batch, timer, cycle, cooled, sent, answers>>

ReportCycleJobs ==              \* mutant: one result per event, not per job
  /\ pc = "report" /\ batch # <<>>
  /\ answers' = Append(answers, [slug |-> Head(batch).slug, how |-> outcome])
  /\ batch' = SelectSeq(Tail(batch), LAMBDA job : job.slug # Head(batch).slug)
  /\ UNCHANGED <<queue, open, pc, timer, cycle, outcome, cooled, sent>>
Report ==
  /\ pc = "report" /\ batch # <<>>
  /\ answers' = Append(answers, [slug |-> Head(batch).slug, how |-> outcome])
  /\ batch' = Tail(batch)
  /\ UNCHANGED <<queue, open, pc, timer, cycle, outcome, cooled, sent>>

Reported ==
  /\ pc = "report" /\ batch = <<>> /\ outcome = "ok" /\ pc' = "recv"
  /\ UNCHANGED <<queue, open, batch, timer, cycle, outcome, cooled, sent, answers>>

NoBackoffOnError ==             \* mutant: only quota exhaustion is damped
  /\ pc = "report" /\ batch = <<>> /\ outcome # "ok" /\ cooled' = 0
  /\ timer' = (IF outcome = "quota" THEN Backoff ELSE 0) /\ pc' = "backoff"
  /\ UNCHANGED <<queue, open, batch, cycle, outcome, sent, answers>>
ReportedFailure ==
  /\ pc = "report" /\ batch = <<>> /\ outcome # "ok" /\ cooled' = 0
  /\ timer' = Backoff /\ pc' = "backoff"
  /\ UNCHANGED <<queue, open, batch, cycle, outcome, sent, answers>>

BackedOff ==
  /\ pc = "backoff" /\ timer = 0 /\ pc' = "recv"
  /\ UNCHANGED <<queue, open, batch, timer, cycle, outcome, cooled, sent, answers>>

WorkerStep ==
  Recv \/ Exit \/ FillWaited \/ Drain \/ Drained \/ StartCycle
    \/ CycleReturns \/ Report \/ Reported \/ ReportedFailure \/ BackedOff
Next == WorkerStep \/ Send \/ Close \/ Tick
Spec == Init /\ [][Next]_vars

\* tokio polls a ready task, time passes, and process_jobs returns
\* (ConvertEngine's CycleEnds).
FairSpec == Spec /\ WF_vars(WorkerStep) /\ WF_vars(Tick)

---------------------------------------------------------------------------
\* Every job sent is answered, being processed or queued, once, in order and
\* under its own slug: no job is lost or answered twice.
JobsConserved ==
  /\ Len(sent) = Len(answers) + Len(batch) + Len(queue)
  /\ \A i \in 1..Len(answers) : answers[i].slug = sent[i]
  /\ \A i \in 1..Len(batch) : batch[i].slug = sent[Len(answers) + i]
  /\ \A i \in 1..Len(queue) : queue[i].slug = sent[Len(answers) + Len(batch) + i]

\* When balances are read for a cycle, the fills of every job in it have had
\* the whole fill delay to settle, those drained last too.
FillsHaveSettled == pc = "cycle" => \A i \in DOMAIN batch : batch[i].age = FillDelay

\* A cycle covers each event of its batch exactly once: an event planned twice
\* from one snapshot would have its NO converted twice.
CycleCoversEachEventOnce ==
  pc = "cycle" =>
    /\ \A i \in DOMAIN batch : \E j \in cycle : batch[j].slug = batch[i].slug
    /\ \A i, j \in cycle : batch[i].slug = batch[j].slug => i = j

\* No cycle starts before the backoff of a failed one is over.
FailuresAreDamped == pc \in {"fillwait", "drain", "topup", "cycle"} => cooled = Backoff

\* A worker whose senders are gone answers what is queued and ends.
ClosedWorkerExits == ~open ~> pc = "exit" /\ Len(answers) = Len(sent)

\* The worker implements the job service, its promise of an answer included.
Service == INSTANCE JobService
ImplementsJobService == Service!FairSpec
=============================================================================
