------------------------ MODULE ConvertWorkerProofs ------------------------
(***************************************************************************)
(* What ConvertWorker's run checks on four jobs, for every channel, delay  *)
(* and number of jobs: type correctness, conservation of jobs, the two     *)
(* waiting disciplines, the deduplication of a cycle, and that the worker  *)
(* implements JobService's safety.                                         *)
(***************************************************************************)
EXTENDS ConvertWorker, WellFoundedInduction, TLAPS

USE WorkerAssumption

\* Ageing the jobs of a sequence keeps it a sequence of jobs, of that length
\* and with those slugs.
LEMMA AgedIsSeq ==
  ASSUME NEW jobs \in Seq(Job)
  PROVE  /\ Aged(jobs) \in Seq(Job) /\ Len(Aged(jobs)) = Len(jobs)
         /\ \A i \in 1..Len(jobs) : Aged(jobs)[i].slug = jobs[i].slug
         /\ \A i \in 1..Len(jobs) : Aged(jobs)[i].age = Upto(jobs[i].age, FillDelay)
<1>1. \A i \in 1..Len(jobs) : jobs[i] \in Job
  OBVIOUS
<1>2. \A i \in 1..Len(jobs) :
        [slug |-> jobs[i].slug, age |-> Upto(jobs[i].age, FillDelay)] \in Job
  BY <1>1 DEF Job, Upto
<1>3. Aged(jobs) \in [1..Len(jobs) -> Job]
  BY <1>2 DEF Aged
<1>4. Aged(jobs) \in Seq(Job) /\ Len(Aged(jobs)) = Len(jobs)
  BY <1>3
<1> QED
  BY <1>3, <1>4 DEF Aged

\* Type correctness: every variable keeps its type in every reachable state.
THEOREM TypeCorrect == Spec => []TypeOK
<1>1. Init => TypeOK
  BY DEF Init, TypeOK, Outcomes, Where
<1>2. TypeOK /\ [Next]_vars => TypeOK'
  <2> SUFFICES ASSUME TypeOK, [Next]_vars PROVE TypeOK'
    OBVIOUS
  <2> USE DEF TypeOK
  <2>1. CASE Send
    <3>1. PICK s \in Slug, age \in 0..FillDelay :
             queue' = Append(queue, [slug |-> s, age |-> age]) /\ sent' = Append(sent, s)
      BY <2>1 DEF Send
    <3>2. [slug |-> s, age |-> age] \in Job
      BY DEF Job
    <3> QED
      BY <2>1, <3>1, <3>2 DEF Send
  <2>2. CASE Close
    BY <2>2 DEF Close
  <2>3. CASE Tick
    BY <2>3, AgedIsSeq DEF Tick, Upto
  <2>4. CASE Recv
    <3>1. Head(queue) \in Job /\ Tail(queue) \in Seq(Job)
      BY <2>4 DEF Recv
    <3>2. timer' \in Nat
      BY <2>4 DEF Recv, FillResidual
    <3> QED
      BY <2>4, <3>1, <3>2 DEF Recv, Where
  <2>5. CASE Exit
    BY <2>5 DEF Exit, Where
  <2>6. CASE FillWaited
    BY <2>6 DEF FillWaited, Where
  <2>7. CASE Drain
    BY <2>7 DEF Drain
  <2>8. CASE Drained
    BY <2>8 DEF Drained, FillResidual, Where
  <2>9. CASE StartCycle
    <3>1. DedupBySlug(batch) \subseteq Nat
      BY DEF DedupBySlug
    <3> QED
      BY <2>9, <3>1 DEF StartCycle, Where
  <2>10. CASE CycleReturns
    BY <2>10 DEF CycleReturns, Where
  <2>11. CASE Report
    <3>1. Head(batch) \in Job /\ Tail(batch) \in Seq(Job)
      BY <2>11 DEF Report
    <3>2. [slug |-> Head(batch).slug, how |-> outcome] \in [slug : Slug, how : Outcomes]
      BY <3>1 DEF Job
    <3> QED
      BY <2>11, <3>1, <3>2 DEF Report
  <2>12. CASE Reported
    BY <2>12 DEF Reported, Where
  <2>13. CASE ReportedFailure
    BY <2>13 DEF ReportedFailure, Where
  <2>14. CASE BackedOff
    BY <2>14 DEF BackedOff, Where
  <2>15. CASE UNCHANGED vars
    BY <2>15 DEF vars
  <2> QED
    BY <2>1, <2>2, <2>3, <2>4, <2>5, <2>6, <2>7, <2>8, <2>9, <2>10, <2>11, <2>12, <2>13,
       <2>14, <2>15 DEF Next, WorkerStep
<1> QED
  BY <1>1, <1>2, PTL DEF Spec

---------------------------------------------------------------------------
(* Conservation of jobs.  The batch is whole until results are sent, and   *)
(* empty while the worker is between passes: Recv, which overwrites it,    *)
(* loses nothing only because of that.                                     *)

BatchIsSpent == pc \in {"recv", "backoff", "exit"} => batch = <<>>
Conserved == TypeOK /\ BatchIsSpent /\ JobsConserved

\* Conserved is inductive.
LEMMA ConservedIsInvariant == Spec => []Conserved
<1>1. Init => BatchIsSpent /\ JobsConserved
  BY DEF Init, BatchIsSpent, JobsConserved
<1>2. Conserved /\ TypeOK' /\ [Next]_vars => BatchIsSpent' /\ JobsConserved'
  <2> SUFFICES ASSUME Conserved, TypeOK', [Next]_vars
               PROVE  BatchIsSpent' /\ JobsConserved'
    OBVIOUS
  <2> USE DEF Conserved, BatchIsSpent
  <2>0. /\ Len(sent) \in Nat /\ Len(answers) \in Nat /\ Len(batch) \in Nat /\ Len(queue) \in Nat
        /\ queue \in Seq(Job) /\ batch \in Seq(Job) /\ sent \in Seq(Slug)
        /\ answers \in Seq([slug : Slug, how : Outcomes])
    BY DEF TypeOK
  <2>00. /\ Len(sent) = Len(answers) + Len(batch) + Len(queue)
         /\ Len(sent) \in Nat /\ Len(answers) \in Nat /\ Len(batch) \in Nat /\ Len(queue) \in Nat
    BY <2>0 DEF JobsConserved
  <2>1. CASE Send
    <3>1. PICK s \in Slug, age \in 0..FillDelay :
             queue' = Append(queue, [slug |-> s, age |-> age]) /\ sent' = Append(sent, s)
      BY <2>1 DEF Send
    <3>2. /\ Len(queue') = Len(queue) + 1 /\ Len(sent') = Len(sent) + 1
          /\ \A i \in 1..Len(queue) : queue'[i] = queue[i]
          /\ queue'[Len(queue) + 1].slug = s
          /\ \A i \in 1..Len(sent) : sent'[i] = sent[i]
          /\ sent'[Len(sent) + 1] = s
      BY <2>0, <3>1
    <3>3. batch' = batch /\ answers' = answers /\ pc' = pc
      BY <2>1 DEF Send
    <3>4. BatchIsSpent'
      BY <2>0, <3>1, <3>3
    <3>5. Len(sent') = Len(answers') + Len(batch') + Len(queue')
      BY <2>0, <3>1, <3>2, <3>3 DEF JobsConserved
    <3>6. \A i \in 1..Len(answers') : answers'[i].slug = sent'[i]
      BY <2>0, <3>1, <3>2, <3>3 DEF JobsConserved
    <3>7. \A i \in 1..Len(batch') : batch'[i].slug = sent'[Len(answers') + i]
      BY <2>0, <3>1, <3>2, <3>3 DEF JobsConserved
    <3>8. \A i \in 1..Len(queue') :
            queue'[i].slug = sent'[Len(answers') + Len(batch') + i]
      <4> SUFFICES ASSUME NEW i \in 1..Len(queue')
                   PROVE  queue'[i].slug = sent'[Len(answers) + Len(batch) + i]
        BY <3>3
      <4>1. CASE i \in 1..Len(queue)
        <5>1. Len(answers) + Len(batch) + i \in 1..Len(sent)
          BY <2>00, <4>1
        <5>2. queue[i].slug = sent[Len(answers) + Len(batch) + i]
          BY <4>1 DEF JobsConserved
        <5> QED
          BY <3>2, <4>1, <5>1, <5>2
      <4>2. CASE i = Len(queue) + 1
        BY <2>0, <3>2, <4>2 DEF JobsConserved
      <4>3. i \in 1..Len(queue) \/ i = Len(queue) + 1
        BY <2>0, <3>2
      <4> QED
        BY <4>1, <4>2, <4>3
    <3> QED
      BY <3>4, <3>5, <3>6, <3>7, <3>8, Zenon DEF JobsConserved
  <2>2. CASE Close
    BY <2>2 DEF Close, JobsConserved
  <2>3. CASE Tick
    <3>1. /\ Len(queue') = Len(queue) /\ Len(batch') = Len(batch)
          /\ \A i \in 1..Len(queue) : queue'[i].slug = queue[i].slug
          /\ \A i \in 1..Len(batch) : batch'[i].slug = batch[i].slug
      BY <2>0, <2>3, AgedIsSeq DEF Tick
    <3>2. batch = <<>> => batch' = <<>>
      BY <2>0, <2>3 DEF Tick, Aged
    <3> QED
      BY <2>3, <3>1, <3>2 DEF Tick, JobsConserved
  <2>4. CASE Recv
    <3>1. /\ batch = <<>> /\ queue # <<>> /\ batch' = <<Head(queue)>> /\ queue' = Tail(queue)
          /\ sent' = sent /\ answers' = answers /\ pc' = "fillwait"
      BY <2>4 DEF Recv
    <3>2. /\ Len(batch) = 0 /\ Len(batch') = 1 /\ Len(queue') = Len(queue) - 1
          /\ batch'[1] = queue[1]
          /\ \A i \in 1..Len(queue') : queue'[i] = queue[i + 1]
      BY <2>0, <3>1
    <3>4. BatchIsSpent'
      BY <2>0, <3>1
    <3>5. Len(sent') = Len(answers') + Len(batch') + Len(queue')
      <4>1. /\ Len(sent') = Len(sent) /\ Len(answers') = Len(answers)
            /\ Len(batch') = Len(batch) + 1 /\ Len(queue') = Len(queue) - 1
        BY <2>0, <3>1
      <4> QED
        BY <2>00, <4>1
    <3>6. \A i \in 1..Len(answers') : answers'[i].slug = sent'[i]
      BY <2>0, <3>1, <3>2 DEF JobsConserved
    <3>7. \A i \in 1..Len(batch') : batch'[i].slug = sent'[Len(answers') + i]
      BY <2>0, <3>1, <3>2 DEF JobsConserved
    <3>8. \A i \in 1..Len(queue') :
            queue'[i].slug = sent'[Len(answers') + Len(batch') + i]
      BY <2>0, <3>1, <3>2 DEF JobsConserved
    <3> QED
      BY <3>4, <3>5, <3>6, <3>7, <3>8, Zenon DEF JobsConserved
  <2>5. CASE Exit
    BY <2>5 DEF Exit, JobsConserved
  <2>6. CASE FillWaited
    BY <2>6 DEF FillWaited, JobsConserved
  <2>7. CASE Drain
    <3>1. /\ queue # <<>> /\ batch' = Append(batch, Head(queue)) /\ queue' = Tail(queue)
          /\ sent' = sent /\ answers' = answers /\ pc' = "drain"
      BY <2>7 DEF Drain
    <3>2. /\ Len(batch') = Len(batch) + 1 /\ Len(queue') = Len(queue) - 1
          /\ \A i \in 1..Len(batch) : batch'[i] = batch[i]
          /\ batch'[Len(batch) + 1] = queue[1]
          /\ \A i \in 1..Len(queue') : queue'[i] = queue[i + 1]
      BY <2>0, <3>1
    <3>4. BatchIsSpent'
      BY <2>0, <3>1
    <3>5. Len(sent') = Len(answers') + Len(batch') + Len(queue')
      <4>1. /\ Len(sent') = Len(sent) /\ Len(answers') = Len(answers)
            /\ Len(batch') = Len(batch) + 1 /\ Len(queue') = Len(queue) - 1
        BY <2>0, <3>1
      <4> QED
        BY <2>00, <4>1
    <3>6. \A i \in 1..Len(answers') : answers'[i].slug = sent'[i]
      BY <2>0, <3>1, <3>2 DEF JobsConserved
    <3>7. \A i \in 1..Len(batch') : batch'[i].slug = sent'[Len(answers') + i]
      <4> SUFFICES ASSUME NEW i \in 1..Len(batch')
                   PROVE  batch'[i].slug = sent[Len(answers) + i]
        BY <3>1
      <4>1. CASE i \in 1..Len(batch)
        BY <2>0, <3>2, <4>1 DEF JobsConserved
      <4>2. CASE i = Len(batch) + 1
        BY <2>0, <3>1, <3>2, <4>2 DEF JobsConserved
      <4> QED
        BY <2>0, <3>2, <4>1, <4>2
    <3>8. \A i \in 1..Len(queue') :
            queue'[i].slug = sent'[Len(answers') + Len(batch') + i]
      BY <2>0, <3>1, <3>2 DEF JobsConserved
    <3> QED
      BY <3>4, <3>5, <3>6, <3>7, <3>8, Zenon DEF JobsConserved
  <2>8. CASE Drained
    BY <2>8 DEF Drained, JobsConserved
  <2>9. CASE StartCycle
    BY <2>9 DEF StartCycle, JobsConserved
  <2>10. CASE CycleReturns
    BY <2>10 DEF CycleReturns, JobsConserved
  <2>11. CASE Report
    <3>1. /\ batch # <<>> /\ batch' = Tail(batch) /\ queue' = queue /\ sent' = sent
          /\ answers' = Append(answers, [slug |-> Head(batch).slug, how |-> outcome])
          /\ pc' = "report"
      BY <2>11 DEF Report
    <3>2. /\ Len(batch') = Len(batch) - 1 /\ Len(answers') = Len(answers) + 1
          /\ \A i \in 1..Len(batch') : batch'[i] = batch[i + 1]
          /\ \A i \in 1..Len(answers) : answers'[i] = answers[i]
          /\ answers'[Len(answers) + 1].slug = batch[1].slug
      BY <2>0, <3>1
    <3>4. BatchIsSpent'
      BY <2>0, <3>1
    <3>5. Len(sent') = Len(answers') + Len(batch') + Len(queue')
      <4>1. /\ Len(sent') = Len(sent) /\ Len(answers') = Len(answers) + 1
            /\ Len(batch') = Len(batch) - 1 /\ Len(queue') = Len(queue)
        BY <2>0, <3>1
      <4> QED
        BY <2>00, <4>1
    <3>6. \A i \in 1..Len(answers') : answers'[i].slug = sent'[i]
      <4> SUFFICES ASSUME NEW i \in 1..Len(answers')
                   PROVE  answers'[i].slug = sent[i]
        BY <3>1
      <4>1. CASE i \in 1..Len(answers)
        BY <2>0, <3>2, <4>1 DEF JobsConserved
      <4>2. CASE i = Len(answers) + 1
        BY <2>0, <3>1, <3>2, <4>2 DEF JobsConserved
      <4> QED
        BY <2>0, <3>2, <4>1, <4>2
    <3>7. \A i \in 1..Len(batch') : batch'[i].slug = sent'[Len(answers') + i]
      BY <2>0, <3>1, <3>2 DEF JobsConserved
    <3>8. \A i \in 1..Len(queue') :
            queue'[i].slug = sent'[Len(answers') + Len(batch') + i]
      BY <2>0, <3>1, <3>2 DEF JobsConserved
    <3> QED
      BY <3>4, <3>5, <3>6, <3>7, <3>8, Zenon DEF JobsConserved
  <2>12. CASE Reported
    BY <2>12 DEF Reported, JobsConserved
  <2>13. CASE ReportedFailure
    BY <2>13 DEF ReportedFailure, JobsConserved
  <2>14. CASE BackedOff
    BY <2>14 DEF BackedOff, JobsConserved
  <2>15. CASE UNCHANGED vars
    BY <2>15 DEF vars, JobsConserved
  <2> QED
    BY <2>1, <2>2, <2>3, <2>4, <2>5, <2>6, <2>7, <2>8, <2>9, <2>10, <2>11, <2>12, <2>13,
       <2>14, <2>15 DEF Next, WorkerStep
<1> QED
  BY <1>1, <1>2, TypeCorrect, PTL DEF Spec, Conserved

\* Exactly one result per consumed job, in order: nothing is lost, doubled or
\* overtaken between the channel and the results.
THEOREM NoJobLostOrDoubled == Spec => []JobsConserved
BY ConservedIsInvariant, PTL DEF Conserved

---------------------------------------------------------------------------
(* The fill delay.  While the second sleep runs, what it has left covers   *)
(* what every job of the batch still needs; nothing joins the batch later. *)

TimerCoversBatch ==
  pc = "topup" => \A i \in DOMAIN batch : batch[i].age + timer >= FillDelay
FillDiscipline == TypeOK /\ TimerCoversBatch /\ FillsHaveSettled

\* The balances of a cycle are read only when every job in it has aged the
\* whole fill delay.
THEOREM CyclesWaitForFills == Spec => []FillsHaveSettled
<1>1. Init => TimerCoversBatch /\ FillsHaveSettled
  BY DEF Init, TimerCoversBatch, FillsHaveSettled
<1>2. FillDiscipline /\ TypeOK' /\ [Next]_vars => TimerCoversBatch' /\ FillsHaveSettled'
  <2> SUFFICES ASSUME FillDiscipline, TypeOK', [Next]_vars
               PROVE  TimerCoversBatch' /\ FillsHaveSettled'
    OBVIOUS
  <2> USE DEF FillDiscipline, TimerCoversBatch, FillsHaveSettled
  <2>0. /\ batch \in Seq(Job) /\ timer \in Nat
        /\ \A i \in DOMAIN batch : batch[i].age \in 0..FillDelay
    <3>1. batch \in Seq(Job) /\ timer \in Nat
      BY DEF TypeOK
    <3>2. \A i \in DOMAIN batch : batch[i] \in Job
      BY <3>1
    <3> QED
      BY <3>1, <3>2 DEF Job
  <2>1. CASE Tick
    <3>1. /\ pc' = pc /\ DOMAIN batch' = DOMAIN batch
          /\ \A i \in DOMAIN batch : batch'[i].age = Upto(batch[i].age, FillDelay)
          /\ timer' = IF timer > 0 THEN timer - 1 ELSE 0
      BY <2>0, <2>1, AgedIsSeq DEF Tick
    <3> QED
      BY <2>0, <3>1 DEF Upto
  <2>2. CASE Drained
    BY <2>0, <2>2 DEF Drained, FillResidual
  <2>3. CASE StartCycle
    BY <2>0, <2>3 DEF StartCycle
  <2>4. CASE Send
    BY <2>4 DEF Send
  <2>5. CASE Close
    BY <2>5 DEF Close
  <2>6. CASE \/ Recv \/ Exit \/ FillWaited \/ Drain \/ CycleReturns
             \/ Report \/ Reported \/ ReportedFailure \/ BackedOff
    <3>1. pc' \notin {"topup", "cycle"}
      BY <2>6 DEF Recv, Exit, FillWaited, Drain, CycleReturns, Report, Reported,
                  ReportedFailure, BackedOff
    <3> QED
      BY <3>1
  <2>7. CASE UNCHANGED vars
    BY <2>7 DEF vars
  <2> QED
    BY <2>1, <2>2, <2>3, <2>4, <2>5, <2>6, <2>7 DEF Next, WorkerStep
<1> QED
  BY <1>1, <1>2, TypeCorrect, PTL DEF Spec, FillDiscipline

---------------------------------------------------------------------------
(* dedup_by_slug.  The jobs of a cycle are the first ones of their events, *)
(* and ageing moves none of them.                                          *)

Earlier == {pair \in Nat \X Nat : pair[1] < pair[2]}

\* Every event of a batch has a first job, and dedup_by_slug keeps just those.
LEMMA FirstOfEachEvent ==
  ASSUME NEW jobs \in Seq(Job)
  PROVE  /\ \A i \in DOMAIN jobs : \E j \in DedupBySlug(jobs) : jobs[j].slug = jobs[i].slug
         /\ \A i, j \in DedupBySlug(jobs) : jobs[i].slug = jobs[j].slug => i = j
<1>1. DOMAIN jobs = 1..Len(jobs) /\ Len(jobs) \in Nat
  OBVIOUS
<1>2. ASSUME NEW i \in DOMAIN jobs
      PROVE  \E j \in DedupBySlug(jobs) : jobs[j].slug = jobs[i].slug
  <2>. DEFINE T == {j \in DOMAIN jobs : jobs[j].slug = jobs[i].slug}
  <2>1. T # {} /\ T \subseteq Nat
    BY <1>1, <1>2
  <2>2. IsWellFoundedOn(Earlier, Nat)
    BY NatLessThanWellFounded DEF OpToRel, Earlier
  <2>3. PICK j \in T : \A m \in T : <<m, j>> \notin Earlier
    <3>. HIDE DEF T
    <3>. QED
      BY <2>1, <2>2, WFMin
  <2>4. j \in DOMAIN jobs /\ jobs[j].slug = jobs[i].slug
    OBVIOUS
  <2>5. ASSUME NEW m \in 1..(j - 1) PROVE jobs[m].slug # jobs[j].slug
    <3>1. m \in DOMAIN jobs /\ <<m, j>> \in Earlier
      BY <1>1, <2>4 DEF Earlier
    <3>. QED
      BY <2>3, <2>4, <3>1
  <2>6. j \in DedupBySlug(jobs)
    BY <2>4, <2>5 DEF DedupBySlug
  <2>. QED
    BY <2>4, <2>6
<1>3. ASSUME NEW i \in DedupBySlug(jobs), NEW j \in DedupBySlug(jobs), jobs[i].slug = jobs[j].slug
      PROVE  i = j
  <2>1. /\ i \in 1..Len(jobs) /\ j \in 1..Len(jobs)
        /\ \A m \in 1..(i - 1) : jobs[m].slug # jobs[i].slug
        /\ \A m \in 1..(j - 1) : jobs[m].slug # jobs[j].slug
    BY <1>1, <1>3 DEF DedupBySlug
  <2>2. ~(i < j) /\ ~(j < i)
    <3>1. i < j => i \in 1..(j - 1)
      BY <2>1
    <3>2. j < i => j \in 1..(i - 1)
      BY <2>1
    <3>. QED
      BY <1>3, <2>1, <3>1, <3>2
  <2>. QED
    BY <2>1, <2>2
<1>. QED
  BY <1>2, <1>3

\* Ageing moves no job and renames no event.
LEMMA AgedDedup ==
  ASSUME NEW jobs \in Seq(Job)
  PROVE  DedupBySlug(Aged(jobs)) = DedupBySlug(jobs)
<1>1. /\ DOMAIN jobs = 1..Len(jobs) /\ DOMAIN Aged(jobs) = 1..Len(jobs) /\ Len(jobs) \in Nat
      /\ \A i \in 1..Len(jobs) : Aged(jobs)[i].slug = jobs[i].slug
  BY AgedIsSeq
<1>2. \A i \in 1..Len(jobs) : \A j \in 1..(i - 1) : j \in 1..Len(jobs)
  BY <1>1
<1>. QED
  BY <1>1, <1>2 DEF DedupBySlug

\* process_jobs was given what dedup_by_slug keeps of the batch.
CycleIsDeduped == pc = "cycle" => cycle = DedupBySlug(batch)

\* Whatever is queued, a cycle covers each event of its batch, and none twice.
THEOREM CyclesCoverEachEventOnce == Spec => []CycleCoversEachEventOnce
<1>1. Init => CycleIsDeduped
  BY DEF Init, CycleIsDeduped
<1>2. TypeOK /\ CycleIsDeduped /\ [Next]_vars => CycleIsDeduped'
  <2> SUFFICES ASSUME TypeOK, CycleIsDeduped, [Next]_vars PROVE CycleIsDeduped'
    OBVIOUS
  <2> USE DEF CycleIsDeduped
  <2>1. CASE Tick
    <3>1. pc' = pc /\ cycle' = cycle /\ batch' = Aged(batch) /\ batch \in Seq(Job)
      BY <2>1 DEF Tick, TypeOK
    <3> QED
      BY <3>1, AgedDedup
  <2>2. CASE StartCycle
    BY <2>2 DEF StartCycle
  <2>3. CASE Send \/ Close
    BY <2>3 DEF Send, Close
  <2>4. CASE \/ Recv \/ Exit \/ FillWaited \/ Drain \/ Drained \/ CycleReturns
             \/ Report \/ Reported \/ ReportedFailure \/ BackedOff
    <3>1. pc' # "cycle"
      BY <2>4 DEF Recv, Exit, FillWaited, Drain, Drained, CycleReturns, Report, Reported,
                  ReportedFailure, BackedOff
    <3> QED
      BY <3>1
  <2>5. CASE UNCHANGED vars
    BY <2>5 DEF vars
  <2> QED
    BY <2>1, <2>2, <2>3, <2>4, <2>5 DEF Next, WorkerStep
<1>3. TypeOK /\ CycleIsDeduped => CycleCoversEachEventOnce
  <2> SUFFICES ASSUME TypeOK, CycleIsDeduped, pc = "cycle"
               PROVE  /\ \A i \in DOMAIN batch : \E j \in cycle : batch[j].slug = batch[i].slug
                      /\ \A i, j \in cycle : batch[i].slug = batch[j].slug => i = j
    BY DEF CycleCoversEachEventOnce
  <2>1. batch \in Seq(Job) /\ cycle = DedupBySlug(batch)
    BY DEF TypeOK, CycleIsDeduped
  <2> QED
    BY <2>1, FirstOfEachEvent
<1> QED
  BY <1>1, <1>2, <1>3, TypeCorrect, PTL DEF Spec

---------------------------------------------------------------------------
(* The backoff.  It is the only place where a failed cycle has not cooled  *)
(* down yet, and what its sleep has left covers what is missing.           *)

BackoffCovers ==
  /\ pc = "backoff" => cooled + timer >= Backoff
  /\ pc # "backoff" => cooled = Backoff

\* A failed cycle is followed by the whole backoff before any other begins.
THEOREM FailedCyclesAreDamped == Spec => []FailuresAreDamped
<1>1. Init => BackoffCovers
  BY DEF Init, BackoffCovers
<1>2. TypeOK /\ BackoffCovers /\ [Next]_vars => BackoffCovers'
  <2> SUFFICES ASSUME TypeOK, BackoffCovers, [Next]_vars PROVE BackoffCovers'
    OBVIOUS
  <2> USE DEF BackoffCovers
  <2>0. timer \in Nat /\ cooled \in 0..Backoff
    BY DEF TypeOK
  <2>1. CASE Tick
    BY <2>0, <2>1 DEF Tick, Upto
  <2>2. CASE ReportedFailure
    BY <2>0, <2>2 DEF ReportedFailure
  <2>3. CASE BackedOff
    BY <2>0, <2>3 DEF BackedOff
  <2>4. CASE Send
    BY <2>4 DEF Send
  <2>5. CASE Close
    BY <2>5 DEF Close
  <2>6. CASE \/ Recv \/ Exit \/ FillWaited \/ Drain \/ Drained
             \/ StartCycle \/ CycleReturns \/ Report \/ Reported
    BY <2>6 DEF Recv, Exit, FillWaited, Drain, Drained, StartCycle, CycleReturns,
                Report, Reported
  <2>7. CASE UNCHANGED vars
    BY <2>7 DEF vars
  <2> QED
    BY <2>1, <2>2, <2>3, <2>4, <2>5, <2>6, <2>7 DEF Next, WorkerStep
<1>3. BackoffCovers => FailuresAreDamped
  BY DEF BackoffCovers, FailuresAreDamped
<1> QED
  BY <1>1, <1>2, <1>3, TypeCorrect, PTL DEF Spec

---------------------------------------------------------------------------
(* Refinement.  JobService's variables are the worker's own; a worker step *)
(* that sends a result is an Answer, a Send is a Send, the rest stutters.  *)

\* Every behaviour of the worker is one of the job service (its safety part;
\* that each answer comes is checked by TLC).
THEOREM WorkerImplementsService == Spec => Service!Spec
<1>1. Init => Service!Init
  BY DEF Init, Service!Init
<1>2. Conserved /\ [Next]_vars => [Service!Next]_(Service!jvars)
  <2> SUFFICES ASSUME Conserved, [Next]_vars PROVE [Service!Next]_(Service!jvars)
    OBVIOUS
  <2> USE DEF Service!jvars
  <2>1. CASE Send
    BY <2>1 DEF Send, Service!Next, Service!Send
  <2>2. CASE Report
    <3>1. /\ batch \in Seq(Job) /\ batch # <<>> /\ outcome \in Outcomes
          /\ Len(sent) \in Nat /\ Len(answers) \in Nat /\ Len(queue) \in Nat
      BY <2>2 DEF Report, Conserved, TypeOK
    <3>2. 1 \in 1..Len(batch) /\ Head(batch) = batch[1]
      BY <3>1
    <3>3. Head(batch).slug = sent[Len(answers) + 1]
      BY <3>2 DEF Conserved, JobsConserved
    <3>4. Len(answers) < Len(sent)
      BY <3>1, <3>2 DEF Conserved, JobsConserved
    <3> QED
      BY <2>2, <3>1, <3>3, <3>4
         DEF Report, Outcomes, Service!Next, Service!Answer, Service!Outcome
  <2>3. CASE \/ Close \/ Tick \/ Recv \/ Exit \/ FillWaited \/ Drain \/ Drained
             \/ StartCycle \/ CycleReturns \/ Reported \/ ReportedFailure \/ BackedOff
    BY <2>3 DEF Close, Tick, Recv, Exit, FillWaited, Drain, Drained, StartCycle,
                CycleReturns, Reported, ReportedFailure, BackedOff
  <2>4. CASE UNCHANGED vars
    BY <2>4 DEF vars
  <2> QED
    BY <2>1, <2>2, <2>3, <2>4 DEF Next, WorkerStep
<1> QED
  BY <1>1, <1>2, ConservedIsInvariant, PTL DEF Spec, Service!Spec
=============================================================================
