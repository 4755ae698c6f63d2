---------------------------- MODULE ProgramsProofs ----------------------------
(***************************************************************************)
(* What the owner's programs end with, for any parameters: why             *)
(* ensure_approvals may submit without waiting (the nonces it counts       *)
(* locally are the ones the Safe will be at), why a sweep may skip what    *)
(* its listing shows as no work, and that a session's orders and requests  *)
(* are what the exchange and the venue check.                              *)
(***************************************************************************)
EXTENDS Programs, PlanProofs

---------------------------------------------------------------------------
(* The approvals.                                                          *)

RunType == [pc: {"idle", "nonce", "deploy", "check", "ok", "failed"}, step: Nat, nonce: Nat]
ApprovalTyped ==
  /\ safe \in [deployed: BOOLEAN, nonce: Nat, granted: SUBSET Grants]
  /\ pool \in SUBSET ({Deployment} \union [grant: Grants, nonce: Nat])
  /\ run \in RunType
  /\ clean \in BOOLEAN

\* The SafeTxs held, each to run at a nonce of its own from the Safe's up to
\* what the run has counted to.
Queued == pool \ {Deployment}
InSequence ==
  /\ \A tx \in Queued : safe.nonce <= tx.nonce /\ tx.nonce < run.nonce
  /\ \A tx, other \in Queued : tx.nonce = other.nonce => tx = other
\* What the walk has passed is granted or on its way.
Passed ==
  \A g \in Grants : g < run.step => g \in safe.granted \/ \E tx \in Queued : tx.grant = g

Undisturbed ==
  /\ run.pc \in {"nonce", "deploy"} => pool = {}
  /\ run.pc = "deploy" => ~safe.deployed
  /\ run.pc = "check" => safe.nonce <= run.nonce
  /\ run.pc \in {"check", "ok"} => InSequence /\ Passed /\ run.step >= 1
  /\ run.pc = "ok" => run.step \notin Grants

SequenceInv ==
  /\ ApprovalTyped
  /\ ~safe.deployed => safe.nonce = 0
  /\ clean => Undisturbed

\* The programs start, whichever is run, with no submission in the relayer's
\* hands and a Safe that has used no nonce if it is not deployed.
LEMMA ApprovalsStart == Init => SequenceInv
<1>. SUFFICES ASSUME Init PROVE SequenceInv
  OBVIOUS
<1>1. AInit(Of("approvals", Safes))
  BY DEF Init
<1>2. Of("approvals", Safes) \subseteq Safes
  <2>1. NewSafe \in Safes
    BY DEF Safes
  <2>2. (CHOOSE s \in Safes : TRUE) \in Safes
    BY <2>1
  <2>. QED
    BY <2>2 DEF Of
<1>3. safe \in Safes
  BY <1>1, <1>2 DEF AInit
<1>4. safe \in [deployed: BOOLEAN, nonce: Nat, granted: SUBSET Grants] /\ (~safe.deployed => safe.nonce = 0)
  <2>1. CASE safe = NewSafe
    BY <2>1 DEF NewSafe
  <2>2. CASE safe \in [deployed: {TRUE}, nonce: 0..1, granted: SUBSET Grants]
    <3>1. safe.deployed = TRUE /\ safe.nonce \in Nat /\ safe.granted \in SUBSET Grants
      <4>1. safe.deployed \in {TRUE} /\ safe.nonce \in 0..1 /\ safe.granted \in SUBSET Grants
        BY <2>2, Zenon
      <4>2. safe.deployed = TRUE
        BY <4>1, Zenon
      <4>3. safe.nonce \in Nat
        BY <4>1
      <4>. QED
        BY <4>1, <4>2, <4>3, Zenon
    <3>2. safe = [deployed |-> safe.deployed, nonce |-> safe.nonce, granted |-> safe.granted]
      BY <2>2
    <3>3. [deployed |-> TRUE, nonce |-> safe.nonce, granted |-> safe.granted]
            \in [deployed: BOOLEAN, nonce: Nat, granted: SUBSET Grants]
      BY <3>1
    <3>. QED
      BY <3>1, <3>2, <3>3
  <2>. QED
    BY <1>3, <2>1, <2>2 DEF Safes
<1>5. run = [pc |-> "idle", step |-> 0, nonce |-> 0] /\ pool = {} /\ clean = TRUE
  BY <1>1 DEF AInit
<1>. QED
  BY <1>4, <1>5 DEF SequenceInv, ApprovalTyped, RunType, Undisturbed

\* A SafeTx is not a deployment.
LEMMA QueuedTyped ==
  ASSUME ApprovalTyped
  PROVE  /\ \A tx \in Queued : tx \in [grant: Grants, nonce: Nat]
         /\ \A g \in Grants, n \in Nat : SafeTx(g, n) \in [grant: Grants, nonce: Nat] /\ SafeTx(g, n) # Deployment
BY DEF ApprovalTyped, Queued, SafeTx, Deployment

\* What the chain runs is next in sequence and takes one nonce.
LEMMA ChainStep ==
  ASSUME SequenceInv, NEW tx \in pool, Runs(tx)
  PROVE  SequenceInv'
<1>1. CASE tx = Deployment
  <2>1. safe' = [safe EXCEPT !.deployed = TRUE] /\ pool' = pool \ {tx} /\ run' = run /\ clean' = clean
    BY <1>1 DEF Runs
  <2>2. ApprovalTyped' /\ safe'.deployed /\ safe'.nonce = safe.nonce /\ safe'.granted = safe.granted
    BY <2>1 DEF SequenceInv, ApprovalTyped
  <2>3. Queued' = Queued
    BY <1>1, <2>1 DEF Queued
  <2>4. InSequence <=> InSequence'
    BY <2>1, <2>2, <2>3 DEF InSequence
  <2>5. Passed <=> Passed'
    BY <2>1, <2>2, <2>3 DEF Passed
  <2>6. clean => run.pc # "deploy" /\ run.pc # "nonce"
    BY DEF SequenceInv, Undisturbed
  <2>. QED
    BY <2>1, <2>2, <2>4, <2>5, <2>6 DEF SequenceInv, Undisturbed
<1>2. CASE tx # Deployment
  <2>1. tx \in Queued /\ tx \in [grant: Grants, nonce: Nat]
    BY <1>2, QueuedTyped DEF SequenceInv, Queued
  <2>2. /\ safe.deployed /\ tx.nonce <= safe.nonce /\ pool' = pool \ {tx} /\ run' = run /\ clean' = clean
        /\ safe' = IF tx.nonce < safe.nonce THEN safe
                   ELSE [safe EXCEPT !.nonce = @ + 1, !.granted = @ \union {tx.grant}]
    BY <1>2, <2>1 DEF Runs, SequenceInv, ApprovalTyped
  <2>8. safe' \in [deployed: BOOLEAN, nonce: Nat, granted: SUBSET Grants]
    <3>1. CASE safe' = safe
      BY <3>1 DEF SequenceInv, ApprovalTyped
    <3>2. CASE safe' = [safe EXCEPT !.nonce = @ + 1, !.granted = @ \union {tx.grant}]
      <4>1. safe.nonce + 1 \in Nat /\ safe.granted \union {tx.grant} \in SUBSET Grants
        BY <2>1 DEF SequenceInv, ApprovalTyped
      <4>. QED
        BY <3>2, <4>1 DEF SequenceInv, ApprovalTyped
    <3>. QED
      BY <2>2, <3>1, <3>2
  <2>3. ApprovalTyped'
    BY <2>2, <2>8 DEF SequenceInv, ApprovalTyped
  <2>4. safe'.deployed = safe.deployed /\ Queued' = Queued \ {tx}
    BY <2>2 DEF SequenceInv, ApprovalTyped, Queued
  <2>5. ASSUME clean, run.pc \in {"check", "ok"} PROVE InSequence' /\ Passed' /\ (safe'.nonce <= run.nonce)
    <3>1. InSequence /\ Passed
      BY <2>5 DEF SequenceInv, Undisturbed
    <3>2. safe.nonce <= tx.nonce /\ tx.nonce < run.nonce
      BY <2>1, <3>1 DEF InSequence
    <3>3. safe' = [safe EXCEPT !.nonce = @ + 1, !.granted = @ \union {tx.grant}] /\ tx.nonce = safe.nonce
      BY <2>1, <2>2, <3>2 DEF SequenceInv, ApprovalTyped
    <3>4. safe'.nonce = safe.nonce + 1 /\ safe'.granted = safe.granted \union {tx.grant} /\ run.nonce \in Nat /\ safe.nonce \in Nat
      BY <3>3 DEF SequenceInv, ApprovalTyped, RunType
    <3>5. ASSUME NEW other \in Queued \ {tx} PROVE safe.nonce + 1 <= other.nonce /\ other.nonce < run.nonce
      <4>1. other.nonce # tx.nonce /\ safe.nonce <= other.nonce /\ other.nonce < run.nonce
        BY <2>1, <3>1, <3>5 DEF InSequence
      <4>2. other.nonce \in Nat
        BY <3>5, QueuedTyped DEF SequenceInv
      <4>. QED
        BY <3>3, <3>4, <4>1, <4>2
    <3>6. InSequence'
      BY <2>2, <2>4, <3>1, <3>4, <3>5 DEF InSequence
    <3>7. Passed'
      BY <2>2, <2>4, <3>1, <3>4 DEF Passed
    <3>. QED
      BY <3>2, <3>3, <3>4, <3>6, <3>7
  <2>6. clean => run.pc # "deploy" /\ run.pc # "nonce"
    BY DEF SequenceInv, Undisturbed
  <2>7. clean' => Undisturbed'
    BY <2>2, <2>4, <2>5, <2>6 DEF SequenceInv, Undisturbed
  <2>. QED
    BY <2>2, <2>3, <2>4, <2>7 DEF SequenceInv
<1>. QED
  BY <1>1, <1>2

\* A submission takes the next nonce the run counts to.
LEMMA CheckStep ==
  ASSUME SequenceInv, CheckGrant
  PROVE  SequenceInv'
<1>1. run.pc = "check" /\ run.step \in Grants /\ safe' = safe /\ clean' = clean /\ run.step \in Nat /\ run.nonce \in Nat
  BY DEF CheckGrant, SequenceInv, ApprovalTyped, RunType
<1>2. CASE run.step \in safe.granted /\ run' = [run EXCEPT !.step = @ + 1] /\ pool' = pool
  <2>1. ApprovalTyped'
    BY <1>1, <1>2 DEF SequenceInv, ApprovalTyped, RunType
  <2>2. run'.pc = "check" /\ run'.step = run.step + 1 /\ run'.nonce = run.nonce /\ Queued' = Queued
    BY <1>1, <1>2 DEF SequenceInv, ApprovalTyped, RunType, Queued
  <2>3. InSequence => InSequence'
    BY <1>1, <2>2 DEF InSequence
  <2>4. Passed => Passed'
    BY <1>1, <1>2, <2>2 DEF Passed, Grants
  <2>. QED
    BY <1>1, <2>1, <2>2, <2>3, <2>4 DEF SequenceInv, Undisturbed
<1>3. CASE pool' = pool \union {SafeTx(run.step, run.nonce)} /\ run' = Submitted
  <2>. DEFINE tx == SafeTx(run.step, run.nonce)
  <2>1. tx \in [grant: Grants, nonce: Nat] /\ tx # Deployment /\ tx.grant = run.step /\ tx.nonce = run.nonce
    BY <1>1, QueuedTyped DEF SafeTx, SequenceInv
  <2>2. run'.pc = "check" /\ run'.step = run.step + 1 /\ run'.nonce = run.nonce + 1 /\ run' \in RunType
    <3>1. run' = [run EXCEPT !.step = @ + 1, !.nonce = @ + 1] /\ run \in RunType
      BY <1>3 DEF SequenceInv, ApprovalTyped, Submitted
    <3>2. run.step + 1 \in Nat /\ run.nonce + 1 \in Nat
      BY <1>1
    <3>. QED
      BY <1>1, <3>1, <3>2 DEF RunType
  <2>3. ApprovalTyped' /\ Queued' = Queued \union {tx}
    BY <1>1, <1>3, <2>1, <2>2 DEF SequenceInv, ApprovalTyped, Queued
  <2>4. ASSUME clean PROVE InSequence' /\ Passed' /\ safe.nonce <= run.nonce
    <3>1. InSequence /\ Passed /\ safe.nonce <= run.nonce
      BY <1>1, <2>4 DEF SequenceInv, Undisturbed
    <3>2. \A other \in Queued : other.nonce \in Nat
      BY QueuedTyped DEF SequenceInv
    <3>3. InSequence'
      BY <1>1, <2>1, <2>2, <2>3, <3>1, <3>2 DEF InSequence
    <3>4. Passed'
      BY <1>1, <2>1, <2>2, <2>3, <3>1 DEF Passed, Grants
    <3>. QED
      BY <3>1, <3>3, <3>4
  <2>5. safe.nonce \in Nat
    BY DEF SequenceInv, ApprovalTyped
  <2>. QED
    BY <1>1, <2>2, <2>3, <2>4, <2>5 DEF SequenceInv, Undisturbed
<1>4. CASE RunFails /\ (pool' = pool \/ pool' = pool \union {SafeTx(run.step, run.nonce)})
  <2>1. run'.pc = "failed" /\ run' \in RunType
    BY <1>4 DEF RunFails, SequenceInv, ApprovalTyped, RunType
  <2>2. ApprovalTyped'
    BY <1>1, <1>4, <2>1, QueuedTyped DEF SequenceInv, ApprovalTyped
  <2>. QED
    BY <1>1, <2>1, <2>2 DEF SequenceInv, Undisturbed
<1>. QED
  BY <1>2, <1>3, <1>4 DEF CheckGrant

\* The sequence of nonces is kept by every step of the bootstrap.
LEMMA ApprovalsStepwise ==
  ASSUME SequenceInv, [Next]_vars
  PROVE  SequenceInv'
<1>1. CASE UNCHANGED avars
  BY <1>1 DEF avars, SequenceInv, ApprovalTyped, Undisturbed, InSequence, Passed, Queued
<1>2. CASE Begin
  <2>1. run' = [pc |-> "nonce", step |-> 0, nonce |-> 0] /\ clean' = (pool = {}) /\ safe' = safe /\ pool' = pool
    BY <1>2 DEF Begin
  <2>. QED
    BY <2>1 DEF SequenceInv, ApprovalTyped, RunType, Undisturbed
<1>3. CASE ReadNonce
  <2>1. CASE safe.deployed /\ run' = [pc |-> "check", step |-> 1, nonce |-> safe.nonce] /\ UNCHANGED clean
    <3>1. safe' = safe /\ pool' = pool /\ run.pc = "nonce" /\ safe.nonce \in Nat
      BY <1>3 DEF ReadNonce, SequenceInv, ApprovalTyped
    <3>2. ApprovalTyped'
      BY <2>1, <3>1 DEF SequenceInv, ApprovalTyped, RunType
    <3>3. clean => pool = {}
      BY <3>1 DEF SequenceInv, Undisturbed
    <3>4. clean => InSequence' /\ Passed'
      BY <2>1, <3>1, <3>3 DEF InSequence, Passed, Queued, Grants
    <3>. QED
      BY <2>1, <3>1, <3>2, <3>4 DEF SequenceInv, Undisturbed
  <2>2. ASSUME run' = [run EXCEPT !.pc = "deploy"], clean' => clean /\ ~safe.deployed PROVE SequenceInv'
    <3>1. safe' = safe /\ pool' = pool /\ run.pc = "nonce"
      BY <1>3 DEF ReadNonce
    <3>2. run'.pc = "deploy" /\ run' \in RunType
      BY <2>2 DEF SequenceInv, ApprovalTyped, RunType
    <3>3. clean' \in BOOLEAN
      BY <1>3 DEF ReadNonce, SequenceInv, ApprovalTyped
    <3>4. ApprovalTyped'
      BY <3>1, <3>2, <3>3 DEF SequenceInv, ApprovalTyped
    <3>5. clean' => Undisturbed'
      BY <2>2, <3>1, <3>2 DEF SequenceInv, Undisturbed
    <3>. QED
      BY <3>1, <3>4, <3>5 DEF SequenceInv
  <2>3. CASE ~safe.deployed /\ run' = [run EXCEPT !.pc = "deploy"] /\ UNCHANGED clean
    BY <2>2, <2>3
  <2>4. CASE run' = [run EXCEPT !.pc = "deploy"] /\ clean' = FALSE
    BY <2>2, <2>4
  <2>5. \/ safe.deployed /\ run' = [pc |-> "check", step |-> 1, nonce |-> safe.nonce] /\ UNCHANGED clean
        \/ ~safe.deployed /\ run' = [run EXCEPT !.pc = "deploy"] /\ UNCHANGED clean
        \/ run' = [run EXCEPT !.pc = "deploy"] /\ clean' = FALSE
    BY <1>3, Zenon DEF ReadNonce
  <2>. QED
    BY <2>1, <2>3, <2>4, <2>5, Zenon
<1>4. CASE Deploy
  <2>0. safe' = safe /\ clean' = clean /\ run.pc = "deploy"
    BY <1>4 DEF Deploy
  <2>1. CASE pool' = pool \union {Deployment} /\ run' = [pc |-> "check", step |-> 1, nonce |-> 0]
    <3>1. ApprovalTyped'
      BY <2>0, <2>1 DEF SequenceInv, ApprovalTyped, RunType
    <3>2. clean => pool = {} /\ safe.nonce = 0
      BY <2>0 DEF SequenceInv, Undisturbed
    <3>3. clean => InSequence' /\ Passed'
      BY <2>0, <2>1, <3>2 DEF InSequence, Passed, Queued, Grants
    <3>. QED
      BY <2>0, <2>1, <3>1, <3>2, <3>3 DEF SequenceInv, Undisturbed
  <2>2. CASE RunFails /\ (pool' = pool \/ pool' = pool \union {Deployment})
    <3>1. run'.pc = "failed" /\ run' \in RunType
      BY <2>2 DEF RunFails, SequenceInv, ApprovalTyped, RunType
    <3>. QED
      BY <2>0, <2>2, <3>1 DEF SequenceInv, ApprovalTyped, Undisturbed
  <2>. QED
    BY <1>4, <2>1, <2>2 DEF Deploy
<1>5. CASE CheckGrant
  BY <1>5, CheckStep
<1>6. CASE Return
  <2>1. /\ run' = [run EXCEPT !.pc = "ok"] /\ run.pc = "check" /\ run.step \notin Grants
        /\ safe' = safe /\ pool' = pool /\ clean' = clean
    BY <1>6 DEF Return
  <2>2. run'.pc = "ok" /\ run'.step = run.step /\ run'.nonce = run.nonce /\ run' \in RunType
    BY <2>1 DEF SequenceInv, ApprovalTyped, RunType
  <2>. QED
    BY <2>1, <2>2 DEF SequenceInv, ApprovalTyped, Undisturbed, InSequence, Passed, Queued
<1>7. CASE Foreign
  <2>1. /\ safe.deployed /\ safe' = [safe EXCEPT !.nonce = @ + 1] /\ pool' = pool /\ run' = run
        /\ clean' = (clean /\ run.pc \in {"idle", "failed", "ok"} /\ pool = {})
    BY <1>7 DEF Foreign
  <2>2. ApprovalTyped' /\ safe'.deployed /\ safe'.granted = safe.granted
    BY <2>1 DEF SequenceInv, ApprovalTyped
  <2>3. clean' => InSequence'
    BY <2>1 DEF InSequence, Queued
  <2>4. Passed => Passed'
    BY <2>1, <2>2 DEF Passed, Queued
  <2>. QED
    BY <2>1, <2>2, <2>3, <2>4 DEF SequenceInv, Undisturbed
<1>8. ASSUME NEW tx \in pool, Runs(tx) PROVE SequenceInv'
  BY <1>8, ChainStep
<1>. QED
  BY <1>1, <1>2, <1>3, <1>4, <1>5, <1>6, <1>7, <1>8 DEF Next, ANext, vars

\* An Ok of ensure_approvals with nothing left in the relayer's hands means that
\* every target holds both grants, if the run had the Safe to itself, whatever
\* the number of targets, the earlier grants and the calls that failed before.
THEOREM ApprovalsComplete == Spec => []ApprovalsGranted
<1>1. Init => SequenceInv
  BY ApprovalsStart
<1>2. SequenceInv /\ [Next]_vars => SequenceInv'
  BY ApprovalsStepwise
<1>3. SequenceInv => ApprovalsGranted
  <2>. SUFFICES ASSUME SequenceInv, run.pc = "ok", pool = {}, clean PROVE safe.granted = Grants
    BY DEF ApprovalsGranted
  <2>1. Passed /\ run.step >= 1 /\ run.step \notin Grants /\ run.step \in Nat /\ Queued = {}
    BY DEF SequenceInv, Undisturbed, ApprovalTyped, RunType, Queued
  <2>2. \A g \in Grants : g < run.step
    BY <2>1, ApprovalsAssumption DEF Grants
  <2>3. \A g \in Grants : g \in safe.granted
    BY <2>1, <2>2 DEF Passed
  <2>4. safe.granted \subseteq Grants
    BY DEF SequenceInv, ApprovalTyped
  <2>. QED
    BY <2>3, <2>4
<1>. QED
  BY <1>1, <1>2, <1>3, PTL DEF Spec

---------------------------------------------------------------------------
(* The sweep.                                                              *)

\* What is read of a leg from the listed sizes is what the planner reads.
LEMMA SizesRead ==
  ASSUME NEW w \in Wallet, NEW l \in JobLeg
  PROVE  /\ Size(Rows(w), l).no = No(w, l) /\ Size(Rows(w), l).yes = Yes(w, l)
         /\ Pair(Size(Rows(w), l)) = Netted(w, l)
         /\ Size(Rows(w), l).no - Pair(Size(Rows(w), l)) = Remaining(w, l)
<1>1. /\ No(w, l) \in Nat /\ Yes(w, l) \in Nat /\ Remaining(w, l) = No(w, l) - Netted(w, l)
      /\ Netted(w, l) = (IF No(w, l) <= Yes(w, l) THEN No(w, l) ELSE Yes(w, l))
  BY LegRead
<1>2. Size(Rows(w), l).no = No(w, l) /\ Size(Rows(w), l).yes = Yes(w, l)
  BY DEF Size, Rows, No, Yes
<1>. QED
  BY <1>1, <1>2 DEF Pair

\* An event classified as no work, from sizes that are the wallet's, is settled.
LEMMA PassedOver ==
  ASSUME NEW w \in Wallet, NEW job, IsJob(job), ~Actionable(Rows(w), job)
  PROVE  AtRest(w, job)
<1>1. /\ job \in Seq(JobLeg) /\ Len(job) \in Nat /\ DOMAIN job = 1..Len(job)
      /\ \A l \in ToSet(job) : l \in JobLeg
      /\ \A i \in DOMAIN job : job[i] \in ToSet(job)
      /\ \A l \in ToSet(job) : \E i \in DOMAIN job : job[i] = l
  BY JobLegs DEF ToSet
<1>2. \A l \in ToSet(job) : Netted(w, l) \in Nat /\ Remaining(w, l) \in Nat
  BY <1>1, LegRead
<1>3. \A l \in ToSet(job) : l.cid => Netted(w, l) = 0
  BY <1>1, <1>2, SizesRead DEF Actionable, Mergeable
<1>. DEFINE left == Leftover(Rows(w), job)
<1>4. left = {i \in DOMAIN job : Remaining(w, job[i]) > 0}
  BY <1>1, SizesRead DEF Leftover
<1>5. ~(Cardinality(left) > 1)
  BY DEF Actionable, Convertible
<1>6. IsFiniteSet(left) /\ Cardinality(left) \in Nat
  <2>1. IsFiniteSet(1..Len(job))
    BY <1>1, FS_Interval
  <2>2. left \subseteq 1..Len(job)
    BY <1>1, <1>4
  <2>. HIDE DEF left
  <2>. QED
    BY <2>1, <2>2, FS_Subset, FS_CardinalityType
<1>7. \A i, j \in left : i = j
  <2>. SUFFICES ASSUME NEW i \in left, NEW j \in left, i # j PROVE FALSE
    OBVIOUS
  <2>. HIDE DEF left
  <2>1. Cardinality({i, j}) = 2 /\ {i, j} \subseteq left
    <3>1. IsFiniteSet({i}) /\ Cardinality({i}) = 1 /\ j \notin {i} /\ {i} \union {j} = {i, j}
      BY FS_Singleton
    <3>. QED
      BY <3>1, FS_AddElement
  <2>2. Cardinality({i, j}) <= Cardinality(left)
    BY <1>6, <2>1, FS_Subset
  <2>. QED
    BY <1>5, <1>6, <2>1, <2>2
<1>8. \A i \in left : Remaining(w, job[i]) < MinQty
  <2>1. \A i \in left : ~(Remaining(w, job[i]) >= MinQty)
    BY <1>1, <1>4, SizesRead DEF Actionable, Convertible
  <2>. QED
    BY <1>1, <1>2, <1>4, <2>1, PlanAssumption
<1>9. \A l \in ToSet(job) : Remaining(w, l) # 0 => \E i \in left : job[i] = l
  BY <1>1, <1>2, <1>4
<1>. HIDE DEF left
<1>. QED
  BY <1>3, <1>7, <1>8, <1>9 DEF AtRest

\* An event no row belongs to is settled.
LEMMA NotHeld ==
  ASSUME NEW w \in Wallet, NEW job, IsJob(job), NEW e, e \notin Held(Rows(w)),
         \A l \in ToSet(job) : EventOf[l.id] = e
  PROVE  AtRest(w, job)
<1>. SUFFICES ASSUME NEW l \in ToSet(job) PROVE Netted(w, l) = 0 /\ Remaining(w, l) = 0
  BY DEF AtRest
<1>1. l \in JobLeg
  BY JobLegs
<1>2. /\ l.id \in Leg /\ No(w, l) \in Nat /\ w.yes[l.id] \in Nat /\ No(w, l) = w.no[l.id]
      /\ Yes(w, l) \in Nat /\ Yes(w, l) = (IF l.yid THEN w.yes[l.id] ELSE 0)
      /\ Netted(w, l) = (IF No(w, l) <= Yes(w, l) THEN No(w, l) ELSE Yes(w, l))
      /\ Remaining(w, l) = No(w, l) - Netted(w, l)
  BY <1>1, LegRead
<1>3. ~(w.no[l.id] + w.yes[l.id] > 0)
  BY <1>2 DEF Held, Rows
<1>. QED
  BY <1>2, <1>3

\* What another event's plan does leaves a settled one settled.
LEMMA SettledOn ==
  ASSUME NEW w, NEW z, NEW job, NEW other, IsJob(job), IsJob(other), Elsewhere(w, z, job), AtRest(w, other),
         \A l \in ToSet(other), m \in ToSet(job) : EventOf[l.id] # EventOf[m.id]
  PROVE  AtRest(z, other)
<1>1. \A l \in ToSet(other) : z.no[l.id] = w.no[l.id] /\ z.yes[l.id] = w.yes[l.id]
  BY OthersStay
<1>2. \A l \in ToSet(other) : Netted(z, l) = Netted(w, l) /\ Remaining(z, l) = Remaining(w, l)
  BY <1>1 DEF Netted, Remaining, No, Yes
<1>. QED
  BY <1>2 DEF AtRest

\* The plan for one event is its job's calls.
LEMMA PlanOfOne ==
  ASSUME NEW w \in Wallet, NEW job, IsJob(job)
  PROVE  PlanCalls(w, <<job>>) = JobCalls(w, job) /\ JobCalls(w, job) \in Seq(PlannedCall)
<1>1. JobCalls(w, job) \in Seq(PlannedCall)
  BY JobRuns DEF Fresh
<1>2. [i \in DOMAIN <<job>> |-> JobCalls(w, <<job>>[i])] = <<JobCalls(w, job)>>
  OBVIOUS
<1>. QED
  BY <1>1, <1>2, FlattenOfOne DEF PlanCalls

\* An event whose whole plan has run is settled, and no other has moved.
LEMMA RunSettles ==
  ASSUME NEW w \in Wallet, NEW job, IsJob(job), \A l \in ToSet(job) : l.cid \/ l.yid
  PROVE  LET z == After(w, job, Len(PlanCalls(w, <<job>>)))
         IN  z \in Wallet /\ AtRest(z, job) /\ Elsewhere(w, z, job)
<1>. DEFINE plan == JobCalls(w, job)
<1>1. PlanCalls(w, <<job>>) = plan /\ plan \in Seq(PlannedCall)
  BY PlanOfOne
<1>2. PICK z \in Wallet : Leads(w, CallsOf(plan), z) /\ Finally(z, w, job) /\ Elsewhere(w, z, job)
  BY JobRuns DEF Fresh
<1>. HIDE DEF plan
<1>3. SubSeq(plan, 1, Len(plan)) = plan /\ CallsOf(plan) \in Seq(ProperCall)
  BY <1>1, CallsOfBoth
<1>4. RunBatch(w, CallsOf(plan)) = [ok |-> TRUE, w |-> z]
  BY <1>2, <1>3, LeadsInBatch
<1>5. After(w, job, Len(PlanCalls(w, <<job>>))) = z
  <2>1. After(w, job, Len(PlanCalls(w, <<job>>))) = RunBatch(w, CallsOf(SubSeq(plan, 1, Len(plan)))).w
    BY <1>1 DEF After
  <2>2. CallsOf(SubSeq(plan, 1, Len(plan))) = CallsOf(plan)
    BY <1>3, Zenon
  <2>3. RunBatch(w, CallsOf(SubSeq(plan, 1, Len(plan)))).w = [ok |-> TRUE, w |-> z].w
    BY <1>4, <2>2, Zenon
  <2>4. [ok |-> TRUE, w |-> z].w = z
    OBVIOUS
  <2>. QED
    BY <2>1, <2>3, <2>4, Zenon
<1>6. AtRest(z, job)
  BY <1>2, FinallySettled
<1>. QED
  BY <1>2, <1>5, <1>6

\* The events a sweep is asked about.
InScope(e) == e \in NegRiskEvents /\ sweep.only \in {All, e} /\ Len(JobOf[e]) >= 2

SweepTyped ==
  /\ sweep \in [pc : {"idle", "resolve", "settle", "done", "error"}, floor : MinShares,
                only : NegRiskEvents \union {All}, rows : [no : [Leg -> Nat], yes : [Leg -> Nat]],
                slugs : SUBSET NegRiskEvents, found : SUBSET NegRiskEvents, todo : SUBSET NegRiskEvents,
                executed : Nat, failed : Nat, actionable : Nat]
  /\ whole \in BOOLEAN

\* Nothing has failed, and what was listed is what is held but for what was
\* settled since: events not looked at hold nothing, those passed over are settled,
\* and so are those done.
OnlySettledSince ==
  /\ wallet \in Wallet
  /\ sweep.pc \in {"idle", "resolve"} => sweep.executed = 0
  /\ sweep.pc = "resolve" =>
       /\ sweep.rows = Rows(wallet)
       /\ \A e \in NegRiskEvents : InScope(e) => e \in sweep.slugs \union sweep.found \/ e \notin Held(sweep.rows)
  /\ sweep.pc \in {"settle", "done"} =>
       /\ sweep.executed + Cardinality(sweep.todo) = sweep.actionable
       /\ \A e \in NegRiskEvents : InScope(e) => e \in sweep.todo \/ AtRest(wallet, JobOf[e])
  /\ sweep.pc = "done" => sweep.todo = {}

SweepInv ==
  program = "sweep" =>
    /\ SweepTyped
    /\ sweep.pc = "idle" => wallet \in Wallet /\ sweep.failed = 0 /\ sweep.executed = 0
    /\ sweep.pc # "error" /\ sweep.failed = 0 /\ whole => OnlySettledSince

\* A sweep starts with nothing done.
LEMMA SweepStarts == Init => SweepInv
<1>. SUFFICES ASSUME Init, program = "sweep" PROVE SweepInv
  BY DEF SweepInv
<1>1. SInit(SweepWallets, Options)
  BY DEF Init, Of
<1>2. PICK o \in Options : sweep = [pc |-> "idle", floor |-> o.floor, only |-> o.only, rows |-> NoRows,
                slugs |-> {}, found |-> {}, todo |-> {}, executed |-> 0, failed |-> 0, actionable |-> 0]
  BY <1>1 DEF SInit
<1>3. wallet \in Wallet /\ whole = TRUE
  BY <1>1, SweepAssumption DEF SInit
<1>4. o.floor \in MinShares /\ o.only \in NegRiskEvents \union {All}
  BY DEF Options
<1>5. NoRows \in [no : [Leg -> Nat], yes : [Leg -> Nat]]
  BY DEF NoRows
<1>6. SweepTyped
  BY <1>2, <1>3, <1>4, <1>5 DEF SweepTyped
<1>7. sweep.pc = "idle" /\ sweep.failed = 0 /\ sweep.executed = 0
  BY <1>2
<1>8. OnlySettledSince
  BY <1>3, <1>7 DEF OnlySettledSince
<1>. QED
  BY <1>3, <1>6, <1>7, <1>8 DEF SweepInv

\* The rows listed are amounts.
LEMMA RowsTyped ==
  ASSUME NEW w \in Wallet
  PROVE  Listed(w) \in [no : [Leg -> Nat], yes : [Leg -> Nat]]
<1>. DEFINE above(n) == IF n >= sweep.floor THEN n ELSE 0
<1>1. w.no \in [Leg -> Nat] /\ w.yes \in [Leg -> Nat]
  BY DEF Wallet
<1>2. \A n \in Nat : above(n) \in Nat
  OBVIOUS
<1>3. Listed(w) = [no |-> [l \in Leg |-> above(w.no[l])], yes |-> [l \in Leg |-> above(w.yes[l])]]
  BY DEF Listed
<1>. HIDE DEF above
<1>. QED
  BY <1>1, <1>2, <1>3

\* The listing.
LEMMA ListKeeps ==
  ASSUME SweepInv, program = "sweep", List, program' = program
  PROVE  SweepInv'
<1>1. /\ sweep.pc = "idle" /\ wallet \in Wallet /\ sweep.failed = 0 /\ sweep.executed = 0 /\ wallet' = wallet
      /\ SweepTyped
  BY DEF List, SweepInv
<1>. DEFINE rows  == Listed(wallet)
            slugs == {e \in Held(rows) \intersect NegRiskEvents : sweep.only \in {All, e}}
<1>2. CASE /\ sweep' = [sweep EXCEPT !.pc = "resolve", !.rows = rows, !.slugs = slugs]
           /\ whole' = (rows = Rows(wallet))
  <2>1. rows \in [no : [Leg -> Nat], yes : [Leg -> Nat]] /\ slugs \in SUBSET NegRiskEvents
    BY <1>1, RowsTyped
  <2>2. /\ sweep'.pc = "resolve" /\ sweep'.rows = rows /\ sweep'.slugs = slugs /\ sweep'.found = sweep.found
        /\ sweep'.failed = 0 /\ sweep'.executed = 0 /\ sweep'.only = sweep.only
    BY <1>1, <1>2 DEF SweepTyped
  <2>3. SweepTyped'
    <3>. HIDE DEF rows, slugs
    <3>1. whole' \in BOOLEAN
      BY <1>2
    <3>. QED
      BY <1>1, <1>2, <2>1, <3>1 DEF SweepTyped
  <2>4. whole' => OnlySettledSince'
    <3>. SUFFICES ASSUME rows = Rows(wallet) PROVE OnlySettledSince'
      BY <1>2
    <3>1. \A e \in NegRiskEvents : InScope(e)' => e \in slugs \/ e \notin Held(rows)
      BY <2>2 DEF InScope
    <3>2. Rows(wallet)' = Rows(wallet)
      BY <1>1
    <3>. HIDE DEF rows, slugs
    <3>3. Held(sweep.rows)' = Held(rows)
      BY <2>2 DEF Held
    <3>. QED
      BY <1>1, <2>2, <3>1, <3>2, <3>3 DEF OnlySettledSince
  <2>. QED
    BY <2>2, <2>3, <2>4 DEF SweepInv
<1>3. CASE sweep' = [sweep EXCEPT !.pc = "error"] /\ whole' = whole
  <2>1. SweepTyped' /\ sweep'.pc = "error"
    BY <1>1, <1>3 DEF SweepTyped
  <2>. QED
    BY <2>1 DEF SweepInv
<1>. QED
  BY <1>1, <1>2, <1>3 DEF List

\* The resolving of one event.
LEMMA ResolveKeeps ==
  ASSUME SweepInv, program = "sweep", Resolve, program' = program
  PROVE  SweepInv'
<1>1. /\ sweep.pc = "resolve" /\ wallet' = wallet /\ SweepTyped
  BY DEF Resolve, SweepInv
<1>2. PICK e \in sweep.slugs :
       \/ /\ sweep' = [sweep EXCEPT !.slugs = @ \ {e},
                                    !.found = IF Len(JobOf[e]) >= 2 THEN @ \union {e} ELSE @]
          /\ whole' = whole
       \/ sweep' = [sweep EXCEPT !.slugs = @ \ {e}] /\ whole' = FALSE
  BY DEF Resolve
<1>3. e \in NegRiskEvents /\ sweep.found \in SUBSET NegRiskEvents /\ sweep.slugs \in SUBSET NegRiskEvents
  BY <1>1, <1>2 DEF SweepTyped
<1>4. CASE /\ sweep' = [sweep EXCEPT !.slugs = @ \ {e},
                                    !.found = IF Len(JobOf[e]) >= 2 THEN @ \union {e} ELSE @]
           /\ whole' = whole
  <2>1. /\ sweep'.pc = "resolve" /\ sweep'.rows = sweep.rows /\ sweep'.slugs = sweep.slugs \ {e}
        /\ sweep'.found = (IF Len(JobOf[e]) >= 2 THEN sweep.found \union {e} ELSE sweep.found)
        /\ sweep'.failed = sweep.failed /\ sweep'.executed = sweep.executed /\ sweep'.only = sweep.only
    BY <1>1, <1>4 DEF SweepTyped
  <2>2. SweepTyped'
    <3>1. (IF Len(JobOf[e]) >= 2 THEN sweep.found \union {e} ELSE sweep.found) \in SUBSET NegRiskEvents
      BY <1>3
    <3>2. sweep.slugs \ {e} \in SUBSET NegRiskEvents
      BY <1>3
    <3>. QED
      BY <1>1, <1>4, <3>1, <3>2 DEF SweepTyped
  <2>3. sweep.failed = 0 /\ whole => OnlySettledSince'
    <3>. SUFFICES ASSUME OnlySettledSince PROVE OnlySettledSince'
      BY <1>1 DEF SweepInv
    <3>1. ASSUME NEW f \in NegRiskEvents, InScope(f)'
          PROVE  f \in sweep'.slugs \union sweep'.found \/ f \notin Held(sweep.rows)
      <4>1. InScope(f)
        BY <2>1, <3>1 DEF InScope
      <4>2. f \in sweep.slugs \union sweep.found \/ f \notin Held(sweep.rows)
        BY <1>1, <3>1, <4>1 DEF OnlySettledSince
      <4>. QED
        BY <2>1, <4>1, <4>2 DEF InScope
    <3>2. Rows(wallet)' = Rows(wallet) /\ Held(sweep.rows)' = Held(sweep.rows)
      BY <1>1, <2>1 DEF Held
    <3>. QED
      BY <1>1, <2>1, <3>1, <3>2 DEF OnlySettledSince
  <2>. QED
    BY <1>4, <2>1, <2>2, <2>3 DEF SweepInv
<1>5. CASE sweep' = [sweep EXCEPT !.slugs = @ \ {e}] /\ whole' = FALSE
  <2>1. SweepTyped' /\ sweep'.pc = "resolve"
    BY <1>1, <1>3, <1>5 DEF SweepTyped
  <2>. QED
    BY <1>5, <2>1 DEF SweepInv
<1>. QED
  BY <1>2, <1>4, <1>5

\* The job of an event is one, of its legs.
LEMMA JobsOf ==
  ASSUME NEW e \in NegRiskEvents
  PROVE  IsJob(JobOf[e]) /\ \A l \in ToSet(JobOf[e]) : EventOf[l.id] = e
BY SweepAssumption

\* The classification.
LEMMA ClassifyKeeps ==
  ASSUME SweepInv, program = "sweep", Classify, program' = program
  PROVE  SweepInv'
<1>. DEFINE todo == {e \in sweep.found : Actionable(sweep.rows, JobOf[e])}
<1>1. /\ sweep.pc = "resolve" /\ sweep.slugs = {} /\ wallet' = wallet /\ SweepTyped /\ whole' = whole
      /\ sweep' = [sweep EXCEPT !.pc = "settle", !.todo = todo, !.actionable = Cardinality(todo)]
  BY DEF Classify, SweepInv
<1>2. todo \in SUBSET NegRiskEvents
  BY <1>1 DEF SweepTyped
<1>3. Cardinality(todo) \in Nat
  <2>. HIDE DEF todo
  <2>. QED
    BY <1>2, SweepAssumption, FS_Subset, FS_CardinalityType
<1>4. \A e \in NegRiskEvents : e \in todo <=> e \in sweep.found /\ Actionable(sweep.rows, JobOf[e])
  OBVIOUS
<1>. HIDE DEF todo
<1>5. /\ sweep'.pc = "settle" /\ sweep'.todo = todo /\ sweep'.actionable = Cardinality(todo)
      /\ sweep'.failed = sweep.failed /\ sweep'.executed = sweep.executed /\ sweep'.only = sweep.only
  BY <1>1 DEF SweepTyped
<1>6. SweepTyped'
  BY <1>1, <1>2, <1>3 DEF SweepTyped
<1>7. sweep.failed = 0 /\ whole => OnlySettledSince'
  <2>. SUFFICES ASSUME OnlySettledSince PROVE OnlySettledSince'
    BY <1>1 DEF SweepInv
  <2>1. wallet \in Wallet /\ sweep.executed = 0 /\ sweep.rows = Rows(wallet)
    BY <1>1 DEF OnlySettledSince
  <2>2. ASSUME NEW e \in NegRiskEvents, InScope(e)' PROVE e \in todo \/ AtRest(wallet, JobOf[e])
    <3>1. InScope(e)
      BY <1>5, <2>2 DEF InScope
    <3>2. e \in sweep.found \/ e \notin Held(sweep.rows)
      BY <1>1, <2>2, <3>1 DEF OnlySettledSince
    <3>3. CASE e \notin Held(sweep.rows)
      BY <2>1, <3>3, JobsOf, NotHeld
    <3>4. CASE ~Actionable(sweep.rows, JobOf[e])
      BY <2>1, <3>4, JobsOf, PassedOver
    <3>. QED
      BY <1>4, <3>2, <3>3, <3>4
  <2>3. \A e : AtRest(wallet, JobOf[e])' = AtRest(wallet, JobOf[e])
    BY <1>1
  <2>4. 0 + Cardinality(todo) = Cardinality(todo)
    BY <1>3
  <2>. QED
    BY <1>1, <1>5, <2>1, <2>2, <2>3, <2>4 DEF OnlySettledSince
<1>. QED
  BY <1>1, <1>5, <1>6, <1>7 DEF SweepInv

\* Every leg of an event knows its condition or its YES token.
LegsKnown == \A e \in NegRiskEvents : \A l \in ToSet(JobOf[e]) : l.cid \/ l.yid

\* An event less to settle.
LEMMA OneDone ==
  ASSUME NEW T \in SUBSET NegRiskEvents, NEW e \in T, NEW k \in Nat
  PROVE  k + 1 + Cardinality(T \ {e}) = k + Cardinality(T)
<1>1. IsFiniteSet(T)
  BY SweepAssumption, FS_Subset
<1>2. Cardinality(T \ {e}) = Cardinality(T) - 1 /\ Cardinality(T) \in Nat
  BY <1>1, FS_RemoveElement, FS_CardinalityType
<1>. QED
  BY <1>2

\* The convert cycle of one event.
LEMMA SettleKeeps ==
  ASSUME LegsKnown, SweepInv, program = "sweep", Settle, program' = program
  PROVE  SweepInv'
<1>1. sweep.pc = "settle" /\ SweepTyped /\ whole' = whole
  BY DEF Settle, SweepInv
<1>2. PICK e \in sweep.todo :
       \/ /\ wallet' = After(wallet, JobOf[e], Len(PlanCalls(wallet, <<JobOf[e]>>)))
          /\ sweep' = [sweep EXCEPT !.todo = @ \ {e}, !.executed = @ + 1]
       \/ SettleFails(e)
  BY DEF Settle
<1>3. e \in NegRiskEvents /\ sweep.todo \in SUBSET NegRiskEvents /\ {sweep.executed, sweep.failed} \subseteq Nat
  BY <1>1, <1>2 DEF SweepTyped
<1>4. CASE /\ wallet' = After(wallet, JobOf[e], Len(PlanCalls(wallet, <<JobOf[e]>>)))
           /\ sweep' = [sweep EXCEPT !.todo = @ \ {e}, !.executed = @ + 1]
  <2>1. /\ sweep'.pc = "settle" /\ sweep'.todo = sweep.todo \ {e} /\ sweep'.executed = sweep.executed + 1
        /\ sweep'.failed = sweep.failed /\ sweep'.actionable = sweep.actionable /\ sweep'.only = sweep.only
    BY <1>1, <1>4 DEF SweepTyped
  <2>2. SweepTyped'
    <3>1. sweep.todo \ {e} \in SUBSET NegRiskEvents /\ sweep.executed + 1 \in Nat
      BY <1>3
    <3>. QED
      BY <1>1, <1>4, <3>1 DEF SweepTyped
  <2>3. sweep.failed = 0 /\ whole => OnlySettledSince'
    <3>. SUFFICES ASSUME OnlySettledSince PROVE OnlySettledSince'
      BY <1>1 DEF SweepInv
    <3>1. wallet \in Wallet /\ sweep.executed + Cardinality(sweep.todo) = sweep.actionable
      BY <1>1 DEF OnlySettledSince
    <3>2. IsJob(JobOf[e]) /\ \A l \in ToSet(JobOf[e]) : EventOf[l.id] = e /\ (l.cid \/ l.yid)
      BY <1>3, JobsOf DEF LegsKnown
    <3>3. wallet' \in Wallet /\ AtRest(wallet', JobOf[e]) /\ Elsewhere(wallet, wallet', JobOf[e])
      BY <1>4, <3>1, <3>2, RunSettles
    <3>4. ASSUME NEW f \in NegRiskEvents, InScope(f)' PROVE f \in sweep.todo \ {e} \/ AtRest(wallet', JobOf[f])
      <4>1. f \in sweep.todo \/ AtRest(wallet, JobOf[f])
        <5>1. InScope(f)
          BY <2>1, <3>4 DEF InScope
        <5>. QED
          BY <1>1, <5>1 DEF OnlySettledSince
      <4>2. CASE f # e /\ AtRest(wallet, JobOf[f])
        <5>1. IsJob(JobOf[f]) /\ \A l \in ToSet(JobOf[f]) : EventOf[l.id] = f
          BY JobsOf
        <5>2. \A l \in ToSet(JobOf[f]), m \in ToSet(JobOf[e]) : EventOf[l.id] # EventOf[m.id]
          BY <3>2, <4>2, <5>1
        <5>. QED
          BY <3>2, <3>3, <4>2, <5>1, <5>2, SettledOn
      <4>. QED
        BY <3>3, <4>1, <4>2
    <3>5. (sweep.executed + 1) + Cardinality(sweep.todo \ {e}) = sweep.actionable
      BY <1>2, <1>3, <3>1, OneDone
    <3>. QED
      BY <2>1, <3>3, <3>4, <3>5 DEF OnlySettledSince
  <2>. QED
    BY <1>1, <2>1, <2>2, <2>3 DEF SweepInv
<1>5. CASE SettleFails(e)
  <2>1. /\ sweep'.pc = "settle" /\ sweep'.failed = sweep.failed + 1
    BY <1>1, <1>5 DEF SettleFails, SweepTyped
  <2>2. SweepTyped'
    <3>1. sweep.todo \ {e} \in SUBSET NegRiskEvents /\ sweep.failed + 1 \in Nat
      BY <1>3
    <3>. QED
      BY <1>1, <1>5, <3>1 DEF SettleFails, SweepTyped
  <2>3. sweep'.failed # 0
    BY <1>3, <2>1
  <2>. QED
    BY <2>1, <2>2, <2>3 DEF SweepInv
<1>. QED
  BY <1>2, <1>4, <1>5

\* The report.
LEMMA ReportKeeps ==
  ASSUME SweepInv, program = "sweep", Report, program' = program
  PROVE  SweepInv'
<1>1. /\ sweep.pc = "settle" /\ sweep.todo = {} /\ SweepTyped /\ wallet' = wallet /\ whole' = whole
      /\ sweep' = [sweep EXCEPT !.pc = "done"]
  BY DEF Report, SweepInv
<1>2. SweepTyped' /\ sweep'.pc = "done" /\ sweep'.todo = sweep.todo /\ sweep'.executed = sweep.executed
      /\ sweep'.failed = sweep.failed /\ sweep'.actionable = sweep.actionable /\ sweep'.only = sweep.only
  BY <1>1 DEF SweepTyped
<1>3. sweep.failed = 0 /\ whole => OnlySettledSince'
  <2>. SUFFICES ASSUME OnlySettledSince PROVE OnlySettledSince'
    BY <1>1 DEF SweepInv
  <2>1. \A e : InScope(e)' = InScope(e) /\ AtRest(wallet, JobOf[e])' = AtRest(wallet, JobOf[e])
    BY <1>1, <1>2 DEF InScope
  <2>. QED
    BY <1>1, <1>2, <2>1 DEF OnlySettledSince
<1>. QED
  BY <1>1, <1>2, <1>3 DEF SweepInv

\* A fill before the listing is only one NO more; one after it is on record.
LEMMA SweepFillKeeps ==
  ASSUME SweepInv, program = "sweep", FillDuringSweep, program' = program
  PROVE  SweepInv'
<1>1. sweep' = sweep /\ whole' = (whole /\ sweep.pc = "idle") /\ SweepTyped
  BY DEF FillDuringSweep, SweepInv
<1>2. PICK l \in Leg : wallet' = [wallet EXCEPT !.no[l] = @ + 1]
  BY DEF FillDuringSweep
<1>3. wallet \in Wallet => wallet' \in Wallet
  BY <1>2 DEF Wallet
<1>4. SweepTyped'
  BY <1>1 DEF SweepTyped
<1>5. sweep.pc = "idle" => wallet' \in Wallet /\ sweep.failed = 0 /\ sweep.executed = 0
  BY <1>3 DEF SweepInv
<1>. QED
  BY <1>1, <1>4, <1>5 DEF SweepInv, OnlySettledSince

\* When every leg of an event knows its condition or its YES token: a sweep that
\* reports no failure, over a whole listing and holdings that did not move, has
\* left nothing to convert in any event it was asked about, for any number of
\* events, legs and balances.
THEOREM SweepAlwaysSettles ==
  ASSUME LegsKnown
  PROVE  Spec => []SweepSettles
<1>1. Init => SweepInv
  BY SweepStarts
<1>2. SweepInv /\ [Next]_vars => SweepInv'
  <2>. SUFFICES ASSUME SweepInv, [Next]_vars PROVE SweepInv'
    OBVIOUS
  <2>1. CASE program = "sweep" /\ SNext /\ program' = program
    BY <2>1, ListKeeps, ResolveKeeps, ClassifyKeeps, SettleKeeps, ReportKeeps, SweepFillKeeps DEF SNext
  <2>2. CASE program' = program /\ UNCHANGED svars
    BY <2>2 DEF svars, SweepInv, SweepTyped, OnlySettledSince, InScope, AtRest, Held, Netted, Remaining, No, Yes, Rows
  <2>. QED
    BY <2>1, <2>2 DEF Next, vars
<1>3. SweepInv /\ (program # "sweep" => sweep.pc = "idle") => SweepSettles
  <2>. SUFFICES ASSUME SweepInv, program = "sweep", sweep.pc = "done", sweep.failed = 0, whole
                PROVE  /\ sweep.executed = sweep.actionable
                       /\ \A e \in NegRiskEvents :
                            sweep.only \in {All, e} /\ Len(JobOf[e]) >= 2 => PlanCalls(wallet, <<JobOf[e]>>) = <<>>
    BY DEF SweepSettles
  <2>1. OnlySettledSince /\ SweepTyped
    BY DEF SweepInv
  <2>2. sweep.todo = {} /\ wallet \in Wallet /\ sweep.executed + Cardinality(sweep.todo) = sweep.actionable
    BY <2>1 DEF OnlySettledSince
  <2>3. sweep.executed = sweep.actionable
    BY <2>1, <2>2, FS_EmptySet DEF SweepTyped
  <2>4. ASSUME NEW e \in NegRiskEvents, sweep.only \in {All, e}, Len(JobOf[e]) >= 2
        PROVE  PlanCalls(wallet, <<JobOf[e]>>) = <<>>
    <3>1. AtRest(wallet, JobOf[e])
      BY <2>1, <2>2, <2>4 DEF OnlySettledSince, InScope
    <3>. QED
      BY <2>2, <3>1, JobsOf, SettledRests, PlanOfOne
  <2>. QED
    BY <2>3, <2>4
<1>4. Init => (program # "sweep" => sweep.pc = "idle")
  BY DEF Init, SInit
<1>5. (program # "sweep" => sweep.pc = "idle") /\ [Next]_vars => (program # "sweep" => sweep.pc = "idle")'
  BY DEF Next, vars, svars
<1>. QED
  BY <1>1, <1>2, <1>3, <1>4, <1>5, PTL DEF Spec

---------------------------------------------------------------------------
(* The session.                                                            *)

\* From its credentials on, a session is on its way through these.
WithKey   == {"keyed", "ready", "booked", "posted", "listed", "done"}
Trading   == WithKey \ {"keyed"}
Quoted    == Trading \ {"ready"}
AfterPost == Quoted \ {"booked"}

SessionInv ==
  /\ program # "quickstart" => sent = Unsent
  /\ program = "quickstart" =>
       /\ account \in Accounts /\ pc \in WithKey \union {"create", "derive", "stopped"}
       /\ pc \in WithKey => key \in venueKeys
       /\ pc \in Trading => identity = ResolveIdentity(account.type, account.funder) /\ identity # Refused
       /\ pc \in Quoted => books = account.sound
       /\ sent = Unsent \/ pc \in AfterPost
       /\ SessionVerifies

\* The wallet of an identity that is resolved, if the funder is the key's own.
LEMMA OwnIdentity ==
  ASSUME NEW type \in SignatureType, NEW chain \in Chains, NEW funder,
         funder \in {"none", OwnWallet(type, chain)}, ResolveIdentity(type, funder) # Refused
  PROVE  LET i == ResolveIdentity(type, funder)
         IN  /\ i.type = type /\ i.maker = OwnWallet(type, chain)
             /\ i.signer = IF type = "poly1271" THEN i.maker ELSE Eoa
<1>. DEFINE i == ResolveIdentity(type, funder)
<1>1. CASE type = "eoa"
  <2>1. funder \in {"none", Eoa} /\ OwnWallet(type, chain) = Eoa
    BY <1>1 DEF OwnWallet
  <2>2. i = [maker |-> Eoa, signer |-> Eoa, type |-> type]
    BY <1>1, <2>1 DEF ResolveIdentity
  <2>. QED
    BY <1>1, <2>1, <2>2
<1>2. CASE type # "eoa"
  <2>1. funder # "none"
    BY <1>2 DEF ResolveIdentity
  <2>2. funder = OwnWallet(type, chain)
    BY <2>1
  <2>3. CASE type = "poly1271"
    <3>1. i = [maker |-> funder, signer |-> funder, type |-> type]
      BY <2>1, <2>3 DEF ResolveIdentity
    <3>. QED
      BY <2>2, <2>3, <3>1
  <2>4. CASE type \in {"proxy", "safe"}
    <3>1. i = [maker |-> funder, signer |-> Eoa, type |-> type]
      BY <2>1, <2>4 DEF ResolveIdentity
    <3>. QED
      BY <2>2, <2>4, <3>1
  <2>. QED
    BY <1>2, <2>3, <2>4 DEF SignatureType
<1>. QED
  BY <1>1, <1>2

\* The chunks of a list of ids hold it, so its books are those that parse.
LEMMA AllFetched ==
  ASSUME NEW E, NEW ids \in Seq(E), NEW width \in Nat \ {0}, NEW sound \in SUBSET ToSet(ids)
  PROVE  BookMap(ids, width, sound) = sound
<1>. DEFINE n == Len(ids)
            m == ChunkCount(ids, width)
            chunk(i) == SubSeq(ids, (i - 1) * width + 1, Min({i * width, Len(ids)}))
            chunks == BookChunks(ids, width)
<1>1. n \in Nat /\ DOMAIN ids = 1..n /\ m \in Nat
  BY DEF ChunkCount
<1>2. \A c \in ToSet(chunks) : \E i \in 1..m : c = chunk(i)
  BY DEF BookChunks, ToSet
<1>3. \A i \in 1..m : chunk(i) \in ToSet(chunks)
  BY DEF BookChunks, ToSet
<1>4. ASSUME NEW i \in 1..m
      PROVE  /\ (i - 1) * width \in Nat /\ i * width \in Nat /\ (i - 1) * width = i * width - width
             /\ Min({i * width, n}) = (IF i * width <= n THEN i * width ELSE n)
  <2>1. i \in Nat /\ i - 1 \in Nat
    BY <1>1
  <2>2. (i - 1) * width \in Nat /\ i * width \in Nat
    BY <2>1, Product
  <2>3. (i - 1) * width = i * width - width
    BY <2>1
  <2>4. ASSUME NEW a \in Nat, NEW b \in Nat PROVE Min({a, b}) = (IF a <= b THEN a ELSE b)
    BY DEF Min
  <2>. QED
    BY <1>1, <2>2, <2>3, <2>4
<1>5. \A c \in ToSet(chunks) : ToSet(c) \subseteq ToSet(ids)
  <2>. SUFFICES ASSUME NEW i \in 1..m PROVE ToSet(chunk(i)) \subseteq ToSet(ids)
    BY <1>2
  <2>. DEFINE a == (i - 1) * width + 1
              b == Min({i * width, Len(ids)})
  <2>1. a \in Nat \ {0} /\ b \in Nat /\ b <= n
    BY <1>1, <1>4
  <2>. HIDE DEF a, b
  <2>2. \A k \in DOMAIN SubSeq(ids, a, b) : \E j \in 1..n : SubSeq(ids, a, b)[k] = ids[j]
    <3>1. DOMAIN SubSeq(ids, a, b) = 1..(IF a <= b THEN b - a + 1 ELSE 0)
      BY <1>1, <2>1
    <3>2. \A k \in DOMAIN SubSeq(ids, a, b) : SubSeq(ids, a, b)[k] = ids[a + k - 1] /\ a + k - 1 \in 1..n
      BY <1>1, <2>1, <3>1
    <3>. QED
      BY <3>2
  <2>. QED
    BY <1>1, <2>2 DEF ToSet, a, b
<1>6. ASSUME NEW x \in ToSet(ids) PROVE \E c \in ToSet(chunks) : x \in ToSet(c)
  <2>1. PICK j \in 1..n : ids[j] = x
    BY <1>1 DEF ToSet
  <2>. DEFINE i == (j - 1) \div width + 1
  <2>2. /\ (j - 1) \div width \in Nat
        /\ ((j - 1) \div width) * width <= j - 1
        /\ j - 1 < ((j - 1) \div width) * width + width
    BY <1>1, <2>1
  <2>3. i \in Nat /\ i >= 1 /\ (i - 1) * width <= j - 1 /\ j <= i * width
    BY <1>1, <2>1, <2>2
  <2>. HIDE DEF i
  <2>4. i <= m
    <3>1. m * width > n - 1 /\ m * width \in Nat
      <4>1. n + width - 1 < m * width + width
        BY <1>1 DEF ChunkCount
      <4>. QED
        BY <1>1, <4>1, Product
    <3>. SUFFICES ASSUME i >= m + 1 PROVE FALSE
      BY <1>1, <2>3
    <3>2. (i - 1 - m) * width \in Nat /\ (i - 1 - m) * width = (i - 1) * width - m * width
      BY <1>1, <2>3, Product
    <3>. QED
      BY <1>1, <2>1, <2>3, <3>1, <3>2
  <2>5. i \in 1..m
    BY <1>1, <2>3, <2>4
  <2>. DEFINE a == (i - 1) * width + 1
              b == Min({i * width, Len(ids)})
              k == j - (i - 1) * width
  <2>6. a \in Nat \ {0} /\ b \in Nat /\ a <= j /\ j <= b /\ b <= n /\ k = j - a + 1
    <3>1. /\ (i - 1) * width \in Nat /\ i * width \in Nat /\ (i - 1) * width = i * width - width
          /\ b = (IF i * width <= n THEN i * width ELSE n)
      BY <1>4, <2>5
    <3>. DEFINE p == (i - 1) * width
                q == i * width
    <3>2. p \in Nat /\ q \in Nat /\ p <= j - 1 /\ j <= q /\ a = p + 1 /\ k = j - p /\ b = (IF q <= n THEN q ELSE n)
      BY <2>3, <3>1
    <3>3. j \in Nat /\ n \in Nat /\ 1 <= j /\ j <= n
      BY <1>1, <2>1
    <3>. HIDE DEF p, q, a, b, k, n
    <3>4. a \in Nat \ {0} /\ a <= j /\ k = j - a + 1
      BY <3>2, <3>3
    <3>5. b \in Nat /\ j <= b /\ b <= n
      BY <3>2, <3>3
    <3>. QED
      BY <3>4, <3>5
  <2>. HIDE DEF a, b, k
  <2>7. k \in DOMAIN SubSeq(ids, a, b) /\ SubSeq(ids, a, b)[k] = ids[j]
    BY <1>1, <2>6
  <2>8. x \in ToSet(SubSeq(ids, a, b))
    BY <2>1, <2>7 DEF ToSet
  <2>. QED
    BY <1>3, <2>5, <2>8 DEF a, b
<1>. HIDE DEF chunks
<1>7. BookMap(ids, width, sound) = UNION {ToSet(c) \intersect sound : c \in ToSet(chunks)}
  BY DEF BookMap, ParseBooks, chunks
<1>. QED
  BY <1>6, <1>7

\* The least of a few numbers.
LEMMA LeastOf ==
  ASSUME NEW a \in Nat, NEW b \in Nat
  PROVE  /\ Min({a, b}) \in Nat /\ Min({a, b}) <= a
         /\ \A c \in Nat : Min({a, b, c}) \in Nat /\ Min({a, b, c}) <= a /\ Min({a, b, c}) <= c
<1>1. \E x \in {a, b} : \A y \in {a, b} : x <= y
  OBVIOUS
<1>2. Min({a, b}) \in {a, b} /\ \A y \in {a, b} : Min({a, b}) <= y
  BY <1>1 DEF Min
<1>3. ASSUME NEW c \in Nat PROVE Min({a, b, c}) \in Nat /\ Min({a, b, c}) <= a /\ Min({a, b, c}) <= c
  <2>1. \E x \in {a, b, c} : \A y \in {a, b, c} : x <= y
    OBVIOUS
  <2>2. Min({a, b, c}) \in {a, b, c} /\ \A y \in {a, b, c} : Min({a, b, c}) <= y
    BY <2>1 DEF Min
  <2>. QED
    BY <2>2
<1>. QED
  BY <1>2, <1>3

\* An order's size is tenths of a share, no more than the thinnest leg holds and
\* the cash pays for.
LEMMA SizeFits ==
  ASSUME NEW depth \in Nat, NEW most \in Nat, NEW cash \in Nat, NEW cost \in Nat, cost > 0,
         ComputeOrderSize(depth, most, cash, cost) # NoSize
  PROVE  \E steps \in Nat : /\ ComputeOrderSize(depth, most, cash, cost) = steps * 1000 /\ steps > 0
                            /\ steps * 1000 <= depth
                            /\ cash > 0 => (steps * 1000) * cost <= cash * 10000
<1>. DEFINE caps == IF cash > 0 /\ cost > 0 THEN {(cash * Unit) \div cost} ELSE {}
            least == Min({depth, most} \union caps)
            size == Stepped(least)
            room == (cash * Unit) \div cost
<1>1. cash * 10000 \in Nat /\ room \in Nat /\ room * cost <= cash * 10000
  <2>1. ASSUME NEW a \in Nat PROVE a \div cost \in Nat /\ (a \div cost) * cost <= a
    OBVIOUS
  <2>2. cash * 10000 \in Nat
    OBVIOUS
  <2>. QED
    BY <2>1, <2>2 DEF Unit
<1>2. least \in Nat /\ least <= depth /\ (cash > 0 => least <= room)
  <2>1. CASE cash > 0
    <3>1. {depth, most} \union caps = {depth, most, room}
      BY <2>1
    <3>. HIDE DEF caps, room
    <3>2. Min({depth, most, room}) \in Nat /\ Min({depth, most, room}) <= depth /\ Min({depth, most, room}) <= room
      <4>1. \A c \in Nat : Min({depth, most, c}) \in Nat /\ Min({depth, most, c}) <= depth /\ Min({depth, most, c}) <= c
        BY LeastOf
      <4>. QED
        BY <1>1, <4>1
    <3>. QED
      BY <3>1, <3>2
  <2>2. CASE ~(cash > 0)
    <3>1. {depth, most} \union caps = {depth, most}
      BY <2>2
    <3>. HIDE DEF caps, room
    <3>. QED
      BY <2>2, <3>1, LeastOf
  <2>. QED
    BY <2>1, <2>2
<1>. HIDE DEF least, room, caps
<1>. DEFINE steps == least \div 1000
<1>3. steps \in Nat /\ steps * 1000 <= least /\ size = steps * 1000
  <2>1. SizeStep = 1000
    BY DEF SizeStep, Unit
  <2>. QED
    BY <1>2, <2>1 DEF Stepped, FloorToStep
<1>. HIDE DEF steps
<1>4. ComputeOrderSize(depth, most, cash, cost) = size /\ size >= 50000
  <2>1. ComputeOrderSize(depth, most, cash, cost) = IF size >= MinSize THEN size ELSE NoSize
    BY DEF ComputeOrderSize, least, caps
  <2>. HIDE DEF size
  <2>. QED
    BY <2>1 DEF MinSize, Unit
<1>. HIDE DEF size
<1>5. steps > 0 /\ steps * 1000 <= depth
  BY <1>2, <1>3, <1>4
<1>6. cash > 0 => (steps * 1000) * cost <= cash * 10000
  <2>. SUFFICES ASSUME cash > 0 PROVE (steps * 1000) * cost <= cash * 10000
    OBVIOUS
  <2>1. steps * 1000 <= room /\ steps * 1000 \in Nat
    BY <1>1, <1>2, <1>3
  <2>2. ASSUME NEW a \in Nat, NEW b \in Nat, a <= b PROVE a * cost <= b * cost
    <3>1. (b - a) * cost \in Nat /\ (b - a) * cost = b * cost - a * cost
      BY <2>2, Product
    <3>2. a * cost \in Nat /\ b * cost \in Nat
      BY Product
    <3>. QED
      BY <3>1, <3>2
  <2>3. (steps * 1000) * cost <= room * cost /\ (steps * 1000) * cost \in Nat /\ room * cost \in Nat
    BY <1>1, <2>1, <2>2, Product
  <2>. QED
    BY <1>1, <2>3
<1>. QED
  BY <1>3, <1>4, <1>5, <1>6

\* The amounts of an order of so many tenths of a share.
LEMMA AmountsAre ==
  ASSUME NEW steps \in Nat, NEW price \in Nat
  PROVE  /\ ToFixed((steps * 1000) * Unit) = steps * 100000
         /\ ToFixed((steps * 1000) * price) = (steps * 10) * price
         /\ (steps * 100000) \div Unit = steps * 10 /\ (steps * 100000) % 10000 = 0
         /\ (steps * 10) * price \in Nat /\ ((steps * 10) * price) * 100 = (steps * 1000) * price
<1>1. ASSUME NEW a \in Nat PROVE ToFixed(a * 100) = a
  BY DEF ToFixed
<1>2. (steps * 1000) * Unit = (steps * 100000) * 100
  BY DEF Unit
<1>3. (steps * 10) * price \in Nat /\ ((steps * 10) * price) * 100 = (steps * 1000) * price
  <2>1. steps * price \in Nat
    BY Product
  <2>2. (steps * 10) * price = 10 * (steps * price) /\ (steps * 1000) * price = 1000 * (steps * price)
    OBVIOUS
  <2>. QED
    BY <2>1, <2>2
<1>4. (steps * 100000) \div Unit = steps * 10 /\ (steps * 100000) % 10000 = 0
  BY DEF Unit
<1>. QED
  BY <1>1, <1>2, <1>3, <1>4

\* An order sized so is quoted exactly.
LEMMA SizedIsExact ==
  ASSUME NEW side \in {"buy", "sell"}, NEW depth \in Nat, NEW budget \in Nat, NEW price \in Nat, price > 0,
         NEW o, NEW who, o.price = price, o.budget = budget, o.depth = depth,
         o.order = BuildOrder(who, side, ComputeOrderSize(depth, MaxOrder, budget, price), price),
         ComputeOrderSize(depth, MaxOrder, budget, price) # NoSize
  PROVE  QuotedExactly(o)
<1>. DEFINE size == ComputeOrderSize(depth, MaxOrder, budget, price)
<1>1. PICK steps \in Nat : /\ size = steps * 1000 /\ steps > 0 /\ steps * 1000 <= depth
                           /\ budget > 0 => (steps * 1000) * price <= budget * 10000
  BY SessionAssumption, SizeFits
<1>. DEFINE cash == (steps * 10) * price
            shares == steps * 100000
<1>2. Amounts(side, size, price) = IF side = "buy" THEN [maker |-> cash, taker |-> shares]
                                                   ELSE [maker |-> shares, taker |-> cash]
  <2>. HIDE DEF size
  <2>1. ToFixed(size * Unit) = shares /\ ToFixed(size * price) = cash
    BY <1>1, AmountsAre
  <2>. HIDE DEF cash, shares
  <2>. QED
    BY <2>1 DEF Amounts
<1>3. o.order.side = side /\ o.order.amounts = Amounts(side, size, price)
  BY DEF BuildOrder
<1>4. /\ cash \in Nat /\ shares \in Nat /\ shares > 0 /\ shares % 10000 = 0
      /\ shares \div Unit = steps * 10 /\ cash * 100 = (steps * 1000) * price
  BY <1>1, AmountsAre
<1>5. shares <= depth * 100
  BY <1>1
<1>6. budget > 0 => cash <= budget * 100
  <2>1. budget > 0 => cash * 100 <= budget * 10000
    BY <1>1, <1>4
  <2>. HIDE DEF cash
  <2>. QED
    BY <1>4, <2>1
<1>7. cash = (shares \div Unit) * price
  BY <1>4
<1>. HIDE DEF cash, shares, size
<1>. QED
  BY <1>2, <1>3, <1>4, <1>5, <1>6, <1>7 DEF QuotedExactly

USE DEF WithKey, Trading, Quoted, AfterPost

\* Every request carries the key, signed as the venue checks it.
LEMMA Admitted ==
  ASSUME NEW k, NEW keys, k \in keys, NEW method, NEW path, NEW query, NEW body
  PROVE  VenueAdmits(Request(k, method, path, query, body), keys)
BY DEF VenueAdmits, Request

\* What is signed for the exchange of the token is what it checks.
LEMMA Accepted ==
  ASSUME NEW type \in SignatureType, NEW chain \in Chains, NEW funder, NEW neg_risk,
         funder \in {"none", OwnWallet(type, chain)}, ResolveIdentity(type, funder) # Refused,
         NEW side, NEW size, NEW price
  PROVE  LET i == ResolveIdentity(type, funder)
             order == BuildOrder(i, side, size, price)
         IN  ExchangeAccepts(chain, neg_risk, order, SignOrder(Signer(chain, CtfV2(neg_risk), i), order))
<1>. DEFINE i == ResolveIdentity(type, funder)
            order == BuildOrder(i, side, size, price)
            s == Signer(chain, CtfV2(neg_risk), i)
<1>1. /\ i.type = type /\ i.maker = OwnWallet(type, chain)
      /\ i.signer = IF type = "poly1271" THEN i.maker ELSE Eoa
  BY OwnIdentity
<1>. HIDE DEF i
<1>2. order.maker = i.maker /\ order.signer = i.signer /\ order.type = type
  BY <1>1 DEF BuildOrder
<1>3. s.separator = Separator(chain, CtfV2(neg_risk)) /\ s.chain = chain /\ s.identity = i
  BY DEF Signer
<1>. HIDE DEF order, s
<1>4. ASSUME type = "poly1271" PROVE ExchangeAccepts(chain, neg_risk, order, SignOrder(s, order))
  <2>1. SignOrder(s, order) = [by |-> Eoa, wrapped |-> TRUE, separator |-> s.separator,
                               hash |-> TypedDataSign(chain, i.signer, Contents(order))]
    BY <1>1, <1>3, <1>4 DEF SignOrder, Wrapped
  <2>. QED
    BY <1>1, <1>2, <1>3, <1>4, <2>1 DEF ExchangeAccepts
<1>5. ASSUME type # "poly1271" PROVE ExchangeAccepts(chain, neg_risk, order, SignOrder(s, order))
  <2>1. SignOrder(s, order) = [by |-> Eoa, wrapped |-> FALSE, separator |-> s.separator, hash |-> Contents(order)]
    BY <1>1, <1>3, <1>5 DEF SignOrder, Plain
  <2>. QED
    BY <1>1, <1>2, <1>3, <1>5, <2>1 DEF ExchangeAccepts
<1>. QED
  BY <1>4, <1>5 DEF i, order, s

\* What an account says, for any that may be configured.
LEMMA AccountIs ==
  ASSUME NEW a \in Accounts
  PROVE  a.type \in SignatureType /\ a.chain \in Chains /\ a.sound \in SUBSET ToSet(Tokens)
<1>. DEFINE Sounds == {ToSet(Tokens)} \union {ToSet(Tokens) \ {t} : t \in ToSet(Tokens)}
<1>1. a \in [type: SignatureType, chain: Chains, neg_risk: BOOLEAN, nonce: 0..1, sound: Sounds, funder: Funders]
  BY DEF Accounts
<1>2. Sounds \subseteq SUBSET ToSet(Tokens)
  OBVIOUS
<1>. HIDE DEF Sounds
<1>. QED
  BY <1>1, <1>2

\* A session starts without a key or with a saved one, and has sent nothing.
LEMMA SessionStarts == Init => SessionInv
<1>. SUFFICES ASSUME Init PROVE SessionInv
  OBVIOUS
<1>1. SessionInit(Of("quickstart", Accounts)) /\ (program = "quickstart" => Of("quickstart", Accounts) = Accounts)
  BY DEF Init, Of
<1>2. sent = Unsent /\ sent.kind = "nothing" /\ (pc = "create" \/ (pc = "keyed" /\ key \in venueKeys))
  BY <1>1 DEF SessionInit, Unsent
<1>3. program = "quickstart" => account \in Accounts
  BY <1>1 DEF SessionInit
<1>. QED
  BY <1>2, <1>3 DEF SessionInv, SessionVerifies

\* Getting the credentials.
LEMMA KeyKeeps ==
  ASSUME SessionInv, program = "quickstart", program' = program, CreateKey \/ DeriveKey
  PROVE  SessionInv'
<1>1. /\ pc \in {"create", "derive"} /\ account' = account /\ sent' = sent
      /\ pc' \in {"create", "derive", "stopped", "keyed"} /\ (pc' = "keyed" => key' \in venueKeys')
  <2>1. CASE CreateKey
    BY <2>1 DEF CreateKey
  <2>2. CASE DeriveKey
    <3>. USE <2>2 DEF DeriveKey
    <3>. QED
      OBVIOUS
  <2>. QED
    BY <2>1, <2>2
<1>2. sent = Unsent /\ sent.kind = "nothing"
  BY <1>1 DEF SessionInv, Unsent
<1>. QED
  BY <1>1, <1>2 DEF SessionInv, SessionVerifies

\* The identity and the books.
LEMMA OpeningKeeps ==
  ASSUME SessionInv, program = "quickstart", program' = program, WithCredentials \/ FetchBooks
  PROVE  SessionInv'
<1>0. account \in Accounts /\ account' = account /\ sent' = sent /\ venueKeys' = venueKeys /\ key' = key
  BY DEF SessionInv, WithCredentials, FetchBooks
<1>1. sent = Unsent /\ sent.kind = "nothing"
  BY DEF SessionInv, WithCredentials, FetchBooks, Unsent
<1>2. CASE WithCredentials
  <2>1. /\ pc = "keyed" /\ identity' = ResolveIdentity(account.type, account.funder)
        /\ pc' = IF identity' = Refused THEN "stopped" ELSE "ready"
    BY <1>2 DEF WithCredentials
  <2>. QED
    BY <1>0, <1>1, <2>1 DEF SessionInv, SessionVerifies
<1>3. CASE FetchBooks
  <2>1. /\ pc = "ready" /\ identity' = identity
        /\ \/ books' = BookMap(Tokens, Batch, account.sound) /\ pc' = "booked"
           \/ books' = books /\ pc' = pc
    BY <1>3 DEF FetchBooks
  <2>2. account.sound \in SUBSET ToSet(Tokens)
    BY <1>0, AccountIs
  <2>3. BookMap(Tokens, Batch, account.sound) = account.sound
    BY <2>2, SessionAssumption, AllFetched
  <2>. QED
    BY <1>0, <1>1, <2>1, <2>3 DEF SessionInv, SessionVerifies
<1>. QED
  BY <1>2, <1>3

\* The order.
LEMMA PostKeeps ==
  ASSUME SessionInv, program = "quickstart", program' = program, Post
  PROVE  SessionInv'
<1>1. /\ pc = "booked" /\ pc' = "posted" /\ account' = account /\ key' = key /\ identity' = identity
      /\ venueKeys' = venueKeys /\ books' = books
  BY DEF Post
<1>2. /\ account \in Accounts /\ key \in venueKeys /\ books = account.sound
      /\ identity = ResolveIdentity(account.type, account.funder) /\ identity # Refused
  BY <1>1 DEF SessionInv
<1>3. PICK side \in {"buy", "sell"}, depth \in Depths, tick \in Ticks, budget \in Budgets :
       \E price \in {TickEntry(tick).min_price, TickEntry(tick).max_price} :
         LET size  == ComputeOrderSize(depth, MaxOrder, budget, price)
             order == BuildOrder(identity, side, size, price)
         IN  /\ size # NoSize
             /\ sent' = [kind |-> "order", size |-> size, price |-> price, budget |-> budget, depth |-> depth,
                         order |-> order,
                         sig |-> SignOrder(Signer(account.chain, CtfV2(account.neg_risk), identity), order),
                         request |-> Request(key, "POST", "/orders", "", "orders")]
  BY DEF Post
<1>4. PICK price \in {TickEntry(tick).min_price, TickEntry(tick).max_price} :
         LET size  == ComputeOrderSize(depth, MaxOrder, budget, price)
             order == BuildOrder(identity, side, size, price)
         IN  /\ size # NoSize
             /\ sent' = [kind |-> "order", size |-> size, price |-> price, budget |-> budget, depth |-> depth,
                         order |-> order,
                         sig |-> SignOrder(Signer(account.chain, CtfV2(account.neg_risk), identity), order),
                         request |-> Request(key, "POST", "/orders", "", "orders")]
  BY <1>3
<1>. DEFINE size  == ComputeOrderSize(depth, MaxOrder, budget, price)
            order == BuildOrder(identity, side, size, price)
            sig == SignOrder(Signer(account.chain, CtfV2(account.neg_risk), identity), order)
<1>5. /\ size # NoSize /\ sent'.kind = "order" /\ sent'.price = price /\ sent'.budget = budget /\ sent'.depth = depth
      /\ sent'.order = order /\ sent'.sig = sig /\ sent'.request = Request(key, "POST", "/orders", "", "orders")
  <2>. HIDE DEF size, order, sig
  <2>. QED
    BY <1>4 DEF size, order, sig
<1>6. price \in Nat /\ price > 0 /\ depth \in Nat /\ budget \in Nat
  <2>1. tick \in Nat /\ 0 < tick /\ tick < 10000
    BY SessionAssumption DEF Unit
  <2>2. price \in {tick, 10000 - tick}
    BY DEF TickEntry, Unit
  <2>. QED
    BY <2>1, <2>2, SessionAssumption
<1>7. QuotedExactly(sent')
  <2>1. sent'.order = BuildOrder(identity, side, ComputeOrderSize(depth, MaxOrder, budget, price), price)
    BY <1>5
  <2>. HIDE DEF order, sig
  <2>2. ASSUME NEW o, o = sent' PROVE QuotedExactly(o)
    <3>1. /\ o.price = price /\ o.budget = budget /\ o.depth = depth
          /\ o.order = BuildOrder(identity, side, ComputeOrderSize(depth, MaxOrder, budget, price), price)
          /\ ComputeOrderSize(depth, MaxOrder, budget, price) # NoSize
      BY <1>5, <2>1, <2>2
    <3>. QED
      BY <1>6, <3>1, SizedIsExact
  <2>. QED
    BY <2>2
<1>8. VenueAdmits(sent'.request, venueKeys)
  BY <1>2, <1>5, Admitted
<1>9. OwnFunds => ExchangeAccepts(account.chain, account.neg_risk, order, sig)
  <2>. SUFFICES ASSUME OwnFunds PROVE ExchangeAccepts(account.chain, account.neg_risk, order, sig)
    OBVIOUS
  <2>1. account.type \in SignatureType /\ account.chain \in Chains
    BY <1>2, AccountIs
  <2>2. account.funder \in {"none", OwnWallet(account.type, account.chain)}
    BY DEF OwnFunds
  <2>. HIDE DEF size
  <2>. QED
    BY <1>2, <2>1, <2>2, Accepted
<1>. HIDE DEF size, order, sig
<1>10. SessionVerifies'
  <2>1. OwnFunds' = OwnFunds /\ QuotedExactly(sent)' = QuotedExactly(sent')
    BY <1>1 DEF OwnFunds, QuotedExactly
  <2>. QED
    BY <1>1, <1>2, <1>5, <1>7, <1>8, <1>9, <2>1 DEF SessionVerifies
<1>. QED
  BY <1>1, <1>2, <1>10 DEF SessionInv

\* The listing and the cancel.
LEMMA ClosingKeeps ==
  ASSUME SessionInv, program = "quickstart", program' = program, ListOrders \/ Cancel
  PROVE  SessionInv'
<1>1. /\ pc \in AfterPost /\ pc' \in AfterPost /\ account' = account /\ key' = key /\ identity' = identity
      /\ venueKeys' = venueKeys /\ books' = books
  BY DEF ListOrders, Cancel
<1>2. sent'.kind = "request" /\ VenueAdmits(sent'.request, venueKeys)
  <2>1. key \in venueKeys
    BY <1>1 DEF SessionInv
  <2>2. CASE ListOrders
    <3>1. sent' = [kind |-> "request", request |-> Request(key, "GET", "/data/orders", "?next_cursor=", "")]
      BY <2>2 DEF ListOrders
    <3>. QED
      BY <2>1, <3>1, Admitted
  <2>3. CASE Cancel
    <3>1. sent' = [kind |-> "request", request |-> Request(key, "DELETE", "/orders", "", "ids")]
      BY <2>3 DEF Cancel
    <3>. QED
      BY <2>1, <3>1, Admitted
  <2>. QED
    BY <2>2, <2>3
<1>3. account \in Accounts /\ books = account.sound
  BY <1>1 DEF SessionInv
<1>4. SessionVerifies'
  BY <1>1, <1>2, <1>3 DEF SessionVerifies
<1>. QED
  BY <1>1, <1>4 DEF SessionInv

\* For any tokens, batch, depths, grids and caps: every request of a session is one
\* the venue admits, every order from the key's own wallet one its exchange accepts,
\* for amounts that say exactly the price within book and budget; and the books it
\* goes by are all that parse.
THEOREM SessionAlwaysVerifies == Spec => []SessionVerifies
<1>1. SessionInv /\ [Next]_vars => SessionInv'
  <2>. SUFFICES ASSUME SessionInv, [Next]_vars PROVE SessionInv'
    OBVIOUS
  <2>1. CASE program = "quickstart" /\ SessionNext /\ program' = program
    BY <2>1, KeyKeeps, OpeningKeeps, PostKeeps, ClosingKeeps DEF SessionNext
  <2>2. CASE program' = program /\ UNCHANGED sessionVars
    BY <2>2 DEF sessionVars, SessionInv, SessionVerifies, OwnFunds
  <2>. QED
    BY <2>1, <2>2 DEF Next, vars
<1>2. SessionInv => SessionVerifies
  BY DEF SessionInv, SessionVerifies, Unsent
<1>. QED
  BY <1>1, <1>2, SessionStarts, PTL DEF Spec

=============================================================================
