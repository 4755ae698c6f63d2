------------------------------ MODULE Approvals ------------------------------
(***************************************************************************)
(* ensure_approvals (src/approval.rs) for a Safe: deploy it if missing,    *)
(* then walk the target contracts and submit what is not granted yet.  The *)
(* Safe's nonce is read once and counted on locally; each submission is a  *)
(* SafeTx whose hash covers its nonce, which the relayer holds until the   *)
(* chain runs it, at that nonce or never.                                  *)
(***************************************************************************)
EXTENDS Integers, FiniteSets

CONSTANTS
  Targets,             \* how many contracts are approved
  MaxForeign, MaxErrors, MaxRuns   \* bounds: foreign SafeTxs, failed calls, runs

ASSUME ApprovalsAssumption ==
  Targets \in Nat /\ MaxForeign \in Nat /\ MaxErrors \in Nat /\ MaxRuns \in Nat

VARIABLES
  safe,    \* on chain: deployed, nonce, granted
  pool,    \* held by the relayer: deployments and SafeTxs
  run,     \* the call: pc, step, nonce
  clean,   \* history: the run began on an idle Safe and nothing interfered
  spent    \* bounds

avars == <<safe, pool, run, clean, spent>>

\* Each target is checked for its pUSD allowance, then for its CTF approval:
\* grant 2i - 1 and grant 2i.
Grants == 1..(2 * Targets)
Deployment == [grant |-> 0, nonce |-> -1]
SafeTx(grant, nonce) == [grant |-> grant, nonce |-> nonce]

NewSafe == [deployed |-> FALSE, nonce |-> 0, granted |-> {}]
Safes == {NewSafe} \union [deployed: {TRUE}, nonce: 0..1, granted: SUBSET Grants]
AInit(safes) ==
  /\ safe \in safes
  /\ pool = {} /\ clean = TRUE /\ spent = [foreign |-> 0, errors |-> 0, runs |-> 0]
  /\ run = [pc |-> "idle", step |-> 0, nonce |-> 0]

Failing == spent.errors < MaxErrors /\ spent' = [spent EXCEPT !.errors = @ + 1]
RunFails == run' = [run EXCEPT !.pc = "failed"]

\* A run may follow one that failed or returned, whatever is still in the pool.
Begin ==
  /\ run.pc \in {"idle", "failed", "ok"} /\ spent.runs < MaxRuns
  /\ run' = [pc |-> "nonce", step |-> 0, nonce |-> 0]
  /\ clean' = (pool = {}) /\ spent' = [spent EXCEPT !.runs = @ + 1]
  /\ UNCHANGED <<safe, pool>>

\* Any failure of the nonce call is taken for a Safe that is not deployed.
ReadNonce ==
  /\ run.pc = "nonce"
  /\ \/ /\ safe.deployed
        /\ run' = [pc |-> "check", step |-> 1, nonce |-> safe.nonce] /\ UNCHANGED <<clean, spent>>
     \/ ~safe.deployed /\ run' = [run EXCEPT !.pc = "deploy"] /\ UNCHANGED <<clean, spent>>
     \/ /\ safe.deployed /\ Failing
        /\ run' = [run EXCEPT !.pc = "deploy"] /\ clean' = FALSE
  /\ UNCHANGED <<safe, pool>>

\* deploy, and a sleep of ten seconds that may not be enough.
Deploy ==
  /\ run.pc = "deploy"
  /\ \/ /\ pool' = pool \union {Deployment}
        /\ run' = [pc |-> "check", step |-> 1, nonce |-> 0] /\ UNCHANGED spent
     \/ RunFails /\ Failing /\ UNCHANGED pool
     \/ RunFails /\ Failing /\ pool' = pool \union {Deployment}
  /\ UNCHANGED <<safe, clean>>

SubmittedAtNonce == [run EXCEPT !.step = @ + 1,          \* mutant: one nonce per target
                                !.nonce = IF run.step % 2 = 0 THEN @ + 1 ELSE @]
Submitted == [run EXCEPT !.step = @ + 1, !.nonce = @ + 1]
CheckGrant ==
  /\ run.pc = "check" /\ run.step \in Grants
  /\ \/ /\ run.step \in safe.granted
        /\ run' = [run EXCEPT !.step = @ + 1] /\ UNCHANGED <<pool, spent>>
     \/ /\ run.step \notin safe.granted
        /\ pool' = pool \union {SafeTx(run.step, run.nonce)}
        /\ run' = Submitted /\ UNCHANGED spent
     \/ RunFails /\ Failing /\ UNCHANGED pool
     \/ /\ run.step \notin safe.granted /\ Failing          \* accepted, the answer lost
        /\ RunFails /\ pool' = pool \union {SafeTx(run.step, run.nonce)}
  /\ UNCHANGED <<safe, clean>>

Return ==
  /\ run.pc = "check" /\ run.step \notin Grants
  /\ run' = [run EXCEPT !.pc = "ok"]
  /\ UNCHANGED <<safe, pool, clean, spent>>

\* The chain: a SafeTx runs at its nonce; one whose nonce is past reverts.
Runs(tx) ==
  /\ tx \in pool /\ pool' = pool \ {tx}
  /\ IF tx = Deployment THEN safe' = [safe EXCEPT !.deployed = TRUE]
     ELSE IF ~safe.deployed \/ tx.nonce > safe.nonce THEN FALSE
     ELSE IF tx.nonce < safe.nonce THEN UNCHANGED safe
     ELSE safe' = [safe EXCEPT !.nonce = @ + 1, !.granted = @ \union {tx.grant}]
  /\ UNCHANGED <<run, clean, spent>>

\* Another submitter of the same Safe uses a nonce.
Foreign ==
  /\ safe.deployed /\ spent.foreign < MaxForeign
  /\ safe' = [safe EXCEPT !.nonce = @ + 1]
  /\ spent' = [spent EXCEPT !.foreign = @ + 1]
  /\ clean' = (clean /\ run.pc \in {"idle", "failed", "ok"} /\ pool = {})
  /\ UNCHANGED <<pool, run>>

\* Once an Ok has come back and the relayer holds nothing more, everything is
\* granted, though no submission was awaited and each counted on the one before
\* it - if the run found the Safe idle and had its nonces to itself.
ApprovalsGranted == run.pc = "ok" /\ pool = {} /\ clean => safe.granted = Grants

ANext == Begin \/ ReadNonce \/ Deploy \/ CheckGrant \/ Return \/ Foreign \/ \E tx \in pool : Runs(tx)
=============================================================================
