------------------------------- MODULE Programs -------------------------------
(***************************************************************************)
(* What a wallet's owner runs besides a bot: a trading session, the        *)
(* approvals bootstrap, the sweep (examples/).  Each is a program of its   *)
(* own; `program` is the one that is run.                                  *)
(***************************************************************************)
EXTENDS Session, Approvals, Sweep

CONSTANT Program

VARIABLE program
vars == <<program, sessionVars, avars, svars>>

\* The programs not run stay at some initial state.
Of(p, states) == IF program = p THEN states ELSE {CHOOSE s \in states : TRUE}

Init ==
  /\ program \in Program
  /\ SessionInit(Of("quickstart", Accounts))
  /\ AInit(Of("approvals", Safes))
  /\ SInit(Of("sweep", SweepWallets), Of("sweep", Options))

Next ==
  /\ UNCHANGED program
  /\ \/ program = "quickstart" /\ SessionNext /\ UNCHANGED <<avars, svars>>
     \/ program = "approvals" /\ ANext /\ UNCHANGED <<sessionVars, svars>>
     \/ program = "sweep" /\ SNext /\ UNCHANGED <<sessionVars, avars>>

Spec == Init /\ [][Next]_vars
=============================================================================
