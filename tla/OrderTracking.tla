---------------------------- MODULE OrderTracking ----------------------------
(***************************************************************************)
(* What the order write path promises of every order: where the venue has  *)
(* it, and what its owner knows.  An order is never forgotten while it     *)
(* rests: it leaves tracking only when it is gone, and it rests unknown    *)
(* only after a placement the owner was told had failed.                   *)
(***************************************************************************)
CONSTANT Orders

VARIABLES
  venue,    \* "none": not there yet; "live": resting; "gone": filled, cancelled or refused
  known,    \* "new", "posting", "tracked", "lost" (its placement failed) or "closed"
  misread   \* orders of which a failed singular cancel spoke as of ended ones

Init ==
  /\ venue = [o \in Orders |-> "none"] /\ known = [o \in Orders |-> "new"] /\ misread = {}

\* Where an order may go at the venue.  Its request arrives however late, also
\* when the owner has given up on it.
Arrives(o) == venue[o] = "none" /\ known[o] \in {"posting", "lost"}
Moves(o, to) ==
  \/ to = venue[o]
  \/ to \in {"live", "gone"} /\ Arrives(o)
  \/ to = "gone" /\ venue[o] = "live"

\* What the owner may learn of it.
Learns(o, what) ==
  \/ what = known[o]
  \/ known[o] = "new"     /\ what = "posting"
  \/ known[o] = "posting" /\ what = "tracked" /\ venue[o] # "none"
  \/ known[o] = "posting" /\ what = "closed"  /\ venue[o] = "gone"
  \/ known[o] = "posting" /\ what = "lost"
  \/ known[o] = "lost"    /\ what = "tracked" /\ venue[o] # "none"
  \/ known[o] = "tracked" /\ what = "closed"  /\ (venue[o] = "gone" \/ o \in misread)

Next == \A o \in Orders :
  Moves(o, venue'[o]) /\ Learns(o, known'[o]) /\ (o \in misread => o \in misread')

Spec == Init /\ [][Next]_<<venue, known, misread>>
=============================================================================
