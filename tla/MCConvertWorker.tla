-------------------------- MODULE MCConvertWorker --------------------------
(* Four jobs on two events through a channel of two, short delays.         *)
EXTENDS ConvertWorker

CONSTANTS ev1, ev2
MCSlug == {ev1, ev2}
=============================================================================
