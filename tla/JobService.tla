----------------------------- MODULE JobService -----------------------------
(***************************************************************************)
(* What convert_worker promises the caller that feeds it: exactly one      *)
(* ConvertResult per job sent, in the order sent, duplicates included, so  *)
(* a caller that counts jobs and decrements per result never stalls.       *)
(***************************************************************************)
EXTENDS Naturals, Sequences

CONSTANT Slug

VARIABLES
  sent,     \* slugs of the jobs put in the channel
  answers   \* [slug, how] of the results sent back

jvars == <<sent, answers>>

Outcome == {"ok", "quota", "err"}

Init == sent = <<>> /\ answers = <<>>

Send == \E s \in Slug : sent' = Append(sent, s) /\ UNCHANGED answers

Answer ==
  /\ Len(answers) < Len(sent)
  /\ \E how \in Outcome :
       answers' = Append(answers, [slug |-> sent[Len(answers) + 1], how |-> how])
  /\ UNCHANGED sent

Next == Send \/ Answer
Spec == Init /\ [][Next]_jvars
FairSpec == Spec /\ WF_jvars(Answer)
=============================================================================
