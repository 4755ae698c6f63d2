------------------------ MODULE ConvertEngineProofs ------------------------
(***************************************************************************)
(* For every wallet, job list, retry bound and number of rounds of         *)
(* ConvertEngine: state and counters are typed, the relayer accepts every  *)
(* chunk of a round at most once and in order, an Ok means all of them     *)
(* were accepted, and quota exhaustion ends a cycle.                       *)
(*                                                                         *)
(* With settle waits that outlast what is in flight, nothing given up and  *)
(* no NO sold: the calls still to land always lead to where the plan ends. *)
(* So no chunk reverts, the proceeds reported arrive, an Ok is a fixpoint  *)
(* and its cash is wrapped, though responses are lost, rounds rebuilt, NO  *)
(* and YES bought and wraps of an earlier cycle land in between.           *)
(***************************************************************************)
EXTENDS ConvertEngine, PlanProofs

USE EngineAssumption DEF Where

\* The control state is typed; in particular no round passes Rebuilds and no
\* retry passes BusyMax.
THEOREM ControlTypeCorrect == Spec => []ControlTypeOK
<1>1. Init => ControlTypeOK
  BY DEF Init, ControlTypeOK
<1>2. ControlTypeOK /\ [Next]_vars => ControlTypeOK'
  <2> SUFFICES ASSUME ControlTypeOK, [Next]_vars PROVE ControlTypeOK'
    OBVIOUS
  <2> USE DEF ControlTypeOK
  <2>1. CASE Planning
    <3>1. CASE ReadBalances
      BY <3>1 DEF ReadBalances, chain
    <3>2. CASE ReadCash
      BY <3>2 DEF ReadCash, chain, history
    <3>3. CASE PlanFails
      BY <3>3 DEF PlanFails, FailRound, chain, history
    <3>4. CASE PlannedCalls \/ PlannedLeftover \/ PlannedNothing
      BY <3>4 DEF PlannedCalls, PlannedLeftover, PlannedNothing, chain, history
    <3> QED
      BY <2>1, <3>1, <3>2, <3>3, <3>4 DEF Planning
  <2>2. CASE Submitting
    <3>1. CASE ChunkAccepted
      BY <3>1 DEF ChunkAccepted, SubmitChunk
    <3>2. CASE ChunkLost
      BY <3>2 DEF ChunkLost, SubmitChunk, FailRound
    <3>3. CASE ChunkBusy
      BY <3>3 DEF ChunkBusy, chain, history
    <3>4. CASE ChunkStillBusy
      BY <3>4 DEF ChunkStillBusy, FailRound, chain, history
    <3>8. CASE ChunkRejected
      BY <3>8 DEF ChunkRejected, FailRound, chain, history
    <3>5. CASE ChunkWaited \/ RebuildWaited
      BY <3>5 DEF ChunkWaited, RebuildWaited, chain, history
    <3>6. CASE ChunkQuota
      BY <3>6 DEF ChunkQuota, chain
    <3>7. CASE ChunkSettled
      BY <3>7 DEF ChunkSettled, NextChunk, LastChunk, chain, history
    <3> QED
      BY <2>2, <3>1, <3>2, <3>3, <3>4, <3>5, <3>6, <3>7, <3>8 DEF Submitting
  <2>3. CASE Wrapping
    <3>1. CASE WrapNothing \/ WrapReadFails
      BY <3>1 DEF WrapNothing, WrapReadFails, EndWrap, chain
    <3>2. CASE WrapRead \/ WrapWaited
      BY <3>2 DEF WrapRead, WrapWaited, chain, history
    <3>5. CASE WrapBusy
      BY <3>5 DEF WrapBusy, chain, history
    <3>3. CASE WrapAccepted \/ WrapLost
      BY <3>3 DEF WrapAccepted, WrapLost, EndWrap
    <3>4. CASE WrapRejected
      BY <3>4 DEF WrapRejected, EndWrap, chain
    <3> QED
      BY <2>3, <3>1, <3>2, <3>3, <3>4, <3>5 DEF Wrapping
  <2>4. CASE ConvertSettled
    BY <2>4 DEF ConvertSettled, chain, history
  <2>5. CASE Operation
    <3>1. CASE StartCycle
      BY <3>1 DEF StartCycle, chain
    <3>2. CASE ProcessMerge
      BY <3>2 DEF ProcessMerge, history
    <3>3. CASE ProcessConvert
      BY <3>3 DEF ProcessConvert, history
    <3>4. CASE DirectRejected
      BY <3>4 DEF DirectRejected, chain, history
    <3>5. CASE DirectLost
      BY <3>5 DEF DirectLost, history
    <3> QED
      BY <2>5, <3>1, <3>2, <3>3, <3>4, <3>5 DEF Operation
  <2>6. CASE Land \/ Drop
    <3>1. CASE Land
      BY <3>1 DEF Land, engine, history
    <3>2. CASE Drop
      BY <3>2 DEF Drop, engine, history
    <3> QED
      BY <2>6, <3>1, <3>2
  <2>7. CASE Trade
    BY <2>7 DEF Trade, engine
  <2>8. CASE UNCHANGED vars
    BY <2>8 DEF vars, chain, engine, history
  <2> QED
    BY <2>1, <2>2, <2>3, <2>4, <2>5, <2>6, <2>7, <2>8 DEF Next, EngineStep
<1> QED
  BY <1>1, <1>2, PTL DEF Spec

---------------------------------------------------------------------------
(* Serial submission.  Where the engine stands fixes how many chunks of    *)
(* the round were accepted: those before k, and k itself while it settles. *)
(* A lost response leaves k accepted and the round; only a fresh read of   *)
(* the balances starts counting again.                                     *)

WrapWhere == {"wrapread", "wrapsubmit", "wrapwait"}

Counted(j) ==
  /\ pc \in {"submit", "busywait"} => j = k - 1
  /\ pc = "settle" => j = k
  /\ pc = "plan" /\ "balances" \in read => j = 0 /\ k = 1
  /\ pc \in WrapWhere /\ ctx # "salvage" => j = Len(chunks)
  /\ pc = "idle" /\ result = "ok" => j = Len(chunks)
SerialInv ==
  \E j \in Nat : journal = [i \in 1..j |-> i] /\ Counted(j)

\* Accepting chunk j + 1 after the first j extends the journal by one.
LEMMA JournalGrows ==
  ASSUME NEW j \in Nat, journal = [i \in 1..j |-> i],
         journal' = Append(journal, j + 1)
  PROVE  journal' = [i \in 1..(j + 1) |-> i]
<1>1. journal \in Seq(Nat) /\ Len(journal) = j
  OBVIOUS
<1> QED
  BY <1>1

\* SerialInv is inductive.
LEMMA SerialIsInvariant == Spec => []SerialInv
<1>1. Init => SerialInv
  <2> SUFFICES ASSUME Init PROVE journal = [i \in 1..0 |-> i] /\ Counted(0)
    BY DEF SerialInv
  <2> QED
    BY DEF Init, Counted, WrapWhere
<1>2. ControlTypeOK /\ SerialInv /\ [Next]_vars => SerialInv'
  <2> SUFFICES ASSUME ControlTypeOK, SerialInv, [Next]_vars PROVE SerialInv'
    OBVIOUS
  <2>0. PICK j \in Nat : journal = [i \in 1..j |-> i] /\ Counted(j)
    BY DEF SerialInv
  <2>k. k \in Nat \ {0}
    BY DEF ControlTypeOK
  \* A step that leaves the journal alone keeps its count.
  <2>s. journal' = journal /\ Counted(j)' => SerialInv'
    BY <2>0 DEF SerialInv
  <2> USE DEF Counted, WrapWhere
  <2>1. CASE ReadBalances
    <3>1. journal' = [i \in 1..0 |-> i] /\ k' = 1 /\ pc' = "plan"
      BY <2>1 DEF ReadBalances
    <3>2. Counted(0)'
      BY <3>1
    <3> QED
      BY <3>1, <3>2 DEF SerialInv
  <2>2. CASE ReadCash
    BY <2>0, <2>2, <2>s DEF ReadCash, history
  <2>3. CASE PlannedCalls
    BY <2>0, <2>3, <2>s DEF PlannedCalls, PlanRead, history
  <2>4. CASE PlannedLeftover \/ PlannedNothing
    BY <2>0, <2>4, <2>s DEF PlannedLeftover, PlannedNothing, PlanRead, history
  <2>5. CASE PlanFails \/ ChunkStillBusy \/ ChunkRejected
    BY <2>0, <2>5, <2>s DEF PlanFails, ChunkStillBusy, ChunkRejected, FailRound, history
  <2>6. CASE ChunkAccepted \/ ChunkLost
    <3>1. pc = "submit" /\ j = k - 1 /\ journal' = Append(journal, k) /\ k' = k
      BY <2>0, <2>6 DEF ChunkAccepted, ChunkLost, SubmitChunk
    <3>2. journal' = [i \in 1..(j + 1) |-> i]
      BY <2>0, <2>k, <3>1, JournalGrows
    <3>3. Counted(j + 1)'
      BY <2>6, <2>k, <3>1 DEF ChunkAccepted, ChunkLost, FailRound
    <3> QED
      BY <3>2, <3>3 DEF SerialInv
  <2>7. CASE ChunkBusy \/ ChunkWaited
    BY <2>0, <2>7, <2>s DEF ChunkBusy, ChunkWaited, history
  <2>8. CASE RebuildWaited
    BY <2>0, <2>8, <2>s DEF RebuildWaited, history
  <2>9. CASE ChunkQuota
    BY <2>0, <2>9, <2>s DEF ChunkQuota
  <2>10. CASE ChunkSettled
    BY <2>0, <2>k, <2>10, <2>s DEF ChunkSettled, NextChunk, LastChunk, history
  <2>11. CASE WrapNothing \/ WrapReadFails \/ WrapRejected
    BY <2>0, <2>11, <2>s DEF WrapNothing, WrapReadFails, WrapRejected, EndWrap
  <2>12. CASE WrapAccepted \/ WrapLost
    BY <2>0, <2>12, <2>s DEF WrapAccepted, WrapLost, EndWrap
  <2>13. CASE WrapRead \/ WrapBusy \/ WrapWaited
    BY <2>0, <2>13, <2>s DEF WrapRead, WrapBusy, WrapWaited, history
  <2>14. CASE ConvertSettled
    BY <2>0, <2>14, <2>s DEF ConvertSettled, history
  <2>15. CASE Operation
    BY <2>0, <2>15, <2>s
       DEF Operation, StartCycle, ProcessMerge, ProcessConvert, DirectLost, DirectRejected,
           history
  <2>16. CASE Land \/ Drop \/ Trade
    BY <2>0, <2>16, <2>s DEF Land, Drop, Trade, engine, history
  <2>17. CASE UNCHANGED vars
    BY <2>0, <2>17, <2>s DEF vars, engine, history
  <2> QED
    BY <2>1, <2>2, <2>3, <2>4, <2>5, <2>6, <2>7, <2>8, <2>9, <2>10, <2>11, <2>12, <2>13,
       <2>14, <2>15, <2>16, <2>17 DEF Next, EngineStep, Planning, Submitting, Wrapping
<1> QED
  BY <1>1, <1>2, ControlTypeCorrect, PTL DEF Spec

\* Every chunk of a round is accepted at most once and in plan order, however
\* submissions are retried, refused or lost; an Ok had them all accepted.
THEOREM ChunksAcceptedOnceInOrder == Spec => []EachChunkOnceInOrder
<1>1. SerialInv => EachChunkOnceInOrder
  <2> SUFFICES ASSUME SerialInv PROVE EachChunkOnceInOrder
    OBVIOUS
  <2>1. PICK j \in Nat : journal = [i \in 1..j |-> i] /\ Counted(j)
    BY DEF SerialInv
  <2>2. Len(journal) = j
    BY <2>1
  <2> QED
    BY <2>1, <2>2 DEF EachChunkOnceInOrder, Counted, Returned
<1> QED
  BY <1>1, SerialIsInvariant, PTL

---------------------------------------------------------------------------
\* Once the relayer has answered "quota" the cycle is over: no chunk, retry,
\* rebuild or wrap follows it.
THEOREM QuotaIsFinal == Spec => []QuotaEndsCycle
<1>1. Init => QuotaEndsCycle
  BY DEF Init, QuotaEndsCycle
<1>2. ControlTypeOK /\ QuotaEndsCycle /\ [Next]_vars => QuotaEndsCycle'
  <2> SUFFICES ASSUME ControlTypeOK, QuotaEndsCycle, [Next]_vars PROVE QuotaEndsCycle'
    OBVIOUS
  <2> USE DEF QuotaEndsCycle
  <2>1. CASE Planning
    BY <2>1 DEF Planning, ReadBalances, ReadCash, PlanFails, PlanRead, PlannedCalls,
                PlannedLeftover, PlannedNothing, history
  <2>2. CASE Submitting
    BY <2>2 DEF Submitting, ChunkAccepted, ChunkLost, SubmitChunk, ChunkBusy, ChunkStillBusy,
                ChunkWaited, ChunkRejected, ChunkQuota, ChunkSettled, RebuildWaited, history
  <2>3. CASE Wrapping
    BY <2>3 DEF Wrapping, WrapNothing, WrapReadFails, WrapRead, WrapAccepted, WrapLost,
                WrapBusy, WrapWaited, WrapRejected, EndWrap, history
  <2>4. CASE ConvertSettled \/ Operation
    BY <2>4 DEF ConvertSettled, Operation, StartCycle, ProcessMerge, ProcessConvert,
                DirectLost, DirectRejected, history
  <2>5. CASE Land \/ Drop \/ Trade
    BY <2>5 DEF Land, Drop, Trade, engine, history
  <2>6. CASE UNCHANGED vars
    BY <2>6 DEF vars, engine, history
  <2> QED
    BY <2>1, <2>2, <2>3, <2>4, <2>5, <2>6 DEF Next, EngineStep
<1> QED
  BY <1>1, <1>2, ControlTypeCorrect, PTL DEF Spec

---------------------------------------------------------------------------
(* The data is typed: whatever lands, balances stay numbers.               *)

\* The relayer calls of a wrap batch.
LEMMA WrapTyped ==
  ASSUME NEW a \in Nat, NEW b
  PROVE  WrapCalls(a, b) \in Seq(RelayerCall)
<1>1. Wrap(a) \in RelayerCall /\ Approve \in RelayerCall
  BY FS_EmptySet, UnlimitedAssumption DEF Wrap, Approve, RelayerCall, Call
<1>. QED
  BY <1>1 DEF WrapCalls

\* Those of process_merge and process_convert.
LEMMA DirectTyped ==
  ASSUME NEW l \in Leg
  PROVE  <<Merge(l, 1)>> \in Seq(RelayerCall) /\ <<Convert({l}, 1)>> \in Seq(RelayerCall)
<1>1. Merge(l, 1) \in RelayerCall /\ Convert({l}, 1) \in RelayerCall
  BY FS_Singleton DEF Merge, Convert, RelayerCall, Call
<1>. QED
  BY <1>1

\* A submission's calls are a plan's.
LEMMA ChunkTyped ==
  ASSUME NEW cs \in Chunks, NEW i \in DOMAIN cs
  PROVE  /\ cs[i] \in Seq(PlannedCall) /\ CallsOf(cs[i]) \in Seq(ProperCall)
         /\ CallsOf(cs[i]) \in Seq(RelayerCall)
<1>1. cs[i] \in Seq(PlannedCall)
  BY DEF Chunks
<1>2. CallsOf(cs[i]) \in Seq(ProperCall)
  BY <1>1, CallsOfBoth
<1>. QED
  BY <1>1, <1>2 DEF ProperCall

\* What a read of the balances makes of them.
LEMMA PlanTyped ==
  ASSUME NEW w \in Wallet
  PROVE  /\ GasChunks(PlanCalls(w, Jobs)) \in Chunks /\ Packed(GasChunks(PlanCalls(w, Jobs)))
         /\ FlattenSeq(GasChunks(PlanCalls(w, Jobs))) = PlanCalls(w, Jobs)
         /\ Cash(w) \in Nat /\ Proceeds(w, Jobs) \in Nat
<1>1. PlanCalls(w, Jobs) \in Seq(PlannedCall) /\ Proceeds(w, Jobs) \in Nat
  BY PlanRuns, HandedOverAssumption
<1>2. Cash(w) \in Nat
  BY DEF Wallet, Cash
<1>. QED
  BY <1>1, <1>2, ChunksHoldThePlan

Bought(w, v) == \E l \in Leg : \/ v = [w EXCEPT !.no[l] = @ + 1]
                              \/ v = [w EXCEPT !.yes[l] = @ + 1]
Sold(w, v)   == \E l \in Leg : w.no[l] > 0 /\ v = [w EXCEPT !.no[l] = @ - 1]

\* A fill changes tokens only, and sells no more than is held.
LEMMA TradeTyped ==
  ASSUME NEW w \in Wallet, NEW v, Bought(w, v) \/ Sold(w, v)
  PROVE  v \in Wallet /\ v.usdce = w.usdce /\ v.pusd = w.pusd /\ v.allowance = w.allowance
BY DEF Bought, Sold, Wallet

DataOK ==
  /\ wallet \in Wallet /\ cash \in Nat /\ owed \in Nat /\ {reverted, dirty, quota} \subseteq BOOLEAN
  /\ inflight.kind \in {"none", "chunk", "wrap", "direct"} /\ inflight.calls \in Seq(RelayerCall)
  /\ inflight.kind = "none" <=> inflight = NoAction
  /\ chunks \in Chunks /\ wrapping \in Seq(RelayerCall)
  /\ pc = "plan" /\ "balances" \in read => k = 1
  /\ pc \in {"submit", "settle", "busywait"} => k \in DOMAIN chunks

\* A step that leaves the data alone keeps it typed if k stays in range.
LEMMA DataStays ==
  ASSUME DataOK, wallet' = wallet, cash' = cash, owed' = owed, reverted' = reverted, dirty' = dirty,
         quota' \in {quota, TRUE}, inflight' = inflight, chunks' = chunks, wrapping' = wrapping,
         pc' = "plan" /\ "balances" \in read' => k' = 1,
         pc' \in {"submit", "settle", "busywait"} => k' \in DOMAIN chunks
  PROVE  DataOK'
BY DEF DataOK

\* The relayer takes an action of typed calls.
LEMMA AcceptTyped ==
  ASSUME DataOK, NEW kind \in {"chunk", "wrap", "direct"}, NEW calls \in Seq(RelayerCall),
         Accept(kind, calls),
         wallet' = wallet, cash' = cash, owed' = owed, reverted' = reverted, dirty' = dirty,
         quota' = quota, chunks' = chunks, wrapping' = wrapping,
         pc' = "plan" /\ "balances" \in read' => k' = 1,
         pc' \in {"submit", "settle", "busywait"} => k' \in DOMAIN chunks
  PROVE  DataOK'
<1>1. inflight' = [kind |-> kind, calls |-> calls] /\ inflight' # NoAction
  BY DEF Accept, Action, NoAction
<1>. QED
  BY <1>1 DEF DataOK

\* Every operation keeps the data typed.
LEMMA DataIsTyped == Spec => []DataOK
<1>1. Init => DataOK
  <2>1. <<>> \in Chunks /\ <<>> \in Seq(RelayerCall)
    BY DEF Chunks
  <2>2. NoAction.kind = "none" /\ NoAction.calls \in Seq(RelayerCall)
    BY <2>1 DEF NoAction
  <2>. SUFFICES ASSUME Init PROVE DataOK
    OBVIOUS
  <2>3. wallet \in Wallet /\ cash = 0 /\ owed = 0 /\ reverted = FALSE /\ dirty = FALSE /\ quota = FALSE
    BY HandedOverAssumption DEF Init
  <2>4. inflight = NoAction /\ chunks = <<>> /\ wrapping = <<>> /\ pc = "idle"
    BY DEF Init
  <2>. QED
    BY <2>1, <2>2, <2>3, <2>4 DEF DataOK
<1>2. ControlTypeOK /\ DataOK /\ [Next]_vars => DataOK'
  <2>. SUFFICES ASSUME ControlTypeOK, DataOK, [Next]_vars PROVE DataOK'
    OBVIOUS
  <2>0. /\ pc = "plan" /\ "balances" \in read => k = 1
        /\ pc \in {"submit", "settle", "busywait"} => k \in DOMAIN chunks
        /\ DOMAIN chunks = 1..Len(chunks) /\ Len(chunks) \in Nat /\ (chunks # <<>> => 1 \in 1..Len(chunks))
        /\ k \in Nat \ {0}
    BY DEF DataOK, Chunks, ControlTypeOK
  <2>1. CASE ReadBalances
    <3>1. wallet \in Wallet
      BY DEF DataOK
    <3>2. GasChunks(PlanCalls(wallet, Jobs)) \in Chunks /\ Cash(wallet) + Proceeds(wallet, Jobs) \in Nat
      BY <3>1, PlanTyped
    <3>. QED
      BY <2>1, <3>2 DEF ReadBalances, DataOK, chain
  <2>2. CASE ReadCash
    <3>1. wallet.usdce \in Nat
      BY DEF DataOK, Wallet
    <3>. QED
      BY <2>2, <3>1 DEF ReadCash, DataOK, chain, history
  <2>3. CASE PlannedCalls
    BY <2>0, <2>3, DataStays DEF PlannedCalls, PlanRead, chain, history
  <2>4. CASE PlannedLeftover \/ PlannedNothing
    BY <2>0, <2>4, DataStays DEF PlannedLeftover, PlannedNothing, PlanRead, chain, history
  <2>5. CASE PlanFails \/ ChunkStillBusy \/ ChunkRejected
    BY <2>0, <2>5, DataStays DEF PlanFails, ChunkStillBusy, ChunkRejected, FailRound, chain, history
  <2>6. CASE ChunkAccepted \/ ChunkLost
    <3>1. pc = "submit" /\ Accept("chunk", CallsOf(chunks[k])) /\ chunks' = chunks /\ k' = k
      BY <2>6 DEF ChunkAccepted, ChunkLost, SubmitChunk
    <3>2. CallsOf(chunks[k]) \in Seq(RelayerCall)
      <4>1. chunks \in Chunks
        BY DEF DataOK
      <4>. QED
        BY <2>0, <3>1, <4>1, ChunkTyped
    <3>. QED
      BY <2>0, <2>6, <3>1, <3>2, AcceptTyped DEF ChunkAccepted, ChunkLost, FailRound
  <2>7. CASE ChunkBusy \/ ChunkWaited
    BY <2>0, <2>7, DataStays DEF ChunkBusy, ChunkWaited, chain, history
  <2>8. CASE RebuildWaited
    BY <2>0, <2>8, DataStays DEF RebuildWaited, chain, history
  <2>9. CASE ChunkQuota
    BY <2>0, <2>9, DataStays DEF ChunkQuota, chain
  <2>10. CASE ChunkSettled
    <3>1. DOMAIN chunks = 1..Len(chunks) /\ Len(chunks) \in Nat /\ k \in Nat \ {0}
      BY DEF DataOK, Chunks, ControlTypeOK
    <3>4. NextChunk => k + 1 \in 1..Len(chunks) /\ k' = k + 1
      BY <3>1 DEF NextChunk
    <3>5. LastChunk => pc' = "wrapread"
      BY DEF LastChunk
    <3>6. chunks' = chunks /\ (NextChunk \/ LastChunk)
      BY <2>10 DEF ChunkSettled
    <3>2. pc' \in {"submit", "settle", "busywait"} => k' \in DOMAIN chunks'
      BY <3>1, <3>4, <3>5, <3>6
    <3>3. pc' # "plan"
      BY <2>10 DEF ChunkSettled, NextChunk, LastChunk
    <3>. QED
      BY <2>10, <3>2, <3>3, DataStays DEF ChunkSettled, chain, history
  <2>11. CASE WrapNothing \/ WrapReadFails \/ WrapRejected
    BY <2>0, <2>11, DataStays DEF WrapNothing, WrapReadFails, WrapRejected, EndWrap, chain
  <2>12. CASE WrapAccepted \/ WrapLost
    <3>1. wrapping \in Seq(RelayerCall)
      BY DEF DataOK
    <3>. QED
      BY <2>0, <2>12, <3>1, AcceptTyped DEF WrapAccepted, WrapLost, EndWrap
  <2>13. CASE WrapBusy \/ WrapWaited
    BY <2>0, <2>13, DataStays DEF WrapBusy, WrapWaited, chain, history
  <2>14. CASE WrapRead
    <3>1. wallet.usdce \in Nat
      BY DEF DataOK, Wallet
    <3>2. wrapping' \in Seq(RelayerCall)
      BY <2>14, <3>1, WrapTyped DEF WrapRead
    <3>. QED
      BY <2>14, <3>2 DEF WrapRead, DataOK, chain, history
  <2>15. CASE ConvertSettled
    BY <2>0, <2>15, DataStays DEF ConvertSettled, chain, history
  <2>16. CASE StartCycle \/ DirectRejected
    <3>. QED
      BY <2>16 DEF StartCycle, DirectRejected, DataOK, chain, history
  <2>17. CASE ProcessMerge
    <3>1. PICK l \in Leg : Accept("direct", <<Merge(l, 1)>>)
      BY <2>17 DEF ProcessMerge
    <3>. QED
      BY <2>0, <2>17, <3>1, DirectTyped, AcceptTyped DEF ProcessMerge, history
  <2>18. CASE ProcessConvert
    <3>1. PICK l \in Leg : Accept("direct", <<Convert({l}, 1)>>)
      BY <2>18 DEF ProcessConvert
    <3>. QED
      BY <2>0, <2>18, <3>1, DirectTyped, AcceptTyped DEF ProcessConvert, history
  <2>19. CASE DirectLost
    <3>0. PICK l \in Leg : \E c \in {Merge(l, 1), Convert({l}, 1)} : Accept("direct", <<c>>)
      BY <2>19 DEF DirectLost
    <3>1. PICK c \in {Merge(l, 1), Convert({l}, 1)} : Accept("direct", <<c>>)
      BY <3>0
    <3>. QED
      BY <2>0, <2>19, <3>1, DirectTyped, AcceptTyped DEF DirectLost, history
  <2>20. CASE Land
    <3>1. wallet \in Wallet /\ inflight.calls \in Seq(RelayerCall) /\ <<>> \in Seq(RelayerCall)
      BY DEF DataOK
    <3>2. RunBatch(wallet, inflight.calls) \in [ok : BOOLEAN, w : Wallet]
      BY <3>1, BatchSteps
    <3>. QED
      BY <2>20, <3>1, <3>2 DEF Land, DataOK, NoAction, engine, history
  <2>21. CASE Drop
    <3>1. <<>> \in Seq(RelayerCall)
      OBVIOUS
    <3>. QED
      BY <2>21, <3>1 DEF Drop, DataOK, NoAction, engine, history
  <2>22. CASE Trade
    <3>1. wallet' \in Wallet
      <4>1. wallet \in Wallet /\ (Bought(wallet, wallet') \/ Sold(wallet, wallet'))
        BY <2>22 DEF Trade, DataOK, Bought, Sold
      <4>. QED
        BY <4>1, TradeTyped
    <3>. QED
      BY <2>22, <3>1 DEF Trade, DataOK, engine
  <2>23. CASE UNCHANGED vars
    BY <2>0, <2>23, DataStays DEF vars, chain, engine, history
  <2>. QED
    BY <2>1, <2>2, <2>3, <2>4, <2>5, <2>6, <2>7, <2>8, <2>9, <2>10, <2>11, <2>12, <2>13, <2>14, <2>15,
       <2>16, <2>17, <2>18, <2>19, <2>20, <2>21, <2>22, <2>23
       DEF Next, EngineStep, Operation, Planning, Submitting, Wrapping
<1>. QED
  BY <1>1, <1>2, ControlTypeCorrect, PTL DEF Spec

\* Control and data are typed: no balance goes below zero whatever lands, and
\* the chunk under submission is one of the plan's.
THEOREM EngineTypeCorrect == Spec => []TypeOK
<1>1. ControlTypeOK /\ DataOK => TypeOK
  BY DEF DataOK, TypeOK
<1>. QED
  BY <1>1, ControlTypeCorrect, DataIsTyped, PTL

---------------------------------------------------------------------------
(* Fills only help: what runs on a wallet runs on one that holds more.     *)

Bonus == [no : [Leg -> Nat], yes : [Leg -> Nat]]

\* w holds b more than x, and as much cash.
Over(x, w, b) ==
  /\ \A l \in Leg : w.no[l] = x.no[l] + b.no[l] /\ w.yes[l] = x.yes[l] + b.yes[l]
  /\ Cash(w) = Cash(x)

\* A call of a plan does to the larger wallet what it does to the smaller.
LEMMA OverCall ==
  ASSUME NEW x \in Wallet, NEW w \in Wallet, NEW b \in Bonus, NEW c \in ProperCall,
         Over(x, w, b), CallValid(x, c)
  PROVE  CallValid(w, c) /\ Over(ApplyCall(x, c), ApplyCall(w, c), b)
<1>1. /\ x.no \in [Leg -> Nat] /\ x.yes \in [Leg -> Nat] /\ x.usdce \in Nat /\ x.pusd \in Nat
      /\ w.no \in [Leg -> Nat] /\ w.yes \in [Leg -> Nat] /\ w.usdce \in Nat /\ w.pusd \in Nat
      /\ b.no \in [Leg -> Nat] /\ b.yes \in [Leg -> Nat]
  BY DEF Wallet, Bonus
<1>2. c.amount \in Nat /\ c.legs \subseteq Leg /\ IsFiniteSet(c.legs) /\ (c.op = "merge" \/ c.op = "convert")
  BY DEF ProperCall, RelayerCall, Call
<1>3. w.usdce + w.pusd = x.usdce + x.pusd
  BY DEF Over, Cash
<1>4. \A l \in Leg : w.no[l] >= x.no[l] /\ w.yes[l] >= x.yes[l]
  BY <1>1 DEF Over
<1>5. CallValid(w, c)
  <2>1. \A l \in c.legs : l \in Leg /\ x.no[l] >= c.amount
    BY <1>2 DEF CallValid
  <2>2. \A l \in c.legs : w.no[l] >= c.amount
    BY <1>1, <1>2, <1>4, <2>1
  <2>3. c.op = "merge" => \A l \in c.legs : w.yes[l] >= c.amount
    <3>1. c.op = "merge" => \A l \in c.legs : x.yes[l] >= c.amount
      BY DEF CallValid
    <3>. QED
      BY <1>1, <1>2, <1>4, <3>1
  <2>. QED
    BY <1>2, <2>2, <2>3 DEF CallValid
<1>. DEFINE X == ApplyCall(x, c)
            W == ApplyCall(w, c)
<1>6. CASE c.op = "merge"
  <2>1. \A l \in Leg : /\ X.no[l] = (IF l \in c.legs THEN x.no[l] - c.amount ELSE x.no[l])
                       /\ X.yes[l] = (IF l \in c.legs THEN x.yes[l] - c.amount ELSE x.yes[l])
                       /\ W.no[l] = (IF l \in c.legs THEN w.no[l] - c.amount ELSE w.no[l])
                       /\ W.yes[l] = (IF l \in c.legs THEN w.yes[l] - c.amount ELSE w.yes[l])
    BY <1>1, <1>6 DEF ApplyCall, Wallet
  <2>2. /\ X.usdce = x.usdce + c.amount /\ X.pusd = x.pusd
        /\ W.usdce = w.usdce + c.amount /\ W.pusd = w.pusd
    BY <1>6 DEF ApplyCall, Wallet
  <2>. HIDE DEF X, W
  <2>3. Cash(W) = Cash(X)
    BY <1>1, <1>2, <1>3, <2>2 DEF Cash
  <2>4. ASSUME NEW l \in Leg PROVE W.no[l] = X.no[l] + b.no[l] /\ W.yes[l] = X.yes[l] + b.yes[l]
    <3>1. /\ x.no[l] \in Nat /\ x.yes[l] \in Nat /\ b.no[l] \in Nat /\ b.yes[l] \in Nat
          /\ w.no[l] = x.no[l] + b.no[l] /\ w.yes[l] = x.yes[l] + b.yes[l]
      BY <1>1 DEF Over
    <3>. QED
      BY <1>2, <2>1, <3>1
  <2>. QED
    BY <1>5, <2>3, <2>4 DEF Over, X, W
<1>7. CASE c.op = "convert"
  <2>. DEFINE d == (Cardinality(c.legs) - 1) * c.amount
  <2>1. \A l \in Leg : /\ X.no[l] = (IF l \in c.legs THEN x.no[l] - c.amount ELSE x.no[l])
                       /\ X.yes[l] = (IF l \in Complement(c.legs) THEN x.yes[l] + c.amount ELSE x.yes[l])
                       /\ W.no[l] = (IF l \in c.legs THEN w.no[l] - c.amount ELSE w.no[l])
                       /\ W.yes[l] = (IF l \in Complement(c.legs) THEN w.yes[l] + c.amount ELSE w.yes[l])
    BY <1>1, <1>7 DEF ApplyCall, Wallet
  <2>2. /\ X.usdce = x.usdce + d /\ X.pusd = x.pusd
        /\ W.usdce = w.usdce + d /\ W.pusd = w.pusd
    BY <1>7 DEF ApplyCall, Wallet
  <2>3. d \in Nat
    <3>1. Cardinality(c.legs) - 1 \in Nat
      <4>1. Cardinality(c.legs) \in Nat /\ Cardinality(c.legs) # 0
        BY <1>2, <1>7, FS_CardinalityType, FS_EmptySet DEF ProperCall, RelayerCall
      <4>. QED
        BY <4>1
    <3>. QED
      BY <1>2, <3>1, Product
  <2>. HIDE DEF X, W, d
  <2>4. Cash(W) = Cash(X)
    BY <1>1, <1>3, <2>2, <2>3 DEF Cash
  <2>5. ASSUME NEW l \in Leg PROVE W.no[l] = X.no[l] + b.no[l] /\ W.yes[l] = X.yes[l] + b.yes[l]
    <3>1. /\ x.no[l] \in Nat /\ x.yes[l] \in Nat /\ b.no[l] \in Nat /\ b.yes[l] \in Nat
          /\ w.no[l] = x.no[l] + b.no[l] /\ w.yes[l] = x.yes[l] + b.yes[l]
      BY <1>1 DEF Over
    <3>. QED
      BY <1>2, <2>1, <3>1
  <2>. QED
    BY <1>5, <2>4, <2>5 DEF Over, X, W
<1>. QED
  BY <1>2, <1>6, <1>7

\* ... and so does a list of them.
LEMMA OverLeads ==
  ASSUME NEW x \in Wallet, NEW w \in Wallet, NEW b \in Bonus, NEW calls \in Seq(ProperCall),
         NEW z, Over(x, w, b), Leads(x, calls, z)
  PROVE  \E v \in Wallet : Leads(w, calls, v) /\ Over(z, v, b)
<1>. DEFINE n == Len(calls)
<1>1. PICK f : Course(f, x, calls) /\ f[n] = z
  BY DEF Leads
<1>2. /\ n \in Nat /\ f[0] = x /\ \A i \in 0..n : f[i] \in Wallet
      /\ \A i \in 1..n : /\ calls[i] \in ProperCall /\ CallValid(f[i - 1], calls[i])
                         /\ f[i] = ApplyCall(f[i - 1], calls[i])
  <2>1. n \in Nat /\ \A i \in 1..n : calls[i] \in ProperCall
    OBVIOUS
  <2>2. /\ f[0] = x /\ \A i \in 0..n : f[i] \in Wallet
        /\ \A i \in 1..n : CallValid(f[i - 1], calls[i]) /\ f[i] = ApplyCall(f[i - 1], calls[i])
    <3>. HIDE DEF n
    <3>. QED
      BY <1>1 DEF Course, n
  <2>. QED
    BY <2>1, <2>2
<1>. DEFINE R == {p \in (0..n) \X Wallet : Over(f[p[1]], p[2], b)}
<1>3. <<0, w>> \in R
  BY <1>2
<1>4. ASSUME NEW i \in 1..n, NEW y \in Wallet, <<i - 1, y>> \in R
      PROVE  CallValid(y, calls[i]) /\ <<i, ApplyCall(y, calls[i])>> \in R
  <2>1. i - 1 \in 0..n /\ i \in 0..n
    BY <1>2
  <2>2. Over(f[i - 1], y, b)
    BY <1>4
  <2>3. CallValid(y, calls[i]) /\ Over(f[i], ApplyCall(y, calls[i]), b)
    BY <1>2, <2>1, <2>2, OverCall
  <2>4. ApplyCall(y, calls[i]) \in Wallet
    BY <1>2, <2>3, ApplyTyped
  <2>. QED
    BY <2>1, <2>3, <2>4
<1>. HIDE DEF R
<1>5. PICK v \in Wallet : Leads(w, calls, v) /\ <<n, v>> \in R
  BY <1>3, <1>4, CallRuns
<1>. QED
  BY <1>1, <1>5 DEF R

---------------------------------------------------------------------------
(* A wrap moves no token and no cash.                                      *)

WrapCall == {c \in RelayerCall : c.op \in {"approve", "wrap"}}

\* w is x after a wrap: no token and no cash moved, and USDC.e only went.
WrapOf(x, w) == w.no = x.no /\ w.yes = x.yes /\ Cash(w) = Cash(x) /\ w.usdce <= x.usdce

\* A wrap batch, whether it runs or reverts, leaves such a wallet.
LEMMA WrapMovesNothing ==
  ASSUME NEW w \in Wallet, NEW calls \in Seq(WrapCall)
  PROVE  RunBatch(w, calls).w \in Wallet /\ WrapOf(w, RunBatch(w, calls).w)
<1>. DEFINE n == Len(calls)
<1>1. n \in Nat /\ calls \in Seq(RelayerCall) /\ \A i \in 1..n : calls[i] \in WrapCall
  BY DEF WrapCall
<1>2. PICK s : BatchTrace(s, w, calls)
  BY <1>1, BatchSteps
<1>. DEFINE S == {i \in 0..n : WrapOf(w, s[i].w)}
<1>3. 0 \in S
  BY <1>1, <1>2 DEF BatchTrace, WrapOf, Wallet
<1>4. ASSUME NEW i \in 0..(n - 1), i \in S PROVE i + 1 \in S
  <2>1. i + 1 \in 1..n /\ (i + 1) - 1 = i /\ i + 1 \in 0..n /\ i \in 0..n
    BY <1>1
  <2>2. s[i + 1] = IF s[i].ok /\ CallValid(s[i].w, calls[i + 1])
                   THEN [ok |-> TRUE, w |-> ApplyCall(s[i].w, calls[i + 1])]
                   ELSE [ok |-> FALSE, w |-> w]
    BY <1>2, <2>1 DEF BatchTrace
  <2>3. s[i].w \in Wallet /\ WrapOf(w, s[i].w) /\ calls[i + 1] \in WrapCall
    BY <1>1, <1>2, <1>4, <2>1 DEF BatchTrace
  <2>4. ASSUME NEW x \in Wallet, NEW c \in WrapCall, CallValid(x, c) PROVE WrapOf(x, ApplyCall(x, c))
    <3>1. x.usdce \in Nat /\ x.pusd \in Nat /\ c.amount \in Nat /\ (c.op = "approve" \/ c.op = "wrap")
      BY DEF Wallet, WrapCall, RelayerCall, Call
    <3>2. CASE c.op = "approve"
      <4>1. /\ ApplyCall(x, c).usdce = x.usdce /\ ApplyCall(x, c).pusd = x.pusd
            /\ ApplyCall(x, c).no = x.no /\ ApplyCall(x, c).yes = x.yes
        BY <3>2 DEF ApplyCall, Wallet
      <4>. QED
        BY <3>1, <4>1 DEF WrapOf, Cash
    <3>3. CASE c.op = "wrap"
      <4>1. /\ ApplyCall(x, c).usdce = x.usdce - c.amount /\ ApplyCall(x, c).pusd = x.pusd + c.amount
            /\ ApplyCall(x, c).no = x.no /\ ApplyCall(x, c).yes = x.yes
        BY <3>3 DEF ApplyCall, Wallet
      <4>. QED
        BY <3>1, <4>1 DEF WrapOf, Cash
    <3>. QED
      BY <3>1, <3>2, <3>3
  <2>5. CASE s[i].ok /\ CallValid(s[i].w, calls[i + 1])
    <3>1. s[i + 1].w = ApplyCall(s[i].w, calls[i + 1])
      BY <2>2, <2>5
    <3>2. WrapOf(s[i].w, s[i + 1].w)
      BY <2>3, <2>4, <2>5, <3>1
    <3>3. w.usdce \in Nat /\ s[i].w.usdce \in Nat /\ s[i + 1].w \in Wallet /\ s[i + 1].w.usdce \in Nat
      BY <1>2, <2>1, <2>3 DEF BatchTrace, Wallet
    <3>4. WrapOf(w, s[i + 1].w)
      BY <2>3, <3>2, <3>3 DEF WrapOf
    <3>. QED
      BY <2>1, <3>4
  <2>6. CASE ~(s[i].ok /\ CallValid(s[i].w, calls[i + 1]))
    BY <2>1, <2>2, <2>6 DEF WrapOf, Wallet
  <2>. QED
    BY <2>5, <2>6
<1>5. n \in S
  <2>1. n \in 0..n
    BY <1>1
  <2>2. \A i \in 0..n : i \in S
    <3>. HIDE DEF S, n
    <3>. QED
      BY <1>1, <1>3, <1>4, UpTo
  <2>. HIDE DEF S
  <2>. QED
    BY <2>1, <2>2
<1>6. RunBatch(w, calls) \in [ok : BOOLEAN, w : Wallet]
  BY <1>1, BatchSteps
<1>. QED
  BY <1>2, <1>5, <1>6 DEF BatchTrace

\* A wrap batch of what the wallet holds, on the allowance it was read with,
\* takes all of it.
LEMMA WrapSweeps ==
  ASSUME NEW w \in Wallet, w.usdce <= Unlimited
  PROVE  RunBatch(w, WrapCalls(w.usdce, w.allowance)).w.usdce = 0
<1>. DEFINE a == w.usdce
            calls == WrapCalls(a, w.allowance)
<1>1. a \in Nat /\ w.allowance \in Nat /\ w.pusd \in Nat /\ Unlimited \in Nat
  BY UnlimitedAssumption DEF Wallet
<1>2. calls \in Seq(RelayerCall)
  BY <1>1, WrapTyped
<1>3. PICK s : BatchTrace(s, w, calls)
  BY <1>2, BatchSteps
<1>4. /\ Approve.op = "approve" /\ Wrap(a).op = "wrap" /\ Wrap(a).amount = a
      /\ Approve.amount = Unlimited
  BY DEF Approve, Wrap
<1>5. /\ \A x \in Wallet : CallValid(x, Approve)
      /\ \A x \in Wallet : ApplyCall(x, Approve).usdce = x.usdce /\ ApplyCall(x, Approve).allowance = Unlimited
      /\ \A x \in Wallet : x.usdce = a /\ x.allowance >= a => CallValid(x, Wrap(a)) /\ ApplyCall(x, Wrap(a)).usdce = 0
      /\ \A x : CallValid(x, Wrap(a)) <=> x.usdce >= a /\ x.allowance >= a
      /\ \A x \in Wallet : ApplyCall(x, Wrap(a)).usdce = x.usdce - a
  <2>1. \A x \in Wallet : x.usdce \in Nat /\ x.allowance \in Nat /\ x.pusd \in Nat
    BY DEF Wallet
  <2>2. \A x \in Wallet : ApplyCall(x, Approve).usdce = x.usdce /\ ApplyCall(x, Approve).allowance = Unlimited
    BY <1>4 DEF ApplyCall, Wallet
  <2>3. \A x \in Wallet : ApplyCall(x, Wrap(a)).usdce = x.usdce - a
    BY <1>4 DEF ApplyCall, Wallet
  <2>4. \A x : CallValid(x, Approve)
    BY <1>4 DEF CallValid
  <2>5. \A x : CallValid(x, Wrap(a)) <=> x.usdce >= a /\ x.allowance >= a
    BY <1>4 DEF CallValid
  <2>. QED
    BY <1>1, <2>1, <2>2, <2>3, <2>4, <2>5
<1>6. CASE w.allowance < a
  <2>1. Len(calls) = 2 /\ calls[1] = Approve /\ calls[2] = Wrap(a)
    <3>1. ASSUME NEW x \in RelayerCall, NEW y \in RelayerCall
          PROVE  Len(<<x>> \o <<y>>) = 2 /\ (<<x>> \o <<y>>)[1] = x /\ (<<x>> \o <<y>>)[2] = y
      OBVIOUS
    <3>3. Approve \in RelayerCall /\ Wrap(a) \in RelayerCall
      BY <1>1, FS_EmptySet DEF Wrap, Approve, RelayerCall, Call
    <3>2. calls = <<Approve>> \o <<Wrap(a)>>
      BY <1>6 DEF WrapCalls
    <3>. QED
      BY <3>1, <3>2, <3>3
  <2>. HIDE DEF calls
  <2>2. s[0] = [ok |-> TRUE, w |-> w] /\ s[2] = RunBatch(w, calls)
    BY <1>3, <2>1 DEF BatchTrace
  <2>3. s[1] = [ok |-> TRUE, w |-> ApplyCall(w, Approve)]
    <3>1. s[1] = IF s[0].ok /\ CallValid(s[0].w, calls[1])
                 THEN [ok |-> TRUE, w |-> ApplyCall(s[0].w, calls[1])]
                 ELSE [ok |-> FALSE, w |-> w]
      <4>1. 1 \in 1..2 /\ 1 - 1 = 0
        OBVIOUS
      <4>. QED
        BY <1>3, <2>1, <4>1 DEF BatchTrace
    <3>. QED
      BY <1>5, <2>1, <2>2, <3>1
  <2>4. s[2] = IF s[1].ok /\ CallValid(s[1].w, calls[2])
               THEN [ok |-> TRUE, w |-> ApplyCall(s[1].w, calls[2])]
               ELSE [ok |-> FALSE, w |-> w]
    <3>1. 2 \in 1..2 /\ 2 - 1 = 1
      OBVIOUS
    <3>. QED
      BY <1>3, <2>1, <3>1 DEF BatchTrace
  <2>5. s[1].w \in Wallet
    <3>1. 1 \in 0..2
      OBVIOUS
    <3>. QED
      BY <1>3, <2>1, <3>1 DEF BatchTrace
  <2>6. s[1].w.usdce = a /\ s[1].w.allowance >= a
    BY <1>1, <1>5, <2>3
  <2>7. CallValid(s[1].w, Wrap(a)) /\ ApplyCall(s[1].w, Wrap(a)).usdce = 0
    BY <1>5, <2>5, <2>6
  <2>8. s[1].ok
    BY <2>3
  <2>. QED
    BY <2>1, <2>2, <2>4, <2>7, <2>8 DEF calls
<1>7. CASE ~(w.allowance < a)
  <2>1. calls = <<Wrap(a)>> /\ Len(calls) = 1 /\ calls[1] = Wrap(a)
    BY <1>7 DEF WrapCalls
  <2>. HIDE DEF calls
  <2>2. s[0] = [ok |-> TRUE, w |-> w] /\ s[1] = RunBatch(w, calls)
    BY <1>3, <2>1 DEF BatchTrace
  <2>3. s[1] = IF s[0].ok /\ CallValid(s[0].w, calls[1])
               THEN [ok |-> TRUE, w |-> ApplyCall(s[0].w, calls[1])]
               ELSE [ok |-> FALSE, w |-> w]
    <3>1. 1 \in 1..1 /\ 1 - 1 = 0
      OBVIOUS
    <3>. QED
      BY <1>3, <2>1, <3>1 DEF BatchTrace
  <2>4. CallValid(w, Wrap(a)) /\ ApplyCall(w, Wrap(a)).usdce = 0
    BY <1>1, <1>5, <1>7
  <2>. QED
    BY <2>1, <2>2, <2>3, <2>4 DEF calls
<1>. QED
  BY <1>6, <1>7

---------------------------------------------------------------------------
(* The submissions of a plan from the j-th on.                             *)

From(cs, j) == CallsOf(FlattenSeq(SubSeq(cs, j, Len(cs))))

\* The k-th submission, then those behind it.
LEMMA FromHere ==
  ASSUME NEW cs \in Chunks, NEW i \in 1..Len(cs)
  PROVE  /\ CallsOf(cs[i]) \in Seq(ProperCall) /\ From(cs, i + 1) \in Seq(ProperCall)
         /\ From(cs, i) = CallsOf(cs[i]) \o From(cs, i + 1)
<1>. DEFINE n == Len(cs)
            h == <<cs[i]>>
            t == SubSeq(cs, i + 1, n)
            u == SubSeq(cs, i, n)
<1>1. n \in Nat /\ cs \in Seq(Seq(PlannedCall)) /\ cs[i] \in Seq(PlannedCall)
  BY DEF Chunks
<1>2. h \in Seq(Seq(PlannedCall)) /\ FlattenSeq(h) = cs[i] /\ Len(h) = 1 /\ h[1] = cs[i]
  BY <1>1, FlattenOfOne
<1>3. /\ t \in Seq(Seq(PlannedCall)) /\ Len(t) = n - i
      /\ \A j \in 1..(n - i) : t[j] = cs[i + j]
  <2>1. /\ i + 1 \in Nat \ {0} /\ n \in ((i + 1) - 1)..Len(cs) /\ n - (i + 1) + 1 = n - i
        /\ \A j \in 1..(n - i) : (i + 1) + j - 1 = i + j
    BY <1>1
  <2>. HIDE DEF n
  <2>2. /\ t \in Seq(Seq(PlannedCall)) /\ Len(t) = n - (i + 1) + 1
        /\ \A j \in 1..(n - (i + 1) + 1) : t[j] = cs[(i + 1) + j - 1]
    BY <1>1, <2>1, PartOf
  <2>. QED
    BY <2>1, <2>2
<1>4. /\ u \in Seq(Seq(PlannedCall)) /\ Len(u) = (n - i) + 1
      /\ \A j \in 1..((n - i) + 1) : u[j] = cs[(i - 1) + j]
  <2>1. /\ i \in Nat \ {0} /\ n \in (i - 1)..Len(cs) /\ n - i + 1 = (n - i) + 1
        /\ \A j \in 1..(n - i + 1) : i + j - 1 = (i - 1) + j
    BY <1>1
  <2>. HIDE DEF n
  <2>2. /\ u \in Seq(Seq(PlannedCall)) /\ Len(u) = n - i + 1
        /\ \A j \in 1..(n - i + 1) : u[j] = cs[i + j - 1]
    BY <1>1, <2>1, PartOf
  <2>. QED
    BY <2>1, <2>2
<1>. HIDE DEF h, t, u
<1>5. u = h \o t
  <2>1. \A x, y \in Seq(Seq(PlannedCall)) :
          /\ (x \o y) \in Seq(Seq(PlannedCall)) /\ Len(x \o y) = Len(x) + Len(y)
          /\ \A j \in 1..Len(x) + Len(y) : (x \o y)[j] = IF j <= Len(x) THEN x[j] ELSE y[j - Len(x)]
    BY ConcatProperties
  <2>. DEFINE c == h \o t
  <2>2. /\ c \in Seq(Seq(PlannedCall)) /\ Len(c) = 1 + (n - i)
        /\ \A j \in 1..(1 + (n - i)) : c[j] = IF j <= 1 THEN h[j] ELSE t[j - 1]
    <3>1. /\ h \o t \in Seq(Seq(PlannedCall)) /\ Len(h \o t) = Len(h) + Len(t)
          /\ \A j \in 1..Len(h) + Len(t) : (h \o t)[j] = IF j <= Len(h) THEN h[j] ELSE t[j - Len(h)]
      BY <1>2, <1>3, <2>1
    <3>. QED
      BY <1>2, <1>3, <3>1
  <2>. HIDE DEF c
  <2>3. ASSUME NEW j \in 1..Len(u) PROVE c[j] = u[j]
    <3>1. CASE j = 1
      <4>1. (i - 1) + 1 = i /\ 1 \in 1..(1 + (n - i)) /\ 1 \in 1..((n - i) + 1) /\ 1 <= 1
        BY <1>1
      <4>. QED
        BY <1>2, <1>4, <2>2, <3>1, <4>1
    <3>2. CASE j # 1
      <4>1. /\ j \in 1..(1 + (n - i)) /\ j \in 1..((n - i) + 1) /\ ~(j <= 1) /\ j - 1 \in 1..(n - i)
            /\ i + (j - 1) = (i - 1) + j
        BY <1>1, <1>4, <3>2
      <4>. QED
        BY <1>3, <1>4, <2>2, <4>1
    <3>. QED
      BY <3>1, <3>2
  <2>4. Len(c) = Len(u)
    BY <1>1, <1>4, <2>2
  <2>5. c = u
    BY <1>4, <2>2, <2>3, <2>4, SeqEqual
  <2>. QED
    BY <2>5 DEF c
<1>6. FlattenSeq(u) = FlattenSeq(h) \o FlattenSeq(t) /\ FlattenSeq(t) \in Seq(PlannedCall)
  BY <1>2, <1>3, <1>5, FlattenOfBoth
<1>. DEFINE p == cs[i]
            q == FlattenSeq(t)
<1>7. FlattenSeq(u) = p \o q /\ p \in Seq(PlannedCall) /\ q \in Seq(PlannedCall)
  BY <1>1, <1>2, <1>6
<1>. HIDE DEF p, q
<1>8. CallsOf(p \o q) = CallsOf(p) \o CallsOf(q) /\ CallsOf(p) \in Seq(ProperCall) /\ CallsOf(q) \in Seq(ProperCall)
  BY <1>7, CallsOfBoth
<1>9. From(cs, i) = CallsOf(p \o q) /\ From(cs, i + 1) = CallsOf(q)
  BY <1>7 DEF From, u, t, q
<1>. QED
  BY <1>8, <1>9 DEF p

\* All of them, and none.
LEMMA FromEnds ==
  ASSUME NEW cs \in Chunks
  PROVE  From(cs, 1) = CallsOf(FlattenSeq(cs)) /\ From(cs, Len(cs) + 1) = <<>>
<1>1. cs \in Seq(Seq(PlannedCall)) /\ Len(cs) \in Nat
  BY DEF Chunks
<1>2. SubSeq(cs, 1, Len(cs)) = cs /\ SubSeq(cs, Len(cs) + 1, Len(cs)) = <<>>
  BY <1>1
<1>3. FlattenSeq(<<>>) = <<>> /\ CallsOf(<<>>) = <<>>
  BY FlattenOfOne DEF CallsOf
<1>. QED
  BY <1>2, <1>3 DEF From

---------------------------------------------------------------------------
(* The calls still to run bring the wallet where the plan said.            *)

Zero == [l \in Leg |-> 0]
NoBonus == [no |-> Zero, yes |-> Zero]

\* From w, but for the fills since the balances were read (none unless d), the
\* calls lead to where a plan for Jobs ends, with o in cash.
OnPlan(w, d, o, calls) ==
  \E s, x, z \in Wallet, b \in Bonus :
    /\ Over(x, w, b) /\ (d \/ b = NoBonus)
    /\ Leads(x, calls, z) /\ Cash(z) = o
    /\ \A i \in 1..Len(Jobs) : Finally(z, s, Jobs[i])

\* A plan is one when it is made.
LEMMA MadeOnPlan ==
  ASSUME NEW w \in Wallet
  PROVE  OnPlan(w, FALSE, Cash(w) + Proceeds(w, Jobs), CallsOf(PlanCalls(w, Jobs)))
<1>1. PICK z \in Wallet : Leads(w, CallsOf(PlanCalls(w, Jobs)), z) /\ Done(z, w, Jobs)
  BY HandedOverAssumption, PlanRuns
<1>2. Proceeds(w, Jobs) \in Nat /\ w.usdce \in Nat /\ w.pusd \in Nat
  BY HandedOverAssumption, PlanRuns DEF Wallet
<1>3. Cash(z) = Cash(w) + Proceeds(w, Jobs)
  BY <1>1, <1>2 DEF Done, Cash
<1>4. \A i \in 1..Len(Jobs) : Finally(z, w, Jobs[i])
  BY <1>1 DEF Done
<1>5. Over(w, w, NoBonus) /\ NoBonus \in Bonus
  BY DEF Over, NoBonus, Zero, Bonus, Wallet
<1>. QED
  BY <1>1, <1>3, <1>4, <1>5 DEF OnPlan

\* The next submission runs, and the rest is on plan where it lands.
LEMMA LandsOnPlan ==
  ASSUME NEW w \in Wallet, NEW d, NEW o, NEW a \in Seq(ProperCall), NEW c \in Seq(ProperCall),
         OnPlan(w, d, o, a \o c)
  PROVE  \E v \in Wallet : Leads(w, a, v) /\ OnPlan(v, d, o, c)
<1>1. PICK s \in Wallet, x \in Wallet, z \in Wallet, b \in Bonus :
        /\ Over(x, w, b) /\ (d \/ b = NoBonus)
        /\ Leads(x, a \o c, z) /\ Cash(z) = o
        /\ \A i \in 1..Len(Jobs) : Finally(z, s, Jobs[i])
  BY DEF OnPlan
<1>2. PICK y \in Wallet : Leads(x, a, y) /\ Leads(y, c, z)
  BY <1>1, LeadsThrough
<1>3. PICK v \in Wallet : Leads(w, a, v) /\ Over(y, v, b)
  BY <1>1, <1>2, OverLeads
<1>4. OnPlan(v, d, o, c)
  BY <1>1, <1>2, <1>3 DEF OnPlan
<1>. QED
  BY <1>3, <1>4

\* A wrap leaves the rest on plan.
LEMMA WrapsOnPlan ==
  ASSUME NEW w \in Wallet, NEW v \in Wallet, WrapOf(w, v), NEW d, NEW o, NEW calls,
         OnPlan(w, d, o, calls)
  PROVE  OnPlan(v, d, o, calls)
<1>1. PICK s \in Wallet, x \in Wallet, z \in Wallet, b \in Bonus :
        /\ Over(x, w, b) /\ (d \/ b = NoBonus)
        /\ Leads(x, calls, z) /\ Cash(z) = o
        /\ \A i \in 1..Len(Jobs) : Finally(z, s, Jobs[i])
  BY DEF OnPlan
<1>2. Over(x, v, b)
  BY <1>1 DEF Over, WrapOf
<1>. QED
  BY <1>1, <1>2 DEF OnPlan

\* What is bought comes on top.
LEMMA BoughtIsOver ==
  ASSUME NEW w \in Wallet, NEW v, Bought(w, v)
  PROVE  v \in Wallet /\ \E b \in Bonus : Over(w, v, b)
<1>1. v \in Wallet /\ v.usdce = w.usdce /\ v.pusd = w.pusd
  BY TradeTyped
<1>2. PICK m \in Leg : \/ v = [w EXCEPT !.no[m] = @ + 1]
                       \/ v = [w EXCEPT !.yes[m] = @ + 1]
  BY DEF Bought
<1>3. \A l \in Leg : /\ w.no[l] \in Nat /\ w.yes[l] \in Nat
                     /\ v.no[l] = w.no[l] \/ v.no[l] = w.no[l] + 1
                     /\ v.yes[l] = w.yes[l] \/ v.yes[l] = w.yes[l] + 1
  BY <1>2 DEF Wallet
<1>. DEFINE b == [no |-> [l \in Leg |-> v.no[l] - w.no[l]], yes |-> [l \in Leg |-> v.yes[l] - w.yes[l]]]
<1>4. b \in Bonus
  BY <1>3 DEF Bonus
<1>5. \A l \in Leg : v.no[l] = w.no[l] + b.no[l] /\ v.yes[l] = w.yes[l] + b.yes[l]
  BY <1>3
<1>. HIDE DEF b
<1>. QED
  BY <1>1, <1>4, <1>5 DEF Over, Cash

\* ... and adds to what came before.
LEMMA OverOver ==
  ASSUME NEW x \in Wallet, NEW w \in Wallet, NEW v \in Wallet, NEW b \in Bonus, NEW c \in Bonus,
         Over(x, w, b), Over(w, v, c)
  PROVE  \E e \in Bonus : Over(x, v, e)
<1>. DEFINE e == [no |-> [l \in Leg |-> b.no[l] + c.no[l]], yes |-> [l \in Leg |-> b.yes[l] + c.yes[l]]]
<1>1. e \in Bonus
  BY DEF Bonus
<1>2. ASSUME NEW l \in Leg PROVE v.no[l] = x.no[l] + e.no[l] /\ v.yes[l] = x.yes[l] + e.yes[l]
  <2>1. /\ x.no[l] \in Nat /\ x.yes[l] \in Nat /\ b.no[l] \in Nat /\ b.yes[l] \in Nat
        /\ c.no[l] \in Nat /\ c.yes[l] \in Nat
    BY DEF Wallet, Bonus
  <2>2. /\ w.no[l] = x.no[l] + b.no[l] /\ w.yes[l] = x.yes[l] + b.yes[l]
        /\ v.no[l] = w.no[l] + c.no[l] /\ v.yes[l] = w.yes[l] + c.yes[l]
    BY DEF Over
  <2>3. e.no[l] = b.no[l] + c.no[l] /\ e.yes[l] = b.yes[l] + c.yes[l]
    OBVIOUS
  <2>. HIDE DEF e
  <2>. QED
    BY <2>1, <2>2, <2>3
<1>. HIDE DEF e
<1>. QED
  BY <1>1, <1>2 DEF Over

\* So does a fill that adds to the wallet.
LEMMA BuysOnPlan ==
  ASSUME NEW w \in Wallet, NEW v, Bought(w, v), NEW d, NEW o, NEW calls, OnPlan(w, d, o, calls)
  PROVE  OnPlan(v, TRUE, o, calls)
<1>1. PICK s \in Wallet, x \in Wallet, z \in Wallet, b \in Bonus :
        /\ Over(x, w, b) /\ (d \/ b = NoBonus)
        /\ Leads(x, calls, z) /\ Cash(z) = o
        /\ \A i \in 1..Len(Jobs) : Finally(z, s, Jobs[i])
  BY DEF OnPlan
<1>2. v \in Wallet /\ \E c \in Bonus : Over(w, v, c)
  BY BoughtIsOver
<1>3. PICK e \in Bonus : Over(x, v, e)
  BY <1>1, <1>2, OverOver
<1>. QED
  BY <1>1, <1>2, <1>3 DEF OnPlan

\* With nothing left to run, the wallet is where the plan ends.
LEMMA EndsOnPlan ==
  ASSUME NEW w \in Wallet, NEW d, NEW o, OnPlan(w, d, o, <<>>)
  PROVE  /\ Cash(w) = o
         /\ d \/ \E s \in Wallet : \A i \in 1..Len(Jobs) : Finally(w, s, Jobs[i])
<1>1. PICK s \in Wallet, x \in Wallet, z \in Wallet, b \in Bonus :
        /\ Over(x, w, b) /\ (d \/ b = NoBonus)
        /\ Leads(x, <<>>, z) /\ Cash(z) = o
        /\ \A i \in 1..Len(Jobs) : Finally(z, s, Jobs[i])
  BY DEF OnPlan
<1>2. x = z
  BY <1>1, LeadsNowhere
<1>3. Cash(w) = o
  BY <1>1, <1>2 DEF Over
<1>4. ASSUME b = NoBonus, NEW i \in 1..Len(Jobs) PROVE Finally(w, s, Jobs[i])
  <2>1. \A l \in Leg : w.no[l] = z.no[l] /\ w.yes[l] = z.yes[l]
    BY <1>1, <1>2, <1>4 DEF Over, NoBonus, Zero, Wallet
  <2>2. IsJob(Jobs[i])
    BY HandedOverAssumption, JobList
  <2>3. \A l \in ToSet(Jobs[i]) : l.id \in Leg
    BY <2>2, JobLegs DEF JobLeg
  <2>4. Finally(z, s, Jobs[i])
    BY <1>1
  <2>. QED
    BY <2>1, <2>3, <2>4 DEF Finally, Worked, WorkedLeg
<1>. QED
  BY <1>1, <1>3, <1>4

---------------------------------------------------------------------------
(* With settle waits that outlast what is in flight, nothing given up or   *)
(* sold, and no direct operation, the cycle stays on plan.                 *)

Calm == Timely /\ ~MayDrop /\ ~MaySell /\ ~DirectOps

\* Where a chunk may still be in flight: the engine waits for it to settle, or
\* took its submission for failed.
Loose ==
  \/ pc \in {"settle", "rebuildwait"}
  \/ pc \in WrapWhere /\ ctx = "salvage"
  \/ pc = "idle" /\ result = "err"

\* Where the round in progress has not failed.
OnTrack ==
  \/ pc = "plan" /\ "balances" \in read
  \/ pc \in {"submit", "busywait", "settle"}
  \/ pc \in WrapWhere /\ ctx # "salvage"
  \/ pc = "idle" /\ result = "ok"

\* What of the plan is still to land.
NextK == IF pc = "plan" THEN 1
         ELSE IF pc \in {"submit", "busywait"} THEN k
         ELSE IF pc = "settle" THEN k + 1 ELSE Len(chunks) + 1
Pending == IF inflight.kind = "chunk" THEN inflight.calls ELSE <<>>
Ahead == Pending \o From(chunks, NextK)

FlightInv ==
  /\ inflight.kind # "direct" /\ pc # "direct" /\ reverted = FALSE
  /\ wrapping \in Seq(WrapCall) /\ (inflight.kind = "wrap" => inflight.calls \in Seq(WrapCall))
  /\ inflight.kind = "chunk" => /\ Loose /\ inflight.calls \in Seq(ProperCall)
                                /\ \E v \in Wallet : Leads(wallet, inflight.calls, v)
PlanAhead == OnTrack => OnPlan(wallet, dirty, owed, Ahead)

SteadyInv == FlightInv /\ PlanAhead

\* A step that leaves the chain alone.
LEMMA FlightStays ==
  ASSUME FlightInv, wallet' = wallet, inflight' = inflight, reverted' = reverted, pc' # "direct",
         wrapping' \in Seq(WrapCall), inflight.kind = "chunk" => Loose'
  PROVE  FlightInv'
BY DEF FlightInv

\* ... and what is still to land.
LEMMA TrackStays ==
  ASSUME PlanAhead, wallet' = wallet, inflight' = inflight, chunks' = chunks, dirty' = dirty,
         owed' = owed, OnTrack' => OnTrack /\ NextK' = NextK
  PROVE  PlanAhead'
<1>. SUFFICES ASSUME OnTrack' PROVE OnPlan(wallet', dirty', owed', Ahead')
  BY DEF PlanAhead
<1>1. OnPlan(wallet, dirty, owed, Ahead)
  BY DEF PlanAhead
<1>2. Ahead' = Ahead
  BY DEF Ahead, Pending
<1>. QED
  BY <1>1, <1>2

\* The calls ahead are a plan's.
LEMMA AheadTyped ==
  ASSUME ControlTypeOK, DataOK, FlightInv
  PROVE  /\ Pending \in Seq(ProperCall)
         /\ \A i \in 1..(Len(chunks) + 1) : From(chunks, i) \in Seq(ProperCall)
<1>1. chunks \in Chunks /\ Len(chunks) \in Nat
  BY DEF DataOK, Chunks
<1>2. Pending \in Seq(ProperCall)
  BY DEF Pending, FlightInv
<1>3. ASSUME NEW i \in 1..(Len(chunks) + 1) PROVE From(chunks, i) \in Seq(ProperCall)
  <2>1. CASE i \in 1..Len(chunks)
    <3>1. /\ CallsOf(chunks[i]) \in Seq(ProperCall) /\ From(chunks, i + 1) \in Seq(ProperCall)
          /\ From(chunks, i) = CallsOf(chunks[i]) \o From(chunks, i + 1)
      BY <1>1, <2>1, FromHere
    <3>2. \A x, y \in Seq(ProperCall) : x \o y \in Seq(ProperCall)
      OBVIOUS
    <3>. QED
      BY <3>1, <3>2
  <2>2. CASE i = Len(chunks) + 1
    <3>1. From(chunks, Len(chunks) + 1) = <<>> /\ <<>> \in Seq(ProperCall)
      BY <1>1, FromEnds
    <3>. QED
      BY <2>2, <3>1
  <2>. QED
    BY <1>1, <2>1, <2>2
<1>. QED
  BY <1>2, <1>3

\* Nothing before a list.
LEMMA NothingBefore ==
  ASSUME NEW c \in Seq(ProperCall)
  PROVE  <<>> \o c = c
BY ConcatEmptySeq

\* A submission the relayer accepts runs, and the others behind it.
LEMMA SubmitsOnPlan ==
  ASSUME Calm, ControlTypeOK, DataOK, SteadyInv, SubmitChunk
  PROVE  /\ inflight = NoAction /\ inflight' = [kind |-> "chunk", calls |-> CallsOf(chunks[k])]
         /\ CallsOf(chunks[k]) \in Seq(ProperCall)
         /\ \E v \in Wallet : Leads(wallet, CallsOf(chunks[k]), v)
         /\ OnPlan(wallet, dirty, owed, CallsOf(chunks[k]) \o From(chunks, k + 1))
<1>1. /\ pc = "submit" /\ inflight = NoAction
      /\ inflight' = [kind |-> "chunk", calls |-> CallsOf(chunks[k])]
  BY DEF SubmitChunk, Accept, Action
<1>2. chunks \in Chunks /\ k \in 1..Len(chunks)
  BY <1>1 DEF DataOK, Chunks
<1>3. /\ CallsOf(chunks[k]) \in Seq(ProperCall) /\ From(chunks, k + 1) \in Seq(ProperCall)
      /\ From(chunks, k) = CallsOf(chunks[k]) \o From(chunks, k + 1)
  BY <1>2, FromHere
<1>4. From(chunks, k) \in Seq(ProperCall)
  <2>1. k \in 1..(Len(chunks) + 1)
    BY <1>2
  <2>. QED
    BY <2>1, AheadTyped DEF SteadyInv
<1>5. Ahead = From(chunks, k)
  <2>1. Pending = <<>> /\ NextK = k
    BY <1>1 DEF Pending, NextK, NoAction
  <2>. QED
    BY <1>4, <2>1, NothingBefore DEF Ahead
<1>6. OnPlan(wallet, dirty, owed, CallsOf(chunks[k]) \o From(chunks, k + 1))
  BY <1>1, <1>3, <1>5 DEF SteadyInv, PlanAhead, OnTrack
<1>7. wallet \in Wallet
  BY DEF DataOK
<1>8. \E v \in Wallet : Leads(wallet, CallsOf(chunks[k]), v)
  BY <1>3, <1>6, <1>7, LandsOnPlan
<1>. QED
  BY <1>1, <1>3, <1>6, <1>8

\* What lands does what it was accepted for.
LEMMA LandingOnPlan ==
  ASSUME Calm, ControlTypeOK, DataOK, SteadyInv, Land
  PROVE  SteadyInv'
<1>. DEFINE run == RunBatch(wallet, inflight.calls)
<1>1. /\ inflight # NoAction /\ inflight' = NoAction /\ wallet' = run.w
      /\ reverted' = (reverted \/ (inflight.kind = "chunk" /\ ~run.ok))
      /\ pc' = pc /\ ctx' = ctx /\ result' = result /\ read' = read /\ k' = k /\ chunks' = chunks
      /\ wrapping' = wrapping /\ dirty' = dirty /\ owed' = owed
  BY DEF Land, Busy, engine, history
<1>2. NoAction.kind = "none" /\ wallet \in Wallet
  BY DEF NoAction, DataOK
<1>3. OnTrack' = OnTrack /\ NextK' = NextK /\ Pending' = <<>> /\ Ahead' = <<>> \o From(chunks, NextK)
  BY <1>1, <1>2 DEF OnTrack, NextK, Pending, Ahead, WrapWhere
<1>4. OnTrack => From(chunks, NextK) \in Seq(ProperCall) /\ Ahead' = From(chunks, NextK)
  <2>. SUFFICES ASSUME OnTrack PROVE From(chunks, NextK) \in Seq(ProperCall) /\ Ahead' = From(chunks, NextK)
    OBVIOUS
  <2>1. Len(chunks) \in Nat /\ DOMAIN chunks = 1..Len(chunks)
    BY DEF DataOK, Chunks
  <2>2. NextK \in 1..(Len(chunks) + 1)
    BY <2>1 DEF NextK, DataOK, ControlTypeOK
  <2>3. From(chunks, NextK) \in Seq(ProperCall)
    BY <2>2, AheadTyped DEF SteadyInv
  <2>. QED
    BY <1>3, <2>3, NothingBefore
<1>5. CASE inflight.kind = "chunk"
  <2>1. inflight.calls \in Seq(ProperCall) /\ Pending = inflight.calls
    BY <1>5 DEF SteadyInv, FlightInv, Pending
  <2>2. PICK v \in Wallet : /\ Leads(wallet, inflight.calls, v)
                            /\ OnTrack => OnPlan(v, dirty, owed, From(chunks, NextK))
    <3>1. CASE OnTrack
      <4>1. OnPlan(wallet, dirty, owed, inflight.calls \o From(chunks, NextK))
        BY <2>1, <3>1 DEF SteadyInv, PlanAhead, Ahead
      <4>. QED
        BY <1>2, <1>4, <2>1, <3>1, <4>1, LandsOnPlan
    <3>2. CASE ~OnTrack
      BY <1>5, <3>2 DEF SteadyInv, FlightInv
    <3>. QED
      BY <3>1, <3>2
  <2>3. run = [ok |-> TRUE, w |-> v]
    BY <1>2, <2>1, <2>2, LeadsInBatch
  <2>4. wallet' = v /\ reverted' = FALSE
    <3>1. run.ok /\ run.w = v
      BY <2>3
    <3>2. reverted = FALSE
      BY DEF SteadyInv, FlightInv
    <3>. HIDE DEF run
    <3>. QED
      BY <1>1, <3>1, <3>2
  <2>5. FlightInv'
    BY <1>1, <1>2, <2>4 DEF SteadyInv, FlightInv
  <2>6. PlanAhead'
    BY <1>1, <1>3, <1>4, <2>2, <2>4 DEF PlanAhead
  <2>. QED
    BY <2>5, <2>6 DEF SteadyInv
<1>6. CASE inflight.kind # "chunk"
  <2>1. inflight.kind = "wrap" /\ inflight.calls \in Seq(WrapCall)
    BY <1>1, <1>6 DEF SteadyInv, FlightInv, DataOK
  <2>2. run.w \in Wallet /\ WrapOf(wallet, run.w)
    BY <1>2, <2>1, WrapMovesNothing
  <2>3. wallet' = run.w /\ reverted' = reverted
    BY <1>1, <1>6 DEF SteadyInv, FlightInv
  <2>4. FlightInv'
    BY <1>1, <1>2, <2>3 DEF SteadyInv, FlightInv
  <2>5. PlanAhead'
    <3>. SUFFICES ASSUME OnTrack PROVE OnPlan(wallet', dirty, owed, Ahead')
      BY <1>1, <1>3 DEF PlanAhead
    <3>1. OnPlan(wallet, dirty, owed, Ahead) /\ Ahead = Ahead'
      BY <1>3, <1>6 DEF SteadyInv, PlanAhead, Ahead, Pending
    <3>. HIDE DEF run
    <3>. QED
      BY <1>2, <2>2, <2>3, <3>1, WrapsOnPlan
  <2>. QED
    BY <2>4, <2>5 DEF SteadyInv
<1>. QED
  BY <1>5, <1>6

\* Wrap batches are wraps.
LEMMA WrapsAreWraps ==
  ASSUME NEW a \in Nat, NEW b
  PROVE  WrapCalls(a, b) \in Seq(WrapCall)
<1>1. Wrap(a) \in WrapCall /\ Approve \in WrapCall
  BY FS_EmptySet, UnlimitedAssumption DEF Wrap, Approve, WrapCall, RelayerCall, Call
<1>. QED
  BY <1>1 DEF WrapCalls

\* Every step keeps the cycle steady.
LEMMA SteadyStep ==
  ASSUME Calm, ControlTypeOK, DataOK, SteadyInv, [Next]_vars
  PROVE  SteadyInv'
<1>0. /\ FlightInv /\ PlanAhead /\ pc # "direct" /\ wrapping \in Seq(WrapCall)
      /\ inflight.kind = "chunk" => Loose
      /\ Settled => inflight.kind # "chunk"
  BY DEF SteadyInv, FlightInv, Settled, Busy, NoAction, Calm
<1>. SUFFICES FlightInv' /\ PlanAhead'
  BY DEF SteadyInv
<1>1. CASE ReadBalances
  <2>1. FlightInv'
    BY <1>0, <1>1, FlightStays DEF ReadBalances, chain, Loose, WrapWhere
  <2>2. OnPlan(wallet', dirty', owed', Ahead')
    <3>. DEFINE plan == PlanCalls(wallet, Jobs)
    <3>1. /\ wallet' = wallet /\ dirty' = FALSE /\ owed' = Cash(wallet) + Proceeds(wallet, Jobs)
          /\ chunks' = GasChunks(plan) /\ pc' = "plan" /\ inflight' = inflight /\ inflight.kind # "chunk"
      BY <1>0, <1>1 DEF ReadBalances, chain, Loose, WrapWhere
    <3>2. wallet \in Wallet
      BY DEF DataOK
    <3>3. /\ plan \in Seq(PlannedCall) /\ GasChunks(plan) \in Chunks /\ FlattenSeq(GasChunks(plan)) = plan
          /\ CallsOf(plan) \in Seq(ProperCall)
      <4>1. plan \in Seq(PlannedCall)
        BY <3>2, HandedOverAssumption, PlanRuns
      <4>. HIDE DEF plan
      <4>. QED
        BY <4>1, ChunksHoldThePlan, CallsOfBoth
    <3>4. From(GasChunks(plan), 1) = CallsOf(plan)
      <4>. HIDE DEF plan
      <4>. QED
        BY <3>3, FromEnds
    <3>5. Ahead' = <<>> \o From(GasChunks(plan), 1)
      BY <3>1 DEF Ahead, Pending, NextK
    <3>6. Ahead' = CallsOf(plan)
      <4>. HIDE DEF plan
      <4>. QED
        BY <3>3, <3>4, <3>5, NothingBefore
    <3>7. OnPlan(wallet, FALSE, Cash(wallet) + Proceeds(wallet, Jobs), CallsOf(plan))
      BY <3>2, MadeOnPlan
    <3>. QED
      BY <3>1, <3>6, <3>7
  <2>. QED
    BY <2>1, <2>2 DEF PlanAhead
<1>2. CASE ReadCash
  <2>1. FlightInv'
    BY <1>0, <1>2, FlightStays DEF ReadCash, chain, Loose, WrapWhere
  <2>2. PlanAhead'
    BY <1>0, <1>2, TrackStays DEF ReadCash, chain, history, OnTrack, NextK, WrapWhere
  <2>. QED
    BY <2>1, <2>2
<1>3. CASE PlanFails \/ ChunkStillBusy \/ ChunkRejected
  <2>1. FlightInv'
    BY <1>0, <1>3, FlightStays DEF PlanFails, ChunkStillBusy, ChunkRejected, FailRound, chain, Loose, WrapWhere
  <2>2. ~OnTrack'
    BY <1>3 DEF PlanFails, ChunkStillBusy, ChunkRejected, FailRound, OnTrack, WrapWhere
  <2>. QED
    BY <2>1, <2>2 DEF PlanAhead
<1>4. CASE PlannedCalls \/ PlannedLeftover \/ PlannedNothing
  <2>1. FlightInv'
    BY <1>0, <1>4, FlightStays DEF PlannedCalls, PlannedLeftover, PlannedNothing, PlanRead, chain, Loose, WrapWhere
  <2>2. OnTrack /\ NextK = 1 /\ k = 1
    BY <1>4 DEF PlannedCalls, PlannedLeftover, PlannedNothing, PlanRead, OnTrack, NextK, DataOK
  <2>3. NextK' = 1
    <3>1. Len(<<>>) = 0
      OBVIOUS
    <3>. QED
      BY <1>4, <2>2, <3>1 DEF PlannedCalls, PlannedLeftover, PlannedNothing, NextK
  <2>4. PlanAhead'
    <3>1. /\ wallet' = wallet /\ inflight' = inflight /\ chunks' = chunks /\ dirty' = dirty
          /\ owed' = owed
      BY <1>4 DEF PlannedCalls, PlannedLeftover, PlannedNothing, chain, history
    <3>. QED
      BY <1>0, <2>2, <2>3, <3>1, TrackStays
  <2>. QED
    BY <2>1, <2>4
<1>5. CASE ChunkAccepted
  <2>1. /\ SubmitChunk /\ pc' = "settle" /\ wallet' = wallet /\ reverted' = reverted /\ chunks' = chunks
        /\ k' = k /\ wrapping' = wrapping /\ dirty' = dirty /\ owed' = owed
    BY <1>5 DEF ChunkAccepted
  <2>2. /\ inflight = NoAction /\ inflight' = [kind |-> "chunk", calls |-> CallsOf(chunks[k])]
        /\ CallsOf(chunks[k]) \in Seq(ProperCall)
        /\ \E v \in Wallet : Leads(wallet, CallsOf(chunks[k]), v)
        /\ OnPlan(wallet, dirty, owed, CallsOf(chunks[k]) \o From(chunks, k + 1))
    BY <2>1, SubmitsOnPlan
  <2>3. FlightInv'
    BY <1>0, <2>1, <2>2 DEF FlightInv, Loose
  <2>4. Ahead' = CallsOf(chunks[k]) \o From(chunks, k + 1)
    BY <2>1, <2>2 DEF Ahead, Pending, NextK
  <2>. QED
    BY <2>1, <2>2, <2>3, <2>4 DEF PlanAhead
<1>6. CASE ChunkLost
  <2>1. /\ SubmitChunk /\ FailRound /\ wallet' = wallet /\ reverted' = reverted /\ wrapping' = wrapping
    BY <1>6 DEF ChunkLost
  <2>2. /\ inflight = NoAction /\ inflight' = [kind |-> "chunk", calls |-> CallsOf(chunks[k])]
        /\ CallsOf(chunks[k]) \in Seq(ProperCall)
        /\ \E v \in Wallet : Leads(wallet, CallsOf(chunks[k]), v)
    BY <2>1, SubmitsOnPlan
  <2>3. pc' = "rebuildwait" \/ (pc' = "wrapread" /\ ctx' = "salvage")
    BY <2>1 DEF FailRound
  <2>4. Loose' /\ ~OnTrack' /\ pc' # "direct"
    BY <2>3 DEF Loose, OnTrack, WrapWhere
  <2>5. FlightInv'
    BY <1>0, <2>1, <2>2, <2>4 DEF FlightInv
  <2>. QED
    BY <2>4, <2>5 DEF PlanAhead
<1>7. CASE ChunkBusy \/ ChunkWaited
  <2>1. FlightInv'
    BY <1>0, <1>7, FlightStays DEF ChunkBusy, ChunkWaited, chain, Loose, WrapWhere
  <2>2. PlanAhead'
    BY <1>0, <1>7, TrackStays DEF ChunkBusy, ChunkWaited, chain, history, OnTrack, NextK, WrapWhere
  <2>. QED
    BY <2>1, <2>2
<1>8. CASE ChunkQuota
  <2>1. FlightInv'
    BY <1>0, <1>8, FlightStays DEF ChunkQuota, chain, Loose, WrapWhere
  <2>2. ~OnTrack'
    BY <1>8 DEF ChunkQuota, OnTrack, WrapWhere
  <2>. QED
    BY <2>1, <2>2 DEF PlanAhead
<1>9. CASE ChunkSettled
  <2>1. FlightInv'
    BY <1>0, <1>9, FlightStays DEF ChunkSettled, NextChunk, LastChunk, chain, Loose, WrapWhere
  <2>2. OnTrack /\ NextK = k + 1 /\ NextK' = k + 1
    BY <1>9 DEF ChunkSettled, NextChunk, LastChunk, OnTrack, NextK
  <2>3. PlanAhead'
    <3>1. /\ wallet' = wallet /\ inflight' = inflight /\ chunks' = chunks /\ dirty' = dirty
          /\ owed' = owed
      BY <1>9 DEF ChunkSettled, chain, history
    <3>. QED
      BY <1>0, <2>2, <3>1, TrackStays
  <2>. QED
    BY <2>1, <2>3
<1>10. CASE RebuildWaited \/ StartCycle
  <2>1. FlightInv'
    BY <1>0, <1>10, FlightStays DEF RebuildWaited, StartCycle, chain, Loose, WrapWhere
  <2>2. ~OnTrack'
    BY <1>10 DEF RebuildWaited, StartCycle, OnTrack, WrapWhere
  <2>. QED
    BY <2>1, <2>2 DEF PlanAhead
<1>11. CASE WrapNothing \/ WrapReadFails \/ WrapRejected
  <2>1. FlightInv'
    BY <1>0, <1>11, FlightStays DEF WrapNothing, WrapReadFails, WrapRejected, EndWrap, chain, Loose, WrapWhere
  <2>2. PlanAhead'
    BY <1>0, <1>11, TrackStays
       DEF WrapNothing, WrapReadFails, WrapRejected, EndWrap, chain, OnTrack, NextK, WrapWhere
  <2>. QED
    BY <2>1, <2>2
<1>12. CASE WrapRead
  <2>1. wallet.usdce \in Nat
    BY DEF DataOK, Wallet
  <2>2. wrapping' \in Seq(WrapCall)
    BY <1>12, <2>1, WrapsAreWraps DEF WrapRead
  <2>3. FlightInv'
    BY <1>0, <1>12, <2>2, FlightStays DEF WrapRead, chain, Loose, WrapWhere
  <2>4. PlanAhead'
    BY <1>0, <1>12, TrackStays DEF WrapRead, chain, history, OnTrack, NextK, WrapWhere
  <2>. QED
    BY <2>3, <2>4
<1>13. CASE WrapBusy \/ WrapWaited
  <2>1. FlightInv'
    BY <1>0, <1>13, FlightStays DEF WrapBusy, WrapWaited, chain, Loose, WrapWhere
  <2>2. PlanAhead'
    BY <1>0, <1>13, TrackStays DEF WrapBusy, WrapWaited, chain, history, OnTrack, NextK, WrapWhere
  <2>. QED
    BY <2>1, <2>2
<1>14. CASE WrapAccepted \/ WrapLost
  <2>1. /\ inflight = NoAction /\ inflight' = [kind |-> "wrap", calls |-> wrapping]
        /\ pc = "wrapsubmit" /\ pc' = "idle" /\ result' = (IF ctx = "salvage" THEN "err" ELSE "ok")
        /\ wallet' = wallet /\ reverted' = reverted /\ chunks' = chunks /\ dirty' = dirty /\ owed' = owed
        /\ wrapping' = wrapping
    BY <1>14 DEF WrapAccepted, WrapLost, Accept, Action, EndWrap
  <2>2. FlightInv'
    BY <1>0, <2>1 DEF FlightInv
  <2>3. PlanAhead'
    <3>1. OnTrack' => OnTrack /\ NextK' = NextK /\ Pending' = Pending
      BY <2>1 DEF OnTrack, NextK, Pending, WrapWhere, NoAction
    <3>2. OnTrack' => OnPlan(wallet, dirty, owed, Ahead) /\ Ahead' = Ahead
      BY <1>0, <2>1, <3>1 DEF PlanAhead, Ahead
    <3>. QED
      BY <2>1, <3>2 DEF PlanAhead
  <2>. QED
    BY <2>2, <2>3
<1>15. CASE ConvertSettled \/ ProcessMerge \/ ProcessConvert \/ DirectLost \/ DirectRejected \/ Drop
  BY <1>0, <1>15 DEF ConvertSettled, ProcessMerge, ProcessConvert, DirectLost, DirectRejected, Drop, Calm
<1>16. CASE Land
  BY <1>16, LandingOnPlan DEF SteadyInv
<1>17. CASE Trade
  <2>1. wallet \in Wallet /\ Bought(wallet, wallet')
    BY <1>17 DEF Trade, Bought, DataOK, Calm
  <2>2. /\ inflight' = inflight /\ reverted' = reverted /\ pc' = pc /\ ctx' = ctx /\ result' = result
        /\ read' = read /\ k' = k /\ chunks' = chunks /\ wrapping' = wrapping /\ owed' = owed /\ dirty' = TRUE
    BY <1>17 DEF Trade, engine
  <2>3. OnTrack' = OnTrack /\ Ahead' = Ahead /\ Loose' = Loose
    BY <2>2 DEF OnTrack, Ahead, Pending, NextK, Loose, WrapWhere
  <2>4. PlanAhead'
    <3>. SUFFICES ASSUME OnTrack PROVE OnPlan(wallet', TRUE, owed, Ahead)
      BY <2>2, <2>3 DEF PlanAhead
    <3>1. OnPlan(wallet, dirty, owed, Ahead)
      BY <1>0 DEF PlanAhead
    <3>. QED
      BY <2>1, <3>1, BuysOnPlan
  <2>5. inflight.kind = "chunk" => \E v \in Wallet : Leads(wallet', inflight.calls, v)
    <3>. SUFFICES ASSUME inflight.kind = "chunk" PROVE \E v \in Wallet : Leads(wallet', inflight.calls, v)
      OBVIOUS
    <3>1. inflight.calls \in Seq(ProperCall) /\ \E v \in Wallet : Leads(wallet, inflight.calls, v)
      BY <1>0 DEF FlightInv
    <3>2. PICK v \in Wallet : Leads(wallet, inflight.calls, v)
      BY <3>1
    <3>3. wallet' \in Wallet /\ \E b \in Bonus : Over(wallet, wallet', b)
      BY <2>1, BoughtIsOver
    <3>. QED
      BY <2>1, <3>1, <3>2, <3>3, OverLeads
  <2>6. FlightInv'
    BY <1>0, <2>2, <2>3, <2>5 DEF FlightInv
  <2>. QED
    BY <2>4, <2>6
<1>18. CASE UNCHANGED vars
  <2>1. FlightInv'
    BY <1>0, <1>18, FlightStays DEF vars, chain, engine, Loose, WrapWhere
  <2>2. PlanAhead'
    BY <1>0, <1>18, TrackStays DEF vars, chain, engine, history, OnTrack, NextK, WrapWhere
  <2>. QED
    BY <2>1, <2>2
<1>. QED
  BY <1>1, <1>2, <1>3, <1>4, <1>5, <1>6, <1>7, <1>8, <1>9, <1>10, <1>11, <1>12, <1>13, <1>14, <1>15,
     <1>16, <1>17, <1>18
     DEF Next, EngineStep, Operation, Planning, Submitting, Wrapping

\* With settle waits that outlast what is in flight, no action given up, no NO
\* sold and no direct operation (process_jobs), the calls still to land lead
\* from the wallet to where the plan ends, in every state of a round.
LEMMA SteadyIsInvariant ==
  ASSUME Calm
  PROVE  Spec => []SteadyInv
<1>1. Init => SteadyInv
  <2>. SUFFICES ASSUME Init PROVE SteadyInv
    OBVIOUS
  <2>1. /\ inflight = NoAction /\ NoAction.kind = "none" /\ reverted = FALSE /\ pc = "idle"
        /\ wrapping = <<>> /\ result = "none"
    BY DEF Init, NoAction
  <2>2. <<>> \in Seq(WrapCall) /\ ~OnTrack
    BY <2>1 DEF OnTrack, WrapWhere
  <2>. QED
    BY <2>1, <2>2 DEF SteadyInv, FlightInv, PlanAhead
<1>2. ControlTypeOK /\ DataOK /\ SteadyInv /\ [Next]_vars => SteadyInv'
  BY SteadyStep
<1>. QED
  BY <1>1, <1>2, ControlTypeCorrect, DataIsTyped, PTL DEF Spec

\* No chunk reverts on chain, though responses are lost, rounds rebuilt and NO
\* bought meanwhile.
THEOREM ChunksAlwaysLand ==
  ASSUME Calm
  PROVE  Spec => []ChunksNeverRevert
<1>1. SteadyInv => ChunksNeverRevert
  BY DEF SteadyInv, FlightInv, ChunksNeverRevert
<1>. QED
  BY <1>1, SteadyIsInvariant, PTL

\* After an Ok nothing of the plan is left to land.
LEMMA OkIsDone ==
  ASSUME ControlTypeOK, DataOK, SteadyInv, Returned("ok")
  PROVE  OnPlan(wallet, dirty, owed, <<>>)
<1>1. OnTrack /\ NextK = Len(chunks) + 1 /\ Pending = <<>>
  BY DEF Returned, OnTrack, NextK, Pending, SteadyInv, FlightInv, Loose, WrapWhere
<1>2. From(chunks, Len(chunks) + 1) = <<>>
  BY FromEnds DEF DataOK
<1>3. Ahead = <<>>
  BY <1>1, <1>2 DEF Ahead
<1>. QED
  BY <1>1, <1>3 DEF SteadyInv, PlanAhead

\* The proceeds an Ok reports are the cash the wallet gained.
THEOREM ReportedProceedsAlwaysArrive ==
  ASSUME Calm
  PROVE  Spec => []ReportedProceedsArrive
<1>1. ControlTypeOK /\ DataOK /\ SteadyInv => ReportedProceedsArrive
  <2>. SUFFICES ASSUME ControlTypeOK, DataOK, SteadyInv, Returned("ok") PROVE Cash(wallet) = owed
    BY DEF ReportedProceedsArrive
  <2>. QED
    BY OkIsDone, EndsOnPlan DEF DataOK
<1>. QED
  BY <1>1, SteadyIsInvariant, ControlTypeCorrect, DataIsTyped, PTL

\* An Ok leaves nothing to do but for fills since the balances were read, when
\* every leg handed over knows its condition or its YES token.
THEOREM OkIsAlwaysFixpoint ==
  ASSUME Calm, \A i \in 1..Len(Jobs) : \A l \in ToSet(Jobs[i]) : l.cid \/ l.yid
  PROVE  Spec => []OkIsFixpoint
<1>1. ControlTypeOK /\ DataOK /\ SteadyInv => OkIsFixpoint
  <2>. SUFFICES ASSUME ControlTypeOK, DataOK, SteadyInv, Returned("ok"), ~dirty
                PROVE  PlanCalls(wallet, Jobs) = <<>>
    BY DEF OkIsFixpoint
  <2>1. wallet \in Wallet
    BY DEF DataOK
  <2>2. PICK s \in Wallet : \A i \in 1..Len(Jobs) : Finally(wallet, s, Jobs[i])
    BY <2>1, OkIsDone, EndsOnPlan
  <2>. QED
    BY <2>1, <2>2, HandedOverAssumption, PlanSettles
<1>. QED
  BY <1>1, SteadyIsInvariant, ControlTypeCorrect, DataIsTyped, PTL

---------------------------------------------------------------------------
(* The wraps.                                                              *)

\* A wrap of these calls takes all the USDC.e there is.
Sweeps(calls) == wallet.usdce = 0 \/ calls = WrapCalls(wallet.usdce, wallet.allowance)

SweepInv ==
  /\ inflight.kind = "wrap" /\ ~(pc = "idle" /\ result = "err") => Sweeps(inflight.calls)
  /\ pc = "wrapsubmit" /\ ctx # "salvage" => Sweeps(wrapping)
  /\ pc = "idle" /\ result = "ok" /\ wrapped \in {"sent", "nothing"} =>
       wallet.usdce = 0 \/ inflight.kind = "wrap"
  /\ pc # "idle" => wrapped = "no"

\* Balances are 256-bit words, and so never above what an approve allows.
InWord == wallet.usdce <= Unlimited

\* A step that leaves the wallet and the relayer alone.
LEMMA SweepStays ==
  ASSUME SweepInv, wallet' = wallet, inflight' = inflight,
         inflight.kind = "wrap" /\ pc = "idle" /\ result = "err" => pc' = "idle" /\ result' = "err",
         pc' = "wrapsubmit" => pc = "wrapsubmit" /\ ctx' = ctx /\ wrapping' = wrapping,
         pc' = "idle" /\ result' = "ok" =>
           \/ wrapped' \notin {"sent", "nothing"} \/ wallet.usdce = 0
           \/ pc = "idle" /\ result = "ok" /\ wrapped' = wrapped,
         pc' # "idle" => wrapped' = "no"
  PROVE  SweepInv'
BY DEF SweepInv, Sweeps

\* What lands takes the USDC.e with it if it is a wrap the engine counts on.
LEMMA SweepLands ==
  ASSUME Calm, DataOK, SteadyInv, InWord, SweepInv, Land
  PROVE  SweepInv'
<1>. DEFINE run == RunBatch(wallet, inflight.calls)
<1>1. /\ inflight # NoAction /\ inflight' = NoAction /\ wallet' = run.w
      /\ pc' = pc /\ ctx' = ctx /\ result' = result /\ wrapping' = wrapping /\ wrapped' = wrapped
  BY DEF Land, Busy, engine, history
<1>2. NoAction.kind = "none" /\ wallet \in Wallet /\ wallet.usdce \in Nat
  BY DEF NoAction, DataOK, Wallet
<1>3. CASE inflight.kind = "chunk"
  <2>1. Loose
    BY <1>3 DEF SteadyInv, FlightInv
  <2>. QED
    BY <1>1, <1>2, <2>1 DEF SweepInv, Loose, WrapWhere
<1>4. CASE inflight.kind # "chunk"
  <2>1. inflight.kind = "wrap" /\ inflight.calls \in Seq(WrapCall)
    BY <1>1, <1>4 DEF SteadyInv, FlightInv, DataOK
  <2>2. CASE pc = "idle" /\ result = "err"
    BY <1>1, <1>2, <2>2 DEF SweepInv
  <2>3. CASE ~(pc = "idle" /\ result = "err")
    <3>1. Sweeps(inflight.calls)
      BY <2>1, <2>3 DEF SweepInv
    <3>2. CASE wallet.usdce = 0
      <4>1. run.w \in Wallet /\ WrapOf(wallet, run.w)
        BY <1>2, <2>1, WrapMovesNothing
      <4>2. run.w.usdce \in Nat /\ run.w.usdce <= 0
        BY <3>2, <4>1 DEF WrapOf, Wallet
      <4>3. wallet'.usdce = 0
        BY <1>1, <4>2
      <4>. QED
        BY <1>1, <1>2, <4>3 DEF SweepInv, Sweeps
    <3>3. CASE inflight.calls = WrapCalls(wallet.usdce, wallet.allowance)
      <4>1. wallet'.usdce = 0
        BY <1>1, <1>2, <3>3, WrapSweeps DEF InWord
      <4>. QED
        BY <1>1, <1>2, <4>1 DEF SweepInv, Sweeps
    <3>. QED
      BY <3>1, <3>2, <3>3 DEF Sweeps
  <2>. QED
    BY <2>2, <2>3
<1>. QED
  BY <1>3, <1>4

\* Every step keeps the wraps the engine counts on sized to the wallet.
LEMMA SweepStep ==
  ASSUME Calm, DataOK, SteadyInv, InWord, SweepInv, [Next]_vars
  PROVE  SweepInv'
<1>0. /\ inflight.kind = "chunk" => Loose
      /\ Settled => inflight.kind = "none"
      /\ inflight.kind = "none" <=> inflight = NoAction
      /\ pc # "idle" => wrapped = "no"
  BY DEF SteadyInv, FlightInv, Settled, Busy, NoAction, Calm, DataOK, SweepInv
<1>1. CASE Planning
  BY <1>0, <1>1, SweepStays
     DEF Planning, ReadBalances, ReadCash, PlanFails, PlanRead, PlannedCalls, PlannedLeftover,
         PlannedNothing, FailRound, chain, history
<1>2. CASE ChunkBusy \/ ChunkStillBusy \/ ChunkWaited \/ ChunkRejected \/ ChunkQuota \/ RebuildWaited
  BY <1>0, <1>2, SweepStays
     DEF ChunkBusy, ChunkStillBusy, ChunkWaited, ChunkRejected, ChunkQuota, RebuildWaited, FailRound,
         chain, history
<1>3. CASE ChunkSettled
  BY <1>0, <1>3, SweepStays DEF ChunkSettled, NextChunk, LastChunk, chain, history
<1>4. CASE ChunkAccepted \/ ChunkLost
  <2>1. /\ inflight'.kind = "chunk" /\ wallet' = wallet /\ pc' # "wrapsubmit" /\ pc' # "idle"
        /\ wrapped' = wrapped /\ pc # "idle"
    BY <1>4 DEF ChunkAccepted, ChunkLost, SubmitChunk, Accept, Action, FailRound
  <2>. QED
    BY <1>0, <2>1 DEF SweepInv
<1>5. CASE StartCycle
  BY <1>0, <1>5, SweepStays DEF StartCycle, chain
<1>6. CASE WrapNothing \/ WrapReadFails
  BY <1>0, <1>6, SweepStays DEF WrapNothing, WrapReadFails, EndWrap, chain
<1>7. CASE WrapRead
  <2>1. /\ wallet' = wallet /\ inflight' = inflight /\ pc = "wrapread" /\ pc' = "wrapsubmit" /\ ctx' = ctx
        /\ wrapping' = WrapCalls(wallet.usdce, wallet.allowance) /\ wrapped' = wrapped
    BY <1>7 DEF WrapRead, chain, history
  <2>. QED
    BY <1>0, <2>1 DEF SweepInv, Sweeps
<1>8. CASE WrapAccepted \/ WrapLost
  <2>1. /\ inflight' = [kind |-> "wrap", calls |-> wrapping] /\ wallet' = wallet
        /\ pc = "wrapsubmit" /\ pc' = "idle" /\ result' = IF ctx = "salvage" THEN "err" ELSE "ok"
    BY <1>8 DEF WrapAccepted, WrapLost, Accept, Action, EndWrap
  <2>. QED
    BY <2>1 DEF SweepInv, Sweeps
<1>9. CASE WrapBusy \/ WrapWaited
  BY <1>0, <1>9, SweepStays DEF WrapBusy, WrapWaited, chain, history
<1>10. CASE WrapRejected
  BY <1>0, <1>10, SweepStays DEF WrapRejected, EndWrap, chain
<1>11. CASE ConvertSettled \/ ProcessMerge \/ ProcessConvert \/ DirectLost \/ DirectRejected \/ Drop
  BY <1>11 DEF ConvertSettled, ProcessMerge, ProcessConvert, DirectLost, DirectRejected, Drop, Calm,
               SteadyInv, FlightInv
<1>12. CASE Land
  BY <1>12, SweepLands
<1>13. CASE Trade
  <2>1. wallet \in Wallet /\ Bought(wallet, wallet')
    BY <1>13 DEF Trade, Bought, DataOK, Calm
  <2>2. wallet'.usdce = wallet.usdce /\ wallet'.allowance = wallet.allowance
    BY <2>1, TradeTyped
  <2>3. /\ inflight' = inflight /\ pc' = pc /\ ctx' = ctx /\ result' = result
        /\ wrapping' = wrapping /\ wrapped' = wrapped
    BY <1>13 DEF Trade, engine
  <2>. QED
    BY <2>2, <2>3 DEF SweepInv, Sweeps
<1>14. CASE UNCHANGED vars
  BY <1>0, <1>14, SweepStays DEF vars, chain, engine, history
<1>. QED
  BY <1>1, <1>2, <1>3, <1>4, <1>5, <1>6, <1>7, <1>8, <1>9, <1>10, <1>11, <1>12, <1>13, <1>14
     DEF Next, EngineStep, Operation, Submitting, Wrapping

\* After an Ok whose wrap was sent or found nothing, no USDC.e is left once
\* the relayer is idle, as long as the balance is a 256-bit word.
THEOREM CashIsAlwaysWrapped ==
  ASSUME Calm
  PROVE  Spec /\ []InWord => []CashIsWrapped
<1>1. Init => SweepInv
  BY DEF Init, SweepInv, NoAction
<1>2. ControlTypeOK /\ DataOK /\ SteadyInv /\ InWord /\ SweepInv /\ [Next]_vars => SweepInv'
  BY SweepStep
<1>3. DataOK /\ SweepInv => CashIsWrapped
  BY DEF SweepInv, CashIsWrapped, Returned, Busy, DataOK, NoAction
<1>. QED
  BY <1>1, <1>2, <1>3, SteadyIsInvariant, ControlTypeCorrect, DataIsTyped, PTL DEF Spec
=============================================================================
