---------------------------- MODULE StreamsProofs ----------------------------
(***************************************************************************)
(* The properties of Streams for any number of connections, any ladder,    *)
(* interval, deadline, cap and bounds: a silent peer is given up in time,  *)
(* a trade is credited again only after at least Cap others, the copies of *)
(* a shard are never all down to be recycled, no fill is missed without a  *)
(* fault, and the book converges.                                          *)
(***************************************************************************)
EXTENDS Streams, SequenceTheorems, TLAPS

Frames ==
  [kind : {"book"}, book : Ladders] \union
  [kind : {"delta"}, side : B!BookSides, price : Prices, size : Sizes] \union
  [kind : {"trade"}, trade : Trades, status : {"retrying", "final"}]
ConnType ==
  [down : {"no", "boot", "fault", "recycle", "late"}, gap : Nat, due : BOOLEAN, quiet : Nat,
   pong : BOOLEAN, ripe : {"no", "due", "late"}, silent : Int, feed : Seq(Frames)]

\* The connections, and what they carry, have their types (LiveSocket).
TypeOK ==
  /\ fan \in Fans
  /\ conn \in [Conns(fan) -> ConnType]
  /\ ladder \in Ladders

\* A connection that goes down is fresh.
LEMMA DownTyped ==
  ASSUME NEW why \in {"no", "boot", "fault", "recycle", "late"}, NEW ripe \in {"no", "due", "late"}
  PROVE  DownFor(why, ripe) \in ConnType
<1>1. <<>> \in Seq(Frames)
  BY EmptySeq
<1>. QED
  BY <1>1 DEF DownFor, ConnType

\* What a broken connection leaves is one that is down.
LEMMA DropTyped ==
  ASSUME TypeOK, NEW c \in Conns(fan), NEW why \in {"no", "boot", "fault", "recycle", "late"}, Drop(c, why)
  PROVE  /\ conn' \in [Conns(fan) -> ConnType]
         /\ \E ripe \in {"no", "due", "late"} : conn' = [conn EXCEPT ![c] = DownFor(why, ripe)]
<1>. DEFINE ripe == IF conn[c].ripe = "due" THEN "late" ELSE conn[c].ripe
<1>1. ripe \in {"no", "due", "late"}
  BY DEF TypeOK, ConnType
<1>2. conn' = [conn EXCEPT ![c] = DownFor(why, ripe)]
  BY DEF Drop, TypeOK
<1>. QED
  BY <1>1, <1>2, DownTyped DEF TypeOK

\* A frame sent to everyone is appended where it is heard.
LEMMA BroadcastTyped ==
  ASSUME TypeOK, NEW frame \in Frames, Broadcast(frame)
  PROVE  /\ conn' \in [Conns(fan) -> ConnType]
         /\ \A c \in Conns(fan) : \E f \in Seq(Frames) : conn'[c] = [conn[c] EXCEPT !.feed = f]
<1>1. ASSUME NEW c \in Conns(fan)
      PROVE  \E f \in Seq(Frames) : conn'[c] = [conn[c] EXCEPT !.feed = f]
  <2>1. conn[c] \in ConnType /\ conn[c].feed \in Seq(Frames)
    BY DEF TypeOK, ConnType
  <2>2. Append(conn[c].feed, frame) \in Seq(Frames)
    BY <2>1, AppendProperties
  <2>3. conn[c] = [conn[c] EXCEPT !.feed = conn[c].feed]
    BY <2>1 DEF ConnType
  <2>4. conn'[c] = IF Up(c) /\ conn[c].silent = -1
                   THEN [conn[c] EXCEPT !.feed = Append(conn[c].feed, frame)] ELSE conn[c]
    BY DEF Broadcast, TypeOK
  <2>. QED
    BY <2>1, <2>2, <2>3, <2>4
<1>2. DOMAIN conn' = Conns(fan) /\ conn' = [c \in Conns(fan) |-> conn'[c]]
  BY DEF Broadcast, TypeOK
<1>3. ASSUME NEW c \in Conns(fan) PROVE conn'[c] \in ConnType
  BY <1>1 DEF TypeOK, ConnType
<1>. QED
  BY <1>1, <1>2, <1>3

---------------------------------------------------------------------------
(* The deadline.                                                           *)

\* The peer has not been silent for longer than no PONG was read; a PONG on its
\* way was sent before; a connection that is not due to look at the deadline was
\* within it when it last looked.
Heard(k) ==
  /\ k.silent >= -1 /\ k.silent <= k.quiet /\ (k.pong => k.silent <= 0)
  /\ k.quiet <= PongTimeout + 1
  /\ k.down = "no" /\ ~k.due => k.quiet <= PongTimeout
DeadlineInv == TypeOK /\ \A c \in Conns(fan) : Heard(conn[c])

\* A connection that is down, or just came up, has not been waiting.
LEMMA FreshHeard ==
  ASSUME NEW why, NEW ripe
  PROVE  Heard(DownFor(why, ripe)) \/ why = "no"
BY StreamsAssumption DEF Heard, DownFor

\* Going down for a fault keeps the invariant.
LEMMA DroppedHeard ==
  ASSUME DeadlineInv, NEW c \in Conns(fan), Drop(c, "fault"), UNCHANGED <<fan, ladder>>
  PROVE  DeadlineInv'
<1>1. conn' \in [Conns(fan) -> ConnType]
  BY DropTyped DEF DeadlineInv
<1>2. PICK ripe \in {"no", "due", "late"} : conn' = [conn EXCEPT ![c] = DownFor("fault", ripe)]
  BY DropTyped DEF DeadlineInv
<1>3. Heard(DownFor("fault", ripe))
  BY FreshHeard
<1>. QED
  BY <1>1, <1>2, <1>3 DEF DeadlineInv, TypeOK, Conns

\* A frame more or less in a feed changes nothing of what was heard.
LEMMA FedHeard ==
  ASSUME NEW k \in ConnType, Heard(k), NEW f \in Seq(Frames)
  PROVE  Heard([k EXCEPT !.feed = f])
BY DEF Heard, ConnType

\* Nor do the timers of a connection that is down.
LEMMA ConfinedHeard ==
  ASSUME NEW k \in ConnType, Heard(k), NEW gap \in Nat, NEW ripe \in {"no", "due", "late"},
         NEW a, a = [k EXCEPT !.gap = gap, !.ripe = ripe]
  PROVE  a \in ConnType /\ Heard(a)
BY DEF Heard, ConnType

\* A unit passes for a connection that had looked at its deadline and had no PONG
\* to read.
LEMMA AgedHeard ==
  ASSUME NEW k \in ConnType, Heard(k), k.down = "no", ~k.due, ~k.pong, NEW ripe \in {"no", "due", "late"},
         NEW a, a = [k EXCEPT !.due = TRUE, !.quiet = k.quiet + 1, !.ripe = ripe,
                              !.silent = IF k.silent = -1 THEN -1 ELSE k.silent + 1]
  PROVE  a \in ConnType /\ Heard(a)
<1>1. k.silent \in Int /\ k.quiet \in Nat /\ k.quiet <= PongTimeout /\ PongTimeout \in Nat
  BY StreamsAssumption DEF Heard, ConnType
<1>2. a \in ConnType
  <2>. DEFINE silent == IF k.silent = -1 THEN -1 ELSE k.silent + 1
  <2>1. silent \in Int /\ k.quiet + 1 \in Nat
    BY <1>1
  <2>2. a = [k EXCEPT !.due = TRUE, !.quiet = k.quiet + 1, !.ripe = ripe, !.silent = silent]
    OBVIOUS
  <2>. HIDE DEF silent
  <2>. QED
    BY <2>1, <2>2 DEF ConnType
<1>3. /\ a.due = TRUE /\ a.quiet = k.quiet + 1 /\ a.pong = k.pong
      /\ a.silent = IF k.silent = -1 THEN -1 ELSE k.silent + 1
  BY DEF ConnType
<1>. QED
  BY <1>1, <1>2, <1>3 DEF Heard

\* One connection changes, and stays typed and heard.
LEMMA OneHeard ==
  ASSUME DeadlineInv, UNCHANGED <<fan, ladder>>, NEW c \in Conns(fan), NEW k \in ConnType, Heard(k),
         conn' = [conn EXCEPT ![c] = k]
  PROVE  DeadlineInv'
BY DEF DeadlineInv, TypeOK, Conns

\* The invariant is kept by every step.
LEMMA DeadlineStepwise ==
  ASSUME DeadlineInv, [Next]_vars
  PROVE  DeadlineInv'
<1>. USE DEF feeds
<1>0. TypeOK /\ \A c \in Conns(fan) : conn[c] \in ConnType /\ Heard(conn[c]) /\ conn[c].feed \in Seq(Frames)
  BY DEF DeadlineInv, TypeOK, ConnType
<1>1. CASE Pass
  <2>1. ASSUME NEW c \in Conns(fan) PROVE conn'[c] \in ConnType /\ Heard(conn'[c])
    <3>1. conn'[c] = Passed(c, clock')
      BY <1>0, <1>1 DEF Pass, TypeOK
    <3>2. CASE conn[c].down # "no"
      <4>1. conn[c] \in ConnType /\ Heard(conn[c])
        BY <1>0
      <4>. DEFINE gap  == IF conn[c].gap < Reconnect THEN conn[c].gap + 1 ELSE conn[c].gap
                  ripe == IF ~OnGrid(c, clock') THEN conn[c].ripe ELSE "late"
      <4>2. gap \in Nat /\ ripe \in {"no", "due", "late"}
        BY <4>1 DEF ConnType
      <4>3. conn'[c] = [conn[c] EXCEPT !.gap = gap, !.ripe = ripe]
        BY <3>1, <3>2, <4>1 DEF Passed, ConnType
      <4>. HIDE DEF gap, ripe
      <4>. QED
        BY <4>1, <4>2, <4>3, ConfinedHeard
    <3>3. CASE conn[c].down = "no"
      <4>1. ~conn[c].due /\ ~conn[c].pong
        BY <1>0, <1>1, <3>3 DEF Pass, Up, TypeOK
      <4>2. conn[c] \in ConnType /\ Heard(conn[c])
        BY <1>0
      <4>3. PICK ripe \in {"no", "due", "late"} :
              conn'[c] = [conn[c] EXCEPT !.due = TRUE, !.quiet = conn[c].quiet + 1, !.ripe = ripe,
                                         !.silent = IF conn[c].silent = -1 THEN -1 ELSE conn[c].silent + 1]
        BY <3>1, <3>3, <4>2 DEF Passed, ConnType
      <4>. QED
        BY <3>3, <4>1, <4>2, <4>3, AgedHeard
    <3>. QED
      BY <3>2, <3>3
  <2>2. conn' = [c \in Conns(fan) |-> conn'[c]]
    BY <1>0, <1>1 DEF Pass, TypeOK
  <2>. QED
    BY <1>0, <1>1, <2>1, <2>2 DEF Pass, DeadlineInv, TypeOK, Conns
<1>2. ASSUME NEW frame \in Frames, Broadcast(frame), fan' = fan, ladder' \in Ladders PROVE DeadlineInv'
  <2>1. conn' \in [Conns(fan) -> ConnType]
    BY <1>0, <1>2, BroadcastTyped
  <2>2. \A c \in Conns(fan) : Heard(conn'[c])
    <3>. SUFFICES ASSUME NEW c \in Conns(fan) PROVE Heard(conn'[c])
      OBVIOUS
    <3>1. PICK f \in Seq(Frames) : conn'[c] = [conn[c] EXCEPT !.feed = f]
      BY <1>0, <1>2, BroadcastTyped
    <3>2. conn[c] \in ConnType /\ Heard(conn[c])
      BY <1>0
    <3>. QED
      BY <3>1, <3>2, FedHeard
  <2>. QED
    BY <1>0, <1>2, <2>1, <2>2 DEF DeadlineInv, TypeOK, Conns
<1>3. CASE Quote
  <2>1. PICK s \in B!BookSides, p \in Prices, n \in Sizes :
          /\ ladder' = [ladder EXCEPT ![s][p] = n]
          /\ Broadcast([kind |-> "delta", side |-> s, price |-> p, size |-> n])
    BY <1>3 DEF Quote
  <2>2. ladder' \in Ladders
    BY <1>0, <2>1 DEF TypeOK, Ladders
  <2>3. [kind |-> "delta", side |-> s, price |-> p, size |-> n] \in Frames
    BY DEF Frames
  <2>. QED
    BY <1>2, <1>3, <2>1, <2>2, <2>3 DEF Quote
<1>4. CASE Announce
  <2>1. PICK t \in Trades, status \in {"retrying", "final"} :
          Broadcast([kind |-> "trade", trade |-> t, status |-> status])
    BY <1>4 DEF Announce
  <2>2. [kind |-> "trade", trade |-> t, status |-> status] \in Frames
    BY DEF Frames
  <2>3. fan' = fan /\ ladder' \in Ladders
    BY <1>0, <1>4 DEF Announce, TypeOK
  <2>. QED
    BY <1>2, <2>1, <2>2, <2>3
<1>5. ASSUME NEW c \in DOMAIN conn, Connect(c) PROVE DeadlineInv'
  <2>1. c \in Conns(fan) /\ conn[c].ripe \in {"no", "due", "late"}
    BY <1>0, <1>5 DEF TypeOK, ConnType
  <2>2. PICK f \in Seq(Frames) :
          conn' = [conn EXCEPT ![c] = [DownFor("no", conn[c].ripe) EXCEPT !.due = TRUE, !.feed = f]]
    <3>1. [kind |-> "book", book |-> ladder] \in Frames
      BY <1>0 DEF TypeOK, Frames
    <3>2. <<>> \in Seq(Frames) /\ <<[kind |-> "book", book |-> ladder]>> \in Seq(Frames)
      BY <3>1, EmptySeq
    <3>. QED
      BY <1>5, <3>2 DEF Connect
  <2>3. [DownFor("no", conn[c].ripe) EXCEPT !.due = TRUE, !.feed = f] \in ConnType
    <3>1. DownFor("no", conn[c].ripe) \in ConnType
      BY <2>1, DownTyped
    <3>. QED
      BY <3>1 DEF ConnType
  <2>4. Heard([DownFor("no", conn[c].ripe) EXCEPT !.due = TRUE, !.feed = f])
    BY StreamsAssumption DEF Heard, DownFor
  <2>. QED
    BY <1>5, <2>1, <2>2, <2>3, <2>4, OneHeard DEF Connect
<1>6. ASSUME NEW c \in DOMAIN conn, PingTick(c) PROVE DeadlineInv'
  <2>1. c \in Conns(fan)
    BY <1>0, <1>6 DEF TypeOK
  <2>2. CASE Deadline(c)
    BY <1>6, <2>1, <2>2, DroppedHeard DEF PingTick
  <2>3. CASE ~Deadline(c)
    <3>1. conn' = [conn EXCEPT ![c] = Pinged(c)]
      BY <1>6, <2>3 DEF PingTick
    <3>2. Pinged(c) \in ConnType /\ Heard(Pinged(c))
      <4>. DEFINE k == conn[c]
      <4>1. k \in ConnType /\ Heard(k) /\ ~(k.quiet > PongTimeout)
        BY <1>0, <2>1, <2>3 DEF Deadline
      <4>2. (k.pong \/ k.silent = -1) \in BOOLEAN
        BY <4>1 DEF ConnType
      <4>3. Pinged(c) = [k EXCEPT !.due = FALSE, !.pong = (k.pong \/ k.silent = -1)]
        BY <4>1 DEF Pinged, ConnType
      <4>4. Pinged(c) \in ConnType
        BY <4>1, <4>2, <4>3 DEF ConnType
      <4>5. /\ Pinged(c).silent = k.silent /\ Pinged(c).quiet = k.quiet
            /\ Pinged(c).pong = (k.pong \/ k.silent = -1)
        BY <4>1, <4>3 DEF ConnType
      <4>6. k.silent \in Int /\ k.quiet \in Nat
        BY <4>1 DEF ConnType
      <4>7. Pinged(c).pong => k.silent <= 0
        <5>1. k.pong => k.silent <= 0
          BY <4>1 DEF Heard
        <5>2. k.silent = -1 => k.silent <= 0
          OBVIOUS
        <5>. QED
          BY <4>5, <5>1, <5>2, Zenon
      <4>8. k.silent >= -1 /\ k.silent <= k.quiet
        BY <4>1 DEF Heard
      <4>. HIDE DEF k
      <4>. QED
        BY <4>1, <4>4, <4>5, <4>6, <4>7, <4>8, StreamsAssumption DEF Heard
    <3>. QED
      BY <1>6, <2>1, <3>1, <3>2, OneHeard DEF PingTick
  <2>. QED
    BY <2>2, <2>3
<1>7. ASSUME NEW c \in DOMAIN conn, ReadPong(c) PROVE DeadlineInv'
  <2>. DEFINE k == [conn[c] EXCEPT !.pong = FALSE, !.quiet = 0]
  <2>1. c \in Conns(fan)
    BY <1>0, <1>7 DEF TypeOK
  <2>2. conn' = [conn EXCEPT ![c] = k]
    BY <1>0, <1>7, <2>1 DEF ReadPong, TypeOK, ConnType
  <2>3. k \in ConnType /\ Heard(k)
    <3>1. conn[c] \in ConnType /\ conn[c].silent <= 0 /\ Heard(conn[c])
      BY <1>0, <1>7, <2>1 DEF ReadPong, Heard
    <3>2. k \in ConnType
      BY <3>1 DEF ConnType
    <3>3. /\ k.silent = conn[c].silent /\ k.quiet = 0 /\ k.pong = FALSE
      BY <3>1 DEF ConnType
    <3>4. conn[c].silent \in Int
      BY <3>1 DEF ConnType
    <3>. QED
      BY <3>1, <3>2, <3>3, <3>4, StreamsAssumption DEF Heard
  <2>. QED
    BY <1>7, <2>1, <2>2, <2>3, OneHeard DEF ReadPong
<1>8. ASSUME NEW c \in DOMAIN conn, Recycle(c) PROVE DeadlineInv'
  <2>1. c \in Conns(fan)
    BY <1>0, <1>8 DEF TypeOK
  <2>2. PICK why \in {"recycle", "late"} : conn' = [conn EXCEPT ![c] = DownFor(why, "no")]
    BY <1>8 DEF Recycle
  <2>3. DownFor(why, "no") \in ConnType /\ Heard(DownFor(why, "no"))
    BY DownTyped, FreshHeard
  <2>. QED
    BY <1>8, <2>1, <2>2, <2>3, OneHeard DEF Recycle
<1>9. ASSUME NEW c \in DOMAIN conn, Breaks(c) PROVE DeadlineInv'
  BY <1>0, <1>9, DroppedHeard DEF Breaks, TypeOK
<1>10. ASSUME NEW c \in DOMAIN conn, GoesSilent(c) PROVE DeadlineInv'
  <2>. DEFINE k == [conn[c] EXCEPT !.silent = 0]
  <2>1. c \in Conns(fan)
    BY <1>0, <1>10 DEF TypeOK
  <2>2. conn' = [conn EXCEPT ![c] = k]
    BY <1>0, <1>10, <2>1 DEF GoesSilent, TypeOK, ConnType
  <2>3. k \in ConnType /\ Heard(k)
    BY <1>0, <2>1 DEF Heard, ConnType
  <2>. QED
    BY <1>10, <2>1, <2>2, <2>3, OneHeard DEF GoesSilent
<1>11. ASSUME NEW c \in DOMAIN conn, ReadFrame(c) PROVE DeadlineInv'
  <2>. DEFINE k == [conn[c] EXCEPT !.feed = Tail(conn[c].feed)]
  <2>1. c \in Conns(fan) /\ conn[c].feed # <<>>
    BY <1>0, <1>11 DEF TypeOK, ReadFrame
  <2>2. conn' = [conn EXCEPT ![c] = k]
    BY <1>0, <1>11, <2>1 DEF ReadFrame, TypeOK, ConnType
  <2>3. Tail(conn[c].feed) \in Seq(Frames)
    BY <1>0, <2>1, HeadTailProperties
  <2>4. k \in ConnType /\ Heard(k)
    BY <1>0, <2>1, <2>3, FedHeard DEF ConnType
  <2>. QED
    BY <1>11, <2>1, <2>2, <2>4, OneHeard DEF ReadFrame
<1>12. CASE UNCHANGED vars
  BY <1>12 DEF vars, DeadlineInv, TypeOK, Conns, Heard
<1>. QED
  BY <1>1, <1>3, <1>4, <1>5, <1>6, <1>7, <1>8, <1>9, <1>10, <1>11, <1>12 DEF Next

\* However pings, PONGs, frames and faults interleave, a connection whose peer fell
\* silent is given up within one unit more than the PONG timeout.
THEOREM HalfOpenGivenUp == Spec => []HalfOpenDetected
<1>1. Init => DeadlineInv
  <2>. SUFFICES ASSUME Init PROVE DeadlineInv
    OBVIOUS
  <2>1. DownFor("boot", "no") \in ConnType /\ Heard(DownFor("boot", "no"))
    BY DownTyped, FreshHeard
  <2>. QED
    BY <2>1 DEF Init, DeadlineInv, TypeOK
<1>2. DeadlineInv /\ [Next]_vars => DeadlineInv'
  BY DeadlineStepwise
<1>3. DeadlineInv => HalfOpenDetected
  <2>. SUFFICES ASSUME DeadlineInv, NEW c \in Conns(fan) PROVE conn[c].silent <= PongTimeout + 1
    BY DEF HalfOpenDetected, DeadlineInv, TypeOK
  <2>1. Heard(conn[c]) /\ conn[c].silent \in Int /\ conn[c].quiet \in Nat
    BY DEF DeadlineInv, TypeOK, ConnType
  <2>. QED
    BY <2>1, StreamsAssumption DEF Heard
<1>. QED
  BY <1>1, <1>2, <1>3, PTL DEF Spec

---------------------------------------------------------------------------
(* SeenIds.                                                                *)

\* The ids remembered are the last ones credited, up to Cap, oldest first.
Window(record, credited) ==
  LET order == record.order
      n     == Len(record.order)
      m     == Len(credited)
  IN  /\ n <= Cap /\ n <= m /\ (n < Cap => n = m)
      /\ \A k \in 1..n : order[k] = credited[m - n + k]
      /\ \A t \in Trades : t \in record.set <=> \E k \in 1..n : order[k] = t
Apart(credited) ==
  \A i, j \in 1..Len(credited) : i < j /\ credited[i] = credited[j] => j - i > Cap
SeenType == [set : SUBSET Trades, order : Seq(Trades)]
LedgerInv == seen \in SeenType /\ credits \in Seq(Trades) /\ Window(seen, credits) /\ Apart(credits)

\* An id that is not remembered differs from each of the last Cap credited.
LEMMA CreditedOnce ==
  ASSUME NEW s \in SeenType, NEW l \in Seq(Trades), Window(s, l), Apart(l), NEW t \in Trades, t \notin s.set
  PROVE  Apart(Append(l, t))
<1>. DEFINE m == Len(l)
            n == Len(s.order)
            a == Append(l, t)
<1>1. m \in Nat /\ n \in Nat /\ s.order \in Seq(Trades) /\ Cap \in Nat
  BY StreamsAssumption, LenProperties DEF SeenType
<1>2. Len(a) = m + 1 /\ a[m + 1] = t /\ \A i \in 1..m : a[i] = l[i]
  BY AppendProperties
<1>3. SUFFICES ASSUME NEW i \in 1..(m + 1), NEW j \in 1..(m + 1), i < j, a[i] = a[j] PROVE j - i > Cap
  BY <1>2 DEF Apart
<1>4. CASE j <= m
  BY <1>1, <1>2, <1>3, <1>4 DEF Apart
<1>5. CASE j = m + 1
  <2>1. i \in 1..m /\ l[i] = t
    BY <1>1, <1>2, <1>3, <1>5
  <2>2. CASE i > m - n
    <3>0. n <= m
      BY DEF Window
    <3>1. (i - (m - n)) \in 1..n /\ m - n + (i - (m - n)) = i
      <4>. HIDE DEF m, n
      <4>. QED
        BY <1>1, <2>1, <2>2, <3>0
    <3>2. s.order[i - (m - n)] = t
      BY <2>1, <3>1 DEF Window
    <3>. QED
      BY <3>1, <3>2 DEF Window
  <2>3. CASE i <= m - n
    <3>1. n <= Cap /\ n <= m /\ (n < Cap => n = m)
      BY DEF Window
    <3>. QED
      BY <1>1, <1>5, <2>1, <2>3, <3>1
  <2>. QED
    BY <1>1, <2>1, <2>2, <2>3
<1>. QED
  BY <1>1, <1>3, <1>4, <1>5

\* Inserting an id that is new appends it and forgets the oldest beyond Cap.
LEMMA InsertedTyped ==
  ASSUME NEW s \in SeenType, NEW t \in Trades
  PROVE  S!Insert(s, t, Cap) \in SeenType
<1>1. Append(s.order, t) \in Seq(Trades) /\ Append(s.order, t) # <<>>
  BY AppendProperties DEF SeenType
<1>2. Tail(Append(s.order, t)) \in Seq(Trades)
  BY <1>1, HeadTailProperties
<1>. QED
  BY <1>1, <1>2 DEF S!Insert, SeenType

\* The window moves on with each credit.
LEMMA WindowMoves ==
  ASSUME NEW s \in SeenType, NEW l \in Seq(Trades), Window(s, l), Apart(l), NEW t \in Trades, t \notin s.set
  PROVE  Window(S!Insert(s, t, Cap), Append(l, t))
<1>. DEFINE m == Len(l)
            n == Len(s.order)
            a == Append(l, t)
            o == Append(s.order, t)
            r == S!Insert(s, t, Cap)
<1>1. m \in Nat /\ n \in Nat /\ s.order \in Seq(Trades) /\ Cap \in Nat
  BY StreamsAssumption, LenProperties DEF SeenType
<1>2. Len(a) = m + 1 /\ a[m + 1] = t /\ \A i \in 1..m : a[i] = l[i]
  BY AppendProperties
<1>3. /\ Len(o) = n + 1 /\ o[n + 1] = t /\ \A i \in 1..n : o[i] = s.order[i]
      /\ o \in Seq(Trades) /\ o # <<>>
  BY <1>1, AppendProperties
<1>4. n <= Cap /\ n <= m /\ (n < Cap => n = m)
  BY DEF Window
<1>5. \A k \in 1..n : s.order[k] = l[m - n + k]
  BY DEF Window
<1>6. \A x \in Trades : x \in s.set <=> \E k \in 1..n : s.order[k] = x
  BY DEF Window
<1>0. Apart(a)
  BY CreditedOnce
<1>11. n + 1 <= Cap => r.order = o /\ r.set = s.set \union {t}
  BY <1>1, <1>3 DEF S!Insert
<1>12. n = Cap => r.order = Tail(o) /\ r.set = (s.set \union {t}) \ {Head(o)}
  BY <1>1, <1>3 DEF S!Insert
<1>. SUFFICES Window(r, a)
  OBVIOUS
<1>. HIDE DEF m, n, a, o, r
<1>7. \A k \in 1..(n + 1) : o[k] = a[m - n + k]
  <2>. SUFFICES ASSUME NEW k \in 1..(n + 1) PROVE o[k] = a[m - n + k]
    OBVIOUS
  <2>1. CASE k = n + 1
    BY <1>1, <1>2, <1>3, <2>1
  <2>2. CASE k \in 1..n
    <3>1. (m - n + k) \in 1..m
      BY <1>1, <1>4, <2>2
    <3>. QED
      BY <1>2, <1>3, <1>5, <2>2, <3>1
  <2>. QED
    BY <1>1, <2>1, <2>2
<1>8. \A x \in Trades : x \in s.set \union {t} <=> \E k \in 1..(n + 1) : o[k] = x
  <2>. SUFFICES ASSUME NEW x \in Trades PROVE x \in s.set \union {t} <=> \E k \in 1..(n + 1) : o[k] = x
    OBVIOUS
  <2>1. CASE x = t
    BY <1>1, <1>3, <2>1
  <2>2. CASE x # t
    BY <1>1, <1>3, <1>6, <2>2
  <2>. QED
    BY <2>1, <2>2
<1>9. CASE n + 1 <= Cap
  <2>1. r.order = o /\ r.set = s.set \union {t}
    BY <1>9, <1>11
  <2>2. n + 1 <= m + 1 /\ (n + 1 < Cap => n + 1 = m + 1) /\ m + 1 - (n + 1) = m - n
    BY <1>1, <1>4
  <2>3. \A k \in 1..(n + 1) : r.order[k] = a[(m + 1) - (n + 1) + k]
    BY <1>1, <1>7, <2>1, <2>2
  <2>5. Len(r.order) = n + 1 /\ Len(a) = m + 1
    BY <1>2, <1>3, <2>1
  <2>4. \A x \in Trades : x \in r.set <=> \E k \in 1..(n + 1) : r.order[k] = x
    BY <1>8, <2>1
  <2>. QED
    BY <1>9, <2>2, <2>3, <2>4, <2>5 DEF Window
<1>10. CASE n = Cap
  <2>1. r.order = Tail(o) /\ r.set = (s.set \union {t}) \ {Head(o)}
    BY <1>10, <1>12
  <2>2. Len(Tail(o)) = n /\ (\A k \in 1..n : Tail(o)[k] = o[k + 1]) /\ Head(o) = o[1]
    BY <1>1, <1>3, HeadTailProperties
  <2>3. \A k \in 2..(n + 1) : o[k] # o[1]
    <3>1. SUFFICES ASSUME NEW k \in 2..(n + 1), o[k] = o[1] PROVE FALSE
      OBVIOUS
    <3>2. /\ (m - n + 1) \in 1..(m + 1) /\ (m - n + k) \in 1..(m + 1) /\ m - n + 1 < m - n + k
          /\ (m - n + k) - (m - n + 1) <= Cap
      BY <1>1, <1>4, <1>10, <3>1
    <3>3. a[m - n + 1] = a[m - n + k]
      BY <1>1, <1>7, <3>1
    <3>5. Len(a) = m + 1 /\ m - n + 1 \in Int /\ m - n + k \in Int
      BY <1>1, <1>2, <3>1
    <3>. QED
      BY <1>0, <1>1, <3>2, <3>3, <3>5 DEF Apart
  <2>4. \A k \in 1..n : Tail(o)[k] = a[(m + 1) - n + k]
    <3>. SUFFICES ASSUME NEW k \in 1..n PROVE Tail(o)[k] = a[(m + 1) - n + k]
      OBVIOUS
    <3>1. k + 1 \in 1..(n + 1) /\ m - n + (k + 1) = (m + 1) - n + k
      BY <1>1
    <3>. QED
      BY <1>7, <2>2, <3>1
  <2>5. \A x \in Trades : x \in (s.set \union {t}) \ {Head(o)} <=> \E k \in 1..n : Tail(o)[k] = x
    <3>. SUFFICES ASSUME NEW x \in Trades
                  PROVE  x \in (s.set \union {t}) \ {Head(o)} <=> \E k \in 1..n : Tail(o)[k] = x
      OBVIOUS
    <3>1. ASSUME NEW k \in 1..n, Tail(o)[k] = x PROVE x \in s.set \union {t} /\ x # Head(o)
      <4>1. k + 1 \in 1..(n + 1) /\ k + 1 \in 2..(n + 1) /\ o[k + 1] = x
        BY <1>1, <2>2, <3>1
      <4>. QED
        BY <1>8, <2>2, <2>3, <4>1
    <3>2. ASSUME x \in s.set \union {t}, x # Head(o) PROVE \E k \in 1..n : Tail(o)[k] = x
      <4>1. PICK j \in 1..(n + 1) : o[j] = x
        BY <1>8, <3>2
      <4>2. j - 1 \in 1..n /\ (j - 1) + 1 = j
        BY <1>1, <2>2, <3>2, <4>1
      <4>3. Tail(o)[j - 1] = x
        BY <2>2, <4>1, <4>2
      <4>. QED
        BY <4>2, <4>3
    <3>. QED
      BY <3>1, <3>2
  <2>6. n <= Cap /\ n <= m + 1 /\ ~(n < Cap)
    BY <1>1, <1>4, <1>10
  <2>7. \A k \in 1..n : r.order[k] = a[(m + 1) - n + k]
    BY <1>1, <2>1, <2>4
  <2>9. Len(r.order) = n /\ Len(a) = m + 1
    BY <1>2, <2>1, <2>2
  <2>8. \A x \in Trades : x \in r.set <=> \E k \in 1..n : r.order[k] = x
    BY <2>1, <2>5
  <2>. QED
    BY <2>6, <2>7, <2>8, <2>9 DEF Window
<1>. QED
  BY <1>1, <1>4, <1>9, <1>10

\* Every step leaves the ledger alone or handles one trade.
LEMMA LedgerStepwise ==
  ASSUME TypeOK, LedgerInv, [Next]_vars
  PROVE  LedgerInv'
<1>1. CASE UNCHANGED <<seen, credits>>
  BY <1>1 DEF LedgerInv, Window, Apart
<1>2. ASSUME NEW t \in Trades, NEW status, OnTrade(t, status) PROVE LedgerInv'
  <2>1. CASE status # "final" \/ t \in seen.set
    <3>1. seen' = seen /\ credits' = credits
      BY <1>2, <2>1 DEF OnTrade, S!Insert
    <3>. QED
      BY <1>1, <3>1
  <2>2. CASE status = "final" /\ t \notin seen.set
    <3>1. seen' = S!Insert(seen, t, Cap) /\ credits' = Append(credits, t)
      BY <1>2, <2>2 DEF OnTrade
    <3>2. seen' \in SeenType /\ credits' \in Seq(Trades)
      BY <3>1, InsertedTyped, AppendProperties DEF LedgerInv
    <3>3. Window(seen', credits') /\ Apart(credits')
      BY <2>2, <3>1, WindowMoves, CreditedOnce DEF LedgerInv
    <3>. QED
      BY <3>2, <3>3 DEF LedgerInv
  <2>. QED
    BY <2>1, <2>2
<1>3. ASSUME NEW c \in DOMAIN conn, ReadFrame(c) PROVE LedgerInv'
  <2>. DEFINE frame == Head(conn[c].feed)
  <2>1. frame \in Frames
    <3>1. conn[c].feed \in Seq(Frames) /\ conn[c].feed # <<>>
      BY <1>3 DEF ReadFrame, TypeOK, ConnType
    <3>. QED
      BY <3>1, HeadTailProperties
  <2>2. OnFrame(frame)
    BY <1>3 DEF ReadFrame
  <2>. HIDE DEF frame
  <2>3. CASE frame.kind = "trade"
    <3>1. frame.trade \in Trades
      BY <2>1, <2>3 DEF Frames
    <3>2. OnTrade(frame.trade, frame.status)
      BY <2>2, <2>3 DEF OnFrame
    <3>. QED
      BY <1>2, <3>1, <3>2
  <2>4. CASE frame.kind \in {"book", "delta"}
    BY <1>1, <2>2, <2>4 DEF OnFrame
  <2>. QED
    BY <2>1, <2>3, <2>4 DEF Frames
<1>4. CASE Pass \/ Quote \/ Announce
  BY <1>1, <1>4 DEF Pass, Quote, Announce, feeds
<1>5. ASSUME NEW c \in DOMAIN conn,
             Connect(c) \/ PingTick(c) \/ ReadPong(c) \/ Recycle(c) \/ Breaks(c) \/ GoesSilent(c)
      PROVE  LedgerInv'
  BY <1>1, <1>5 DEF Connect, PingTick, ReadPong, Recycle, Breaks, GoesSilent, feeds
<1>6. CASE UNCHANGED vars
  BY <1>1, <1>6 DEF vars
<1>. QED
  BY <1>3, <1>4, <1>5, <1>6 DEF Next

\* SeenIds remembers exactly the last Cap trades credited, so a trade is credited
\* again only after at least Cap others, whatever the connections deliver.
THEOREM TradesCreditedApart == Spec => []CreditedApart
<1>1. Init => DeadlineInv /\ LedgerInv
  <2>. SUFFICES ASSUME Init PROVE DeadlineInv /\ LedgerInv
    OBVIOUS
  <2>1. DownFor("boot", "no") \in ConnType /\ Heard(DownFor("boot", "no"))
    BY DownTyped, FreshHeard
  <2>2. DeadlineInv
    BY <2>1 DEF Init, DeadlineInv, TypeOK
  <2>3. seen = [set |-> {}, order |-> <<>>] /\ credits = <<>>
    BY DEF Init, S!Empty
  <2>4. <<>> \in Seq(Trades) /\ Len(<<>>) = 0
    BY EmptySeq
  <2>5. Window(seen, credits) /\ Apart(credits)
    BY <2>3, <2>4, StreamsAssumption DEF Window, Apart
  <2>. QED
    BY <2>2, <2>3, <2>4, <2>5 DEF LedgerInv, SeenType
<1>2. DeadlineInv /\ LedgerInv /\ [Next]_vars => DeadlineInv' /\ LedgerInv'
  BY DeadlineStepwise, LedgerStepwise DEF DeadlineInv
<1>3. LedgerInv => CreditedApart
  <2>. SUFFICES ASSUME LedgerInv PROVE CreditedApart
    OBVIOUS
  <2>1. DOMAIN credits = 1..Len(credits)
    BY LenProperties DEF LedgerInv
  <2>. QED
    BY <2>1 DEF LedgerInv, Apart, CreditedApart
<1>. QED
  BY <1>1, <1>2, <1>3, PTL DEF Spec

---------------------------------------------------------------------------
(* Where two grid points of a period lie.                                  *)

\* Division rounds down.
LEMMA RoundedDown ==
  ASSUME NEW a \in Nat, NEW n \in Nat, n # 0
  PROVE  a \div n \in Nat /\ n * (a \div n) <= a /\ a < n * (a \div n) + n
<1>1. a = n * (a \div n) + (a % n) /\ a % n \in 0..(n - 1) /\ a \div n \in Int
  OBVIOUS
<1>2. a \div n >= 0
  OBVIOUS
<1>. QED
  BY <1>1, <1>2

\* What is less after multiplying is less.
LEMMA Cancel ==
  ASSUME NEW n \in Nat, NEW a \in Int, NEW b \in Int, n * a < n * b
  PROVE  a < b
<1>1. SUFFICES ASSUME a >= b PROVE FALSE
  OBVIOUS
<1>2. PICK d \in Nat : a = b + d
  <2>1. a - b \in Nat /\ a = b + (a - b)
    BY <1>1
  <2>. QED
    BY <2>1
<1>3. n * a = n * b + n * d /\ n * d \in Nat /\ n * b \in Int
  BY <1>2
<1>. QED
  BY <1>3

LEMMA GridDistance ==
  ASSUME NEW P \in Nat, NEW H \in Nat, NEW R \in Nat, NEW K \in Nat, NEW s \in 0..(H - 1), R >= 2,
         P >= (K + 1) * R, NEW x \in Nat, NEW y \in Nat,
         (H * R) * x <= P * (s + 1), P * (s + 1) < (H * R) * x + H * R,
         (H * R) * y <= P * (H + s + 1), P * (H + s + 1) < (H * R) * y + H * R
  PROVE  y - x > K /\ y - x < P - K /\ x <= P /\ y <= P
<1>. DEFINE d == y - x
<1>0. d \in Int /\ H >= 1 /\ H \in Nat
  OBVIOUS
<1>1. P * (H + s + 1) = P * H + P * (s + 1) /\ P * H \in Nat /\ P * (s + 1) \in Nat
  OBVIOUS
<1>2. (H * R) * d = (H * R) * y - (H * R) * x /\ H * R \in Nat /\ (H * R) * y \in Nat /\ (H * R) * x \in Nat
  OBVIOUS
<1>3. (H * R) * d < P * H + H * R /\ P * H < (H * R) * d + H * R
  BY <1>1, <1>2
<1>4. (H * R) * d = H * (R * d) /\ R * d \in Int /\ P * H = H * P
  BY <1>0
<1>5. H * (P + R) = H * P + H * R /\ H * (R * d + R) = H * (R * d) + H * R
  BY <1>0, <1>4
<1>6. R * d < P + R
  <2>1. H * (R * d) < H * (P + R)
    BY <1>3, <1>4, <1>5
  <2>. QED
    BY <1>4, <2>1, Cancel
<1>7. P < R * d + R
  <2>1. H * P < H * (R * d + R)
    BY <1>3, <1>4, <1>5
  <2>2. R * d + R \in Int
    BY <1>4
  <2>. QED
    BY <2>1, <2>2, Cancel
<1>8. (K + 1) * R = R * K + R /\ R * K \in Nat /\ R * (d + 1) = R * d + R /\ R * (K + 1) = R * K + R
  BY <1>0
<1>9. d > K
  <2>1. R * (K + 1) < R * (d + 1)
    BY <1>4, <1>7, <1>8
  <2>2. K + 1 < d + 1
    BY <1>0, <2>1, Cancel
  <2>. QED
    BY <1>0, <2>2
<1>10. d < P - K
  <2>1. SUFFICES ASSUME d >= P - K PROVE FALSE
    BY <1>0
  <2>2. R * d >= R * (P - K)
    <3>1. SUFFICES ASSUME R * d < R * (P - K) PROVE FALSE
      BY <1>0, <1>4
    <3>2. P - K \in Int
      OBVIOUS
    <3>. QED
      BY <1>0, <2>1, <3>1, <3>2, Cancel
  <2>3. R * (P - K) = R * P - R * K /\ R * P \in Nat
    OBVIOUS
  <2>4. R * P >= 2 * P
    <3>1. PICK e \in Nat : R = 2 + e
      <4>1. R - 2 \in Nat /\ R = 2 + (R - 2)
        OBVIOUS
      <4>. QED
        BY <4>1
    <3>2. R * P = 2 * P + e * P /\ e * P \in Nat
      BY <3>1
    <3>. QED
      BY <3>2
  <2>. QED
    BY <1>4, <1>6, <1>8, <2>2, <2>3, <2>4
<1>11. ASSUME NEW z \in Nat, (H * R) * z <= P * (H * R) PROVE z <= P
  <2>1. (H * R) * (P + 1) = P * (H * R) + H * R /\ H * R >= 1
    <3>1. \A n \in Nat : n * (P + 1) = P * n + n
      OBVIOUS
    <3>2. H * R \in Nat /\ H * R >= 1
      BY <1>0
    <3>. QED
      BY <3>1, <3>2
  <2>2. (H * R) * z < (H * R) * (P + 1)
    <3>1. (H * R) * z \in Nat /\ P * (H * R) \in Nat /\ H * R \in Nat
      BY <1>0
    <3>. QED
      BY <1>11, <2>1, <3>1
  <2>3. z < P + 1
    <3>1. H * R \in Nat /\ z \in Int /\ P + 1 \in Int
      BY <1>0
    <3>. QED
      BY <2>2, <3>1, Cancel
  <2>. QED
    BY <2>3
<1>12. P * (H + s + 1) <= P * (H * R) /\ P * (s + 1) <= P * (H * R)
  <2>1. \A u, v \in Nat : u <= v => P * u <= P * v
    <3>1. SUFFICES ASSUME NEW u \in Nat, NEW v \in Nat, u <= v PROVE P * u <= P * v
      OBVIOUS
    <3>2. v - u \in Nat /\ P * (v - u) \in Nat /\ P * v = P * u + P * (v - u)
      BY <3>1
    <3>. QED
      BY <3>2
  <2>2. H * R >= 2 * H
    <3>1. R - 2 \in Nat /\ H * (R - 2) \in Nat /\ H * R = H * (R - 2) + 2 * H
      BY <1>0
    <3>. QED
      BY <1>0, <3>1
  <2>3. H + s + 1 <= H * R /\ s + 1 <= H * R /\ H + s + 1 \in Nat /\ s + 1 \in Nat /\ H * R \in Nat
    BY <1>0, <2>2
  <2>. QED
    BY <2>1, <2>3
<1>13. (H * R) * x <= P * (H * R) /\ (H * R) * y <= P * (H * R)
  <2>1. P * (H + s + 1) \in Nat /\ P * (s + 1) \in Nat /\ P * (H * R) \in Nat /\ (H * R) * x \in Nat /\ (H * R) * y \in Nat
    BY <1>0
  <2>. QED
    BY <1>12, <2>1
<1>. QED
  BY <1>9, <1>10, <1>11, <1>13

---------------------------------------------------------------------------
(* Recycling.                                                              *)

\* A connection is back before the recycle of the next copy of its shard is due
\* (the interval, divided by the redundancy, is longer than a reconnect).
Spaced == \A f \in Fans : f.period = 0 \/ f.period >= (Reconnect + 1) * f.copies

\* It is `gap` units since c's grid point, modulo the period.
Since(c, now, gap) == now = Offset(c) + gap \/ now + fan.period = Offset(c) + gap

\* A connection down to be recycled went down on its grid and is not overdue; one
\* about to be recycled is on its grid.
Timed(c) ==
  /\ conn[c].down = "recycle" => conn[c].gap <= Reconnect /\ Since(c, clock, conn[c].gap)
  /\ conn[c].down = "no" /\ conn[c].ripe = "due" => Since(c, clock, 0)
  /\ conn[c].down # "no" => conn[c].ripe # "due"
CoverInv == Recycles => clock \in 0..(fan.period - 1) /\ \A c \in Conns(fan) : Timed(c)

\* The grid points are within the period.
LEMMA OffsetRange ==
  ASSUME TypeOK, Recycles, NEW c \in Conns(fan)
  PROVE  /\ Offset(c) \in Nat /\ Offset(c) <= fan.period
         /\ (fan.shards * fan.copies) * Offset(c) <= fan.period * (Slot(c) + 1)
         /\ fan.period * (Slot(c) + 1) < (fan.shards * fan.copies) * Offset(c) + fan.shards * fan.copies
<1>. DEFINE P == fan.period
            H == fan.shards
            R == fan.copies
            N == H * R
            m == Slot(c) + 1
<1>1. P \in Nat /\ H \in Nat /\ R \in Nat
  BY StreamsAssumption DEF TypeOK
<1>2. c[1] \in 0..(H - 1) /\ c[2] \in 0..(R - 1)
  BY DEF Conns
<1>. DEFINE i == c[1]
            k == c[2]
<1>3. m = k * H + i + 1
  BY DEF Slot
<1>. DEFINE o == Offset(c)
<1>4. o = (P * m) \div N
  BY DEF Offset
<1>. SUFFICES o \in Nat /\ o <= P /\ N * o <= P * m /\ P * m < N * o + N
  OBVIOUS
<1>. HIDE DEF P, H, R, i, k, m, o
<1>5. m \in Nat /\ m <= N /\ N \in Nat /\ N # 0
  <2>1. R - 1 - k \in Nat /\ H - 1 - i \in Nat /\ i \in Nat /\ k \in Nat /\ H - 1 \in Nat /\ R - 1 \in Nat
    BY <1>1, <1>2 DEF i, k
  <2>2. k * H \in Nat /\ (R - 1 - k) * H \in Nat /\ R * H = k * H + (R - 1 - k) * H + H /\ H * R = R * H
    BY <1>1, <2>1
  <2>. QED
    BY <1>1, <1>3, <2>1, <2>2 DEF N
<1>. HIDE DEF N
<1>6. P * m \in Nat
  BY <1>1, <1>5
<1>7. o \in Nat /\ N * o <= P * m /\ P * m < N * o + N
  BY <1>4, <1>5, <1>6, RoundedDown
<1>8. o <= P
  <2>1. P * m <= N * P
    <3>1. N - m \in Nat /\ P * (N - m) \in Nat /\ P * N = P * m + P * (N - m) /\ N * P = P * N
      BY <1>1, <1>5
    <3>. QED
      BY <1>6, <3>1
  <2>2. N * (P + 1) = N * P + N /\ N * P \in Nat /\ N * o \in Nat
    BY <1>1, <1>5, <1>7
  <2>3. N * o < N * (P + 1)
    BY <1>5, <1>6, <1>7, <2>1, <2>2
  <2>4. o < P + 1
    BY <1>1, <1>5, <1>7, <2>3, Cancel
  <2>. QED
    BY <1>1, <1>7, <2>4
<1>. QED
  BY <1>7, <1>8

\* A tick comes at a connection's grid points.
LEMMA GridTick ==
  ASSUME TypeOK, Recycles, NEW c \in Conns(fan), NEW now \in 0..(fan.period - 1)
  PROVE  OnGrid(c, now) <=> Since(c, now, 0)
<1>. DEFINE P == fan.period
            o == Offset(c)
<1>1. P \in Nat /\ P # 0 /\ o \in Nat /\ o <= P
  BY OffsetRange, StreamsAssumption DEF TypeOK, Recycles
<1>2. OnGrid(c, now) <=> (now - o) % P = 0
  BY DEF OnGrid
<1>3. Since(c, now, 0) <=> now = o + 0 \/ now + P = o + 0
  BY DEF Since
<1>. HIDE DEF P, o
<1>4. now \in 0..(P - 1)
  BY DEF P
<1>5. (now - o) % P = 0 <=> now = o \/ now + P = o
  <2>1. CASE now >= o
    <3>1. now - o \in 0..(P - 1)
      BY <1>1, <1>4, <2>1
    <3>2. (now - o) % P = now - o
      BY <1>1, <3>1
    <3>. QED
      BY <1>1, <1>4, <2>1, <3>2
  <2>2. CASE now < o
    <3>1. now - o + P \in 0..(P - 1) /\ (now - o) % P = (now - o + P) % P
      BY <1>1, <1>4, <2>2
    <3>2. (now - o + P) % P = now - o + P
      BY <1>1, <3>1
    <3>. QED
      BY <1>1, <1>4, <2>2, <3>1, <3>2
  <2>. QED
    BY <1>1, <1>4, <2>1, <2>2
<1>. QED
  BY <1>1, <1>2, <1>3, <1>4, <1>5

\* The first two copies of a shard are never both within a reconnect of their grid
\* points.
LEMMA PeersApart ==
  ASSUME TypeOK, Recycles, Spaced, NEW s \in 0..(fan.shards - 1), NEW now \in Int,
         NEW g \in 0..Reconnect, NEW h \in 0..Reconnect, Since(<<s, 0>>, now, g), Since(<<s, 1>>, now, h)
  PROVE  FALSE
<1>. DEFINE P == fan.period
            H == fan.shards
            R == fan.copies
            x == Offset(<<s, 0>>)
            y == Offset(<<s, 1>>)
<1>1. P \in Nat /\ H \in Nat /\ R \in Nat /\ Reconnect \in Nat /\ R >= 2 /\ P # 0
  BY StreamsAssumption DEF TypeOK, Recycles
<1>2. <<s, 0>> \in Conns(fan) /\ <<s, 1>> \in Conns(fan)
  BY <1>1 DEF Conns
<1>3. Slot(<<s, 0>>) = s /\ Slot(<<s, 1>>) = H + s
  <2>1. Slot(<<s, 0>>) = 0 * H + s /\ Slot(<<s, 1>>) = 1 * H + s
    BY DEF Slot
  <2>. QED
    BY <1>1, <2>1
<1>4. P >= (Reconnect + 1) * R
  BY <1>1 DEF Spaced, TypeOK
<1>5. /\ x \in Nat /\ (H * R) * x <= P * (s + 1) /\ P * (s + 1) < (H * R) * x + H * R
      /\ y \in Nat /\ (H * R) * y <= P * (H + s + 1) /\ P * (H + s + 1) < (H * R) * y + H * R
  BY <1>2, <1>3, OffsetRange
<1>6. (now = x + g \/ now + P = x + g) /\ (now = y + h \/ now + P = y + h)
  BY DEF Since
<1>. HIDE DEF P, H, R, x, y
<1>7. s \in 0..(H - 1)
  BY DEF H
<1>8. y - x > Reconnect /\ y - x < P - Reconnect
  BY <1>1, <1>4, <1>5, <1>7, GridDistance
<1>. QED
  BY <1>1, <1>5, <1>6, <1>8

\* What a step other than the clock's does to a connection's timers: nothing, or it
\* breaks, is recycled on its grid or after it, or comes back.
Moved(k, a) ==
  \/ a.down = k.down /\ a.gap = k.gap /\ a.ripe = k.ripe
  \/ k.down = "no" /\ a.down = "fault" /\ a.ripe # "due"
  \/ k.down = "no" /\ k.ripe = "due" /\ a.down = "recycle" /\ a.gap = 0 /\ a.ripe = "no"
  \/ k.down = "no" /\ a.down = "late" /\ a.ripe = "no"
  \/ k.down # "no" /\ a.down = "no" /\ a.ripe = k.ripe

\* Every step but the clock's moves connections so.
LEMMA StepMoves ==
  ASSUME TypeOK, Next, ~Pass
  PROVE  fan' = fan /\ clock' = clock /\ \A c \in Conns(fan) : Moved(conn[c], conn'[c])
<1>. USE DEF feeds
<1>0. conn \in [Conns(fan) -> ConnType] /\ DOMAIN conn = Conns(fan)
  BY DEF TypeOK
<1>1. ASSUME NEW c \in Conns(fan), NEW k, conn' = [conn EXCEPT ![c] = k], Moved(conn[c], k)
      PROVE  \A e \in Conns(fan) : Moved(conn[e], conn'[e])
  <2>1. SUFFICES ASSUME NEW e \in Conns(fan) PROVE Moved(conn[e], conn'[e])
    OBVIOUS
  <2>2. CASE e = c
    BY <1>0, <1>1, <2>2
  <2>3. CASE e # c
    BY <1>0, <1>1, <2>3 DEF Moved
  <2>. QED
    BY <2>2, <2>3
<1>2. ASSUME NEW frame, Broadcast(frame)
      PROVE  \A c \in Conns(fan) : Moved(conn[c], conn'[c])
  <2>1. SUFFICES ASSUME NEW c \in Conns(fan) PROVE Moved(conn[c], conn'[c])
    OBVIOUS
  <2>2. conn'[c] = conn[c] \/ conn'[c] = [conn[c] EXCEPT !.feed = Append(@, frame)]
    BY <1>0, <1>2 DEF Broadcast
  <2>3. conn[c] \in ConnType
    BY <1>0
  <2>. QED
    BY <2>2, <2>3 DEF Moved, ConnType
<1>3. CASE Quote
  BY <1>2, <1>3 DEF Quote
<1>4. CASE Announce
  BY <1>2, <1>4 DEF Announce
<1>5. ASSUME NEW c \in Conns(fan), conn[c].down = "no", Drop(c, "fault")
      PROVE  \A e \in Conns(fan) : Moved(conn[e], conn'[e])
  <2>. DEFINE r == IF conn[c].ripe = "due" THEN "late" ELSE conn[c].ripe
  <2>1. conn' = [conn EXCEPT ![c] = DownFor("fault", r)]
    BY <1>0, <1>5 DEF Drop
  <2>2. Moved(conn[c], DownFor("fault", r))
    BY <1>5 DEF Moved, DownFor
  <2>. QED
    BY <1>1, <2>1, <2>2
<1>6. ASSUME NEW c \in Conns(fan), Connect(c) PROVE \A e \in Conns(fan) : Moved(conn[e], conn'[e])
  <2>1. PICK f : conn' = [conn EXCEPT ![c] = [DownFor("no", conn[c].ripe) EXCEPT !.due = TRUE, !.feed = f]]
    BY <1>6 DEF Connect
  <2>2. Moved(conn[c], [DownFor("no", conn[c].ripe) EXCEPT !.due = TRUE, !.feed = f])
    BY <1>6 DEF Moved, DownFor, Connect, Up
  <2>. QED
    BY <1>1, <2>1, <2>2
<1>7. ASSUME NEW c \in Conns(fan), PingTick(c) PROVE \A e \in Conns(fan) : Moved(conn[e], conn'[e])
  <2>1. CASE Deadline(c)
    BY <1>5, <1>7, <2>1 DEF PingTick, Up
  <2>2. CASE ~Deadline(c)
    <3>1. conn' = [conn EXCEPT ![c] = Pinged(c)]
      BY <1>7, <2>2 DEF PingTick
    <3>2. Moved(conn[c], Pinged(c))
      BY <1>0 DEF Moved, Pinged, ConnType
    <3>. QED
      BY <1>1, <3>1, <3>2
  <2>. QED
    BY <2>1, <2>2
<1>8. ASSUME NEW c \in Conns(fan), ReadPong(c) PROVE \A e \in Conns(fan) : Moved(conn[e], conn'[e])
  <2>1. conn' = [conn EXCEPT ![c] = [conn[c] EXCEPT !.pong = FALSE, !.quiet = 0]]
    BY <1>0, <1>8 DEF ReadPong, ConnType
  <2>2. Moved(conn[c], [conn[c] EXCEPT !.pong = FALSE, !.quiet = 0])
    BY <1>0 DEF Moved, ConnType
  <2>. QED
    BY <1>1, <2>1, <2>2
<1>9. ASSUME NEW c \in Conns(fan), Recycle(c) PROVE \A e \in Conns(fan) : Moved(conn[e], conn'[e])
  <2>1. conn' = [conn EXCEPT ![c] = DownFor(IF conn[c].ripe = "due" THEN "recycle" ELSE "late", "no")]
    BY <1>0, <1>9 DEF Recycle
  <2>2. Moved(conn[c], DownFor(IF conn[c].ripe = "due" THEN "recycle" ELSE "late", "no"))
    BY <1>9 DEF Moved, DownFor, Recycle, Up
  <2>. QED
    BY <1>1, <2>1, <2>2
<1>10. ASSUME NEW c \in Conns(fan), GoesSilent(c) PROVE \A e \in Conns(fan) : Moved(conn[e], conn'[e])
  <2>1. conn' = [conn EXCEPT ![c] = [conn[c] EXCEPT !.silent = 0]]
    BY <1>0, <1>10 DEF GoesSilent, ConnType
  <2>2. Moved(conn[c], [conn[c] EXCEPT !.silent = 0])
    BY <1>0 DEF Moved, ConnType
  <2>. QED
    BY <1>1, <2>1, <2>2
<1>11. ASSUME NEW c \in Conns(fan), ReadFrame(c) PROVE \A e \in Conns(fan) : Moved(conn[e], conn'[e])
  <2>1. conn' = [conn EXCEPT ![c] = [conn[c] EXCEPT !.feed = Tail(conn[c].feed)]]
    BY <1>0, <1>11 DEF ReadFrame, ConnType
  <2>2. Moved(conn[c], [conn[c] EXCEPT !.feed = Tail(conn[c].feed)])
    BY <1>0 DEF Moved, ConnType
  <2>. QED
    BY <1>1, <2>1, <2>2
<1>12. ASSUME NEW c \in Conns(fan), Breaks(c) PROVE \A e \in Conns(fan) : Moved(conn[e], conn'[e])
  BY <1>5, <1>12 DEF Breaks, Up
<1>13. fan' = fan /\ clock' = clock
  <2>1. CASE Quote \/ Announce
    BY <2>1 DEF Quote, Announce
  <2>2. ASSUME NEW c \in DOMAIN conn,
               \/ Connect(c) \/ PingTick(c) \/ ReadPong(c) \/ Recycle(c)
               \/ Breaks(c) \/ GoesSilent(c) \/ ReadFrame(c)
        PROVE  fan' = fan /\ clock' = clock
    BY <2>2 DEF Connect, PingTick, ReadPong, Recycle, Breaks, GoesSilent, ReadFrame
  <2>. QED
    BY <2>1, <2>2 DEF Next
<1>. QED
  BY <1>0, <1>3, <1>4, <1>6, <1>7, <1>8, <1>9, <1>10, <1>11, <1>12, <1>13 DEF Next

\* A unit passes for the connection's place on the grid.
LEMMA GridMoves ==
  ASSUME TypeOK, Recycles, Spaced, clock \in 0..(fan.period - 1), clock' = (clock + 1) % fan.period,
         NEW c \in Conns(fan), NEW g \in Nat, g < Reconnect, Since(c, clock, g)
  PROVE  /\ Since(c, clock', g + 1)
         /\ ~OnGrid(c, clock')
<1>. DEFINE P == fan.period
            o == Offset(c)
<1>1. P \in Nat /\ P # 0 /\ o \in Nat /\ o <= P /\ Reconnect \in Nat /\ fan.copies \in Nat /\ fan.copies >= 2
  BY OffsetRange, StreamsAssumption DEF TypeOK, Recycles
<1>2. P > Reconnect
  <2>1. P >= (Reconnect + 1) * fan.copies
    BY <1>1 DEF Spaced, TypeOK
  <2>2. fan.copies - 1 \in Nat /\ (Reconnect + 1) * (fan.copies - 1) \in Nat
        /\ (Reconnect + 1) * fan.copies = (Reconnect + 1) * (fan.copies - 1) + (Reconnect + 1)
    BY <1>1
  <2>. QED
    BY <1>1, <2>1, <2>2
<1>3. clock = o + g \/ clock + P = o + g
  BY DEF Since
<1>4. clock' \in 0..(P - 1) /\ clock' = IF clock = P - 1 THEN 0 ELSE clock + 1
  <2>1. CASE clock = P - 1
    BY <1>1, <2>1
  <2>2. CASE clock # P - 1
    <3>1. clock + 1 \in 0..(P - 1)
      BY <1>1, <2>2
    <3>. QED
      BY <1>1, <2>2, <3>1
  <2>. QED
    BY <2>1, <2>2
<1>. HIDE DEF P, o
<1>5. clock' = o + (g + 1) \/ clock' + P = o + (g + 1)
  BY <1>1, <1>2, <1>3, <1>4
<1>6. ~(clock' = o + 0 \/ clock' + P = o + 0)
  BY <1>1, <1>2, <1>4, <1>5
<1>. QED
  BY <1>4, <1>5, <1>6, GridTick DEF Since, P, o

\* Recycles keep to the grid.
LEMMA CoverStepwise ==
  ASSUME Spaced, TypeOK, CoverInv, [Next]_vars
  PROVE  CoverInv'
<1>0. conn \in [Conns(fan) -> ConnType] /\ DOMAIN conn = Conns(fan)
  BY DEF TypeOK
<1>1. fan' = fan
  <2>1. CASE Pass
    BY <2>1 DEF Pass
  <2>2. CASE UNCHANGED vars
    BY <2>2 DEF vars
  <2>. QED
    BY <2>1, <2>2, StepMoves
<1>2. SUFFICES ASSUME Recycles
               PROVE  clock' \in 0..(fan.period - 1) /\ \A c \in Conns(fan) : Timed(c)'
  BY <1>1 DEF CoverInv, Recycles
<1>3. clock \in 0..(fan.period - 1) /\ \A c \in Conns(fan) : Timed(c)
  BY <1>2 DEF CoverInv
<1>4. \A c, now, g : Since(c, now, g)' <=> Since(c, now', g')
  BY <1>1 DEF Since, Offset, Slot
<1>5. CASE clock' = clock /\ \A c \in Conns(fan) : Moved(conn[c], conn'[c])
  <2>1. SUFFICES ASSUME NEW c \in Conns(fan) PROVE Timed(c)'
    BY <1>3, <1>5
  <2>2. Timed(c) /\ Moved(conn[c], conn'[c]) /\ Reconnect \in Nat
    BY <1>3, <1>5, StreamsAssumption
  <2>3. Timed(c)' <=>
          /\ conn'[c].down = "recycle" => conn'[c].gap <= Reconnect /\ Since(c, clock, conn'[c].gap)
          /\ conn'[c].down = "no" /\ conn'[c].ripe = "due" => Since(c, clock, 0)
          /\ conn'[c].down # "no" => conn'[c].ripe # "due"
    BY <1>1, <1>5 DEF Timed, Since, Offset, Slot
  <2>. QED
    BY <2>2, <2>3 DEF Timed, Moved
<1>6. CASE Pass
  <2>1. fan.period \in Nat /\ fan.period # 0 /\ Reconnect \in Nat
    BY <1>2, StreamsAssumption DEF TypeOK, Recycles
  <2>2. clock' = (clock + 1) % fan.period /\ clock' \in 0..(fan.period - 1)
    BY <1>3, <1>6, <2>1 DEF Pass
  <2>3. ASSUME NEW c \in Conns(fan) PROVE Timed(c)'
    <3>1. Timed(c) /\ conn[c] \in ConnType /\ conn'[c] = Passed(c, clock')
      BY <1>0, <1>3, <1>6 DEF Pass
    <3>2. Timed(c)' <=>
            /\ conn'[c].down = "recycle" => conn'[c].gap <= Reconnect /\ Since(c, clock', conn'[c].gap)
            /\ conn'[c].down = "no" /\ conn'[c].ripe = "due" => Since(c, clock', 0)
            /\ conn'[c].down # "no" => conn'[c].ripe # "due"
      BY <1>1 DEF Timed, Since, Offset, Slot
    <3>3. CASE conn[c].down = "no"
      <4>1. conn[c].ripe = "no"
        BY <1>0, <1>6, <3>3 DEF Pass, Up
      <4>2. conn'[c].down = "no" /\ conn'[c].ripe = IF OnGrid(c, clock') THEN "due" ELSE "no"
        BY <3>1, <3>3, <4>1 DEF Passed, ConnType
      <4>3. OnGrid(c, clock') <=> Since(c, clock', 0)
        BY <1>2, <2>2, GridTick
      <4>. QED
        BY <3>2, <4>2, <4>3
    <3>4. CASE conn[c].down # "no"
      <4>1. /\ conn'[c].down = conn[c].down /\ conn'[c].ripe # "due"
            /\ conn'[c].gap = IF conn[c].gap < Reconnect THEN conn[c].gap + 1 ELSE conn[c].gap
        BY <3>1, <3>4 DEF Passed, ConnType, Timed
      <4>2. CASE conn[c].down = "recycle"
        <5>1. conn[c].gap < Reconnect /\ conn[c].gap \in Nat /\ Since(c, clock, conn[c].gap)
          BY <1>0, <1>6, <3>1, <4>2 DEF Pass, Up, Timed, ConnType
        <5>2. Since(c, clock', conn[c].gap + 1)
          BY <1>2, <1>3, <2>2, <5>1, GridMoves
        <5>3. conn'[c].gap = conn[c].gap + 1 /\ conn[c].gap + 1 <= Reconnect
          BY <2>1, <4>1, <5>1
        <5>. QED
          BY <3>2, <4>1, <4>2, <5>2, <5>3
      <4>. QED
        BY <3>2, <3>4, <4>1, <4>2
    <3>. QED
      BY <3>3, <3>4
  <2>. QED
    BY <2>2, <2>3
<1>7. CASE UNCHANGED vars
  <2>1. clock' = clock /\ conn' = conn
    BY <1>7 DEF vars
  <2>. QED
    BY <1>5, <2>1 DEF Moved
<1>. QED
  BY <1>5, <1>6, <1>7, StepMoves

\* Nothing has been recycled at the start.
LEMMA CoverStarts ==
  ASSUME Init
  PROVE  DeadlineInv /\ CoverInv
<1>1. DownFor("boot", "no") \in ConnType /\ Heard(DownFor("boot", "no"))
  BY DownTyped, FreshHeard
<1>2. DeadlineInv
  BY <1>1 DEF Init, DeadlineInv, TypeOK
<1>3. ASSUME Recycles PROVE clock \in 0..(fan.period - 1)
  BY <1>2, <1>3, StreamsAssumption DEF Init, Recycles, DeadlineInv, TypeOK
<1>4. \A c \in Conns(fan) : conn[c].down = "boot" /\ conn[c].ripe = "no"
  BY DEF Init, DownFor
<1>. QED
  BY <1>2, <1>3, <1>4 DEF CoverInv, Timed

\* If a reconnect is shorter than the interval divided by the redundancy, then for
\* any number of shards and copies, whatever breaks and backs off, the copies of a
\* shard are never all down to be recycled.
THEOREM PeersAlwaysCover == ASSUME Spaced PROVE Spec => []AlwaysCovered
<1>1. DeadlineInv /\ CoverInv /\ [Next]_vars => DeadlineInv' /\ CoverInv'
  BY DeadlineStepwise, CoverStepwise DEF DeadlineInv
<1>2. DeadlineInv /\ CoverInv => AlwaysCovered
  <2>1. SUFFICES ASSUME DeadlineInv, CoverInv, NEW s \in 0..(fan.shards - 1), Recycles,
                        \A copy \in 0..(fan.copies - 1) : conn[<<s, copy>>].down = "recycle"
                 PROVE  FALSE
    BY DEF AlwaysCovered
  <2>2. 0 \in 0..(fan.copies - 1) /\ 1 \in 0..(fan.copies - 1)
    <3>1. fan \in Fans /\ fan.copies >= 2
      BY <2>1 DEF Recycles, DeadlineInv, TypeOK
    <3>. QED
      BY <3>1, StreamsAssumption
  <2>. DEFINE a == <<s, 0>>
              b == <<s, 1>>
  <2>3. a \in Conns(fan) /\ b \in Conns(fan) /\ conn[a].down = "recycle" /\ conn[b].down = "recycle"
    BY <2>1, <2>2 DEF Conns
  <2>4. conn[a] \in ConnType /\ conn[b] \in ConnType /\ clock \in Int
    BY <2>1, <2>3 DEF DeadlineInv, TypeOK, CoverInv
  <2>5. Timed(a) /\ Timed(b)
    BY <2>1, <2>3 DEF CoverInv
  <2>6. /\ conn[a].gap \in 0..Reconnect /\ Since(a, clock, conn[a].gap)
        /\ conn[b].gap \in 0..Reconnect /\ Since(b, clock, conn[b].gap)
    BY <2>3, <2>4, <2>5, StreamsAssumption DEF Timed, ConnType
  <2>. QED
    BY <2>1, <2>4, <2>6, PeersApart DEF DeadlineInv
<1>. QED
  BY <1>1, <1>2, CoverStarts, PTL DEF Spec

---------------------------------------------------------------------------
(* Fills without faults.                                                   *)

\* The user channel is one subscription, held by at least one connection.
OneShard == \A f \in Fans : f.channel = "user" => f.shards = 1 /\ f.copies # 0

\* A connection nothing has gone wrong on: it is answered, not overdue, down only
\* at the start or on its grid, and no tick comes while it is down.
CalmIs(k, now) ==
  /\ k.down \in {"no", "boot", "recycle"} /\ k.silent = -1
  /\ k.quiet <= 1 /\ (~k.due /\ ~k.pong => k.quiet = 0)
  /\ k.ripe # "late" /\ (k.down # "no" => k.ripe = "no")
  /\ ~Recycles => k.ripe = "no" /\ k.down # "recycle"
  /\ k.down = "boot" /\ Recycles => now = k.gap /\ k.gap <= Reconnect
Calm(c) == CalmIs(conn[c], clock)

\* A trade is pending on a connection that has its final frame and will not go down
\* before a unit has passed, so before it is read.
Final(t) == [kind |-> "trade", trade |-> t, status |-> "final"]
Steady(k) == k.down = "no" /\ k.ripe = "no"
Holds(k, t) == Steady(k) /\ \E j \in 1..Len(k.feed) : k.feed[j] = Final(t)
Credited(t) == \E i \in 1..Len(credits) : credits[i] = t
Pending(t) == Credited(t) \/ \E c \in Conns(fan) : Holds(conn[c], t)
Faultless == used.faults = 0 /\ fan.channel = "user"
FillsInv ==
  /\ used \in [events : Nat, faults : Nat] /\ owed \subseteq Trades
  /\ fan.channel # "user" => owed = {}
  /\ Faultless => (\A c \in Conns(fan) : Calm(c)) /\ (\A t \in owed : Pending(t))

\* No tick comes before the first grid point while a connection boots.
LEMMA BootOffGrid ==
  ASSUME TypeOK, Recycles, Spaced, fan.shards = 1, clock \in 0..(fan.period - 1),
         clock' = (clock + 1) % fan.period, NEW c \in Conns(fan), clock < Reconnect
  PROVE  clock' = clock + 1 /\ ~OnGrid(c, clock')
<1>. DEFINE P == fan.period
            R == fan.copies
            o == Offset(c)
            m == Slot(c) + 1
<1>0. fan \in Fans /\ P # 0 /\ R >= 2
  BY DEF TypeOK, Recycles
<1>1. P \in Nat /\ R \in Nat /\ Reconnect \in Nat
  BY <1>0, StreamsAssumption
<1>2. o \in Nat /\ o <= P /\ P * m < (1 * R) * o + 1 * R
  BY OffsetRange
<1>3. m \in Nat /\ m >= 1
  <2>1. c[1] \in Nat /\ c[2] \in Nat
    BY <1>1 DEF Conns
  <2>2. m = c[2] * 1 + c[1] + 1
    BY DEF Slot
  <2>. QED
    BY <2>1, <2>2
<1>4. P >= (Reconnect + 1) * R
  BY <1>0, <1>1 DEF Spaced
<1>5. OnGrid(c, clock') <=> clock' = o + 0 \/ clock' + P = o + 0
  <2>1. clock' \in 0..(P - 1)
    BY <1>0, <1>1
  <2>. QED
    BY <2>1, GridTick DEF Since
<1>. HIDE DEF P, R, o, m
<1>6. o > Reconnect
  <2>1. P * m >= P
    <3>1. m - 1 \in Nat /\ P * (m - 1) \in Nat /\ P * m = P * (m - 1) + P
      BY <1>1, <1>3
    <3>. QED
      BY <1>1, <3>1
  <2>2. (1 * R) * o + 1 * R = R * (o + 1) /\ R * (Reconnect + 1) = (Reconnect + 1) * R
        /\ R * (o + 1) \in Nat /\ R * (Reconnect + 1) \in Nat /\ P * m \in Nat
    BY <1>1, <1>2, <1>3
  <2>3. R * (Reconnect + 1) < R * (o + 1)
    BY <1>1, <1>2, <1>4, <2>1, <2>2
  <2>4. Reconnect + 1 < o + 1
    BY <1>1, <1>2, <2>3, Cancel
  <2>. QED
    BY <1>1, <1>2, <2>4
<1>7. clock \in 0..(P - 1) /\ clock' = (clock + 1) % P
  BY DEF P
<1>8. clock + 1 \in 0..(P - 1)
  BY <1>1, <1>2, <1>6, <1>7
<1>9. clock' = clock + 1
  BY <1>0, <1>1, <1>7, <1>8
<1>. QED
  BY <1>1, <1>2, <1>5, <1>6, <1>7, <1>9

\* Without faults one connection at least is up and stays up for the unit.
LEMMA SomeSteady ==
  ASSUME TypeOK, CoverInv, Spaced, OneShard, fan.channel = "user", \A c \in Conns(fan) : Calm(c),
         \A c \in Conns(fan) : conn[c].down # "boot"
  PROVE  \E c \in Conns(fan) : Steady(conn[c])
<1>0. fan \in Fans /\ fan.shards = 1 /\ fan.copies \in Nat /\ fan.copies # 0
  BY StreamsAssumption DEF TypeOK, OneShard
<1>. DEFINE a == <<0, 0>>
            b == <<0, 1>>
<1>1. a \in Conns(fan)
  BY <1>0 DEF Conns
<1>2. CASE ~Recycles
  BY <1>1, <1>2 DEF Calm, CalmIs, Steady
<1>3. CASE Recycles
  <2>1. b \in Conns(fan)
    BY <1>0, <1>3 DEF Conns, Recycles
  <2>2. ASSUME NEW c \in Conns(fan), ~Steady(conn[c])
        PROVE  \E g \in 0..Reconnect : Since(c, clock, g)
    <3>1. Calm(c) /\ Timed(c) /\ conn[c] \in ConnType /\ conn[c].down # "boot"
      BY <1>3 DEF CoverInv, TypeOK
    <3>2. CASE conn[c].down = "recycle"
      BY <3>1, <3>2, StreamsAssumption DEF Timed, ConnType
    <3>3. CASE conn[c].down = "no"
      <4>1. conn[c].ripe = "due"
        BY <2>2, <3>1, <3>3 DEF Steady, Calm, CalmIs, ConnType
      <4>. QED
        BY <3>1, <3>3, <4>1, StreamsAssumption DEF Timed
    <3>. QED
      BY <3>1, <3>2, <3>3 DEF Calm, CalmIs
  <2>3. SUFFICES ASSUME ~Steady(conn[a]), ~Steady(conn[b]) PROVE FALSE
    BY <1>1, <2>1
  <2>4. PICK g \in 0..Reconnect : Since(a, clock, g)
    BY <1>1, <2>2, <2>3
  <2>5. PICK h \in 0..Reconnect : Since(b, clock, h)
    BY <2>1, <2>2, <2>3
  <2>6. 0 \in 0..(fan.shards - 1) /\ clock \in Int
    BY <1>0, <1>3 DEF CoverInv
  <2>. QED
    BY <1>3, <2>4, <2>5, <2>6, PeersApart
<1>. QED
  BY <1>2, <1>3

\* One connection changes, at no time.
LEMMA OneCalm ==
  ASSUME TypeOK, \A c \in Conns(fan) : Calm(c), fan' = fan, clock' = clock,
         NEW c \in Conns(fan), NEW k, conn' = [conn EXCEPT ![c] = k], CalmIs(k, clock)
  PROVE  \A e \in Conns(fan) : Calm(e)'
<1>1. SUFFICES ASSUME NEW e \in Conns(fan) PROVE Calm(e)'
  OBVIOUS
<1>2. conn'[e] = (IF e = c THEN k ELSE conn[e]) /\ Calm(e)
  BY DEF TypeOK
<1>3. (Recycles)' <=> Recycles
  BY DEF Recycles
<1>4. CASE e = c
  BY <1>2, <1>3, <1>4 DEF Calm, CalmIs
<1>5. CASE e # c
  BY <1>2, <1>3, <1>5 DEF Calm, CalmIs
<1>. QED
  BY <1>4, <1>5

\* Without faults connections stay calm: PONGs come in time, and no tick while a
\* connection is down.
LEMMA CalmStepwise ==
  ASSUME Spaced, OneShard, PongTimeout # 0, TypeOK, CoverInv, fan.channel = "user",
         used \in [events : Nat, faults : Nat], used.faults = 0, used'.faults = 0,
         \A c \in Conns(fan) : Calm(c), [Next]_vars
  PROVE  \A c \in Conns(fan) : Calm(c)'
<1>. USE DEF feeds
<1>0. /\ conn \in [Conns(fan) -> ConnType] /\ DOMAIN conn = Conns(fan) /\ PongTimeout \in Nat
      /\ Reconnect \in Nat /\ fan \in Fans
  BY StreamsAssumption DEF TypeOK
<1>1. ~Fault
  BY DEF Fault
<1>2. CASE Pass
  <2>1. fan' = fan /\ (Recycles' <=> Recycles)
    BY <1>2 DEF Pass, Recycles
  <2>2. SUFFICES ASSUME NEW c \in Conns(fan) PROVE Calm(c)'
    OBVIOUS
  <2>. DEFINE k == conn[c]
              a == conn'[c]
  <2>3. k \in ConnType /\ CalmIs(k, clock) /\ a = Passed(c, clock')
    BY <1>0, <1>2 DEF Pass, Calm, CalmIs
  <2>4. SUFFICES CalmIs(a, clock')
    BY <2>1 DEF Calm, CalmIs
  <2>5. Recycles => /\ clock' = (clock + 1) % fan.period /\ clock \in 0..(fan.period - 1)
                    /\ clock' \in 0..(fan.period - 1)
    <3>1. SUFFICES ASSUME Recycles
                   PROVE  /\ clock' = (clock + 1) % fan.period /\ clock \in 0..(fan.period - 1)
                          /\ clock' \in 0..(fan.period - 1)
      OBVIOUS
    <3>2. fan.period \in Nat /\ fan.period # 0
      BY <1>0, <3>1, StreamsAssumption DEF Recycles
    <3>3. clock \in 0..(fan.period - 1)
      BY <3>1 DEF CoverInv
    <3>. QED
      BY <1>2, <3>2, <3>3 DEF Pass
  <2>6. ~Recycles => ~OnGrid(c, clock')
    BY DEF OnGrid
  <2>7. CASE k.down = "no"
    <3>1. ~k.due /\ ~k.pong /\ k.ripe = "no"
      BY <1>0, <1>2, <2>7 DEF Pass, Up
    <3>2. k.quiet = 0 /\ k.silent = -1
      BY <2>3, <3>1 DEF CalmIs
    <3>3. /\ a.down = "no" /\ a.silent = -1 /\ a.quiet = 1 /\ a.due = TRUE
          /\ a.ripe = IF OnGrid(c, clock') THEN "due" ELSE "no"
      BY <2>3, <2>7, <3>1, <3>2 DEF Passed, ConnType
    <3>. QED
      BY <2>6, <3>3 DEF CalmIs
  <2>8. CASE k.down # "no"
    <3>1. k.gap < Reconnect /\ k.gap \in Nat /\ k.ripe = "no"
      BY <1>0, <1>2, <2>3, <2>8 DEF Pass, Up, CalmIs, ConnType
    <3>2. Recycles => ~OnGrid(c, clock') /\ (k.down = "boot" => clock' = clock + 1)
      <4>1. SUFFICES ASSUME Recycles PROVE ~OnGrid(c, clock') /\ (k.down = "boot" => clock' = clock + 1)
        OBVIOUS
      <4>2. CASE k.down = "boot"
        <5>1. clock < Reconnect /\ fan.shards = 1
          BY <1>0, <2>3, <3>1, <4>1, <4>2 DEF CalmIs, OneShard
        <5>. QED
          BY <2>5, <4>1, <5>1, BootOffGrid
      <4>3. CASE k.down = "recycle"
        <5>1. Since(c, clock, k.gap)
          BY <4>1, <4>3 DEF CoverInv, Timed
        <5>2. ~OnGrid(c, clock')
          BY <2>5, <3>1, <4>1, <5>1, GridMoves
        <5>. QED
          BY <4>3, <5>2
      <4>. QED
        BY <2>3, <2>8, <4>2, <4>3 DEF CalmIs
    <3>3. a = [k EXCEPT !.gap = k.gap + 1, !.ripe = "no"]
      <4>1. ~OnGrid(c, clock')
        BY <2>6, <3>2
      <4>. QED
        BY <2>3, <2>8, <3>1, <4>1 DEF Passed, ConnType
    <3>4. /\ a.down = k.down /\ a.silent = k.silent /\ a.quiet = k.quiet /\ a.due = k.due /\ a.pong = k.pong
          /\ a.ripe = "no" /\ a.gap = k.gap + 1
      BY <2>3, <3>3 DEF ConnType
    <3>. HIDE DEF k, a
    <3>5. k.down = "boot" /\ Recycles => clock' = k.gap + 1
      BY <2>3, <3>2 DEF CalmIs
    <3>6. k.gap + 1 <= Reconnect
      BY <1>0, <3>1
    <3>. QED
      BY <2>3, <3>4, <3>5, <3>6 DEF CalmIs
  <2>. QED
    BY <2>7, <2>8
<1>3. CASE Announce
  <2>1. fan' = fan /\ clock' = clock /\ (Recycles' <=> Recycles)
    BY <1>3 DEF Announce, Recycles
  <2>2. PICK frame : Broadcast(frame)
    BY <1>3 DEF Announce
  <2>3. SUFFICES ASSUME NEW c \in Conns(fan) PROVE Calm(c)'
    OBVIOUS
  <2>4. conn'[c] = conn[c] \/ conn'[c] = [conn[c] EXCEPT !.feed = Append(@, frame)]
    BY <1>0, <2>2 DEF Broadcast
  <2>5. Calm(c) /\ conn[c] \in ConnType
    BY <1>0
  <2>6. /\ conn'[c].down = conn[c].down /\ conn'[c].silent = conn[c].silent
        /\ conn'[c].quiet = conn[c].quiet /\ conn'[c].due = conn[c].due /\ conn'[c].pong = conn[c].pong
        /\ conn'[c].ripe = conn[c].ripe /\ conn'[c].gap = conn[c].gap
    BY <2>4, <2>5 DEF ConnType
  <2>. QED
    BY <2>1, <2>5, <2>6 DEF Calm, CalmIs
<1>4. CASE Quote
  BY <1>4 DEF Quote
<1>5. ASSUME NEW c \in DOMAIN conn, Connect(c) PROVE \A e \in Conns(fan) : Calm(e)'
  <2>1. PICK f : conn' = [conn EXCEPT ![c] = [DownFor("no", conn[c].ripe) EXCEPT !.due = TRUE, !.feed = f]]
    BY <1>5 DEF Connect
  <2>2. c \in Conns(fan) /\ Calm(c) /\ ~Up(c) /\ fan' = fan /\ clock' = clock
    BY <1>0, <1>5 DEF Connect
  <2>3. CalmIs([DownFor("no", conn[c].ripe) EXCEPT !.due = TRUE, !.feed = f], clock)
    BY <2>2 DEF CalmIs, Calm, DownFor, Up
  <2>. QED
    BY <2>1, <2>2, <2>3, OneCalm
<1>6. ASSUME NEW c \in DOMAIN conn, PingTick(c) PROVE \A e \in Conns(fan) : Calm(e)'
  <2>1. c \in Conns(fan) /\ Calm(c) /\ conn[c] \in ConnType /\ fan' = fan /\ clock' = clock
    BY <1>0, <1>6 DEF PingTick
  <2>2. ~Deadline(c)
    BY <1>0, <2>1 DEF Deadline, Calm, CalmIs, ConnType
  <2>3. conn' = [conn EXCEPT ![c] = Pinged(c)]
    BY <1>6, <2>2 DEF PingTick
  <2>4. Pinged(c).pong = TRUE
    BY <2>1 DEF Pinged, Calm, CalmIs, ConnType
  <2>5. CalmIs(Pinged(c), clock)
    <3>1. /\ Pinged(c).down = conn[c].down /\ Pinged(c).silent = conn[c].silent
          /\ Pinged(c).quiet = conn[c].quiet /\ Pinged(c).ripe = conn[c].ripe /\ Pinged(c).gap = conn[c].gap
      BY <2>1 DEF Pinged, ConnType
    <3>. QED
      BY <2>1, <2>4, <3>1 DEF CalmIs, Calm
  <2>. QED
    BY <2>1, <2>3, <2>5, OneCalm
<1>7. ASSUME NEW c \in DOMAIN conn, ReadPong(c) PROVE \A e \in Conns(fan) : Calm(e)'
  <2>. DEFINE k == [conn[c] EXCEPT !.pong = FALSE, !.quiet = 0]
  <2>1. c \in Conns(fan) /\ Calm(c) /\ conn[c] \in ConnType /\ fan' = fan /\ clock' = clock
    BY <1>0, <1>7 DEF ReadPong
  <2>2. conn' = [conn EXCEPT ![c] = k]
    BY <1>0, <1>7, <2>1 DEF ReadPong, ConnType
  <2>3. CalmIs(k, clock)
    BY <2>1 DEF CalmIs, Calm, ConnType
  <2>. QED
    BY <2>1, <2>2, <2>3, OneCalm
<1>8. ASSUME NEW c \in DOMAIN conn, Recycle(c) PROVE \A e \in Conns(fan) : Calm(e)'
  <2>1. c \in Conns(fan) /\ Calm(c) /\ conn[c] \in ConnType /\ conn[c].ripe # "no" /\ fan' = fan /\ clock' = clock
    BY <1>0, <1>8 DEF Recycle
  <2>2. conn[c].ripe = "due" /\ Recycles
    BY <2>1 DEF Calm, CalmIs, ConnType
  <2>3. conn' = [conn EXCEPT ![c] = DownFor("recycle", "no")]
    BY <1>0, <1>8, <2>1, <2>2 DEF Recycle
  <2>4. CalmIs(DownFor("recycle", "no"), clock)
    BY <2>2 DEF CalmIs, DownFor
  <2>. QED
    BY <2>1, <2>3, <2>4, OneCalm
<1>9. ASSUME NEW c \in DOMAIN conn, ReadFrame(c) PROVE \A e \in Conns(fan) : Calm(e)'
  <2>. DEFINE k == [conn[c] EXCEPT !.feed = Tail(conn[c].feed)]
  <2>1. c \in Conns(fan) /\ Calm(c) /\ conn[c] \in ConnType /\ fan' = fan /\ clock' = clock
    BY <1>0, <1>9 DEF ReadFrame
  <2>2. conn' = [conn EXCEPT ![c] = k]
    BY <1>0, <1>9, <2>1 DEF ReadFrame, ConnType
  <2>3. CalmIs(k, clock)
    BY <2>1 DEF CalmIs, Calm, ConnType
  <2>. QED
    BY <2>1, <2>2, <2>3, OneCalm
<1>10. CASE UNCHANGED vars
  BY <1>10 DEF vars, Calm, CalmIs, Recycles
<1>. QED
  BY <1>1, <1>2, <1>3, <1>4, <1>5, <1>6, <1>7, <1>8, <1>9, <1>10 DEF Next, Breaks, GoesSilent

\* What was credited stays so.
LEMMA CreditsStay ==
  ASSUME LedgerInv, LedgerInv', credits' = credits \/ (\E t \in Trades : credits' = Append(credits, t)),
         NEW t, Credited(t)
  PROVE  Credited(t)'
<1>1. PICK i \in 1..Len(credits) : credits[i] = t
  BY DEF Credited
<1>2. credits \in Seq(Trades) /\ Len(credits) \in Nat
  BY LenProperties DEF LedgerInv
<1>3. i \in 1..Len(credits') /\ credits'[i] = credits[i]
  BY <1>1, <1>2, AppendProperties
<1>. QED
  BY <1>1, <1>3 DEF Credited

\* A trade SeenIds knows was credited.
LEMMA SeenCredited ==
  ASSUME LedgerInv, NEW t \in Trades, t \in seen.set
  PROVE  Credited(t)
<1>1. PICK k \in 1..Len(seen.order) : seen.order[k] = t
  BY DEF LedgerInv, Window
<1>2. /\ Len(seen.order) <= Len(credits) /\ seen.order[k] = credits[Len(credits) - Len(seen.order) + k]
  BY DEF LedgerInv, Window
<1>3. Len(seen.order) \in Nat /\ Len(credits) \in Nat
  BY LenProperties DEF LedgerInv, SeenType
<1>4. Len(credits) - Len(seen.order) + k \in 1..Len(credits)
  BY <1>2, <1>3
<1>. QED
  BY <1>1, <1>2, <1>4 DEF Credited

\* A step's effect on credits.
LEMMA CreditStep ==
  ASSUME TypeOK, [Next]_vars
  PROVE  credits' = credits \/ (\E t \in Trades : credits' = Append(credits, t))
<1>. USE DEF feeds
<1>1. ASSUME NEW c \in DOMAIN conn, ReadFrame(c)
      PROVE  credits' = credits \/ (\E t \in Trades : credits' = Append(credits, t))
  <2>. DEFINE frame == Head(conn[c].feed)
  <2>1. frame \in Frames
    <3>1. conn[c].feed \in Seq(Frames) /\ conn[c].feed # <<>>
      BY <1>1 DEF ReadFrame, TypeOK, ConnType
    <3>. QED
      BY <3>1, HeadTailProperties
  <2>2. OnFrame(frame)
    BY <1>1 DEF ReadFrame
  <2>. HIDE DEF frame
  <2>. QED
    BY <2>1, <2>2 DEF OnFrame, OnTrade, Frames
<1>2. ASSUME NEW c \in DOMAIN conn,
             Connect(c) \/ PingTick(c) \/ ReadPong(c) \/ Recycle(c) \/ Breaks(c) \/ GoesSilent(c)
      PROVE  credits' = credits
  BY <1>2 DEF Connect, PingTick, ReadPong, Recycle, Breaks, GoesSilent
<1>3. CASE Pass \/ Quote \/ Announce
  BY <1>3 DEF Pass, Quote, Announce
<1>4. CASE UNCHANGED vars
  BY <1>4 DEF vars
<1>. QED
  BY <1>1, <1>2, <1>3, <1>4 DEF Next

\* A frame held by a steady connection is still held after a step, or was credited.
LEMMA HeldOn ==
  ASSUME TypeOK, LedgerInv, LedgerInv', Next, NEW c \in Conns(fan), Calm(c), Calm(c)', fan' = fan,
         NEW t \in Trades, Holds(conn[c], t)
  PROVE  Pending(t)'
<1>. USE DEF feeds
<1>. DEFINE k == conn[c]
            a == conn'[c]
<1>0. conn \in [Conns(fan) -> ConnType] /\ DOMAIN conn = Conns(fan) /\ k \in ConnType /\ k.feed \in Seq(Frames)
  BY DEF TypeOK, ConnType
<1>1. PICK j \in 1..Len(k.feed) : k.feed[j] = Final(t)
  BY DEF Holds
<1>2. k.down = "no" /\ k.ripe = "no" /\ Len(k.feed) \in Nat
  BY <1>0, LenProperties DEF Holds, Steady
<1>3. ~Pass
  BY <1>0, <1>1, <1>2 DEF Pass, Up
<1>4. Steady(a)
  <2>1. Moved(k, a)
    BY <1>3, StepMoves
  <2>2. a.down \in {"no", "boot", "recycle"}
    BY DEF Calm, CalmIs
  <2>. HIDE DEF k, a
  <2>. QED
    BY <1>2, <2>1, <2>2 DEF Moved, Steady
<1>5. SUFFICES Holds(a, t) \/ Credited(t)'
  BY DEF Pending
<1>6. CASE a.feed = k.feed
  BY <1>1, <1>4, <1>6 DEF Holds
<1>7. ASSUME NEW frame, Broadcast(frame), frame \in Frames PROVE Holds(a, t) \/ Credited(t)'
  <2>1. a = k \/ a = [k EXCEPT !.feed = Append(k.feed, frame)]
    BY <1>0, <1>7 DEF Broadcast
  <2>2. a.feed = k.feed \/ a.feed = Append(k.feed, frame)
    BY <1>0, <2>1 DEF ConnType
  <2>3. CASE a.feed = Append(k.feed, frame)
    <3>1. j \in 1..Len(a.feed) /\ a.feed[j] = Final(t)
      BY <1>0, <1>1, <1>2, <1>7, <2>3, AppendProperties
    <3>. QED
      BY <1>4, <3>1 DEF Holds
  <2>4. CASE a.feed = k.feed
    BY <1>6, <2>4
  <2>. QED
    BY <2>2, <2>3, <2>4
<1>8. CASE Quote
  <2>1. PICK s \in B!BookSides, p \in Prices, n \in Sizes :
          Broadcast([kind |-> "delta", side |-> s, price |-> p, size |-> n])
    BY <1>8 DEF Quote
  <2>2. [kind |-> "delta", side |-> s, price |-> p, size |-> n] \in Frames
    BY DEF Frames
  <2>. QED
    BY <1>7, <2>1, <2>2
<1>9. CASE Announce
  <2>1. PICK u \in Trades, status \in {"retrying", "final"} :
          Broadcast([kind |-> "trade", trade |-> u, status |-> status])
    BY <1>9 DEF Announce
  <2>2. [kind |-> "trade", trade |-> u, status |-> status] \in Frames
    BY DEF Frames
  <2>. QED
    BY <1>7, <2>1, <2>2
<1>10. ASSUME NEW e \in DOMAIN conn, e # c,
              \/ Connect(e) \/ PingTick(e) \/ ReadPong(e) \/ Recycle(e)
              \/ Breaks(e) \/ GoesSilent(e) \/ ReadFrame(e)
       PROVE  a.feed = k.feed
  BY <1>0, <1>10 DEF Connect, PingTick, ReadPong, Recycle, Breaks, GoesSilent, ReadFrame, Drop
<1>11. CASE PingTick(c)
  <2>1. a = Pinged(c) \/ a.down = "fault"
    BY <1>0, <1>11 DEF PingTick, Drop, DownFor
  <2>2. a = Pinged(c)
    BY <1>4, <2>1 DEF Steady
  <2>. QED
    BY <1>0, <1>6, <2>2 DEF Pinged, ConnType
<1>12. CASE ReadPong(c)
  <2>1. conn' = [conn EXCEPT ![c] = [k EXCEPT !.pong = FALSE, !.quiet = 0]]
    BY <1>0, <1>12 DEF ReadPong, ConnType
  <2>. QED
    BY <1>0, <1>6, <2>1 DEF ConnType
<1>13. CASE GoesSilent(c)
  <2>1. conn' = [conn EXCEPT ![c] = [k EXCEPT !.silent = 0]]
    BY <1>0, <1>13 DEF GoesSilent, ConnType
  <2>. QED
    BY <1>0, <1>6, <2>1 DEF ConnType
<1>14. CASE Connect(c) \/ Recycle(c)
  BY <1>2, <1>14 DEF Connect, Recycle, Up
<1>15. CASE Breaks(c)
  <2>1. a.down = "fault"
    BY <1>0, <1>15 DEF Breaks, Drop, DownFor
  <2>. QED
    BY <1>4, <2>1 DEF Steady
<1>16. CASE ReadFrame(c)
  <2>1. conn' = [conn EXCEPT ![c] = [k EXCEPT !.feed = Tail(k.feed)]] /\ OnFrame(Head(k.feed)) /\ k.feed # <<>>
    BY <1>0, <1>16 DEF ReadFrame, ConnType
  <2>2. /\ Head(k.feed) = k.feed[1] /\ Tail(k.feed) \in Seq(Frames) /\ Len(Tail(k.feed)) = Len(k.feed) - 1
        /\ \A i \in 1..Len(Tail(k.feed)) : Tail(k.feed)[i] = k.feed[i + 1]
    BY <1>0, <2>1, HeadTailProperties
  <2>3. CASE j = 1
    <3>1. OnTrade(t, "final")
      <4>1. OnFrame(Final(t))
        BY <1>1, <2>1, <2>2, <2>3
      <4>2. Final(t).kind = "trade" /\ Final(t).trade = t /\ Final(t).status = "final"
        BY DEF Final
      <4>. QED
        BY <4>1, <4>2 DEF OnFrame
    <3>2. CASE t \in seen.set
      <4>1. Credited(t) /\ credits' = credits
        BY <3>1, <3>2, SeenCredited DEF OnTrade
      <4>. QED
        BY <4>1, CreditsStay
    <3>3. CASE t \notin seen.set
      <4>1. credits' = Append(credits, t) /\ credits \in Seq(Trades)
        BY <3>1, <3>3 DEF OnTrade, LedgerInv
      <4>2. Len(credits) + 1 \in 1..Len(credits') /\ credits'[Len(credits) + 1] = t
        BY <4>1, AppendProperties, LenProperties
      <4>. QED
        BY <4>2 DEF Credited
    <3>. QED
      BY <3>2, <3>3
  <2>4. CASE j # 1
    <3>1. a.feed = Tail(k.feed)
      BY <1>0, <2>1 DEF ConnType
    <3>2. j - 1 \in 1..Len(Tail(k.feed)) /\ (j - 1) + 1 = j
      BY <1>1, <1>2, <2>2, <2>4
    <3>3. a.feed[j - 1] = Final(t)
      BY <1>1, <2>2, <3>1, <3>2
    <3>. QED
      BY <1>4, <3>1, <3>2, <3>3 DEF Holds
  <2>. QED
    BY <2>3, <2>4
<1>. QED
  BY <1>0, <1>3, <1>6, <1>8, <1>9, <1>10, <1>11, <1>12, <1>13, <1>14, <1>15, <1>16 DEF Next

\* A step counts faults up or leaves them, keeps the channel, and lets a trade be
\* owed only when it is announced.
LEMMA StepCounts ==
  ASSUME TypeOK, used \in [events : Nat, faults : Nat], [Next]_vars
  PROVE  /\ used' \in [events : Nat, faults : Nat] /\ (used'.faults = 0 => used.faults = 0) /\ fan' = fan
         /\ owed' = owed \/ (Announce /\ fan.channel = "user")
<1>. USE DEF feeds
<1>1. ASSUME Fault PROVE used' \in [events : Nat, faults : Nat] /\ used'.faults # 0
  BY <1>1 DEF Fault
<1>2. CASE Event
  <2>1. used' = [used EXCEPT !.events = used.events + 1]
    BY <1>2 DEF Event
  <2>2. used' \in [events : Nat, faults : Nat] /\ used'.faults = used.faults
    BY <2>1
  <2>3. (Quote \/ Announce) => fan' = fan /\ (owed' = owed \/ (Announce /\ fan.channel = "user"))
    BY DEF Quote, Announce
  <2>4. ~Event => ~Quote /\ ~Announce
    BY DEF Quote, Announce
  <2>5. CASE Pass
    BY <2>5 DEF Pass
  <2>6. ASSUME NEW c \in DOMAIN conn,
               \/ Connect(c) \/ PingTick(c) \/ ReadPong(c) \/ Recycle(c)
               \/ Breaks(c) \/ GoesSilent(c) \/ ReadFrame(c)
        PROVE  fan' = fan /\ owed' = owed
    BY <2>6 DEF Connect, PingTick, ReadPong, Recycle, Breaks, GoesSilent, ReadFrame
  <2>7. CASE UNCHANGED vars
    BY <2>7 DEF vars
  <2>. QED
    BY <2>2, <2>3, <2>5, <2>6, <2>7 DEF Next
<1>3. CASE ~Event
  <2>1. CASE Pass
    BY <2>1 DEF Pass
  <2>2. ASSUME NEW c \in DOMAIN conn, Connect(c) \/ PingTick(c) \/ ReadPong(c) \/ Recycle(c) \/ ReadFrame(c)
        PROVE  fan' = fan /\ owed' = owed /\ used' = used
    BY <2>2 DEF Connect, PingTick, ReadPong, Recycle, ReadFrame
  <2>3. ASSUME NEW c \in DOMAIN conn, Breaks(c) \/ GoesSilent(c)
        PROVE  fan' = fan /\ owed' = owed /\ Fault
    BY <2>3 DEF Breaks, GoesSilent
  <2>4. CASE UNCHANGED vars
    BY <2>4 DEF vars
  <2>. QED
    BY <1>1, <1>3, <2>1, <2>2, <2>3, <2>4 DEF Next, Quote, Announce
<1>. QED
  BY <1>2, <1>3

\* A trade announced as final while nothing boots is held by a steady connection.
LEMMA AnnouncedHeld ==
  ASSUME TypeOK, CoverInv, Spaced, OneShard, fan.channel = "user", \A c \in Conns(fan) : Calm(c),
         \A c \in Conns(fan) : conn[c].down # "boot", NEW t \in Trades, Broadcast(Final(t)), fan' = fan
  PROVE  Pending(t)'
<1>1. PICK c \in Conns(fan) : Steady(conn[c])
  BY SomeSteady
<1>. DEFINE k == conn[c]
<1>2. k \in ConnType /\ k.feed \in Seq(Frames) /\ Final(t) \in Frames /\ DOMAIN conn = Conns(fan)
  BY DEF TypeOK, ConnType, Frames, Final
<1>3. Up(c) /\ k.silent = -1
  BY <1>1 DEF Steady, Up, Calm, CalmIs
<1>4. conn'[c] = [k EXCEPT !.feed = Append(k.feed, Final(t))]
  BY <1>2, <1>3 DEF Broadcast
<1>5. /\ conn'[c].down = k.down /\ conn'[c].ripe = k.ripe
      /\ conn'[c].feed = Append(k.feed, Final(t))
  BY <1>2, <1>4 DEF ConnType
<1>. HIDE DEF k
<1>6. Len(k.feed) + 1 \in 1..Len(conn'[c].feed) /\ conn'[c].feed[Len(k.feed) + 1] = Final(t)
  BY <1>2, <1>5, AppendProperties, LenProperties
<1>7. Steady(conn'[c])
  BY <1>1, <1>5 DEF Steady, k
<1>8. Holds(conn'[c], t)
  BY <1>6, <1>7 DEF Holds
<1>. QED
  BY <1>8 DEF Pending

\* No owed trade is lost.
LEMMA FillsStepwise ==
  ASSUME Spaced, OneShard, PongTimeout # 0, TypeOK, CoverInv, LedgerInv, FillsInv, LedgerInv', [Next]_vars
  PROVE  FillsInv'
<1>1. /\ used' \in [events : Nat, faults : Nat] /\ (used'.faults = 0 => used.faults = 0) /\ fan' = fan
      /\ owed' = owed \/ (Announce /\ fan.channel = "user")
  BY StepCounts DEF FillsInv
<1>2. owed' \subseteq Trades
  BY <1>1 DEF FillsInv, Announce
<1>3. fan'.channel # "user" => owed' = {}
  BY <1>1 DEF FillsInv
<1>4. SUFFICES ASSUME Faultless'
               PROVE  (\A c \in Conns(fan) : Calm(c)') /\ (\A t \in owed' : Pending(t)')
  BY <1>1, <1>2, <1>3 DEF FillsInv
<1>5. /\ Faultless /\ used'.faults = 0 /\ used.faults = 0 /\ fan.channel = "user"
      /\ \A c \in Conns(fan) : Calm(c)
      /\ \A t \in owed : t \in Trades /\ Pending(t)
  BY <1>1, <1>4 DEF Faultless, FillsInv
<1>6. \A c \in Conns(fan) : Calm(c)'
  BY <1>5, CalmStepwise DEF FillsInv
<1>7. ASSUME NEW t \in owed PROVE Pending(t)'
  <2>1. t \in Trades /\ Pending(t)
    BY <1>5, <1>7
  <2>2. CASE UNCHANGED vars
    BY <2>1, <2>2 DEF vars, Pending, Credited
  <2>3. CASE Next /\ Credited(t)
    <3>1. credits' = credits \/ (\E u \in Trades : credits' = Append(credits, u))
      BY CreditStep
    <3>2. Credited(t)'
      BY <2>3, <3>1, CreditsStay
    <3>. QED
      BY <3>2 DEF Pending
  <2>4. CASE Next /\ ~Credited(t)
    <3>1. PICK c \in Conns(fan) : Holds(conn[c], t)
      BY <2>1, <2>4 DEF Pending
    <3>. QED
      BY <1>1, <1>5, <1>6, <2>1, <2>4, <3>1, HeldOn
  <2>. QED
    BY <2>2, <2>3, <2>4
<1>8. ASSUME NEW t \in owed', t \notin owed PROVE Pending(t)'
  <2>1. Announce
    BY <1>1, <1>8
  <2>2. PICK u \in Trades, status \in {"retrying", "final"} :
          /\ Broadcast([kind |-> "trade", trade |-> u, status |-> status])
          /\ owed' = IF status = "final" /\ \A c \in DOMAIN conn : conn[c].down # "boot"
                     THEN owed \union {u} ELSE owed
    BY <2>1 DEF Announce
  <2>3. /\ t = u /\ status = "final" /\ \A c \in Conns(fan) : conn[c].down # "boot"
    BY <1>8, <2>2 DEF TypeOK
  <2>4. Broadcast(Final(t)) /\ t \in Trades
    BY <2>2, <2>3 DEF Final
  <2>. QED
    BY <1>1, <1>5, <2>3, <2>4, AnnouncedHeld
<1>. QED
  BY <1>6, <1>7, <1>8

\* The ledger is empty at the start.
LEMMA LedgerStarts ==
  ASSUME Init
  PROVE  LedgerInv
<1>1. seen = [set |-> {}, order |-> <<>>] /\ credits = <<>>
  BY DEF Init, S!Empty
<1>2. <<>> \in Seq(Trades) /\ Len(<<>>) = 0
  BY EmptySeq
<1>3. Window(seen, credits) /\ Apart(credits)
  BY <1>1, <1>2, StreamsAssumption DEF Window, Apart
<1>. QED
  BY <1>1, <1>2, <1>3 DEF LedgerInv, SeenType

\* If a reconnect is shorter than the interval divided by the number of connections
\* and the PONG deadline is a ping interval at least, then as long as nothing fails, a final trade
\* announced once all connections were up is credited when everything delivered is
\* read: for any number of connections, trades and recycles.
THEOREM NoFillMissed ==
  ASSUME Spaced, OneShard, PongTimeout # 0
  PROVE  Spec => []NothingMissed
<1>. DEFINE Inv == DeadlineInv /\ CoverInv /\ LedgerInv /\ FillsInv
<1>1. Init => Inv
  <2>1. SUFFICES ASSUME Init PROVE FillsInv
    BY CoverStarts, LedgerStarts
  <2>2. \A c \in Conns(fan) : conn[c] = DownFor("boot", "no")
    BY <2>1 DEF Init
  <2>3. clock = 0 /\ Reconnect \in Nat
    BY <2>1, StreamsAssumption DEF Init
  <2>4. \A c \in Conns(fan) : Calm(c)
    BY <2>2, <2>3 DEF Calm, CalmIs, DownFor
  <2>5. owed = {} /\ used \in [events : Nat, faults : Nat]
    BY <2>1 DEF Init
  <2>. QED
    BY <2>4, <2>5 DEF FillsInv
<1>2. Inv /\ [Next]_vars => Inv'
  <2>1. SUFFICES ASSUME Inv, [Next]_vars PROVE Inv'
    OBVIOUS
  <2>2. TypeOK
    BY <2>1 DEF DeadlineInv
  <2>3. DeadlineInv' /\ CoverInv' /\ LedgerInv'
    BY <2>1, <2>2, DeadlineStepwise, CoverStepwise, LedgerStepwise
  <2>. QED
    BY <2>1, <2>2, <2>3, FillsStepwise
<1>3. Inv => NothingMissed
  <2>1. SUFFICES ASSUME Inv, used.faults = 0, \A c \in DOMAIN conn : conn[c].feed = <<>>, NEW t \in owed
                 PROVE  \E i \in DOMAIN credits : credits[i] = t
    BY DEF NothingMissed
  <2>2. Pending(t)
    BY <2>1 DEF FillsInv, Faultless
  <2>3. Credited(t)
    <3>1. ASSUME NEW c \in Conns(fan), Holds(conn[c], t) PROVE FALSE
      <4>1. conn[c].feed = <<>>
        BY <2>1 DEF DeadlineInv, TypeOK
      <4>. QED
        BY <3>1, <4>1 DEF Holds
    <3>. QED
      BY <2>2, <3>1 DEF Pending
  <2>4. DOMAIN credits = 1..Len(credits)
    BY <2>1, LenProperties DEF LedgerInv
  <2>. QED
    BY <2>3, <2>4 DEF Credited
<1>. QED
  BY <1>1, <1>2, <1>3, PTL DEF Spec

---------------------------------------------------------------------------
(* The book.                                                               *)

\* Some connection carries the book.
Carried == \A f \in Fans : f.channel = "market" => f.shards # 0 /\ f.copies # 0

\* What a frame says of a level, and what a feed leaves it at once it is read.
Mentions(f, s, p) == f.kind = "book" \/ (f.kind = "delta" /\ f.side = s /\ f.price = p)
Says(f, s, p) == IF f.kind = "book" THEN f.book[s][p] ELSE f.size
Touches(l, s, p) == \E i \in 1..Len(l) : Mentions(l[i], s, p)
Leaves(l, s, p, n) ==
  \A i \in 1..Len(l) :
    Mentions(l[i], s, p) /\ (\A j \in 1..Len(l) : j > i => ~Mentions(l[j], s, p)) => Says(l[i], s, p) = n

\* A book has the level at n.
LevelIs(b, s, p, n) == IF n = 0 THEN p \notin DOMAIN b[s] ELSE p \in DOMAIN b[s] /\ b[s][p] = n
BookOK(b) == DOMAIN b = B!BookSides /\ \A s \in B!BookSides : DOMAIN b[s] \subseteq Prices

\* A connection that is heard leaves every level where the venue has it; and a level
\* that is wrong will be touched again, or a connection is still to come back.
Listening(k) == k.down = "no" /\ k.silent = -1
Told(s, p) == \A c \in Conns(fan) : Listening(conn[c]) => Leaves(conn[c].feed, s, p, ladder[s][p])
Expected(s, p) == \/ \E c \in Conns(fan) : ~Listening(conn[c])
                  \/ \E c \in Conns(fan) : Touches(conn[c].feed, s, p)
BookInv ==
  fan.channel = "market" =>
    /\ BookOK(book)
    /\ \A s \in B!BookSides, p \in Prices : Told(s, p) /\ (Expected(s, p) \/ LevelIs(book, s, p, ladder[s][p]))

\* A frame appended to a feed.
LEMMA AppendLeaves ==
  ASSUME NEW l \in Seq(Frames), NEW f \in Frames, NEW s, NEW p, NEW n
  PROVE  /\ Mentions(f, s, p) => Touches(Append(l, f), s, p) /\ Leaves(Append(l, f), s, p, Says(f, s, p))
         /\ ~Mentions(f, s, p) /\ Leaves(l, s, p, n) => Leaves(Append(l, f), s, p, n)
         /\ Touches(l, s, p) => Touches(Append(l, f), s, p)
<1>. DEFINE a == Append(l, f)
            m == Len(l)
<1>1. m \in Nat /\ Len(a) = m + 1 /\ a[m + 1] = f /\ \A i \in 1..m : a[i] = l[i]
  BY AppendProperties, LenProperties
<1>. HIDE DEF a
<1>. SUFFICES /\ Mentions(f, s, p) => Touches(a, s, p) /\ Leaves(a, s, p, Says(f, s, p))
              /\ ~Mentions(f, s, p) /\ Leaves(l, s, p, n) => Leaves(a, s, p, n)
              /\ Touches(l, s, p) => Touches(a, s, p)
  BY DEF a
<1>. HIDE DEF m
<1>2. m + 1 \in 1..Len(a) /\ (\A i \in 1..m : i \in 1..Len(a) /\ m + 1 > i)
      /\ (\A i \in 1..Len(a) : i \in 1..m \/ i = m + 1)
  BY <1>1
<1>3. ASSUME Mentions(f, s, p) PROVE Touches(a, s, p) /\ Leaves(a, s, p, Says(f, s, p))
  <2>1. Touches(a, s, p)
    BY <1>1, <1>2, <1>3 DEF Touches
  <2>2. ASSUME NEW i \in 1..Len(a), \A j \in 1..Len(a) : j > i => ~Mentions(a[j], s, p) PROVE i = m + 1
    BY <1>1, <1>2, <1>3, <2>2
  <2>3. Leaves(a, s, p, Says(f, s, p))
    BY <1>1, <2>2 DEF Leaves
  <2>. QED
    BY <2>1, <2>3
<1>4. ASSUME ~Mentions(f, s, p), Leaves(l, s, p, n) PROVE Leaves(a, s, p, n)
  <2>1. SUFFICES ASSUME NEW i \in 1..Len(a), Mentions(a[i], s, p),
                        \A j \in 1..Len(a) : j > i => ~Mentions(a[j], s, p)
                 PROVE  Says(a[i], s, p) = n
    BY DEF Leaves
  <2>2. i \in 1..m /\ a[i] = l[i]
    BY <1>1, <1>2, <1>4, <2>1
  <2>3. \A j \in 1..m : j > i => ~Mentions(l[j], s, p)
    BY <1>1, <1>2, <2>1
  <2>4. i \in 1..Len(l) /\ \A j \in 1..Len(l) : j > i => ~Mentions(l[j], s, p)
    BY <2>2, <2>3 DEF m
  <2>. QED
    BY <1>4, <2>1, <2>2, <2>4 DEF Leaves
<1>5. ASSUME Touches(l, s, p) PROVE Touches(a, s, p)
  <2>1. PICK i \in 1..m : Mentions(l[i], s, p)
    BY <1>5 DEF Touches, m
  <2>. QED
    BY <1>1, <1>2, <2>1 DEF Touches
<1>. QED
  BY <1>3, <1>4, <1>5

\* A frame read off a feed.
LEMMA TailLeaves ==
  ASSUME NEW l \in Seq(Frames), l # <<>>, NEW s, NEW p, NEW n
  PROVE  /\ Leaves(l, s, p, n) => Leaves(Tail(l), s, p, n)
         /\ Touches(l, s, p) => Touches(Tail(l), s, p) \/ Mentions(Head(l), s, p)
         /\ Leaves(l, s, p, n) /\ Mentions(Head(l), s, p) /\ ~Touches(Tail(l), s, p) => Says(Head(l), s, p) = n
<1>. DEFINE t == Tail(l)
            m == Len(t)
<1>1. m \in Nat /\ Len(l) = m + 1 /\ Head(l) = l[1] /\ \A i \in 1..m : t[i] = l[i + 1]
  BY HeadTailProperties, LenProperties, EmptySeq
<1>. HIDE DEF t
<1>. SUFFICES /\ Leaves(l, s, p, n) => Leaves(t, s, p, n)
              /\ Touches(l, s, p) => Touches(t, s, p) \/ Mentions(Head(l), s, p)
              /\ Leaves(l, s, p, n) /\ Mentions(Head(l), s, p) /\ ~Touches(t, s, p) => Says(Head(l), s, p) = n
  BY DEF t
<1>2. /\ \A i \in 1..m : i + 1 \in 1..Len(l) /\ i + 1 > 1
      /\ \A i \in 1..Len(l) : i # 1 => i - 1 \in 1..m /\ (i - 1) + 1 = i
      /\ 1 \in 1..Len(l)
  <2>. HIDE DEF m
  <2>. QED
    BY <1>1
<1>3. ASSUME Leaves(l, s, p, n) PROVE Leaves(t, s, p, n)
  <2>1. SUFFICES ASSUME NEW i \in 1..m, Mentions(t[i], s, p),
                        \A j \in 1..m : j > i => ~Mentions(t[j], s, p)
                 PROVE  Says(t[i], s, p) = n
    BY DEF Leaves, m
  <2>2. ASSUME NEW j \in 1..Len(l), j > i + 1 PROVE ~Mentions(l[j], s, p)
    <3>1. j # 1 /\ j - 1 > i
      BY <1>1, <2>2
    <3>2. j - 1 \in 1..m /\ t[j - 1] = l[j]
      BY <1>1, <1>2, <2>2, <3>1
    <3>. QED
      BY <2>1, <3>1, <3>2
  <2>3. i + 1 \in 1..Len(l) /\ l[i + 1] = t[i]
    BY <1>1, <1>2
  <2>. QED
    BY <1>3, <2>1, <2>2, <2>3 DEF Leaves
<1>4. ASSUME Touches(l, s, p), ~Mentions(Head(l), s, p) PROVE Touches(t, s, p)
  <2>1. PICK i \in 1..Len(l) : Mentions(l[i], s, p)
    BY <1>4 DEF Touches
  <2>2. i # 1
    BY <1>1, <1>4, <2>1
  <2>3. i - 1 \in 1..m /\ t[i - 1] = l[i]
    BY <1>1, <1>2, <2>2
  <2>. QED
    BY <2>1, <2>3 DEF Touches, m
<1>5. ASSUME Leaves(l, s, p, n), Mentions(Head(l), s, p), ~Touches(t, s, p) PROVE Says(Head(l), s, p) = n
  <2>1. ASSUME NEW j \in 1..Len(l), j > 1 PROVE ~Mentions(l[j], s, p)
    <3>1. j # 1
      BY <2>1
    <3>2. j - 1 \in 1..m /\ t[j - 1] = l[j]
      BY <1>1, <1>2, <3>1
    <3>. QED
      BY <1>5, <3>2 DEF Touches, m
  <2>. QED
    BY <1>1, <1>2, <1>5, <2>1 DEF Leaves
<1>. QED
  BY <1>3, <1>4, <1>5

\* A frame sets the levels it mentions and leaves the others.
LEMMA FrameApplied ==
  ASSUME BookOK(book), NEW f \in Frames, OnFrame(f)
  PROVE  /\ BookOK(book')
         /\ \A s \in B!BookSides, p \in Prices :
              /\ Mentions(f, s, p) => LevelIs(book', s, p, Says(f, s, p))
              /\ ~Mentions(f, s, p) => \A n : LevelIs(book, s, p, n) => LevelIs(book', s, p, n)
<1>1. CASE f.kind = "book"
  <2>1. f.book \in Ladders
    BY <1>1 DEF Frames
  <2>2. book' = B!ApplySnapshot(book, f.book)
    BY <1>1 DEF OnFrame
  <2>3. /\ DOMAIN book' = B!BookSides
        /\ \A s \in B!BookSides : /\ DOMAIN book'[s] = {q \in Prices : f.book[s][q] # 0}
                                  /\ \A q \in DOMAIN book'[s] : book'[s][q] = f.book[s][q]
    BY <2>1, <2>2 DEF B!ApplySnapshot, Ladders
  <2>4. BookOK(book')
    BY <2>3 DEF BookOK
  <2>5. \A s \in B!BookSides, p \in Prices : LevelIs(book', s, p, f.book[s][p]) /\ Mentions(f, s, p)
    BY <1>1, <2>3 DEF LevelIs, Mentions
  <2>. QED
    BY <1>1, <2>4, <2>5 DEF Says
<1>2. CASE f.kind = "delta"
  <2>1. f.side \in B!BookSides /\ f.price \in Prices
    BY <1>2 DEF Frames
  <2>2. book' = B!ApplyDelta(book, f.side, f.price, f.size)
    BY <1>2 DEF OnFrame, Patched
  <2>. DEFINE prices == IF f.size = 0 THEN DOMAIN book[f.side] \ {f.price} ELSE DOMAIN book[f.side] \union {f.price}
              lad == [p \in prices |-> IF p = f.price THEN f.size ELSE book[f.side][p]]
  <2>3. book' = [book EXCEPT ![f.side] = lad]
    BY <2>2 DEF B!ApplyDelta
  <2>4. /\ DOMAIN book' = B!BookSides /\ book'[f.side] = lad
        /\ \A s \in B!BookSides : s # f.side => book'[s] = book[s]
    BY <2>1, <2>3 DEF BookOK
  <2>5. DOMAIN lad = prices /\ prices \subseteq Prices
    BY <2>1 DEF BookOK
  <2>6. BookOK(book')
    BY <2>4, <2>5 DEF BookOK
  <2>7. ASSUME NEW s \in B!BookSides, NEW p \in Prices, Mentions(f, s, p)
        PROVE  LevelIs(book', s, p, Says(f, s, p))
    <3>1. s = f.side /\ p = f.price /\ Says(f, s, p) = f.size
      BY <1>2, <2>7 DEF Mentions, Says
    <3>. QED
      BY <2>4, <2>5, <3>1 DEF LevelIs
  <2>8. ASSUME NEW s \in B!BookSides, NEW p \in Prices, ~Mentions(f, s, p), NEW n, LevelIs(book, s, p, n)
        PROVE  LevelIs(book', s, p, n)
    <3>1. CASE s # f.side
      BY <2>4, <2>8, <3>1 DEF LevelIs
    <3>2. CASE s = f.side
      <4>1. p # f.price
        BY <1>2, <2>8, <3>2 DEF Mentions
      <4>2. (p \in prices <=> p \in DOMAIN book[s]) /\ (p \in prices => lad[p] = book[s][p])
        BY <3>2, <4>1
      <4>. QED
        BY <2>4, <2>5, <2>8, <3>2, <4>2 DEF LevelIs
    <3>. QED
      BY <3>1, <3>2
  <2>. QED
    BY <2>6, <2>7, <2>8
<1>3. CASE f.kind = "trade"
  <2>1. book' = book
    BY <1>3 DEF OnFrame
  <2>2. \A s, p : ~Mentions(f, s, p)
    BY <1>3 DEF Mentions
  <2>. QED
    BY <2>1, <2>2
<1>. QED
  BY <1>1, <1>2, <1>3 DEF Frames

\* Ladder and book stay, one connection changes: it is deaf now, or carries what it
\* carried, or starts over from a snapshot.
LEMMA OneTold ==
  ASSUME TypeOK, BookInv, fan.channel = "market", UNCHANGED <<fan, ladder, book>>,
         NEW c \in Conns(fan), NEW k, conn' = [conn EXCEPT ![c] = k],
         \/ ~Listening(k)
         \/ k.feed = conn[c].feed /\ (Listening(k) <=> Listening(conn[c]))
         \/ k.feed = <<[kind |-> "book", book |-> ladder]>>
  PROVE  BookInv'
<1>0. conn \in [Conns(fan) -> ConnType]
  BY DEF TypeOK
<1>1. \A e \in Conns(fan) : conn'[e] = IF e = c THEN k ELSE conn[e]
  BY <1>0
<1>2. SUFFICES ASSUME NEW s \in B!BookSides, NEW p \in Prices
               PROVE  /\ \A e \in Conns(fan) : Listening(conn'[e]) => Leaves(conn'[e].feed, s, p, ladder[s][p])
                      /\ \/ \E e \in Conns(fan) : ~Listening(conn'[e])
                         \/ \E e \in Conns(fan) : Touches(conn'[e].feed, s, p)
                         \/ LevelIs(book, s, p, ladder[s][p])
  BY DEF BookInv, Told, Expected
<1>3. /\ \A e \in Conns(fan) : Listening(conn[e]) => Leaves(conn[e].feed, s, p, ladder[s][p])
      /\ \/ \E e \in Conns(fan) : ~Listening(conn[e])
         \/ \E e \in Conns(fan) : Touches(conn[e].feed, s, p)
         \/ LevelIs(book, s, p, ladder[s][p])
  BY DEF BookInv, Told, Expected
<1>4. CASE ~Listening(k)
  BY <1>1, <1>3, <1>4
<1>5. CASE k.feed = conn[c].feed /\ (Listening(k) <=> Listening(conn[c]))
  BY <1>1, <1>3, <1>5
<1>6. CASE k.feed = <<[kind |-> "book", book |-> ladder]>>
  <2>. DEFINE f == [kind |-> "book", book |-> ladder]
  <2>1. f \in Frames /\ <<>> \in Seq(Frames) /\ k.feed = Append(<<>>, f)
    BY <1>6, EmptySeq DEF Frames, TypeOK
  <2>2. Mentions(f, s, p) /\ Says(f, s, p) = ladder[s][p]
    BY DEF Mentions, Says
  <2>. HIDE DEF f
  <2>3. Touches(k.feed, s, p) /\ Leaves(k.feed, s, p, ladder[s][p])
    BY <2>1, <2>2, AppendLeaves
  <2>. QED
    BY <1>1, <1>3, <2>3
<1>. QED
  BY <1>4, <1>5, <1>6

\* The venue's book changes, and everyone who is heard is told.
LEMMA QuoteTold ==
  ASSUME Carried, TypeOK, BookInv, fan.channel = "market", Quote
  PROVE  BookInv'
<1>0. conn \in [Conns(fan) -> ConnType] /\ DOMAIN conn = Conns(fan) /\ fan' = fan /\ book' = book
  BY DEF TypeOK, Quote
<1>1. PICK s \in B!BookSides, p \in Prices, n \in Sizes :
        /\ ladder' = [ladder EXCEPT ![s][p] = n]
        /\ Broadcast([kind |-> "delta", side |-> s, price |-> p, size |-> n])
  BY DEF Quote
<1>. DEFINE f == [kind |-> "delta", side |-> s, price |-> p, size |-> n]
<1>2. f \in Frames /\ f.kind = "delta" /\ f.side = s /\ f.price = p /\ f.size = n
  BY DEF Frames
<1>3. \A c \in Conns(fan) :
        conn'[c] = IF Listening(conn[c]) THEN [conn[c] EXCEPT !.feed = Append(conn[c].feed, f)] ELSE conn[c]
  BY <1>0, <1>1 DEF Broadcast, Listening, Up
<1>. HIDE DEF f
<1>4. \A c \in Conns(fan) :
        /\ Listening(conn'[c]) <=> Listening(conn[c])
        /\ conn[c].feed \in Seq(Frames)
        /\ conn'[c].feed = IF Listening(conn[c]) THEN Append(conn[c].feed, f) ELSE conn[c].feed
  BY <1>0, <1>3 DEF ConnType, Listening
<1>5. \A t \in B!BookSides, q \in Prices :
        ladder'[t][q] = IF t = s /\ q = p THEN n ELSE ladder[t][q]
  BY <1>1 DEF TypeOK, Ladders
<1>6. SUFFICES ASSUME NEW t \in B!BookSides, NEW q \in Prices
               PROVE  /\ \A e \in Conns(fan) : Listening(conn'[e]) => Leaves(conn'[e].feed, t, q, ladder'[t][q])
                      /\ \/ \E e \in Conns(fan) : ~Listening(conn'[e])
                         \/ \E e \in Conns(fan) : Touches(conn'[e].feed, t, q)
                         \/ LevelIs(book, t, q, ladder'[t][q])
  BY <1>0 DEF BookInv, Told, Expected
<1>7. /\ \A e \in Conns(fan) : Listening(conn[e]) => Leaves(conn[e].feed, t, q, ladder[t][q])
      /\ \/ \E e \in Conns(fan) : ~Listening(conn[e])
         \/ \E e \in Conns(fan) : Touches(conn[e].feed, t, q)
         \/ LevelIs(book, t, q, ladder[t][q])
  BY DEF BookInv, Told, Expected
<1>8. CASE t = s /\ q = p
  <2>1. Mentions(f, t, q) /\ Says(f, t, q) = ladder'[t][q]
    BY <1>2, <1>5, <1>8 DEF Mentions, Says
  <2>2. \A e \in Conns(fan) : Listening(conn[e]) => /\ Touches(conn'[e].feed, t, q)
                                                    /\ Leaves(conn'[e].feed, t, q, ladder'[t][q])
    BY <1>2, <1>4, <2>1, AppendLeaves
  <2>3. \E e : e \in Conns(fan)
    <3>1. fan \in Fans /\ fan.shards # 0 /\ fan.copies # 0
      BY DEF Carried, TypeOK
    <3>2. 0 \in 0..(fan.shards - 1) /\ 0 \in 0..(fan.copies - 1)
      BY <3>1, StreamsAssumption
    <3>3. <<0, 0>> \in Conns(fan)
      BY <3>2 DEF Conns
    <3>. QED
      BY <3>3
  <2>. QED
    BY <1>4, <2>2, <2>3
<1>9. CASE ~(t = s /\ q = p)
  <2>1. ~Mentions(f, t, q) /\ ladder'[t][q] = ladder[t][q]
    BY <1>2, <1>5, <1>9 DEF Mentions
  <2>2. \A e \in Conns(fan) : /\ Leaves(conn[e].feed, t, q, ladder[t][q]) => Leaves(conn'[e].feed, t, q, ladder[t][q])
                              /\ Touches(conn[e].feed, t, q) => Touches(conn'[e].feed, t, q)
    BY <1>2, <1>4, <2>1, AppendLeaves
  <2>. QED
    BY <1>4, <1>7, <2>1, <2>2
<1>. QED
  BY <1>8, <1>9

\* A frame is read.
LEMMA ReadTold ==
  ASSUME TypeOK, BookInv, fan.channel = "market", NEW c \in Conns(fan), ReadFrame(c)
  PROVE  BookInv'
<1>. DEFINE l == conn[c].feed
            f == Head(l)
<1>0. /\ conn \in [Conns(fan) -> ConnType] /\ fan' = fan /\ ladder' = ladder
      /\ l \in Seq(Frames) /\ l # <<>> /\ OnFrame(f) /\ BookOK(book)
  BY DEF TypeOK, ReadFrame, ConnType, BookInv
<1>1. f \in Frames
  BY <1>0, HeadTailProperties
<1>2. conn'[c] = [conn[c] EXCEPT !.feed = Tail(l)] /\ \A e \in Conns(fan) : e # c => conn'[e] = conn[e]
  BY <1>0 DEF ReadFrame
<1>3. conn'[c].feed = Tail(l) /\ (Listening(conn'[c]) <=> Listening(conn[c]))
  BY <1>0, <1>2 DEF ConnType, Listening
<1>4. /\ BookOK(book')
      /\ \A s \in B!BookSides, p \in Prices :
           /\ Mentions(f, s, p) => LevelIs(book', s, p, Says(f, s, p))
           /\ ~Mentions(f, s, p) => \A n : LevelIs(book, s, p, n) => LevelIs(book', s, p, n)
  BY <1>0, <1>1, FrameApplied
<1>5. SUFFICES ASSUME NEW s \in B!BookSides, NEW p \in Prices
               PROVE  /\ \A e \in Conns(fan) : Listening(conn'[e]) => Leaves(conn'[e].feed, s, p, ladder[s][p])
                      /\ \/ \E e \in Conns(fan) : ~Listening(conn'[e])
                         \/ \E e \in Conns(fan) : Touches(conn'[e].feed, s, p)
                         \/ LevelIs(book', s, p, ladder[s][p])
  BY <1>0, <1>4 DEF BookInv, Told, Expected
<1>6. /\ \A e \in Conns(fan) : Listening(conn[e]) => Leaves(conn[e].feed, s, p, ladder[s][p])
      /\ \/ \E e \in Conns(fan) : ~Listening(conn[e])
         \/ \E e \in Conns(fan) : Touches(conn[e].feed, s, p)
         \/ LevelIs(book, s, p, ladder[s][p])
  BY DEF BookInv, Told, Expected
<1>7. /\ Leaves(l, s, p, ladder[s][p]) => Leaves(Tail(l), s, p, ladder[s][p])
      /\ Touches(l, s, p) => Touches(Tail(l), s, p) \/ Mentions(f, s, p)
      /\ Leaves(l, s, p, ladder[s][p]) /\ Mentions(f, s, p) /\ ~Touches(Tail(l), s, p)
           => Says(f, s, p) = ladder[s][p]
  BY <1>0, TailLeaves
<1>. HIDE DEF f
<1>8. \A e \in Conns(fan) : Listening(conn'[e]) => Leaves(conn'[e].feed, s, p, ladder[s][p])
  BY <1>2, <1>3, <1>6, <1>7
<1>9. ASSUME \A e \in Conns(fan) : Listening(conn'[e]), \A e \in Conns(fan) : ~Touches(conn'[e].feed, s, p)
      PROVE  LevelIs(book', s, p, ladder[s][p])
  <2>1. \A e \in Conns(fan) : Listening(conn[e])
    BY <1>2, <1>3, <1>9
  <2>2. ~Touches(Tail(l), s, p) /\ \A e \in Conns(fan) : e # c => ~Touches(conn[e].feed, s, p)
    BY <1>2, <1>3, <1>9
  <2>3. CASE Mentions(f, s, p)
    <3>1. Says(f, s, p) = ladder[s][p]
      BY <1>6, <1>7, <2>1, <2>2, <2>3
    <3>2. LevelIs(book', s, p, Says(f, s, p))
      BY <1>4, <2>3
    <3>. QED
      BY <3>1, <3>2
  <2>4. CASE ~Mentions(f, s, p)
    <3>1. \A e \in Conns(fan) : ~Touches(conn[e].feed, s, p)
      BY <1>7, <2>2, <2>4
    <3>2. LevelIs(book, s, p, ladder[s][p])
      BY <1>6, <2>1, <3>1
    <3>. QED
      BY <1>4, <2>4, <3>2
  <2>. QED
    BY <2>3, <2>4
<1>. QED
  BY <1>8, <1>9

\* Every step keeps levels right, or expected.
LEMMA BookStepwise ==
  ASSUME Carried, DeadlineInv, BookInv, [Next]_vars
  PROVE  BookInv'
<1>. USE DEF feeds
<1>0. /\ TypeOK /\ conn \in [Conns(fan) -> ConnType] /\ DOMAIN conn = Conns(fan)
      /\ \A c \in Conns(fan) : Heard(conn[c])
  BY DEF DeadlineInv, TypeOK
<1>1. fan' = fan
  <2>1. CASE Pass
    BY <2>1 DEF Pass
  <2>2. CASE UNCHANGED vars
    BY <2>2 DEF vars
  <2>. QED
    BY <1>0, <2>1, <2>2, StepMoves
<1>2. SUFFICES ASSUME fan.channel = "market" PROVE BookInv'
  BY <1>1 DEF BookInv
<1>3. CASE Pass
  <2>1. UNCHANGED <<fan, ladder, book>>
    BY <1>3 DEF Pass
  <2>2. \A c \in Conns(fan) : conn'[c].feed = conn[c].feed /\ (Listening(conn'[c]) <=> Listening(conn[c]))
    <3>1. SUFFICES ASSUME NEW c \in Conns(fan)
                   PROVE  conn'[c].feed = conn[c].feed /\ (Listening(conn'[c]) <=> Listening(conn[c]))
      OBVIOUS
    <3>2. conn'[c] = Passed(c, clock') /\ conn[c] \in ConnType /\ conn[c].silent \in Int /\ conn[c].silent >= -1
      BY <1>0, <1>3 DEF Pass, Heard, ConnType
    <3>3. CASE conn[c].down # "no"
      BY <3>2, <3>3 DEF Passed, ConnType, Listening
    <3>4. CASE conn[c].down = "no"
      <4>1. /\ conn'[c].feed = conn[c].feed /\ conn'[c].down = "no"
            /\ conn'[c].silent = IF conn[c].silent = -1 THEN -1 ELSE conn[c].silent + 1
        BY <3>2, <3>4 DEF Passed, ConnType
      <4>. QED
        BY <3>2, <3>4, <4>1 DEF Listening
    <3>. QED
      BY <3>3, <3>4
  <2>. QED
    BY <1>2, <2>1, <2>2 DEF BookInv, Told, Expected
<1>4. CASE Quote
  BY <1>0, <1>2, <1>4, QuoteTold
<1>5. CASE Announce
  BY <1>2, <1>5 DEF Announce
<1>6. ASSUME NEW c \in Conns(fan), Drop(c, "fault"), UNCHANGED <<fan, ladder, book>> PROVE BookInv'
  <2>1. PICK ripe \in {"no", "due", "late"} : conn' = [conn EXCEPT ![c] = DownFor("fault", ripe)]
    BY <1>0, <1>6, DropTyped
  <2>2. ~Listening(DownFor("fault", ripe))
    BY DEF Listening, DownFor
  <2>. QED
    BY <1>0, <1>2, <1>6, <2>1, <2>2, OneTold
<1>7. ASSUME NEW c \in Conns(fan), Connect(c) PROVE BookInv'
  <2>. DEFINE k == [DownFor("no", conn[c].ripe) EXCEPT !.due = TRUE, !.feed = <<[kind |-> "book", book |-> ladder]>>]
  <2>1. conn' = [conn EXCEPT ![c] = k]
    BY <1>0, <1>2, <1>7 DEF Connect
  <2>2. k.feed = <<[kind |-> "book", book |-> ladder]>>
    BY DEF DownFor
  <2>3. UNCHANGED <<fan, ladder, book>>
    BY <1>7 DEF Connect
  <2>. QED
    BY <1>0, <1>2, <1>7, <2>1, <2>2, <2>3, OneTold
<1>8. ASSUME NEW c \in Conns(fan), PingTick(c) PROVE BookInv'
  <2>1. UNCHANGED <<fan, ladder, book>>
    BY <1>8 DEF PingTick
  <2>2. CASE Deadline(c)
    BY <1>6, <1>8, <2>1, <2>2 DEF PingTick
  <2>3. CASE ~Deadline(c)
    <3>1. conn' = [conn EXCEPT ![c] = Pinged(c)]
      BY <1>8, <2>3 DEF PingTick
    <3>2. Pinged(c).feed = conn[c].feed /\ (Listening(Pinged(c)) <=> Listening(conn[c]))
      BY <1>0 DEF Pinged, Listening, ConnType
    <3>. QED
      BY <1>0, <1>2, <2>1, <3>1, <3>2, OneTold
  <2>. QED
    BY <2>2, <2>3
<1>9. ASSUME NEW c \in Conns(fan), ReadPong(c) PROVE BookInv'
  <2>. DEFINE k == [conn[c] EXCEPT !.pong = FALSE, !.quiet = 0]
  <2>1. conn' = [conn EXCEPT ![c] = k] /\ UNCHANGED <<fan, ladder, book>>
    BY <1>0, <1>9 DEF ReadPong, ConnType
  <2>2. k.feed = conn[c].feed /\ (Listening(k) <=> Listening(conn[c]))
    BY <1>0 DEF Listening, ConnType
  <2>. QED
    BY <1>0, <1>2, <1>9, <2>1, <2>2, OneTold
<1>10. ASSUME NEW c \in Conns(fan), Recycle(c) PROVE BookInv'
  <2>1. PICK why \in {"recycle", "late"} : conn' = [conn EXCEPT ![c] = DownFor(why, "no")]
    BY <1>10 DEF Recycle
  <2>2. ~Listening(DownFor(why, "no")) /\ UNCHANGED <<fan, ladder, book>>
    BY <1>10 DEF Listening, DownFor, Recycle
  <2>. QED
    BY <1>0, <1>2, <1>10, <2>1, <2>2, OneTold
<1>11. ASSUME NEW c \in Conns(fan), GoesSilent(c) PROVE BookInv'
  <2>. DEFINE k == [conn[c] EXCEPT !.silent = 0]
  <2>1. conn' = [conn EXCEPT ![c] = k] /\ UNCHANGED <<fan, ladder, book>>
    BY <1>0, <1>11 DEF GoesSilent, ConnType
  <2>2. ~Listening(k)
    BY <1>0 DEF Listening, ConnType
  <2>. QED
    BY <1>0, <1>2, <1>11, <2>1, <2>2, OneTold
<1>12. ASSUME NEW c \in Conns(fan), Breaks(c) PROVE BookInv'
  BY <1>6, <1>12 DEF Breaks
<1>13. CASE UNCHANGED vars
  BY <1>13 DEF vars, BookInv, Told, Expected
<1>. QED
  BY <1>0, <1>2, <1>3, <1>4, <1>5, <1>7, <1>8, <1>9, <1>10, <1>11, <1>12, <1>13, ReadTold DEF Next

\* For any number of connections, levels and sizes, whatever is delayed, duplicated,
\* lost in gaps or read in whatever order: once every connection is up, heard and
\* read to its end, the book is the venue's.
THEOREM BookAlwaysConverges ==
  ASSUME Carried
  PROVE  Spec => []BookConverges
<1>1. Init => DeadlineInv /\ BookInv
  <2>1. SUFFICES ASSUME Init, fan.channel = "market" PROVE BookInv
    BY CoverStarts DEF BookInv
  <2>2. ladder \in Ladders /\ fan \in Fans
    BY <2>1 DEF Init
  <2>3. /\ DOMAIN book = B!BookSides
        /\ \A s \in B!BookSides : /\ DOMAIN book[s] = {q \in Prices : ladder[s][q] # 0}
                                  /\ \A q \in DOMAIN book[s] : book[s][q] = ladder[s][q]
    BY <2>1, <2>2 DEF Init, B!ApplySnapshot, Ladders
  <2>4. BookOK(book) /\ \A s \in B!BookSides, p \in Prices : LevelIs(book, s, p, ladder[s][p])
    BY <2>3 DEF BookOK, LevelIs
  <2>5. \A c \in Conns(fan) : ~Listening(conn[c])
    BY <2>1 DEF Init, DownFor, Listening
  <2>. QED
    BY <2>4, <2>5 DEF BookInv, Told
<1>2. DeadlineInv /\ BookInv /\ [Next]_vars => DeadlineInv' /\ BookInv'
  BY DeadlineStepwise, BookStepwise
<1>3. DeadlineInv /\ BookInv => BookConverges
  <2>1. SUFFICES ASSUME DeadlineInv, BookInv, fan.channel = "market", Drained, NEW s \in B!BookSides
                 PROVE  /\ DOMAIN book[s] = {p \in Prices : ladder[s][p] # 0}
                        /\ \A p \in DOMAIN book[s] : book[s][p] = ladder[s][p]
    BY DEF BookConverges
  <2>2. \A c \in Conns(fan) : Listening(conn[c]) /\ conn[c].feed = <<>>
    BY <2>1 DEF Drained, DeadlineInv, TypeOK, Listening, Up
  <2>3. \A p \in Prices : ~Expected(s, p)
    BY <2>2 DEF Expected, Touches
  <2>4. \A p \in Prices : LevelIs(book, s, p, ladder[s][p])
    BY <2>1, <2>3 DEF BookInv
  <2>5. DOMAIN book[s] \subseteq Prices
    BY <2>1 DEF BookInv, BookOK
  <2>. QED
    BY <2>4, <2>5 DEF LevelIs
<1>. QED
  BY <1>1, <1>2, <1>3, PTL DEF Spec
=============================================================================
