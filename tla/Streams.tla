------------------------------- MODULE Streams -------------------------------
(***************************************************************************)
(* Redundant WebSocket connections to one channel (src/ws): every shard of *)
(* the subscription is held by several copies, each a LiveSocket with its  *)
(* ping interval and PONG deadline and a reader with a recycle timer.  The *)
(* market channel feeds a Book, the user channel a fill ledger behind one  *)
(* SeenIds.  Time passes in units of PING_INTERVAL; readers are polled     *)
(* promptly, so what is due or delivered in a unit is handled in it.       *)
(***************************************************************************)
EXTENDS Integers, Sequences, FiniteSets

CONSTANTS
  Fans,          \* [channel, shards, copies, period, events, faults]: what is run
  PongTimeout,   \* PONG_TIMEOUT, in ping intervals
  Reconnect,     \* units a connection takes to come back, backoff apart
  Prices, Sizes, \* of the one token whose book is kept
  Trades,        \* ids of the trades the key takes part in
  Cap            \* of SeenIds

ASSUME StreamsAssumption ==
  /\ \A f \in Fans : /\ f.shards \in Nat /\ f.copies \in Nat /\ f.period \in Nat
                      /\ f.events \in Nat /\ f.faults \in Nat
  /\ PongTimeout \in Nat /\ Reconnect \in Nat /\ Cap \in Nat

S == INSTANCE SeenIds
B == INSTANCE OrderBook

VARIABLES
  fan,      \* the member of Fans that is run
  clock,    \* modulo fan.period
  conn,     \* the connections, <<shard, copy>>
  ladder,   \* the venue's book
  book,     \* ours
  trades,   \* the venue: each trade's status
  seen,     \* SeenIds
  credits,  \* history: the trades handled, in order
  owed,     \* history: trades that became final while every reader was running
  used      \* bounds: events, faults

vars == <<fan, clock, conn, ladder, book, trades, seen, credits, owed, used>>
feeds == <<ladder, book, trades, seen, credits, owed>>

Conns(f) == (0..(f.shards - 1)) \X (0..(f.copies - 1))
Up(c) == conn[c].down = "no"

\* A connection that is down says why; `gap` counts its units down.  `due` and
\* `ripe` are the two timers' ticks, `quiet` the units since last_pong.
DownFor(why, ripe) ==
  [down |-> why, gap |-> 0, due |-> FALSE, quiet |-> 0, pong |-> FALSE, ripe |-> ripe,
   silent |-> -1, feed |-> <<>>]

Ladders == [B!BookSides -> [Prices -> Sizes]]
Init ==
  /\ fan \in Fans /\ clock = 0
  /\ conn = [c \in Conns(fan) |-> DownFor("boot", "no")]
  /\ ladder \in Ladders /\ (fan.channel = "user" => \A s \in B!BookSides : \A p \in Prices : ladder[s][p] = 0)
  /\ book = B!ApplySnapshot([s \in B!BookSides |-> <<>>], ladder)     \* the REST seed
  /\ trades = [t \in Trades |-> "none"]
  /\ seen = S!Empty /\ credits = <<>> /\ owed = {}
  /\ used = [events |-> 0, faults |-> 0]

---------------------------------------------------------------------------
(* recycle_offset and market_recycle_offset: the connections' ticks are    *)
(* spread evenly over the period, copy-major; none without a peer.         *)

SlotShardMajor(c) == c[1] * fan.copies + c[2]       \* mutant
Slot(c) == c[2] * fan.shards + c[1]
Recycles == fan.period # 0 /\ fan.copies >= 2 /\ fan.shards * fan.copies <= 255   \* u8::MAX
Offset(c) == (fan.period * (Slot(c) + 1)) \div (fan.shards * fan.copies)

\* The grid is anchored when the timer is built, once per connection.
OnGrid(c, now) == Recycles /\ (now - Offset(c)) % fan.period = 0

---------------------------------------------------------------------------
(* LiveSocket.                                                             *)

\* A connection goes down; what it had not delivered is lost.  A recycle tick
\* that comes while it is down is served when it is polled again (Skip).
Drop(c, why) ==
  conn' = [conn EXCEPT ![c] = DownFor(why, IF @.ripe = "due" THEN "late" ELSE @.ripe)]

\* The market channel answers a subscription with a snapshot, the user channel
\* has no replay.  The first ping tick is immediate.
Connect(c) ==
  /\ ~Up(c)
  /\ conn' = [conn EXCEPT ![c] = [DownFor("no", @.ripe) EXCEPT
       !.due = TRUE,
       !.feed = IF fan.channel = "market" THEN <<[kind |-> "book", book |-> ladder]>> ELSE <<>>]]
  /\ UNCHANGED <<fan, clock, feeds, used>>

\* The deadline is looked at on ping ticks, before the PING is sent.
Deadline(c) == conn[c].quiet > PongTimeout
PingedIsHeard(c) == [conn[c] EXCEPT !.due = FALSE, !.quiet = 0]   \* mutant: last_pong set at the PING
Pinged(c) == [conn[c] EXCEPT !.due = FALSE, !.pong = @ \/ conn[c].silent = -1]
PingTick(c) ==
  /\ Up(c) /\ conn[c].due
  /\ IF Deadline(c) THEN Drop(c, "fault") ELSE conn' = [conn EXCEPT ![c] = Pinged(c)]
  /\ UNCHANGED <<fan, clock, feeds, used>>

ReadPong(c) ==
  /\ Up(c) /\ conn[c].pong
  /\ conn' = [conn EXCEPT ![c].pong = FALSE, ![c].quiet = 0]
  /\ UNCHANGED <<fan, clock, feeds, used>>

\* The reader's select takes the recycle tick: a polite close.
Recycle(c) ==
  /\ Up(c) /\ conn[c].ripe # "no"
  /\ conn' = [conn EXCEPT ![c] = DownFor(IF @.ripe = "due" THEN "recycle" ELSE "late", "no")]
  /\ UNCHANGED <<fan, clock, feeds, used>>

Fault == used.faults < fan.faults /\ used' = [used EXCEPT !.faults = @ + 1]

\* The server closes, a read or a PING fails, a frame does not parse.
Breaks(c) == Up(c) /\ Fault /\ Drop(c, "fault") /\ UNCHANGED <<fan, clock, feeds>>

\* Nothing comes from the peer any more, and no failure tells of it.
GoesSilent(c) ==
  /\ Up(c) /\ conn[c].silent = -1 /\ Fault
  /\ conn' = [conn EXCEPT ![c].silent = 0]
  /\ UNCHANGED <<fan, clock, feeds>>

Passed(c, now) ==
  LET k == conn[c]
      ripe == IF ~OnGrid(c, now) THEN k.ripe ELSE IF k.down = "no" THEN "due" ELSE "late"
  IN  IF k.down # "no" THEN [k EXCEPT !.gap = IF @ < Reconnect THEN @ + 1 ELSE @, !.ripe = ripe]
      ELSE [k EXCEPT !.due = TRUE, !.quiet = @ + 1, !.ripe = ripe,
                     !.silent = IF @ = -1 THEN -1 ELSE @ + 1]
Pass ==
  /\ \A c \in DOMAIN conn :
       IF Up(c) THEN ~conn[c].due /\ ~conn[c].pong /\ conn[c].ripe = "no" /\ conn[c].feed = <<>>
       ELSE conn[c].down # "fault" => conn[c].gap < Reconnect
  /\ clock' = IF fan.period = 0 THEN 0 ELSE (clock + 1) % fan.period
  /\ conn' = [c \in DOMAIN conn |-> Passed(c, clock')]
  /\ UNCHANGED <<fan, feeds, used>>

---------------------------------------------------------------------------
(* The venue.                                                              *)

Event == used.events < fan.events /\ used' = [used EXCEPT !.events = @ + 1]
Broadcast(frame) ==
  conn' = [c \in DOMAIN conn |-> IF Up(c) /\ conn[c].silent = -1
                                 THEN [conn[c] EXCEPT !.feed = Append(@, frame)] ELSE conn[c]]

Quote ==
  /\ fan.channel = "market" /\ Event
  /\ \E s \in B!BookSides, p \in Prices, n \in Sizes :
       /\ n # ladder[s][p]
       /\ ladder' = [ladder EXCEPT ![s][p] = n]
       /\ Broadcast([kind |-> "delta", side |-> s, price |-> p, size |-> n])
  /\ UNCHANGED <<fan, clock, book, trades, seen, credits, owed>>

\* A trade is announced under several statuses, of which one is final.
Announce ==
  /\ fan.channel = "user" /\ Event
  /\ \E t \in Trades, status \in {"retrying", "final"} :
       /\ trades[t] # "final" /\ trades[t] # status
       /\ trades' = [trades EXCEPT ![t] = status]
       /\ Broadcast([kind |-> "trade", trade |-> t, status |-> status])
       /\ owed' = IF status = "final" /\ \A c \in DOMAIN conn : conn[c].down # "boot"
                  THEN owed \union {t} ELSE owed
  /\ UNCHANGED <<fan, clock, ladder, book, seen, credits>>

---------------------------------------------------------------------------
(* The readers.                                                            *)

\* our_maker_side: a trade names the taker's side and outcome, a maker order only
\* its outcome.
Opposite == [buy |-> "sell", sell |-> "buy"]
OurMakerSide(taker_side, taker_outcome, maker_outcome) ==
  IF taker_outcome = "none" \/ taker_side \notin DOMAIN Opposite THEN "none"
  ELSE IF maker_outcome = taker_outcome THEN Opposite[taker_side] ELSE taker_side

OnTradeDedupFirst(t, status) ==         \* mutant: the gate comes after the dedup
  /\ seen' = S!Insert(seen, t, Cap)
  /\ credits' = IF status = "final" /\ t \notin seen.set THEN Append(credits, t) ELSE credits
\* is_final gates before SeenIds is asked.
OnTrade(t, status) ==
  IF status = "final"
  THEN /\ seen' = S!Insert(seen, t, Cap)
       /\ credits' = IF t \notin seen.set THEN Append(credits, t) ELSE credits
  ELSE UNCHANGED <<seen, credits>>

Patched(frame) == B!ApplyDelta(book, frame.side, frame.price, frame.size)
OnFrame(frame) ==
  CASE frame.kind = "book"  -> book' = B!ApplySnapshot(book, frame.book) /\ UNCHANGED <<seen, credits>>
    [] frame.kind = "delta" -> book' = Patched(frame) /\ UNCHANGED <<seen, credits>>
    [] frame.kind = "trade" -> OnTrade(frame.trade, frame.status) /\ UNCHANGED book

ReadFrame(c) ==
  /\ Up(c) /\ conn[c].feed # <<>>
  /\ OnFrame(Head(conn[c].feed))
  /\ conn' = [conn EXCEPT ![c].feed = Tail(@)]
  /\ UNCHANGED <<fan, clock, ladder, trades, owed, used>>

Next ==
  \/ Pass \/ Quote \/ Announce
  \/ \E c \in DOMAIN conn : \/ Connect(c) \/ PingTick(c) \/ ReadPong(c) \/ Recycle(c)
                            \/ Breaks(c) \/ GoesSilent(c) \/ ReadFrame(c)
Spec == Init /\ [][Next]_vars

---------------------------------------------------------------------------
\* Once every connection is up, heard and read to the end, the book is the
\* venue's, level for level, whatever the copies' delays, the duplicates, the
\* frames lost in gaps and the levels that went while nobody listened
\* (apply_delta, "the reconstructed book converges regardless of duplication").
Drained == \A c \in DOMAIN conn : Up(c) /\ conn[c].silent = -1 /\ conn[c].feed = <<>>
BookConverges ==
  fan.channel = "market" /\ fan.events > 0 /\ Drained =>
    \A s \in B!BookSides :
      /\ DOMAIN book[s] = {p \in Prices : ladder[s][p] # 0}
      /\ \A p \in DOMAIN book[s] : book[s][p] = ladder[s][p]

\* A trade is credited again only after at least Cap others were: a copy that
\* lags by less never gets one through twice (SeenIds).
CreditedApart ==
  \A i, j \in DOMAIN credits : i < j /\ credits[i] = credits[j] => j - i > Cap

\* As long as connections go down only to be recycled, no final trade is missed:
\* not in the gap of a recycle, not for an earlier status, not for another trade.
NothingMissed ==
  used.faults = 0 /\ (\A c \in DOMAIN conn : conn[c].feed = <<>>) =>
    \A t \in owed : \E i \in DOMAIN credits : credits[i] = t

\* The copies of a shard are never all down for scheduled recycles, whatever
\* failed and backed off before: there is always a peer to cover the gap
\* (market_recycle_offset).  Only a tick that fell into a backoff and is served
\* late can break the rule.
AlwaysCovered ==
  \A s \in 0..(fan.shards - 1) : Recycles =>
    \E copy \in 0..(fan.copies - 1) : conn[<<s, copy>>].down # "recycle"

\* A peer that has fallen silent is given up within PongTimeout + 1 units (40 s):
\* the deadline is looked at on ping ticks only.
HalfOpenDetected ==
  \A c \in DOMAIN conn : conn[c].silent <= PongTimeout + 1
=============================================================================
