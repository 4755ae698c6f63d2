------------------------------- MODULE Session -------------------------------
(***************************************************************************)
(* A trading session as examples/quickstart.rs runs it: ClobClientBuilder  *)
(* obtains credentials and an identity, the token's exchange is looked up, *)
(* an order is sized from the book, signed, posted, listed and cancelled.  *)
(* Or the client starts from saved credentials.                            *)
(***************************************************************************)
EXTENDS OrderSigning

CONSTANTS
  Tokens, Batch,           \* the tokens traded, in order, and MAX_BATCH_SIZE
  Depths, Ticks,           \* what a book may hold at the best ask; price grids
  MaxOrder, Budgets,       \* the caller's caps: size, and cash (0: none)
  MaxRefusals              \* bound: failed calls

\* A tick divides the dollar into prices above zero and below one.
ASSUME SessionAssumption ==
  /\ Tokens \in Seq(ToSet(Tokens)) /\ Batch \in Nat \ {0}
  /\ Depths \subseteq Nat /\ MaxOrder \in Nat /\ Budgets \subseteq Nat /\ MaxRefusals \in Nat
  /\ \A tick \in Ticks : tick \in Nat /\ 0 < tick /\ tick < Unit

VARIABLES
  account,   \* the builder: chain, type, funder, nonce; whether the tokens are negRisk
             \* and which have a book that parses
  pc, key,   \* where the session is; the credentials it holds
  identity,  \* the order identity resolved
  venueKeys, \* the keys the venue holds, each named by what asked for it
  books,     \* the tokens whose book came back
  sent,      \* the last request, with the order it carries
  refusals   \* bound

sessionVars == <<account, pc, key, identity, venueKeys, books, sent, refusals>>

NoKey == [address |-> "none", chain |-> "none", nonce |-> 0]
Unsent == [kind |-> "nothing"]
Funders == {"none", "someone else"} \union {OwnWallet(t, c) : t \in SignatureType, c \in Chains}
Accounts ==
  {a \in [type: SignatureType, chain: Chains, neg_risk: BOOLEAN, nonce: 0..1,
          sound: {ToSet(Tokens)} \union {ToSet(Tokens) \ {t} : t \in ToSet(Tokens)},
          funder: Funders] :
     a.funder \in {"none", "someone else", Eoa, OwnWallet(a.type, a.chain)}}

\* The wallet may have a key already, for this nonce or another; a session starts
\* from scratch or from credentials saved.
SessionInit(accounts) ==
  /\ account \in accounts
  /\ venueKeys \in SUBSET {L1Headers(account.chain, n) : n \in 0..1}
  /\ \/ key = NoKey /\ pc = "create"
     \/ key \in venueKeys /\ pc = "keyed"
  /\ refusals = 0 /\ identity = Refused /\ books = {} /\ sent = Unsent

\* api_key_request: what both calls attest.
Asked == L1Headers(account.chain, account.nonce)
Refusal == refusals < MaxRefusals /\ refusals' = refusals + 1

\* authenticate creates a key; an HTTP error (the key exists, or another) makes
\* it derive, a 429 or a lost connection ends the call, and it may be run again,
\* though the key may have been made.
CreateKey ==
  /\ pc = "create"
  /\ \/ Asked \notin venueKeys /\ key' = Asked /\ pc' = "keyed" /\ UNCHANGED refusals
     \/ Asked \in venueKeys /\ pc' = "derive" /\ UNCHANGED <<key, refusals>>
     \/ Refusal /\ pc' \in {"derive", "create"} /\ UNCHANGED key
  /\ venueKeys' \in {venueKeys, venueKeys \union {Asked}}
  /\ pc' = "keyed" => key' \in venueKeys'
  /\ UNCHANGED <<account, identity, books, sent>>

DeriveKey ==
  /\ pc = "derive"
  /\ \/ Asked \in venueKeys /\ key' = Asked /\ pc' = "keyed" /\ UNCHANGED refusals
     \/ Asked \notin venueKeys /\ pc' = "stopped" /\ UNCHANGED <<key, refusals>>
     \/ Refusal /\ pc' = "stopped" /\ UNCHANGED key
  /\ UNCHANGED <<account, identity, venueKeys, books, sent>>

\* with_credentials: the identity is resolved, or the build fails.
WithCredentials ==
  /\ pc = "keyed"
  /\ identity' = ResolveIdentity(account.type, account.funder)
  /\ pc' = IF identity' = Refused THEN "stopped" ELSE "ready"
  /\ UNCHANGED <<account, key, venueKeys, books, sent, refusals>>

\* order_book_map; a failed chunk is the call's.
FetchBooks ==
  /\ pc = "ready"
  /\ \/ books' = BookMap(Tokens, Batch, account.sound) /\ pc' = "booked" /\ UNCHANGED refusals
     \/ Refusal /\ UNCHANGED <<books, pc>>
  /\ UNCHANGED <<account, key, identity, venueKeys, sent>>

\* The order is sized from a token's book and priced at a rail of its grid; neg_risk
\* names its exchange; it is built, signed and posted.
Post ==
  /\ pc = "booked"
  /\ \E side \in {"buy", "sell"}, depth \in Depths, tick \in Ticks, budget \in Budgets :
       \E price \in {TickEntry(tick).min_price, TickEntry(tick).max_price} :
         LET size  == ComputeOrderSize(depth, MaxOrder, budget, price)
             order == BuildOrder(identity, side, size, price)
         IN  /\ size # NoSize
             /\ sent' = [kind |-> "order", size |-> size, price |-> price, budget |-> budget, depth |-> depth,
                         order |-> order,
                         sig |-> SignOrder(Signer(account.chain, CtfV2(account.neg_risk), identity), order),
                         request |-> Request(key, "POST", "/orders", "", "orders")]
  /\ pc' = "posted"
  /\ UNCHANGED <<account, key, identity, venueKeys, books, refusals>>

ListOrders ==
  /\ pc = "posted" /\ pc' = "listed"
  /\ sent' = [kind |-> "request", request |-> Request(key, "GET", "/data/orders", "?next_cursor=", "")]
  /\ UNCHANGED <<account, key, identity, venueKeys, books, refusals>>
Cancel ==
  /\ pc \in {"posted", "listed"} /\ pc' = "done"
  /\ sent' = [kind |-> "request", request |-> Request(key, "DELETE", "/orders", "", "ids")]
  /\ UNCHANGED <<account, key, identity, venueKeys, books, refusals>>

SessionNext == CreateKey \/ DeriveKey \/ WithCredentials \/ FetchBooks \/ Post \/ ListOrders \/ Cancel

OwnFunds == account.funder \in {"none", OwnWallet(account.type, account.chain)}
\* The amounts say exactly the price, in shares of two decimals (SIZE_DECIMALS),
\* within what the book holds and the budget.
QuotedExactly(o) ==
  LET buys   == o.order.side = "buy"
      cash   == IF buys THEN o.order.amounts.maker ELSE o.order.amounts.taker
      shares == IF buys THEN o.order.amounts.taker ELSE o.order.amounts.maker
  IN  /\ shares > 0 /\ shares % 10000 = 0 /\ cash = (shares \div Unit) * o.price
      /\ shares <= o.depth * 100 /\ (o.budget > 0 => cash <= o.budget * 100)

\* Whatever the signature type, chain, exchange and way to the credentials, every
\* request is one the venue admits for a key it holds; every order is one the
\* token's exchange accepts from the wallet, for amounts that say exactly the
\* price, if the funder configured is the key's own wallet; and a malformed book
\* costs the session that book only.
SessionVerifies ==
  /\ sent.kind # "nothing" => VenueAdmits(sent.request, venueKeys) /\ books = account.sound
  /\ sent.kind = "order" /\ OwnFunds =>
       /\ ExchangeAccepts(account.chain, account.neg_risk, sent.order, sent.sig)
       /\ QuotedExactly(sent)
=============================================================================
