----------------------------- MODULE OrderSigning -----------------------------
(***************************************************************************)
(* Identities, order building and signing (src/clob/signing.rs), and the   *)
(* request signatures of src/auth.rs.  Cryptography is symbolic: a hash is *)
(* the record of what went into it, and a signature names the key and the  *)
(* digest.                                                                 *)
(***************************************************************************)
EXTENDS OrderSizing, Integers

SignatureType == {"eoa", "proxy", "safe", "poly1271"}

\* The wallets of the one key: CREATE2 derives proxy and Safe from the EOA, and
\* a deposit wallet is owned by it.  There is no proxy factory on Amoy.
Eoa == "eoa"
Chains == {"polygon", "amoy"}
DeriveProxy(chain) == IF chain = "polygon" THEN "eoa's proxy" ELSE "none"
DeriveSafe(chain)  == "eoa's safe"
Deposit == "eoa's deposit wallet"
OwnWallet(type, chain) ==
  CASE type = "eoa" -> Eoa [] type = "proxy" -> DeriveProxy(chain)
    [] type = "safe" -> DeriveSafe(chain) [] type = "poly1271" -> Deposit

\* resolve_identity: the maker and signer an order carries, by signature type.
Refused == [maker |-> "none", signer |-> "none", type |-> "eoa"]
EoaSigns(type, funder) ==                  \* mutant: the EOA signs for every wallet
  IF type = "eoa" /\ funder \in {"none", Eoa}
  THEN [maker |-> Eoa, signer |-> Eoa, type |-> type]
  ELSE IF type = "eoa" \/ funder = "none" THEN Refused
  ELSE [maker |-> funder, signer |-> Eoa, type |-> type]
ResolveIdentity(type, funder) ==
  CASE type = "eoa" /\ funder \in {"none", Eoa} -> [maker |-> Eoa, signer |-> Eoa, type |-> type]
    [] type = "eoa" /\ funder \notin {"none", Eoa} -> Refused
    [] type # "eoa" /\ funder = "none" -> Refused
    [] type \in {"proxy", "safe"} /\ funder # "none" ->
         [maker |-> funder, signer |-> Eoa, type |-> type]
    [] type = "poly1271" /\ funder # "none" -> [maker |-> funder, signer |-> funder, type |-> type]

---------------------------------------------------------------------------
(* Orders.                                                                 *)

\* to_fixed_usdc: raw units (millionths) of an amount in hundred-millionths; what
\* is finer is cut off, a negative amount is an error.
Negative == -1
ToFixed(d) == IF d < 0 THEN Negative ELSE d \div 100

\* A BUY gives size times price for size shares, a SELL the reverse.
Amounts(side, size, price) ==
  LET shares == ToFixed(size * Unit)  cash == ToFixed(size * price)
  IN  IF side = "buy" THEN [maker |-> cash, taker |-> shares] ELSE [maker |-> shares, taker |-> cash]

BuildOrder(identity, side, size, price) ==
  [maker |-> identity.maker, signer |-> identity.signer, type |-> identity.type,
   side |-> side, amounts |-> Amounts(side, size, price)]

---------------------------------------------------------------------------
(* OrderSigner.                                                            *)

CtfV2(neg_risk) ==
  [version |-> "2", contract |-> IF neg_risk THEN "negRisk exchange" ELSE "exchange"]
Separator(chain, domain) == [chain |-> chain, domain |-> domain]

Contents(order) == [order |-> order]
\* Solady's TypedDataSign, over the wallet's own domain.
TypedDataSign(chain, wallet, contents) ==
  [contents |-> contents, name |-> "DepositWallet", version |-> "1", chain |-> chain, wallet |-> wallet]

Signer(chain, domain, identity) ==
  [separator |-> Separator(chain, domain), chain |-> chain, identity |-> identity]

\* Types 0, 1 and 2 sign the exchange digest of the order itself, type 3 that of
\* the wrapped order, and its signature carries what the wallet needs to see it.
Plain(s, order) ==
  [by |-> Eoa, wrapped |-> FALSE, separator |-> s.separator, hash |-> Contents(order)]
Wrapped(s, order) ==
  [by |-> Eoa, wrapped |-> TRUE, separator |-> s.separator,
   hash |-> TypedDataSign(s.chain, s.identity.signer, Contents(order))]
SignOrder(s, order) == IF s.identity.type = "poly1271" THEN Wrapped(s, order) ELSE Plain(s, order)

\* The exchange a token trades on: it recovers the key for types 0 to 2, and asks
\* the wallet, which rebuilds the wrapping, for type 3.
ExchangeAccepts(chain, neg_risk, order, sig) ==
  /\ sig.separator = Separator(chain, CtfV2(neg_risk))
  /\ sig.by = Eoa /\ order.maker = OwnWallet(order.type, chain)
  /\ IF order.type = "poly1271"
     THEN /\ sig.wrapped /\ order.signer = order.maker
          /\ sig.hash = TypedDataSign(chain, order.signer, Contents(order))
     ELSE ~sig.wrapped /\ order.signer = Eoa /\ sig.hash = Contents(order)

---------------------------------------------------------------------------
(* Requests: l1_headers attest the wallet, l2_headers sign timestamp,      *)
(* method, path and body; the query is left out.                           *)

L1Headers(chain, nonce) == [address |-> Eoa, chain |-> chain, nonce |-> nonce]
L2Message(method, path, body) == [method |-> method, path |-> path, body |-> body]
WithQuery(key, method, path, query, body) ==      \* mutant: the query is signed too
  [key |-> key, method |-> method, path |-> path, query |-> query, body |-> body,
   signed |-> L2Message(method, IF query = "" THEN path ELSE path \o query, body)]
Request(key, method, path, query, body) ==
  [key |-> key, method |-> method, path |-> path, query |-> query, body |-> body,
   signed |-> L2Message(method, path, body)]
VenueAdmits(request, keys) ==
  request.key \in keys /\ request.signed = L2Message(request.method, request.path, request.body)
=============================================================================
