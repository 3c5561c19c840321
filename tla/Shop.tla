--------------------------------- MODULE Shop ---------------------------------
(***************************************************************************)
(* The demo shop: BuySheet pays the treasury and reports the payment         *)
(* (app/shop/page.tsx), and POST /api/shop/buy verifies the payment, stores  *)
(* an order and mints the token (app/api/shop/buy/route.ts), over KvStore.   *)
(*                                                                         *)
(* A request runs from one await to the next, as in Cards.  Anyone who holds *)
(* the wallet may also post by hand, or post again.                          *)
(***************************************************************************)
EXTENDS KvStore, Bags

CONSTANTS
  Requests,      \* requests being served at one time
  Wallets,
  Sigs,          \* the signatures payments will have
  Symbols,
  Items,         \* shop-items.json: [kind, price, least] by symbol
  StockPrices,   \* what SignedPrice.price may hold
  Unit,          \* 10^decimals of a stock or an art note
  MinPaid,       \* 10_000_000: the least purchase that is not an item
  Amounts,       \* what a payment may move
  Openable,      \* bound: the token accounts that others may open
  MaxList,       \* 100
  MaxMints,      \* bound: tokens minted in all
  Repeats,       \* whether requests are also posted by hand
  Timeouts,      \* whether a confirmation may time out
  Stops,         \* whether a server process may stop
  Expires        \* whether 30 days may pass

pay(s)  == <<"pay", s>>
list(w) == <<"list", w>>

ASSUME ShopAssumption ==
  /\ Clients = Requests
  /\ {pay(s) : s \in Sigs} \cup {list(w) : w \in Wallets} \subseteq Keys
  /\ DOMAIN Items = Symbols
  /\ \A b \in Symbols : Items[b].kind \in {"item", "art", "stock"}
  /\ \A b \in Symbols : Items[b].kind = "art" => Items[b].price \in Nat \ {0}
  /\ Amounts \subseteq Nat \ {0} /\ StockPrices \subseteq Nat \ {0}
  /\ Unit \in Nat
  /\ Openable \subseteq Wallets \X Symbols

VARIABLES
  req,       \* by request, what it is doing and its local variables
  sheet,     \* by wallet, its BuySheet
  payments,  \* by signature, the dUSDC transfer to the treasury
  accounts,  \* the token accounts that exist, as <<wallet, symbol>>
  opened,    \* those of them that somebody else opened
  mints      \* bag of [sig, wallet, symbol, qty] the chain minted

chain_vars == <<payments, accounts, opened, mints>>
vars == <<kv_vars, req, sheet, chain_vars>>

IdleReq    == [at |-> "idle"]
ReadySheet == [at |-> "ready"]
Unsent     == [state |-> "unsent"]

At(r, place) == req[r].at = place /\ Settled(r)
Goto(r, state) == req' = [req EXCEPT ![r] = state]
GotoWith(r, state) == Goto(r, state) /\ UNCHANGED kv_vars
Answer(r) == GotoWith(r, IdleReq)
Moved(r, place) == [req[r] EXCEPT !.at = place]

OrderOf(order, status) ==
  [sig |-> order.sig, symbol |-> order.symbol, status |-> status]

(* The request once it knows how many tokens it will mint. *)
Ordering(r, qty) ==
  [at |-> "ordering", wallet |-> req[r].wallet, sig |-> req[r].sig,
   symbol |-> req[r].symbol, paid |-> req[r].paid, qty |-> qty]
Sending(r, create) ==
  [at |-> "sending", wallet |-> req[r].wallet, sig |-> req[r].sig,
   symbol |-> req[r].symbol, qty |-> req[r].qty, create |-> create]

-----------------------------------------------------------------------------
(* BuySheet.buy(): pay, sign the request, post it.  The amount is what the       *)
(* field holds, also for an item of a fixed price.  The payment's signature   *)
(* is a local of buy(): whatever happens next, no later click knows it.        *)

PayTreasury(w, s, b, amount) ==
  /\ sheet[w] = ReadySheet
  /\ payments[s] = Unsent
  /\ payments' = [payments EXCEPT ![s] =
                    [state |-> "sent", wallet |-> w, symbol |-> b, amount |-> amount]]
  /\ sheet' = [sheet EXCEPT ![w] = [at |-> "signing", sig |-> s]]
  /\ UNCHANGED <<kv_vars, req, accounts, opened, mints>>

(* The handler's own first read may answer at once. *)
Receive(r, w, s, b, amount) ==
  /\ At(r, "idle")
  /\ \/ kvGet(pay(s)) # NoEntry /\ Answer(r)
     \/ /\ kvGet(pay(s)) = NoEntry
        /\ GotoWith(r, [at |-> "verifying", wallet |-> w, sig |-> s,
                        symbol |-> b, paid |-> amount])

PostPurchase(r, w) ==
  LET s == sheet[w].sig
  IN  /\ sheet[w].at = "signing"
      /\ Receive(r, w, s, payments[s].symbol, payments[s].amount)
      /\ sheet' = [sheet EXCEPT ![w] = [at |-> "waiting", sig |-> s]]
      /\ UNCHANGED chain_vars

PostByHand(r, w, s, b, amount) ==
  /\ Repeats /\ payments[s] # Unsent
  /\ Receive(r, w, s, b, amount)
  /\ UNCHANGED <<sheet, chain_vars>>

(* The wallet refuses to sign; the request answers, or its connection breaks,   *)
(* or the sheet is closed while it waits.                                       *)
EndPurchase(w) ==
  /\ sheet[w] # ReadySheet
  /\ sheet' = [sheet EXCEPT ![w] = ReadySheet]
  /\ UNCHANGED <<kv_vars, req, chain_vars>>

-----------------------------------------------------------------------------
(* POST /api/shop/buy *)

EvenIfFailed(s, w) == payments[s].wallet = w
OwnPayment(s, w)   == payments[s].state = "ok" /\ payments[s].wallet = w

VerifyPayment(r) ==
  LET p == payments[req[r].sig]
  IN  /\ At(r, "verifying")
      /\ IF p.amount = req[r].paid /\ OwnPayment(req[r].sig, req[r].wallet)
         THEN GotoWith(r, Moved(r, IF Items[req[r].symbol].kind = "item"
                                   THEN "limiting" ELSE "pricing"))
         ELSE Answer(r)
      /\ UNCHANGED <<sheet, chain_vars>>

Counted(order)     == order.status # "failed"

LimitItem(r) ==
  LET orders == kvListRead(list(req[r].wallet), MaxList)
      owned  == \E i \in DOMAIN orders :
                  orders[i].symbol = req[r].symbol /\ Counted(orders[i])
  IN  /\ At(r, "limiting")
      /\ IF owned \/ req[r].paid # Items[req[r].symbol].price
         THEN Answer(r)
         ELSE GotoWith(r, Ordering(r, 1))
      /\ UNCHANGED <<sheet, chain_vars>>

Quantity(paid, price) == (paid * Unit) \div price

PriceOrder(r) ==
  LET item  == Items[req[r].symbol]
      known == IF item.kind = "stock" THEN StockPrices ELSE {item.price}
  IN  /\ At(r, "pricing")
      /\ \/ item.kind = "stock" /\ Answer(r)      \* the price account is missing
         \/ \E price \in known :
              LET qty == Quantity(req[r].paid, price)
              IN  IF req[r].paid < MinPaid \/ qty < item.least
                  THEN Answer(r)
                  ELSE GotoWith(r, Ordering(r, qty))
      /\ UNCHANGED <<sheet, chain_vars>>

MintFirst(r) ==
  At(r, "ordering") /\ GotoWith(r, Moved(r, "minting")) /\ UNCHANGED <<sheet, chain_vars>>
SaveOrder(r) ==
  /\ At(r, "ordering")
  /\ Goto(r, Moved(r, "minting"))
  /\ Await(r, kvSet(pay(req[r].sig), OrderOf(req[r], "paid")))
  /\ UNCHANGED <<sheet, chain_vars>>

Minted(r) == [sig |-> req[r].sig, wallet |-> req[r].wallet,
              symbol |-> req[r].symbol, qty |-> req[r].qty]

(* The token account is created in the same transaction, if it is missing now. *)
Account(r) == <<req[r].wallet, req[r].symbol>>

EnsureAta(r) ==
  /\ At(r, "minting")
  /\ GotoWith(r, Sending(r, Account(r) \notin accounts))
  /\ UNCHANGED <<sheet, chain_vars>>

AccountInUse(r) == req[r].create /\ Account(r) \in accounts

(* The simulation refuses or the send throws; or it is sent, or sent and lost. *)
SendMint(r) ==
  /\ At(r, "sending")
  /\ \/ GotoWith(r, Moved(r, "failed"))
     \/ ~AccountInUse(r) /\ GotoWith(r, Moved(r, "sent"))
     \/ ~AccountInUse(r) /\ Timeouts /\ GotoWith(r, Moved(r, "dropped"))
  /\ UNCHANGED <<sheet, chain_vars>>

(* The chain executes it, and reverts it when the account exists by now.       *)
ExecuteMint(r) ==
  /\ At(r, "sent")
  /\ IF AccountInUse(r)
     THEN GotoWith(r, Moved(r, "reverted")) /\ UNCHANGED <<accounts, mints>>
     ELSE /\ BagCardinality(mints) < MaxMints
          /\ GotoWith(r, Moved(r, "landed"))
          /\ mints' = mints (+) SetToBag({Minted(r)})
          /\ accounts' = accounts \cup {Account(r)}
  /\ UNCHANGED <<sheet, payments, opened>>

Outcome(r, status) ==
  /\ Goto(r, [at |-> "listing", wallet |-> req[r].wallet,
              order |-> OrderOf(req[r], status)])
  /\ Await(r, kvSet(pay(req[r].sig), OrderOf(req[r], status)))

(* confirmTransaction returns for a reverted transaction too: the error is in   *)
(* its result, which nobody reads.                                             *)
ConfirmedMint(r) == At(r, "landed") \/ At(r, "reverted")

SaveMinted(r) ==
  /\ ConfirmedMint(r)
  /\ Outcome(r, "minted")
  /\ UNCHANGED <<sheet, chain_vars>>

MintThrew(r) ==
  At(r, "failed") \/ At(r, "dropped") \/ (ConfirmedMint(r) /\ Timeouts)

AnswerFailed(r) ==
  /\ MintThrew(r)
  /\ Answer(r)
  /\ UNCHANGED <<sheet, chain_vars>>

SaveFailed(r) ==
  /\ MintThrew(r)
  /\ Outcome(r, "failed")
  /\ UNCHANGED <<sheet, chain_vars>>

ListOrder(r) ==
  /\ At(r, "listing")
  /\ Goto(r, IdleReq)
  /\ Await(r, kvListPush(list(req[r].wallet), req[r].order, MaxList))
  /\ UNCHANGED <<sheet, chain_vars>>

-----------------------------------------------------------------------------
(* The chain, time, and what may happen to a request. *)

(* Anybody may open a token account of the wallet, at any time.                *)
OpenAccount(a) ==
  /\ a \notin accounts
  /\ accounts' = accounts \cup {a} /\ opened' = opened \cup {a}
  /\ UNCHANGED <<kv_vars, req, sheet, payments, mints>>

ExecutePayment(s) ==
  /\ payments[s].state = "sent"
  /\ \E result \in {"ok", "failed"} :
       payments' = [payments EXCEPT ![s].state = result]
  /\ UNCHANGED <<kv_vars, req, sheet, accounts, opened, mints>>

Quiet == \A r \in Requests : At(r, "idle")

(* Only the order as first stored has a time to live.  Bound: not after a stop  *)
(* has left a list untrimmed.                                                   *)
ExpireOrder(s) ==
  /\ Expires /\ Quiet /\ \A w \in Wallets : Len(ListOf(store[list(w)])) <= MaxList
  /\ kvGet(pay(s)) # NoEntry /\ kvGet(pay(s)).status = "paid"
  /\ store' = [store EXCEPT ![pay(s)] = NoEntry]
  /\ UNCHANGED <<todo, doc, req, sheet, chain_vars>>

Stop(r) ==
  /\ Stops /\ (req[r] # IdleReq \/ ~Settled(r))
  /\ Abandon(r) /\ Goto(r, IdleReq)
  /\ UNCHANGED <<sheet, chain_vars>>

StoreActs(r) == KvStep(r) /\ UNCHANGED <<req, sheet, chain_vars>>

-----------------------------------------------------------------------------
Init ==
  /\ KvInit
  /\ req = [r \in Requests |-> IdleReq]
  /\ sheet = [w \in Wallets |-> ReadySheet]
  /\ payments = [s \in Sigs |-> Unsent]
  /\ accounts = {} /\ opened = {} /\ mints = EmptyBag

Buy(r) ==
  \/ VerifyPayment(r) \/ LimitItem(r) \/ PriceOrder(r) \/ SaveOrder(r)
  \/ EnsureAta(r) \/ SendMint(r) \/ ExecuteMint(r)
  \/ SaveMinted(r) \/ SaveFailed(r) \/ ListOrder(r)
  \/ StoreActs(r)

Sheet(w) ==
  \/ \E s \in Sigs, b \in Symbols, amount \in Amounts : PayTreasury(w, s, b, amount)
  \/ \E r \in Requests : PostPurchase(r, w)
  \/ EndPurchase(w)

Next ==
  \/ \E w \in Wallets : Sheet(w)
  \/ \E a \in Openable : OpenAccount(a)
  \/ \E r \in Requests :
       \/ Buy(r) \/ Stop(r)
       \/ \E w \in Wallets, s \in Sigs, b \in Symbols, amount \in Amounts :
            PostByHand(r, w, s, b, amount)
  \/ \E s \in Sigs : ExecutePayment(s) \/ ExpireOrder(s)

Spec == Init /\ [][Next]_vars

-----------------------------------------------------------------------------
(* Properties *)

MintOf(s) == {m \in BagToSet(mints) : m.sig = s}
Orders(w) == ListOf(store[list(w)])

(* The store holds the orders of data-model.md, and never loses the outcome of  *)
(* one: a listed order is the one its signature finds.                          *)
TypeOK ==
  /\ \A w \in Wallets : \A i \in DOMAIN Orders(w) :
       /\ Orders(w)[i].status \in {"minted", "failed"}
       /\ store[pay(Orders(w)[i].sig)] = Orders(w)[i]
  /\ \A s \in Sigs : store[pay(s)] # NoEntry => payments[s].state = "ok"

(* Nothing is minted that was not paid for: to whoever paid, by a transfer that *)
(* succeeded, and at most what it buys at a price that was in force.            *)
MintsPaid ==
  \A m \in BagToSet(mints) :
    LET p == payments[m.sig]
        item == Items[m.symbol]
    IN  /\ p.state = "ok" /\ p.wallet = m.wallet
        /\ CASE item.kind = "item"  -> m.qty = 1 /\ p.amount = item.price
             [] item.kind = "art"   -> m.qty * item.price <= p.amount * Unit
             [] item.kind = "stock" ->
                  \E price \in StockPrices : m.qty * price <= p.amount * Unit

(* A payment mints once, however often its request is repeated and wherever the *)
(* server stops: "Idempotent by paySignature" (shop/buy/route.ts:3).            *)
OneMintPerPayment ==
  \A m, n \in BagToSet(mints) : m.sig = n.sig => m = n /\ mints[m] = 1

(* An order that says minted is right, except where somebody else opened the    *)
(* buyer's account: the mint that would have opened it may have been reverted,   *)
(* and nobody reads that (shop/buy/route.ts:147).                              *)
OrderTellsMint ==
  \A s \in Sigs :
    (store[pay(s)] # NoEntry /\ store[pay(s)].status = "minted") =>
      MintOf(s) # {} \/ <<payments[s].wallet, store[pay(s)].symbol>> \in opened

(* What the shop promises when requests do not overlap.                         *)
MintsOnce == OneMintPerPayment /\ OrderTellsMint

(* An order stored as paid becomes minted or failed: the buyer is not left      *)
(* waiting for an order nobody works on.                                        *)
PaidOrderEnds ==
  \A s \in Sigs :
    (store[pay(s)] # NoEntry /\ store[pay(s)].status = "paid")
      ~> (store[pay(s)] # NoEntry /\ store[pay(s)].status # "paid")
=============================================================================
