------------------------------- MODULE ShopProofs -------------------------------
(***************************************************************************)
(* The shop mints only what was paid for, for any number of requests, wallets, *)
(* payments and items, whatever stops, times out, is repeated or reordered.   *)
(*                                                                         *)
(* The store plays no part in it: what a request will mint is decided by the  *)
(* payment it read on chain, and a payment that succeeded never changes.      *)
(***************************************************************************)
EXTENDS Shop, TLAPS

USE ShopAssumption

-----------------------------------------------------------------------------
(* Where a request may be, with the locals it has there. *)

VerifyPlaces == {"verifying", "limiting", "pricing"}
OrderPlaces  == {"ordering", "minting"}
SendPlaces   == {"sending", "sent", "failed", "dropped", "reverted", "landed"}
MintPlaces   == OrderPlaces \cup SendPlaces
PaidPlaces   == {"limiting", "pricing"} \cup MintPlaces

Verifying == [at : VerifyPlaces, wallet : Wallets, sig : Sigs, symbol : Symbols,
              paid : Amounts]
Orderings == [at : OrderPlaces, wallet : Wallets, sig : Sigs, symbol : Symbols,
              paid : Amounts, qty : Nat]
Sendings  == [at : SendPlaces, wallet : Wallets, sig : Sigs, symbol : Symbols,
              qty : Nat, create : BOOLEAN]
OrderType == [sig : Sigs, symbol : Symbols, status : {"paid", "minted", "failed"}]
Listings  == [at : {"listing"}, wallet : Wallets, order : OrderType]
ReqType   == {IdleReq} \cup Verifying \cup Orderings \cup Sendings \cup Listings

PaymentType == [state : {"sent", "ok", "failed"}, wallet : Wallets,
                symbol : Symbols, amount : Amounts]
SheetType   == {ReadySheet} \cup [at : {"signing", "waiting"}, sig : Sigs]

(* What a payment of this amount buys of an item. *)
Covered(symbol, qty, amount) ==
  LET item == Items[symbol]
  IN  CASE item.kind = "item"  -> qty = 1 /\ amount = item.price
        [] item.kind = "art"   -> qty * item.price <= amount * Unit
        [] item.kind = "stock" -> \E price \in StockPrices : qty * price <= amount * Unit

Succeeded(s, w) == s \in Sigs /\ payments[s].state = "ok" /\ payments[s].wallet = w

-----------------------------------------------------------------------------
(* The inductive invariant.  Past the check of its payment a request has one   *)
(* that succeeded and moved what it says (PaymentsRead); past the pricing the   *)
(* payment covers what it will mint (MintsCovered).                             *)

Typed ==
  /\ req \in [Requests -> ReqType]
  /\ sheet \in [Wallets -> SheetType]
  /\ payments \in [Sigs -> PaymentType \cup {Unsent}]
  /\ \A w \in Wallets : sheet[w].at = "signing" => payments[sheet[w].sig] # Unsent

Read(q) ==
  /\ q.at \in PaidPlaces => Succeeded(q.sig, q.wallet)
  /\ q.at \in {"limiting", "pricing"} => payments[q.sig].amount = q.paid
  /\ q.at = "limiting" <=> q.at \in {"limiting", "pricing"} /\ Items[q.symbol].kind = "item"
PaymentsRead == \A r \in Requests : Read(req[r])

Mints(q) == q.at \in MintPlaces => Covered(q.symbol, q.qty, payments[q.sig].amount)
MintsCovered == \A r \in Requests : Mints(req[r])

Delivered ==
  \A m \in BagToSet(mints) :
    /\ Succeeded(m.sig, m.wallet)
    /\ Covered(m.symbol, m.qty, payments[m.sig].amount)

PaidInv == Typed /\ PaymentsRead /\ MintsCovered /\ Delivered

LEMMA PaidIsMintsPaid == PaidInv => MintsPaid
BY DEF PaidInv, Delivered, Succeeded, Covered, MintsPaid

USE DEF VerifyPlaces, OrderPlaces, SendPlaces, MintPlaces, PaidPlaces

LEMMA PaidInit == Init => PaidInv
<1> SUFFICES ASSUME Init PROVE PaidInv
  OBVIOUS
<1>1. \A r \in Requests : req[r].at = "idle"
  BY DEF Init, IdleReq
<1>2. Typed
  BY DEF Init, Typed, ReqType, SheetType, ReadySheet
<1>3. PaymentsRead /\ MintsCovered
  BY <1>1 DEF PaymentsRead, Read, MintsCovered, Mints
<1>4. Delivered
  BY DEF Init, Delivered, EmptyBag, SetToBag, BagToSet
<1> QED BY <1>2, <1>3, <1>4 DEF PaidInv

-----------------------------------------------------------------------------
(* Steps of a request *)

(* A request that moves to a state with these facts keeps the invariant.      *)
LEMMA RequestMoves ==
  ASSUME PaidInv, NEW r \in Requests, NEW q \in ReqType, Goto(r, q),
         Read(q), Mints(q), UNCHANGED <<payments, mints>>,
         sheet' \in [Wallets -> SheetType],
         \A w \in Wallets : sheet'[w].at = "signing" => sheet'[w] = sheet[w]
  PROVE  PaidInv'
<1> USE DEF PaidInv
<1>1. /\ req \in [Requests -> ReqType] /\ req' \in [Requests -> ReqType]
      /\ \A x \in Requests : req'[x] = IF x = r THEN q ELSE req[x]
  BY DEF Typed, Goto
<1>2. Typed'
  BY <1>1 DEF Typed
<1>3. PaymentsRead'
  BY <1>1 DEF PaymentsRead, Read, Succeeded
<1>4. MintsCovered'
  BY <1>1 DEF MintsCovered, Mints
<1>5. Delivered'
  BY DEF Delivered, Succeeded, Covered
<1> QED BY <1>2, <1>3, <1>4, <1>5

LEMMA IdleFacts == IdleReq \in ReqType /\ Read(IdleReq) /\ Mints(IdleReq)
BY DEF IdleReq, ReqType, Read, Mints

(* The handler answers, or is stopped. *)
LEMMA RequestEnds ==
  ASSUME PaidInv, NEW r \in Requests, Goto(r, IdleReq), UNCHANGED <<payments, mints>>,
         sheet' \in [Wallets -> SheetType],
         \A w \in Wallets : sheet'[w].at = "signing" => sheet'[w] = sheet[w]
  PROVE  PaidInv'
BY RequestMoves, IdleFacts

LEMMA FloorQuantity ==
  ASSUME NEW n \in Nat, NEW d \in Nat \ {0}
  PROVE  n \div d \in Nat /\ (n \div d) * d <= n
OBVIOUS

(* What a request at a place has in its locals. *)
LEMMA Locals ==
  ASSUME PaidInv, NEW r \in Requests
  PROVE  /\ Read(req[r]) /\ Mints(req[r])
         /\ req[r].at \in VerifyPlaces => req[r] \in Verifying
         /\ req[r].at \in OrderPlaces  => req[r] \in Orderings
         /\ req[r].at \in SendPlaces   => req[r] \in Sendings
         /\ req[r].at = "listing"      => req[r] \in Listings
<1>1. Read(req[r]) /\ Mints(req[r]) /\ req[r] \in ReqType
  BY DEF PaidInv, Typed, PaymentsRead, MintsCovered
<1> QED BY <1>1 DEF ReqType, IdleReq, Verifying, Orderings, Sendings, Listings

LEMMA SheetsStay ==
  ASSUME PaidInv, UNCHANGED sheet
  PROVE  /\ sheet' \in [Wallets -> SheetType]
         /\ \A w \in Wallets : sheet'[w].at = "signing" => sheet'[w] = sheet[w]
BY DEF PaidInv, Typed

LEMMA ReceiveStep ==
  ASSUME PaidInv, NEW r \in Requests, NEW w \in Wallets, NEW s \in Sigs,
         NEW b \in Symbols, NEW amount \in Amounts, Receive(r, w, s, b, amount),
         UNCHANGED <<payments, mints>>,
         sheet' \in [Wallets -> SheetType],
         \A x \in Wallets : sheet'[x].at = "signing" => sheet'[x] = sheet[x]
  PROVE  PaidInv'
<1> DEFINE q == [at |-> "verifying", wallet |-> w, sig |-> s, symbol |-> b, paid |-> amount]
<1>1. q \in ReqType /\ Read(q) /\ Mints(q)
  BY DEF ReqType, Verifying, Read, Mints
<1>2. Goto(r, IdleReq) \/ Goto(r, q)
  BY DEF Receive, Answer, GotoWith
<1> QED BY <1>1, <1>2, RequestMoves, RequestEnds

LEMMA VerifyStep ==
  ASSUME PaidInv, NEW r \in Requests, VerifyPayment(r)
  PROVE  PaidInv'
<1>1. /\ req[r] \in Verifying /\ Read(req[r]) /\ req[r].at = "verifying"
      /\ UNCHANGED <<sheet, payments, mints>>
  BY Locals DEF VerifyPayment, At, chain_vars
<1>2. CASE Goto(r, IdleReq)
  BY <1>1, <1>2, SheetsStay, RequestEnds
<1>3. CASE ~Goto(r, IdleReq)
  <2> DEFINE place == IF Items[req[r].symbol].kind = "item" THEN "limiting" ELSE "pricing"
             q == [req[r] EXCEPT !.at = place]
  <2>1. /\ payments[req[r].sig].state = "ok" /\ payments[req[r].sig].amount = req[r].paid
        /\ payments[req[r].sig].wallet = req[r].wallet
        /\ Goto(r, q)
    BY <1>3 DEF VerifyPayment, Answer, GotoWith, Moved, OwnPayment
  <2>2. /\ q \in Verifying /\ q.at = place /\ q.sig = req[r].sig
        /\ q.wallet = req[r].wallet /\ q.paid = req[r].paid /\ q.symbol = req[r].symbol
        /\ req[r].sig \in Sigs
    BY <1>1 DEF Verifying
  <2>3. q \in ReqType /\ Read(q) /\ Mints(q)
    BY <2>1, <2>2 DEF ReqType, Read, Mints, Succeeded
  <2> HIDE DEF q, place
  <2> QED BY <1>1, <2>1, <2>3, SheetsStay, RequestMoves
<1> QED BY <1>2, <1>3

LEMMA LimitStep ==
  ASSUME PaidInv, NEW r \in Requests, LimitItem(r)
  PROVE  PaidInv'
<1>1. /\ req[r] \in Verifying /\ Read(req[r]) /\ req[r].at = "limiting"
      /\ UNCHANGED <<sheet, payments, mints>>
  BY Locals DEF LimitItem, At, chain_vars
<1>2. CASE Goto(r, IdleReq)
  BY <1>1, <1>2, SheetsStay, RequestEnds
<1>3. CASE ~Goto(r, IdleReq)
  <2>1. Goto(r, Ordering(r, 1)) /\ req[r].paid = Items[req[r].symbol].price
    BY <1>3 DEF LimitItem, Answer, GotoWith
  <2>2. /\ Items[req[r].symbol].kind = "item"
        /\ Succeeded(req[r].sig, req[r].wallet)
        /\ payments[req[r].sig].amount = req[r].paid
    BY <1>1 DEF Read
  <2>3. Covered(req[r].symbol, 1, payments[req[r].sig].amount)
    BY <2>1, <2>2 DEF Covered
  <2>4. Ordering(r, 1) \in ReqType /\ Read(Ordering(r, 1)) /\ Mints(Ordering(r, 1))
    BY <1>1, <2>2, <2>3 DEF Ordering, ReqType, Verifying, Orderings, Read, Mints
  <2> QED BY <1>1, <2>1, <2>4, SheetsStay, RequestMoves
<1> QED BY <1>2, <1>3

LEMMA PriceStep ==
  ASSUME PaidInv, NEW r \in Requests, PriceOrder(r)
  PROVE  PaidInv'
<1> DEFINE item  == Items[req[r].symbol]
           known == IF item.kind = "stock" THEN StockPrices ELSE {item.price}
<1>1. /\ req[r] \in Verifying /\ Read(req[r]) /\ req[r].at = "pricing"
      /\ UNCHANGED <<sheet, payments, mints>>
  BY Locals DEF PriceOrder, At, chain_vars
<1>2. CASE Goto(r, IdleReq)
  BY <1>1, <1>2, SheetsStay, RequestEnds
<1>3. CASE ~Goto(r, IdleReq)
  <2>1. PICK price \in known : Goto(r, Ordering(r, Quantity(req[r].paid, price)))
    BY <1>3 DEF PriceOrder, Answer, GotoWith
  <2>2. /\ item.kind \in {"art", "stock"}
        /\ Succeeded(req[r].sig, req[r].wallet)
        /\ payments[req[r].sig].amount = req[r].paid
        /\ req[r].symbol \in Symbols /\ req[r].paid \in Nat
    BY <1>1 DEF Read, Verifying
  <2>3. price \in Nat \ {0} /\ (item.kind = "stock" => price \in StockPrices)
                           /\ (item.kind = "art" => price = item.price)
    BY <2>1, <2>2
  <2> DEFINE qty == Quantity(req[r].paid, price)
  <2>4. qty \in Nat /\ qty * price <= req[r].paid * Unit
    <3>1. req[r].paid * Unit \in Nat
      BY <2>2
    <3> QED BY <2>3, <3>1, FloorQuantity DEF Quantity
  <2> HIDE DEF qty
  <2>5. Covered(req[r].symbol, qty, payments[req[r].sig].amount)
    BY <2>2, <2>3, <2>4 DEF Covered
  <2>6. Ordering(r, qty) \in ReqType /\ Read(Ordering(r, qty)) /\ Mints(Ordering(r, qty))
    BY <1>1, <2>2, <2>4, <2>5 DEF Ordering, ReqType, Verifying, Orderings, Read, Mints
  <2> QED BY <1>1, <2>1, <2>6, SheetsStay, RequestMoves DEF qty
<1> QED BY <1>2, <1>3

(* Between the order and the outcome only the place changes; the simulation,   *)
(* the chain and the confirmation decide where to.                            *)
LEMMA OrderSteps ==
  ASSUME PaidInv, NEW r \in Requests, SaveOrder(r) \/ EnsureAta(r)
  PROVE  PaidInv'
<1>1. /\ req[r] \in Orderings /\ Read(req[r]) /\ Mints(req[r])
      /\ req[r].at \in OrderPlaces
      /\ UNCHANGED <<sheet, payments, mints>>
  BY Locals DEF SaveOrder, EnsureAta, At, chain_vars
<1>2. CASE SaveOrder(r)
  <2> DEFINE q == [req[r] EXCEPT !.at = "minting"]
  <2>1. Goto(r, q)
    BY <1>2 DEF SaveOrder, Moved
  <2>2. /\ q \in Orderings /\ q.at = "minting" /\ q.sig = req[r].sig
        /\ q.wallet = req[r].wallet /\ q.symbol = req[r].symbol /\ q.qty = req[r].qty
    BY <1>1 DEF Orderings
  <2>3. q \in ReqType /\ Read(q) /\ Mints(q)
    BY <1>1, <2>2 DEF ReqType, Read, Mints
  <2> HIDE DEF q
  <2> QED BY <1>1, <2>1, <2>3, SheetsStay, RequestMoves
<1>3. CASE EnsureAta(r)
  <2>1. PICK create \in BOOLEAN : Goto(r, Sending(r, create))
    BY <1>3 DEF EnsureAta, GotoWith
  <2>2. /\ Sending(r, create) \in ReqType
        /\ Read(Sending(r, create)) /\ Mints(Sending(r, create))
    BY <1>1 DEF Sending, ReqType, Orderings, Sendings, Read, Mints
  <2> QED BY <1>1, <2>1, <2>2, SheetsStay, RequestMoves
<1> QED BY <1>2, <1>3

LEMMA SendingMoves ==
  ASSUME PaidInv, NEW r \in Requests, req[r].at \in SendPlaces, NEW place \in SendPlaces
  PROVE  /\ Moved(r, place) \in ReqType
         /\ Read(Moved(r, place)) /\ Mints(Moved(r, place))
<1> DEFINE q == [req[r] EXCEPT !.at = place]
<1>1. req[r] \in Sendings /\ Read(req[r]) /\ Mints(req[r])
  BY Locals
<1>2. /\ q \in Sendings /\ q.at = place /\ q.sig = req[r].sig
      /\ q.wallet = req[r].wallet /\ q.symbol = req[r].symbol /\ q.qty = req[r].qty
  BY <1>1 DEF Sendings
<1>3. q \in ReqType /\ Read(q) /\ Mints(q)
  BY <1>1, <1>2 DEF ReqType, Read, Mints
<1> QED BY <1>3 DEF Moved

LEMMA SendStep ==
  ASSUME PaidInv, NEW r \in Requests, SendMint(r)
  PROVE  PaidInv'
<1>1. req[r].at \in SendPlaces /\ UNCHANGED <<sheet, payments, mints>>
  BY DEF SendMint, At, chain_vars
<1>2. PICK place \in SendPlaces : Goto(r, Moved(r, place))
  BY DEF SendMint, GotoWith
<1> QED BY <1>1, <1>2, SheetsStay, RequestMoves, SendingMoves

LEMMA ExecuteStep ==
  ASSUME PaidInv, NEW r \in Requests, ExecuteMint(r)
  PROVE  PaidInv'
<1>1. req[r].at \in SendPlaces /\ UNCHANGED <<sheet, payments>>
  BY DEF ExecuteMint, At
<1>2. CASE Goto(r, Moved(r, "reverted")) /\ UNCHANGED mints
  BY <1>1, <1>2, SheetsStay, RequestMoves, SendingMoves
<1>3. CASE Goto(r, Moved(r, "landed")) /\ mints' = mints (+) SetToBag({Minted(r)})
  <2>1. BagToSet(mints') = BagToSet(mints) \cup {Minted(r)}
    BY <1>3 DEF BagToSet, SetToBag, (+)
  <2>2. /\ Succeeded(Minted(r).sig, Minted(r).wallet)
        /\ Covered(Minted(r).symbol, Minted(r).qty, payments[Minted(r).sig].amount)
    BY <1>1, Locals DEF Minted, Read, Mints
  <2>3. Delivered'
    BY <1>1, <2>1, <2>2 DEF PaidInv, Delivered, Succeeded
  <2>4. /\ req \in [Requests -> ReqType] /\ Moved(r, "landed") \in ReqType
        /\ Read(Moved(r, "landed")) /\ Mints(Moved(r, "landed"))
    BY <1>1, SendingMoves DEF PaidInv, Typed
  <2>5. /\ req' \in [Requests -> ReqType]
        /\ \A x \in Requests : req'[x] = IF x = r THEN Moved(r, "landed") ELSE req[x]
    BY <1>3, <2>4 DEF Goto
  <2>6. Typed'
    BY <1>1, <2>5 DEF PaidInv, Typed
  <2>7. PaymentsRead'
    BY <1>1, <2>4, <2>5 DEF PaidInv, PaymentsRead, Read, Succeeded
  <2>8. MintsCovered'
    BY <1>1, <2>4, <2>5 DEF PaidInv, MintsCovered, Mints
  <2> QED BY <2>3, <2>6, <2>7, <2>8 DEF PaidInv
<1> QED BY <1>2, <1>3 DEF ExecuteMint, GotoWith

LEMMA OutcomeStep ==
  ASSUME PaidInv, NEW r \in Requests, SaveMinted(r) \/ SaveFailed(r)
  PROVE  PaidInv'
<1>1. req[r].at \in SendPlaces /\ UNCHANGED <<sheet, payments, mints>>
  BY DEF SaveMinted, SaveFailed, ConfirmedMint, MintThrew, At, chain_vars
<1>2. req[r] \in Sendings
  BY <1>1, Locals
<1>3. PICK status \in {"minted", "failed"} : Outcome(r, status)
  BY DEF SaveMinted, SaveFailed
<1> DEFINE q == [at |-> "listing", wallet |-> req[r].wallet, order |-> OrderOf(req[r], status)]
<1>4. q \in ReqType /\ Read(q) /\ Mints(q)
  BY <1>2 DEF ReqType, Listings, OrderType, OrderOf, Sendings, Read, Mints
<1>5. Goto(r, q)
  BY <1>3 DEF Outcome
<1> HIDE DEF q
<1> QED BY <1>1, <1>4, <1>5, SheetsStay, RequestMoves

-----------------------------------------------------------------------------
(* Steps of the sheet and of the chain *)

(* A payment only changes before it has succeeded. *)
LEMMA PaymentMoves ==
  ASSUME PaidInv, NEW s \in Sigs, NEW p \in PaymentType,
         payments' = [payments EXCEPT ![s] = p], UNCHANGED <<req, mints>>,
         payments[s].state # "ok",
         sheet' \in [Wallets -> SheetType],
         \A w \in Wallets : sheet'[w].at = "signing" => sheet'[w] = sheet[w] \/ sheet'[w].sig = s
  PROVE  PaidInv'
<1> USE DEF PaidInv
<1>1. /\ payments' \in [Sigs -> PaymentType \cup {Unsent}]
      /\ payments'[s] = p /\ p # Unsent
      /\ \A x \in Sigs : x # s => payments'[x] = payments[x]
  BY DEF Typed, PaymentType, Unsent
<1>2. Typed'
  BY <1>1 DEF Typed, SheetType, ReadySheet
<1>3. ASSUME NEW x, NEW w, Succeeded(x, w)
      PROVE  Succeeded(x, w)' /\ payments'[x] = payments[x]
  BY <1>1, <1>3 DEF Succeeded
<1>4. PaymentsRead'
  BY <1>3 DEF PaymentsRead, Read
<1>5. MintsCovered'
  BY <1>3 DEF PaymentsRead, Read, MintsCovered, Mints
<1>6. Delivered'
  BY <1>3 DEF Delivered
<1> QED BY <1>2, <1>4, <1>5, <1>6

LEMMA PayStep ==
  ASSUME PaidInv, NEW w \in Wallets, NEW s \in Sigs, NEW b \in Symbols,
         NEW amount \in Amounts, PayTreasury(w, s, b, amount)
  PROVE  PaidInv'
<1> DEFINE p == [state |-> "sent", wallet |-> w, symbol |-> b, amount |-> amount]
<1>1. p \in PaymentType /\ payments[s].state # "ok"
  BY DEF PaymentType, PayTreasury, Unsent
<1>2. /\ payments' = [payments EXCEPT ![s] = p] /\ UNCHANGED <<req, mints>>
      /\ sheet' = [sheet EXCEPT ![w] = [at |-> "signing", sig |-> s]]
  BY DEF PayTreasury
<1>3. /\ sheet' \in [Wallets -> SheetType]
      /\ \A x \in Wallets : sheet'[x].at = "signing" => sheet'[x] = sheet[x] \/ sheet'[x].sig = s
  BY <1>2 DEF PaidInv, Typed, SheetType
<1> HIDE DEF p
<1> QED BY <1>1, <1>2, <1>3, PaymentMoves

LEMMA ChainStep ==
  ASSUME PaidInv, NEW s \in Sigs, ExecutePayment(s)
  PROVE  PaidInv'
<1>1. PICK result \in {"ok", "failed"} :
        payments' = [payments EXCEPT ![s].state = result]
  BY DEF ExecutePayment
<1> DEFINE p == [payments[s] EXCEPT !.state = result]
<1>2. payments[s] \in PaymentType /\ payments[s].state # "ok"
  BY DEF ExecutePayment, PaidInv, Typed, Unsent
<1>3. p \in PaymentType /\ payments' = [payments EXCEPT ![s] = p]
  BY <1>1, <1>2 DEF PaymentType
<1>4. UNCHANGED <<req, mints, sheet>>
  BY DEF ExecutePayment
<1> HIDE DEF p
<1> QED BY <1>2, <1>3, <1>4, SheetsStay, PaymentMoves

LEMMA EndStep ==
  ASSUME PaidInv, NEW w \in Wallets, EndPurchase(w)
  PROVE  PaidInv'
<1>1. /\ sheet' = [sheet EXCEPT ![w] = ReadySheet]
      /\ UNCHANGED <<req, payments, mints>>
  BY DEF EndPurchase, chain_vars
<1>2. Typed'
  BY <1>1 DEF PaidInv, Typed, SheetType, ReadySheet
<1> QED BY <1>1, <1>2 DEF PaidInv, PaymentsRead, Read, MintsCovered, Mints, Delivered, Succeeded

LEMMA PostStep ==
  ASSUME PaidInv, NEW r \in Requests, NEW w \in Wallets, PostPurchase(r, w)
  PROVE  PaidInv'
<1> DEFINE s == sheet[w].sig
<1>1. s \in Sigs /\ payments[s] \in PaymentType
  BY DEF PostPurchase, PaidInv, Typed, SheetType, ReadySheet
<1>2. /\ Receive(r, w, s, payments[s].symbol, payments[s].amount)
      /\ sheet' = [sheet EXCEPT ![w] = [at |-> "waiting", sig |-> s]]
      /\ UNCHANGED <<payments, mints>>
  BY DEF PostPurchase, chain_vars
<1>3. payments[s].symbol \in Symbols /\ payments[s].amount \in Amounts
  BY <1>1 DEF PaymentType
<1>4. /\ sheet' \in [Wallets -> SheetType]
      /\ \A x \in Wallets : sheet'[x].at = "signing" => sheet'[x] = sheet[x]
  BY <1>1, <1>2 DEF PaidInv, Typed, SheetType
<1> HIDE DEF s
<1> QED BY <1>1, <1>2, <1>3, <1>4, ReceiveStep

-----------------------------------------------------------------------------
LEMMA PaidStep == PaidInv /\ [Next]_vars => PaidInv'
<1> SUFFICES ASSUME PaidInv, [Next]_vars PROVE PaidInv'
  OBVIOUS
<1>1. ASSUME NEW w \in Wallets, Sheet(w) PROVE PaidInv'
  BY <1>1, PayStep, PostStep, EndStep DEF Sheet
<1>2. CASE UNCHANGED <<req, sheet, chain_vars>>
  BY <1>2 DEF PaidInv, Typed, PaymentsRead, Read, MintsCovered, Mints, Delivered,
              Succeeded, chain_vars
<1>3. ASSUME NEW r \in Requests, ListOrder(r) \/ Stop(r) PROVE PaidInv'
  BY <1>3, RequestEnds, SheetsStay DEF ListOrder, Stop, chain_vars
<1>4. ASSUME NEW r \in Requests, Buy(r) PROVE PaidInv'
  <2>1. CASE StoreActs(r)
    BY <1>2, <2>1 DEF StoreActs
  <2> QED BY <1>3, <1>4, <2>1, VerifyStep, LimitStep, PriceStep, OrderSteps, SendStep,
             ExecuteStep, OutcomeStep DEF Buy
<1>5. ASSUME NEW r \in Requests, NEW w \in Wallets, NEW s \in Sigs, NEW b \in Symbols,
             NEW amount \in Amounts, PostByHand(r, w, s, b, amount)
      PROVE  PaidInv'
  BY <1>5, ReceiveStep, SheetsStay DEF PostByHand, chain_vars
<1>6. ASSUME NEW s \in Sigs, ExpireOrder(s) PROVE PaidInv'
  BY <1>2, <1>6 DEF ExpireOrder
<1>7. ASSUME NEW x \in Openable, OpenAccount(x) PROVE PaidInv'
  BY <1>7 DEF OpenAccount, PaidInv, Typed, PaymentsRead, Read, MintsCovered, Mints,
              Delivered, Succeeded
<1>8. CASE UNCHANGED vars
  BY <1>2, <1>8 DEF vars
<1> QED BY <1>1, <1>3, <1>4, <1>5, <1>6, <1>7, <1>8, ChainStep DEF Next

(* Whatever is minted was paid for by the wallet that gets it, by a transfer    *)
(* that succeeded and covers it at a price that was in force.                   *)
THEOREM MintsPaidAlways == Spec => []MintsPaid
<1>1. Spec => []PaidInv
  BY PaidInit, PaidStep, PTL DEF Spec
<1> QED BY <1>1, PaidIsMintsPaid, PTL

-----------------------------------------------------------------------------
(* Requests handled one at a time, while no order expires.  Then a payment     *)
(* that was minted has an order in the store, and the order is written before   *)
(* the mint is sent: a repeated request finds it, wherever an earlier one       *)
(* stopped.                                                                    *)

OneAtATime == (\A r, s \in Requests : r = s) /\ ~Expires
NullIsNoOrder == NoEntry \notin OrderType

HasMint(s) == \E m \in BagToSet(mints) : m.sig = s
BeforeMint == {"verifying", "limiting", "pricing", "ordering", "minting", "sending", "sent"}

(* Its mint may have been reverted: somebody else opened the account.          *)
MayRevert(s, b) == \E w \in Wallets : Succeeded(s, w) /\ <<w, b>> \in opened

GoodOrder(s, o) ==
  o \in OrderType /\ (o.status = "minted" => HasMint(s) \/ MayRevert(s, o.symbol))
GoodCommand(c) ==
  \/ \E s \in Sigs : c.cmd = "set" /\ c.key = pay(s) /\ GoodOrder(s, c.value)
  \/ \E w \in Wallets : c.key = list(w)
GoodWrite(t) ==
  \/ t = <<>>
  \/ \E c : t = <<c>> /\ GoodCommand(c)
  \/ \E c, d : t = <<c, d>> /\ GoodCommand(c) /\ GoodCommand(d)

(* Nobody else writes, so a Gist document that is loaded is the store. *)
StoreShape ==
  /\ DOMAIN store = Keys /\ DOMAIN todo = Requests /\ DOMAIN doc = Requests
  /\ \A r \in Requests : doc[r] = NoDoc \/ (Backend = "gist" /\ doc[r] = store)

OrdersGood ==
  /\ \A s \in Sigs : store[pay(s)] # NoEntry => GoodOrder(s, store[pay(s)])
  /\ \A r \in Requests : GoodWrite(todo[r])

(* What a request with the locals q and the pending write t knows. *)
Knows(q, t) ==
  /\ q.at \in BeforeMint => ~HasMint(q.sig)
  /\ q.at = "minting" =>
       store[pay(q.sig)] # NoEntry \/ t = kvSet(pay(q.sig), OrderOf(q, "paid"))
  /\ q.at \in SendPlaces => store[pay(q.sig)] # NoEntry
  /\ q.at \in {"sending", "sent"} /\ q.create /\ <<q.wallet, q.symbol>> \in accounts
       => <<q.wallet, q.symbol>> \in opened
  /\ q.at = "reverted" => <<q.wallet, q.symbol>> \in opened
  /\ q.at = "landed" => HasMint(q.sig)

MintedOnce ==
  \A m \in BagToSet(mints) :
    /\ store[pay(m.sig)] # NoEntry /\ mints[m] = 1
    /\ \A n \in BagToSet(mints) : n.sig = m.sig => n = m

OnceInv ==
  /\ StoreShape /\ OrdersGood /\ MintedOnce
  /\ \A r \in Requests : Knows(req[r], todo[r])

LEMMA OnceMeaning ==
  ASSUME PaidInv, OnceInv
  PROVE  OneMintPerPayment /\ OrderTellsMint
<1>1. OneMintPerPayment
  BY DEF OnceInv, MintedOnce, OneMintPerPayment
<1>2. OrderTellsMint
  BY DEF OnceInv, OrdersGood, GoodOrder, HasMint, MayRevert, Succeeded, OrderTellsMint, MintOf
<1> QED BY <1>1, <1>2

LEMMA OnceInit == Init => OnceInv
<1> SUFFICES ASSUME Init PROVE OnceInv
  OBVIOUS
<1>1. /\ DOMAIN store = Keys /\ DOMAIN todo = Requests /\ DOMAIN doc = Requests
      /\ \A k \in Keys : store[k] = NoEntry
      /\ \A r \in Requests : todo[r] = <<>> /\ doc[r] = NoDoc /\ req[r].at = "idle"
  BY DEF Init, KvInit, IdleReq
<1>2. \A s \in Sigs : pay(s) \in Keys
  OBVIOUS
<1>3. OrdersGood
  BY <1>1, <1>2 DEF OrdersGood, GoodWrite
<1>4. MintedOnce
  BY DEF Init, MintedOnce, EmptyBag, SetToBag, BagToSet
<1>5. \A r \in Requests : Knows(req[r], todo[r])
  BY <1>1 DEF Knows, BeforeMint
<1> QED BY <1>1, <1>3, <1>4, <1>5 DEF OnceInv, StoreShape

(* One command on the orders. *)
LEMMA AppliedOrders ==
  ASSUME NullIsNoOrder, NEW entries, DOMAIN entries = Keys, NEW c, GoodCommand(c)
  PROVE  /\ DOMAIN Applied(entries, c) = Keys
         /\ \A s \in Sigs :
              \/ Applied(entries, c)[pay(s)] = entries[pay(s)]
              \/ GoodOrder(s, Applied(entries, c)[pay(s)])
         /\ \A s \in Sigs :
              entries[pay(s)] # NoEntry => Applied(entries, c)[pay(s)] # NoEntry
         /\ \A s \in Sigs : c.key = pay(s) => Applied(entries, c)[pay(s)] # NoEntry
<1> DEFINE after == Applied(entries, c)
<1>1. DOMAIN after = Keys
      /\ \A k \in Keys : after[k] = IF k = c.key THEN Changed(entries[k], c) ELSE entries[k]
  BY DEF Applied
<1>2. \A s \in Sigs : pay(s) \in Keys
  OBVIOUS
<1> HIDE DEF after
<1>3. CASE \E w \in Wallets : c.key = list(w)
  <2>1. \A s \in Sigs : c.key # pay(s)
    BY <1>3 DEF pay, list
  <2> QED BY <1>1, <1>2, <2>1 DEF after
<1>4. CASE \E s \in Sigs : c.cmd = "set" /\ c.key = pay(s) /\ GoodOrder(s, c.value)
  <2>1. PICK x \in Sigs : c.cmd = "set" /\ c.key = pay(x) /\ GoodOrder(x, c.value)
    BY <1>4
  <2>2. after[pay(x)] = c.value
    BY <1>1, <1>2, <2>1 DEF Changed
  <2>3. \A s \in Sigs : s # x => pay(s) # c.key
    BY <2>1 DEF pay
  <2>4. c.value # NoEntry
    BY <2>1 DEF GoodOrder, NullIsNoOrder
  <2>5. \A s \in Sigs : s # x => after[pay(s)] = entries[pay(s)]
    BY <1>1, <1>2, <2>3
  <2> QED BY <1>1, <2>1, <2>2, <2>3, <2>4, <2>5 DEF after
<1> QED BY <1>3, <1>4 DEF GoodCommand

(* The orders after a write, or the first command of it: those that were there *)
(* still are, all are good, and the write that was awaited is done.             *)
OrdersAfter(before, after) ==
  /\ DOMAIN after = Keys
  /\ \A s \in Sigs : after[pay(s)] # NoEntry => GoodOrder(s, after[pay(s)])
  /\ \A s \in Sigs : before[pay(s)] # NoEntry => after[pay(s)] # NoEntry

LEMMA CommandKeeps ==
  ASSUME NullIsNoOrder, NEW entries, OrdersAfter(entries, entries), NEW c, GoodCommand(c)
  PROVE  OrdersAfter(entries, Applied(entries, c))
BY AppliedOrders DEF OrdersAfter

LEMMA WriteKeeps ==
  ASSUME NullIsNoOrder, NEW entries, OrdersAfter(entries, entries), NEW t, GoodWrite(t), t # <<>>
  PROVE  /\ OrdersAfter(entries, Executed(entries, t))
         /\ OrdersAfter(entries, Applied(entries, Head(t)))
         /\ GoodWrite(Tail(t))
         /\ \A s \in Sigs : \A o : t = kvSet(pay(s), o) =>
              /\ Executed(entries, t)[pay(s)] # NoEntry
              /\ Applied(entries, Head(t))[pay(s)] # NoEntry
<1>1. CASE \E c : t = <<c>> /\ GoodCommand(c)
  <2>1. PICK c : t = <<c>> /\ GoodCommand(c)
    BY <1>1
  <2>2. Head(t) = c /\ Tail(t) = <<>> /\ Executed(entries, t) = Applied(entries, c)
    BY <2>1 DEF Executed
  <2>3. \A s \in Sigs : \A o : t = kvSet(pay(s), o) => c.key = pay(s)
    BY <2>1 DEF kvSet
  <2>4. \A s \in Sigs : c.key = pay(s) => Applied(entries, c)[pay(s)] # NoEntry
    BY <2>1, AppliedOrders DEF OrdersAfter
  <2> QED BY <2>1, <2>2, <2>3, <2>4, CommandKeeps DEF GoodWrite
<1>2. CASE \E c, d : t = <<c, d>> /\ GoodCommand(c) /\ GoodCommand(d)
  <2>1. PICK c, d : t = <<c, d>> /\ GoodCommand(c) /\ GoodCommand(d)
    BY <1>2
  <2> DEFINE first == Applied(entries, c)
  <2>2. Head(t) = c /\ Tail(t) = <<d>> /\ Executed(entries, t) = Applied(first, d)
    BY <2>1 DEF Executed
  <2>3. OrdersAfter(entries, first)
    BY <2>1, CommandKeeps
  <2>4. OrdersAfter(first, Applied(first, d))
    <3>1. OrdersAfter(first, first)
      BY <2>3 DEF OrdersAfter
    <3> HIDE DEF first
    <3> QED BY <2>1, <3>1, CommandKeeps
  <2>5. OrdersAfter(entries, Applied(first, d))
    BY <2>3, <2>4 DEF OrdersAfter
  <2>6. \A s \in Sigs : \A o : t # kvSet(pay(s), o)
    BY <2>1 DEF kvSet
  <2> QED BY <2>1, <2>2, <2>3, <2>5, <2>6 DEF GoodWrite
<1> QED BY <1>1, <1>2 DEF GoodWrite

LEMMA GoodStays ==
  ASSUME UNCHANGED chain_vars
  PROVE  /\ \A s \in Sigs : \A o : GoodOrder(s, o) => GoodOrder(s, o)'
         /\ \A c : GoodCommand(c) => GoodCommand(c)'
         /\ \A t : GoodWrite(t) => GoodWrite(t)'
<1>1. \A s, b : MayRevert(s, b) => MayRevert(s, b)'
  BY DEF MayRevert, Succeeded, chain_vars
<1>2. \A s \in Sigs : \A o : GoodOrder(s, o) => GoodOrder(s, o)'
  BY <1>1 DEF GoodOrder, HasMint, chain_vars
<1>3. \A c : GoodCommand(c) => GoodCommand(c)'
  BY <1>2 DEF GoodCommand
<1> QED BY <1>2, <1>3 DEF GoodWrite

(* What the store does for the one request. *)
LEMMA StoreActsOnce ==
  ASSUME OneAtATime, NullIsNoOrder, PaidInv, OnceInv, NEW r \in Requests, StoreActs(r)
  PROVE  OnceInv'
<1>1. UNCHANGED <<req, chain_vars>>
  BY DEF StoreActs, chain_vars
<1>2. \A x \in Requests : x = r
  BY DEF OneAtATime
<1>3. OrdersAfter(store, store) /\ GoodWrite(todo[r])
  BY DEF OnceInv, StoreShape, OrdersGood, OrdersAfter
<1>4. req[r].at \in {"minting"} \cup SendPlaces => req[r].sig \in Sigs
  BY Locals DEF Orderings, Sendings
<1>5. \A m \in BagToSet(mints) : m.sig \in Sigs
  BY DEF PaidInv, Delivered, Succeeded
<1>6. CASE GistLoad(r)
  <2>1. /\ UNCHANGED <<store, todo>> /\ doc' = [doc EXCEPT ![r] = store]
        /\ Backend = "gist"
    BY <1>6 DEF GistLoad
  <2>2. StoreShape'
    <3>1. DOMAIN doc' = Requests /\ doc'[r] = store
      BY <2>1 DEF OnceInv, StoreShape
    <3> QED BY <1>2, <2>1, <3>1 DEF OnceInv, StoreShape
  <2>3. OrdersGood'
    BY <1>1, <2>1, GoodStays DEF OnceInv, OrdersGood
  <2>4. MintedOnce' /\ Knows(req[r], todo[r])'
    BY <1>1, <2>1 DEF OnceInv, MintedOnce, Knows, HasMint, chain_vars
  <2> QED BY <1>1, <1>2, <2>1, <2>2, <2>3, <2>4 DEF OnceInv
<1>7. ASSUME OrdersAfter(store, store'), GoodWrite(todo'[r]), DOMAIN todo' = Requests,
             DOMAIN doc' = Requests, doc'[r] = NoDoc,
             \A s \in Sigs : \A o : todo[r] = kvSet(pay(s), o) => store'[pay(s)] # NoEntry
      PROVE  OnceInv'
  <2>1. StoreShape'
    BY <1>2, <1>7 DEF StoreShape, OrdersAfter
  <2>2. OrdersGood'
    BY <1>1, <1>2, <1>7, GoodStays DEF OrdersAfter, OrdersGood
  <2>3. MintedOnce'
    BY <1>1, <1>5, <1>7 DEF OnceInv, MintedOnce, OrdersAfter, chain_vars
  <2>4. Knows(req[r], todo[r])
    BY DEF OnceInv
  <2>5. Knows(req[r], todo[r])'
    BY <1>1, <1>4, <1>7, <2>4 DEF Knows, OrdersAfter, HasMint, chain_vars
  <2> QED BY <1>2, <2>1, <2>2, <2>3, <2>5 DEF OnceInv
<1>8. CASE RedisCommand(r)
  <2>1. /\ todo[r] # <<>> /\ store' = Applied(store, Head(todo[r]))
        /\ todo' = [todo EXCEPT ![r] = Tail(@)] /\ UNCHANGED doc
    BY <1>8 DEF RedisCommand, Settled
  <2>2. /\ DOMAIN todo' = Requests /\ todo'[r] = Tail(todo[r])
        /\ DOMAIN doc' = Requests /\ doc'[r] = NoDoc
    BY <1>8, <2>1 DEF RedisCommand, OnceInv, StoreShape
  <2>3. /\ OrdersAfter(store, store') /\ GoodWrite(todo'[r])
        /\ \A s \in Sigs : \A o : todo[r] = kvSet(pay(s), o) => store'[pay(s)] # NoEntry
    BY <1>3, <2>1, <2>2, WriteKeeps
  <2> QED BY <1>7, <2>2, <2>3
<1>9. CASE GistSave(r)
  <2>1. /\ todo[r] # <<>> /\ store' = Executed(doc[r], todo[r]) /\ doc[r] # NoDoc
        /\ todo' = [todo EXCEPT ![r] = <<>>] /\ doc' = [doc EXCEPT ![r] = NoDoc]
    BY <1>9 DEF GistSave, Settled
  <2>2. doc[r] = store
    BY <2>1 DEF OnceInv, StoreShape
  <2>3. /\ DOMAIN todo' = Requests /\ todo'[r] = <<>>
        /\ DOMAIN doc' = Requests /\ doc'[r] = NoDoc
    BY <2>1 DEF OnceInv, StoreShape
  <2>4. OrdersAfter(store, store')
        /\ \A s \in Sigs : \A o : todo[r] = kvSet(pay(s), o) => store'[pay(s)] # NoEntry
    BY <1>3, <2>1, <2>2, WriteKeeps
  <2>5. GoodWrite(todo'[r])
    BY <2>3 DEF GoodWrite
  <2> QED BY <1>7, <2>3, <2>4, <2>5
<1> QED BY <1>6, <1>8, <1>9 DEF StoreActs, KvStep

(* The one request moves to q, and starts the write t or none.                  *)
LEMMA RequestGoes ==
  ASSUME OneAtATime, OnceInv, NEW r \in Requests, NEW q, NEW t, Goto(r, q), DOMAIN req = Requests,
         DOMAIN todo' = Requests, todo'[r] = t, GoodWrite(t), Knows(q, t),
         UNCHANGED <<store, chain_vars>>, doc' = doc
  PROVE  OnceInv'
<1>1. req'[r] = q /\ \A x \in Requests : x = r
  BY DEF Goto, OneAtATime
<1>2. StoreShape'
  BY DEF OnceInv, StoreShape
<1>3. OrdersGood'
  BY <1>1, GoodStays DEF OnceInv, OrdersGood
<1>4. MintedOnce'
  BY DEF OnceInv, MintedOnce, chain_vars
<1>5. Knows(q, t)'
  BY DEF Knows, HasMint, chain_vars
<1> QED BY <1>1, <1>2, <1>3, <1>4, <1>5 DEF OnceInv

LEMMA MovesOn ==
  ASSUME OneAtATime, PaidInv, OnceInv, NEW r \in Requests, NEW q, GotoWith(r, q), Settled(r),
         Knows(q, <<>>), UNCHANGED chain_vars
  PROVE  OnceInv'
<1>1. DOMAIN req = Requests /\ DOMAIN todo' = Requests /\ todo'[r] = <<>> /\ doc' = doc
      /\ Goto(r, q) /\ store' = store
  BY DEF PaidInv, Typed, OnceInv, StoreShape, GotoWith, kv_vars, Settled
<1> QED BY <1>1, RequestGoes DEF GoodWrite

LEMMA Writes ==
  ASSUME OneAtATime, PaidInv, OnceInv, NEW r \in Requests, NEW q, NEW t, Goto(r, q),
         Await(r, t), GoodWrite(t), Knows(q, t), UNCHANGED chain_vars
  PROVE  OnceInv'
<1>1. DOMAIN req = Requests /\ DOMAIN todo' = Requests /\ todo'[r] = t /\ doc' = doc
      /\ store' = store
  BY DEF PaidInv, Typed, OnceInv, StoreShape, Await
<1> QED BY <1>1, RequestGoes

LEMMA IdleKnows == \A t : Knows(IdleReq, t)
BY DEF Knows, IdleReq, BeforeMint

LEMMA ReceiveOnce ==
  ASSUME OneAtATime, PaidInv, OnceInv, NEW r \in Requests, NEW w, NEW s, NEW b, NEW amount,
         Receive(r, w, s, b, amount), UNCHANGED chain_vars
  PROVE  OnceInv'
<1> DEFINE q == [at |-> "verifying", wallet |-> w, sig |-> s, symbol |-> b, paid |-> amount]
<1>1. CASE Answer(r)
  BY <1>1, MovesOn, IdleKnows DEF Answer, Receive, At
<1>2. CASE store[pay(s)] = NoEntry /\ GotoWith(r, q)
  <2>1. ~HasMint(s)
    BY <1>2 DEF OnceInv, MintedOnce, HasMint
  <2>2. Knows(q, <<>>)
    BY <2>1 DEF Knows, BeforeMint
  <2> HIDE DEF q
  <2> QED BY <1>2, <2>2, MovesOn DEF Receive, At
<1> QED BY <1>1, <1>2 DEF Receive, kvGet

(* A request that checks its payment or prices its order writes nothing.       *)
LEMMA ChecksOnce ==
  ASSUME OneAtATime, PaidInv, OnceInv, NEW r \in Requests,
         VerifyPayment(r) \/ LimitItem(r) \/ PriceOrder(r)
  PROVE  OnceInv'
<1>1. /\ req[r].at \in VerifyPlaces /\ Settled(r) /\ UNCHANGED chain_vars
      /\ req[r] \in Verifying
  BY Locals DEF VerifyPayment, LimitItem, PriceOrder, At, chain_vars
<1>2. ~HasMint(req[r].sig)
  BY <1>1 DEF OnceInv, Knows, BeforeMint
<1>3. ASSUME Answer(r) PROVE OnceInv'
  BY <1>1, <1>3, MovesOn, IdleKnows DEF Answer
<1>4. ASSUME NEW place \in {"limiting", "pricing"}, GotoWith(r, Moved(r, place)) PROVE OnceInv'
  <2>1. Moved(r, place).at = place /\ Moved(r, place).sig = req[r].sig
    BY <1>1 DEF Moved, Verifying
  <2>2. Knows(Moved(r, place), <<>>)
    BY <1>2, <2>1 DEF Knows
  <2> QED BY <1>1, <1>4, <2>2, MovesOn
<1>5. ASSUME NEW qty, GotoWith(r, Ordering(r, qty)) PROVE OnceInv'
  <2>1. Knows(Ordering(r, qty), <<>>)
    BY <1>2 DEF Knows, Ordering
  <2> QED BY <1>1, <1>5, <2>1, MovesOn
<1>6. CASE VerifyPayment(r)
  BY <1>3, <1>4, <1>6 DEF VerifyPayment
<1>7. CASE LimitItem(r)
  BY <1>3, <1>5, <1>7 DEF LimitItem
<1>8. CASE PriceOrder(r)
  BY <1>3, <1>5, <1>8 DEF PriceOrder
<1> QED BY <1>6, <1>7, <1>8

LEMMA SavesOnce ==
  ASSUME OneAtATime, PaidInv, OnceInv, NEW r \in Requests, SaveOrder(r)
  PROVE  OnceInv'
<1> DEFINE q == Moved(r, "minting")
           o == OrderOf(req[r], "paid")
           t == kvSet(pay(req[r].sig), o)
<1>1. req[r] \in Orderings /\ ~HasMint(req[r].sig)
  <2>1. req[r].at = "ordering"
    BY DEF SaveOrder, At
  <2> QED BY <2>1, Locals DEF OnceInv, Knows, BeforeMint
<1>2. /\ q.at = "minting" /\ q.sig = req[r].sig /\ q.symbol = req[r].symbol
  BY <1>1 DEF Moved, Orderings
<1>3. o \in OrderType /\ o.status = "paid" /\ o = OrderOf(q, "paid")
  BY <1>1, <1>2 DEF OrderOf, OrderType, Orderings
<1>4. GoodWrite(t)
  <2>1. req[r].sig \in Sigs
    BY <1>1 DEF Orderings
  <2> HIDE DEF o
  <2>2. GoodCommand([cmd |-> "set", key |-> pay(req[r].sig), value |-> o])
    BY <1>3, <2>1 DEF GoodCommand, GoodOrder
  <2> QED BY <2>2 DEF GoodWrite, kvSet
<1>5. Goto(r, q) /\ Await(r, t) /\ UNCHANGED chain_vars
  BY DEF SaveOrder, chain_vars
<1>6. Knows(q, t)
  BY <1>1, <1>2, <1>3 DEF Knows
<1> HIDE DEF q, t
<1> QED BY <1>4, <1>5, <1>6, Writes

LEMMA SendsOnce ==
  ASSUME OneAtATime, PaidInv, OnceInv, NEW r \in Requests, EnsureAta(r) \/ SendMint(r)
  PROVE  OnceInv'
<1>1. Settled(r) /\ UNCHANGED chain_vars /\ todo[r] = <<>>
  BY DEF EnsureAta, SendMint, At, Settled, chain_vars
<1>2. Knows(req[r], <<>>)
  BY <1>1 DEF OnceInv
<1>3. CASE EnsureAta(r)
  <2> DEFINE q == Sending(r, Account(r) \notin accounts)
  <2>1. req[r].at = "minting" /\ GotoWith(r, q)
    BY <1>3 DEF EnsureAta, At
  <2>2. ~HasMint(req[r].sig) /\ store[pay(req[r].sig)] # NoEntry
    BY <1>2, <2>1 DEF Knows, BeforeMint, kvSet
  <2>3. /\ q.at = "sending" /\ q.sig = req[r].sig /\ <<q.wallet, q.symbol>> = Account(r)
        /\ q.create => Account(r) \notin accounts
    BY DEF Sending, Account
  <2> HIDE DEF q
  <2>4. Knows(q, <<>>)
    BY <2>2, <2>3 DEF Knows
  <2> QED BY <1>1, <2>1, <2>4, MovesOn
<1>4. CASE SendMint(r)
  <2>1. PICK place \in {"failed", "sent", "dropped"} : GotoWith(r, Moved(r, place))
    BY <1>4 DEF SendMint
  <2>2. req[r] \in Sendings /\ req[r].at = "sending"
    BY <1>4, Locals DEF SendMint, At
  <2>3. /\ Moved(r, place).at = place /\ Moved(r, place).sig = req[r].sig
        /\ Moved(r, place).wallet = req[r].wallet /\ Moved(r, place).symbol = req[r].symbol
        /\ Moved(r, place).create = req[r].create
    BY <2>2 DEF Moved, Sendings
  <2>4. Knows(Moved(r, place), <<>>)
    BY <1>2, <2>2, <2>3 DEF Knows, BeforeMint
  <2> QED BY <1>1, <2>1, <2>4, MovesOn
<1> QED BY <1>3, <1>4

(* The chain mints for a payment that has no mint yet, or reverts.              *)
LEMMA LandsOnce ==
  ASSUME OneAtATime, PaidInv, OnceInv, NEW r \in Requests, ExecuteMint(r), ~AccountInUse(r)
  PROVE  OnceInv'
<1> DEFINE q == Moved(r, "landed")
           x == Minted(r)
<1>1. Settled(r) /\ req[r].at = "sent" /\ req[r] \in Sendings
  BY Locals DEF ExecuteMint, At
<1>2. Knows(req[r], todo[r])
  BY DEF OnceInv
<1>4. GotoWith(r, q) /\ mints' = mints (+) SetToBag({x}) /\ UNCHANGED <<payments, opened>>
  BY DEF ExecuteMint
<1>5. q.at = "landed" /\ q.sig = req[r].sig /\ x.sig = req[r].sig
  BY <1>1 DEF Moved, Minted, Sendings
<1>6. \A m \in BagToSet(mints) : m.sig # req[r].sig
  BY <1>1, <1>2 DEF Knows, BeforeMint, HasMint
<1> HIDE DEF q, x
<1>7. /\ BagToSet(mints') = BagToSet(mints) \cup {x}
      /\ \A m \in BagToSet(mints) : m # x
  BY <1>4, <1>5, <1>6 DEF BagToSet, SetToBag, (+)
<1>8. mints'[x] = 1 /\ \A m \in BagToSet(mints) : mints'[m] = mints[m]
  <2>1. \A m \in BagToSet(mints) : mints[m] = 1
    BY DEF OnceInv, MintedOnce
  <2> QED BY <1>4, <1>7, <2>1 DEF BagToSet, SetToBag, (+)
<1>9. store[pay(req[r].sig)] # NoEntry
  BY <1>1, <1>2 DEF Knows
<1>10. UNCHANGED <<store, todo, doc>> /\ req'[r] = q /\ \A y \in Requests : y = r
  BY <1>4 DEF GotoWith, kv_vars, Goto, PaidInv, Typed, OneAtATime
<1>11. MintedOnce'
  BY <1>5, <1>6, <1>7, <1>8, <1>9, <1>10 DEF OnceInv, MintedOnce
<1>12. /\ \E m \in BagToSet(mints') : m.sig = q.sig
       /\ \A s : HasMint(s) => \E m \in BagToSet(mints') : m.sig = s
  BY <1>5, <1>7 DEF HasMint
<1>13. StoreShape'
  BY <1>10 DEF OnceInv, StoreShape
<1>14. OrdersGood'
  <2>1. \A s : HasMint(s) => HasMint(s)'
    BY <1>12 DEF HasMint
  <2>2. \A s, b : MayRevert(s, b) => MayRevert(s, b)'
    BY <1>4 DEF MayRevert, Succeeded
  <2> QED BY <1>10, <2>1, <2>2 DEF OnceInv, OrdersGood, GoodWrite, GoodCommand, GoodOrder
<1>15. Knows(req[r], todo[r])'
  <2>1. HasMint(req[r].sig)'
    BY <1>10, <1>12 DEF HasMint
  <2> QED BY <1>5, <1>9, <1>10, <2>1 DEF Knows, BeforeMint
<1> QED BY <1>10, <1>11, <1>13, <1>14, <1>15 DEF OnceInv

LEMMA ExecutesOnce ==
  ASSUME OneAtATime, PaidInv, OnceInv, NEW r \in Requests, ExecuteMint(r)
  PROVE  OnceInv'
<1>1. CASE ~AccountInUse(r)
  BY <1>1, LandsOnce
<1>2. CASE AccountInUse(r)
  <2> DEFINE q == Moved(r, "reverted")
  <2>1. Settled(r) /\ req[r].at = "sent" /\ req[r] \in Sendings
    BY Locals DEF ExecuteMint, At
  <2>2. Knows(req[r], <<>>)
    BY <2>1 DEF OnceInv, Settled
  <2>3. GotoWith(r, q) /\ UNCHANGED chain_vars
    BY <1>2 DEF ExecuteMint, chain_vars
  <2>4. /\ q.at = "reverted" /\ q.sig = req[r].sig
        /\ <<q.wallet, q.symbol>> = Account(r) /\ Account(r) = <<req[r].wallet, req[r].symbol>>
    BY <2>1 DEF Moved, Account, Sendings
  <2>5. Account(r) \in opened
    BY <1>2, <2>1, <2>2, <2>4 DEF Knows, AccountInUse
  <2> HIDE DEF q
  <2>6. Knows(q, <<>>)
    BY <2>1, <2>2, <2>4, <2>5 DEF Knows, BeforeMint
  <2> QED BY <2>1, <2>3, <2>6, MovesOn
<1> QED BY <1>1, <1>2

LEMMA OutcomeOnce ==
  ASSUME OneAtATime, PaidInv, OnceInv, NEW r \in Requests, SaveMinted(r) \/ SaveFailed(r)
  PROVE  OnceInv'
<1>1. /\ req[r].at \in SendPlaces /\ UNCHANGED chain_vars
      /\ req[r] \in Sendings
  BY Locals DEF SaveMinted, SaveFailed, ConfirmedMint, MintThrew, At, chain_vars
<1>2. Knows(req[r], todo[r])
  BY DEF OnceInv
<1>8. Succeeded(req[r].sig, req[r].wallet) /\ req[r].wallet \in Wallets
  BY <1>1, Locals DEF Read, Sendings
<1>3. PICK status \in {"minted", "failed"} :
        /\ Outcome(r, status)
        /\ status = "minted" => HasMint(req[r].sig) \/ MayRevert(req[r].sig, req[r].symbol)
  BY <1>2, <1>8 DEF SaveMinted, SaveFailed, ConfirmedMint, At, Knows, MayRevert
<1> DEFINE o == OrderOf(req[r], status)
           q == [at |-> "listing", wallet |-> req[r].wallet, order |-> o]
           t == kvSet(pay(req[r].sig), o)
<1>4. /\ o \in OrderType /\ o.status = status /\ o.symbol = req[r].symbol
      /\ req[r].sig \in Sigs
  BY <1>1 DEF OrderOf, OrderType, Sendings
<1>5. q.at = "listing" /\ Goto(r, q) /\ Await(r, t)
  BY <1>3 DEF Outcome
<1> HIDE DEF o, q
<1>6. GoodWrite(t)
  <2>1. GoodCommand([cmd |-> "set", key |-> pay(req[r].sig), value |-> o])
    BY <1>3, <1>4 DEF GoodCommand, GoodOrder
  <2> QED BY <2>1 DEF GoodWrite, kvSet
<1>7. Knows(q, t)
  BY <1>5 DEF Knows, BeforeMint
<1> HIDE DEF t
<1> QED BY <1>1, <1>5, <1>6, <1>7, Writes

LEMMA ListsOnce ==
  ASSUME OneAtATime, PaidInv, OnceInv, NEW r \in Requests, ListOrder(r)
  PROVE  OnceInv'
<1> DEFINE t == kvListPush(list(req[r].wallet), req[r].order, MaxList)
<1>1. req[r].wallet \in Wallets
  BY Locals DEF ListOrder, At, Listings
<1>2. GoodWrite(t)
  <2> DEFINE c == [cmd |-> "lpush", key |-> list(req[r].wallet), element |-> req[r].order]
             d == [cmd |-> "ltrim", key |-> list(req[r].wallet), keep |-> MaxList]
  <2>1. c.key = list(req[r].wallet) /\ d.key = list(req[r].wallet) /\ t = <<c, d>>
    BY DEF kvListPush
  <2> HIDE DEF c, d, t
  <2> QED BY <1>1, <2>1 DEF GoodWrite, GoodCommand
<1>3. Goto(r, IdleReq) /\ Await(r, t) /\ UNCHANGED chain_vars
  BY DEF ListOrder, chain_vars
<1> HIDE DEF t
<1> QED BY <1>2, <1>3, IdleKnows, Writes

LEMMA StopsOnce ==
  ASSUME OneAtATime, PaidInv, OnceInv, NEW r \in Requests, Stop(r)
  PROVE  OnceInv'
<1>1. /\ Goto(r, IdleReq) /\ UNCHANGED <<store, chain_vars>>
      /\ todo' = [todo EXCEPT ![r] = <<>>] /\ doc' = [doc EXCEPT ![r] = NoDoc]
  BY DEF Stop, Abandon, chain_vars
<1>2. req'[r] = IdleReq /\ \A x \in Requests : x = r
  BY <1>1 DEF Goto, PaidInv, Typed, OneAtATime
<1>3. StoreShape' /\ todo'[r] = <<>>
  BY <1>1, <1>2 DEF OnceInv, StoreShape
<1>4. OrdersGood'
  BY <1>1, <1>2, <1>3 DEF OnceInv, OrdersGood, GoodWrite, GoodCommand, GoodOrder,
       HasMint, MayRevert, Succeeded, chain_vars
<1>5. MintedOnce'
  BY <1>1 DEF OnceInv, MintedOnce, chain_vars
<1>6. Knows(req[r], todo[r])'
  BY <1>2 DEF Knows, IdleReq, BeforeMint
<1> QED BY <1>2, <1>3, <1>4, <1>5, <1>6 DEF OnceInv

(* A step beside the requests: what has succeeded and who opened what stays.    *)
LEMMA OnceStays ==
  ASSUME OnceInv, UNCHANGED <<kv_vars, req, mints>>,
         \A s \in Sigs : \A w \in Wallets : Succeeded(s, w) => Succeeded(s, w)',
         opened \subseteq opened', accounts' \subseteq accounts \cup opened'
  PROVE  OnceInv'
<1>1. \A s \in Sigs : \A b : MayRevert(s, b) => MayRevert(s, b)'
  BY DEF MayRevert
<1>2. \A s \in Sigs : \A o : GoodOrder(s, o) => GoodOrder(s, o)'
  BY <1>1 DEF GoodOrder, HasMint
<1>3. OrdersGood'
  BY <1>2 DEF OnceInv, OrdersGood, GoodWrite, GoodCommand, kv_vars
<1>4. \A q, t : Knows(q, t) => Knows(q, t)'
  BY DEF Knows, HasMint, kv_vars
<1> QED BY <1>3, <1>4 DEF OnceInv, StoreShape, MintedOnce, kv_vars

LEMMA OnceStep ==
  ASSUME OneAtATime, NullIsNoOrder
  PROVE  PaidInv /\ OnceInv /\ [Next]_vars => OnceInv'
<1> SUFFICES ASSUME PaidInv, OnceInv, [Next]_vars PROVE OnceInv'
  OBVIOUS
<1>1. ASSUME NEW w \in Wallets, Sheet(w) PROVE OnceInv'
  <2>1. CASE EndPurchase(w) \/ \E s \in Sigs, b \in Symbols, amount \in Amounts :
                                  PayTreasury(w, s, b, amount)
    <3>1. /\ UNCHANGED <<kv_vars, req, accounts, opened, mints>>
          /\ \A s \in Sigs : payments'[s] = payments[s] \/ payments[s] = Unsent
      BY <2>1 DEF EndPurchase, PayTreasury, chain_vars, PaidInv, Typed
    <3>2. \A s \in Sigs : \A x \in Wallets : Succeeded(s, x) => Succeeded(s, x)'
      BY <3>1 DEF Succeeded, Unsent
    <3> QED BY <3>1, <3>2, OnceStays
  <2>2. CASE \E r \in Requests : PostPurchase(r, w)
    BY <2>2, ReceiveOnce DEF PostPurchase, chain_vars
  <2> QED BY <1>1, <2>1, <2>2 DEF Sheet
<1>2. ASSUME NEW r \in Requests, Buy(r) PROVE OnceInv'
  BY <1>2, ChecksOnce, SavesOnce, SendsOnce, ExecutesOnce, OutcomeOnce, ListsOnce,
     StoreActsOnce DEF Buy
<1>3. ASSUME NEW r \in Requests, NEW w \in Wallets, NEW s \in Sigs, NEW b \in Symbols,
             NEW amount \in Amounts, PostByHand(r, w, s, b, amount)
      PROVE  OnceInv'
  BY <1>3, ReceiveOnce DEF PostByHand, chain_vars
<1>4. ASSUME NEW s \in Sigs, ExecutePayment(s) \/ ExpireOrder(s) PROVE OnceInv'
  <2>1. /\ UNCHANGED <<kv_vars, req, accounts, opened, mints>>
        /\ \A x \in Sigs : payments'[x] = payments[x] \/ payments[x].state # "ok"
    BY <1>4 DEF ExecutePayment, ExpireOrder, OneAtATime, PaidInv, Typed
  <2>2. \A x \in Sigs : \A w \in Wallets : Succeeded(x, w) => Succeeded(x, w)'
    BY <2>1 DEF Succeeded
  <2> QED BY <2>1, <2>2, OnceStays
<1>5. ASSUME NEW a \in Openable, OpenAccount(a) PROVE OnceInv'
  BY <1>5, OnceStays DEF OpenAccount, Succeeded
<1>6. CASE UNCHANGED vars
  BY <1>6, OnceStays DEF vars, chain_vars, Succeeded
<1> QED BY <1>1, <1>2, <1>3, <1>4, <1>5, <1>6, StopsOnce DEF Next

(* "Idempotent by paySignature" (shop/buy/route.ts:3), and an order that says   *)
(* minted was minted: for requests handled one at a time, however often one is  *)
(* repeated and wherever the server stops.                                      *)
THEOREM MintsOnceAlways ==
  ASSUME OneAtATime, NullIsNoOrder
  PROVE  Spec => []MintsOnce
<1>1. PaidInv /\ OnceInv => MintsOnce
  BY OnceMeaning DEF MintsOnce
<1> QED BY <1>1, PaidInit, PaidStep, OnceInit, OnceStep, PTL DEF Spec
=============================================================================
