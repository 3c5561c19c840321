-------------------------------- MODULE Cards --------------------------------
(***************************************************************************)
(* Card purchases and their cashback (app/src/lib/card/mock.ts, app/api/    *)
(* card, app/api/card/simulate, app/api/cashback/process) over KvStore.     *)
(*                                                                         *)
(* A request runs from one await to the next: each action below is the code *)
(* between two awaits, and any other request, the store, the chain and the  *)
(* owner's wallet act in between.  A request that answers goes back to idle *)
(* and may serve anything else, a retry included.                           *)
(***************************************************************************)
EXTENDS KvStore, Bags

CONSTANTS
  Requests,        \* requests being served at one time
  Owners,
  TxIds,           \* the ids randomUUID will give to purchases
  Amounts,         \* what a purchase may cost
  Rates,           \* TIERS[tier]: [top, base, cap] by tier
  RateUnit,        \* 10_000
  Patches,         \* [status, tier] that PATCH may write
  Prices,          \* what SignedPrice.price may hold
  TokenUnit,       \* 10^decimals of the cashback asset
  MaxList,         \* 100
  MaxUsdc,         \* bound: USDC an owner may hold or approve
  MaxDeposits,     \* bound: deposits for one purchase
  WalletMoves,     \* whether the owner's wallet spends and approves meanwhile
  Timeouts,        \* whether a confirmation may time out
  Stops            \* whether a server process may stop

card(o)  == <<"card", o>>
txsOf(o) == <<"txs", o>>

ASSUME CardsAssumption ==
  /\ Clients = Requests
  /\ {card(o) : o \in Owners} \cup {txsOf(o) : o \in Owners} \subseteq Keys
  /\ Amounts \subseteq Nat \ {0} /\ Prices \subseteq Nat \ {0}
  /\ Rates \in [DOMAIN Rates -> [top : Nat, base : Nat, cap : Nat]]
  /\ "standard" \in DOMAIN Rates /\ \A t \in DOMAIN Rates : Rates[t].base <= Rates[t].top
  /\ Patches \subseteq [status : {"active", "frozen"}, tier : DOMAIN Rates]
  /\ RateUnit \in Nat \ {0} /\ MaxList \in Nat
  /\ NoEntry \notin Seq([id : TxIds, amount : Amounts,         \* null is no feed
        status : {"pending", "declined", "settled"},
        cashback : [status : {"none", "queued", "sent", "failed"}, usd : Nat]])

VARIABLES
  req,        \* by request, what it is doing and its local variables
  issued,     \* the ids given to purchases so far
  balance,    \* USDC of each owner
  allowance,  \* what each owner's USDC account delegates to the card authority
  inflight,   \* settlements sent and not yet executed
  executed,   \* [id, owner, amount, ok] of the settlements the chain executed
  deposits    \* bag of the ids whose cashback the chain deposited

chain_vars == <<balance, allowance, inflight, executed, deposits>>
vars == <<kv_vars, req, issued, chain_vars>>

Tiers == DOMAIN Rates
NewCard == [status |-> "active", tier |-> "standard"]
NoCashback == [status |-> "none", usd |-> 0]
IdleReq == [at |-> "idle"]

At(r, place) == req[r].at = place /\ Settled(r)
Goto(r, state) == req' = [req EXCEPT ![r] = state]
GotoWith(r, state) == Goto(r, state) /\ UNCHANGED kv_vars
(* The last write of a handler; its answer is sent once the write is done. *)
Finish(r, commands) == Goto(r, IdleReq) /\ Await(r, commands)
Answer(r) == GotoWith(r, IdleReq)

TxOf(t, amount, status) ==
  [id |-> t, amount |-> amount, status |-> status, cashback |-> NoCashback]
IdsOf(list) == {list[i].id : i \in DOMAIN list}
Replaced(list, tx) ==
  [i \in DOMAIN list |-> IF list[i].id = tx.id THEN tx ELSE list[i]]
FindTx(list, t) == list[CHOOSE i \in DOMAIN list :
                          list[i].id = t /\ \A j \in 1 .. i - 1 : list[j].id # t]

-----------------------------------------------------------------------------
(* POST and PATCH /api/card *)

CreateCard(r, o) ==
  /\ At(r, "idle")
  /\ kvGet(card(o)) = NoEntry
  /\ GotoWith(r, [at |-> "creating", owner |-> o])
  /\ UNCHANGED <<issued, chain_vars>>

SaveNewCard(r) ==
  /\ At(r, "creating")
  /\ Finish(r, kvSet(card(req[r].owner), NewCard))
  /\ UNCHANGED <<issued, chain_vars>>

PatchCard(r, o) ==
  /\ At(r, "idle")
  /\ Patches # {} /\ kvGet(card(o)) # NoEntry
  /\ GotoWith(r, [at |-> "patching", owner |-> o, card |-> kvGet(card(o))])
  /\ UNCHANGED <<issued, chain_vars>>

SavePatchedCard(r) ==
  /\ At(r, "patching")
  /\ \E patch \in Patches :
       \/ Finish(r, kvSet(card(req[r].owner), patch))
       \/ Finish(r, kvSet(card(req[r].owner), [req[r].card EXCEPT !.status = patch.status]))
       \/ Finish(r, kvSet(card(req[r].owner), [req[r].card EXCEPT !.tier = patch.tier]))
  /\ UNCHANGED <<issued, chain_vars>>

-----------------------------------------------------------------------------
(* POST /api/card/simulate: the purchase (simulatePurchase) *)

Recorded(r, o, tx, state) ==
  Goto(r, state) /\ Await(r, kvListPush(txsOf(o), tx, MaxList))

StartPurchase(r, o, t, amount) ==
  /\ At(r, "idle")
  /\ t \notin issued /\ issued' = issued \cup {t}
  /\ kvGet(card(o)) # NoEntry
  /\ IF kvGet(card(o)).status = "frozen"
     THEN Recorded(r, o, TxOf(t, amount, "declined"), IdleReq)
     ELSE GotoWith(r, [at |-> "checking", owner |-> o, tx |-> TxOf(t, amount, "pending")])
  /\ UNCHANGED chain_vars

CheckFunds(r) ==
  LET o == req[r].owner
      tx == req[r].tx
  IN  /\ At(r, "checking")
      /\ IF allowance[o] < tx.amount \/ balance[o] < tx.amount
         THEN Recorded(r, o, [tx EXCEPT !.status = "declined"], IdleReq)
         ELSE GotoWith(r, [req[r] EXCEPT !.at = "sending"])
      /\ UNCHANGED <<issued, chain_vars>>

Covered(o, amount) == amount <= allowance[o] /\ amount <= balance[o]

(* sendRawTransaction simulates first, and throws when that fails. *)
SendSettlement(r) ==
  LET o == req[r].owner
      tx == req[r].tx
  IN  /\ At(r, "sending")
      /\ IF Covered(o, tx.amount)
         THEN /\ inflight' = inflight \cup
                   {[id |-> tx.id, owner |-> o, amount |-> tx.amount]}
              /\ GotoWith(r, [req[r] EXCEPT !.at = "confirming"])
         ELSE Answer(r) /\ UNCHANGED inflight
      /\ UNCHANGED <<issued, balance, allowance, executed, deposits>>

(* confirmTransaction returns once the transaction is executed, with or      *)
(* without an error: the error is in its result, which nobody reads.          *)
Confirmed(t) == \E x \in executed : x.id = t

RecordPurchase(r) ==
  LET tx == [req[r].tx EXCEPT !.status = "settled"]
  IN  /\ At(r, "confirming")
      /\ Confirmed(tx.id)
      /\ Recorded(r, req[r].owner, tx, [req[r] EXCEPT !.at = "settled", !.tx = tx])
      /\ UNCHANGED <<issued, chain_vars>>

(* The cashback is queued (simulate/route.ts): the tier, then the list. *)
ReadTier(r) ==
  /\ At(r, "settled")
  /\ IF kvGet(card(req[r].owner)) = NoEntry
     THEN Answer(r)
     ELSE GotoWith(r, [at |-> "rewarding", owner |-> req[r].owner, tx |-> req[r].tx,
                       tier |-> kvGet(card(req[r].owner)).tier])
  /\ UNCHANGED <<issued, chain_vars>>

Spend(list) ==
  FoldLeft(LAMBDA sum, tx : sum + IF tx.status = "settled" THEN tx.amount ELSE 0, 0, list)

(* The list is newest first: the purchases of the month are the first of it.  *)
MonthToDate(list, month) == Spend(SubSeq(list, 1, month))
Cashback(list, month, tx, tier) ==
  LET rate == IF MonthToDate(list, month) <= Rates[tier].cap
              THEN Rates[tier].top ELSE Rates[tier].base
  IN  [status |-> "queued", usd |-> (tx.amount * rate) \div RateUnit]

(* How many purchases of the list this month has seen is not modelled.         *)
QueueCashback(r) ==
  LET o    == req[r].owner
      list == kvListRead(txsOf(o), MaxList)
      back(month) == Cashback(list, month, req[r].tx, req[r].tier)
  IN  /\ At(r, "rewarding")
      /\ \E month \in 0 .. Len(list) :
           IF back(month).usd = 0
           THEN Answer(r)
           ELSE GotoWith(r, [at |-> "queueing", owner |-> o,
                  list |-> Replaced(list, [req[r].tx EXCEPT !.cashback = back(month)])])
      /\ UNCHANGED <<issued, chain_vars>>

SaveQueued(r) ==
  /\ At(r, "queueing")
  /\ Finish(r, kvListWrite(txsOf(req[r].owner), req[r].list))
  /\ UNCHANGED <<issued, chain_vars>>

-----------------------------------------------------------------------------
(* POST /api/cashback/process, sent by simulate, by the owner or again by     *)
(* either: its first read may answer at once.                                 *)

Payable(status)      == status = "queued"

StartCashback(r, o, t) ==
  LET list == kvListRead(txsOf(o), MaxList)
  IN  /\ At(r, "idle")
      /\ t \in IdsOf(list)
      /\ FindTx(list, t).status = "settled"
      /\ Payable(FindTx(list, t).cashback.status)
      /\ GotoWith(r, [at |-> "pricing", owner |-> o, tx |-> FindTx(list, t), list |-> list])
      /\ UNCHANGED <<issued, chain_vars>>

WithStatus(tx, status) == [tx EXCEPT !.cashback.status = status]
Marked(r, status) ==
  Finish(r, kvListWrite(txsOf(req[r].owner),
                        Replaced(req[r].list, WithStatus(req[r].tx, status))))

(* The price account is missing (503), or the cashback buys less than one    *)
(* unit of the asset, or it is bought.                                        *)
PriceCashback(r) ==
  /\ At(r, "pricing")
  /\ \/ Answer(r)
     \/ \E price \in Prices :
          IF (req[r].tx.cashback.usd * TokenUnit) \div price = 0
          THEN Marked(r, "failed")
          ELSE GotoWith(r, [req[r] EXCEPT !.at = "depositing"])
  /\ UNCHANGED <<issued, chain_vars>>

(* How often the cashback of a purchase was deposited. *)
Times(t) == IF BagIn(t, deposits) THEN deposits[t] ELSE 0

(* .rpc() refuses, or sends the deposit and waits.  Only the chain knows      *)
(* from then on whether it lands, and nothing else here depends on when.      *)
SendDeposit(r) ==
  /\ At(r, "depositing")
  /\ \/ Marked(r, "failed") /\ UNCHANGED deposits
     \/ \E lands \in BOOLEAN :
          /\ lands => Times(req[r].tx.id) < MaxDeposits
          /\ GotoWith(r, [req[r] EXCEPT !.at = IF lands THEN "landed" ELSE "dropped"])
          /\ deposits' = IF lands THEN deposits (+) SetToBag({req[r].tx.id}) ELSE deposits
  /\ UNCHANGED <<issued, balance, allowance, inflight, executed>>

Submitted(r) == At(r, "landed") \/ At(r, "dropped")
Landed(r)    == At(r, "landed")

MarkSent(r) ==
  /\ Landed(r)
  /\ Marked(r, "sent")
  /\ UNCHANGED <<issued, chain_vars>>

(* .rpc() throws: the transaction failed, or its confirmation timed out.      *)
MarkFailed(r) ==
  /\ At(r, "dropped") \/ (At(r, "landed") /\ Timeouts)
  /\ Marked(r, "failed")
  /\ UNCHANGED <<issued, chain_vars>>

-----------------------------------------------------------------------------
(* The chain, the owner's wallet, and what may happen to a request. *)

ExecuteSettlement(x) ==
  LET ok == Covered(x.owner, x.amount)
      moved == IF ok THEN x.amount ELSE 0
  IN  /\ inflight' = inflight \ {x}
      /\ executed' = executed \cup
           {[id |-> x.id, owner |-> x.owner, amount |-> x.amount, ok |-> ok]}
      /\ balance' = [balance EXCEPT ![x.owner] = @ - moved]
      /\ allowance' = [allowance EXCEPT ![x.owner] = @ - moved]
      /\ UNCHANGED <<kv_vars, req, issued, deposits>>

WalletActs(o) ==
  /\ WalletMoves
  /\ \E b, a \in 0 .. MaxUsdc :
       /\ balance' = [balance EXCEPT ![o] = b]
       /\ allowance' = [allowance EXCEPT ![o] = a]
  /\ UNCHANGED <<kv_vars, req, issued, inflight, executed, deposits>>

(* confirmTransaction gives up after a while and throws. *)
ConfirmationTimesOut(r) ==
  /\ Timeouts /\ At(r, "confirming")
  /\ Answer(r)
  /\ UNCHANGED <<issued, chain_vars>>

(* The process stops, or a request to the store fails and throws. *)
Stop(r) ==
  /\ Stops /\ (req[r] # IdleReq \/ ~Settled(r))
  /\ Abandon(r) /\ Goto(r, IdleReq)
  /\ UNCHANGED <<issued, chain_vars>>

StoreActs(r) == KvStep(r) /\ UNCHANGED <<req, issued, chain_vars>>

-----------------------------------------------------------------------------
CardsInit ==
  /\ issued = {} /\ inflight = {} /\ executed = {} /\ deposits = EmptyBag
  /\ balance = [o \in Owners |-> MaxUsdc]
  /\ allowance = [o \in Owners |-> MaxUsdc]

Init == KvInit /\ req = [r \in Requests |-> IdleReq] /\ CardsInit

CardApi(r) ==
  \/ \E o \in Owners : CreateCard(r, o) \/ PatchCard(r, o)
  \/ SaveNewCard(r) \/ SavePatchedCard(r)

Purchase(r) ==
  \/ \E o \in Owners, t \in TxIds, amount \in Amounts : StartPurchase(r, o, t, amount)
  \/ CheckFunds(r) \/ SendSettlement(r) \/ RecordPurchase(r)
  \/ ReadTier(r) \/ QueueCashback(r) \/ SaveQueued(r)

CashbackJob(r) ==
  \/ \E o \in Owners, t \in TxIds : StartCashback(r, o, t)
  \/ PriceCashback(r) \/ SendDeposit(r) \/ MarkSent(r) \/ MarkFailed(r)

Next ==
  \/ \E r \in Requests :
       \/ CardApi(r) \/ Purchase(r) \/ CashbackJob(r)
       \/ ConfirmationTimesOut(r) \/ Stop(r) \/ StoreActs(r)
  \/ \E x \in inflight : ExecuteSettlement(x)
  \/ \E o \in Owners : WalletActs(o)

Spec == Init /\ [][Next]_vars

-----------------------------------------------------------------------------
(* Properties *)

Feed(o) == ListOf(store[txsOf(o)])
Quiet == \A r \in Requests : At(r, "idle")

(* The store holds what data-model.md says it holds, and money is not created. *)
TypeOK ==
  /\ \A o \in Owners :
       /\ store[card(o)] \in
            {NoEntry} \cup [status : {"active", "frozen"}, tier : Tiers]
       /\ \A i \in DOMAIN Feed(o) :
            /\ Feed(o)[i].id \in issued /\ Feed(o)[i].amount \in Amounts
            /\ Feed(o)[i].status \in {"settled", "declined"}
            /\ Feed(o)[i].status = "declined" => Feed(o)[i].cashback = NoCashback
            /\ Feed(o)[i].cashback.status \in {"none", "queued", "sent", "failed"}
  /\ balance \in [Owners -> 0 .. MaxUsdc] /\ allowance \in [Owners -> 0 .. MaxUsdc]
  /\ BagToSet(deposits) \subseteq TxIds
  /\ Quiet => \A o \in Owners : Len(Feed(o)) <= MaxList

(* A record that says the cashback was sent is right: the deposit landed,     *)
(* whatever other requests wrote over the list in between.                    *)
SentMeansDeposited ==
  \A o \in Owners : \A i \in DOMAIN Feed(o) :
    Feed(o)[i].cashback.status = "sent" => BagIn(Feed(o)[i].id, deposits)

(* No cashback without a purchase that reached the chain: a declined purchase *)
(* or one that timed out earns nothing.                                       *)
CashbackFollowsPurchase ==
  BagToSet(deposits) \subseteq {x.id : x \in executed}

(* Both, of the records and the deposits: whatever POST /api/card/simulate and *)
(* POST /api/cashback/process write over each other.                          *)
CashbackBacked == SentMeansDeposited /\ CashbackFollowsPurchase

(* Handled one at a time, requests pay the cashback of a purchase at most     *)
(* once, however often they are repeated: "idempotent by txId ... safe to     *)
(* retry", says process/route.ts:2.                                           *)
CashbackOnce == \A t \in TxIds : Times(t) <= 1

(* Every purchase the chain executed is in the feed, once; only a full list   *)
(* may have dropped it.                                                       *)
FeedComplete ==
  Quiet => \A o \in Owners :
    /\ Cardinality(IdsOf(Feed(o))) = Len(Feed(o))
    /\ \A x \in executed :
         x.owner = o => x.id \in IdsOf(Feed(o)) \/ Len(Feed(o)) = MaxList
=============================================================================
