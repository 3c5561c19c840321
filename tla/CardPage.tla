------------------------------- MODULE CardPage -------------------------------
(***************************************************************************)
(* The owner's card pages: CardScreen and PurchaseSheet (app/card/page.tsx)    *)
(* and CashbackPage (app/cashback/page.tsx), over the query cache they share.  *)
(*                                                                         *)
(* A request to the card API is served in one step here: how requests          *)
(* interleave inside the server is in Cards.  One wallet, one window.          *)
(***************************************************************************)
EXTENDS QueryCache, FiniteSets, SequencesExt

CONSTANTS
  Requests,      \* requests the page may have under way
  Amounts,       \* what a purchase may cost
  Limits,        \* limits the owner may approve
  Rates,         \* TIERS[tier]: [top, base, cap] by tier
  RateUnit,      \* 10_000
  Mints,         \* the cashback assets
  FirstMint,     \* the one a new card has
  Prices,        \* USD per token, by mint
  Funds,         \* the wallet's USDC
  MaxPurchases,  \* bound
  MaxTaps,       \* bound: what the owner does
  MaxMonths,     \* bound
  NoCard,
  NoCashback,
  Faults         \* whether a query may fail

CardPageAssumption ==
  /\ QueryKeys = {"card", "card-txs"}
  /\ FirstMint \in Mints /\ Amounts \subseteq Nat \ {0}

VARIABLES
  card,       \* the card as the store has it
  feed,       \* its purchases, newest first
  allowance,  \* what the USDC account delegates to the card authority
  approvals,  \* limits signed and not yet executed
  month,
  changes,    \* how often the card was written
  screen,     \* the page the owner is on
  busy,       \* its busy flag
  req,        \* by request, what was asked, then also what was answered
  toast,      \* what the owner was last told
  told,       \* the last change of the card the owner was told is saved
  taps        \* how often the owner did something

server_vars == <<card, feed, allowance, approvals, month, changes>>
page_vars   == <<screen, busy, req, toast, told, taps>>
vars == <<query_vars, server_vars, page_vars>>

Screens == {"home", "card", "purchase", "cashback"}
NewCard == [status |-> "active", tier |-> "standard", mint |-> FirstMint]
NoToast == [kind |-> "none"]
IdleReq == [at |-> "idle"]
Sum(list, Of(_)) == FoldLeft(LAMBDA sum, x : sum + Of(x), 0, list)

-----------------------------------------------------------------------------
(* The queries.  Both pages keep the card under one key: the card page with     *)
(* what surrounds it, the cashback page by itself.                             *)

CardShape == IF screen = "cashback" THEN "record" ELSE "screen"
CardAnswer(shape) == [shape |-> shape, card |-> card, allowance |-> allowance, seen |-> changes]

HasScreen == data["card"] # NoData /\ data["card"].shape = "screen"
ShownCard == IF HasScreen THEN data["card"].card ELSE NoCard
ShownAllowance == IF HasScreen THEN data["card"].allowance ELSE 0
ShownTxs == IF data["card-txs"] = NoData THEN <<>> ELSE data["card-txs"]

(* On the cashback page any answer but null is a card. *)
ShowsTiers == data["card"] # NoData /\ (HasScreen \/ data["card"].card # NoCard)

Active(k) ==
  /\ screen # "home"
  /\ k = "card-txs" /\ screen # "cashback" => ShownCard # NoCard
ActiveKeys == {k \in QueryKeys : Active(k)}

Polled(k)  == screen # "cashback" \/ k = "card"

Interval(k) ==
  /\ Active(k) /\ Polled(k)
  /\ Fetch(k, CardShape)
  /\ UNCHANGED <<server_vars, page_vars>>

(* A page appears, or the window is looked at again: what is old is asked for. *)
Focus(k) ==
  /\ Active(k) /\ ~fresh[k]
  /\ Fetch(k, CardShape)
  /\ UNCHANGED <<server_vars, page_vars>>

ServeQuery(k) ==
  /\ Asking(k)
  /\ Serve(k, IF k = "card" THEN CardAnswer(flight[k].question) ELSE feed)
  /\ UNCHANGED <<server_vars, page_vars>>

QueryArrives(k) == Arrive(k) /\ UNCHANGED <<server_vars, page_vars>>
QueryFails(k)   == Faults /\ Fail(k) /\ UNCHANGED <<server_vars, page_vars>>
TimePasses(k)   == GoStale(k) /\ UNCHANGED <<server_vars, page_vars>>

-----------------------------------------------------------------------------
(* What the owner does. *)

Tap == taps < MaxTaps /\ taps' = taps + 1

Navigate(page) ==
  /\ Tap /\ page # screen
  /\ page = "purchase" => screen = "card" /\ ShownCard # NoCard
  /\ screen' = page /\ busy' = FALSE
  /\ UNCHANGED <<query_vars, server_vars, req, toast, told>>

Send(r, kind, body) ==
  /\ req[r] = IdleReq
  /\ req' = [req EXCEPT ![r] = [at |-> "asked", kind |-> kind, body |-> body]]
  /\ UNCHANGED <<query_vars, server_vars, screen, toast, told>>

(* "Get your virtual card" *)
OffersCreate == screen = "card" /\ data["card"] # NoData /\ ShownCard = NoCard

createCard(r) ==
  /\ OffersCreate /\ ~busy /\ busy' = TRUE
  /\ Tap /\ Send(r, "create", NewCard)

(* The toast comes with the signature, before the limit is executed. *)
approveLimit(limit) ==
  /\ screen = "card" /\ ShownCard # NoCard /\ ~busy
  /\ limit \notin approvals
  /\ approvals' = approvals \cup {limit}
  /\ toast' = [kind |-> "limit", limit |-> limit]
  /\ Tap /\ Invalidate("card", ActiveKeys, CardShape)
  /\ UNCHANGED <<card, feed, allowance, month, changes, screen, busy, req, told>>

(* The toggle is not disabled while it works. *)
toggleFreeze(r) ==
  /\ screen = "card" /\ ShownCard # NoCard
  /\ Tap /\ UNCHANGED busy
  /\ Send(r, "freeze", [status |-> IF ShownCard.status = "frozen" THEN "active" ELSE "frozen"])

save(r) ==
  /\ screen = "cashback" /\ ShowsTiers /\ ~busy /\ busy' = TRUE
  /\ Tap
  /\ \/ \E tier \in DOMAIN Rates : Send(r, "patch", [tier |-> tier])
     \/ \E mint \in Mints : Send(r, "patch", [mint |-> mint])

tierBps(tier) == Rates[tier].top
cashbackUsd(amount) == (amount * tierBps(ShownCard.tier)) \div RateUnit

pay(r, amount) ==
  /\ screen = "purchase" /\ ShownCard # NoCard /\ ~busy /\ busy' = TRUE
  /\ Len(feed) < MaxPurchases
  /\ Tap /\ Send(r, "pay", [amount |-> amount, cashback |-> cashbackUsd(amount)])

-----------------------------------------------------------------------------
(* The card API, the cashback job, the chain and the calendar. *)

Settled(tx) == tx.status = "settled"
SettledIn(list, m) == Sum(list, LAMBDA tx : IF Settled(tx) /\ tx.month = m THEN tx.amount ELSE 0)

Cashback(amount) ==
  LET rate == IF SettledIn(feed, month) + amount <= Rates[card.tier].cap
              THEN Rates[card.tier].top ELSE Rates[card.tier].base
      usd  == (amount * rate) \div RateUnit
  IN  IF usd = 0 THEN NoCashback
      ELSE [usd |-> usd, mint |-> card.mint, tokens |-> 0, status |-> "queued"]

Balance == Funds - Sum(feed, LAMBDA tx : IF Settled(tx) THEN tx.amount ELSE 0)
Purchase(amount) ==
  LET reason == CASE card.status = "frozen" -> "FROZEN"
                  [] allowance < amount     -> "LIMIT"
                  [] Balance < amount       -> "FUNDS"
                  [] OTHER                  -> "none"
  IN  [amount |-> amount, month |-> month, reason |-> reason,
       status |-> IF reason = "none" THEN "settled" ELSE "declined",
       cashback |-> IF reason = "none" THEN Cashback(amount) ELSE NoCashback]

Reply(r, answer) ==
  /\ req' = [req EXCEPT ![r] = [at |-> "answered", kind |-> req[r].kind, body |-> req[r].body,
                                answer |-> answer]]
  /\ UNCHANGED <<query_vars, approvals, month, screen, busy, toast, told, taps>>

Asks(r, kinds) == req[r].at = "asked" /\ req[r].kind \in kinds

ServeCreate(r) ==
  /\ Asks(r, {"create"})
  /\ card' = IF card = NoCard THEN req[r].body ELSE card
  /\ changes' = changes + 1
  /\ Reply(r, [ok |-> TRUE, seen |-> changes'])
  /\ UNCHANGED <<feed, allowance>>

ServePatch(r) ==
  /\ Asks(r, {"patch", "freeze"})
  /\ IF card = NoCard
     THEN Reply(r, [ok |-> FALSE]) /\ UNCHANGED <<card, changes>>
     ELSE /\ card' = [f \in DOMAIN card |->
                        IF f \in DOMAIN req[r].body THEN req[r].body[f] ELSE card[f]]
          /\ changes' = changes + 1
          /\ Reply(r, [ok |-> TRUE, seen |-> changes'])
  /\ UNCHANGED <<feed, allowance>>

ServePay(r) ==
  /\ Asks(r, {"pay"})
  /\ LET tx == Purchase(req[r].body.amount)
     IN  /\ feed' = <<tx>> \o feed
         /\ allowance' = allowance - IF Settled(tx) THEN tx.amount ELSE 0
         /\ Reply(r, tx)
  /\ UNCHANGED <<card, changes>>

ProcessCashback(i) ==
  LET back == feed[i].cashback
  IN  /\ back # NoCashback /\ back.status = "queued"
      /\ \/ feed' = [feed EXCEPT ![i].cashback.status = "failed"]
         \/ feed' = [feed EXCEPT ![i].cashback =
              [back EXCEPT !.status = "sent", !.tokens = back.usd \div Prices[back.mint]]]
      /\ UNCHANGED <<query_vars, card, allowance, approvals, month, changes, page_vars>>

ExecuteApproval(limit) ==
  /\ limit \in approvals
  /\ approvals' = approvals \ {limit}
  /\ allowance' = limit
  /\ UNCHANGED <<query_vars, card, feed, month, changes, page_vars>>

NextMonth ==
  /\ month < MaxMonths /\ month' = month + 1
  /\ UNCHANGED <<query_vars, card, feed, allowance, approvals, changes, page_vars>>

-----------------------------------------------------------------------------
(* What the page does with an answer. *)

Gets(r, kinds) == req[r].at = "answered" /\ req[r].kind \in kinds

(* toggleFreeze neither sets nor clears busy, and says nothing when it fails. *)
Finish(r, message) ==
  /\ req' = [req EXCEPT ![r] = IdleReq]
  /\ busy' = (busy /\ req[r].kind = "freeze")
  /\ toast' = message
  /\ UNCHANGED <<server_vars, taps>>

KeptCard == UNCHANGED query_vars
RefreshCard == Invalidate("card", ActiveKeys, CardShape)

Changing == {"create", "patch", "freeze"}

Saved(r) ==
  /\ Gets(r, Changing) /\ req[r].answer.ok
  /\ Finish(r, [kind |-> "saved"])
  /\ RefreshCard
  /\ told' = IF Active("card") /\ req[r].answer.seen > told THEN req[r].answer.seen ELSE told
  /\ UNCHANGED screen

NotSaved(r) ==
  /\ Gets(r, Changing) /\ ~req[r].answer.ok
  /\ Finish(r, IF req[r].kind = "freeze" THEN toast ELSE [kind |-> "error"])
  /\ UNCHANGED <<query_vars, screen, told>>

PaidToast(tx, cashback) ==
  IF Settled(tx)
  THEN [kind |-> "paid", cashback |-> cashback, tx |-> tx]
  ELSE [kind |-> "declined", reason |-> tx.reason, amount |-> tx.amount, limit |-> ShownAllowance]

(* history.back() leaves the sheet, or whatever page the owner is on by then. *)
Paid(r) ==
  /\ Gets(r, {"pay"})
  /\ Finish(r, PaidToast(req[r].answer, req[r].body.cashback))
  /\ Invalidate("card-txs", ActiveKeys, CardShape)
  /\ screen' \in IF screen = "purchase" THEN {"card"} ELSE Screens
  /\ UNCHANGED told

-----------------------------------------------------------------------------
Init ==
  /\ QueryInit
  /\ card = NoCard /\ feed = <<>> /\ allowance = 0 /\ approvals = {}
  /\ month = 1 /\ changes = 0
  /\ screen = "card" /\ busy = FALSE /\ toast = NoToast /\ told = 0 /\ taps = 0
  /\ req = [r \in Requests |-> IdleReq]

Queries ==
  \E k \in QueryKeys :
    \/ Interval(k) \/ Focus(k) \/ ServeQuery(k) \/ QueryArrives(k) \/ QueryFails(k)
    \/ TimePasses(k)

Owner ==
  \/ \E page \in Screens : Navigate(page)
  \/ \E limit \in Limits : approveLimit(limit)
  \/ \E r \in Requests :
       \/ createCard(r) \/ toggleFreeze(r) \/ save(r)
       \/ \E amount \in Amounts : pay(r, amount)

Handler(r) == ServeCreate(r) \/ ServePatch(r) \/ ServePay(r)
Answered(r) == Saved(r) \/ NotSaved(r) \/ Paid(r)

Next ==
  \/ Queries \/ Owner
  \/ \E r \in Requests : Handler(r) \/ Answered(r)
  \/ \E i \in DOMAIN feed : ProcessCashback(i)
  \/ \E limit \in Limits : ExecuteApproval(limit)
  \/ NextMonth

Spec == Init /\ [][Next]_vars

-----------------------------------------------------------------------------
(* Properties *)

(* Once the owner was told that a change of the card is saved, no answer that    *)
(* left the server before it is shown any more, whatever polls were under way.   *)
NoOldNews ==
  [][data'["card"] # data["card"] => data'["card"].seen >= told]_vars

(* What the card page shows as left is what the card may still spend, once the   *)
(* page has the server's own numbers (wireframes.md:163).                        *)
Current == HasScreen /\ ShownAllowance = allowance /\ ShownTxs = feed
LeftShown == ShownAllowance - SettledIn(ShownTxs, month)

(* "Lifetime cashback" counts tokens of the asset it names.                     *)
Sent(tx) == tx.cashback # NoCashback /\ tx.cashback.status = "sent"
LifetimeAsset == Sum(ShownTxs, LAMBDA tx : IF Sent(tx) THEN tx.cashback.tokens ELSE 0)
=============================================================================
