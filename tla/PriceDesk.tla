------------------------------ MODULE PriceDesk ------------------------------
(***************************************************************************)
(* The signed price of one market and those who set and show it: the cron's    *)
(* POST /api/prices/sync, the admin page's crash and restore through POST      *)
(* /api/admin/price, and GET /api/prices/history.  The points they keep are in *)
(* KvStore; the price account is on chain.  The alert check that a price       *)
(* change starts is in Alerts.                                                *)
(***************************************************************************)
EXTENDS KvStore, FiniteSets, PriceSigner

CONSTANTS
  Requests,     \* requests being served at one time
  Readings,     \* what the price sources may answer
  Insured,      \* the market's insuredValueUsd6, or Unknown: a stock has none
  Typed,        \* prices an operator may post by hand, without the page
  Reference,    \* the points CoinGecko may answer; {} when it fails
  Cent,         \* a cent, in units of a posted price
  Hour,         \* one hour, in units of time
  Window,       \* 90 days
  MaxTime,      \* bound: how late it may get
  MaxPosts,     \* bound: how many prices are posted
  FetchFails,   \* whether reading the price account may throw
  Timeouts      \* whether rpc() may give up on a transaction that lands

pricehist == <<"pricehist">>
pricedemo == <<"pricedemo">>
hist      == <<"hist">>

ASSUME DeskAssumption ==
  /\ Clients = Requests /\ {pricehist, pricedemo, hist} \subseteq Keys
  /\ Cent \in Nat \ {0} /\ Hour \in Nat \ {0} /\ Window \in Nat \ {0}
  /\ \A r \in Readings : {r.primary, r.jupiter, r.pyth} \subseteq Nat

VARIABLES
  signed,   \* the SignedPrice account
  txs,      \* the set_signed_price transactions, in the order they were sent
  req,      \* by request, what it is doing and its local variables
  page,     \* the price the admin page shows
  now

vars == <<kv_vars, signed, txs, req, page, now>>

IdleReq == [at |-> "idle"]
NoPrice == [price |-> 0, source |-> "none"]

At(r, place) == req[r].at = place /\ Settled(r)
Goto(r, state) == req' = [req EXCEPT ![r] = state]
GotoWith(r, state) == Goto(r, state) /\ UNCHANGED kv_vars
Moved(r, place) == [req[r] EXCEPT !.at = place]

(* program.methods.setSignedPrice(...).rpc(): sent, then confirmed or thrown.   *)
SendPrice(r, price, source, by, then) ==
  /\ Len(txs) < MaxPosts
  /\ txs' = Append(txs, [price |-> price, source |-> source, by |-> by, state |-> "sent"])
  /\ GotoWith(r, [at |-> "confirming", tx |-> Len(txs) + 1, price |-> price, then |-> then])

-----------------------------------------------------------------------------
(* POST /api/prices/sync, for the one market *)

Sync(r) ==
  /\ At(r, "idle")
  /\ \E reading \in Readings : GotoWith(r, [at |-> "sourced", reading |-> reading])
  /\ UNCHANGED <<signed, txs, page, now>>

ReadLastSource(r) ==
  /\ At(r, "sourced")
  /\ \E lastSource \in {signed.source} \cup (IF FetchFails THEN {Unknown} ELSE {}) :
       GotoWith(r, [at |-> "decided", reading |-> req[r].reading, last |-> lastSource,
                    decision |-> decide(req[r].reading, lastSource)])
  /\ UNCHANGED <<signed, txs, page, now>>

PostDecision(r) ==
  /\ At(r, "decided")
  /\ IF req[r].decision = Skip
     THEN GotoWith(r, IdleReq) /\ UNCHANGED txs
     ELSE SendPrice(r, req[r].decision.priceE6, "market", "sync", "recording")
  /\ UNCHANGED <<signed, page, now>>

Sent(i) == txs[i].state \in {"sent", "done"}
Done(i) == txs[i].state = "done"

Confirmed(r) ==
  /\ At(r, "confirming")
  /\ \/ Done(req[r].tx) /\ GotoWith(r, Moved(r, req[r].then))
     \/ Timeouts /\ GotoWith(r, IdleReq)
  /\ UNCHANGED <<signed, txs, page, now>>

TooSoon(series) == series # <<>> /\ now - series[Len(series)].t < Hour
Inside(points)  == Only(points, {p \in ToSet(points) : p.t + Window >= now})

(* Math.round(price * 100) / 100, of a price already rounded for the chain.       *)
ToCents(price) == Cent * RoundDiv(price, Cent)

recordHistory(r) ==
  /\ At(r, "recording")
  /\ LET series == ListOf(kvGet(pricehist))
         point  == [t |-> now, price |-> ToCents(req[r].price)]
     IN  IF TooSoon(series)
         THEN UNCHANGED kv_vars
         ELSE Await(r, kvSet(pricehist, Append(Inside(series), point)))
  /\ Goto(r, IdleReq)
  /\ UNCHANGED <<signed, txs, page, now>>

-----------------------------------------------------------------------------
(* The admin page and POST /api/admin/price *)

PageRefetches ==
  /\ page' = signed.price /\ page' # page
  /\ UNCHANGED <<kv_vars, signed, txs, req, now>>

AdminPost(r, price, source) ==
  SendPrice(r, price, source, "admin", "demo point")

Refuse(r, action) == GotoWith(r, [at |-> "denied", action |-> action]) /\ UNCHANGED txs

Crash(r) ==
  /\ At(r, "idle")
  /\ IF page = 0 THEN Refuse(r, "crash") ELSE AdminPost(r, RoundDiv(7 * page, 10), "demo")
  /\ UNCHANGED <<signed, page, now>>

(* The page has a price to restore only for a market with an insured value.     *)
Restore(r) ==
  /\ At(r, "idle")
  /\ IF Insured = Unknown THEN Refuse(r, "restore") ELSE AdminPost(r, Insured, "market")
  /\ UNCHANGED <<signed, page, now>>

PostTyped(r, price, source) ==
  /\ At(r, "idle")
  /\ AdminPost(r, price, source)
  /\ UNCHANGED <<signed, page, now>>

AnswerRefused(r) ==
  /\ At(r, "denied")
  /\ GotoWith(r, IdleReq) /\ UNCHANGED <<signed, txs, page, now>>

AddDemoPoint(r) ==
  /\ At(r, "demo point")
  /\ Await(r, kvSet(pricedemo, Append(ListOf(kvGet(pricedemo)), [t |-> now, price |-> req[r].price])))
  /\ Goto(r, IdleReq)
  /\ UNCHANGED <<signed, txs, page, now>>

-----------------------------------------------------------------------------
(* GET /api/prices/history *)

ReadCached(r) ==
  /\ At(r, "idle")
  /\ GotoWith(r, IF kvGet(hist) # NoEntry
                 THEN [at |-> "answering", series |-> kvGet(hist).series,
                       known |-> ListOf(store[pricedemo])]
                 ELSE [at |-> "loading", known |-> ListOf(store[pricedemo])])
  /\ UNCHANGED <<signed, txs, page, now>>

ReadPoints(r) ==
  /\ At(r, "loading")
  /\ GotoWith(r, [at |-> "fetching", known |-> req[r].known,
                  posted |-> Inside(ListOf(kvGet(pricehist))),
                  demo |-> Inside(ListOf(kvGet(pricedemo)))])
  /\ UNCHANGED <<signed, txs, page, now>>

Compose(r) ==
  /\ At(r, "fetching")
  /\ \E fetched \in Reference :
       LET points == IF fetched # <<>> THEN fetched ELSE req[r].posted
           series == [points |-> points, demo |-> req[r].demo]
       IN  /\ Goto(r, [at |-> "answering", series |-> series, known |-> req[r].known])
           /\ IF points = <<>>
              THEN UNCHANGED kv_vars
              ELSE Await(r, kvSet(hist, [series |-> series, born |-> now]))
  /\ UNCHANGED <<signed, txs, page, now>>

AnswerHistory(r) ==
  /\ At(r, "answering")
  /\ GotoWith(r, IdleReq) /\ UNCHANGED <<signed, txs, page, now>>

-----------------------------------------------------------------------------
(* The chain and the clock *)

Execute(i) ==
  /\ txs[i].state = "sent"
  /\ txs' = [txs EXCEPT ![i].state = "done"]
  /\ signed' = [price |-> txs[i].price, source |-> txs[i].source]
  /\ UNCHANGED <<kv_vars, req, page, now>>

Tick ==
  /\ now < MaxTime /\ now' = now + 1
  /\ store' = [store EXCEPT ![hist] =
                 IF @ # NoEntry /\ now' >= @.born + Hour THEN NoEntry ELSE @]
  /\ UNCHANGED <<todo, doc, signed, txs, req, page>>

StoreActs(r) == KvStep(r) /\ UNCHANGED <<signed, txs, req, page, now>>

-----------------------------------------------------------------------------
DeskInit == signed = NoPrice /\ txs = <<>> /\ page = 0 /\ now = 0

Init == KvInit /\ req = [r \in Requests |-> IdleReq] /\ DeskInit

SyncStep(r) ==
  Sync(r) \/ ReadLastSource(r) \/ PostDecision(r) \/ recordHistory(r)

AdminStep(r) ==
  \/ Crash(r) \/ Restore(r) \/ AnswerRefused(r) \/ AddDemoPoint(r)
  \/ \E price \in Typed : PostTyped(r, price, "demo") \/ PostTyped(r, price, "market")

HistoryStep(r) == ReadCached(r) \/ ReadPoints(r) \/ Compose(r) \/ AnswerHistory(r)

Next ==
  \/ \E r \in Requests :
       SyncStep(r) \/ Confirmed(r) \/ AdminStep(r) \/ HistoryStep(r) \/ StoreActs(r)
  \/ PageRefetches
  \/ \E i \in DOMAIN txs : Execute(i)
  \/ Tick

Spec == Init /\ [][Next]_vars

(* The signer alone, from the sources to its decision. *)
DecideNext == \E r \in Requests : Sync(r) \/ ReadLastSource(r) \/ PostDecision(r)
DecideSpec == Init /\ [][DecideNext]_vars

-----------------------------------------------------------------------------
(* Properties *)

Deciding == {r \in Requests : req[r].at = "decided"}
Posting  == {r \in Deciding : req[r].decision.action = "post"}
Usable(r) == candidates(req[r].reading)
Used(r)   == {req[r].decision.used[k] : k \in DOMAIN req[r].decision.used}
Near(a, b) == 40000 * Apart(a, b) < (2 * AgreementBps + 1) * (a + b)

(* No single source moves the collateral price: whichever of two or more used   *)
(* sources lies, the posted price stays within the limit of another one.        *)
OneLiarBounded ==
  \A r \in Posting : Cardinality(Used(r)) >= 2 =>
    \A liar \in Used(r) : \E honest \in Used(r) \ {liar} :
      Near(req[r].decision.priceE6, PriceScale * Usable(r)[honest].price)

(* The signer does not go dark without a reason: when no gate is shut it posts   *)
(* exactly when two sources agree or one source is all there is, which may be the *)
(* issuer's, but also Pyth (see PythNeverAlone).                               *)
PostsWhenTwoAgree ==
  \A r \in Deciding : ~Gated(req[r].reading, req[r].last) =>
    (r \in Posting <=>
       \/ Len(Usable(r)) = 1
       \/ \E i, j \in DOMAIN Usable(r) :
            i # j /\ Near(Usable(r)[i].price, Usable(r)[j].price))

(* What the signer decides.                                                     *)
DecisionsHold == OneLiarBounded /\ PostsWhenTwoAgree

(* "Pyth can stand in for a down issuer API, but never price collateral on its    *)
(* own" (signer.ts:131).  It does not hold: with the issuer down and Jupiter thin,  *)
(* Pyth is the one candidate left, and one candidate is posted (signer.ts:164).    *)
PythNeverAlone ==
  \A r \in Posting : {Usable(r)[i].name : i \in Used(r)} # {"pyth"}

(* "the signer skips a market while its latest source is Demo"                  *)
(* (parameters.md:114): only the admin replaces a demo price.  It does not hold:    *)
(* the source is read before the post, and a crash may be executed in between.     *)
DemoHolds ==
  [][\A i \in DOMAIN txs :
       signed.source = "demo" /\ txs[i].state = "sent" /\ txs'[i].state = "done"
         => txs[i].by = "admin"]_vars

(* "Keep one point per symbol per hour ... (90-day window)" (prices/sync:35).    *)
HistoryHourly ==
  LET series == ListOf(store[pricehist])
  IN  \A i, j \in DOMAIN series : i < j =>
        series[j].t - series[i].t \in Hour..Window

(* The chart shows only what was on chain: every point kept is a price that was  *)
(* executed, to the cent if the cron kept it, whatever timed out.               *)
Shown(key, price) == IF key = pricehist THEN ToCents(price) ELSE price
HistoryWasPosted ==
  \A key \in {pricehist, pricedemo} : \A i \in DOMAIN ListOf(store[key]) :
    \E k \in DOMAIN txs :
      txs[k].state = "done" /\ store[key][i].price = Shown(key, txs[k].price)
=============================================================================
