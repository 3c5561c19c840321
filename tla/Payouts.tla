------------------------------- MODULE Payouts --------------------------------
(***************************************************************************)
(* Sending to a bank: BankSheet quotes, signs one transaction and reports it   *)
(* (app/bank/page.tsx); quote() and confirm() of payout/mock.ts record the     *)
(* payout, over KvStore.  The bank accounts themselves are in BankAccounts.    *)
(*                                                                         *)
(* A request runs from one await to the next, as in Cards.  One wallet.        *)
(***************************************************************************)
EXTENDS KvStore, FiniteSets

CONSTANTS
  Requests,       \* requests being served at one time
  Sigs,           \* the signatures transfers will have
  QuoteIds,       \* the ids randomUUID will give to quotes
  Cents,          \* what the wallet may ask to receive, in EUR cents
  MinEurCents,    \* 1_000
  PurposeAbove,   \* 1_000_000
  MinFee,         \* 100
  FeeBps,         \* 50, 25 or 0 of 10_000
  RateUnit,       \* 10_000: a rate is EUR per RateUnit USD
  Rates,          \* the ECB rates that may be in force
  QuoteTtl,       \* 120 s: how long the store has it
  MaxList,        \* 100
  MaxTime,        \* bound: how late it may get
  ByHand,         \* whether requests are also posted by hand
  Timeouts,       \* whether a confirmation may time out
  Stops           \* whether a server process may stop

quote(q) == <<"quote", q>>
payouts  == <<"payouts">>

PayoutsAssumption ==
  /\ Clients = Requests
  /\ {payouts} \cup {quote(q) : q \in QuoteIds} \subseteq Keys
  /\ Cents \subseteq Nat /\ Rates \subseteq Nat \ {0}
  /\ MinEurCents \in Nat \ {0} /\ MinFee \in 0 .. MinEurCents
  /\ FeeBps \in 0 .. 9999 /\ RateUnit \in Nat \ {0} /\ MaxList \in Nat

VARIABLES
  req,        \* by request, what it is doing and its local variables
  page,       \* the BankSheet
  quotes,     \* by id, the quote as it was made
  transfers,  \* by signature, the USDC transfer to the payout address
  now         \* time, in units of 60 s

vars == <<kv_vars, req, page, quotes, transfers, now>>

IdleReq   == [at |-> "idle"]
ReadyPage == [at |-> "ready"]
Unsent    == [state |-> "unsent"]
NoQuote   == [cents |-> 0]

At(r, place) == req[r].at = place /\ Settled(r)
Goto(r, state) == req' = [req EXCEPT ![r] = state]
GotoWith(r, state) == Goto(r, state) /\ UNCHANGED kv_vars
Moved(r, place) == [req[r] EXCEPT !.at = place]
Answer(r) == GotoWith(r, IdleReq)

-----------------------------------------------------------------------------
(* POST /api/payouts/quote.  Amounts in USDC are in 1 / RateUnit cents.        *)

FloorDiv(a, b) == a \div b
CeilDiv(a, b)  == (a + b - 1) \div b
Larger(a, b)   == IF a > b THEN a ELSE b

stockcardFeeCents(cents) ==
  IF FeeBps = 0 THEN 0 ELSE Larger(MinFee, (cents * FeeBps + 5000) \div 10000)
eurToUsdc6(cents, rate) == CeilDiv(cents * RateUnit, rate)

QuoteOf(cents, rate) ==
  [cents |-> cents, usdc |-> eurToUsdc6(cents, rate), rate |-> rate,
   receive |-> cents - stockcardFeeCents(cents), born |-> now]

Quotable(cents) == cents >= MinEurCents

(* confirm() of the page starts with a quote of its own. *)
PageQuotes(r, q, cents) ==
  /\ page = ReadyPage /\ At(r, "idle")
  /\ quotes[q] = NoQuote
  /\ Quotable(cents)
  /\ \E rate \in Rates :
       /\ quotes' = [quotes EXCEPT ![q] = QuoteOf(cents, rate)]
       /\ Goto(r, [at |-> "quoted", quote |-> q])
       /\ Await(r, kvSet(quote(q), QuoteOf(cents, rate)))
  /\ page' = [at |-> "quoting"]
  /\ UNCHANGED <<transfers, now>>

AnswerQuote(r) ==
  /\ At(r, "quoted")
  /\ Answer(r)
  /\ page' = [at |-> "signing", quote |-> req[r].quote]
  /\ UNCHANGED <<quotes, transfers, now>>

-----------------------------------------------------------------------------
(* The page signs and sends, waits for the confirmation, and reports.         *)

PageSends(s) ==
  /\ page.at = "signing" /\ transfers[s] = Unsent
  /\ transfers' = [transfers EXCEPT ![s] =
                     [state |-> "sent", usdc |-> quotes[page.quote].usdc]]
  /\ page' = [at |-> "confirming", quote |-> page.quote, sig |-> s]
  /\ UNCHANGED <<kv_vars, req, quotes, now>>

PageHurries ==
  /\ page.at = "confirming"
  /\ page' = [page EXCEPT !.at = "posting"]
  /\ UNCHANGED <<kv_vars, req, quotes, transfers, now>>

(* An error in the confirmation's result is not read. *)
PageConfirmed ==
  /\ page.at = "confirming" /\ transfers[page.sig].state # "sent"
  /\ page' = [page EXCEPT !.at = "posting"]
  /\ UNCHANGED <<kv_vars, req, quotes, transfers, now>>

(* The handler's own first read may find no quote: "That quote expired."        *)
(* claimed is the eurCents of the body, which the page leaves out.              *)
Confirm(r, q, s, claimed, purpose) ==
  /\ At(r, "idle")
  /\ IF claimed > PurposeAbove /\ ~purpose
     THEN Answer(r)
     ELSE IF kvGet(quote(q)) = NoEntry
          THEN GotoWith(r, [at |-> "expired", sig |-> s])
          ELSE GotoWith(r, [at |-> "looking", quote |-> q, sig |-> s, purpose |-> purpose])

PagePosts(r) ==
  /\ page.at = "posting"
  /\ Confirm(r, page.quote, page.sig, 0, quotes[page.quote].cents > PurposeAbove)
  /\ page' = [page EXCEPT !.at = "waiting"]
  /\ UNCHANGED <<quotes, transfers, now>>

PostByHand(r, q, s, claimed, purpose) ==
  /\ ByHand /\ transfers[s] # Unsent
  /\ Confirm(r, q, s, claimed, purpose)
  /\ UNCHANGED <<page, quotes, transfers, now>>

(* The answer came, the wallet refused, a request threw, the sheet was closed. *)
PageEnds ==
  /\ \/ page.at \in {"signing", "waiting"}
     \/ page.at = "confirming" /\ Timeouts
     \/ page # ReadyPage /\ Stops
  /\ page' = ReadyPage
  /\ UNCHANGED <<kv_vars, req, quotes, transfers, now>>

-----------------------------------------------------------------------------
(* POST /api/payouts: confirm() *)

AnswerExpired(r) ==
  /\ At(r, "expired")
  /\ Answer(r)
  /\ UNCHANGED <<page, quotes, transfers, now>>

NeverFound(s)    == FALSE
AlreadyListed(s) ==
  \E i \in DOMAIN kvListRead(payouts, MaxList) : kvListRead(payouts, MaxList)[i].sig = s

LookUp(r) ==
  /\ At(r, "looking")
  /\ IF AlreadyListed(req[r].sig) THEN Answer(r) ELSE GotoWith(r, Moved(r, "verifying"))
  /\ UNCHANGED <<page, quotes, transfers, now>>

verifyUsdcTransfer(s, usdc) == transfers[s].state = "ok" /\ transfers[s].usdc >= usdc

Verify(r) ==
  /\ At(r, "verifying")
  /\ IF verifyUsdcTransfer(req[r].sig, quotes[req[r].quote].usdc)
     THEN GotoWith(r, Moved(r, "recording"))
     ELSE Answer(r)
  /\ UNCHANGED <<page, quotes, transfers, now>>

Record(r) ==
  /\ At(r, "recording")
  /\ Goto(r, Moved(r, "recorded"))
  /\ Await(r, kvListPush(payouts, [sig |-> req[r].sig, quote |-> req[r].quote,
                                   purpose |-> req[r].purpose], MaxList))
  /\ UNCHANGED <<page, quotes, transfers, now>>

DropQuote(r) ==
  /\ At(r, "recorded")
  /\ Goto(r, IdleReq)
  /\ Await(r, kvSet(quote(req[r].quote), NoEntry))
  /\ UNCHANGED <<page, quotes, transfers, now>>

-----------------------------------------------------------------------------
(* The chain, time, and what may happen to a request. *)

ExecuteTransfer(s) ==
  /\ transfers[s].state = "sent"
  /\ \E result \in {"ok", "failed"} :
       transfers' = [transfers EXCEPT ![s].state = result]
  /\ UNCHANGED <<kv_vars, req, page, quotes, now>>

Outlived(q, t) == store[quote(q)] # NoEntry /\ t >= store[quote(q)].born + QuoteTtl

Tick ==
  /\ now < MaxTime /\ now' = now + 1
  /\ store' = [k \in Keys |-> IF \E q \in QuoteIds : k = quote(q) /\ Outlived(q, now')
                              THEN NoEntry ELSE store[k]]
  /\ UNCHANGED <<todo, doc, req, page, quotes, transfers>>

Stop(r) ==
  /\ Stops /\ (req[r] # IdleReq \/ ~Settled(r))
  /\ Abandon(r) /\ Goto(r, IdleReq)
  /\ UNCHANGED <<page, quotes, transfers, now>>

StoreActs(r) == KvStep(r) /\ UNCHANGED <<req, page, quotes, transfers, now>>

-----------------------------------------------------------------------------
PayoutsInit ==
  /\ page = ReadyPage
  /\ quotes = [q \in QuoteIds |-> NoQuote]
  /\ transfers = [s \in Sigs |-> Unsent]
  /\ now = 0

Init == KvInit /\ req = [r \in Requests |-> IdleReq] /\ PayoutsInit

Handler(r) ==
  \/ AnswerQuote(r) \/ AnswerExpired(r) \/ LookUp(r) \/ Verify(r)
  \/ Record(r) \/ DropQuote(r) \/ StoreActs(r)

Page ==
  \/ \E r \in Requests, q \in QuoteIds, cents \in Cents : PageQuotes(r, q, cents)
  \/ \E s \in Sigs : PageSends(s)
  \/ PageConfirmed
  \/ \E r \in Requests : PagePosts(r)
  \/ PageEnds

Next ==
  \/ Page
  \/ \E r \in Requests :
       \/ Handler(r) \/ Stop(r)
       \/ \E q \in QuoteIds, s \in Sigs, claimed \in Cents, purpose \in BOOLEAN :
            PostByHand(r, q, s, claimed, purpose)
  \/ \E s \in Sigs : ExecuteTransfer(s)
  \/ Tick

Spec == Init /\ [][Next]_vars

-----------------------------------------------------------------------------
(* Properties *)

Feed == ListOf(store[payouts])
Booked(s) == Cardinality({i \in DOMAIN Feed : Feed[i].sig = s})

(* Every payout is backed by a transfer that succeeded and moved what its own   *)
(* quote asked for (spec.md:223), whatever quotes and signatures requests mix.  *)
PayoutsBacked ==
  \A i \in DOMAIN Feed :
    LET p == Feed[i]
    IN  transfers[p.sig].state = "ok" /\ transfers[p.sig].usdc >= quotes[p.quote].usdc

(* "Idempotent by `transferSig`" (data-model.md:108): one payout a transfer.     *)
OnePayoutPerTransfer == \A s \in Sigs : Booked(s) <= 1

(* A transfer the page made and the chain executed becomes a payout             *)
(* (spec.md:141).                                                               *)
TransferPaidOut ==
  \A s \in Sigs : transfers[s].state = "ok" ~> Booked(s) >= 1
=============================================================================
