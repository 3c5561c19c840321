------------------------------- MODULE MCRoutes -------------------------------
(***************************************************************************)
(* Small instances, for TLC, of the routes that share one store, with one       *)
(* request at a time: the shop, cards, bank accounts, payouts, the faucet,      *)
(* alerts and the waiting list.                                               *)
(*                                                                         *)
(* `scene` is the route whose requests run.  No key and no other state of one  *)
(* route is read or written by another, so that what several routes do at one  *)
(* time is what each of them does alone: a run takes the scenes one by one.    *)
(* In "orders", "transfers" and "warnings" nothing fails, and what must happen   *)
(* in the end is asked.                                                        *)
(***************************************************************************)
EXTENDS Shop, TLC

CONSTANTS Scenes, NoLoan, Nobody, NoRecord

VARIABLES
  scene,
  issued, balance, allowance, inflight, executed, deposits,  \* Cards
  ids, added, forgotten,                                     \* BankAccounts
  bankSheet, quotes, transfers,                              \* Payouts
  claims, ata,                                               \* Faucet
  bands, endpoint, card, removed, pushed, stops,             \* Alerts
  records, refs, queue, rl, clock, told,                     \* Waitlist
  entries, codes, places, signups, shownTo, file, timer,                    \* WaitlistMemory
  now                                                        \* of Payouts and Faucet

shop_own     == <<sheet, payments, accounts, opened, mints>>
cards_own    == <<issued, balance, allowance, inflight, executed, deposits>>
accounts_own == <<ids, added, forgotten>>
payouts_own  == <<bankSheet, quotes, transfers>>
faucet_own   == <<claims, ata>>
alerts_own   == <<bands, endpoint, card, removed, pushed, stops>>
list_own     == <<records, refs, queue, rl, clock, told>>
memory_own   == <<entries, codes, places, signups, shownTo, file, timer>>

routes_vars == <<vars, scene, cards_own, accounts_own, payouts_own, faucet_own,
                 alerts_own, list_own, memory_own, now>>

(* A mirrored item costs two, the price of the stock may double, and an art      *)
(* note is sold two at least.                                                   *)
Watch     == "watch" :> [kind |-> "item", price |-> 2, least |-> 1]
Stock      == "stock" :> [kind |-> "stock", price |-> 0, least |-> 1]
Catalogue2 == Watch @@ Stock
StockAccount == Wallets \X {"stock"}

Orderly == INSTANCE Shop WITH
  Amounts <- {2}, Openable <- {}, Timeouts <- FALSE, Stops <- FALSE

-----------------------------------------------------------------------------
(* A rate of cashback is in units of a half, purchases cost one or two, and the *)
(* cap of the month is passed by the second one.                                *)
Cards == INSTANCE Cards WITH
  Backend <- "gist", Owners <- {"owner"}, TxIds <- {1, 2, 3},
  Amounts <- {1}, RateUnit <- 2, TokenUnit <- 1,
  Rates <- [t \in {"standard"} |-> [top |-> 2, base |-> 1, cap |-> 2]],
  Patches <- [status : {"active", "frozen"}, tier : {"standard"}],
  Prices <- {1}, MaxUsdc <- 1,
  MaxDeposits <- 2, WalletMoves <- TRUE, Timeouts <- FALSE, Stops <- FALSE

(* At most two accounts. *)
Accounts == INSTANCE BankAccounts WITH
  Backend <- "gist", MaxAccounts <- 2,
  Ids <- 1..3, Stops <- FALSE, issued <- ids, removed <- forgotten

(* A rate is in halves of a euro, the least payout is two cents and the purpose *)
(* is asked above two.                                                          *)
Bank == INSTANCE Payouts WITH
  Sigs <- {1}, QuoteIds <- {1, 2}, Cents <- {1, 2, 3},
  MinEurCents <- 2, PurposeAbove <- 2, MinFee <- 1, FeeBps <- 50, RateUnit <- 2,
  Rates <- {1}, QuoteTtl <- 2, MaxTime <- 2, ByHand <- TRUE, page <- bankSheet
SteadyBank == INSTANCE Payouts WITH
  Sigs <- {1, 2}, QuoteIds <- {1, 2}, Cents <- {1, 2, 3},
  MinEurCents <- 2, PurposeAbove <- 2, MinFee <- 1, FeeBps <- 50, RateUnit <- 2,
  Rates <- {1, 3}, QuoteTtl <- 2, MaxTime <- 0, ByHand <- FALSE,
  Timeouts <- FALSE, Stops <- FALSE, page <- bankSheet

(* A day is two units of time and the store keeps a state for seven. *)
Faucet == INSTANCE Faucet WITH
  Sigs <- {1, 2, 3}, FirstClaim <- 100, Daily <- 10, Day <- 2, Ttl <- 7,
  MaxTime <- 9, Timeouts <- FALSE, Stops <- FALSE,
  txs <- claims

Alerts == INSTANCE Alerts WITH
  Endpoints <- {"phone", "laptop"}, Registered <- {}, Bands <- {2, 3},
  MAX_DEVICES <- 2, MaxMoves <- 3, MaxStops <- 0, Fails <- FALSE
Warnings == INSTANCE Alerts WITH
  Endpoints <- {"phone"}, Registered <- {"phone"}, Bands <- {2, 3},
  MAX_DEVICES <- 2, MaxMoves <- 3, MaxStops <- 1, Fails <- FALSE

(* Two spots for a friend, and two sign-ups an hour. *)
List == INSTANCE Waitlist WITH
  Emails <- {"ann", "bob", "eve"}, MaxSignups <- 3, SPOTS <- 1,
  RATE_LIMIT_PER_HOUR <- 3, Stops <- FALSE

Memory == INSTANCE WaitlistMemory WITH
  Emails <- {"ann", "bob", "eve"}, MaxSignups <- 3, SPOTS <- 1,
  records <- entries, queue <- places, told <- shownTo

ASSUME /\ Orderly!ShopAssumption /\ SteadyBank!PayoutsAssumption
       /\ Warnings!AlertsAssumption /\ Cards!CardsAssumption /\ Accounts!BankAccountsAssumption
       /\ Bank!PayoutsAssumption /\ Faucet!FaucetAssumption
       /\ Alerts!AlertsAssumption /\ Memory!WaitlistAssumption /\ List!ListAssumption

AllKeys ==
  {pay(s) : s \in Sigs} \cup {list(w) : w \in Wallets}
    \cup {<<"card", "owner">>, <<"txs", "owner">>, <<"bank">>, <<"payouts">>}
    \cup {<<"row", i>> : i \in 1..3} \cup {<<"quote", q>> : q \in {1, 2}}
    \cup {<<"faucet">>, <<"push">>, <<"alert">>}

-----------------------------------------------------------------------------
RoutesInit ==
  /\ scene \in Scenes
  /\ store = IF scene = "warnings" THEN Warnings!Registry ELSE Alerts!Registry
  /\ todo = [r \in Clients |-> <<>>] /\ doc = [r \in Clients |-> NoDoc]
  /\ req = [r \in Requests |-> IdleReq]
  /\ sheet = [w \in Wallets |-> ReadySheet]
  /\ payments = [s \in Sigs |-> Unsent]
  /\ accounts = {} /\ opened = {} /\ mints = EmptyBag
  /\ Cards!CardsInit /\ Accounts!AccountsInit /\ SteadyBank!PayoutsInit
  /\ Faucet!FaucetInit
  /\ IF scene = "warnings" THEN Warnings!AlertsInit ELSE Alerts!AlertsInit
  /\ List!ListInit /\ Memory!Init

NoWaitlist == UNCHANGED <<list_own, memory_own>>

ShopStep ==
  /\ \/ scene = "shop" /\ Next
     \/ scene = "orders" /\ Orderly!Next
  /\ UNCHANGED <<scene, cards_own, accounts_own, payouts_own, faucet_own, alerts_own, now>>
  /\ NoWaitlist
CardsStep ==
  /\ scene = "cards" /\ Cards!Next
  /\ UNCHANGED <<scene, shop_own, accounts_own, payouts_own, faucet_own, alerts_own, now>>
  /\ NoWaitlist
AccountsStep ==
  /\ scene = "accounts" /\ Accounts!Next
  /\ UNCHANGED <<scene, shop_own, cards_own, payouts_own, faucet_own, alerts_own, now>>
  /\ NoWaitlist
PayoutsStep ==
  /\ \/ scene = "payouts" /\ Bank!Next
     \/ scene = "transfers" /\ SteadyBank!Next
  /\ UNCHANGED <<scene, shop_own, cards_own, accounts_own, faucet_own, alerts_own>>
  /\ NoWaitlist
FaucetStep ==
  /\ scene = "faucet" /\ Faucet!Next
  /\ UNCHANGED <<scene, shop_own, cards_own, accounts_own, payouts_own, alerts_own>>
  /\ NoWaitlist
AlertsStep ==
  /\ \/ scene = "alerts" /\ Alerts!Next
     \/ scene = "warnings" /\ Warnings!CheckNext
  /\ UNCHANGED <<scene, shop_own, cards_own, accounts_own, payouts_own, faucet_own, now>>
  /\ NoWaitlist
WaitlistStep ==
  /\ \/ scene = "waitlist" /\ List!Next /\ UNCHANGED memory_own
     \/ scene = "memory" /\ Memory!Next /\ UNCHANGED <<req, list_own>>
  /\ UNCHANGED <<scene, kv_vars, shop_own, cards_own, accounts_own, payouts_own,
                 faucet_own, alerts_own, now>>

RoutesNext ==
  \/ ShopStep \/ CardsStep \/ AccountsStep \/ PayoutsStep
  \/ FaucetStep \/ AlertsStep \/ WaitlistStep

payouts_vars == <<kv_vars, req, payouts_own, now>>
alerts_vars  == <<kv_vars, req, alerts_own>>

(* What each component justifies, in the scene that runs. *)
RoutesFairness ==
  /\ \A r \in Requests :
       /\ WF_vars(scene = "orders" /\ Orderly!Buy(r))
       /\ WF_payouts_vars(scene = "transfers" /\ SteadyBank!Handler(r))
       /\ WF_alerts_vars(scene = "warnings" /\ Warnings!CheckSteps(r))
  /\ \A s \in Sigs : WF_vars(scene = "orders" /\ Orderly!ExecutePayment(s))
  /\ \A s \in {1, 2} : WF_payouts_vars(scene = "transfers" /\ SteadyBank!ExecuteTransfer(s))
  /\ WF_payouts_vars(scene = "transfers" /\ SteadyBank!PageConfirmed)
  /\ WF_payouts_vars(scene = "transfers" /\ \E r \in Requests : SteadyBank!PagePosts(r))
RoutesSpec == RoutesInit /\ [][RoutesNext]_routes_vars /\ RoutesFairness

-----------------------------------------------------------------------------
(* Properties *)

(* Requests handled one at a time do nothing twice, however often they are      *)
(* repeated and wherever the page or, in the payouts, the server stops: one     *)
(* cashback for a purchase ("idempotent by txId", process/route.ts:2), one      *)
(* payout for a transfer (data-model.md:108), one daily claim a day             *)
(* (parameters.md:328), and no second alert for a position that did not get     *)
(* worse (spec.md:60).  The shop's own promise is MintsOnce.                   *)
NothingTwice ==
  /\ Cards!CashbackOnce /\ Bank!OnePayoutPerTransfer /\ Faucet!OncePerDay
  /\ scene = "alerts" => Alerts!EntersWorse

(* Handled one at a time, requests lose nothing from the store: not a purchase  *)
(* of the feed, not a bank account, not a device whose card says alerts are on   *)
(* nor the removal of one, not a referral or a place in the waiting list, and    *)
(* not what its file had when the server starts again.                         *)
NothingMissing ==
  /\ Cards!FeedComplete /\ Accounts!NothingLost
  /\ scene = "alerts" => Alerts!CardTrue /\ Alerts!RemovedStaysOut
  /\ scene = "waitlist" => List!CreditedPerFriend /\ List!GivenCodeWorks
  /\ scene = "memory" => Memory!Whole

(* The list on Redis is the list in memory, one request at a time (Waitlist).   *)
ImplementsMemory == List!ImplementsMemory

(* A stored order ends, and a transfer that the chain executed becomes a payout,  *)
(* when nothing stops or times out (Shop, Payouts).                             *)
OrderEnds == scene = "orders" => Orderly!PaidOrderEnds
TransferPaidOut == scene = "transfers" => SteadyBank!TransferPaidOut

(* The owner is told of a band that lasts, and it is the band on record (Alerts). *)
Warned == scene = "warnings" => Warnings!Warned /\ Warnings!RecordFollows
=============================================================================
