-------------------------------- MODULE MCRaces --------------------------------
(***************************************************************************)
(* Two requests at a time, for TLC, at each of the routes over the store: cards, *)
(* the shop, bank accounts, payouts, the faucet and the price desk, with stops   *)
(* and time-outs.  `scene` is the route whose requests run: no key and no other  *)
(* state of one is read or written by another.                                 *)
(***************************************************************************)
EXTENDS Cards, TLC

CONSTANTS Scenes, Wallets, Unknown

VARIABLES
  scene,
  sheet, payments, accounts, opened, mints,   \* Shop
  ids, added, forgotten,                  \* BankAccounts
  bankSheet, quotes, transfers,           \* Payouts
  claims, ata,                            \* Faucet
  signed, posts, shown,                   \* PriceDesk
  now                                     \* of Payouts, Faucet and PriceDesk

cards_own    == <<issued, chain_vars>>
shop_own     == <<sheet, payments, accounts, opened, mints>>
accounts_own == <<ids, added, forgotten>>
payouts_own  == <<bankSheet, quotes, transfers>>
faucet_own   == <<claims, ata>>
desk_own     == <<signed, posts, shown>>
races_vars == <<vars, scene, shop_own, accounts_own, payouts_own, faucet_own, desk_own, now>>

(* A rate of cashback is in units of a half, and a purchase passes no cap.       *)
OneTier == [t \in {"standard"} |-> [top |-> 2, base |-> 1, cap |-> 2]]

-----------------------------------------------------------------------------
(* The price of the stock may double.                                          *)
Stock == "stock" :> [kind |-> "stock", price |-> 0, least |-> 1]
Shop == INSTANCE Shop WITH
  Sigs <- {1}, Symbols <- {"stock"}, Items <- Stock, StockPrices <- {1, 2},
  Amounts <- {2}, Openable <- Wallets \X {"stock"}, Unit <- 2, MinPaid <- 2, MaxMints <- 2,
  Repeats <- TRUE, Expires <- TRUE

(* At most two accounts. *)
Accounts == INSTANCE BankAccounts WITH
  MaxAccounts <- 2, Ids <- 1..3, issued <- ids, removed <- forgotten

(* The least payout is two cents and the purpose is asked above two.             *)
Bank == INSTANCE Payouts WITH
  Sigs <- {1}, QuoteIds <- {1, 2}, Cents <- {1, 2, 3}, MinEurCents <- 2,
  PurposeAbove <- 2, MinFee <- 1, FeeBps <- 50, RateUnit <- 2, Rates <- {1},
  QuoteTtl <- 2, MaxTime <- 0, ByHand <- TRUE, Timeouts <- FALSE, Stops <- FALSE,
  page <- bankSheet

(* A day is two units of time and the store keeps a state for seven. *)
Faucet == INSTANCE Faucet WITH
  Sigs <- {1, 2}, FirstClaim <- 100, Daily <- 10, Day <- 2, Ttl <- 7, MaxTime <- 3,
  txs <- claims

Reading == [primary |-> 1000, jupiter |-> 1000, liquidity |-> 100, stockAge |-> Unknown,
            pyth |-> 0, pythAge |-> 0, pythConf |-> 0, open |-> Unknown, halted |-> FALSE]
Desk == INSTANCE PriceDesk WITH
  AgreementBps <- 200, MinLiquidity <- 100, MaxStockAge <- 15, MaxPythAge <- 5,
  MaxPythConf <- 100, PriceScale <- 6, Insured <- 6000,
  Readings <- {Reading}, Typed <- {900}, Reference <- {<<>>},
  Cent <- 7, Hour <- 2, Window <- 3, MaxTime <- 1, MaxPosts <- 2,
  FetchFails <- TRUE, page <- shown, txs <- posts

ASSUME /\ Shop!ShopAssumption /\ Accounts!BankAccountsAssumption
       /\ Bank!PayoutsAssumption /\ Faucet!FaucetAssumption
       /\ Desk!DeskAssumption /\ Desk!SignerAssumption

AllKeys ==
  {card(o) : o \in Owners} \cup {txsOf(o) : o \in Owners}
    \cup {<<"pay", 1>>} \cup {<<"list", w>> : w \in Wallets}
    \cup {<<"bank">>, <<"payouts">>, <<"faucet">>, <<"pricehist">>, <<"pricedemo">>, <<"hist">>}
    \cup {<<"row", i>> : i \in 1..3} \cup {<<"quote", q>> : q \in {1, 2}}

-----------------------------------------------------------------------------
RacesInit ==
  /\ scene \in Scenes
  /\ Init
  /\ sheet = [w \in Wallets |-> Shop!ReadySheet]
  /\ payments = [s \in {1} |-> Shop!Unsent]
  /\ accounts = {} /\ opened = {} /\ mints = EmptyBag
  /\ Accounts!AccountsInit /\ Bank!PayoutsInit /\ Faucet!FaucetInit /\ Desk!DeskInit

CardsStep ==
  /\ scene = "cards" /\ Next
  /\ UNCHANGED <<scene, shop_own, accounts_own, payouts_own, faucet_own, desk_own, now>>
ShopStep ==
  /\ scene = "shop" /\ Shop!Next
  /\ UNCHANGED <<scene, cards_own, accounts_own, payouts_own, faucet_own, desk_own, now>>
AccountsStep ==
  /\ scene = "accounts" /\ Accounts!Next
  /\ UNCHANGED <<scene, cards_own, shop_own, payouts_own, faucet_own, desk_own, now>>
PayoutsStep ==
  /\ scene = "payouts" /\ Bank!Next
  /\ UNCHANGED <<scene, cards_own, shop_own, accounts_own, faucet_own, desk_own>>
FaucetStep ==
  /\ scene = "faucet" /\ Faucet!Next
  /\ UNCHANGED <<scene, cards_own, shop_own, accounts_own, payouts_own, desk_own>>
DeskStep ==
  /\ scene = "desk" /\ Desk!Next
  /\ UNCHANGED <<scene, cards_own, shop_own, accounts_own, payouts_own, faucet_own>>

RacesNext ==
  \/ CardsStep \/ ShopStep \/ AccountsStep \/ PayoutsStep \/ FaucetStep \/ DeskStep
RacesSpec == RacesInit /\ [][RacesNext]_races_vars

Symmetry == Permutations(Requests)

-----------------------------------------------------------------------------
(* Properties, beside those of Cards *)

(* Whoever else writes: a record that says money moved is right.  What the shop  *)
(* minted was paid for, the transfer behind a payout moved what its quote asked   *)
(* for, and a price on the chart was the price on chain.                        *)
RecordsBacked ==
  /\ Shop!MintsPaid /\ Bank!PayoutsBacked
  /\ Desk!HistoryWasPosted /\ Desk!HistoryHourly

(* A forgotten IBAN stays forgotten, whatever other requests write back, and the *)
(* wallet never sees more accounts than it may have (BankAccounts).              *)
ForgottenForGood == Accounts!ForgottenForGood /\ Accounts!AtMostMax

(* The faucet refuses only a wallet that claimed within the day (Faucet).       *)
RefusedWithinDay == Faucet!RefusedWithinDay
=============================================================================
