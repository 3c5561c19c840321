------------------------------- MODULE MCClients -------------------------------
(***************************************************************************)
(* Small instances, for TLC, of who uses the program and of what runs in the    *)
(* browser: the owner's sheets, the savings page and the operator of the devnet, *)
(* each on a program of its own size; the credit calculator, the home, bank, card *)
(* and assets pages, and the IBAN field, each with a state of its own.  `scene` is *)
(* the one of the run.                                                         *)
(*                                                                         *)
(* 100% is 20 basis points, a year one second, and no mint is paused.            *)
(***************************************************************************)
EXTENDS BorrowerApp, Sequences, SequencesExt, TLC

CONSTANTS Scenes, Unread, Runs, NoData, NoCard, NoCashback, None

VARIABLES
  scene,
  seen, tab, amount, toast, acts,     \* SaverApp
  halted, cache, job, listed,         \* AdminDesk
  type, value, borrowed,                                               \* Calculator
  held, cash, price, refresh, portfolio, wanted, got, extras, moves,   \* HomePage
  saved, rate, debt, limit, usdc, paidTo, txs, booked, known, form, payout, \* BankPage
  data, fresh, flight, card, feed, allowance, approvals, month, changes,
  screen, busy, req, notice, told, taps,                               \* CardPage
  curves, stopped, partner, updates, loaded, filter, selSymbol, days, activeIdx,
  series, chips, snapshot,                                             \* AssetsPage
  intended, typed, layout, slips                                       \* Iban

saver_own    == <<seen, tab, amount, toast, acts>>
desk_own     == <<halted, cache, job, listed>>
quote_own    == <<type, value, borrowed>>
home_own     == <<held, cash, price, refresh, portfolio, wanted, got, extras, moves>>
bank_own     == <<saved, rate, debt, limit, usdc, paidTo, txs, booked, known, form, payout>>
card_own     == <<data, fresh, flight, card, feed, allowance, approvals, month, changes,
                  screen, busy, req, notice, told, taps>>
assets_own   == <<curves, stopped, partner, updates, loaded, filter, selSymbol, days,
                  activeIdx, series, chips, snapshot>>
iban_own     == <<intended, typed, layout, slips>>
pages_own    == <<quote_own, home_own, bank_own, card_own, assets_own, iban_own>>
clients_vars == <<all_vars, scene, saver_own, desk_own, pages_own>>

-----------------------------------------------------------------------------
Slot(ltv, apr) == [max_ltv_bps |-> ltv, apr_bps |-> apr]
Risk(max_ltv, liq, haircut, slots, closed_haircut) ==
  [max_ltv_bps |-> max_ltv, liq_threshold_bps |-> liq, liq_bonus_bps |-> 1,
   haircut_bps |-> haircut, apr_bands |-> slots \o <<Slot(0, 0)>>,
   max_price_age_secs |-> 9, closed_market_age_secs |-> 9,
   closed_haircut_bps |-> closed_haircut]
Cheap == <<Slot(4, 1), Slot(10, 2)>>
Dear  == <<Slot(1, 10), Slot(17, 10)>>

(* The borrower's program: four units make a token, and prices have remainders. *)
Listed  == Risk(10, 13, 3, Cheap, 8)
OneRisk == {Listed}
Lower   == {<<10, -6>>}
Calm    == {[blocked |-> FALSE, frozen |-> FALSE, multiplier |-> 1]}
Rows    == [m \in Markets |->
  [assetClass |-> "equity", maxLtvBps |-> 10, liqThresholdBps |-> 13, haircutBps |-> 3,
   multiplierMicro |-> 1]]

(* A year at 50% on most of the pool makes a share worth 1.2 units. *)
Saver == INSTANCE SaverApp WITH
  Savers <- {"s1", "s2"}, Me <- "s1", TOKEN_UNIT <- 1, U64Max <- 200,
  RiskParams <- {Risk(17, 18, 0, Dear, 0)}, FirstRisk <- Risk(17, 18, 0, Dear, 0),
  FirstPrice <- 10, PostedPrices <- {},
  Amounts <- {15}, SavingsAmounts <- {5}, TokenAmounts <- {4}, TokenSupply <- 4,
  MaxTime <- 1, Funding <- 10, MaxActs <- 3, answer <- toast

Desk == INSTANCE AdminDesk WITH
  Savers <- {"s1"}, TOKEN_UNIT <- 1, U64Max <- 1000,
  RiskParams <- {Risk(10, 13, 0, Cheap, 8)}, FirstRisk <- Risk(10, 13, 0, Cheap, 8),
  FirstPrice <- 7, PostedPrices <- {<<4, -6>>},
  Amounts <- {3}, SavingsAmounts <- {}, TokenAmounts <- {2}, TokenSupply <- 4,
  MaxTime <- 0, Funding <- 40, ListedLtv <- [m \in Markets |-> 10]

(* Calculator: a few values at the edges of the floors, zero and a negative      *)
(* number among them, and a year of 365 days.                                  *)
TypedValues == {-5, 0, 1, 3, 19, 401, 12345}
Quote == INSTANCE Calculator WITH
  Entries <- TypedValues, Claimed <- {"stocks"},
  BPS <- 10000, SECONDS_PER_YEAR <- 365, TOKEN_UNIT <- 1, U64Max <- 2000000000

(* HomePage: stocks may be lent half of, art a quarter. *)
HomeRows ==
  "stock" :> [assetClass |-> "equity", maxLtvBps |-> 10, liqThresholdBps |-> 13,
              haircutBps |-> 0, multiplierMicro |-> 1]
  @@ "art" :> [assetClass |-> "artNote", maxLtvBps |-> 5, liqThresholdBps |-> 8,
               haircutBps |-> 5, multiplierMicro |-> 1]
InBoth ==
  "stock" :> [wallet |-> 2, locked |-> 2, debt |-> 1]
  @@ "art" :> [wallet |-> 0, locked |-> 4, debt |-> 2]
Home == INSTANCE HomePage WITH
  MARKETS <- <<"stock", "art">>, Info <- HomeRows, Opening <- InBoth,
  Cash <- "usdc" :> 2 @@ "sol" :> 1, Prices <- {0, 2},
  Moves <- {"borrow", "repay", "price", "lock", "unlock"}, MaxMoves <- 1, Faults <- TRUE,
  TOKEN_UNIT <- 1

(* BankPage: 1000 cents are 1 USDC.  A payout with two accounts to choose from,   *)
(* one with two positions to borrow from, and one whose rate moves.              *)
UsdcAt(cents, e) == IF cents = 0 THEN 0 ELSE (cents \div 1000) + e - 1
Payout == INSTANCE BankPage WITH
  Accounts <- {"nl", "de"}, Assets <- <<"nvda">>, Cents <- {0, 2000},
  MinEurCents <- 1000, PurposeAbove <- 9000, UsdcFor <- UsdcAt, Rates <- {1},
  Limits <- {2}, MaxSends <- 1, Timeouts <- FALSE,
  seen <- known, job <- payout
Credit == INSTANCE BankPage WITH
  Accounts <- {"nl"}, Assets <- <<"nvda", "rolex">>, Cents <- {2000},
  MinEurCents <- 1000, PurposeAbove <- 1000, UsdcFor <- UsdcAt, Rates <- {1},
  Limits <- {1, 2}, MaxSends <- 1, Timeouts <- TRUE,
  seen <- known, job <- payout
Moving == INSTANCE BankPage WITH
  Accounts <- {"nl"}, Assets <- <<"nvda">>, Cents <- {2000},
  MinEurCents <- 1000, PurposeAbove <- 9000, UsdcFor <- UsdcAt, Rates <- {1, 2},
  Limits <- {2}, MaxSends <- 1, Timeouts <- FALSE,
  seen <- known, job <- payout

(* CardPage: a rate of 100% is 4 and one token costs one.                        *)
Card == INSTANCE CardPage WITH
  QueryKeys <- {"card", "card-txs"}, Requests <- {1, 2}, Amounts <- {4}, Limits <- {6},
  Rates <- [standard |-> [top |-> 2, base |-> 1, cap |-> 100]], RateUnit <- 4,
  Mints <- {"m1"}, FirstMint <- "m1", Prices <- [m \in {"m1"} |-> 1], Funds <- 10,
  MaxPurchases <- 1, MaxTaps <- 3, MaxMonths <- 2, Faults <- TRUE,
  toast <- notice

(* AssetsPage: a market of each of two classes; answers may have fewer points.    *)
Assets == INSTANCE AssetsPage WITH
  MARKETS <- <<"SPCX", "TIDE">>,
  Class <- [s \in {"SPCX", "TIDE"} |-> IF s = "TIDE" THEN "ArtNote" ELSE "Equity"],
  Ranges <- {7, 90}, DefaultDays <- 90, MaxPoints <- 3, Opening <- 2, Shrinks <- TRUE,
  Halts <- {"SPCX"}, PartnerDown <- TRUE, MaxWorld <- 1, Faults <- TRUE,
  feed <- curves, changes <- updates, halted <- stopped

(* Iban: the Dutch example of the specification, the German and the Belgian      *)
(* account of the tests.                                                       *)
Dutch == <<23, 21, 9, 1, 10, 11, 23, 10, 0, 4, 1, 7, 1, 6, 4, 3, 0, 0>>
German == <<13, 14, 8, 9, 3, 7, 0, 4, 0, 0, 4, 4, 0, 5, 3, 2, 0, 1, 3, 0, 0, 0>>
Belgian == <<11, 14, 6, 8, 5, 3, 9, 0, 0, 7, 5, 4, 7, 0, 3, 4>>
Field == INSTANCE Iban WITH Accounts <- {Dutch, German, Belgian}, MaxLayout <- 1

ASSUME /\ Saver!SaverAssumption /\ Saver!ListedAssumption /\ Desk!ListedAssumption
       /\ Home!HomeAssumption /\ Home!ClientAssumption
       /\ Payout!BankPageAssumption /\ Credit!BankPageAssumption /\ Moving!BankPageAssumption
       /\ Card!CardPageAssumption /\ Quote!CalculatorAssumption
       /\ Assets!AssetsAssumption /\ Field!AccountsAreText

-----------------------------------------------------------------------------
ClientsInit ==
  /\ scene \in Scenes
  /\ CASE scene = "borrower" -> ListedInit
       [] scene = "saver" -> Saver!ListedInit
       [] OTHER -> Desk!ListedInit
  /\ AppOpens /\ Saver!PageOpens /\ Desk!DeskOpens
  /\ Quote!Init /\ Home!Init /\ Card!Init /\ Field!Init
  /\ CASE scene = "credit" -> Credit!Init
       [] scene = "rates" -> Moving!Init
       [] OTHER -> Payout!Init
  /\ Assets!Init
  /\ scene # "home" => \A m \in DOMAIN price : price[m] = 2
  /\ scene \notin {"payout", "credit", "rates"} => usdc = 2 /\ form.source = "borrow"
  /\ ~paidTo                                       \* others may pay at once
  /\ scene # "field" => intended = Dutch

BorrowerStep ==
  /\ scene = "borrower" /\ (AppNext \/ OthersNext)
  /\ UNCHANGED <<scene, saver_own, desk_own, pages_own>>
SaverStep ==
  /\ scene = "saver" /\ (Saver!PageNext \/ Saver!OthersNext)
  /\ UNCHANGED <<scene, app_vars, desk_own, pages_own>>
DeskStep ==
  /\ scene = "desk" /\ Desk!DeskNext
  /\ UNCHANGED <<scene, app_vars, saver_own, pages_own>>

rest == <<all_vars, scene, saver_own, desk_own>>
CalculatorStep ==
  /\ scene = "calculator" /\ Quote!Next
  /\ UNCHANGED <<rest, home_own, bank_own, card_own, assets_own, iban_own>>
HomeStep ==
  /\ scene = "home" /\ Home!Next
  /\ UNCHANGED <<rest, quote_own, bank_own, card_own, assets_own, iban_own>>
BankStep ==
  /\ \/ scene = "payout" /\ Payout!Next
     \/ scene = "credit" /\ Credit!Next
     \/ scene = "rates" /\ Moving!Next
  /\ UNCHANGED <<rest, quote_own, home_own, card_own, assets_own, iban_own>>
CardStep ==
  /\ scene = "card" /\ Card!Next
  /\ UNCHANGED <<rest, quote_own, home_own, bank_own, assets_own, iban_own>>
AssetsStep ==
  /\ scene = "assets" /\ Assets!Next
  /\ UNCHANGED <<rest, quote_own, home_own, bank_own, card_own, iban_own>>
FieldStep ==
  /\ scene = "field" /\ Field!Next
  /\ UNCHANGED <<rest, quote_own, home_own, bank_own, card_own, assets_own>>

ClientsNext ==
  \/ BorrowerStep \/ SaverStep \/ DeskStep
  \/ CalculatorStep \/ HomeStep \/ BankStep \/ CardStep \/ AssetsStep \/ FieldStep
ClientsSpec == ClientsInit /\ [][ClientsNext]_clients_vars

-----------------------------------------------------------------------------
(* Properties *)

(* A saver who sees the pool as it is gets what was typed, never more; what is     *)
(* called instant is not refused, and Max leaves nothing behind (SaverApp).        *)
PaysWhatWasTyped ==
  Saver!PaysWhatWasTyped /\ Saver!InstantHolds /\ Saver!MaxLeavesNothing

(* A market is shown as halted only if no loan can be taken in it (AdminDesk).    *)
ChipIsTrue == scene = "desk" => Desk!ChipIsTrue

(* In a market found halted no loan can be taken (AdminDesk).                     *)
HaltStopsBorrowing == scene = "desk" => Desk!HaltStopsBorrowing

(* What the home page shows as available can be borrowed, and it announces each  *)
(* position anybody may liquidate (HomePage).                                   *)
HomeIsHonest == scene = "home" => Home!AvailableIsBorrowable /\ Home!RiskIsAnnounced

(* What the wallet owes follows what was sent, the account that gets it is the    *)
(* one that was shown, and Confirm is disabled for want of credit only when no    *)
(* position could carry the amount alone (BankPage).                             *)
DebtIsWhatWasSent ==
  /\ scene \in {"payout", "rates"} => Payout!DebtIsWhatWasSent
  /\ scene = "payout" => Payout!PaysWhoWasShown
  /\ scene = "rates" => Moving!PaysWhoWasShown
  /\ scene = "credit" => Credit!DisabledOnlyIfNoneFits

(* No answer from before a saved change is shown after it (CardPage).            *)
NoOldNews == Card!NoOldNews

(* No key, pointer or range of the chart takes its crosshair off the curve; what  *)
(* does is another row of the table (AssetsPage).                               *)
ChartKeepsToThePath == Assets!ChartKeepsToThePath
CrosshairOnThePath == scene = "assets" => Assets!CrosshairOnThePath

(* For an xStock the calculator shows an amount the program would lend; for cards,   *)
(* watches and art it does not, though the page says that the math is the same: the *)
(* whole line it shows is refused (Calculator).                                 *)
LentAsShown == scene = "calculator" => Quote!LentAsShown /\ Quote!HaircutLeftOut

(* One mistake at the keyboard never reaches the server as an account, and the   *)
(* account meant does however it is written (Iban).                             *)
SlipIsCaught == scene = "field" => Field!SlipIsCaught /\ Field!AsIntended
=============================================================================
