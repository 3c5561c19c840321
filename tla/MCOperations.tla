------------------------------ MODULE MCOperations -----------------------------
(***************************************************************************)
(* Small instances, for TLC, of the operator's scripts and of where prices      *)
(* come from: the seed of a devnet, the run of throwaway wallets, the price      *)
(* desk, the decision on any reading, the cache of Pyth's feeds, and what the    *)
(* sources answer.  `scene` is the one of the run.                              *)
(***************************************************************************)
EXTENDS PriceDesk, Integers, TLC

CONSTANTS
  Scenes, m1, NoMarket, NotPosted, None, Down,
  Syncs,                              \* the requests of PythFeeds
  MaxRuns,                            \* Seed
  BusyFaults                          \* what may fail in a busy market

VARIABLES
  scene,
  \* Stockcard
  paused, total_borrowed, total_shares, reserve, usdc_vault, shares,
  market, total_collateral, collateral_vault, signed_price,
  opened, collateral_amount, debt_principal, last_accrual_ts, apr_bps,
  mint, clawed_back,
  main, saved, sol, queue, task, note, coll, usdc, allowance, source, before,
  crashed, restored, signal, price_tx, faults,                       \* DevnetRun
  env, secrets, mints, config, markets, price, vault, wallet, treasury, shop,
  script, runs,                                                      \* Seed
  hermes, feedCache, hoursCache, lookups,                            \* PythFeeds
  partner, issuer, backpack, jupiter, pyth, posted                   \* PriceSources

program_own == <<paused, total_borrowed, total_shares, reserve, usdc_vault, shares,
                 market, total_collateral, collateral_vault, signed_price,
                 opened, collateral_amount, debt_principal, last_accrual_ts, apr_bps,
                 mint, clawed_back>>
run_own     == <<main, saved, sol, queue, task, note, coll, usdc, allowance, source,
                 before, crashed, restored, signal, price_tx>>
seed_own    == <<env, secrets, mints, config, markets, price, vault, wallet, treasury,
                 shop, script, runs>>
feeds_own   == <<hermes, feedCache, hoursCache, lookups>>
desk_own    == <<kv_vars, signed, txs, req, page>>
sources_own == <<partner, issuer, backpack, jupiter, pyth, posted>>
operations_vars ==
  <<vars, scene, program_own, run_own, seed_own, feeds_own, sources_own, faults>>

-----------------------------------------------------------------------------
(* DevnetRun: 100% is 100 basis points, a year 10 seconds; the market lends 30%, *)
(* is liquidated above 45% and pays a bonus of 8%, as T-KALSHI does; 10 tokens   *)
(* at 10 are worth 100.                                                        *)
BPS == 100
SECONDS_PER_YEAR == 10
MULTIPLIER_SCALE == 1
TOKEN_UNIT == 1
U64Max == 100000
PROTOCOL_SHARE_BPS == 40
MAX_UTILIZATION_BPS == 90
CLOSE_FACTOR_BPS == 50
UsdcSupply == 2000
Funding == 1000
Markets == {m1}
Market == m1
SignedMarkets == {m1}
Savers == {"saver"}
Clawbacks == {}
Pauses == {}
SavingsAmounts == {}
MintSettings == {[blocked |-> FALSE, frozen |-> FALSE, multiplier |-> 1]}
Amounts == {20}
TokenAmounts == {10}
FirstPrice == 10
Steady == {<<10, -6>>}
Moving == {<<9, -6>>, <<10, -6>>}
FirstRisk ==
  [max_ltv_bps |-> 30, liq_threshold_bps |-> 45, liq_bonus_bps |-> 8, haircut_bps |-> 0,
   apr_bands |-> <<[max_ltv_bps |-> 20, apr_bps |-> 12],
                   [max_ltv_bps |-> 30, apr_bps |-> 16],
                   [max_ltv_bps |-> 0, apr_bps |-> 0]>>,
   max_price_age_secs |-> 9, closed_market_age_secs |-> 0, closed_haircut_bps |-> 0]
RiskParams == {FirstRisk}

Concurrency == 2
Batch == 2
Worth == 100
Room == 1
Spare == 1
CardLimit == 10
Purchase == 6
Euros == 8
SafeLtv == 29

(* Nothing fails; two calls may fail; another owner uses the market meanwhile;   *)
(* and the crash pair, with any of these.                                      *)
Quiet == INSTANCE DevnetRun WITH NoPrice <- NotPosted,
  Scenarios <- <<"bands", "boundary", "guard", "interest">>, WantCrash <- FALSE,
  Users <- {}, UnitCount <- 30, Faults <- {}, MaxFaults <- 0, FirstSources <- {"market"},
  Owners <- {"bands", "boundary", "guard", "interest"},
  PostedPrices <- Steady, TokenSupply <- 200, MaxTime <- 1
Faulty == INSTANCE DevnetRun WITH NoPrice <- NotPosted,
  Scenarios <- <<"band", "sepa">>, WantCrash <- FALSE,
  Users <- {}, UnitCount <- 10, Faults <- {"rejected", "reset", "timeout", "interrupt"},
  MaxFaults <- 2, FirstSources <- {"market"}, Owners <- {"band", "sepa"},
  PostedPrices <- Steady, TokenSupply <- 200, MaxTime <- 0
Busy == INSTANCE DevnetRun WITH NoPrice <- NotPosted,
  Scenarios <- <<"loop", "card">>, WantCrash <- FALSE,
  Users <- {"u1"}, UnitCount <- 10, Faults <- BusyFaults,
  MaxFaults <- 1, FirstSources <- {"market"}, Owners <- {"loop", "card", "u1"},
  PostedPrices <- Moving, TokenSupply <- 30, MaxTime <- 0
CrashPair == INSTANCE DevnetRun WITH NoPrice <- NotPosted,
  Scenarios <- <<>>, WantCrash <- TRUE,
  Users <- {"u1"}, UnitCount <- 10, Faults <- {"rejected", "timeout", "lost crash", "interrupt"},
  MaxFaults <- 2, FirstSources <- {"market", "demo"}, Owners <- {"A", "B", "u1"},
  PostedPrices <- Moving, TokenSupply <- 34, MaxTime <- 0

(* Seed: two markets, one of them a cashback asset. *)
Seed == INSTANCE Seed WITH
  Specs <- <<"NVDAx", "SPCX">>, CashbackAssets <- {"NVDAx"},
  Selections <- {{"NVDAx", "SPCX"}},
  Faults <- {"stop", "refused", "late", "unread"}, MaxFaults <- 2, MaxAttempts <- 1

(* PythFeeds: the flag lives for a unit of time less than the id. *)
Feeds == INSTANCE PythFeeds WITH Requests <- Syncs, req <- lookups,
  Ids <- {"i1"}, Override <- None, FeedTtl <- 3, HoursTtl <- 2, MaxTime <- 3, Fails <- TRUE

(* PriceSources: an asset of each pre-IPO provider, then an xStock beside SPCX;   *)
(* prices lie around the 200 bps that sources may differ by.  Tessera publishes  *)
(* no traded price.                                                            *)
Published == [p \in {"tessera", "prestocks"} |->
  [mark : {0, 100, 110}, token : IF p = "tessera" THEN {0} ELSE {0, 99, 101, 110}]]
PreIpo == INSTANCE PriceSources WITH
  Rows <- Published,
  Provider <- "T-OPENAI" :> "tessera" @@ "PRE-SPACEX" :> "prestocks",
  Stocks <- {}, Signed <- {"T-OPENAI", "PRE-SPACEX"}, Quotes <- {0, 100, 102},
  Liquidity <- {0, 100}, Ages <- {Unknown}, Flags <- {},
  Changing <- {"tessera", "prestocks", "jupiter"}
Stocks == INSTANCE PriceSources WITH
  Rows <- Published, Provider <- <<>>,
  Stocks <- {"NVDAx"}, Signed <- {"NVDAx", "SPCX"}, Quotes <- {0, 100},
  Liquidity <- {100}, Ages <- {Unknown, MaxStockAge, MaxStockAge + 1},
  Flags <- {TRUE, FALSE, Unknown},
  Changing <- {"xstocks", "backpack", "jupiter", "pyth"}

(* PriceDesk: a price that is posted, crashed and restored, the page a step       *)
(* behind; 1000 and 1020 agree within 200 bps, as do 1020 and 1021; 1000 and     *)
(* 1021 do not, nor 980 or 1200 with any.                                      *)
Quoted == {980, 1000, 1020, 1021, 1200}
Plain(p) ==
  [primary |-> p, jupiter |-> p, liquidity |-> 100, stockAge |-> Unknown,
   pyth |-> 0, pythAge |-> 0, pythConf |-> 0, open |-> Unknown, halted |-> FALSE]
PlainReadings == {Plain(1000), Plain(1020)}
CoinGecko     == {<<>>, <<[t |-> 0, price |-> 1]>>}
DeskKeys      == {pricehist, pricedemo, hist}
Jupiters == {[jupiter |-> 0, liquidity |-> 0, stockAge |-> Unknown]}
              \cup [jupiter : Quoted, liquidity : {99, 100}, stockAge : {Unknown, 15, 16}]
Pyths    == {[pyth |-> 0, pythAge |-> 0, pythConf |-> 0]}
              \cup [pyth : Quoted, pythAge : {5, 6}, pythConf : {100, 101}]
AllReadings ==
  {[primary |-> p, open |-> o, halted |-> h] @@ j @@ y :
     p \in Quoted \cup {0}, o \in {TRUE, FALSE, Unknown}, h \in BOOLEAN,
     j \in Jupiters, y \in Pyths}

(* The signer alone, over every reading. *)
Signer == INSTANCE PriceDesk WITH Readings <- AllReadings, MaxPosts <- 1

ASSUME /\ Signer!DeskAssumption /\ Seed!SeedAssumption
       /\ Quiet!RunAssumption /\ Faulty!RunAssumption
       /\ Busy!RunAssumption /\ CrashPair!RunAssumption
       /\ Feeds!FeedsAssumption
       /\ PreIpo!SourcesAssumption /\ Stocks!SourcesAssumption

-----------------------------------------------------------------------------
OperationsInit ==
  /\ scene \in Scenes
  /\ CASE scene = "quiet" -> Quiet!RunInit
       [] scene = "busy"  -> Busy!RunInit
       [] scene = "crash" -> CrashPair!RunInit
       [] OTHER           -> Faulty!RunInit
  /\ Init /\ Seed!Init /\ Feeds!Init
  /\ scene # "seed" => \A n \in DOMAIN env : env[n] = None
  /\ scene # "feeds" => \A t \in DOMAIN hermes : hermes[t] = [id |-> "i1", open |-> TRUE]
  /\ \A t \in DOMAIN hermes : hermes[t].id = None => hermes[t].open      \* of no feed
  /\ IF scene = "stocks" THEN Stocks!Init ELSE PreIpo!Init

RunStep ==
  /\ \/ scene = "quiet" /\ Quiet!RunNext
     \/ scene = "faulty" /\ Faulty!RunNext
     \/ scene = "busy" /\ Busy!RunNext
     \/ scene = "crash" /\ CrashPair!RunNext
  /\ UNCHANGED <<scene, desk_own, seed_own, feeds_own, sources_own>>
SeedStep ==
  /\ scene = "seed" /\ Seed!Next
  /\ UNCHANGED <<scene, vars, program_own, run_own, feeds_own, sources_own>>
FeedsStep ==
  /\ scene = "feeds" /\ Feeds!Next
  /\ UNCHANGED <<scene, desk_own, program_own, run_own, seed_own, sources_own, faults>>
SourcesStep ==
  /\ \/ scene = "preipo" /\ PreIpo!Next
     \/ scene = "stocks" /\ Stocks!Next
  /\ UNCHANGED <<scene, vars, program_own, run_own, seed_own, feeds_own, faults>>
DeskStep ==
  /\ \/ scene = "desk" /\ Next
     \/ scene = "signer" /\ Signer!DecideNext
  /\ UNCHANGED <<scene, program_own, run_own, seed_own, feeds_own, sources_own, faults>>

OperationsNext == RunStep \/ SeedStep \/ FeedsStep \/ SourcesStep \/ DeskStep

seed_vars == <<seed_own, faults>>
(* The steps of a seed follow each other, and the operator runs it again. *)
OperationsSpec ==
  /\ OperationsInit /\ [][OperationsNext]_operations_vars
  /\ WF_seed_vars(scene = "seed" /\ Seed!Step)
  /\ WF_seed_vars(scene = "seed" /\ Seed!Start(Seed!Symbols))

-----------------------------------------------------------------------------
(* Properties *)


(* "even a borrow is safe to resend" (devnet-wallets.ts:137): no borrow that is     *)
(* sent again lands twice, whatever happened to the connection (DevnetRun).       *)
BorrowedOnce == scene = "busy" => Busy!BorrowedOnce

(* Running the seed again ends in a seeded devnet, whatever failed (Seed).        *)
SeedConverges == scene = "seed" => Seed!SeedConverges

(* What the signer reads is sound: a trading flag is one that Hermes had within   *)
(* its time to live when the request for it began (PythFeeds), a premium moves the  *)
(* price lent against by no more than half the difference that sources may have, and *)
(* Jupiter alone never prices   *)
(* collateral (PriceSources).                                                  *)
SourcesAreSound ==
  /\ scene = "feeds" => Feeds!FlagFresh
  /\ scene = "preipo" => PreIpo!SourcesAreSound
  /\ scene = "stocks" => Stocks!SourcesAreSound
=============================================================================
