----------------------------- MODULE MCStockcard -----------------------------
(***************************************************************************)
(* Small instances of Stockcard for TLC: 100% is 10 basis points, one token is *)
(* one raw unit, and a price of 3 * 10^-6 dollars is three units of USDC per   *)
(* token.                                                                    *)
(*                                                                         *)
(* `scene` says what varies in a run: the pool, the risk, or what the issuer   *)
(* does.  The constants of the configuration are the widest; each scene has     *)
(* its own inputs and bounds, and every property holds in all of them.         *)
(***************************************************************************)
EXTENDS Stockcard, TLC

CONSTANTS
  Scenes,
  Offered      \* the parameters update_market is called with where prices move

VARIABLE scene

program_vars == <<vars, scene>>

Band(ltv, apr) == [max_ltv_bps |-> ltv, apr_bps |-> apr]

Risk(max_ltv, liq, bonus, haircut, bands, age, closed_age, closed_haircut) ==
  [max_ltv_bps |-> max_ltv, liq_threshold_bps |-> liq, liq_bonus_bps |-> bonus,
   haircut_bps |-> haircut, apr_bands |-> bands, max_price_age_secs |-> age,
   closed_market_age_secs |-> closed_age, closed_haircut_bps |-> closed_haircut]

TwoBands == <<Band(3, 2), Band(6, 4), Band(0, 0)>>
Calm     == [blocked |-> FALSE, frozen |-> FALSE, multiplier |-> 1]

(* Savings: one market whose price never goes stale; the savers, the interest,  *)
(* the reserve and the cash are what varies.                                  *)
Pool_RiskParams == {Risk(5, 7, 1, 0, TwoBands, 9, 0, 0)}
Pool_Prices     == {<<3, -6>>}
Pool_Mints      == {Calm}

(* Risk: the price moves, goes stale, falls back to the closed-market haircut *)
(* or rounds to zero; update_market tightens the parameters, and is also      *)
(* called with parameters it must refuse (thresholds inverted, no band, a     *)
(* rate above 50%).                                                           *)
Risk_RiskParams ==
  {Risk(5, 7, 1, 0, TwoBands, 1, 2, 3),
   Risk(3, 4, 2, 1, <<Band(3, 5), Band(0, 0), Band(0, 0)>>, 1, 0, 0),
   Risk(7, 5, 1, 0, <<Band(8, 4), Band(0, 0), Band(0, 0)>>, 1, 0, 0),
   Risk(5, 7, 1, 0, <<Band(0, 0), Band(0, 0), Band(0, 0)>>, 1, 0, 0),
   Risk(5, 7, 1, 0, <<Band(6, 6), Band(0, 0), Band(0, 0)>>, 1, 0, 0)}
Risk_Prices == {<<4, -6>>, <<1, -6>>, <<5, -7>>}

(* Issuer: the mint is paused, the vault frozen, the multiplier doubled (a     *)
(* stock split) or rounded to zero, and collateral is clawed back.            *)
Issuer_Mints ==
  {Calm, [Calm EXCEPT !.blocked = TRUE], [Calm EXCEPT !.frozen = TRUE],
   [Calm EXCEPT !.multiplier = 2], [Calm EXCEPT !.multiplier = 0]}

(* Closed: closed_haircut_bps, which nothing validates, is 100%.              *)
Closed_RiskParams == {Risk(5, 7, 1, 0, TwoBands, 0, 9, 10)}

Issuer_RiskParams == {Risk(6, 8, 1, 0, TwoBands, 9, 0, 0)}

All_RiskParams ==
  Pool_RiskParams \cup Risk_RiskParams \cup Issuer_RiskParams \cup Closed_RiskParams
All_Prices == Pool_Prices \cup Risk_Prices

Savings == INSTANCE Stockcard WITH
  RiskParams <- Pool_RiskParams, PostedPrices <- Pool_Prices, MintSettings <- Pool_Mints,
  Clawbacks <- {}, Amounts <- {1, 4}, SavingsAmounts <- {1, 5}, TokenAmounts <- {5},
  Pauses <- {}, UsdcSupply <- 6
Lending == INSTANCE Stockcard WITH
  RiskParams <- Offered, PostedPrices <- Risk_Prices, MintSettings <- Pool_Mints,
  Clawbacks <- {}, Amounts <- {1, 3, 1000}, SavingsAmounts <- {6}, TokenAmounts <- {1, 3},
  Pauses <- {TRUE}, TokenSupply <- 3, MaxTime <- 2
Issuing == INSTANCE Stockcard WITH
  RiskParams <- Issuer_RiskParams, PostedPrices <- Pool_Prices, MintSettings <- Issuer_Mints,
  Clawbacks <- {1, 2}, Amounts <- {1, 3}, SavingsAmounts <- {6}, TokenAmounts <- {1, 2},
  Pauses <- {TRUE, FALSE}, TokenSupply <- 3, MaxTime <- 1
ProgramInit ==
  /\ scene \in Scenes
  /\ CASE scene = "savings" -> Savings!Init
       [] scene = "lending" -> Lending!Init
       [] scene = "issuer"  -> Issuing!Init

SavingsScene == scene = "savings" /\ Savings!Next /\ UNCHANGED scene
LendingScene == scene = "lending" /\ Lending!Next /\ UNCHANGED scene
IssuingScene == scene = "issuer" /\ Issuing!Next /\ UNCHANGED scene

ProgramNext == SavingsScene \/ LendingScene \/ IssuingScene
ProgramSpec == ProgramInit /\ [][ProgramNext]_program_vars

Symmetry == Permutations(Savers)
=============================================================================
