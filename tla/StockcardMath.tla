---------------------------- MODULE StockcardMath ----------------------------
(***************************************************************************)
(* The integer arithmetic of the Stockcard program (programs/stockcard/src/ *)
(* math.rs), one operator per function.                                     *)
(*                                                                         *)
(* A function of math.rs returns Result<u64>: the operator gives the exact  *)
(* value, and the caller's guard FitsU64 (or one of the ...Defined          *)
(* predicates below) is the Ok branch.  The u128 intermediates are exact    *)
(* here.  The scale factors are constants, so that a small instance can use *)
(* short years and coarse basis points.                                     *)
(***************************************************************************)
EXTENDS Integers, FiniteSetsExt

CONSTANTS BPS,               \* basis points in 100% (10_000)
          SECONDS_PER_YEAR,  \* 31_536_000
          MULTIPLIER_SCALE,  \* 1.0 as a micro multiplier (1_000_000)
          TOKEN_UNIT,        \* 10^decimals of the collateral mint
          U64Max             \* u64::MAX

ASSUME ScaleAssumption ==
  /\ BPS \in Nat \ {0}
  /\ SECONDS_PER_YEAR \in Nat \ {0}
  /\ MULTIPLIER_SCALE \in Nat \ {0}
  /\ TOKEN_UNIT \in Nat \ {0}
  /\ U64Max \in Nat /\ BPS < U64Max

U64 == 0 .. U64Max
FitsU64(v) == v <= U64Max

CeilDiv(n, d) == IF n = 0 THEN 0 ELSE (n - 1) \div d + 1

-----------------------------------------------------------------------------
(* Interest *)

AccrueInterest(debt, apr_bps, elapsed) ==
  CeilDiv(debt * apr_bps * elapsed, BPS * SECONDS_PER_YEAR)

ReserveShare(interest, protocol_share_bps) ==
  CeilDiv(interest * protocol_share_bps, BPS)

-----------------------------------------------------------------------------
(* Rate bands: a market has three [max_ltv_bps, apr_bps] slots; a slot with  *)
(* a zero in it is unused.                                                   *)

Bands == 1 .. 3
UsedBands(bands) ==
  {i \in Bands : bands[i].max_ltv_bps # 0 /\ bands[i].apr_bps # 0}
CoveringBands(bands, ltv) ==
  {i \in UsedBands(bands) : ltv <= bands[i].max_ltv_bps}

SelectAprBps(bands, ltv) ==
  LET covering == CoveringBands(bands, ltv)
      used     == UsedBands(bands)
  IN  IF covering # {} THEN bands[Min(covering)].apr_bps
      ELSE IF used # {} THEN bands[Max(used)].apr_bps
      ELSE 0

-----------------------------------------------------------------------------
(* Prices: (price, expo) is price * 10^expo dollars; amounts have 6 decimals. *)

USD_DECIMALS == 6
MinExpo == -12
Expos == MinExpo .. 0

(* TLC evaluates this once per run; the provers have no theory of powers. *)
ASSUME PowersOfTen ==
  10 ^ 0 = 1 /\ \A n \in 0 .. USD_DECIMALS : 10 ^ n \in Nat \ {0}

PriceToUsd6(price, expo) ==
  IF expo + USD_DECIMALS >= 0
  THEN price * 10 ^ (expo + USD_DECIMALS)
  ELSE price \div 10 ^ (-(expo + USD_DECIMALS))

-----------------------------------------------------------------------------
(* Collateral value and loan-to-value *)

(* The haircut is a u16 that the closed-market parameter may set to 100% or  *)
(* more: the function then returns an error.                                 *)
HaircutValid(haircut_bps) == haircut_bps < BPS

CollateralValueUsd6(amount, multiplier, price_usd6, haircut_bps) ==
  (amount * multiplier * price_usd6 * (BPS - haircut_bps))
    \div (TOKEN_UNIT * MULTIPLIER_SCALE * BPS)

LtvBps(debt, value_usd6) ==
  IF value_usd6 = 0
  THEN IF debt > 0 THEN U64Max ELSE 0
  ELSE CeilDiv(debt * BPS, value_usd6)

(* Debt that the collateral seized for a repayment is worth, bonus included. *)
SeizeDefined(price_usd6, multiplier) == price_usd6 # 0 /\ multiplier # 0

SeizeRoundsUp(repay_usd6, liq_bonus_bps, price_usd6, multiplier) ==
  CeilDiv(repay_usd6 * (BPS + liq_bonus_bps) * TOKEN_UNIT * MULTIPLIER_SCALE,
          BPS * price_usd6 * multiplier)
SeizeAmount(repay_usd6, liq_bonus_bps, price_usd6, multiplier) ==
  (repay_usd6 * (BPS + liq_bonus_bps) * TOKEN_UNIT * MULTIPLIER_SCALE)
    \div (BPS * price_usd6 * multiplier)

-----------------------------------------------------------------------------
(* The savings pool *)

PoolValue(vault_balance, total_borrowed, reserve) ==
  vault_balance + total_borrowed - reserve

SharesRoundUp(amount, total_shares, pool_value) ==
  IF total_shares = 0 THEN amount ELSE CeilDiv(amount * total_shares, pool_value)
SharesForDeposit(amount, total_shares, pool_value) ==
  IF total_shares = 0 THEN amount
  ELSE (amount * total_shares) \div pool_value

AmountRoundsUp(shares, total_shares, pool_value) ==
  IF total_shares = 0 THEN 0 ELSE CeilDiv(shares * pool_value, total_shares)
AmountForShares(shares, total_shares, pool_value) ==
  IF total_shares = 0 THEN 0
  ELSE (shares * pool_value) \div total_shares

UtilizationBps(total_borrowed, pool_value) ==
  IF pool_value = 0
  THEN IF total_borrowed > 0 THEN U64Max ELSE 0
  ELSE CeilDiv(total_borrowed * BPS, pool_value)
=============================================================================
