------------------------------ MODULE ClientRisk -------------------------------
(***************************************************************************)
(* The app's copy of the risk arithmetic (lib/risk.ts), which previews what    *)
(* the program will enforce, and the amounts the sheets offer.  All numbers    *)
(* are bigint: nothing overflows.  An amount field holds a text: plain, or     *)
(* grouped ("1,234.5"), or the word "all".                                     *)
(***************************************************************************)
EXTENDS StockcardMath

CONSTANTS
  CENT,           \* 10_000: one cent in units of USDC
  TOKEN_STEP,     \* raw units in the fourth decimal of a token
  GROUP,          \* 1000: whole tokens from which formatTokens writes a comma
  EQUITY_WARNING, \* 5500
  EQUITY_URGENT,  \* 6000
  WARNING_GAP,    \* 1000 below the liquidation threshold, other classes
  URGENT_GAP      \* 500

ClientAssumption ==
  /\ CENT \in Nat \ {0} /\ TOKEN_STEP \in Nat \ {0} /\ GROUP \in Nat \ {0}
  /\ EQUITY_WARNING < EQUITY_URGENT /\ URGENT_GAP < WARNING_GAP

Monus(a, b) == IF a > b THEN a - b ELSE 0

-----------------------------------------------------------------------------
(* What a position is worth and how far it may go.  A market row of config.ts  *)
(* has assetClass, maxLtvBps, liqThresholdBps, haircutBps and multiplierMicro. *)

collateralValue(amount, priceUsd6, haircutBps, multiplierMicro) ==
  LET gross == (amount * multiplierMicro * priceUsd6)
                 \div (TOKEN_UNIT * MULTIPLIER_SCALE)
  IN  (gross * (BPS - haircutBps)) \div BPS

availableCredit(debt, value, maxLtvBps) == Monus((value * maxLtvBps) \div BPS, debt)

liquidationPrice(debt, amount, info) ==
  IF amount = 0 \/ info.liqThresholdBps = 0 THEN 0
  ELSE (debt * BPS * BPS * TOKEN_UNIT * MULTIPLIER_SCALE)
         \div (amount * info.multiplierMicro * (BPS - info.haircutBps)
                 * info.liqThresholdBps)

WarnsAbove(info) ==
  IF info.assetClass = "equity" THEN EQUITY_WARNING
  ELSE info.liqThresholdBps - WARNING_GAP
UrgentAbove(info) ==
  IF info.assetClass = "equity" THEN EQUITY_URGENT
  ELSE info.liqThresholdBps - URGENT_GAP

alertBand(ltv, info) ==
  IF ltv > info.liqThresholdBps THEN "liquidatable"
  ELSE IF ltv > UrgentAbove(info) THEN "urgent"
  ELSE IF ltv > WarnsAbove(info) THEN "warning"
  ELSE IF ltv > info.maxLtvBps THEN "watch"
  ELSE "healthy"

-----------------------------------------------------------------------------
(* Amounts that bring a position back to max LTV.                             *)

UpTo(step, n) == CeilDiv(n, step) * step

RepayFixDown(debt, value, info) ==
  (Monus(debt, (value * info.maxLtvBps) \div BPS) \div CENT) * CENT
RepayFix(debt, value, info) ==
  UpTo(CENT, Monus(debt, (value * info.maxLtvBps) \div BPS))

AddFix(debt, value, priceUsd6, info) ==
  LET missing == Monus(CeilDiv(debt * BPS, info.maxLtvBps), value)
  IN  UpTo(TOKEN_STEP,
           CeilDiv(missing * TOKEN_UNIT * MULTIPLIER_SCALE * BPS,
                   priceUsd6 * info.multiplierMicro * (BPS - info.haircutBps)))

fixAmounts(debt, amount, priceUsd6, info) ==
  LET value == collateralValue(amount, priceUsd6, info.haircutBps, info.multiplierMicro)
  IN  [repayUsd6 |-> RepayFix(debt, value, info),
       addTokens |-> AddFix(debt, value, priceUsd6, info)]

-----------------------------------------------------------------------------
(* The most that may be withdrawn (portfolio/[symbol]/page.tsx).               *)

ExcessTokens(seen, info) ==
  LET perUnit == (info.multiplierMicro * seen.priceUsd6 * (BPS - info.haircutBps))
                   \div (MULTIPLIER_SCALE * BPS)
      excess  == Monus(seen.valueUsd6, CeilDiv(seen.debt * BPS, info.maxLtvBps))
  IN  IF perUnit = 0 THEN 0 ELSE (excess * TOKEN_UNIT) \div perUnit

maxWithdraw(seen, info) ==
  LET raw == ExcessTokens(seen, info)
  IN  IF seen.debt = 0 \/ raw > seen.deposited THEN seen.deposited ELSE raw

-----------------------------------------------------------------------------
(* The text of an amount field. *)

Plain(n) == [kind |-> "plain", value |-> n]
All == [kind |-> "all", value |-> 0]
Typed(text) == IF text.kind = "plain" THEN text.value ELSE 0

(* formatTokens drops what is below the fourth decimal and groups thousands.   *)
formatTokens(amount) ==
  [kind |-> IF amount \div TOKEN_UNIT >= GROUP THEN "grouped" ELSE "plain",
   value |-> (amount \div TOKEN_STEP) * TOKEN_STEP]
=============================================================================
