------------------------------ MODULE Calculator -------------------------------
(***************************************************************************)
(* The credit calculator of the landing site (landing/src/components/       *)
(* sections/Calculator.tsx over landing/src/lib/credit.ts), beside the       *)
(* program whose figures it announces.                                       *)
(*                                                                         *)
(* The page keeps a type of asset, its value and an amount to borrow; every  *)
(* figure it shows is recomputed from them.  Values and amounts are whole    *)
(* dollars, rates are basis points: the page's fractions are compared        *)
(* crosswise.  The program sees the value as a quantity of collateral priced *)
(* at one dollar, with the haircut the asset's market is configured with.    *)
(***************************************************************************)
EXTENDS StockcardMath

CONSTANTS Entries,     \* the numbers a visitor types as a value
          Claimed      \* the types the figures are compared for

CalculatorAssumption == Entries \subseteq Int /\ BPS = 10000

VARIABLES type, value, borrowed

vars == <<type, value, borrowed>>

-----------------------------------------------------------------------------
(* credit.ts *)

AssetType == {"stocks", "cards", "watches", "art"}

MAX_LTV == [stocks |-> 5000, cards |-> 4000, watches |-> 4000, art |-> 3000]
LIQUIDATION_THRESHOLD ==
  [stocks |-> 6500, cards |-> 5500, watches |-> 5500, art |-> 4500]

(* No value, no LTV: ltv() answers 0. *)
LtvAtMost(b, v, bps) == v <= 0 \/ b * BPS <= bps * v

aprForLtv(t, b, v) ==
  IF t = "stocks"
  THEN IF LtvAtMost(b, v, 2000) THEN 990 ELSE IF LtvAtMost(b, v, 3500) THEN 1290 ELSE 1490
  ELSE IF LtvAtMost(b, v, 2000) THEN 1190 ELSE 1590

creditLine(t, v) == (MAX_LTV[t] * v) \div BPS

(* The value w is under the value the debt b is liquidated at, b / threshold. *)
UnderLiquidation(t, b, w) == w * LIQUIDATION_THRESHOLD[t] < b * BPS

-----------------------------------------------------------------------------
(* Calculator.tsx *)

AtMost(a, b) == IF a < b THEN a ELSE b
AtLeast(a, b) == IF a > b THEN a ELSE b

Unclamped == borrowed
clampedBorrowed == AtMost(borrowed, creditLine(type, value))

Presets == [stocks |-> 10000, cards |-> 50000, watches |-> 50000, art |-> 50000]

Init ==
  /\ type = "stocks"
  /\ value = 10000
  /\ borrowed = 3500

SetType(t) ==
  /\ type' = t
  /\ UNCHANGED <<value, borrowed>>

ChoosePreset(t) ==
  /\ type' = t
  /\ value' = Presets[t]
  /\ borrowed' = (Presets[t] * MAX_LTV[t] * 7) \div (BPS * 10)

Entered(v) == AtLeast(0, v)

TypeValue(v) ==
  /\ value' = Entered(v)
  /\ borrowed' = AtMost(borrowed, creditLine(type, Entered(v)))
  /\ UNCHANGED type

(* The slider stops at the multiples of its step. *)
sliderMax == AtLeast(1, creditLine(type, value))
sliderStep == AtLeast(1, creditLine(type, value) \div 200)

Slide(k) ==
  /\ k * sliderStep <= sliderMax
  /\ borrowed' = k * sliderStep
  /\ UNCHANGED <<type, value>>

MaxStops == 400

Next ==
  \/ \E t \in AssetType : SetType(t) \/ ChoosePreset(t)
  \/ \E v \in Entries : TypeValue(v)
  \/ \E k \in 0 .. MaxStops : Slide(k)

Spec == Init /\ [][Next]_vars

-----------------------------------------------------------------------------
(* The program's side: the markets of the configuration, and the two checks  *)
(* of borrow and liquidate.  Stocks are the three xStocks: the fourth listed  *)
(* stock, SPCX, has a haircut too.                                            *)

Band(max_ltv, apr) == [max_ltv_bps |-> max_ltv, apr_bps |-> apr]

aprBands ==
  [stocks |-> <<Band(2000, 990), Band(3500, 1290), Band(5000, 1490)>>,
   cards |-> <<Band(2000, 1190), Band(4000, 1590), Band(0, 0)>>,
   watches |-> <<Band(2000, 1190), Band(4000, 1590), Band(0, 0)>>,
   art |-> <<Band(1500, 1190), Band(3000, 1590), Band(0, 0)>>]
maxLtvBps == [stocks |-> 5000, cards |-> 4000, watches |-> 4000, art |-> 3000]
liqThresholdBps == [stocks |-> 6500, cards |-> 5500, watches |-> 5500, art |-> 4500]
haircutBps == [stocks |-> 0, cards |-> 2500, watches |-> 2500, art |-> 2000]

Lent(t, w) ==
  CollateralValueUsd6(w * TOKEN_UNIT, MULTIPLIER_SCALE, 1, haircutBps[t])
PositionLtv(t, b, w) == LtvBps(b, Lent(t, w))
Borrowable(t, b, w) == PositionLtv(t, b, w) <= maxLtvBps[t]
Liquidatable(t, b, w) == PositionLtv(t, b, w) > liqThresholdBps[t]

-----------------------------------------------------------------------------
(* What is typed, slid or kept from another type stays a sum of dollars.     *)
TypeOK ==
  /\ type \in AssetType
  /\ value \in Nat
  /\ borrowed \in Nat

(* Whatever was chosen before in whatever order, the amount the page shows    *)
(* as borrowed against one of the types claimed, the three xStocks, is one    *)
(* the program would lend against the value it shows (borrow.rs:75).           *)
LentAsShown ==
  type \in Claimed => Borrowable(type, clampedBorrowed, value)

(* "The safety rules are enforced by the on-chain program, the same math runs  *)
(* here" (Calculator.tsx:79 to 80) is not so of the other types: the page      *)
(* leaves out the haircut of their markets, and the program refuses a loan of  *)
(* the whole credit line it shows.                                            *)
HaircutLeftOut ==
  type \notin Claimed /\ creditLine(type, value) > 0
    => ~Borrowable(type, creditLine(type, value), value)

(* The rate the page shows for that loan is the one the program would set     *)
(* (borrow.rs:119).                                                           *)
RateAsShown ==
  type \in Claimed =>
    aprForLtv(type, clampedBorrowed, value)
      = SelectAprBps(aprBands[type], PositionLtv(type, clampedBorrowed, value))

(* When the value falls to w, the program may liquidate the loan exactly when *)
(* w is below the value the page shows as "Liquidation below"                 *)
(* (liquidate.rs:69).                                                         *)
SafeUntilShown(w) ==
  UnderLiquidation(type, clampedBorrowed, w) <=> Liquidatable(type, clampedBorrowed, w)
=============================================================================
