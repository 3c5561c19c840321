---------------------------- MODULE BorrowerProofs -----------------------------
(***************************************************************************)
(* What the sheets and banners of the app say holds for the program, for every *)
(* choice of the constants: the app's value of a position, rounded twice, is   *)
(* never above the program's, rounded once, and every amount it offers is       *)
(* rounded to the safe side of that.  Then what Home sums up, what the sheet         *)
(* "Send to your bank" and the savings page send and refuse, that no run of the  *)
(* issuer guards halts a market, and what the script that runs wallets on the    *)
(* devnet leaves behind.                                                      *)
(***************************************************************************)
EXTENDS BorrowerApp, StockcardProofs, Sequences

-----------------------------------------------------------------------------
(* Arithmetic *)

USE ScaleAssumption DEF U64, FitsU64

LEMMA MulMono ==
  ASSUME NEW a \in Nat, NEW b \in Nat, NEW c \in Nat, a <= b
  PROVE  a * c <= b * c
OBVIOUS

(* A quotient is the largest number of divisors that fit. *)
LEMMA FloorIsMost ==
  ASSUME NEW n \in Nat, NEW d \in Nat \ {0}, NEW k \in Nat, k * d <= n
  PROVE  k <= n \div d
<1>1. PICK q \in Nat : q = n \div d /\ n < (q + 1) * d
  OBVIOUS
<1>2. ~(q + 1 <= k)
  <2>1. q + 1 <= k => (q + 1) * d <= k * d
    BY MulMono
  <2>2. (q + 1) * d \in Nat /\ k * d \in Nat
    OBVIOUS
  <2> QED BY <1>1, <2>1, <2>2
<1> QED BY <1>1, <1>2

LEMMA CeilCovers ==
  ASSUME NEW n \in Nat, NEW d \in Nat \ {0}
  PROVE  n <= CeilDiv(n, d) * d
<1>1. CASE n = 0
  BY <1>1 DEF CeilDiv
<1>2. CASE n # 0
  <2>1. n - 1 \in Nat
    BY <1>2
  <2>2. PICK q \in Nat : q = (n - 1) \div d /\ n - 1 < (q + 1) * d
    BY <2>1
  <2>3. CeilDiv(n, d) = q + 1 /\ (q + 1) * d \in Nat
    BY <1>2, <2>2 DEF CeilDiv
  <2> QED BY <2>1, <2>2, <2>3
<1> QED BY <1>1, <1>2

(* A loan is within l when its debt is at most l of the value; and with no      *)
(* value, when there is no debt.                                             *)
LEMMA LtvWithin ==
  ASSUME NEW debt \in Nat, NEW value \in Nat, NEW l \in Nat,
         debt * BPS <= value * l, value = 0 => debt = 0
  PROVE  LtvBps(debt, value) \in Nat /\ LtvBps(debt, value) <= l
<1>1. CASE value = 0
  BY <1>1 DEF LtvBps
<1>2. CASE value # 0
  <2>1. debt * BPS \in Nat /\ debt * BPS <= l * value /\ value \in Nat \ {0}
    BY <1>2
  <2> QED BY <1>2, <2>1, CeilDivBounds DEF LtvBps
<1> QED BY <1>1, <1>2

LEMMA LtvCovers ==
  ASSUME NEW debt \in Nat, NEW value \in Nat \ {0}
  PROVE  LtvBps(debt, value) \in Nat /\ debt * BPS <= LtvBps(debt, value) * value
<1>1. debt * BPS \in Nat
  OBVIOUS
<1> QED BY <1>1, CeilDivBounds, CeilCovers DEF LtvBps

UpToNat == \A step \in Nat \ {0}, n \in Nat : UpTo(step, n) \in Nat /\ n <= UpTo(step, n)
LEMMA RoundsUp == UpToNat
BY CeilDivBounds, CeilCovers DEF UpTo, UpToNat

-----------------------------------------------------------------------------
(* The two values of a position. *)

LEMMA ValueNat ==
  ASSUME NEW amount \in Nat, NEW m \in Nat, NEW price \in Nat, NEW h \in 0 .. BPS - 1
  PROVE  /\ collateralValue(amount, price, h, m) \in Nat
         /\ CollateralValueUsd6(amount, m, price, h) \in Nat
<1>1. /\ amount * m * price \in Nat /\ TOKEN_UNIT * MULTIPLIER_SCALE \in Nat \ {0}
      /\ BPS - h \in Nat /\ TOKEN_UNIT * MULTIPLIER_SCALE * BPS \in Nat \ {0}
  OBVIOUS
<1>2. /\ (amount * m * price) \div (TOKEN_UNIT * MULTIPLIER_SCALE) \in Nat
      /\ amount * m * price * (BPS - h) \in Nat
  BY <1>1, FloorDiv
<1>3. ((amount * m * price) \div (TOKEN_UNIT * MULTIPLIER_SCALE)) * (BPS - h) \in Nat
  BY <1>1, <1>2
<1> QED BY <1>1, <1>2, <1>3, FloorDiv DEF collateralValue, CollateralValueUsd6

(* Rounding twice gives at most what rounding once does. *)
LEMMA AppValueIsLower ==
  ASSUME NEW amount \in Nat, NEW m \in Nat, NEW price \in Nat, NEW h \in 0 .. BPS - 1
  PROVE  collateralValue(amount, price, h, m) <= CollateralValueUsd6(amount, m, price, h)
<1> DEFINE n == amount * m * price
           u == TOKEN_UNIT * MULTIPLIER_SCALE
           g == n \div u
           k == BPS - h
           v == (g * k) \div BPS
<1>1. n \in Nat /\ u \in Nat \ {0} /\ k \in Nat
  OBVIOUS
<1>2. g \in Nat /\ g * u <= n
  BY <1>1, FloorDiv
<1>3. g * k \in Nat
  BY <1>1, <1>2
<1>4. v \in Nat /\ v * BPS <= g * k
  BY <1>3, FloorDiv
<1>5. collateralValue(amount, price, h, m) = v
  BY DEF collateralValue
<1>6. CollateralValueUsd6(amount, m, price, h) = (n * k) \div (u * BPS)
  BY DEF CollateralValueUsd6
<1> HIDE DEF n, u, g, k, v
<1>7. v * (u * BPS) <= n * k
  <2>1. (v * BPS) * u <= (g * k) * u
    <3> v * BPS \in Nat
      BY <1>4
    <3> QED BY <1>1, <1>3, <1>4, MulMono
  <2>2. (g * u) * k <= n * k
    <3> g * u \in Nat
      BY <1>1, <1>2
    <3> QED BY <1>1, <1>2, MulMono
  <2>3. v * (u * BPS) = (v * BPS) * u /\ (g * k) * u = (g * u) * k
    BY <1>1, <1>2, <1>4
  <2>4. /\ (v * BPS) * u \in Nat /\ (g * u) * k \in Nat /\ n * k \in Nat
    BY <1>1, <1>2, <1>4
  <2> QED BY <2>1, <2>2, <2>3, <2>4
<1>8. n * k \in Nat /\ u * BPS \in Nat \ {0}
  BY <1>1
<1> QED BY <1>4, <1>5, <1>6, <1>7, <1>8, FloorIsMost

(* Tokens that are worth what is missing add at least that to the value. *)
LEMMA ToppingUp ==
  ASSUME NEW amount \in Nat, NEW more \in Nat, NEW m \in Nat, NEW price \in Nat,
         NEW h \in 0 .. BPS - 1, NEW missing \in Nat,
         missing * TOKEN_UNIT * MULTIPLIER_SCALE * BPS <= more * (price * m * (BPS - h))
  PROVE  CollateralValueUsd6(amount, m, price, h) + missing
           <= CollateralValueUsd6(amount + more, m, price, h)
<1> DEFINE k == price * m * (BPS - h)
           u == TOKEN_UNIT * MULTIPLIER_SCALE * BPS
           v == (amount * k) \div u
<1>1. k \in Nat /\ u \in Nat \ {0} /\ amount * k \in Nat
  OBVIOUS
<1>2. v \in Nat /\ v * u <= amount * k
  BY <1>1, FloorDiv
<1>3. missing * u <= more * k
  <2>1. missing * TOKEN_UNIT * MULTIPLIER_SCALE * BPS = missing * u
    OBVIOUS
  <2> QED BY <2>1
<1>4. CollateralValueUsd6(amount, m, price, h) = v
  <2>1. amount * m * price * (BPS - h) = amount * k
    OBVIOUS
  <2> QED BY <2>1 DEF CollateralValueUsd6
<1>5. CollateralValueUsd6(amount + more, m, price, h) = ((amount + more) * k) \div u
  <2>1. (amount + more) * m * price * (BPS - h) = (amount + more) * k
    OBVIOUS
  <2> QED BY <2>1 DEF CollateralValueUsd6
<1> HIDE DEF k, u, v
<1>6. (v + missing) * u <= (amount + more) * k
  <2>1. (v + missing) * u = v * u + missing * u
    BY <1>1, <1>2
  <2>2. (amount + more) * k = amount * k + more * k
    BY <1>1
  <2>3. v * u \in Nat /\ missing * u \in Nat /\ more * k \in Nat
    BY <1>1, <1>2
  <2> QED BY <1>1, <1>2, <1>3, <2>1, <2>2, <2>3
<1>7. (amount + more) * k \in Nat /\ v + missing \in Nat
  BY <1>1, <1>2
<1> QED BY <1>1, <1>4, <1>5, <1>6, <1>7, FloorIsMost

(* Below the price the app names, the debt is above the threshold. *)
LEMMA BelowNamedPrice ==
  ASSUME NEW debt \in Nat, NEW amount \in Nat, NEW m \in Nat \ {0}, NEW price \in Nat,
         NEW h \in 0 .. BPS - 1, NEW liq \in Nat, amount # 0, liq # 0,
         price < (debt * BPS * BPS * TOKEN_UNIT * MULTIPLIER_SCALE)
                   \div (amount * m * (BPS - h) * liq)
  PROVE  ~(debt * BPS <= liq * CollateralValueUsd6(amount, m, price, h))
<1> DEFINE w == amount * m * (BPS - h)
           u == TOKEN_UNIT * MULTIPLIER_SCALE * BPS
           n == debt * BPS
           v == (w * price) \div u
<1>1. w \in Nat \ {0} /\ u \in Nat \ {0} /\ n \in Nat /\ w * price \in Nat
  OBVIOUS
<1>2. v \in Nat /\ v * u <= w * price
  BY <1>1, FloorDiv
<1>3. price + 1 <= (n * u) \div (w * liq)
  <2>1. debt * BPS * BPS * TOKEN_UNIT * MULTIPLIER_SCALE = n * u
    OBVIOUS
  <2>2. amount * m * (BPS - h) * liq = w * liq
    OBVIOUS
  <2>3. n * u \in Nat /\ w * liq \in Nat \ {0}
    OBVIOUS
  <2> HIDE DEF n, u, w
  <2>4. (n * u) \div (w * liq) \in Nat
    BY <2>3, FloorDiv
  <2> QED BY <2>1, <2>2, <2>4
<1>4. CollateralValueUsd6(amount, m, price, h) = v
  <2>1. amount * m * price * (BPS - h) = w * price
    OBVIOUS
  <2> QED BY <2>1 DEF CollateralValueUsd6
<1> HIDE DEF w, u, n, v
<1>5. (price + 1) * (w * liq) <= n * u
  <2>1. n * u \in Nat /\ w * liq \in Nat \ {0}
    BY <1>1
  <2>2. PICK q \in Nat : q = (n * u) \div (w * liq) /\ q * (w * liq) <= n * u
    BY <2>1, FloorDiv
  <2>3. (price + 1) * (w * liq) <= q * (w * liq)
    BY <1>3, <2>1, <2>2, MulMono
  <2>4. (price + 1) * (w * liq) \in Nat /\ q * (w * liq) \in Nat
    BY <2>1, <2>2
  <2> QED BY <2>1, <2>2, <2>3, <2>4
<1>6. SUFFICES ASSUME n <= liq * v PROVE FALSE
  BY <1>4 DEF n
<1>7. n * u <= (liq * v) * u
  BY <1>1, <1>2, <1>6, MulMono
<1>8. (v * u) * liq <= (w * price) * liq
  <2> v * u \in Nat
    BY <1>1, <1>2
  <2> QED BY <1>1, <1>2, MulMono
<1>9. /\ (liq * v) * u = (v * u) * liq
      /\ (price + 1) * (w * liq) = (w * price) * liq + w * liq
  BY <1>1, <1>2
<1>10. /\ w * liq \in Nat \ {0} /\ (w * price) * liq \in Nat /\ n * u \in Nat
       /\ (v * u) * liq \in Nat
  BY <1>1, <1>2
<1> QED BY <1>5, <1>7, <1>8, <1>9, <1>10

-----------------------------------------------------------------------------
(* What the app knows.  The markets stay listed, prices stay in millionths,    *)
(* what was read is made of naturals, and an open sheet shows a position that   *)
(* was read and an amount that can be typed.                                   *)

Listed == \A m \in Markets : market[m] # NoMarket
InMicros == \A m \in Markets : signed_price[m] # NoPrice => signed_price[m].expo = -6
ViewRead == view \in [Positions -> ViewType \cup {NoView}]
SheetShown ==
  sheet # NoSheet =>
    /\ sheet.kind \in {"borrow", "repay", "deposit", "withdraw"}
    /\ sheet.p \in Positions /\ view[sheet.p] # NoView
    /\ Typed(sheet.text) \in Nat

AppInv == TypeInv /\ Listed /\ InMicros /\ ViewRead /\ SheetShown

LEMMA RowTypes ==
  ASSUME NEW p \in Positions
  PROVE  /\ p[1] \in Markets
         /\ Row(p).maxLtvBps \in Nat \ {0} /\ Row(p).liqThresholdBps \in Nat
         /\ Row(p).haircutBps \in 0 .. BPS - 1 /\ Row(p).multiplierMicro \in Nat \ {0}
BY AppAssumption DEF Row, Positions

LEMMA MicrosPrice ==
  ASSUME NEW price \in Nat, NEW expo, expo + USD_DECIMALS = 0
  PROVE  PriceToUsd6(price, expo) = price
<1> DEFINE e == expo + USD_DECIMALS
<1>1. e = 0
  OBVIOUS
<1>2. PriceToUsd6(price, expo) = IF e >= 0 THEN price * 10 ^ e
                                 ELSE price \div 10 ^ (-e)
  BY DEF PriceToUsd6
<1> HIDE DEF e
<1>3. 10 ^ e = 1
  BY <1>1, PowersOfTen
<1>4. price * 1 = price
  OBVIOUS
<1> QED BY <1>1, <1>2, <1>3, <1>4

(* What the program computes for a position that a current app shows.          *)
LEMMA CurrentPosition ==
  ASSUME AppInv, NEW p \in Positions, Current(p)
  PROVE  /\ view[p].deposited = collateral_amount[p] /\ view[p].debt = debt_principal[p]
         /\ collateral_amount[p] \in Nat /\ debt_principal[p] \in Nat
         /\ view[p].priceUsd6 \in Nat \ {0} /\ PriceUsable(p[1])
         /\ view[p].valueUsd6 =
              collateralValue(collateral_amount[p], view[p].priceUsd6,
                              Row(p).haircutBps, Row(p).multiplierMicro)
         /\ view[p].ltv = LtvBps(debt_principal[p], view[p].valueUsd6)
         /\ \A amount : Value(p[1], amount) =
              CollateralValueUsd6(amount, Row(p).multiplierMicro, view[p].priceUsd6,
                                  Row(p).haircutBps)
         /\ HaircutValid(EffectiveHaircut(p[1]))
         /\ FitsU64(Value(p[1], collateral_amount[p]))
         /\ Row(p).maxLtvBps = market[p[1]].max_ltv_bps
         /\ Row(p).liqThresholdBps = market[p[1]].liq_threshold_bps
         /\ Row(p).maxLtvBps \in 0 .. BPS /\ Row(p).liqThresholdBps \in 0 .. BPS
<1> DEFINE m == p[1]
<1>1. m \in Markets /\ collateral_amount[p] \in Nat /\ debt_principal[p] \in Nat
  BY RowTypes DEF AppInv, TypeInv, TypeOK
<1>2. signed_price[m] # NoPrice /\ signed_price[m].price > 0 /\ PriceUsable(m)
  BY DEF Current, PriceUsable
<1>3. signed_price[m].price \in Nat \ {0} /\ signed_price[m].expo = -6
  BY <1>1, <1>2 DEF AppInv, TypeInv, TypeOK, InMicros, SignedPriceType
<1>4. PriceUsd6(m) = signed_price[m].price
  <2>1. -6 + USD_DECIMALS = 0
    BY DEF USD_DECIMALS
  <2> QED BY <1>3, <2>1, MicrosPrice DEF PriceUsd6
<1>5. /\ view[p] = Snapshot(p)
      /\ view[p].priceUsd6 = signed_price[m].price
      /\ view[p].deposited = collateral_amount[p] /\ view[p].debt = debt_principal[p]
      /\ view[p].ltv = LtvBps(debt_principal[p], view[p].valueUsd6)
      /\ view[p].valueUsd6 = collateralValue(collateral_amount[p], signed_price[m].price,
                               market[m].haircut_bps, Row(p).multiplierMicro)
  BY <1>2 DEF Current, Snapshot, Row
<1>6. /\ EffectiveHaircut(m) = Row(p).haircutBps /\ market[m].haircut_bps = Row(p).haircutBps
      /\ mint[m].multiplier = Row(p).multiplierMicro
      /\ Row(p).maxLtvBps = market[m].max_ltv_bps
      /\ Row(p).liqThresholdBps = market[m].liq_threshold_bps
      /\ FitsU64(Value(m, collateral_amount[p]))
  BY DEF Current, EffectiveHaircut
<1>7. \A amount : Value(m, amount) =
        CollateralValueUsd6(amount, Row(p).multiplierMicro, view[p].priceUsd6,
                            Row(p).haircutBps)
  BY <1>4, <1>5, <1>6 DEF Value
<1>8. ValidRiskParams(market[m]) /\ market[m] \in RiskParamsType
  BY <1>1, InputAssumption DEF AppInv, TypeInv, TypeOK, MarketsValid, Listed
<1>9. market[m].max_ltv_bps \in 0 .. BPS /\ market[m].liq_threshold_bps \in 0 .. BPS
  <2>1. (9 * BPS) \div 10 <= BPS
    OBVIOUS
  <2> QED BY <1>8, <2>1 DEF ValidRiskParams, ThresholdsOrdered, RiskParamsType
<1>10. HaircutValid(EffectiveHaircut(m))
  BY <1>6, <1>8 DEF ValidRiskParams
<1> QED BY <1>1, <1>2, <1>3, <1>5, <1>6, <1>7, <1>9, <1>10

(* The app's value of it is at most the program's.                             *)
LEMMA BothValues ==
  ASSUME AppInv, NEW p \in Positions, Current(p)
  PROVE  /\ view[p].valueUsd6 \in Nat /\ Value(p[1], collateral_amount[p]) \in Nat
         /\ view[p].valueUsd6 <= Value(p[1], collateral_amount[p])
<1> DEFINE c == collateral_amount[p]
           h == Row(p).haircutBps
           m == Row(p).multiplierMicro
           price == view[p].priceUsd6
<1>1. c \in Nat /\ h \in 0 .. BPS - 1 /\ m \in Nat /\ price \in Nat
  BY CurrentPosition, RowTypes
<1>2. /\ view[p].valueUsd6 = collateralValue(c, price, h, m)
      /\ Value(p[1], c) = CollateralValueUsd6(c, m, price, h)
  BY CurrentPosition
<1> HIDE DEF c, h, m, price
<1>3. /\ collateralValue(c, price, h, m) \in Nat
      /\ CollateralValueUsd6(c, m, price, h) \in Nat
      /\ collateralValue(c, price, h, m) <= CollateralValueUsd6(c, m, price, h)
  BY <1>1, ValueNat, AppValueIsLower
<1> QED BY <1>2, <1>3 DEF c

(* A debt that is at most max LTV of the value is one the program accepts.      *)
LEMMA ProgramAccepts ==
  ASSUME AppInv, NEW p \in Positions, Current(p), NEW amount \in Nat, NEW debt \in Nat,
         FitsU64(Value(p[1], amount)), Value(p[1], amount) \in Nat,
         debt * BPS <= Value(p[1], amount) * Row(p).maxLtvBps,
         Value(p[1], amount) = 0 => debt = 0
  PROVE  WithinMaxLtv(p[1], amount, debt)
<1>1. /\ Row(p).maxLtvBps \in 0 .. BPS /\ Row(p).maxLtvBps = market[p[1]].max_ltv_bps
      /\ PriceUsable(p[1]) /\ HaircutValid(EffectiveHaircut(p[1]))
  BY CurrentPosition
<1>2. Ltv(p[1], amount, debt) \in Nat /\ Ltv(p[1], amount, debt) <= Row(p).maxLtvBps
  BY <1>1, LtvWithin DEF Ltv
<1> QED BY <1>1, <1>2 DEF WithinMaxLtv, LtvDefined

-----------------------------------------------------------------------------
(* The three quotes. *)

LEMMA OfferKept ==
  ASSUME AppInv, NEW p \in Positions, Current(p), MaxBorrow(p) > 0
  PROVE  WithinMaxLtv(p[1], collateral_amount[p], debt_principal[p] + MaxBorrow(p))
<1> DEFINE c == collateral_amount[p]
           d == debt_principal[p]
           v == view[p].valueUsd6
           V == Value(p[1], c)
           l == Row(p).maxLtvBps
           x == (v * l) \div BPS
<1>1. /\ c \in Nat /\ d \in Nat /\ v \in Nat /\ V \in Nat /\ v <= V /\ FitsU64(V)
      /\ l \in Nat /\ view[p].debt = d
  BY CurrentPosition, RowTypes, BothValues
<1>2. v * l \in Nat /\ x \in Nat /\ x * BPS <= v * l
  <2>1. v * l \in Nat
    BY <1>1
  <2> HIDE DEF v, l
  <2> QED BY <2>1, FloorDiv
<1>3. MaxBorrow(p) = Monus(x, d)
  BY <1>1 DEF MaxBorrow, availableCredit
<1> HIDE DEF c, d, v, V, l, x
<1>4. d + MaxBorrow(p) = x
  BY <1>1, <1>2, <1>3 DEF Monus
<1>5. v * l <= V * l
  BY <1>1, MulMono
<1>6. x * BPS <= V * l
  <2> V * l \in Nat /\ x * BPS \in Nat
    BY <1>1, <1>2
  <2> QED BY <1>2, <1>5
<1>7. V = 0 => x = 0
  <2>1. SUFFICES ASSUME V = 0 PROVE x = 0
    OBVIOUS
  <2>2. x * BPS <= 0
    BY <1>1, <1>6, <2>1
  <2> QED BY <1>2, <2>2
<1>8. WithinMaxLtv(p[1], c, x)
  BY <1>1, <1>2, <1>6, <1>7, ProgramAccepts DEF V, l
<1> QED BY <1>4, <1>8 DEF c, d

LEMMA RepayFixKept ==
  ASSUME AppInv, NEW p \in Positions, Current(p)
  PROVE  WithinMaxLtv(p[1], collateral_amount[p], Monus(debt_principal[p], Fix(p).repayUsd6))
<1> DEFINE c == collateral_amount[p]
           d == debt_principal[p]
           v == view[p].valueUsd6
           V == Value(p[1], c)
           l == Row(p).maxLtvBps
           x == (v * l) \div BPS
           r == Fix(p).repayUsd6
<1>1. /\ c \in Nat /\ d \in Nat /\ v \in Nat /\ V \in Nat /\ v <= V /\ FitsU64(V)
      /\ l \in Nat
  BY CurrentPosition, RowTypes, BothValues
<1>2. v * l \in Nat /\ x \in Nat /\ x * BPS <= v * l
  <2>1. v * l \in Nat
    BY <1>1
  <2> HIDE DEF v, l
  <2> QED BY <2>1, FloorDiv
<1>3. r = UpTo(CENT, Monus(d, x))
  BY CurrentPosition DEF Fix, fixAmounts, RepayFix
<1> HIDE DEF c, d, v, V, l, x, r
<1>4. Monus(d, x) \in Nat /\ d <= x + Monus(d, x)
  BY <1>1, <1>2 DEF Monus
<1>5. r \in Nat /\ Monus(d, x) <= r
  BY <1>3, <1>4, RoundsUp, AppAssumption DEF UpToNat, ClientAssumption
<1>6. Monus(d, r) \in Nat /\ Monus(d, r) <= x
  BY <1>1, <1>2, <1>4, <1>5 DEF Monus
<1>7. Monus(d, r) * BPS <= V * l
  <2>1. Monus(d, r) * BPS <= x * BPS
    BY <1>2, <1>6, MulMono
  <2>2. v * l <= V * l
    BY <1>1, MulMono
  <2>3. Monus(d, r) * BPS \in Nat /\ x * BPS \in Nat /\ V * l \in Nat
    BY <1>1, <1>2, <1>6
  <2> QED BY <1>2, <2>1, <2>2, <2>3
<1>8. V = 0 => Monus(d, r) = 0
  <2>1. SUFFICES ASSUME V = 0 PROVE Monus(d, r) = 0
    OBVIOUS
  <2>2. Monus(d, r) * BPS <= 0
    BY <1>1, <1>7, <2>1
  <2> QED BY <1>6, <2>2
<1>9. WithinMaxLtv(p[1], c, Monus(d, r))
  BY <1>1, <1>6, <1>7, <1>8, ProgramAccepts DEF V, l
<1> QED BY <1>9 DEF c, d, r

LEMMA AddFixKept ==
  ASSUME AppInv, NEW p \in Positions, Current(p), debt_principal[p] > 0,
         FitsU64(Value(p[1], collateral_amount[p] + Fix(p).addTokens))
  PROVE  WithinMaxLtv(p[1], collateral_amount[p] + Fix(p).addTokens, debt_principal[p])
<1> DEFINE c == collateral_amount[p]
           d == debt_principal[p]
           v == view[p].valueUsd6
           V == Value(p[1], c)
           l == Row(p).maxLtvBps
           h == Row(p).haircutBps
           m == Row(p).multiplierMicro
           price == view[p].priceUsd6
           need == CeilDiv(d * BPS, l)
           missing == Monus(need, v)
           short == missing * TOKEN_UNIT * MULTIPLIER_SCALE * BPS
           unit == price * m * (BPS - h)
           add == Fix(p).addTokens
           W == Value(p[1], c + add)
<1>1. /\ c \in Nat /\ d \in Nat /\ v \in Nat /\ V \in Nat /\ v <= V
      /\ l \in Nat \ {0} /\ h \in 0 .. BPS - 1 /\ m \in Nat \ {0} /\ price \in Nat \ {0}
      /\ d > 0
  BY CurrentPosition, RowTypes, BothValues
<1>2. add = UpTo(TOKEN_STEP, CeilDiv(short, unit))
  BY CurrentPosition DEF Fix, fixAmounts, AddFix
<1>3. /\ V = CollateralValueUsd6(c, m, price, h)
      /\ W = CollateralValueUsd6(c + add, m, price, h)
  BY CurrentPosition
<1>4. need \in Nat /\ d * BPS <= need * l /\ d * BPS \in Nat \ {0}
  <2>1. d * BPS \in Nat \ {0}
    BY <1>1
  <2> QED BY <1>1, <2>1, CeilDivBounds, CeilCovers
<1>5. missing \in Nat /\ need <= v + missing
  <2> HIDE DEF need, v
  <2> QED BY <1>1, <1>4 DEF Monus
<1>6. short \in Nat /\ unit \in Nat \ {0}
  <2>1. BPS - h \in Nat \ {0}
    BY <1>1
  <2>2. price * m \in Nat \ {0}
    BY <1>1
  <2> HIDE DEF missing, h, m, price
  <2> QED BY <1>5, <2>1, <2>2
<1>7. add \in Nat /\ short <= add * unit
  <2> DEFINE a == CeilDiv(short, unit)
  <2> HIDE DEF short, unit
  <2>1. a \in Nat /\ short <= a * unit
    BY <1>6, CeilDivBounds, CeilCovers
  <2>2. add \in Nat /\ a <= add
    <3> HIDE DEF a
    <3> QED BY <1>2, <2>1, RoundsUp, AppAssumption DEF UpToNat, ClientAssumption, a
  <2>3. a * unit <= add * unit
    BY <1>6, <2>1, <2>2, MulMono
  <2> HIDE DEF a, add
  <2>4. a * unit \in Nat /\ add * unit \in Nat
    BY <1>6, <2>1, <2>2
  <2> QED BY <1>6, <2>1, <2>2, <2>3, <2>4
<1>8. V + missing <= W /\ W \in Nat
  <2> HIDE DEF c, V, h, m, price, missing, add, W
  <2>1. c + add \in Nat
    BY <1>1, <1>7
  <2> QED BY <1>1, <1>3, <1>5, <1>7, <2>1, ToppingUp, ValueNat DEF short, unit
<1> HIDE DEF c, d, v, V, l, need, missing, short, unit, add, W
<1>9. need <= W
  BY <1>1, <1>4, <1>5, <1>8
<1>10. d * BPS <= W * l
  <2>1. need * l <= W * l
    BY <1>1, <1>4, <1>8, <1>9, MulMono
  <2>2. need * l \in Nat /\ W * l \in Nat
    BY <1>1, <1>4, <1>8
  <2> QED BY <1>4, <2>1, <2>2
<1>11. W # 0
  <2>1. W = 0 => W * l = 0
    BY <1>1
  <2> QED BY <1>4, <1>10, <2>1
<1>12. c + add \in Nat
  BY <1>1, <1>7
<1>13. WithinMaxLtv(p[1], c + add, d)
  BY <1>1, <1>8, <1>10, <1>11, <1>12, ProgramAccepts DEF W, l, c, add
<1> QED BY <1>13 DEF c, d, add

LEMMA BandKept ==
  ASSUME AppInv, NEW p \in Positions, Current(p), debt_principal[p] > 0
  PROVE  LET over == AboveLiqThreshold(p[1], collateral_amount[p], debt_principal[p])
             named == liquidationPrice(view[p].debt, view[p].deposited, Row(p))
         IN  /\ over => Band(p) = "liquidatable"
             /\ FitsU64(Ltv(p[1], collateral_amount[p], debt_principal[p]))
                  /\ view[p].priceUsd6 < named => over
<1> DEFINE c == collateral_amount[p]
           d == debt_principal[p]
           v == view[p].valueUsd6
           V == Value(p[1], c)
           liq == Row(p).liqThresholdBps
           h == Row(p).haircutBps
           m == Row(p).multiplierMicro
           price == view[p].priceUsd6
<1>1. /\ c \in Nat /\ d \in Nat \ {0} /\ v \in Nat /\ V \in Nat /\ v <= V
      /\ liq \in 0 .. BPS /\ h \in 0 .. BPS - 1 /\ m \in Nat \ {0} /\ price \in Nat \ {0}
  BY CurrentPosition, RowTypes, BothValues
<1>2. /\ view[p].ltv = LtvBps(d, v) /\ Ltv(p[1], c, d) = LtvBps(d, V)
      /\ liq = market[p[1]].liq_threshold_bps /\ view[p].debt = d /\ view[p].deposited = c
      /\ V = CollateralValueUsd6(c, m, price, h)
  BY CurrentPosition DEF Ltv
<1>3. ASSUME AboveLiqThreshold(p[1], c, d) PROVE Band(p) = "liquidatable"
  <2>1. LtvBps(d, V) > liq /\ LtvBps(d, V) <= U64Max
    BY <1>2, <1>3 DEF AboveLiqThreshold, LtvDefined
  <2>2. LtvBps(d, v) > liq
    <3>1. CASE v = 0
      BY <1>1, <2>1, <3>1 DEF LtvBps
    <3>2. CASE v # 0
      <4> HIDE DEF c, d, v, V, liq
      <4>1. LtvBps(d, v) \in Nat /\ d * BPS <= LtvBps(d, v) * v
        BY <1>1, <3>2, LtvCovers
      <4> DEFINE k == LtvBps(d, v)
      <4> HIDE DEF k
      <4>2. v * k <= V * k
        BY <1>1, <4>1, MulMono DEF k
      <4>3. d * BPS <= V * k
        <5> k * v = v * k /\ k * v \in Nat /\ V * k \in Nat /\ d * BPS \in Nat
          BY <1>1, <4>1 DEF k
        <5> QED BY <4>1, <4>2 DEF k
      <4>4. LtvBps(d, V) \in Nat /\ LtvBps(d, V) <= k
        BY <1>1, <3>2, <4>1, <4>3, LtvWithin DEF k
      <4> QED BY <1>1, <2>1, <4>1, <4>4 DEF k
    <3> QED BY <3>1, <3>2
  <2> QED BY <1>2, <2>2 DEF Band, alertBand
<1>4. ASSUME FitsU64(Ltv(p[1], c, d)), price < liquidationPrice(d, c, Row(p))
      PROVE  AboveLiqThreshold(p[1], c, d)
  <2>1. c # 0 /\ liq # 0
    BY <1>1, <1>4 DEF liquidationPrice
  <2>2. price < (d * BPS * BPS * TOKEN_UNIT * MULTIPLIER_SCALE)
                   \div (c * m * (BPS - h) * liq)
    BY <1>4, <2>1 DEF liquidationPrice
  <2>3. ~(d * BPS <= liq * V)
    <3>1. V = CollateralValueUsd6(c, m, price, h) /\ liq \in Nat /\ price \in Nat
      BY <1>1, <1>2
    <3> HIDE DEF c, d, V, liq, m, h, price
    <3>2. ~(d * BPS <= liq * CollateralValueUsd6(c, m, price, h))
      BY <1>1, <2>1, <2>2, <3>1, BelowNamedPrice
    <3> QED BY <3>1, <3>2
  <2>4. LtvBps(d, V) > liq
    <3> HIDE DEF c, d, V, liq
    <3>1. CASE V = 0
      BY <1>1, <3>1 DEF LtvBps
    <3>2. CASE V # 0
      <4>1. LtvBps(d, V) \in Nat /\ d * BPS <= LtvBps(d, V) * V
        BY <1>1, <3>2, LtvCovers
      <4> DEFINE k == LtvBps(d, V)
      <4> HIDE DEF k
      <4>2. k <= liq => k * V <= liq * V
        BY <1>1, <4>1, MulMono DEF k
      <4>3. k * V \in Nat /\ liq * V \in Nat /\ d * BPS \in Nat
        BY <1>1, <4>1 DEF k
      <4> QED BY <1>1, <2>3, <4>1, <4>2, <4>3 DEF k
    <3> QED BY <3>1, <3>2
  <2>5. PriceUsable(p[1]) /\ HaircutValid(EffectiveHaircut(p[1])) /\ FitsU64(V)
    BY CurrentPosition
  <2> QED BY <1>2, <1>4, <2>4, <2>5 DEF AboveLiqThreshold, LtvDefined
<1> QED BY <1>2, <1>3, <1>4

LEMMA QuotesFollow == AppInv => QuotesHold
BY OfferKept, RepayFixKept, AddFixKept, BandKept
   DEF QuotesHold, OfferHolds, FixHolds, BandTells
-----------------------------------------------------------------------------
(* The invariant.                                                            *)

LEMMA ListedTypes == ListedInit => TypeInv /\ Listed /\ InMicros
<1> SUFFICES ASSUME ListedInit PROVE TypeInv /\ Listed /\ InMicros
  OBVIOUS
<1> USE DEF ListedInit
<1>1. /\ paused \in BOOLEAN /\ total_borrowed \in U64 /\ reserve \in U64
      /\ Funding * Cardinality(Savers) \in U64 /\ total_shares \in U64
      /\ usdc_vault \in 0 .. UsdcSupply /\ shares \in [Savers -> U64]
  <2> DEFINE total == Funding * Cardinality(Savers)
  <2>1. total \in 0 .. UsdcSupply /\ UsdcSupply \in U64 /\ Funding \in U64
    BY ListedAssumption, InputAssumption
  <2>2. /\ paused = FALSE /\ total_borrowed = 0 /\ reserve = 0 /\ usdc_vault = total
        /\ total_shares = total /\ shares = [s \in Savers |-> Funding]
    OBVIOUS
  <2> SUFFICES /\ paused \in BOOLEAN /\ total_borrowed \in U64 /\ reserve \in U64
               /\ total \in U64 /\ total_shares \in U64
               /\ usdc_vault \in 0 .. UsdcSupply /\ shares \in [Savers -> U64]
    OBVIOUS
  <2>3. paused \in BOOLEAN
    BY <2>2
  <2> HIDE DEF total
  <2>4. /\ total_borrowed \in U64 /\ reserve \in U64 /\ total \in U64
        /\ total_shares \in U64 /\ usdc_vault \in 0 .. UsdcSupply
    BY <2>1, <2>2
  <2>5. shares \in [Savers -> U64]
    BY <2>1, <2>2
  <2> QED BY <2>3, <2>4, <2>5
<1>2. /\ market \in [Markets -> RiskParams] /\ MarketsValid /\ Listed
  BY ListedAssumption, InputAssumption DEF MarketsValid, Listed
<1>3. /\ total_collateral \in [Markets -> U64]
      /\ collateral_vault \in [Markets -> Nat] /\ clawed_back \in [Markets -> Nat]
      /\ \A m \in Markets : collateral_vault[m] + clawed_back[m] <= TokenSupply
  BY InputAssumption
<1>4. /\ signed_price \in [Markets -> SignedPriceType] /\ InMicros
      /\ \A m \in Markets : signed_price[m].publish_time <= now
  BY ListedAssumption DEF SignedPriceType, Expos, MinExpo, InMicros
<1>5. BPS \div 2 \in Nat
  OBVIOUS
<1>6. /\ opened \subseteq Positions /\ MarketOpen
      /\ collateral_amount \in [Positions -> U64] /\ debt_principal \in [Positions -> U64]
      /\ last_accrual_ts \in [Positions -> 0 .. now]
      /\ apr_bps \in [Positions -> 0 .. BPS \div 2]
  BY <1>5 DEF MarketOpen
<1>7. now \in 0 .. MaxTime /\ mint \in [Markets -> MintSettings]
  BY InputAssumption
<1> QED BY <1>1, <1>2, <1>3, <1>4, <1>6, <1>7 DEF TypeInv, TypeOK

LEMMA AppInitially == AppInit => AppInv
BY ListedTypes DEF AppInit, AppOpens, AppInv, ViewRead, SheetShown

(* What the app reads of a listed market.                                      *)
LEMMA SnapshotRead ==
  ASSUME AppInv, NEW p \in Positions
  PROVE  Snapshot(p) \in ViewType
<1> DEFINE m == p[1]
           price == IF signed_price[m] = NoPrice THEN 0 ELSE signed_price[m].price
           value == collateralValue(collateral_amount[p], price, market[m].haircut_bps,
                                    Info[m].multiplierMicro)
<1>1. m \in Markets /\ collateral_amount[p] \in Nat /\ debt_principal[p] \in Nat
  BY RowTypes DEF AppInv, TypeInv, TypeOK
<1>2. price \in Nat
  BY <1>1 DEF AppInv, TypeInv, TypeOK, SignedPriceType
<1>3. market[m] \in RiskParamsType /\ ValidRiskParams(market[m])
  BY <1>1, InputAssumption DEF AppInv, TypeInv, TypeOK, MarketsValid, Listed
<1>4. market[m].haircut_bps \in 0 .. BPS - 1
  BY <1>3 DEF RiskParamsType, ValidRiskParams, HaircutValid
<1>5. Info[m].multiplierMicro \in Nat
  BY RowTypes DEF Row
<1>6. value \in Nat
  <2> HIDE DEF m, price
  <2> QED BY <1>1, <1>2, <1>4, <1>5, ValueNat
<1>7. Snapshot(p) = [deposited |-> collateral_amount[p], debt |-> debt_principal[p],
                     priceUsd6 |-> price, valueUsd6 |-> value,
                     ltv |-> LtvBps(debt_principal[p], value)]
  BY DEF Snapshot
<1> HIDE DEF value, price, m
<1>8. LtvBps(debt_principal[p], value) \in Nat
  <2>1. CASE value = 0
    BY <2>1 DEF LtvBps
  <2>2. CASE value # 0
    BY <1>1, <1>6, <2>2, LtvCovers
  <2> QED BY <2>1, <2>2
<1> QED BY <1>1, <1>2, <1>6, <1>7, <1>8 DEF ViewType

(* Every amount the app fills in can be typed.                                 *)
LEMMA TokensTyped == \A n \in Nat : Typed(formatTokens(n)) \in Nat
<1> TAKE n \in Nat
<1>1. n \div TOKEN_STEP \in Nat /\ TOKEN_STEP \in Nat
  BY AppAssumption, FloorDiv DEF ClientAssumption
<1>2. (n \div TOKEN_STEP) * TOKEN_STEP \in Nat
  BY <1>1
<1> QED BY <1>2 DEF Typed, formatTokens

LEMMA MaxTyped ==
  ASSUME AppInv, NEW p \in Positions, view[p] # NoView,
         NEW kind \in {"borrow", "repay", "deposit", "withdraw"}
  PROVE  Typed(MaxText(kind, p)) \in Nat
<1>1. view[p] \in ViewType
  BY DEF AppInv, ViewRead
<1>2. CASE kind = "borrow"
  <2> DEFINE x == view[p].valueUsd6 * Row(p).maxLtvBps
  <2>1. x \in Nat
    BY <1>1, RowTypes DEF ViewType
  <2>2. x \div BPS \in Nat
    <3> HIDE DEF x
    <3> QED BY <2>1, FloorDiv
  <2>3. MaxBorrow(p) \in Nat
    BY <1>1, <2>2 DEF MaxBorrow, availableCredit, Monus, ViewType
  <2> QED BY <1>2, <2>3 DEF MaxText, Typed, Plain
<1>3. CASE kind = "repay"
  BY <1>3 DEF MaxText, Typed, All
<1>4. CASE kind = "deposit"
  <2>1. WalletBalance(p[1]) \in Nat
    BY RowTypes, InputAssumption DEF WalletBalance, AppInv, TypeInv, TypeOK
  <2> QED BY <1>4, <2>1, TokensTyped DEF MaxText
<1>5. CASE kind = "withdraw"
  <2>1. ExcessTokens(view[p], Row(p)) \in Nat
    <3> DEFINE num == Row(p).multiplierMicro * view[p].priceUsd6 * (BPS - Row(p).haircutBps)
               unit == num \div (MULTIPLIER_SCALE * BPS)
               owed == CeilDiv(view[p].debt * BPS, Row(p).maxLtvBps)
               excess == Monus(view[p].valueUsd6, owed)
    <3>1. num \in Nat /\ MULTIPLIER_SCALE * BPS \in Nat \ {0} /\ view[p].debt * BPS \in Nat
      BY <1>1, RowTypes DEF ViewType
    <3>2. unit \in Nat /\ owed \in Nat
      <4> HIDE DEF num
      <4> QED BY <3>1, FloorDiv, CeilDivBounds, RowTypes
    <3>3. excess \in Nat
      <4> HIDE DEF owed
      <4> QED BY <1>1, <3>2 DEF Monus, ViewType
    <3>4. ExcessTokens(view[p], Row(p)) =
            IF unit = 0 THEN 0 ELSE (excess * TOKEN_UNIT) \div unit
      BY DEF ExcessTokens
    <3> HIDE DEF unit, excess
    <3>5. excess * TOKEN_UNIT \in Nat
      BY <3>3
    <3>6. unit # 0 => (excess * TOKEN_UNIT) \div unit \in Nat
      BY <3>2, <3>5, FloorDiv
    <3> QED BY <3>4, <3>6
  <2>2. maxWithdraw(view[p], Row(p)) \in Nat
    BY <1>1, <2>1 DEF maxWithdraw, ViewType
  <2> QED BY <1>5, <2>2, TokensTyped DEF MaxText
<1> QED BY <1>2, <1>3, <1>4, <1>5

LEMMA FixTyped ==
  ASSUME AppInv, NEW p \in Positions, view[p] \in ViewType, view[p].priceUsd6 > 0
  PROVE  Fix(p).addTokens \in Nat /\ Fix(p).repayUsd6 \in Nat
<1> DEFINE d == view[p].debt
           price == view[p].priceUsd6
           l == Row(p).maxLtvBps
           h == Row(p).haircutBps
           m == Row(p).multiplierMicro
           value == collateralValue(view[p].deposited, price, h, m)
           x == (value * l) \div BPS
           need == CeilDiv(d * BPS, l)
           missing == Monus(need, value)
           short == missing * TOKEN_UNIT * MULTIPLIER_SCALE * BPS
           unit == price * m * (BPS - h)
<1>1. /\ d \in Nat /\ price \in Nat \ {0} /\ l \in Nat \ {0} /\ h \in 0 .. BPS - 1
      /\ m \in Nat \ {0} /\ value \in Nat
  <2>1. view[p].deposited \in Nat /\ price \in Nat \ {0} /\ view[p].debt \in Nat
    BY DEF ViewType
  <2>2. value \in Nat
    <3> HIDE DEF price
    <3> QED BY <2>1, RowTypes, ValueNat
  <2> HIDE DEF value
  <2> QED BY <2>1, <2>2, RowTypes
<1>2. /\ Fix(p).repayUsd6 = UpTo(CENT, Monus(d, x))
      /\ Fix(p).addTokens = UpTo(TOKEN_STEP, CeilDiv(short, unit))
  BY DEF Fix, fixAmounts, RepayFix, AddFix
<1> HIDE DEF value, d, l, price, h, m
<1>3. x \in Nat /\ need \in Nat
  <2>1. value * l \in Nat /\ d * BPS \in Nat
    BY <1>1
  <2> QED BY <1>1, <2>1, FloorDiv, CeilDivBounds
<1> HIDE DEF x, need
<1>4. Monus(d, x) \in Nat /\ missing \in Nat
  BY <1>1, <1>3 DEF Monus
<1>5. short \in Nat /\ unit \in Nat \ {0}
  <2>1. BPS - h \in Nat \ {0} /\ price * m \in Nat \ {0}
    BY <1>1
  <2> HIDE DEF missing
  <2> QED BY <1>4, <2>1
<1> HIDE DEF short, unit
<1>6. CeilDiv(short, unit) \in Nat
  BY <1>5, CeilDivBounds
<1> QED BY <1>2, <1>4, <1>6, RoundsUp, AppAssumption DEF UpToNat, ClientAssumption

-----------------------------------------------------------------------------
(* The steps.                                                                *)

(* An instruction on a position, whoever sends it.                             *)
LEMMA ProgramStep ==
  ASSUME AppInv, NEW p \in Positions, NEW c, NEW d, NEW a, PositionStep(p, c, d, a)
  PROVE  TypeInv' /\ Listed' /\ InMicros'
<1>1. TypeInv'
  BY TypePosition DEF AppInv
<1>2. market' = market /\ signed_price' = signed_price
  BY DEF PositionStep, admin_vars
<1> QED BY <1>1, <1>2 DEF AppInv, Listed, InMicros

LEMMA SheetSends ==
  ASSUME AppInv, sheet # NoSheet, Instruction(sheet)
  PROVE  TypeInv' /\ Listed' /\ InMicros'
<1> DEFINE p == sheet.p
           n == Typed(sheet.text)
           price == signed_price[p[1]] # NoPrice
<1>1. /\ p \in Positions /\ n \in Nat /\ U64Max \in Nat /\ price \in BOOLEAN
      /\ TypeOK /\ MarketsValid /\ MarketOpen
      /\ sheet.kind \in {"borrow", "repay", "deposit", "withdraw"}
  BY DEF AppInv, SheetShown, TypeInv
<1>2. CASE sheet.kind = "borrow"
  <2>1. Borrow(p, n)
    BY <1>2 DEF Instruction
  <2> HIDE DEF p, n
  <2> QED BY <1>1, <2>1, BorrowShape, ProgramStep
<1>3. CASE sheet.kind = "repay"
  <2> DEFINE k == IF sheet.text = All THEN U64Max ELSE n
  <2>1. Repay(p, k, price) /\ k \in Nat
    BY <1>1, <1>3 DEF Instruction
  <2> HIDE DEF p, n, k, price
  <2> QED BY <1>1, <2>1, RepayShape, ProgramStep
<1>4. CASE sheet.kind = "deposit"
  <2>1. LockCollateral(p, n, price)
    BY <1>4 DEF Instruction, DepositCollateral
  <2> HIDE DEF p, n, price
  <2> QED BY <1>1, <2>1, LockShape, ProgramStep
<1>5. CASE sheet.kind = "withdraw"
  <2>1. WithdrawCollateral(p, n, price)
    BY <1>5 DEF Instruction
  <2> HIDE DEF p, n, price
  <2> QED BY <1>1, <2>1, WithdrawShape, ProgramStep
<1> QED BY <1>1, <1>2, <1>3, <1>4, <1>5

LEMMA AppStep ==
  ASSUME AppInv, AppNext
  PROVE  AppInv'
<1>1. CASE UNCHANGED vars /\ ViewRead' /\ SheetShown'
  BY <1>1, TypeStep DEF AppInv, Listed, InMicros, vars, admin_vars
<1>2. ASSUME usePortfolio PROVE AppInv'
  <2>1. \A p \in Positions : Snapshot(p) \in ViewType
    BY SnapshotRead
  <2>2. \A p \in Positions : market[p[1]] # NoMarket
    BY RowTypes DEF AppInv, Listed
  <2>3. view' = [p \in Positions |-> Snapshot(p)]
    BY <1>2, <2>2 DEF usePortfolio
  <2>4. ViewRead' /\ \A p \in Positions : view'[p] # NoView
    BY <2>1, <2>3, AppAssumption DEF ViewRead
  <2>5. SheetShown'
    BY <1>2, <2>4 DEF usePortfolio, AppInv, SheetShown
  <2> QED BY <1>1, <1>2, <2>4, <2>5 DEF usePortfolio
<1>3. ASSUME NEW p \in Positions, NEW kind \in {"borrow", "repay", "deposit", "withdraw"},
             OpenSheet(kind, p)
      PROVE  AppInv'
  <2>1. SheetShown'
    BY <1>3 DEF OpenSheet, SheetShown, Sheet, Typed, Plain
  <2> QED BY <1>1, <1>3, <2>1 DEF OpenSheet, AppInv, ViewRead
<1>4. ASSUME NEW p \in Positions, BandBanner(p)
      PROVE  AppInv'
  <2>1. view[p] \in ViewType /\ view[p] # NoView /\ view[p].priceUsd6 > 0
    BY <1>4 DEF BandBanner, AppInv, ViewRead
  <2>2. Fix(p).addTokens \in Nat /\ Fix(p).repayUsd6 \in Nat
    BY <2>1, FixTyped
  <2>3. /\ Typed(formatTokens(Fix(p).addTokens)) \in Nat
        /\ Typed(Plain(Fix(p).repayUsd6)) \in Nat
    BY <2>2, TokensTyped DEF Typed, Plain
  <2>4. SheetShown'
    BY <1>4, <2>1, <2>3 DEF BandBanner, SheetShown, Sheet
  <2> QED BY <1>1, <1>4, <2>4 DEF BandBanner, AppInv, ViewRead
<1>5. ASSUME NEW n \in Amounts \union TokenAmounts, TypeAmount(n)
      PROVE  AppInv'
  <2>1. n \in Nat
    BY AmountsNat
  <2>2. SheetShown'
    BY <1>5, <2>1 DEF TypeAmount, AppInv, SheetShown, Typed, Plain
  <2> QED BY <1>1, <1>5, <2>2 DEF TypeAmount, AppInv, ViewRead
<1>6. ASSUME PressMax PROVE AppInv'
  <2>1. Typed(MaxText(sheet.kind, sheet.p)) \in Nat
    BY <1>6, MaxTyped DEF PressMax, AppInv, SheetShown
  <2>2. SheetShown'
    BY <1>6, <2>1 DEF PressMax, AppInv, SheetShown
  <2> QED BY <1>1, <1>6, <2>2 DEF PressMax, AppInv, ViewRead
<1>7. ASSUME CloseSheet \/ ConfirmRefused PROVE AppInv'
  <2>1. UNCHANGED <<vars, view>> /\ sheet' \in {NoSheet, sheet}
    BY <1>7 DEF CloseSheet, ConfirmRefused
  <2>2. ViewRead' /\ SheetShown'
    BY <2>1 DEF AppInv, ViewRead, SheetShown
  <2> QED BY <1>1, <2>1, <2>2
<1>8. ASSUME Confirm PROVE AppInv'
  <2>1. TypeInv' /\ Listed' /\ InMicros'
    BY <1>8, SheetSends DEF Confirm
  <2>2. ViewRead' /\ SheetShown'
    BY <1>8 DEF Confirm, AppInv, ViewRead, SheetShown
  <2> QED BY <2>1, <2>2 DEF AppInv
<1> QED BY <1>2, <1>3, <1>4, <1>5, <1>6, <1>7, <1>8 DEF AppNext

LEMMA OthersStep ==
  ASSUME AppInv, OthersNext
  PROVE  AppInv'
<1>1. ViewRead' /\ SheetShown'
  BY DEF OthersNext, app_vars, AppInv, ViewRead, SheetShown
<1>2. CASE Tick
  <2>1. TypeInv'
    BY <1>2, TypeEnv DEF AppInv, EnvNext
  <2>2. market' = market /\ signed_price' = signed_price
    BY <1>2 DEF Tick, admin_vars
  <2> QED BY <1>1, <2>1, <2>2 DEF AppInv, Listed, InMicros
<1>3. ASSUME NEW m \in Markets, NEW q \in PostedPrices, SetSignedPrice(m, q[1], q[2])
      PROVE  AppInv'
  <2>1. TypeInv'
    BY <1>3, TypeAdmin DEF AppInv, AdminNext
  <2>2. Listed'
    BY <1>3 DEF SetSignedPrice, AppInv, Listed
  <2>3. InMicros'
    <3>1. q[2] = -6
      BY AppAssumption
    <3> QED BY <1>3, <3>1 DEF SetSignedPrice, AppInv, InMicros, TypeInv, TypeOK
  <2> QED BY <1>1, <2>1, <2>2, <2>3 DEF AppInv
<1>4. ASSUME NEW p \in Positions, NEW amount \in Amounts, Liquidate(p, amount)
      PROVE  AppInv'
  <2>1. TypeInv' /\ Listed' /\ InMicros'
    BY <1>4, AmountsNat, LiquidateShape, ProgramStep DEF AppInv, TypeInv
  <2> QED BY <1>1, <2>1 DEF AppInv
<1> QED BY <1>2, <1>3, <1>4 DEF OthersNext

LEMMA AppInvariant == AppSpec => []AppInv
<1>1. AppInv /\ [AppNext \/ OthersNext]_all_vars => AppInv'
  <2> SUFFICES ASSUME AppInv, [AppNext \/ OthersNext]_all_vars PROVE AppInv'
    OBVIOUS
  <2>1. CASE UNCHANGED all_vars
    BY <2>1, TypeStep DEF all_vars, app_vars, vars, admin_vars, AppInv, Listed, InMicros,
       ViewRead, SheetShown
  <2> QED BY <2>1, AppStep, OthersStep
<1> QED BY <1>1, AppInitially, PTL DEF AppSpec

(* A loan of what a current sheet offers is within max LTV for the program;      *)
(* either fix of a banner brings the position to max LTV or below; and whatever   *)
(* could be liquidated, or is below the price the app names, is shown as such.    *)
THEOREM QuotesAlwaysHold == AppSpec => []QuotesHold
BY AppInvariant, QuotesFollow, PTL
-----------------------------------------------------------------------------
(* Home: credit that is shown can be borrowed from the positions one by one. *)

LEMMA SumBelowSums ==
  ASSUME NEW S, IsFiniteSet(S), NEW f, NEW g, NEW h,
         \A x \in S : f[x] \in Nat /\ g[x] \in Nat /\ h[x] \in Nat /\ f[x] <= g[x] + h[x]
  PROVE  SumFunctionOnSet(f, S) <= SumFunctionOnSet(g, S) + SumFunctionOnSet(h, S)
<1> DEFINE Below(T) == SumFunctionOnSet(f, T) <= SumFunctionOnSet(g, T) + SumFunctionOnSet(h, T)
           Bad == {T \in SUBSET S : ~Below(T)}
<1>1. SUFFICES ASSUME Bad # {} PROVE FALSE
  OBVIOUS
<1>2. PICK T \in Bad : \A U \in Bad : U \subseteq T => U = T
  <2> Bad \in SUBSET (SUBSET S)
    OBVIOUS
  <2> HIDE DEF Bad
  <2> QED BY <1>1, MinimalSubset
<1>3. IsFiniteSet(T) /\ ~Below(T)
  BY FS_Subset
<1>4. T # {}
  <2>1. /\ SumFunctionOnSet(f, {}) = 0 /\ SumFunctionOnSet(g, {}) = 0
        /\ SumFunctionOnSet(h, {}) = 0
    BY SumEmpty
  <2>2. 0 <= 0 + 0
    OBVIOUS
  <2> QED BY <1>3, <2>1, <2>2
<1>5. PICK x \in T : TRUE
  BY <1>4
<1> DEFINE R == T \ {x}
<1>6. /\ SumFunctionOnSet(f, T) = f[x] + SumFunctionOnSet(f, R)
      /\ SumFunctionOnSet(g, T) = g[x] + SumFunctionOnSet(g, R)
      /\ SumFunctionOnSet(h, T) = h[x] + SumFunctionOnSet(h, R)
  BY <1>3, <1>5, SumExtract
<1>7. /\ SumFunctionOnSet(f, R) \in Nat /\ SumFunctionOnSet(g, R) \in Nat
      /\ SumFunctionOnSet(h, R) \in Nat
  <2>1. IsFiniteSet(R) /\ \A y \in R : f[y] \in Nat /\ g[y] \in Nat /\ h[y] \in Nat
    BY <1>3, FS_Subset
  <2> HIDE DEF R
  <2> QED BY <2>1, SumNat
<1>8. Below(R)
  BY <1>2, <1>5
<1> HIDE DEF R, Bad
<1>9. f[x] \in Nat /\ g[x] \in Nat /\ h[x] \in Nat /\ f[x] <= g[x] + h[x]
  BY <1>2, <1>5 DEF Bad
<1> QED BY <1>3, <1>6, <1>7, <1>8, <1>9

CONSTANTS MARKETS, Rows, Opening, Cash, Prices, Moves, MaxMoves, Faults, Unread
VARIABLES held, cash, price, refresh, portfolio, wanted, got, extras, moves

Home == INSTANCE HomePage WITH Info <- Rows

Seen == [wallet : Nat, locked : Nat, debt : Nat, price : Nat]
Refreshes ==
  [at : {"price", "holdings"}, i : 1 .. Len(MARKETS), assets : [Home!MarketSet -> Seen],
   left : SUBSET {"wallet", "position"}]

HomeInv ==
  /\ held \in [Home!MarketSet -> Home!Holding] /\ price \in [Home!MarketSet -> Nat]
  /\ refresh = Home!Idle \/ refresh \in Refreshes
  /\ portfolio = Unread \/ portfolio \in [Home!MarketSet -> Seen]

LEMMA MarketsListed ==
  ASSUME Home!HomeAssumption
  PROVE  /\ IsFiniteSet(Home!MarketSet) /\ 1 \in 1 .. Len(MARKETS)
         /\ \A i \in 1 .. Len(MARKETS) : MARKETS[i] \in Home!MarketSet
<1>1. MARKETS \in Seq(Home!MarketSet) /\ MARKETS # <<>>
  BY DEF Home!HomeAssumption
<1>2. Home!MarketSet = {MARKETS[i] : i \in 1 .. Len(MARKETS)}
  BY <1>1 DEF Home!MarketSet, Home!ToSet
<1>3. IsFiniteSet(1 .. Len(MARKETS)) /\ Len(MARKETS) \in Nat \ {0}
  BY <1>1, FS_Interval
<1>4. IsFiniteSet(Home!MarketSet)
  <2>1. MARKETS \in Surjection(1 .. Len(MARKETS), Home!MarketSet)
    BY <1>1, <1>2 DEF Surjection
  <2> QED BY <1>3, <2>1, FS_Surjection
<1> QED BY <1>2, <1>3, <1>4

LEMMA HomeInit ==
  ASSUME Home!HomeAssumption, Home!Init
  PROVE  HomeInv
BY DEF Home!HomeAssumption, Home!Init, HomeInv

(* A read fills in one number of the market it is at. *)
LEMMA ReadKept ==
  ASSUME Home!HomeAssumption, HomeInv, NEW y \in Refreshes, refresh' = y,
         UNCHANGED <<held, price, portfolio>>
  PROVE  HomeInv'
BY DEF HomeInv

LEMMA PortfolioKept ==
  ASSUME Home!HomeAssumption, HomeInv,
         Home!PortfolioStep \/ Home!MissBalance \/ Home!PortfolioFails
  PROVE  HomeInv'
<1> DEFINE m == Home!Current
<1>1. ASSUME refresh # Home!Idle
      PROVE  /\ refresh \in Refreshes /\ m \in Home!MarketSet
             /\ held[m] \in Home!Holding /\ price[m] \in Nat /\ refresh.assets[m] \in Seen
  <2>1. refresh \in Refreshes
    BY <1>1 DEF HomeInv
  <2>2. m \in Home!MarketSet
    BY <2>1, MarketsListed DEF Home!Current, Refreshes
  <2> QED BY <2>1, <2>2 DEF HomeInv, Refreshes
<1>2. ASSUME NEW s \in Seen, NEW f, f = [refresh.assets EXCEPT ![m] = s],
             NEW p \in {"price", "holdings"}, NEW l \in SUBSET {"wallet", "position"},
             refresh # Home!Idle
      PROVE  [refresh EXCEPT !.at = p, !.left = l, !.assets = f] \in Refreshes
  BY <1>1, <1>2 DEF Refreshes
<1>3. CASE Home!StartPortfolio
  <2> DEFINE y == [at |-> "price", i |-> 1, assets |-> [v \in Home!MarketSet |-> Home!Nothing],
                   left |-> {}]
  <2>1. Home!Nothing \in Seen
    BY DEF Home!Nothing, Seen
  <2>2. y \in Refreshes
    BY <2>1, MarketsListed DEF Refreshes
  <2>3. refresh' = y /\ UNCHANGED <<held, price, portfolio>>
    BY <1>3 DEF Home!StartPortfolio, Home!chain_vars
  <2> HIDE DEF y
  <2> QED BY <2>2, <2>3, ReadKept
<1>4. CASE Home!ReadPrice
  <2> DEFINE s == [refresh.assets[m] EXCEPT !.price = price[m]]
             y == [refresh EXCEPT !.at = "holdings", !.left = {"wallet", "position"},
                                  !.assets = [refresh.assets EXCEPT ![m] = s]]
  <2>1. refresh # Home!Idle
    BY <1>4 DEF Home!ReadPrice, Home!Idle
  <2>2. s \in Seen
    BY <1>1, <2>1 DEF Seen
  <2>3. refresh' = y /\ UNCHANGED <<held, price, portfolio>>
    BY <1>4 DEF Home!ReadPrice, Home!chain_vars
  <2> HIDE DEF s
  <2>4. y \in Refreshes
    BY <1>2, <2>1, <2>2
  <2> HIDE DEF y
  <2> QED BY <2>3, <2>4, ReadKept
<1>5. CASE Home!ReadBalance \/ Home!MissBalance
  <2>1. PICK n : Home!BalanceRead(n) /\ (n = 0 \/ n = held[m].wallet)
    BY <1>5 DEF Home!ReadBalance, Home!MissBalance
  <2>2. refresh # Home!Idle
    BY <2>1 DEF Home!BalanceRead, Home!Idle
  <2> DEFINE s == [refresh.assets[m] EXCEPT !.wallet = n]
             l == refresh.left \ {"wallet"}
             y == [refresh EXCEPT !.at = refresh.at, !.left = l,
                                  !.assets = [refresh.assets EXCEPT ![m] = s]]
  <2>3. n \in Nat
    BY <1>1, <2>1, <2>2 DEF Home!Holding
  <2>4. s \in Seen /\ refresh.at \in {"price", "holdings"}
        /\ l \in SUBSET {"wallet", "position"}
    BY <1>1, <2>2, <2>3 DEF Seen, Refreshes
  <2>5. refresh' = y /\ UNCHANGED <<held, price, portfolio>>
    BY <1>1, <2>1, <2>2 DEF Home!BalanceRead, Home!chain_vars, Refreshes
  <2> HIDE DEF s, l
  <2>6. y \in Refreshes
    BY <1>2, <2>2, <2>4
  <2> HIDE DEF y
  <2> QED BY <2>5, <2>6, ReadKept
<1>6. CASE Home!ReadPosition
  <2>1. refresh # Home!Idle
    BY <1>6 DEF Home!ReadPosition, Home!Idle
  <2> DEFINE s == [refresh.assets[m] EXCEPT !.locked = held[m].locked, !.debt = held[m].debt]
             l == refresh.left \ {"position"}
             y == [refresh EXCEPT !.at = refresh.at, !.left = l,
                                  !.assets = [refresh.assets EXCEPT ![m] = s]]
  <2>2. s \in Seen /\ refresh.at \in {"price", "holdings"}
        /\ l \in SUBSET {"wallet", "position"}
    BY <1>1, <2>1 DEF Seen, Refreshes, Home!Holding
  <2>3. refresh' = y /\ UNCHANGED <<held, price, portfolio>>
    BY <1>1, <1>6, <2>1 DEF Home!ReadPosition, Home!chain_vars, Refreshes
  <2> HIDE DEF s, l
  <2>4. y \in Refreshes
    BY <1>2, <2>1, <2>2
  <2> HIDE DEF y
  <2> QED BY <2>3, <2>4, ReadKept
<1>7. CASE Home!NextMarket
  <2>1. refresh # Home!Idle /\ UNCHANGED <<held, price>>
    BY <1>7 DEF Home!NextMarket, Home!Idle, Home!chain_vars
  <2>2. CASE refresh.i < Len(MARKETS)
    <3>1. refresh' = [refresh EXCEPT !.at = "price", !.i = refresh.i + 1] /\ portfolio' = portfolio
      BY <1>7, <2>2 DEF Home!NextMarket
    <3>2. refresh.i + 1 \in 1 .. Len(MARKETS)
      BY <1>1, <2>1, <2>2 DEF Refreshes
    <3>3. [refresh EXCEPT !.at = "price", !.i = refresh.i + 1] \in Refreshes
      BY <1>1, <2>1, <3>2 DEF Refreshes
    <3> QED BY <2>1, <3>1, <3>3, ReadKept
  <2>3. CASE ~(refresh.i < Len(MARKETS))
    <3>1. refresh' = Home!Idle /\ portfolio' = refresh.assets
      BY <1>7, <2>3 DEF Home!NextMarket
    <3>2. refresh.assets \in [Home!MarketSet -> Seen]
      BY <1>1, <2>1 DEF Refreshes
    <3> QED BY <2>1, <3>1, <3>2 DEF HomeInv
  <2> QED BY <2>2, <2>3
<1>8. CASE Home!PortfolioFails
  BY <1>8 DEF Home!PortfolioFails, Home!chain_vars, HomeInv
<1> QED BY <1>3, <1>4, <1>5, <1>6, <1>7, <1>8 DEF Home!PortfolioStep

LEMMA MovesKept ==
  ASSUME Home!HomeAssumption, HomeInv, NEW m \in Home!MarketSet,
         \/ Home!Lock(m) \/ Home!Unlock(m) \/ Home!Borrow(m) \/ Home!Repay(m)
         \/ Home!PriceMoves(m)
  PROVE  HomeInv'
<1>1. held[m] \in Home!Holding
  BY DEF HomeInv
<1>2. ASSUME NEW h \in Home!Holding, held' = [held EXCEPT ![m] = h],
             UNCHANGED <<price, refresh, portfolio>>
      PROVE  HomeInv'
  BY <1>2 DEF HomeInv
<1>3. ASSUME NEW n \in Int, Home!MoveTokens(m, n), held[m].wallet - n \in Nat,
             held[m].locked + n \in Nat
      PROVE  HomeInv'
  <2> DEFINE h == [held[m] EXCEPT !.wallet = held[m].wallet - n, !.locked = held[m].locked + n]
  <2>1. h \in Home!Holding
    BY <1>1, <1>3 DEF Home!Holding
  <2>2. held' = [held EXCEPT ![m] = h] /\ UNCHANGED <<price, refresh, portfolio>>
    BY <1>1, <1>3 DEF Home!MoveTokens, Home!page_vars, HomeInv, Home!Holding
  <2> HIDE DEF h
  <2> QED BY <1>2, <2>1, <2>2
<1>4. ASSUME NEW n \in Int, Home!Owe(m, n), held[m].debt + n \in Nat
      PROVE  HomeInv'
  <2> DEFINE h == [held[m] EXCEPT !.debt = held[m].debt + n]
  <2>1. h \in Home!Holding
    BY <1>1, <1>4 DEF Home!Holding
  <2>2. held' = [held EXCEPT ![m] = h] /\ UNCHANGED <<price, refresh, portfolio>>
    BY <1>1, <1>4 DEF Home!Owe, Home!page_vars, HomeInv, Home!Holding
  <2> HIDE DEF h
  <2> QED BY <1>2, <2>1, <2>2
<1>5. held[m].wallet \in Nat /\ held[m].locked \in Nat /\ held[m].debt \in Nat
  BY <1>1 DEF Home!Holding
<1>6. CASE Home!Lock(m)
  BY <1>3, <1>5, <1>6 DEF Home!Lock
<1>7. CASE Home!Unlock(m)
  BY <1>3, <1>5, <1>7 DEF Home!Unlock
<1>8. CASE Home!Borrow(m)
  BY <1>4, <1>5, <1>8 DEF Home!Borrow
<1>9. CASE Home!Repay(m)
  BY <1>4, <1>5, <1>9 DEF Home!Repay
<1>10. CASE Home!PriceMoves(m)
  <2>1. PICK n \in Prices : price' = [price EXCEPT ![m] = n]
    BY <1>10 DEF Home!PriceMoves
  <2>2. n \in Nat
    BY DEF Home!HomeAssumption
  <2> QED BY <1>10, <2>1, <2>2 DEF Home!PriceMoves, Home!page_vars, HomeInv
<1> QED BY <1>6, <1>7, <1>8, <1>9, <1>10

LEMMA HomeStep ==
  ASSUME Home!HomeAssumption, HomeInv, [Home!Next]_(Home!vars)
  PROVE  HomeInv'
<1>1. CASE UNCHANGED Home!vars
  BY <1>1 DEF Home!vars, Home!chain_vars, Home!page_vars, HomeInv
<1>2. ASSUME Home!ExtrasStep \/ \E k \in DOMAIN cash : Home!MissExtra(k)
      PROVE  HomeInv'
  BY <1>2 DEF Home!ExtrasStep, Home!StartExtras, Home!ReadExtra, Home!MissExtra, Home!ExtraRead,
             Home!chain_vars, HomeInv
<1> QED BY <1>1, <1>2, PortfolioKept, MovesKept DEF Home!Next

LEMMA HomeSum ==
  ASSUME NEW f, NEW S
  PROVE  Home!SumFunctionOnSet(f, S) = SumFunctionOnSet(f, S)
BY DEF SumFunctionOnSet, FoldFunctionOnSet, MapThenFoldSet, Home!SumFunctionOnSet,
       Home!FoldFunctionOnSet, Home!MapThenFoldSet

LEMMA HomeValueNat ==
  ASSUME NEW n \in Nat, NEW p \in Nat, NEW c \in 0 .. BPS, NEW k \in Nat
  PROVE  Home!collateralValue(n, p, c, k) \in Nat
<1>1. n * k * p \in Nat /\ TOKEN_UNIT * MULTIPLIER_SCALE \in Nat \ {0}
  BY ScaleAssumption
<1> DEFINE gross == (n * k * p) \div (TOKEN_UNIT * MULTIPLIER_SCALE)
<1>2. gross \in Nat
  <2> HIDE DEF gross
  <2>1. \A a \in Nat, b \in Nat \ {0} : a \div b \in Nat
    BY FloorDiv
  <2> QED BY <1>1, <2>1 DEF gross
<1> HIDE DEF gross
<1>3. gross * (BPS - c) \in Nat /\ BPS \in Nat \ {0}
  BY <1>2, ScaleAssumption
<1>4. (gross * (BPS - c)) \div BPS \in Nat
  BY <1>3, FloorDiv
<1> QED BY <1>4 DEF Home!collateralValue, gross

(* Credit shown as available can be borrowed, from the positions one by one. *)
LEMMA CreditKept ==
  ASSUME Home!HomeAssumption, HomeInv
  PROVE  Home!AvailableIsBorrowable
<1> DEFINE Line(m) == (Home!valueUsd6(m) * Rows[m].maxLtvBps) \div BPS
           Room(m) == Home!availableCredit(portfolio[m].debt, Home!valueUsd6(m),
                                           Rows[m].maxLtvBps)
           f == [m \in Home!MarketSet |-> Line(m)]
           g == [m \in Home!MarketSet |-> portfolio[m].debt]
           h == [m \in Home!MarketSet |-> Room(m)]
           M == Home!MarketSet
<1> SUFFICES ASSUME Home!Loaded
             PROVE  Home!availableUsd6 <= SumFunctionOnSet(h, M)
  BY HomeSum DEF Home!AvailableIsBorrowable, Home!SumOver
<1>1. /\ Home!availableUsd6 = Home!Monus(SumFunctionOnSet(f, M), SumFunctionOnSet(g, M))
  BY HomeSum DEF Home!availableUsd6, Home!AvailableOf, Home!creditLineUsd6, Home!debtUsd6,
                 Home!SumOver
<1>2. portfolio \in [M -> Seen]
  BY DEF HomeInv, Home!Loaded
<1>3. ASSUME NEW m \in M
      PROVE  /\ portfolio[m].debt \in Nat /\ Line(m) \in Nat
             /\ Room(m) = Home!Monus(Line(m), portfolio[m].debt)
  <2>1. portfolio[m].debt \in Nat /\ portfolio[m].locked \in Nat /\ portfolio[m].price \in Nat
    BY <1>2 DEF Seen
  <2>2. /\ Rows[m].maxLtvBps \in Nat /\ Rows[m].multiplierMicro \in Nat
        /\ Rows[m].haircutBps \in 0 .. BPS
    BY DEF Home!HomeAssumption
  <2>3. Home!valueUsd6(m) \in Nat
    BY <2>1, <2>2, HomeValueNat DEF Home!valueUsd6
  <2>4. Home!valueUsd6(m) * Rows[m].maxLtvBps \in Nat /\ BPS \in Nat \ {0}
    BY <2>2, <2>3, ScaleAssumption
  <2> HIDE DEF Home!valueUsd6
  <2>5. Line(m) \in Nat
    BY <2>4, FloorDiv
  <2> QED BY <2>1, <2>5 DEF Home!availableCredit
<1> HIDE DEF Line, Room
<1>4. \A m \in M : f[m] \in Nat /\ g[m] \in Nat /\ h[m] \in Nat /\ f[m] <= g[m] + h[m]
  BY <1>3 DEF Home!Monus
<1> HIDE DEF f, g, h, M
<1>5. IsFiniteSet(M)
  BY MarketsListed DEF M
<1>6. /\ SumFunctionOnSet(f, M) \in Nat /\ SumFunctionOnSet(g, M) \in Nat
      /\ SumFunctionOnSet(h, M) \in Nat
  BY <1>4, <1>5, SumNat
<1>7. SumFunctionOnSet(f, M) <= SumFunctionOnSet(g, M) + SumFunctionOnSet(h, M)
  BY <1>4, <1>5, SumBelowSums
<1> QED BY <1>1, <1>6, <1>7 DEF Home!Monus

(* A position that anybody may liquidate at its posted price has a banner. *)
LEMMA RiskKept == Home!RiskIsAnnounced
<1> SUFFICES ASSUME Home!SeenAsIs, NEW m \in Home!MarketSet, Home!CanBeLiquidated(m)
             PROVE  <<m, "liquidatable">> \in Home!banners
  BY DEF Home!RiskIsAnnounced
<1>1. /\ portfolio[m].locked = held[m].locked /\ portfolio[m].debt = held[m].debt
      /\ portfolio[m].price = price[m]
  <2>1. portfolio[m] = [wallet |-> held[m].wallet, locked |-> held[m].locked,
                        debt |-> held[m].debt, price |-> price[m]]
    BY DEF Home!SeenAsIs
  <2> QED BY <2>1
<1>2. Home!ltv(m) > Rows[m].liqThresholdBps /\ m \in Home!Indebted
  BY <1>1 DEF Home!CanBeLiquidated, Home!Indebted, Home!ltv, Home!valueUsd6
<1>3. Home!alertBand(Home!ltv(m), Rows[m]) = "liquidatable"
  BY <1>2 DEF Home!alertBand
<1> QED BY <1>2, <1>3 DEF Home!banners, Home!BandsOf

(* What Home offers as a whole is no more than the positions it counts can borrow each   *)
(* for itself, whichever are over their limits (balances-core.ts), and an up to date      *)
(* Home announces every position that can be liquidated (band-banners.tsx), whatever      *)
(* failed to be read and whichever way the wallet and prices moved in between.            *)
THEOREM HomeAlwaysHonest ==
  ASSUME Home!HomeAssumption
  PROVE  Home!Spec => [](Home!AvailableIsBorrowable /\ Home!RiskIsAnnounced)
<1>1. Home!Init => HomeInv
  BY HomeInit
<1>2. HomeInv /\ [Home!Next]_(Home!vars) => HomeInv'
  BY HomeStep
<1>3. HomeInv => Home!AvailableIsBorrowable /\ Home!RiskIsAnnounced
  BY CreditKept, RiskKept
<1> QED BY <1>1, <1>2, <1>3, PTL DEF Home!Spec
-----------------------------------------------------------------------------
(* The sheet "Send to your bank": a transaction carries what Confirm was pressed for,  *)
(* and the debt is the sum of the loans that were transferred.                    *)

CONSTANTS Accounts, Assets, Cents, MinEurCents, PurposeAbove, UsdcFor(_, _), Rates, Limits,
          MaxSends, Timeouts
VARIABLES saved, rate, debt, limit, usdc, paidTo, txs, booked, seen, form, job

Bank == INSTANCE BankPage

Portfolios == [Bank!Positions -> [debt : Nat, limit : Nat]]

GoodPress(p) ==
  /\ p.cents \in Cents /\ p.source \in Bank!Sources
  /\ p.portfolio = Unread \/ p.portfolio \in Portfolios

(* A job or a transaction that carries what was pressed. *)
Carries(x) ==
  /\ GoodPress(x.pressed)
  /\ x.source = x.pressed.source /\ x.account = x.pressed.account
  /\ x.usdc \in {UsdcFor(x.pressed.cents, e) : e \in Rates}

GoodJob(j) ==
  /\ "at" \in DOMAIN j
  /\ \/ j.at \in {"ready", "sent", "reporting", "done"}
     \/ j.at = "quoting" /\ GoodPress(j.pressed)
     \/ j.at = "looking" /\ Carries(j)
     \/ /\ j.at = "signing" /\ Carries(j)
        /\ j.source = "borrow" => j.pressed.portfolio # Unread

GoodTx(t) ==
  /\ t = [source |-> t.source, usdc |-> t.usdc, account |-> t.account, create |-> t.create,
          pressed |-> t.pressed, state |-> t.state, asset |-> t.asset]
  /\ Carries(t) /\ t.state \in {"sent", "ok", "failed"} /\ t.asset \in Bank!Positions

Ledger == [i \in DOMAIN txs |-> Bank!Lent(txs[i])]

SentInv ==
  /\ debt \in [Bank!Positions -> Nat] /\ limit \in [Bank!Positions -> Nat] /\ rate \in Rates
  /\ form = [source |-> form.source, cents |-> form.cents, account |-> form.account,
             purpose |-> form.purpose]
  /\ form.cents \in Cents \cup {0} /\ form.source \in Bank!Sources
  /\ seen = [q \in Bank!QueryNames |-> seen[q]]
  /\ seen["portfolio"] = Unread \/ seen["portfolio"] \in Portfolios
  /\ seen["quote"] = Unread \/ seen["quote"].usdc \in Nat
  /\ GoodJob(job)
  /\ \E T : txs \in Seq(T)
  /\ \A i \in DOMAIN txs : GoodTx(txs[i])

LedgerInv ==
  SumFunctionOnSet(debt, Bank!Positions) = SumFunctionOnSet(Ledger, DOMAIN txs)

LEMMA BankSum ==
  ASSUME NEW f, NEW S
  PROVE  Bank!SumFunctionOnSet(f, S) = SumFunctionOnSet(f, S)
BY DEF SumFunctionOnSet, FoldFunctionOnSet, MapThenFoldSet, Bank!SumFunctionOnSet,
       Bank!FoldFunctionOnSet, Bank!MapThenFoldSet

LEMMA PositionsListed ==
  ASSUME Bank!BankPageAssumption
  PROVE  /\ IsFiniteSet(Bank!Positions) /\ IsFiniteSet(DOMAIN Assets) /\ DOMAIN Assets # {}
         /\ DOMAIN Assets = 1 .. Len(Assets)
         /\ \A i \in DOMAIN Assets : Assets[i] \in Bank!Positions
         /\ \A p \in Bank!Positions : \E i \in DOMAIN Assets : Assets[i] = p
         /\ Head(Assets) \in Bank!Positions
<1>1. Assets \in Seq(Bank!Positions) /\ Assets # <<>>
  BY DEF Bank!BankPageAssumption
<1>2. Bank!Positions = {Assets[i] : i \in DOMAIN Assets}
  BY DEF Bank!Positions, Bank!ToSet
<1>3. /\ DOMAIN Assets = 1 .. Len(Assets) /\ Len(Assets) \in Nat \ {0}
      /\ Head(Assets) = Assets[1]
  BY <1>1
<1>4. IsFiniteSet(1 .. Len(Assets))
  BY <1>3, FS_Interval
<1>5. IsFiniteSet(Bank!Positions)
  <2>1. Assets \in Surjection(1 .. Len(Assets), Bank!Positions)
    BY <1>1, <1>2, <1>3 DEF Surjection
  <2> QED BY <1>4, <2>1, FS_Surjection
<1> QED BY <1>2, <1>3, <1>4, <1>5

(* Of the positions in a portfolio one has the most room, the first of equals: what beats  *)
(* one is less than what beats another that it beats.                             *)
LEMMA SomeHasMost ==
  ASSUME Bank!BankPageAssumption, NEW room, \A i \in DOMAIN Assets : room[i] \in Nat
  PROVE  \E i \in DOMAIN Assets :
           /\ \A j \in DOMAIN Assets : room[j] <= room[i]
           /\ \A j \in 1 .. (i - 1) : room[j] < room[i]
<1> DEFINE I == DOMAIN Assets
           Beats(j, i) == room[j] > room[i] \/ (room[j] = room[i] /\ j < i)
           Above(i) == {j \in I : Beats(j, i)}
           F == {Above(i) : i \in I}
<1>1. IsFiniteSet(I) /\ I # {} /\ I = 1 .. Len(Assets) /\ I \subseteq Int
  BY PositionsListed
<1>2. F \in SUBSET (SUBSET I) /\ F # {}
  BY <1>1
<1>3. PICK A \in F : \A B \in F : B \subseteq A => B = A
  <2>1. IsFiniteSet(I) /\ F \subseteq SUBSET I /\ F # {}
    BY <1>1, <1>2
  <2> HIDE DEF F, I
  <2> QED BY <2>1, MinimalSubset
<1>4. PICK i \in I : A = Above(i)
  OBVIOUS
<1> HIDE DEF I
<1>5. ASSUME NEW j \in I, Beats(j, i) PROVE FALSE
  <2>1. \A k \in I : Beats(k, j) => Beats(k, i)
    BY <1>1, <1>5 DEF I
  <2>2. Above(j) = Above(i)
    <3>1. Above(j) \subseteq Above(i) /\ Above(j) \in F
      BY <2>1
    <3> QED BY <1>3, <1>4, <3>1
  <2>3. j \in Above(i) /\ j \notin Above(j)
    BY <1>1, <1>5 DEF I
  <2> QED BY <2>2, <2>3
<1>6. \A j \in I : room[j] \in Nat
  BY DEF I
<1>7. \A j \in I : room[j] <= room[i]
  BY <1>5, <1>6
<1>8. \A j \in 1 .. (i - 1) : j \in I /\ j < i
  BY <1>1, <1>4
<1> QED BY <1>5, <1>6, <1>7, <1>8 DEF I

(* borrowAsset: the position with the most headroom. *)
LEMMA MostHeadroomIs ==
  ASSUME Bank!BankPageAssumption, NEW folio \in Portfolios
  PROVE  /\ Bank!borrowAsset(folio) \in Bank!Positions
         /\ \A p \in Bank!Positions :
              Bank!availableCredit(folio[p]) <= Bank!availableCredit(folio[Bank!borrowAsset(folio)])
<1> DEFINE room == [i \in DOMAIN Assets |-> Bank!availableCredit(folio[Assets[i]])]
           Most(i) == /\ \A j \in DOMAIN Assets : room[j] <= room[i]
                      /\ \A j \in 1 .. (i - 1) : room[j] < room[i]
           best == CHOOSE i \in DOMAIN Assets : Most(i)
<1>1. \A i \in DOMAIN Assets : room[i] \in Nat
  <2>1. \A p \in Bank!Positions : folio[p].limit \in Nat /\ folio[p].debt \in Nat
    BY DEF Portfolios
  <2>2. \A p \in Bank!Positions : Bank!availableCredit(folio[p]) \in Nat
    BY <2>1 DEF Bank!availableCredit
  <2> QED BY <2>2, PositionsListed
<1>2. \E i \in DOMAIN Assets : Most(i)
  <2> HIDE DEF room
  <2> QED BY <1>1, SomeHasMost
<1>3. best \in DOMAIN Assets /\ Most(best)
  <2> HIDE DEF Most
  <2> QED BY <1>2
<1>4. Bank!borrowAsset(folio) = Assets[best]
  <2> DEFINE Code(i) ==
               /\ \A j \in DOMAIN Assets : Bank!availableCredit(folio[Assets[j]])
                                             <= Bank!availableCredit(folio[Assets[i]])
               /\ \A j \in 1 .. (i - 1) : Bank!availableCredit(folio[Assets[j]])
                                             < Bank!availableCredit(folio[Assets[i]])
  <2>1. Bank!borrowAsset(folio) = Assets[CHOOSE i \in DOMAIN Assets : Code(i)]
    BY DEF Bank!borrowAsset, Bank!MostHeadroom
  <2>2. \A i \in DOMAIN Assets : 1 .. (i - 1) \subseteq DOMAIN Assets
    BY PositionsListed
  <2>3. \A i \in DOMAIN Assets : Code(i) <=> Most(i)
    BY <2>2
  <2>4. (CHOOSE i \in DOMAIN Assets : Code(i)) = best
    <3> HIDE DEF Code, Most
    <3> QED BY <2>3
  <2> QED BY <2>1, <2>4
<1> HIDE DEF best
<1>5. \A i \in DOMAIN Assets : Bank!availableCredit(folio[Assets[i]])
                                 <= Bank!availableCredit(folio[Assets[best]])
  BY <1>3
<1> QED BY <1>3, <1>4, <1>5, PositionsListed

LEMMA Wider ==
  ASSUME NEW T, NEW U, T \subseteq U, NEW s \in Seq(T)
  PROVE  s \in Seq(U)
<1>1. s \in [1 .. Len(s) -> T] /\ Len(s) \in Nat
  OBVIOUS
<1>2. s \in [1 .. Len(s) -> U]
  BY <1>1
<1> QED BY <1>1, <1>2

LEMMA LedgerIsNat ==
  ASSUME Bank!BankPageAssumption, SentInv
  PROVE  /\ \E n \in Nat : Len(txs) = n /\ DOMAIN txs = 1 .. n
         /\ IsFiniteSet(DOMAIN txs) /\ Ledger \in [DOMAIN txs -> Nat]
         /\ \A i \in DOMAIN txs : txs[i].usdc \in Nat
<1>1. PICK T : txs \in Seq(T)
  BY DEF SentInv
<1>2. Len(txs) \in Nat /\ DOMAIN txs = 1 .. Len(txs)
  BY <1>1
<1>3. \A i \in DOMAIN txs : txs[i].usdc \in Nat
  BY DEF SentInv, GoodTx, Carries, GoodPress, Bank!BankPageAssumption
<1>4. IsFiniteSet(1 .. Len(txs))
  BY <1>2, FS_Interval
<1>5. Ledger \in [DOMAIN txs -> Nat]
  BY <1>3 DEF Ledger, Bank!Lent
<1> QED BY <1>2, <1>3, <1>4, <1>5

LEMMA BankStarts ==
  ASSUME Bank!BankPageAssumption, Bank!Init
  PROVE  SentInv /\ LedgerInv
<1>1. /\ rate \in Rates /\ debt = [p \in Bank!Positions |-> 0]
      /\ limit \in [Bank!Positions -> Limits] /\ txs = <<>>
      /\ seen = [q \in Bank!QueryNames |-> Unread] /\ job = [at |-> "ready"]
  BY DEF Bank!Init, Bank!Ready
<1>2. form.cents \in {0} /\ form.source \in Bank!Sources
      /\ form = [source |-> form.source, cents |-> form.cents, account |-> form.account,
                 purpose |-> form.purpose]
  BY DEF Bank!Init
<1>3. GoodJob(job)
  BY <1>1 DEF GoodJob
<1>4. txs \in Seq({}) /\ DOMAIN txs = {}
  BY <1>1
<1>5. limit \in [Bank!Positions -> Nat] /\ debt \in [Bank!Positions -> Nat]
  BY <1>1 DEF Bank!BankPageAssumption
<1>6. seen["portfolio"] = Unread /\ seen["quote"] = Unread
      /\ seen = [q \in Bank!QueryNames |-> seen[q]]
  BY <1>1 DEF Bank!QueryNames
<1>7. SentInv
  BY <1>1, <1>2, <1>3, <1>4, <1>5, <1>6 DEF SentInv
<1>8. SumFunctionOnSet(debt, Bank!Positions) = 0
  BY <1>1, PositionsListed, SumZero
<1>9. SumFunctionOnSet(Ledger, DOMAIN txs) = 0
  BY <1>4, SumEmpty
<1> QED BY <1>7, <1>8, <1>9 DEF LedgerInv

(* What a step that sends and executes nothing has to keep. *)
LEMMA NothingExecuted ==
  ASSUME Bank!BankPageAssumption, SentInv, LedgerInv, UNCHANGED <<debt, txs>>,
         limit' \in [Bank!Positions -> Nat], rate' \in Rates,
         form' = form \/ (/\ form' = [source |-> form'.source, cents |-> form'.cents,
                                      account |-> form'.account, purpose |-> form'.purpose]
                          /\ form'.cents \in Cents \cup {0} /\ form'.source \in Bank!Sources),
         seen' = seen \/ (/\ seen' = [q \in Bank!QueryNames |-> seen'[q]]
                          /\ seen'["portfolio"] = Unread \/ seen'["portfolio"] \in Portfolios
                          /\ seen'["quote"] = Unread \/ seen'["quote"].usdc \in Nat),
         job' = job \/ GoodJob(job')
  PROVE  SentInv' /\ LedgerInv'
<1>1. /\ form'.cents \in Cents \cup {0} /\ form'.source \in Bank!Sources
      /\ form' = [source |-> form'.source, cents |-> form'.cents, account |-> form'.account,
                  purpose |-> form'.purpose]
  BY DEF SentInv
<1>2. /\ seen' = [q \in Bank!QueryNames |-> seen'[q]]
      /\ seen'["portfolio"] = Unread \/ seen'["portfolio"] \in Portfolios
      /\ seen'["quote"] = Unread \/ seen'["quote"].usdc \in Nat
  BY DEF SentInv
<1>3. GoodJob(job')
  BY DEF SentInv
<1>4. debt' \in [Bank!Positions -> Nat] /\ (\E T : txs' \in Seq(T))
      /\ \A i \in DOMAIN txs' : GoodTx(txs'[i])
  BY DEF SentInv
<1>5. SentInv'
  BY <1>1, <1>2, <1>3, <1>4 DEF SentInv
<1>6. Ledger' = Ledger
  BY DEF Ledger, Bank!Lent
<1> QED BY <1>5, <1>6 DEF LedgerInv

LEMMA PagesSeen ==
  ASSUME Bank!BankPageAssumption, SentInv, LedgerInv,
         Bank!SeeAccounts \/ Bank!SeePortfolio \/ Bank!SeeQuote
  PROVE  SentInv' /\ LedgerInv'
<1>1. /\ UNCHANGED <<debt, txs, limit, rate, form, job>>
  BY DEF Bank!SeeAccounts, Bank!SeePortfolio, Bank!SeeQuote, Bank!See, Bank!server_vars,
         Bank!chain_vars
<1>2. DOMAIN seen = Bank!QueryNames /\ "portfolio" # "quote" /\ "accounts" # "quote"
      /\ "accounts" # "portfolio" /\ {"portfolio", "quote", "accounts"} \subseteq Bank!QueryNames
  BY DEF SentInv, Bank!QueryNames
<1>3. /\ seen' = [q \in Bank!QueryNames |-> seen'[q]]
      /\ seen'["portfolio"] = Unread \/ seen'["portfolio"] \in Portfolios
      /\ seen'["quote"] = Unread \/ seen'["quote"].usdc \in Nat
  <2>1. CASE Bank!SeeAccounts
    BY <1>2, <2>1 DEF Bank!SeeAccounts, Bank!See, SentInv
  <2>2. CASE Bank!SeePortfolio
    <3>1. Bank!OnChain \in Portfolios
      BY DEF SentInv, Bank!OnChain, Portfolios
    <3>2. seen' = [seen EXCEPT !["portfolio"] = Bank!OnChain]
      BY <2>2 DEF Bank!SeePortfolio, Bank!See
    <3> QED BY <1>2, <3>1, <3>2 DEF SentInv
  <2>3. CASE Bank!SeeQuote
    <3> DEFINE quoted == [key |-> Bank!quoteKey, usdc |-> UsdcFor(form.cents, rate)]
    <3>1. seen' = [seen EXCEPT !["quote"] = quoted] /\ form.cents >= MinEurCents
      BY <2>3 DEF Bank!SeeQuote, Bank!See
    <3>2. form.cents \in Cents /\ rate \in Rates
      BY <3>1 DEF SentInv, Bank!BankPageAssumption
    <3>3. quoted.usdc \in Nat
      BY <3>2 DEF Bank!BankPageAssumption
    <3> HIDE DEF quoted
    <3> QED BY <1>2, <3>1, <3>3 DEF SentInv
  <2> QED BY <2>1, <2>2, <2>3
<1>4. limit \in [Bank!Positions -> Nat] /\ rate \in Rates
  BY DEF SentInv
<1> QED BY <1>1, <1>3, <1>4, NothingExecuted

LEMMA FormEdited ==
  ASSUME Bank!BankPageAssumption, SentInv, LedgerInv,
         Bank!Type \/ \E a \in Accounts : Bank!SaveAccount(a)
  PROVE  SentInv' /\ LedgerInv'
<1>1. /\ UNCHANGED <<debt, txs, limit, rate, seen, job>>
      /\ \/ \E c \in Cents : form' = [form EXCEPT !.cents = c]
         \/ \E s \in Bank!Sources : form' = [form EXCEPT !.source = s]
         \/ \E a : form' = [form EXCEPT !.account = a]
         \/ form' = [form EXCEPT !.purpose = TRUE]
  BY DEF Bank!Type, Bank!Edit, Bank!SaveAccount, Bank!server_vars, Bank!chain_vars
<1>2. /\ form' = [source |-> form'.source, cents |-> form'.cents,
                  account |-> form'.account, purpose |-> form'.purpose]
      /\ form'.cents \in Cents \cup {0} /\ form'.source \in Bank!Sources
  <2>1. /\ form.cents \in Cents \cup {0} /\ form.source \in Bank!Sources
        /\ form = [source |-> form.source, cents |-> form.cents, account |-> form.account,
                   purpose |-> form.purpose]
    BY DEF SentInv
  <2>2. CASE \E c \in Cents : form' = [form EXCEPT !.cents = c]
    BY <2>1, <2>2
  <2>3. CASE \E s \in Bank!Sources : form' = [form EXCEPT !.source = s]
    BY <2>1, <2>3
  <2>4. CASE \E a : form' = [form EXCEPT !.account = a]
    BY <2>1, <2>4
  <2>5. CASE form' = [form EXCEPT !.purpose = TRUE]
    BY <2>1, <2>5
  <2> QED BY <1>1, <2>2, <2>3, <2>4, <2>5
<1>3. limit' \in [Bank!Positions -> Nat] /\ rate' \in Rates
  BY <1>1 DEF SentInv
<1> QED BY <1>1, <1>2, <1>3, NothingExecuted

LEMMA ConfirmMoves ==
  ASSUME Bank!BankPageAssumption, SentInv, LedgerInv,
         \/ Bank!Press \/ Bank!Requote \/ Bank!LookAtAta \/ Bank!Refused
         \/ Bank!RejectedByUser \/ Bank!Confirmed \/ Bank!TimesOut \/ Bank!Report
         \/ Bank!PollStatus \/ Bank!Close
  PROVE  SentInv' /\ LedgerInv'
<1> USE DEF Bank!server_vars, Bank!chain_vars
<1>1. UNCHANGED <<debt, txs, limit, rate, seen, form>>
  BY DEF Bank!Press, Bank!Requote, Bank!LookAtAta, Bank!Refused, Bank!RejectedByUser,
         Bank!Confirmed, Bank!TimesOut, Bank!Report, Bank!PollStatus, Bank!Close
<1>2. GoodJob(job')
  <2>1. CASE Bank!Press
    <3>1. job' = [at |-> "quoting", pressed |-> Bank!Pressed] /\ Bank!canConfirm
      BY <2>1 DEF Bank!Press
    <3>2. form.cents \in Cents
      BY <3>1 DEF SentInv, Bank!canConfirm, Bank!BankPageAssumption
    <3>3. GoodPress(Bank!Pressed)
      BY <3>2 DEF GoodPress, Bank!Pressed, SentInv
    <3> QED BY <3>1, <3>3 DEF GoodJob
  <2>2. CASE Bank!Requote
    <3> DEFINE p == job.pressed
               u == UsdcFor(p.cents, rate)
               next == [at |-> "looking", pressed |-> p, source |-> p.source,
                        account |-> p.account, usdc |-> u]
    <3>1. job.at = "quoting" /\ (job' = next \/ job' = [at |-> "ready"])
      BY <2>2 DEF Bank!Requote, Bank!InClosure, Bank!Ready
    <3>2. GoodPress(p) /\ rate \in Rates
      BY <3>1 DEF SentInv, GoodJob
    <3>3. u \in {UsdcFor(p.cents, e) : e \in Rates}
      BY <3>2
    <3> HIDE DEF u, p
    <3>4. next.pressed = p /\ next.source = p.source /\ next.account = p.account
          /\ next.usdc = u /\ next.at = "looking" /\ "at" \in DOMAIN next
      OBVIOUS
    <3>5. GoodJob(next)
      <4> HIDE DEF next
      <4> QED BY <3>2, <3>3, <3>4 DEF GoodJob, Carries
    <3>6. GoodJob([at |-> "ready"])
      BY DEF GoodJob
    <3> QED BY <3>1, <3>5, <3>6
  <2>3. CASE Bank!LookAtAta
    <3> DEFINE next == [at |-> "signing", pressed |-> job.pressed, source |-> job.source,
                        account |-> job.account, usdc |-> job.usdc, create |-> ~paidTo]
    <3>1. /\ job.at = "looking"
          /\ \/ job' = [at |-> "ready"]
             \/ job' = next /\ ~(job.source = "borrow" /\ job.pressed.portfolio = Unread)
      BY <2>3 DEF Bank!LookAtAta, Bank!Ready
    <3>2. Carries(job)
      BY <3>1 DEF SentInv, GoodJob
    <3>3. next.pressed = job.pressed /\ next.source = job.source /\ next.account = job.account
          /\ next.usdc = job.usdc /\ next.at = "signing" /\ "at" \in DOMAIN next
      OBVIOUS
    <3> HIDE DEF next
    <3>4. Carries(next)
      BY <3>2, <3>3 DEF Carries
    <3>5. GoodJob([at |-> "ready"])
      BY DEF GoodJob
    <3> QED BY <3>1, <3>3, <3>4, <3>5 DEF GoodJob
  <2>4. CASE Bank!Refused \/ Bank!RejectedByUser \/ Bank!TimesOut \/ Bank!Close
    BY <2>4 DEF Bank!Refused, Bank!RejectedByUser, Bank!TimesOut, Bank!Close, Bank!Ready, GoodJob
  <2>5. CASE Bank!Confirmed
    <3>1. job' = [job EXCEPT !.at = "reporting"] /\ "at" \in DOMAIN job
      BY <2>5 DEF Bank!Confirmed, SentInv, GoodJob
    <3>2. job'.at = "reporting" /\ "at" \in DOMAIN job'
      BY <3>1
    <3> QED BY <3>2 DEF GoodJob
  <2>6. CASE Bank!Report
    <3>1. job' = [at |-> "done", tx |-> job.tx, status |-> "processing"]
          \/ job' = [at |-> "ready"]
      BY <2>6 DEF Bank!Report, Bank!Ready
    <3> QED BY <3>1 DEF GoodJob
  <2>7. CASE Bank!PollStatus
    <3>1. /\ job' = [job EXCEPT !.status = booked[job.tx]]
          /\ "at" \in DOMAIN job /\ job.at = "done"
      BY <2>7 DEF Bank!PollStatus, SentInv, GoodJob
    <3>2. job'.at = "done" /\ "at" \in DOMAIN job'
      BY <3>1
    <3> QED BY <3>2 DEF GoodJob
  <2> QED BY <2>1, <2>2, <2>3, <2>4, <2>5, <2>6, <2>7
<1>3. limit' \in [Bank!Positions -> Nat] /\ rate' \in Rates
  BY <1>1 DEF SentInv
<1> QED BY <1>1, <1>2, <1>3, NothingExecuted

LEMMA WorldMoves ==
  ASSUME Bank!BankPageAssumption, SentInv, LedgerInv,
         Bank!MarketMoves \/ Bank!OthersPay \/ \E i \in DOMAIN txs : Bank!Arrive(i)
  PROVE  SentInv' /\ LedgerInv'
<1> USE DEF Bank!server_vars, Bank!chain_vars
<1>1. /\ UNCHANGED <<debt, txs, seen, form, job>>
      /\ rate' = rate \/ rate' \in Rates
      /\ limit' = limit \/ \E p \in Bank!Positions, n \in Limits : limit' = [limit EXCEPT ![p] = n]
  BY DEF Bank!MarketMoves, Bank!OthersPay, Bank!Arrive
<1>2. rate' \in Rates
  BY <1>1 DEF SentInv
<1>3. limit' \in [Bank!Positions -> Nat]
  BY <1>1 DEF SentInv, Bank!BankPageAssumption
<1> QED BY <1>1, <1>2, <1>3, NothingExecuted

LEMMA TxIsGood ==
  ASSUME Bank!BankPageAssumption, SentInv, job.at = "signing"
  PROVE  GoodTx(Bank!Tx) /\ Bank!Tx.state = "sent"
<1> DEFINE asset == IF job.source = "borrow" THEN Bank!borrowAsset(job.pressed.portfolio)
                    ELSE Head(Assets)
           t == [source |-> job.source, usdc |-> job.usdc, account |-> job.account,
                 create |-> job.create, pressed |-> job.pressed, state |-> "sent",
                 asset |-> asset]
<1>1. /\ Carries(job)
      /\ job.source = "borrow" => job.pressed.portfolio \in Portfolios
  BY DEF SentInv, GoodJob, Carries, GoodPress
<1>2. asset \in Bank!Positions
  BY <1>1, MostHeadroomIs, PositionsListed
<1>3. Bank!Tx = t
  BY DEF Bank!Tx
<1> HIDE DEF asset
<1>4. /\ t.source = job.source /\ t.usdc = job.usdc /\ t.account = job.account
      /\ t.create = job.create /\ t.pressed = job.pressed /\ t.state = "sent"
      /\ t.asset = asset
      /\ t = [source |-> t.source, usdc |-> t.usdc, account |-> t.account, create |-> t.create,
              pressed |-> t.pressed, state |-> t.state, asset |-> t.asset]
  OBVIOUS
<1> HIDE DEF t
<1>5. Carries(t)
  BY <1>1, <1>4 DEF Carries
<1> QED BY <1>2, <1>3, <1>4, <1>5 DEF GoodTx

(* What is sent owes nothing until it is executed. *)
LEMMA SendKeeps ==
  ASSUME Bank!BankPageAssumption, SentInv, LedgerInv, Bank!Send
  PROVE  SentInv' /\ LedgerInv'
<1> USE DEF Bank!server_vars, Bank!chain_vars
<1> DEFINE t == Bank!Tx
<1>1. /\ job.at = "signing" /\ txs' = Append(txs, t)
      /\ job' = [at |-> "sent", tx |-> Len(txs) + 1]
      /\ UNCHANGED <<rate, debt, limit, seen, form>>
  BY DEF Bank!Send
<1>2. GoodTx(t) /\ t.state = "sent"
  BY <1>1, TxIsGood
<1> HIDE DEF t
<1>3. PICK T : txs \in Seq(T)
  BY DEF SentInv
<1>4. PICK n \in Nat : Len(txs) = n /\ DOMAIN txs = 1 .. n
  BY LedgerIsNat
<1>5. txs \in Seq(T \cup {t})
  BY <1>3, Wider
<1>6. /\ txs' \in Seq(T \cup {t}) /\ DOMAIN txs' = 1 .. (n + 1)
      /\ \A i \in 1 .. n : txs'[i] = txs[i]
      /\ txs'[n + 1] = t
  BY <1>1, <1>4, <1>5
<1>7. \A i \in DOMAIN txs' : GoodTx(txs'[i])
  <2>1. \A i \in 1 .. n : GoodTx(txs[i])
    BY <1>4 DEF SentInv
  <2>2. \A i \in 1 .. (n + 1) : i \in 1 .. n \/ i = n + 1
    OBVIOUS
  <2> QED BY <1>2, <1>6, <2>1, <2>2
<1>8. GoodJob(job')
  BY <1>1 DEF GoodJob
<1>9. SentInv'
  BY <1>1, <1>6, <1>7, <1>8 DEF SentInv
<1>10. SumFunctionOnSet(Ledger', 1 .. (n + 1)) = SumFunctionOnSet(Ledger, 1 .. n)
  <2>1. Ledger' \in [1 .. (n + 1) -> Nat]
    <3>1. \A x : GoodTx(x) => x.usdc \in Nat
      BY DEF GoodTx, Carries, GoodPress, Bank!BankPageAssumption
    <3>2. \A i \in DOMAIN txs' : txs'[i].usdc \in Nat
      BY <1>7, <3>1
    <3> QED BY <1>6, <3>2 DEF Ledger, Bank!Lent
  <2>2. Ledger'[n + 1] = 0
    BY <1>2, <1>6 DEF Ledger, Bank!Lent
  <2>3. \A i \in 1 .. n : Ledger'[i] = Ledger[i]
    BY <1>4, <1>6 DEF Ledger, Bank!Lent
  <2>4. IsFiniteSet(1 .. (n + 1)) /\ IsFiniteSet(1 .. n) /\ n + 1 \in 1 .. (n + 1)
        /\ (1 .. (n + 1)) \ {n + 1} = 1 .. n
    <3>1. n \in Int /\ n + 1 \in Int /\ 1 \in Int
      OBVIOUS
    <3>2. IsFiniteSet(1 .. (n + 1)) /\ IsFiniteSet(1 .. n)
      BY <3>1, FS_Interval
    <3>3. n + 1 \in 1 .. (n + 1) /\ (1 .. (n + 1)) \ {n + 1} = 1 .. n
      OBVIOUS
    <3> QED BY <3>2, <3>3
  <2> DEFINE later == Ledger'
             ahead == Ledger
             S == 1 .. (n + 1)
  <2>5. SumFunctionOnSet(ahead, 1 .. n) \in Nat
    <3>1. ahead \in [1 .. n -> Nat]
      BY <1>4, LedgerIsNat
    <3> QED BY <2>4, <3>1, SumNat
  <2> HIDE DEF later, ahead, S
  <2>6. SumFunctionOnSet(later, S) = later[n + 1] + SumFunctionOnSet(later, S \ {n + 1})
    <3>1. IsFiniteSet(S) /\ (\A x \in S : later[x] \in Nat) /\ n + 1 \in S
      BY <2>1, <2>4 DEF later, S
    <3> QED BY <3>1, SumExtract
  <2>7. SumFunctionOnSet(later, 1 .. n) = SumFunctionOnSet(ahead, 1 .. n)
    <3>1. \A x \in 1 .. n : later[x] = ahead[x]
      BY <2>3 DEF later, ahead
    <3> QED BY <2>4, <3>1, SumCongruent
  <2>8. S \ {n + 1} = 1 .. n /\ later[n + 1] = 0
    BY <2>2, <2>4 DEF S, later
  <2>9. SumFunctionOnSet(later, S) = SumFunctionOnSet(ahead, 1 .. n)
    <3>1. SumFunctionOnSet(later, S) = 0 + SumFunctionOnSet(ahead, 1 .. n)
      BY <2>6, <2>7, <2>8
    <3> QED BY <2>5, <3>1
  <2> QED BY <2>9 DEF later, ahead, S
<1> QED BY <1>1, <1>4, <1>6, <1>9, <1>10 DEF LedgerInv

(* A loan that is executed is owed by the position that backs it, once. *)
LEMMA ExecuteKeeps ==
  ASSUME Bank!BankPageAssumption, SentInv, LedgerInv, NEW i \in DOMAIN txs, Bank!Execute(i)
  PROVE  SentInv' /\ LedgerInv'
<1> USE DEF Bank!server_vars, Bank!chain_vars
<1> DEFINE t == txs[i]
           end == IF Bank!Passes(t) THEN "ok" ELSE "failed"
           u == [t EXCEPT !.state = end]
<1>1. /\ t.state = "sent" /\ txs' = [txs EXCEPT ![i] = u]
      /\ debt' = IF Bank!Passes(t) /\ t.source = "borrow"
                 THEN [debt EXCEPT ![t.asset] = @ + t.usdc] ELSE debt
      /\ UNCHANGED <<rate, limit, seen, form, job>>
  BY DEF Bank!Execute, Bank!BorrowRuns
<1>2. /\ GoodTx(t) /\ t.usdc \in Nat /\ t.asset \in Bank!Positions
      /\ t.source = t.pressed.source /\ t.pressed.source \in Bank!Sources
  BY LedgerIsNat DEF SentInv, GoodTx, Carries, GoodPress
<1>3. end \in {"ok", "failed"} /\ (end = "ok" <=> Bank!Passes(t))
  OBVIOUS
<1>4. /\ u = [source |-> u.source, usdc |-> u.usdc, account |-> u.account,
              create |-> u.create, pressed |-> u.pressed, state |-> u.state,
              asset |-> u.asset]
      /\ u.source = t.source /\ u.usdc = t.usdc /\ u.account = t.account
      /\ u.pressed = t.pressed /\ u.asset = t.asset /\ u.state = end
  <2> HIDE DEF end, t
  <2>1. t = [source |-> t.source, usdc |-> t.usdc, account |-> t.account, create |-> t.create,
             pressed |-> t.pressed, state |-> t.state, asset |-> t.asset]
    BY <1>2 DEF GoodTx
  <2> QED BY <2>1
<1> HIDE DEF u, end
<1>5. GoodTx(u)
  BY <1>2, <1>3, <1>4 DEF GoodTx, Carries
<1>6. PICK T : txs \in Seq(T)
  BY DEF SentInv
<1>7. PICK n \in Nat : Len(txs) = n /\ DOMAIN txs = 1 .. n
  BY LedgerIsNat
<1>8. DOMAIN txs' = DOMAIN txs /\ txs'[i] = u
      /\ \A k \in DOMAIN txs \ {i} : txs'[k] = txs[k]
  BY <1>1
<1>9. txs' \in Seq(T \cup {u})
  <2>1. txs \in Seq(T \cup {u})
    BY <1>6, Wider
  <2> QED BY <1>1, <2>1
<1>10. \A k \in DOMAIN txs' : GoodTx(txs'[k])
  BY <1>5, <1>8 DEF SentInv
<1>11. debt' \in [Bank!Positions -> Nat]
  BY <1>1, <1>2 DEF SentInv
<1>12. SentInv'
  BY <1>1, <1>9, <1>10, <1>11 DEF SentInv
<1> DEFINE ahead == Ledger
           later == Ledger'
           D == DOMAIN txs
           P == Bank!Positions
           owed == debt
           owes == debt'
<1>13. /\ IsFiniteSet(D) /\ ahead \in [D -> Nat] /\ later \in [D -> Nat]
       /\ \A k \in D \ {i} : later[k] = ahead[k]
       /\ ahead[i] = 0
       /\ later[i] = IF end = "ok" /\ t.source = "borrow" THEN t.usdc ELSE 0
  <2>1. IsFiniteSet(D) /\ ahead \in [D -> Nat]
    BY LedgerIsNat
  <2>2. \A k \in D : txs'[k].usdc \in Nat
    BY <1>2, <1>4, <1>8, LedgerIsNat
  <2>3. later \in [D -> Nat]
    BY <1>8, <2>2 DEF Ledger, Bank!Lent
  <2>4. \A k \in D \ {i} : later[k] = ahead[k]
    BY <1>8 DEF Ledger, Bank!Lent
  <2>5. ahead[i] = 0
    BY <1>1 DEF Ledger, Bank!Lent
  <2>6. later[i] = IF end = "ok" /\ t.source = "borrow" THEN t.usdc ELSE 0
    BY <1>2, <1>4, <1>8 DEF Ledger, Bank!Lent
  <2> QED BY <2>1, <2>3, <2>4, <2>5, <2>6
<1>14. /\ IsFiniteSet(P) /\ owed \in [P -> Nat] /\ owes \in [P -> Nat]
       /\ \A k \in P \ {t.asset} : owes[k] = owed[k]
       /\ owes[t.asset] = owed[t.asset] + later[i]
  <2>1. owed \in [P -> Nat] /\ IsFiniteSet(P)
    BY PositionsListed DEF SentInv
  <2>2. \A k \in P \ {t.asset} : owes[k] = owed[k]
    BY <1>1, <2>1
  <2>3. owes[t.asset] = owed[t.asset] + later[i]
    BY <1>1, <1>2, <1>3, <1>13, <2>1
  <2> QED BY <1>11, <2>1, <2>2, <2>3
<1>15. SumFunctionOnSet(owed, P) = SumFunctionOnSet(ahead, D)
  BY DEF LedgerInv
<1>16. t.asset \in P /\ i \in D
  BY <1>2
<1> HIDE DEF ahead, later, D, P, owed, owes, t
<1>17. SumFunctionOnSet(later, D) = SumFunctionOnSet(ahead, D) - ahead[i] + later[i]
  BY <1>13, <1>16, SumUpdate
<1>18. SumFunctionOnSet(owes, P) = SumFunctionOnSet(owed, P) - owed[t.asset] + owes[t.asset]
  BY <1>14, <1>16, SumUpdate
<1>19. SumFunctionOnSet(ahead, D) \in Nat /\ SumFunctionOnSet(owed, P) \in Nat
       /\ later[i] \in Nat /\ owed[t.asset] \in Nat
  BY <1>13, <1>14, <1>16, SumNat
<1>20. SumFunctionOnSet(owes, P) = SumFunctionOnSet(later, D)
  BY <1>13, <1>14, <1>15, <1>17, <1>18, <1>19
<1> QED BY <1>8, <1>12, <1>20 DEF LedgerInv, later, owes, D, P

LEMMA BankStep ==
  ASSUME Bank!BankPageAssumption, SentInv /\ LedgerInv, [Bank!Next]_(Bank!all_vars)
  PROVE  SentInv' /\ LedgerInv'
<1>1. CASE UNCHANGED Bank!all_vars
  BY <1>1 DEF Bank!all_vars, Bank!server_vars, Bank!chain_vars, SentInv, LedgerInv, Ledger
<1>2. CASE Bank!Next
  <2>1. \/ Bank!SeeAccounts \/ Bank!SeePortfolio \/ Bank!SeeQuote
        \/ Bank!Type \/ \E a \in Accounts : Bank!SaveAccount(a)
        \/ Bank!Press \/ Bank!Requote \/ Bank!LookAtAta \/ Bank!Refused
        \/ Bank!RejectedByUser \/ Bank!Confirmed \/ Bank!TimesOut \/ Bank!Report
        \/ Bank!PollStatus \/ Bank!Close \/ Bank!Send
        \/ (\E i \in DOMAIN txs : Bank!Execute(i)) \/ (\E i \in DOMAIN txs : Bank!Arrive(i))
        \/ Bank!MarketMoves \/ Bank!OthersPay
    BY <1>2 DEF Bank!Next, Bank!Handler
  <2> QED BY <2>1, PagesSeen, FormEdited, ConfirmMoves, WorldMoves, SendKeeps, ExecuteKeeps
<1> QED BY <1>1, <1>2

LEMMA BankSays ==
  ASSUME Bank!BankPageAssumption, SentInv, LedgerInv
  PROVE  Bank!DebtIsWhatWasSent /\ Bank!PaysWhoWasShown /\ Bank!DisabledOnlyIfNoneFits
<1>1. Bank!DebtIsWhatWasSent
  <2>1. Bank!SumFunction(debt) = SumFunctionOnSet(debt, Bank!Positions)
    BY BankSum DEF Bank!SumFunction, SentInv
  <2>2. Bank!SumFunction(Ledger) = SumFunctionOnSet(Ledger, DOMAIN txs)
    BY BankSum DEF Bank!SumFunction, Ledger
  <2> QED BY <2>1, <2>2 DEF LedgerInv, Ledger, Bank!DebtIsWhatWasSent
<1>2. Bank!PaysWhoWasShown
  BY DEF SentInv, GoodTx, Carries, Bank!PaysWhoWasShown
<1>3. Bank!DisabledOnlyIfNoneFits
  <2> SUFFICES ASSUME Bank!overMax, seen["portfolio"] = Bank!OnChain, NEW p \in Bank!Positions
               PROVE  debt[p] + Bank!quote > limit[p]
    BY DEF Bank!DisabledOnlyIfNoneFits
  <2> DEFINE best == Bank!borrowAsset(Bank!OnChain)
             room(q) == Bank!availableCredit(Bank!OnChain[q])
  <2>1. Bank!quote > room(best) /\ Bank!quote \in Nat
    BY DEF Bank!overMax, Bank!Previewed, Bank!quote, SentInv
  <2>2. Bank!OnChain \in Portfolios /\ debt[p] \in Nat /\ limit[p] \in Nat
    BY DEF Bank!OnChain, Portfolios, SentInv
  <2>3. room(p) <= room(best) /\ best \in Bank!Positions
    BY <2>2, MostHeadroomIs
  <2>4. room(p) = IF limit[p] > debt[p] THEN limit[p] - debt[p] ELSE 0
    BY DEF Bank!OnChain, Bank!availableCredit
  <2>5. room(best) \in Nat
    BY <2>2, <2>3 DEF Portfolios, Bank!availableCredit
  <2> HIDE DEF room, best
  <2> QED BY <2>1, <2>2, <2>3, <2>4, <2>5
<1> QED BY <1>1, <1>2, <1>3

(* What a wallet owes is the sum of the loans that its executed payouts carried, the     *)
(* account that is paid is the one on the sheet when Confirm was pressed, and Confirm is  *)
(* disabled for want of credit only if no position could carry the amount alone, for any  *)
(* positions, amounts and rates, and whatever is typed, times out or is refused.          *)
THEOREM BankSheetKeepsItsWord ==
  ASSUME Bank!BankPageAssumption
  PROVE  Bank!Spec => []( /\ Bank!DebtIsWhatWasSent /\ Bank!PaysWhoWasShown
                          /\ Bank!DisabledOnlyIfNoneFits )
<1> DEFINE Inv == SentInv /\ LedgerInv
           Says == Bank!DebtIsWhatWasSent /\ Bank!PaysWhoWasShown /\ Bank!DisabledOnlyIfNoneFits
<1>1. Bank!Init => Inv
  BY BankStarts
<1>2. Inv /\ [Bank!Next]_(Bank!all_vars) => Inv'
  BY BankStep
<1>3. Inv => Says
  BY BankSays
<1> HIDE DEF Inv, Says
<1>4. Bank!Spec => []Says
  BY <1>1, <1>2, <1>3, PTL DEF Bank!Spec
<1> QED BY <1>4, PTL DEF Says
-----------------------------------------------------------------------------
(* The savings page, on a program of the same constants.                           *)

CONSTANTS Me, MaxActs
VARIABLES tab, typed, toast, acts

Saver == INSTANCE SaverApp WITH amount <- typed, answer <- toast

LEMMA SameAccrual ==
  ASSUME NEW p
  PROVE  /\ Saver!AccruedDebt(p) = AccruedDebt(p)
         /\ Saver!AccruedBorrowed(p) = AccruedBorrowed(p)
         /\ Saver!AccruedReserve(p) = AccruedReserve(p)
         /\ Saver!AccrualFits(p) = AccrualFits(p)
BY DEF Saver!AccruedDebt, AccruedDebt, Saver!AccruedBorrowed, AccruedBorrowed,
   Saver!AccruedReserve, AccruedReserve, Saver!AccrualFits, AccrualFits,
   Saver!Interest, Interest, Saver!AccrueInterest, AccrueInterest, Saver!ReserveShare,
   ReserveShare, Saver!CeilDiv, CeilDiv, Saver!FitsU64, FitsU64

LEMMA SameRate ==
  ASSUME NEW bands, NEW ltv
  PROVE  Saver!SelectAprBps(bands, ltv) = SelectAprBps(bands, ltv)
BY DEF Saver!SelectAprBps, SelectAprBps, Saver!CoveringBands, CoveringBands,
   Saver!UsedBands, UsedBands, Saver!Bands, Bands, Saver!Min, Min, Saver!Max, Max

LEMMA SamePrice ==
  ASSUME NEW m
  PROVE  /\ Saver!PriceUsd6(m) = PriceUsd6(m)
         /\ Saver!PriceUsable(m) = PriceUsable(m)
         /\ Saver!EffectiveHaircut(m) = EffectiveHaircut(m)
BY DEF Saver!PriceUsd6, PriceUsd6, Saver!PriceUsable, PriceUsable, Saver!EffectiveHaircut,
   EffectiveHaircut, Saver!PriceToUsd6, PriceToUsd6, Saver!USD_DECIMALS, USD_DECIMALS,
   Saver!PriceAge, PriceAge, Saver!Fresh, Fresh, Saver!ClosedMarketFallback,
   ClosedMarketFallback, Saver!FitsU64, FitsU64

LEMMA SameLtv ==
  ASSUME NEW m, NEW c, NEW d
  PROVE  /\ Saver!Ltv(m, c, d) = Ltv(m, c, d)
         /\ Saver!LtvDefined(m, c, d) = LtvDefined(m, c, d)
         /\ Saver!WithinMaxLtv(m, c, d) = WithinMaxLtv(m, c, d)
<1>1. Saver!Ltv(m, c, d) = Ltv(m, c, d) /\ Saver!Value(m, c) = Value(m, c)
  BY SamePrice DEF Saver!Ltv, Ltv, Saver!Value, Value, Saver!CollateralValueUsd6,
     CollateralValueUsd6, Saver!LtvBps, LtvBps, Saver!CeilDiv, CeilDiv
<1>2. Saver!LtvDefined(m, c, d) = LtvDefined(m, c, d)
  BY <1>1, SamePrice DEF Saver!LtvDefined, LtvDefined, Saver!HaircutValid, HaircutValid,
     Saver!FitsU64, FitsU64
<1> QED BY <1>1, <1>2, SamePrice DEF Saver!WithinMaxLtv, WithinMaxLtv

LEMMA SameReselect ==
  ASSUME NEW p, NEW c, NEW d, NEW wp
  PROVE  /\ Saver!ReselectDefined(p[1], c, d, wp) = ReselectDefined(p[1], c, d, wp)
         /\ Saver!ReselectApr(p, c, d, wp) = ReselectApr(p, c, d, wp)
BY SamePrice, SameLtv, SameRate DEF Saver!ReselectDefined, ReselectDefined,
   Saver!ReselectApr, ReselectApr

LEMMA SameInstructions ==
  ASSUME NEW p, NEW n
  PROVE  /\ Saver!DepositCollateral(p, n, TRUE) => LockCollateral(p, n, TRUE)
         /\ Saver!Borrow(p, n) => Borrow(p, n)
         /\ Saver!Repay(p, n, TRUE) => Repay(p, n, TRUE)
         /\ Saver!Tick => Tick
<1>1. ASSUME Saver!LockCollateral(p, n, TRUE) PROVE LockCollateral(p, n, TRUE)
  BY <1>1, SameAccrual, SameReselect DEF Saver!LockCollateral, LockCollateral,
     Saver!WritePosition, WritePosition, Saver!CollateralIn, CollateralIn,
     Saver!PriceAccountPassed, PriceAccountPassed, Saver!CollateralMoves, CollateralMoves,
     Saver!FitsU64, FitsU64, Saver!admin_vars, admin_vars, Saver!env_vars, env_vars
<1>2. ASSUME Saver!Borrow(p, n) PROVE Borrow(p, n)
  <2>1. /\ Saver!PoolCovers(p, n) = PoolCovers(p, n)
        /\ Saver!CollateralSound(p[1]) = CollateralSound(p[1])
    BY SameAccrual DEF Saver!PoolCovers, PoolCovers, Saver!PoolValue, PoolValue,
       Saver!UtilizationBps, UtilizationBps, Saver!CeilDiv, CeilDiv, Saver!FitsU64, FitsU64,
       Saver!CollateralSound, CollateralSound
  <2> QED BY <1>2, <2>1, SameAccrual, SameLtv, SameRate DEF Saver!Borrow, Borrow,
     Saver!WritePosition, WritePosition, Saver!FitsU64, FitsU64, Saver!admin_vars,
     admin_vars, Saver!env_vars, env_vars, Saver!vault_vars, vault_vars
<1>3. ASSUME Saver!Repay(p, n, TRUE) PROVE Repay(p, n, TRUE)
  <2>1. Saver!PaidAmount(p, n) = PaidAmount(p, n)
    BY SameAccrual DEF Saver!PaidAmount, PaidAmount
  <2>2. Saver!MayRepay(p, n, TRUE) => MayRepay(p, n, TRUE)
    BY <2>1, SameAccrual, SameReselect DEF Saver!MayRepay, MayRepay,
       Saver!PriceAccountPassed, PriceAccountPassed
  <2> QED BY <1>3, <2>1, <2>2, SameAccrual, SameReselect DEF Saver!Repay, Repay,
     Saver!WritePosition, WritePosition, Saver!admin_vars,
     admin_vars, Saver!env_vars, env_vars, Saver!vault_vars, vault_vars
<1>4. ASSUME Saver!Tick PROVE Tick
  BY <1>4 DEF Saver!Tick, Tick, Saver!pool_vars, pool_vars, Saver!position_vars,
     position_vars, Saver!vault_vars, vault_vars, Saver!admin_vars, admin_vars
<1> QED BY <1>1, <1>2, <1>3, <1>4 DEF Saver!DepositCollateral

(* What the page has read, when it has, and what is typed are numbers. *)
PageRead ==
  /\ typed \in Int
  /\ seen = [q \in Saver!QueryNames |-> seen[q]]
  /\ seen["config"] = Unread \/ seen["config"] \in [borrowed : Nat, reserve : Nat, shares : Nat]
  /\ \A q \in {"vault", "savings"} : seen[q] = Unread \/ seen[q] \in Nat

SaverInv == TypeInv /\ PageRead

LEMMA SharesTyped ==
  ASSUME SaverInv, Saver!Loaded
  PROVE  /\ Saver!pool \in Int /\ Saver!balance \in Int
         /\ \A n \in Int : Saver!SharesFor(n) \in Int
<1>1. /\ Saver!OrZero("vault") \in Nat /\ Saver!OrZero("savings") \in Nat
      /\ seen["config"].borrowed \in Nat /\ seen["config"].reserve \in Nat
      /\ seen["config"].shares \in Nat
  BY DEF SaverInv, PageRead, Saver!Loaded, Saver!OrZero
<1>2. Saver!pool \in Int
  BY <1>1 DEF Saver!pool, Saver!poolOf
<1>3. Saver!balance \in Int
  <2>1. Saver!OrZero("savings") * Saver!pool \in Int
    BY <1>1, <1>2
  <2>2. \A x \in Int, d \in Nat : d # 0 => x \div d \in Int
    OBVIOUS
  <2> QED BY <1>1, <2>1, <2>2 DEF Saver!balance, Saver!amountForShares
<1>4. ASSUME NEW n \in Int PROVE Saver!SharesFor(n) \in Int
  <2>1. n * seen["config"].shares \in Int
    BY <1>1
  <2>2. \A x \in Int, d \in Int : d > 0 => x \div d \in Int
    OBVIOUS
  <2> QED BY <1>1, <1>2, <2>1, <2>2 DEF Saver!SharesFor, Saver!ByShare
<1> QED BY <1>2, <1>3, <1>4

LEMMA SameSavings ==
  ASSUME NEW s, NEW n
  PROVE  /\ Saver!DepositSavings(s, n) => DepositSavings(s, n)
         /\ Saver!WithdrawSavings(s, n) => WithdrawSavings(s, n)
BY DEF Saver!DepositSavings, DepositSavings, Saver!WithdrawSavings, WithdrawSavings,
   Saver!SharesForDeposit, SharesForDeposit, Saver!AmountForShares, AmountForShares,
   Saver!pool_value, pool_value, Saver!PoolValue, PoolValue, Saver!IdleCovers, IdleCovers,
   Saver!FitsU64, FitsU64, Saver!position_vars, position_vars, Saver!vault_vars, vault_vars,
   Saver!admin_vars, admin_vars, Saver!env_vars, env_vars

LEMMA SaverStarts == Saver!PageInit => SaverInv
<1> SUFFICES ASSUME Saver!PageInit PROVE SaverInv
  OBVIOUS
<1>1. TypeInv
  <2>1. ListedInit
    BY DEF Saver!PageInit, Saver!ListedInit, ListedInit, Saver!Positions, Positions,
       Saver!Cardinality, Cardinality
  <2> QED BY <2>1, ListedTypes
<1>2. PageRead
  BY DEF Saver!PageInit, Saver!PageOpens, PageRead, Saver!QueryNames
<1> QED BY <1>1, <1>2 DEF SaverInv

(* The transaction that Confirm sends. *)
LEMMA ConfirmTypes ==
  ASSUME SaverInv, Me \in Savers, Saver!Confirm
  PROVE  TypeInv'
<1>1. typed \in Nat /\ TypeInv /\ Saver!Loaded
  BY DEF Saver!Confirm, SaverInv, PageRead
<1>2. CASE tab = "deposit"
  <2>1. DepositSavings(Me, typed)
    BY <1>2, SameSavings DEF Saver!Confirm, Saver!Instruction
  <2> QED BY <1>1, <2>1, TypeDeposit
<1>3. CASE tab # "deposit"
  <2>1. PICK b : b = Saver!SharesFor(typed)
    OBVIOUS
  <2>2. Saver!WithdrawSavings(Me, b)
    BY <1>3, <2>1 DEF Saver!Confirm, Saver!Instruction
  <2>3. WithdrawSavings(Me, b) /\ b > 0
    BY <2>2, SameSavings DEF Saver!WithdrawSavings
  <2>4. b \in Nat
    BY <1>1, <2>1, <2>3, SharesTyped
  <2> QED BY <1>1, <2>3, <2>4, TypeWithdrawal
<1> QED BY <1>2, <1>3

LEMMA SaverOthers ==
  ASSUME TypeInv, Saver!OthersNext
  PROVE  TypeInv'
<1>1. TypeOK /\ MarketsValid /\ MarketOpen /\ \A p : p \in Saver!Positions => p \in Positions
  BY DEF TypeInv, Saver!Positions, Positions
<1>2. CASE Saver!Tick
  BY <1>2, SameInstructions, TypeEnv DEF EnvNext
<1>3. ASSUME NEW p \in Positions, NEW n \in TokenAmounts, Saver!DepositCollateral(p, n, TRUE)
      PROVE  TypeInv'
  <2>1. LockCollateral(p, n, TRUE) /\ n \in Nat
    BY <1>3, SameInstructions, AmountsNat
  <2> QED BY <1>1, <2>1, LockShape, TypePosition
<1>4. ASSUME NEW s \in Savers, NEW n \in SavingsAmounts,
             Saver!DepositSavings(s, n) \/ Saver!WithdrawSavings(s, n)
      PROVE  TypeInv'
  BY <1>4, SameSavings, AmountsNat, TypeDeposit, TypeWithdrawal
<1>5. ASSUME NEW p \in Positions, NEW n \in Amounts,
             Saver!Borrow(p, n) \/ Saver!Repay(p, n, TRUE)
      PROVE  TypeInv'
  <2>1. (Borrow(p, n) \/ Repay(p, n, TRUE)) /\ n \in Nat
    BY <1>5, SameInstructions, AmountsNat
  <2> QED BY <1>1, <2>1, BorrowShape, RepayShape, TypePosition
<1> QED BY <1>1, <1>2, <1>3, <1>4, <1>5 DEF Saver!OthersNext

LEMMA SaverStep ==
  ASSUME SaverInv, Saver!SaverAssumption,
         [Saver!PageNext \/ Saver!OthersNext]_(Saver!all_vars)
  PROVE  SaverInv'
<1>1. ASSUME UNCHANGED Saver!vars PROVE TypeInv'
  <2>1. UNCHANGED vars
    BY <1>1 DEF Saver!vars, vars, Saver!pool_vars, pool_vars, Saver!position_vars,
       position_vars, Saver!vault_vars, vault_vars, Saver!admin_vars, admin_vars,
       Saver!env_vars, env_vars
  <2> QED BY <2>1, TypeStep DEF SaverInv
<1>2. ASSUME NEW q \in Saver!QueryNames, Saver!Read(q) PROVE SaverInv'
  <2>1. TypeInv' /\ typed' = typed /\ seen' = [seen EXCEPT ![q] = Saver!OnChain[q]]
    BY <1>1, <1>2 DEF Saver!Read
  <2>2. /\ total_borrowed \in Nat /\ reserve \in Nat /\ total_shares \in Nat
        /\ usdc_vault \in Nat /\ shares[Me] \in Nat
    BY InputAssumption DEF SaverInv, TypeInv, TypeOK, Saver!SaverAssumption
  <2>3. /\ Saver!OnChain["config"] \in [borrowed : Nat, reserve : Nat, shares : Nat]
        /\ Saver!OnChain["vault"] \in Nat /\ Saver!OnChain["savings"] \in Nat
    BY <2>2 DEF Saver!OnChain
  <2>4. PageRead'
    <3> HIDE DEF Saver!OnChain
    <3> QED BY <2>1, <2>3 DEF SaverInv, PageRead, Saver!QueryNames
  <2> QED BY <2>1, <2>4 DEF SaverInv
<1>3. ASSUME TypeInv', seen' = seen, typed' \in Int PROVE SaverInv'
  BY <1>3 DEF SaverInv, PageRead
<1>4. ASSUME NEW name, NEW n \in SavingsAmounts, Saver!TypeAmount(name, n) PROVE SaverInv'
  BY <1>1, <1>3, <1>4, AmountsNat DEF Saver!TypeAmount
<1>5. CASE Saver!PressMax
  BY <1>1, <1>3, <1>5, SharesTyped DEF Saver!PressMax
<1>6. typed \in Int
  BY DEF SaverInv, PageRead
<1>7. CASE Saver!Confirm
  <2>1. TypeInv'
    BY <1>7, ConfirmTypes DEF Saver!SaverAssumption
  <2> QED BY <1>3, <1>6, <1>7, <2>1 DEF Saver!Confirm, Saver!Says
<1>8. CASE Saver!Refused \/ Saver!Nothing
  <2>1. CASE Saver!Refused
    <3>1. UNCHANGED Saver!vars /\ seen' = seen /\ typed' \in {0, typed}
      BY <2>1, Zenon DEF Saver!Refused, Saver!Says
    <3> QED BY <1>1, <1>3, <1>6, <3>1
  <2>2. CASE Saver!Nothing
    <3>1. UNCHANGED Saver!vars /\ seen' = seen /\ typed' \in {0, typed}
      BY <2>2, Zenon DEF Saver!Nothing, Saver!Says
    <3> QED BY <1>1, <1>3, <1>6, <3>1
  <2> QED BY <1>8, <2>1, <2>2
<1>9. CASE Saver!OthersNext
  <2>1. TypeInv'
    BY <1>9, SaverOthers DEF SaverInv
  <2> QED BY <1>3, <1>6, <1>9, <2>1 DEF Saver!OthersNext
<1>10. CASE UNCHANGED Saver!all_vars
  BY <1>1, <1>3, <1>6, <1>10 DEF Saver!all_vars, Saver!page_vars
<1> QED BY <1>2, <1>4, <1>5, <1>7, <1>8, <1>9, <1>10 DEF Saver!PageNext

(* Rounded down to shares and down again to money, an amount loses less than what a    *)
(* share is worth and a unit.                                                       *)
LEMMA RoundTrip ==
  ASSUME NEW a \in Nat, NEW t \in Nat \ {0}, NEW v \in Nat \ {0}, NEW b \in Nat,
         NEW paid \in Nat, b = (a * t) \div v, paid = (b * v) \div t
  PROVE  paid <= a /\ (a - paid) * t < v + t
<1>1. a * t \in Nat /\ b * v <= a * t /\ a * t < (b + 1) * v
  OBVIOUS
<1>2. b * v \in Nat /\ paid * t <= b * v /\ b * v < (paid + 1) * t
  OBVIOUS
<1>3. paid * t <= a * t
  BY <1>1, <1>2
<1>4. paid <= a
  <2>1. ~(a < paid)
    <3>1. a < paid => (a + 1) * t <= paid * t
      BY MulMono
    <3>2. (a + 1) * t = a * t + t
      OBVIOUS
    <3> QED BY <1>1, <1>3, <3>1, <3>2
  <2> QED BY <2>1
<1>5. (a - paid) * t = a * t - paid * t
  OBVIOUS
<1>6. (b + 1) * v = b * v + v /\ (paid + 1) * t = paid * t + t /\ paid * t \in Nat
  OBVIOUS
<1> QED BY <1>1, <1>2, <1>4, <1>5, <1>6

(* What a saver who sees the pool as it is withdraws. *)
LEMMA WithdrawsFairly ==
  ASSUME SaverInv, Saver!SaverAssumption, Saver!Confirm, tab = "withdraw", Saver!Current,
         typed <= Saver!balance
  PROVE  /\ usdc_vault - usdc_vault' <= typed
         /\ (typed - (usdc_vault - usdc_vault')) * total_shares < Saver!pool_value + total_shares
         /\ typed = Saver!balance => shares'[Me] = 0
<1> DEFINE b == Saver!SharesFor(typed)
           paid == AmountForShares(b, total_shares, pool_value)
<1>1. /\ usdc_vault \in Nat /\ total_borrowed \in Nat /\ reserve \in Nat
      /\ total_shares \in Nat /\ shares[Me] \in Nat /\ shares \in [Savers -> U64]
      /\ Me \in Savers /\ Unread \notin Nat
      /\ typed \in Nat /\ typed > 0 /\ Saver!Loaded /\ pool_value \in Int
  BY InputAssumption DEF SaverInv, TypeInv, TypeOK, PageRead, Saver!SaverAssumption,
     Saver!Confirm, pool_value, PoolValue
<1>2. WithdrawSavings(Me, b) /\ b \in Nat
  <2>1. Saver!WithdrawSavings(Me, b)
    BY DEF Saver!Confirm, Saver!Instruction
  <2>2. b \in Int
    BY <1>1, SharesTyped
  <2> HIDE DEF b
  <2> QED BY <2>1, <2>2, SameSavings DEF WithdrawSavings
<1>3. /\ b > 0 /\ b <= total_shares /\ b <= shares[Me] /\ pool_value >= 0 /\ paid > 0
      /\ usdc_vault' = usdc_vault - paid /\ shares' = [shares EXCEPT ![Me] = @ - b]
  <2> HIDE DEF b
  <2> QED BY <1>2 DEF WithdrawSavings
<1>4. total_shares \in Nat \ {0}
  BY <1>1, <1>2, <1>3
<1>5. paid = (b * pool_value) \div total_shares
  BY <1>4 DEF AmountForShares
<1>6. pool_value \in Nat \ {0}
  <2>1. CASE pool_value = 0
    <3>1. paid = 0
      BY <1>2, <1>4, <1>5, <2>1
    <3> QED BY <1>3, <3>1
  <2> QED BY <1>1, <1>3, <2>1
<1>7. /\ seen["config"] = [borrowed |-> total_borrowed, reserve |-> reserve, shares |-> total_shares]
      /\ seen["vault"] = usdc_vault /\ seen["savings"] = shares[Me]
  BY DEF Saver!Current, Saver!OnChain, Saver!QueryNames
<1>8. /\ Saver!pool = pool_value /\ Saver!pool_value = pool_value
      /\ Saver!balance = (shares[Me] * pool_value) \div total_shares
  BY <1>1, <1>4, <1>7 DEF Saver!pool, Saver!poolOf, Saver!OrZero, Saver!balance,
     Saver!amountForShares, Saver!pool_value, Saver!PoolValue, pool_value, PoolValue
<1>9. paid \in Nat
  BY <1>2, <1>4, <1>5, <1>6
<1>10. usdc_vault - usdc_vault' = paid
  <2> HIDE DEF paid
  <2> QED BY <1>1, <1>3, <1>9
<1>11. CASE typed = Saver!balance
  <2>1. b = shares[Me]
    BY <1>1, <1>6, <1>7, <1>8, <1>11 DEF Saver!SharesFor, Saver!OrZero
  <2>2. paid = typed
    BY <1>5, <1>8, <1>11, <2>1
  <2>3. shares'[Me] = 0
    <3> HIDE DEF b
    <3> QED BY <1>1, <1>3, <2>1
  <2> HIDE DEF paid, b
  <2> QED BY <1>1, <1>4, <1>6, <1>8, <1>10, <2>2, <2>3
<1>12. CASE typed # Saver!balance
  <2>1. b = (typed * total_shares) \div pool_value
    <3>1. Saver!balance \in Int
      BY <1>1, SharesTyped
    <3> QED BY <1>1, <1>6, <1>7, <1>8, <1>12, <3>1 DEF Saver!SharesFor, Saver!ByShare
  <2> HIDE DEF paid, b
  <2>2. paid <= typed /\ (typed - paid) * total_shares < pool_value + total_shares
    BY <1>1, <1>2, <1>4, <1>5, <1>6, <1>9, <2>1, RoundTrip
  <2> QED BY <1>8, <1>10, <1>12, <2>2
<1> QED BY <1>11, <1>12

(* A saver who sees the pool as it is never withdraws more than was typed and is short  *)
(* of it by less than a share and a unit, and whoever withdraws all that is shown leaves *)
(* nothing behind: for any savers, amounts and loans, whatever the page read before.     *)
THEOREM SaverGetsWhatWasTyped ==
  ASSUME Saver!SaverAssumption
  PROVE  Saver!PageSpec => Saver!PaysWhatWasTyped /\ Saver!MaxLeavesNothing
<1>1. SaverInv /\ [Saver!PageNext \/ Saver!OthersNext]_(Saver!all_vars) => SaverInv'
  BY SaverStep
<1>2. SaverInv /\ [Saver!PageNext \/ Saver!OthersNext]_(Saver!all_vars) =>
        [Saver!Confirm /\ tab = "withdraw" /\ Saver!Current /\ typed <= Saver!balance =>
           LET paid == usdc_vault - usdc_vault'
           IN  /\ paid <= typed
               /\ (typed - paid) * total_shares < Saver!pool_value + total_shares
        ]_(Saver!all_vars)
  BY WithdrawsFairly
<1>3. SaverInv /\ [Saver!PageNext \/ Saver!OthersNext]_(Saver!all_vars) =>
        [Saver!Confirm /\ tab = "withdraw" /\ Saver!Current /\ typed = Saver!balance =>
           shares'[Me] = 0]_(Saver!all_vars)
  <2>1. SaverInv /\ Saver!Loaded => Saver!balance \in Int
    BY SharesTyped
  <2>2. Saver!Confirm => Saver!Loaded
    BY DEF Saver!Confirm
  <2>3. \A x \in Int : x <= x
    OBVIOUS
  <2> QED BY <2>1, <2>2, <2>3, WithdrawsFairly
<1> QED BY <1>1, <1>2, <1>3, SaverStarts, PTL
        DEF Saver!PageSpec, Saver!PaysWhatWasTyped, Saver!MaxLeavesNothing

-----------------------------------------------------------------------------
(* The issuer guards: a run that finds a market halted asks for a max LTV of 0. *)

CONSTANTS Runs, ListedLtv
VARIABLES halted, cache, listed

Desk == INSTANCE AdminDesk

Unpaused(states) ==
  /\ states = [m \in Markets |-> states[m]]
  /\ \A m \in Markets : states[m].pausedOnChain = FALSE

GoodRun(x) ==
  \/ x = Desk!Idle
  \/ /\ {"at", "left", "states"} \subseteq DOMAIN x
     /\ x.at \in {"check", "fetch", "send"} /\ Unpaused(x.states)
     /\ x.at # "check" => /\ {"m", "shouldPause"} \subseteq DOMAIN x
                          /\ x.m \in Markets /\ x.shouldPause \in BOOLEAN
     /\ x.at = "send" => "found" \in DOMAIN x /\ "max_ltv_bps" \in DOMAIN x.found

Lending ==
  /\ market = [m \in Markets |-> market[m]]
  /\ \A m \in Markets : "max_ltv_bps" \in DOMAIN market[m] /\ market[m].max_ltv_bps > 0

GuardInv ==
  /\ Lending /\ Unpaused(cache) /\ halted \in [Markets -> BOOLEAN]
  /\ job = [j \in Runs |-> job[j]] /\ \A j \in Runs : GoodRun(job[j])

LEMMA GuardStarts == Desk!DeskInit => GuardInv
<1> SUFFICES ASSUME Desk!DeskInit PROVE GuardInv
  OBVIOUS
<1>1. Lending
  <2>1. "max_ltv_bps" \in DOMAIN FirstRisk /\ FirstRisk.max_ltv_bps > 0
    BY ListedAssumption, InputAssumption DEF RiskParamsType, ValidRiskParams, ThresholdsOrdered
  <2> QED BY <2>1 DEF Desk!DeskInit, Desk!ListedInit, Lending
<1> QED BY <1>1 DEF Desk!DeskInit, Desk!DeskOpens, GuardInv, Unpaused, GoodRun, Desk!Clear

(* A step of a run. *)
LEMMA RunStep ==
  ASSUME GuardInv, NEW j \in Runs, NEW x, job' = [job EXCEPT ![j] = x], GoodRun(x),
         Lending', cache' = cache \/ Unpaused(cache'), halted' = halted
  PROVE  GuardInv'
<1>1. job' = [i \in Runs |-> IF i = j THEN x ELSE job[i]]
  BY DEF GuardInv
<1> QED BY <1>1 DEF GuardInv

LEMMA DeskKeeps ==
  ASSUME UNCHANGED Desk!vars
  PROVE  market' = market
BY DEF Desk!vars, Desk!admin_vars

LEMMA StatesStay ==
  ASSUME NEW S, Unpaused(S), NEW m \in Markets, NEW s, s.pausedOnChain = FALSE
  PROVE  Unpaused([S EXCEPT ![m] = s])
BY DEF Unpaused

LEMMA ChecksGuards ==
  ASSUME GuardInv, NEW j \in Runs, NEW m \in Markets,
         Desk!checkGuards(j, m) \/ Desk!Unreachable(j, m)
  PROVE  GuardInv'
<1> DEFINE y == job[j]
<1>1. /\ GoodRun(y) /\ y.at = "check" /\ UNCHANGED <<Desk!vars, halted, cache>>
  BY DEF GuardInv, Desk!checkGuards, Desk!Unreachable
<1>2. {"at", "left", "states"} \subseteq DOMAIN y /\ Unpaused(y.states)
  BY <1>1 DEF GoodRun, Desk!Idle
<1>3. Lending'
  BY <1>1, DeskKeeps DEF GuardInv, Lending
<1>4. CASE Desk!Unreachable(j, m)
  <2> DEFINE x == [y EXCEPT !.left = @ \ {m}]
  <2>1. job' = [job EXCEPT ![j] = x]
    BY <1>4 DEF Desk!Unreachable
  <2>2. GoodRun(x)
    BY <1>1, <1>2 DEF GoodRun
  <2> HIDE DEF x
  <2> QED BY <1>1, <1>3, <2>1, <2>2, RunStep
<1>5. ASSUME Desk!checkGuards(j, m), halted[m] = y.states[m].pausedOnChain PROVE GuardInv'
  <2> DEFINE s == [halted |-> halted[m], pausedOnChain |-> y.states[m].pausedOnChain]
             x == [y EXCEPT !.at = "check", !.left = @ \ {m}, !.states = [@ EXCEPT ![m] = s]]
  <2>1. job' = [job EXCEPT ![j] = x]
    BY <1>5 DEF Desk!checkGuards, Desk!Found
  <2>2. s.pausedOnChain = FALSE
    BY <1>2 DEF Unpaused
  <2>3. /\ {"at", "left", "states"} \subseteq DOMAIN x /\ x.at = "check"
        /\ x.states = [y.states EXCEPT ![m] = s]
    BY <1>2
  <2>4. Unpaused([y.states EXCEPT ![m] = s])
    <3> HIDE DEF s, x
    <3> QED BY <1>2, <2>2, StatesStay
  <2> HIDE DEF x, s
  <2>5. GoodRun(x)
    BY <2>3, <2>4 DEF GoodRun
  <2> QED BY <1>1, <1>3, <2>1, <2>5, RunStep
<1>6. ASSUME Desk!checkGuards(j, m), halted[m] # y.states[m].pausedOnChain PROVE GuardInv'
  <2> DEFINE x == [at |-> "fetch", left |-> y.left, states |-> y.states,
                   m |-> m, shouldPause |-> halted[m]]
  <2>1. job' = [job EXCEPT ![j] = x]
    BY <1>6 DEF Desk!checkGuards
  <2>2. GoodRun(x)
    BY <1>2 DEF GoodRun, GuardInv
  <2> HIDE DEF x
  <2> QED BY <1>1, <1>3, <2>1, <2>2, RunStep
<1> QED BY <1>4, <1>5, <1>6

LEMMA FetchesMarket ==
  ASSUME GuardInv, NEW j \in Runs, Desk!FetchMarket(j)
  PROVE  GuardInv'
<1> DEFINE y == job[j]
           x == [at |-> "send", left |-> y.left, states |-> y.states, m |-> y.m,
                 shouldPause |-> y.shouldPause, found |-> market[y.m]]
<1>1. /\ GoodRun(y) /\ y.at = "fetch" /\ UNCHANGED <<Desk!vars, halted, cache>>
      /\ job' = [job EXCEPT ![j] = x]
  BY DEF GuardInv, Desk!FetchMarket
<1>2. Unpaused(y.states) /\ y.m \in Markets /\ y.shouldPause \in BOOLEAN
  BY <1>1 DEF GoodRun, Desk!Idle
<1>3. Lending' /\ "max_ltv_bps" \in DOMAIN market[y.m]
  BY <1>1, <1>2, DeskKeeps DEF GuardInv, Lending
<1>4. GoodRun(x)
  BY <1>2, <1>3 DEF GoodRun
<1> HIDE DEF x
<1> QED BY <1>1, <1>3, <1>4, RunStep

(* The program refuses a max LTV of 0, so what is sent takes effect only if it is not 0. *)
LEMMA SendsUpdate ==
  ASSUME GuardInv, NEW j \in Runs, Desk!SendUpdate(j)
  PROVE  GuardInv'
<1> DEFINE y == job[j]
           r == Desk!Guarded(j)
<1>1. GoodRun(y) /\ y.at = "send" /\ UNCHANGED <<halted, cache>>
  BY Zenon DEF GuardInv, Desk!SendUpdate
<1>2. /\ Unpaused(y.states) /\ y.m \in Markets /\ y.shouldPause \in BOOLEAN
      /\ "max_ltv_bps" \in DOMAIN y.found
  BY <1>1 DEF GoodRun, Desk!Idle
<1>3. \/ Desk!UpdateMarket(y.m, r) /\ Desk!Report(j, y.shouldPause)
      \/ UNCHANGED Desk!vars /\ Desk!Report(j, y.states[y.m].pausedOnChain)
  BY Zenon DEF Desk!SendUpdate
<1>4. ASSUME NEW b, b = FALSE, Desk!Report(j, b), Lending' PROVE GuardInv'
  <2> DEFINE s == [halted |-> y.shouldPause, pausedOnChain |-> b]
             S == [y.states EXCEPT ![y.m] = s]
             x == [at |-> "check", left |-> y.left \ {y.m}, states |-> S]
  <2>1. job' = [job EXCEPT ![j] = x]
    BY <1>4 DEF Desk!Report
  <2>2. s.pausedOnChain = FALSE
    BY <1>4
  <2>3. Unpaused(S)
    <3> HIDE DEF s
    <3> QED BY <1>2, <2>2, StatesStay
  <2> HIDE DEF S
  <2>4. GoodRun(x)
    BY <2>3 DEF GoodRun
  <2> HIDE DEF x
  <2> QED BY <1>1, <1>4, <2>1, <2>4, RunStep
<1>5. CASE UNCHANGED Desk!vars /\ Desk!Report(j, y.states[y.m].pausedOnChain)
  <2>1. Lending'
    BY <1>5, DeskKeeps DEF GuardInv, Lending
  <2>2. y.states[y.m].pausedOnChain = FALSE
    BY <1>2 DEF Unpaused
  <2> QED BY <1>4, <1>5, <2>1, <2>2
<1>6. CASE Desk!UpdateMarket(y.m, r) /\ Desk!Report(j, y.shouldPause)
  <2>1. r = [y.found EXCEPT !.max_ltv_bps = IF y.shouldPause THEN 0 ELSE ListedLtv[y.m]]
    BY DEF Desk!Guarded
  <2>2. /\ "max_ltv_bps" \in DOMAIN r
        /\ r.max_ltv_bps = IF y.shouldPause THEN 0 ELSE ListedLtv[y.m]
    BY <1>2, <2>1
  <2> HIDE DEF r
  <2>3. r.max_ltv_bps > 0 /\ market' = [market EXCEPT ![y.m] = r]
    BY <1>6 DEF Desk!UpdateMarket, Desk!ValidRiskParams, Desk!ThresholdsOrdered
  <2>4. y.shouldPause = FALSE
    BY <1>2, <2>2, <2>3
  <2>5. Lending'
    BY <1>2, <2>2, <2>3 DEF GuardInv, Lending
  <2> QED BY <1>4, <1>6, <2>4, <2>5
<1> QED BY <1>3, <1>5, <1>6

LEMMA DeskStep ==
  ASSUME GuardInv, [Desk!DeskNext]_(Desk!all_vars)
  PROVE  GuardInv'
<1>1. ASSUME NEW j \in Runs, Desk!Start(j) PROVE GuardInv'
  <2> DEFINE x == [at |-> "check", left |-> Markets, states |-> cache]
  <2>1. job' = [job EXCEPT ![j] = x] /\ UNCHANGED <<Desk!vars, halted, cache>>
    BY <1>1 DEF Desk!Start
  <2>2. GoodRun(x) /\ Lending'
    BY <2>1, DeskKeeps DEF GuardInv, GoodRun, Lending
  <2> HIDE DEF x
  <2> QED BY <2>1, <2>2, RunStep
<1>2. ASSUME NEW j \in Runs, Desk!SaveStates(j) PROVE GuardInv'
  <2>1. /\ job[j].at = "check" /\ cache' = job[j].states
        /\ job' = [job EXCEPT ![j] = Desk!Idle] /\ UNCHANGED <<Desk!vars, halted>>
    BY <1>2 DEF Desk!SaveStates
  <2>2. Unpaused(cache') /\ Lending' /\ GoodRun(Desk!Idle)
    BY <2>1, DeskKeeps DEF GuardInv, GoodRun, Lending, Desk!Idle
  <2> QED BY <2>1, <2>2, RunStep
<1>3. ASSUME market' = market, cache' = cache, job' = job, halted' \in [Markets -> BOOLEAN]
      PROVE  GuardInv'
  BY <1>3 DEF GuardInv, Lending, Unpaused
<1>4. halted \in [Markets -> BOOLEAN]
  BY DEF GuardInv
<1>5. CASE Desk!ReadPositions
  BY <1>3, <1>4, <1>5, DeskKeeps DEF Desk!ReadPositions
<1>6. ASSUME NEW p \in Desk!Positions, NEW n \in Amounts, Desk!PostLiquidate(p, n)
      PROVE  GuardInv'
  BY <1>3, <1>4, <1>6 DEF Desk!PostLiquidate, Desk!Liquidate, Desk!admin_vars, Desk!desk_vars
<1>7. ASSUME NEW m \in Markets, Desk!IssuerReports(m) PROVE GuardInv'
  BY <1>3, <1>4, <1>7, DeskKeeps DEF Desk!IssuerReports
<1>8. CASE Desk!Others
  <2>1. market' = market
    BY <1>8 DEF Desk!Others, Desk!DepositCollateral, Desk!LockCollateral, Desk!Borrow,
       Desk!Repay, Desk!SetSignedPrice, Desk!admin_vars
  <2> QED BY <1>3, <1>4, <1>8, <2>1 DEF Desk!Others, Desk!desk_vars
<1>9. CASE UNCHANGED Desk!all_vars
  BY <1>3, <1>4, <1>9, DeskKeeps DEF Desk!all_vars, Desk!desk_vars
<1> QED BY <1>1, <1>2, <1>5, <1>6, <1>7, <1>8, <1>9, ChecksGuards, FetchesMarket, SendsUpdate
        DEF Desk!DeskNext

(* No run ever takes a market out of lending: the program refuses the max LTV of 0 by   *)
(* which the guards mean to do it, whatever the issuers report and however runs overlap. *)
(* So the page never shows a market as halted that lends.                             *)
THEOREM GuardsNeverHalt ==
  Desk!DeskSpec => []( /\ \A m \in Markets : market[m].max_ltv_bps > 0
                       /\ Desk!ChipIsTrue )
<1> DEFINE Lends == \A m \in Markets : market[m].max_ltv_bps > 0
<1>1. GuardInv => Lends
  BY DEF GuardInv, Lending
<1>2. GuardInv => Desk!ChipIsTrue
  <2>1. GuardInv => \A m \in Markets : ~cache[m].pausedOnChain
    BY DEF GuardInv, Unpaused
  <2> QED BY <2>1, Zenon DEF Desk!ChipIsTrue
<1>3. GuardInv /\ [Desk!DeskNext]_(Desk!all_vars) => GuardInv'
  BY DeskStep
<1> HIDE DEF Lends
<1>4. Desk!DeskSpec => [](Lends /\ Desk!ChipIsTrue)
  BY <1>1, <1>2, <1>3, GuardStarts, PTL DEF Desk!DeskSpec
<1> QED BY <1>4, PTL DEF Lends

-----------------------------------------------------------------------------
(* The devnet run: what the script leaves behind, wherever it fails.                 *)

CONSTANTS Scenarios, WantCrash, Market, Users, Concurrency, Batch, UnitCount, Worth, Room,
          Spare, CardLimit, Purchase, Euros, SafeLtv, Troubles, MaxFaults, FirstSources
VARIABLES main, keys, sol, queue, task, note, coll, wallets, allowance, source, before,
          crashed, restored, signal, price_tx, faults

Run == INSTANCE DevnetRun WITH saved <- keys, usdc <- wallets, Faults <- Troubles

(* A task stays where it is, goes on or ends; nothing else of the script moves. *)
TaskMoves(t) ==
  /\ task' = task \/ Run!Advance(t) \/ \E s : Run!Ends(t, s)
  /\ UNCHANGED <<Run!flow, Run!crash_vars>>

LEMMA SendsMoves ==
  ASSUME NEW t, NEW ACTION D, Run!Sends(t, D)
  PROVE  TaskMoves(t)
BY Zenon DEF Run!Sends, Run!retry, Run!Resends, Run!GivesUp, TaskMoves

LEMMA OneSendMoves ==
  ASSUME NEW t, NEW ACTION D, Run!SendsOnce(t, D)
  PROVE  TaskMoves(t)
BY Zenon DEF Run!SendsOnce, Run!GivesUp, TaskMoves

LEMMA RefusalMoves ==
  ASSUME NEW t, NEW ACTION D, Run!expectError(t, D)
  PROVE  TaskMoves(t)
BY Zenon DEF Run!expectError, TaskMoves

LEMMA CheckMoves ==
  ASSUME NEW t, NEW c, Run!expect(t, c)
  PROVE  TaskMoves(t)
BY Zenon DEF Run!expect, TaskMoves

(* The calls and checks of the scenarios. *)
CallStep(t, op) ==
  \/ Run!mintCollateral(t, op) \/ Run!deposit(t, op) \/ Run!borrow(t, op) \/ Run!topUp(t, op)
  \/ Run!repayAll(t, op) \/ Run!withdrawAll(t, op) \/ Run!withdrawSafe(t, op)
  \/ Run!approve(t, op) \/ Run!purchase(t, op) \/ Run!payout(t, op) \/ Run!repayHalf(t, op)
CheckStep(t, op) ==
  \/ Run!checkOpen(t, op) \/ Run!checkRepaid(t, op) \/ Run!checkBalance(t, op)
  \/ Run!checkApr(t, op) \/ Run!declined(t, op) \/ Run!checkHalf(t, op)
PriceOps == {"crash", "crashSent", "restore", "restoreSent", "view"}

LEMMA CallMoves ==
  ASSUME NEW t, NEW op, CallStep(t, op)
  PROVE  TaskMoves(t)
<1>1. CASE Run!mintCollateral(t, op)
  BY <1>1, SendsMoves, Zenon DEF Run!mintCollateral
<1>2. CASE Run!deposit(t, op)
  BY <1>2, SendsMoves, Zenon DEF Run!deposit
<1>3. CASE Run!borrow(t, op)
  BY <1>3, SendsMoves, Zenon DEF Run!borrow
<1>4. CASE Run!topUp(t, op)
  BY <1>4, SendsMoves, Zenon DEF Run!topUp
<1>5. CASE Run!repayAll(t, op)
  BY <1>5, SendsMoves, Zenon DEF Run!repayAll
<1>6. CASE Run!withdrawAll(t, op)
  BY <1>6, SendsMoves, Zenon DEF Run!withdrawAll
<1>7. CASE Run!withdrawSafe(t, op)
  BY <1>7, SendsMoves, Zenon DEF Run!withdrawSafe
<1>8. CASE Run!approve(t, op)
  BY <1>8, SendsMoves, Zenon DEF Run!approve
<1>9. CASE Run!purchase(t, op)
  BY <1>9, OneSendMoves, Zenon DEF Run!purchase
<1>10. CASE Run!payout(t, op)
  BY <1>10, OneSendMoves, Zenon DEF Run!payout
<1>11. CASE Run!repayHalf(t, op)
  BY <1>11, SendsMoves, Zenon DEF Run!repayHalf
<1> QED BY <1>1, <1>2, <1>3, <1>4, <1>5, <1>6, <1>7, <1>8, <1>9, <1>10, <1>11 DEF CallStep

LEMMA ScenarioMoves ==
  ASSUME NEW t, NEW op, Run!ScenarioStep(t, op)
  PROVE  TaskMoves(t)
<1>1. CASE CallStep(t, op)
  BY <1>1, CallMoves
<1>2. CASE CheckStep(t, op)
  BY <1>2, CheckMoves, Zenon DEF CheckStep, Run!checkOpen, Run!checkRepaid, Run!checkBalance,
     Run!checkApr, Run!declined, Run!checkHalf
<1>3. CASE Run!noLoan(t, op) \/ Run!noWithdrawal(t, op)
  BY <1>3, RefusalMoves, Zenon DEF Run!noLoan, Run!noWithdrawal
<1>4. CASE Run!valueUsd6(t, op) \/ Run!wait(t, op)
  BY <1>4, Zenon DEF Run!valueUsd6, Run!wait, TaskMoves
<1> QED BY <1>1, <1>2, <1>3, <1>4, Zenon DEF Run!ScenarioStep, CallStep, CheckStep

LEMMA ScenarioOps ==
  ASSUME NEW t, NEW op, Run!ScenarioStep(t, op)
  PROVE  op.op \notin PriceOps
<1> SUFFICES op.op \in {"mint", "deposit", "value", "borrow", "checkOpen", "topUp", "repayAll",
                        "checkRepaid", "withdrawAll", "checkBalance", "noLoan",
                        "noWithdrawal", "withdrawSafe", "checkApr", "approve", "purchase",
                        "declined", "payout", "wait", "repayHalf", "checkHalf"}
  BY DEF PriceOps
<1> QED BY Zenon DEF Run!ScenarioStep, Run!mintCollateral, Run!deposit, Run!valueUsd6,
  Run!borrow, Run!checkOpen, Run!topUp, Run!repayAll, Run!checkRepaid, Run!withdrawAll,
  Run!checkBalance, Run!noLoan, Run!noWithdrawal, Run!withdrawSafe, Run!checkApr, Run!approve,
  Run!purchase, Run!declined, Run!payout, Run!wait, Run!repayHalf, Run!checkHalf

(* Those of the crash pair that leave its price alone. *)
LEMMA PairMoves ==
  ASSUME NEW t, NEW op,
         Run!checkExposed(t, op) \/ Run!noLiquidation(t, op) \/ Run!checkSunk(t, op)
         \/ Run!liquidateMax(t, op) \/ Run!checkSaved(t, op)
  PROVE  TaskMoves(t) /\ op.op \notin PriceOps
<1>1. CASE Run!checkExposed(t, op)
  BY <1>1 DEF Run!checkExposed, TaskMoves, PriceOps
<1>2. CASE Run!noLiquidation(t, op)
  <2>1. op.op = "noLiquidation"
    BY <1>2, Zenon DEF Run!noLiquidation
  <2>2. TaskMoves(t)
    BY <1>2, RefusalMoves, Zenon DEF Run!noLiquidation
  <2> QED BY <2>1, <2>2 DEF PriceOps
<1>3. CASE Run!checkSunk(t, op)
  <2>1. op.op = "checkSunk" /\ TaskMoves(t)
    BY <1>3, CheckMoves, Zenon DEF Run!checkSunk
  <2> QED BY <2>1 DEF PriceOps
<1>4. CASE Run!liquidateMax(t, op)
  <2>1. op.op = "liquidate"
    BY <1>4, Zenon DEF Run!liquidateMax
  <2>2. TaskMoves(t)
    BY <1>4, SendsMoves, Zenon DEF Run!liquidateMax
  <2> QED BY <2>1, <2>2 DEF PriceOps
<1>5. CASE Run!checkSaved(t, op)
  <2>1. op.op = "checkSaved" /\ TaskMoves(t)
    BY <1>5, CheckMoves, Zenon DEF Run!checkSaved
  <2> QED BY <2>1 DEF PriceOps
<1> QED BY <1>1, <1>2, <1>3, <1>4, <1>5

-----------------------------------------------------------------------------
(* Nobody holds anything until every key is in the file.                            *)

Untouched ==
  /\ main \in {"save", "exited"} /\ sol = {}
  /\ collateral_amount = [p \in Positions |-> collateral_amount[p]]
  /\ debt_principal = [p \in Positions |-> debt_principal[p]]
  /\ \A w \in Run!Wallets :
       collateral_amount[Run!Pos(w)] = 0 /\ debt_principal[Run!Pos(w)] = 0

KeysInv == keys = Run!Wallets \/ Untouched

LEMMA TaskKeys ==
  ASSUME KeysInv, NEW t, NEW op \in Run!Awaits(t), Run!ScenarioStep(t, op) \/ Run!CrashStep(t, op)
  PROVE  KeysInv'
<1>1. main \in {"work", "pair"}
  BY Zenon DEF Run!Awaits
<1>2. keys = Run!Wallets
  BY <1>1 DEF KeysInv, Untouched
<1>3. keys' = keys
  <2>1. CASE Run!ScenarioStep(t, op)
    BY <2>1, ScenarioMoves DEF TaskMoves, Run!flow
  <2>2. CASE Run!checkExposed(t, op) \/ Run!noLiquidation(t, op) \/ Run!checkSunk(t, op)
             \/ Run!liquidateMax(t, op) \/ Run!checkSaved(t, op)
    BY <2>2, PairMoves DEF TaskMoves, Run!flow
  <2>3. CASE Run!priceView(t, op) \/ Run!sendCrash(t, op) \/ Run!crashSent(t, op)
             \/ Run!restoreStep(t, op) \/ Run!restoreSent(t, op)
    BY <2>3 DEF Run!priceView, Run!sendCrash, Run!crashSent, Run!restoreStep,
       Run!restoreSent, Run!flow
  <2> QED BY <2>1, <2>2, <2>3, Zenon DEF Run!CrashStep
<1>4. Run!Wallets' = Run!Wallets
  BY DEF Run!Wallets, Run!Pair
<1> QED BY <1>2, <1>3, <1>4 DEF KeysInv

LEMMA UsersKeys ==
  ASSUME Run!RunAssumption, KeysInv, Run!Others
  PROVE  KeysInv'
<1>1. UNCHANGED <<main, keys, sol>>
  BY DEF Run!Others, Run!flow
<1>2. ASSUME Untouched PROVE Untouched'
  <2>1. \A w \in Run!Wallets : Run!Pos(w) \in Positions /\ \A u \in Users : Run!Pos(u) # Run!Pos(w)
    BY DEF Run!RunAssumption, Run!Pos, Positions
  <2>2. \/ UNCHANGED <<collateral_amount, debt_principal>>
        \/ \E u \in Users : \E c : \E d :
             /\ collateral_amount' = [collateral_amount EXCEPT ![Run!Pos(u)] = c]
             /\ debt_principal' = [debt_principal EXCEPT ![Run!Pos(u)] = d]
    BY DEF Run!Others, Run!DepositCollateral, Run!LockCollateral, Run!Borrow, Run!Repay,
       Run!WritePosition, Run!SetSignedPrice, Run!position_vars
  <2>3. CASE UNCHANGED <<collateral_amount, debt_principal>>
    BY <1>1, <1>2, <2>3 DEF Untouched, Run!Pos
  <2>4. CASE ~UNCHANGED <<collateral_amount, debt_principal>>
    <3>1. PICK u \in Users : \E c : \E d :
            /\ collateral_amount' = [collateral_amount EXCEPT ![Run!Pos(u)] = c]
            /\ debt_principal' = [debt_principal EXCEPT ![Run!Pos(u)] = d]
      BY <2>2, <2>4
    <3>2. PICK c, d :
            /\ collateral_amount' = [collateral_amount EXCEPT ![Run!Pos(u)] = c]
            /\ debt_principal' = [debt_principal EXCEPT ![Run!Pos(u)] = d]
      BY <3>1
    <3> QED BY <1>1, <1>2, <2>1, <3>2 DEF Untouched
  <2> QED BY <2>3, <2>4
<1>3. Run!Wallets' = Run!Wallets
  BY DEF Run!Wallets, Run!Pair
<1> QED BY <1>1, <1>2, <1>3 DEF KeysInv

LEMMA ScriptKeys ==
  ASSUME KeysInv,
         \/ Run!SaveKeys \/ Run!Fund \/ Run!TakeScenario \/ Run!WorkDone \/ Run!Sweep \/ Run!Exit
         \/ Run!Finally \/ Run!PairDone \/ Run!Interrupt \/ Run!ExitOnSignal
         \/ \E t : Run!EndScenario(t)
         \/ \E tx : Run!Lands(tx) \/ Run!LosesTx(tx)
  PROVE  KeysInv'
<1>1. Run!Wallets' = Run!Wallets
  BY DEF Run!Wallets, Run!Pair
<1>2. keys' = keys \/ keys' = Run!Wallets
  BY DEF Run!SaveKeys, Run!Fund, Run!TakeScenario, Run!WorkDone, Run!Sweep, Run!Exit,
     Run!Finally, Run!PairDone, Run!Interrupt, Run!ExitOnSignal, Run!EndScenario, Run!Lands,
     Run!LosesTx, Run!flow
<1>3. CASE keys = Run!Wallets
  BY <1>1, <1>2, <1>3 DEF KeysInv
<1>4. CASE Untouched /\ ~Run!SaveKeys
  <2>1. UNCHANGED <<collateral_amount, debt_principal, sol>> /\ main' \in {main, "exited"}
    BY <1>4 DEF Untouched, Run!Fund, Run!TakeScenario, Run!WorkDone, Run!Sweep, Run!Exit,
       Run!Finally, Run!PairDone, Run!Interrupt, Run!ExitOnSignal, Run!EndScenario,
       Run!Lands, Run!LosesTx, Run!flow, Run!vars, Run!position_vars, Run!SetSignedPrice
  <2> QED BY <1>1, <1>4, <2>1 DEF KeysInv, Untouched, Run!Pos
<1>5. CASE Run!SaveKeys
  BY <1>1, <1>5 DEF KeysInv, Run!SaveKeys
<1> QED BY <1>3, <1>4, <1>5 DEF KeysInv

-----------------------------------------------------------------------------
(* The plans: lists of calls, of which only that of the crash pair moves the price.     *)

Omits(s, names) == \E S : s \in Seq(S) /\ \A x \in S : "op" \in DOMAIN x /\ x.op \notin names

LEMMA OmitsConcat ==
  ASSUME NEW s, NEW t, NEW names, Omits(s, names), Omits(t, names)
  PROVE  Omits(s \o t, names) /\ Len(s \o t) = Len(s) + Len(t)
<1>1. PICK S : s \in Seq(S) /\ \A x \in S : "op" \in DOMAIN x /\ x.op \notin names
  BY DEF Omits
<1>2. PICK T : t \in Seq(T) /\ \A x \in T : "op" \in DOMAIN x /\ x.op \notin names
  BY DEF Omits
<1>3. s \in Seq(S \cup T) /\ t \in Seq(S \cup T)
  BY <1>1, <1>2
<1>4. s \o t \in Seq(S \cup T) /\ Len(s \o t) = Len(s) + Len(t)
  BY <1>3
<1> QED BY <1>1, <1>2, <1>4 DEF Omits

LEMMA OmitsOf ==
  ASSUME NEW w, NEW s, NEW names, Omits(s, names)
  PROVE  Omits(Run!Of(w, s), names) /\ Len(Run!Of(w, s)) = Len(s)
<1>1. PICK S : s \in Seq(S) /\ \A x \in S : "op" \in DOMAIN x /\ x.op \notin names
  BY DEF Omits
<1> DEFINE r == Run!Of(w, s)
           T == {r[i] : i \in DOMAIN r}
<1>2. r = [i \in 1 .. Len(s) |-> [s[i] EXCEPT !.w = w]] /\ Len(s) \in Nat
  BY <1>1 DEF Run!Of
<1>3. \A i \in 1 .. Len(s) : "op" \in DOMAIN r[i] /\ r[i].op = s[i].op /\ s[i] \in S
  BY <1>1, <1>2
<1>4. r \in Seq(T) /\ Len(r) = Len(s)
  BY <1>2
<1>5. \A x \in T : "op" \in DOMAIN x /\ x.op \notin names
  BY <1>1, <1>2, <1>3
<1> QED BY <1>4, <1>5 DEF Omits

PairOps == {"crash", "crashSent", "restore"}
PlainList(s, n) == Omits(s, PairOps) /\ Len(s) = n
PlainOp(x) == "op" \in DOMAIN x /\ x.op \notin PairOps

LEMMA PlainLists ==
  /\ \A x : PlainOp(x) => PlainList(<<x>>, 1)
  /\ \A x, y : PlainOp(x) /\ PlainOp(y) => PlainList(<<x, y>>, 2)
  /\ \A x, y, z : PlainOp(x) /\ PlainOp(y) /\ PlainOp(z) => PlainList(<<x, y, z>>, 3)
  /\ \A x, y, z, v, w : PlainOp(x) /\ PlainOp(y) /\ PlainOp(z) /\ PlainOp(v) /\ PlainOp(w) =>
       PlainList(<<x, y, z, v, w>>, 5)
<1>1. ASSUME NEW s, NEW S, NEW n, s \in Seq(S), Len(s) = n, \A x \in S : PlainOp(x)
      PROVE  PlainList(s, n)
  BY <1>1 DEF PlainList, Omits, PlainOp
<1>2. ASSUME NEW x, PlainOp(x)
      PROVE  PlainList(<<x>>, 1)
  <2>1. PICK s, S : s = <<x>> /\ S = {x}
    OBVIOUS
  <2>2. s \in Seq(S) /\ Len(s) = 1
    BY <2>1
  <2>3. \A q \in S : PlainOp(q)
    BY <1>2, <2>1
  <2> QED BY <1>1, <2>1, <2>2, <2>3
<1>3. ASSUME NEW x, NEW y, PlainOp(x), PlainOp(y)
      PROVE  PlainList(<<x, y>>, 2)
  <2>1. PICK s, S : s = <<x, y>> /\ S = {x, y}
    OBVIOUS
  <2>2. s \in Seq(S) /\ Len(s) = 2
    BY <2>1
  <2>3. \A q \in S : PlainOp(q)
    BY <1>3, <2>1
  <2> QED BY <1>1, <2>1, <2>2, <2>3
<1>4. ASSUME NEW x, NEW y, NEW z, PlainOp(x), PlainOp(y), PlainOp(z)
      PROVE  PlainList(<<x, y, z>>, 3)
  <2>1. PICK s, S : s = <<x, y, z>> /\ S = {x, y, z}
    OBVIOUS
  <2>2. s \in Seq(S) /\ Len(s) = 3
    BY <2>1
  <2>3. \A q \in S : PlainOp(q)
    BY <1>4, <2>1
  <2> QED BY <1>1, <2>1, <2>2, <2>3
<1>5. ASSUME NEW x, NEW y, NEW z, NEW v, NEW w, PlainOp(x), PlainOp(y), PlainOp(z), PlainOp(v), PlainOp(w)
      PROVE  PlainList(<<x, y, z, v, w>>, 5)
  <2>1. PICK s, S : s = <<x, y, z, v, w>> /\ S = {x, y, z, v, w}
    OBVIOUS
  <2>2. s \in Seq(S) /\ Len(s) = 5
    BY <2>1
  <2>3. \A q \in S : PlainOp(q)
    BY <1>5, <2>1
  <2> QED BY <1>1, <2>1, <2>2, <2>3
<1> QED BY <1>2, <1>3, <1>4, <1>5

LEMMA PlainConcat ==
  ASSUME NEW s, NEW n \in Nat, PlainList(s, n), NEW t, NEW k \in Nat, PlainList(t, k)
  PROVE  PlainList(s \o t, n + k)
BY OmitsConcat DEF PlainList

LEMMA PlainOf ==
  ASSUME NEW w, NEW s, NEW n, PlainList(s, n)
  PROVE  PlainList(Run!Of(w, s), n)
BY OmitsOf DEF PlainList

LEMMA OpNames ==
  ASSUME NEW name, ~(name \in PairOps)
  PROVE  /\ PlainOp(Run!Do(name))
         /\ \A n : PlainOp(Run!DoN(name, n))
         /\ \A b : PlainOp(Run!To(name, b)) /\ PlainOp([Run!To(name, b) EXCEPT !.plus = 1])
BY DEF Run!Do, Run!DoN, Run!To, PlainOp

LEMMA Opens ==
  ASSUME NEW units, NEW b
  PROVE  PlainList(Run!Lock(units), 3) /\ PlainList(Run!openPosition(units, b), 5)
<1>1. PlainList(Run!Lock(units), 3)
  <2>1. /\ PlainOp(Run!DoN("mint", units)) /\ PlainOp(Run!DoN("deposit", units))
        /\ PlainOp(Run!DoN("value", units))
    BY OpNames DEF PairOps
  <2> QED BY <2>1, PlainLists DEF Run!Lock
<1>2. PlainList(<<Run!To("borrow", b), Run!Do("checkOpen")>>, 2)
  <2>1. PlainOp(Run!To("borrow", b)) /\ PlainOp(Run!Do("checkOpen"))
    BY OpNames DEF PairOps
  <2> QED BY <2>1, PlainLists
<1>3. PlainList(Run!Lock(units) \o <<Run!To("borrow", b), Run!Do("checkOpen")>>, 3 + 2)
  BY <1>1, <1>2, PlainConcat
<1> QED BY <1>1, <1>3 DEF Run!openPosition

LEMMA Closes == PlainList(Run!closeOut, 5)
<1>1. /\ PlainOp(Run!Do("topUp")) /\ PlainOp(Run!Do("repayAll")) /\ PlainOp(Run!Do("checkRepaid"))
      /\ PlainOp(Run!Do("withdrawAll")) /\ PlainOp(Run!Do("checkBalance"))
  BY OpNames DEF PairOps
<1> QED BY <1>1, PlainLists DEF Run!closeOut

(* No scenario moves the price. *)
LEMMA ScenarioPlain ==
  ASSUME NEW id \in Run!ScenarioIds
  PROVE  Omits(Run!ScenarioPlan(id), PairOps)
<1>1. \A s, n : PlainList(s, n) => Omits(s, PairOps)
  BY DEF PlainList
<1>2. \A u, b : Omits(Run!openPosition(u, b), PairOps) /\ Omits(Run!Lock(u), PairOps)
  BY <1>1, Opens
<1>3. Omits(Run!closeOut, PairOps)
  BY <1>1, Closes
<1>4. ASSUME NEW s, NEW t, Omits(s, PairOps), Omits(t, PairOps) PROVE Omits(s \o t, PairOps)
  BY <1>4, OmitsConcat
<1>5. \A x : PlainOp(x) => Omits(<<x>>, PairOps)
  BY <1>1, PlainLists
<1>6. \A x, y : PlainOp(x) /\ PlainOp(y) => Omits(<<x, y>>, PairOps)
  BY <1>1, PlainLists
<1>7. \A x, y, z : PlainOp(x) /\ PlainOp(y) /\ PlainOp(z) => Omits(<<x, y, z>>, PairOps)
  BY <1>1, PlainLists
<1>8. \A x, y, z, v, w : PlainOp(x) /\ PlainOp(y) /\ PlainOp(z) /\ PlainOp(v) /\ PlainOp(w) =>
        Omits(<<x, y, z, v, w>>, PairOps)
  BY <1>1, PlainLists
<1>9. /\ PlainOp(Run!Do("checkApr")) /\ PlainOp(Run!Do("checkOpen"))
      /\ PlainOp(Run!Do("withdrawSafe")) /\ PlainOp(Run!Do("approve"))
      /\ PlainOp(Run!Do("purchase")) /\ PlainOp(Run!Do("declined"))
      /\ PlainOp(Run!Do("payout")) /\ PlainOp(Run!Do("wait"))
      /\ PlainOp(Run!Do("repayHalf")) /\ PlainOp(Run!Do("checkHalf"))
      /\ \A n : PlainOp(Run!DoN("noWithdrawal", n))
      /\ \A b : PlainOp(Run!To("borrow", b)) /\ PlainOp(Run!To("noLoan", b))
                /\ PlainOp([Run!To("noLoan", b) EXCEPT !.plus = 1])
  BY OpNames DEF PairOps
<1>10. CASE id = "loop"
  BY <1>2, <1>3, <1>4, <1>10 DEF Run!ScenarioPlan
<1>11. CASE id = "band"
  BY <1>2, <1>3, <1>4, <1>5, <1>9, <1>11 DEF Run!ScenarioPlan
<1>12. CASE id = "bands"
  BY <1>2, <1>3, <1>4, <1>7, <1>9, <1>12 DEF Run!ScenarioPlan
<1>13. CASE id = "boundary"
  BY <1>2, <1>3, <1>4, <1>8, <1>9, <1>13 DEF Run!ScenarioPlan
<1>14. CASE id = "guard"
  BY <1>2, <1>3, <1>4, <1>6, <1>9, <1>14 DEF Run!ScenarioPlan
<1>15. CASE id = "card"
  BY <1>2, <1>3, <1>4, <1>7, <1>9, <1>15 DEF Run!ScenarioPlan
<1>16. CASE id = "sepa"
  BY <1>2, <1>3, <1>4, <1>5, <1>9, <1>16 DEF Run!ScenarioPlan
<1>17. CASE id = "interest"
  BY <1>2, <1>3, <1>4, <1>7, <1>9, <1>17 DEF Run!ScenarioPlan
<1> QED BY <1>10, <1>11, <1>12, <1>13, <1>14, <1>15, <1>16, <1>17 DEF Run!ScenarioIds

(* The pair crashes the price once, and then waits until that has landed. *)
CrashAt == 14
CrashesOnce(s) ==
  /\ \E S : s \in Seq(S)
  /\ Len(s) > CrashAt /\ s[CrashAt + 1].op = "crashSent"
  /\ \A i \in 1 .. Len(s) : s[i].op = "crash" => i = CrashAt

LEMMA CrashesConcat ==
  ASSUME NEW s, CrashesOnce(s), NEW t, Omits(t, {"crash"})
  PROVE  CrashesOnce(s \o t)
<1>1. PICK S : s \in Seq(S)
  BY DEF CrashesOnce
<1>2. PICK T : t \in Seq(T) /\ \A x \in T : x.op \notin {"crash"}
  BY DEF Omits
<1>3. s \in Seq(S \cup T) /\ t \in Seq(S \cup T) /\ Len(s) \in Nat /\ Len(t) \in Nat
  BY <1>1, <1>2
<1>4. s \o t \in Seq(S \cup T) /\ Len(s \o t) = Len(s) + Len(t)
  BY <1>3
<1>5. /\ \A i \in 1 .. Len(s) : (s \o t)[i] = s[i]
      /\ \A i \in Len(s) + 1 .. Len(s) + Len(t) :
           (s \o t)[i] = t[i - Len(s)] /\ i - Len(s) \in 1 .. Len(t)
  BY <1>3
<1>6. \A i \in 1 .. Len(t) : t[i].op # "crash"
  BY <1>2
<1>7. \A i \in 1 .. Len(s) + Len(t) : (s \o t)[i].op = "crash" => i = CrashAt
  <2> TAKE i \in 1 .. Len(s) + Len(t)
  <2>1. CASE i \in 1 .. Len(s)
    BY <1>5, <2>1 DEF CrashesOnce
  <2>2. CASE i \in Len(s) + 1 .. Len(s) + Len(t)
    BY <1>5, <1>6, <2>2
  <2> QED BY <1>3, <2>1, <2>2
<1>8. (s \o t)[CrashAt + 1].op = "crashSent"
  BY <1>3, <1>5 DEF CrashesOnce, CrashAt
<1> QED BY <1>3, <1>4, <1>7, <1>8 DEF CrashesOnce, CrashAt

LEMMA CrashesAfter ==
  ASSUME NEW s, PlainList(s, 13)
  PROVE  CrashesOnce(s \o <<Run!Do("crash"), Run!Do("crashSent")>>)
<1>1. PICK S : s \in Seq(S) /\ \A x \in S : x.op \notin PairOps
  BY DEF PlainList, Omits
<1>2. PICK t : t = <<Run!Do("crash"), Run!Do("crashSent")>>
  OBVIOUS
<1> DEFINE T == {t[1], t[2]}
<1>3. t \in Seq(T) /\ Len(t) = 2 /\ t[1].op = "crash" /\ t[2].op = "crashSent"
  BY <1>2 DEF Run!Do
<1> HIDE DEF T
<1>4. s \in Seq(S \cup T) /\ t \in Seq(S \cup T) /\ Len(s) \in Nat /\ Len(t) \in Nat
  BY <1>1, <1>3
<1>5. PICK r : /\ r = s \o t /\ r \in Seq(S \cup T) /\ Len(r) = Len(s) + Len(t)
               /\ \A i \in 1 .. Len(s) : r[i] = s[i] /\ s[i] \in S
               /\ \A i \in Len(s) + 1 .. Len(s) + Len(t) : r[i] = t[i - Len(s)]
  <2>1. s \o t \in Seq(S \cup T) /\ Len(s \o t) = Len(s) + Len(t)
    BY <1>4
  <2>2. /\ \A i \in 1 .. Len(s) : (s \o t)[i] = s[i]
        /\ \A i \in Len(s) + 1 .. Len(s) + Len(t) : (s \o t)[i] = t[i - Len(s)]
    BY <1>4
  <2>3. \A i \in 1 .. Len(s) : s[i] \in S
    BY <1>1
  <2> QED BY <2>1, <2>2, <2>3
<1>6. PICK n, k : n = Len(s) /\ k = Len(t) /\ n = 13 /\ k = 2
  BY <1>3 DEF PlainList
<1>7. Len(r) = 15 /\ r[14] = t[1] /\ r[15] = t[2]
  <2>1. Len(r) = n + k /\ r[n + 1] = t[n + 1 - n] /\ r[n + 2] = t[n + 2 - n]
    <3>1. n + 1 \in n + 1 .. n + k /\ n + 2 \in n + 1 .. n + k
      BY <1>6
    <3>2. Len(r) = n + k /\ \A i \in n + 1 .. n + k : r[i] = t[i - n]
      BY <1>5, <1>6, Zenon
    <3> QED BY <1>6, <3>1, <3>2
  <2> QED BY <1>6, <2>1
<1>8. \A i \in 1 .. 13 : r[i].op # "crash"
  BY <1>1, <1>5, <1>6 DEF PairOps
<1>9. r[15].op = "crashSent"
  BY <1>3, <1>7
<1>10. \A i \in 1 .. 15 : r[i].op = "crash" => i = 14
  <2> TAKE i \in 1 .. 15
  <2>1. CASE i \in 1 .. 13
    BY <1>8, <2>1
  <2>2. CASE i = 15
    BY <1>9, <2>2
  <2> QED BY <2>1, <2>2
<1>11. CrashesOnce(r)
  <2>1. CrashAt + 1 = 15 /\ 15 > CrashAt
    BY DEF CrashAt
  <2>2. Len(r) > CrashAt /\ r[CrashAt + 1].op = "crashSent"
    BY <1>7, <1>9, <2>1
  <2>3. \A i \in 1 .. Len(r) : r[i].op = "crash" => i = CrashAt
    BY <1>7, <1>10 DEF CrashAt
  <2> QED BY <1>5, <2>2, <2>3, Zenon DEF CrashesOnce
<1> QED BY <1>2, <1>5, <1>11

LEMMA PairPlan ==
  ASSUME NEW units
  PROVE  CrashesOnce(Run!CrashPlan(units))
<1>1. PICK set, A1, B1, A2, A3, B2, close, A4, B4 :
        /\ set = <<Run!Do("view"), Run!Do("exposed")>>
        /\ A1 = Run!Of("A", Run!openPosition(units, Run!MaxLtv - 1))
        /\ B1 = Run!Of("B", Run!openPosition(units, Run!MaxLtv \div 3))
        /\ A2 = Run!Of("A", <<Run!DoN("noLiquidation", "one")>>)
        /\ A3 = Run!Of("A", <<Run!Do("checkSunk"), Run!DoN("noLiquidation", "over"),
                              Run!Do("liquidate"), Run!Do("checkSaved"),
                              Run!DoN("noLiquidation", "one")>>)
        /\ B2 = Run!Of("B", <<Run!DoN("noLiquidation", "one")>>)
        /\ close = <<Run!Do("restore"), Run!Do("restoreSent")>>
        /\ A4 = Run!Of("A", Run!closeOut) /\ B4 = Run!Of("B", Run!closeOut)
  OBVIOUS
<1>2. /\ PlainOp(Run!Do("view")) /\ PlainOp(Run!Do("exposed")) /\ PlainOp(Run!Do("checkSunk"))
      /\ PlainOp(Run!Do("liquidate")) /\ PlainOp(Run!Do("checkSaved"))
      /\ \A n : PlainOp(Run!DoN("noLiquidation", n))
  BY OpNames DEF PairOps
<1>3. PlainList(set, 2)
  BY <1>1, <1>2, PlainLists
<1>4. PlainList(A1, 5) /\ PlainList(B1, 5)
  BY <1>1, Opens, PlainOf
<1>5. PlainList(A2, 1) /\ PlainList(B2, 1)
  BY <1>1, <1>2, PlainLists, PlainOf
<1>6. PlainList(A3, 5)
  BY <1>1, <1>2, PlainLists, PlainOf
<1>7. PlainList(A4, 5) /\ PlainList(B4, 5)
  BY <1>1, Closes, PlainOf
<1>8. PlainList(set \o A1, 7)
  <2>1. PlainList(set \o A1, 2 + 5)
    BY <1>3, <1>4, PlainConcat
  <2> QED BY <2>1
<1>9. PlainList(set \o A1 \o B1, 12)
  <2>1. PlainList(set \o A1 \o B1, 7 + 5)
    BY <1>4, <1>8, PlainConcat
  <2> QED BY <2>1
<1>10. PlainList(set \o A1 \o B1 \o A2, 13)
  <2>1. PlainList(set \o A1 \o B1 \o A2, 12 + 1)
    BY <1>5, <1>9, PlainConcat
  <2> QED BY <2>1
<1>11. CrashesOnce(set \o A1 \o B1 \o A2 \o <<Run!Do("crash"), Run!Do("crashSent")>>)
  BY <1>10, CrashesAfter
<1>12. \A s, n : PlainList(s, n) => Omits(s, {"crash"})
  BY DEF PlainList, Omits, PairOps
<1>13. Omits(close, {"crash"})
  <2>1. close \in Seq({Run!Do("restore"), Run!Do("restoreSent")})
    BY <1>1
  <2>2. \A x \in {Run!Do("restore"), Run!Do("restoreSent")} :
          "op" \in DOMAIN x /\ x.op \notin {"crash"}
    BY DEF Run!Do
  <2> QED BY <2>1, <2>2 DEF Omits
<1>14. PICK s : s = set \o A1 \o B1 \o A2 \o <<Run!Do("crash"), Run!Do("crashSent")>>
  OBVIOUS
<1>15. CrashesOnce(s \o A3)
  BY <1>6, <1>11, <1>12, <1>14, CrashesConcat
<1>16. CrashesOnce(s \o A3 \o B2)
  BY <1>5, <1>12, <1>15, CrashesConcat
<1>17. CrashesOnce(s \o A3 \o B2 \o close)
  BY <1>13, <1>16, CrashesConcat
<1>18. CrashesOnce(s \o A3 \o B2 \o close \o A4)
  BY <1>7, <1>12, <1>17, CrashesConcat
<1>19. CrashesOnce(s \o A3 \o B2 \o close \o A4 \o B4)
  BY <1>7, <1>12, <1>18, CrashesConcat
<1>20. Run!CrashPlan(units) = s \o A3 \o B2 \o close \o A4 \o B4
  BY <1>1, <1>14 DEF Run!CrashPlan
<1> QED BY <1>19, <1>20

-----------------------------------------------------------------------------
(* The crash price is posted at one place of the pair's plan, and restored once.          *)

Tasked ==
  /\ task = [t \in Run!Tasks |-> task[t]]
  /\ \A t \in Run!Tasks :
       task[t].at \in Nat /\ task[t] = [at |-> task[t].at, status |-> task[t].status]

PriceInv ==
  /\ Tasked /\ price_tx = [x \in {"crash", "restore"} |-> price_tx[x]]
  /\ crashed \in BOOLEAN /\ restored \in BOOLEAN /\ (signal = "handled" => restored)
  /\ main = "work" => queue \in Seq(Run!ScenarioIds)
  /\ main \in {"save", "fund", "work"} =>
       ~crashed /\ (Run!Crash \in Run!Tasks => task[Run!Crash].at = 0)
  /\ ~crashed => price_tx["crash"] = "none" /\ ~restored
  /\ crashed => Run!Crash \in Run!Tasks /\ CrashAt < task[Run!Crash].at
  /\ price_tx["crash"] = "sent" =>
       main = "pair" /\ ~restored
       /\ task[Run!Crash].at = CrashAt + 1 /\ task[Run!Crash].status = "run"
  /\ price_tx["restore"] \in IF restored THEN {"sent", "done"} ELSE {"none"}
  /\ price_tx["restore"] = "done" => source = "market"
  /\ crashed /\ ~restored => main = "pair"

LEMMA TasksStay == Run!Tasks' = Run!Tasks /\ Run!Crash' = Run!Crash /\ Run!ScenarioIds' = Run!ScenarioIds
BY DEF Run!Tasks, Run!Crash, Run!ScenarioIds

LEMMA CrashIsNoScenario ==
  ASSUME Run!RunAssumption
  PROVE  /\ \A t \in Run!Tasks : t # Run!Crash => t \in Run!ScenarioIds
         /\ Run!Crash \notin Run!ScenarioIds
         /\ WantCrash => Run!Crash \in Run!Tasks
<1>1. Scenarios \in Seq(Run!ScenarioIds)
  BY DEF Run!RunAssumption
<1>2. \A x \in Run!Range(Scenarios) : x \in Run!ScenarioIds
  BY <1>1 DEF Run!Range
<1> QED BY <1>2 DEF Run!Tasks, Run!Crash, Run!ScenarioIds

(* What a task that goes on can be at. *)
LEMMA AwaitsWhat ==
  ASSUME Run!RunAssumption, PriceInv, NEW t \in Run!Tasks, NEW op \in Run!Awaits(t)
  PROVE  /\ main \in {"work", "pair"} /\ task[t].status = "run"
         /\ t = Run!Crash => /\ main = "pair"
                             /\ op.op = "crash" => task[t].at = CrashAt
                             /\ task[t].at = CrashAt + 1 => op.op = "crashSent"
         /\ t # Run!Crash => op.op \notin PairOps
<1>1. /\ main \in {"work", "pair"} /\ task[t].status = "run" /\ task[t].at \in DOMAIN Run!Plan(t)
      /\ op = Run!Plan(t)[task[t].at]
  BY DEF Run!Awaits
<1>2. CASE t = Run!Crash
  <2>1. CrashesOnce(Run!Plan(t))
    BY <1>2, PairPlan DEF Run!Plan
  <2>2. PICK p : p = Run!Plan(t)
    OBVIOUS
  <2>3. DOMAIN p = 1 .. Len(p)
    BY <2>1, <2>2 DEF CrashesOnce
  <2>4. task[t].at # 0
    BY <1>1, <2>2, <2>3
  <2>5. main = "pair"
    BY <1>1, <1>2, <2>4 DEF PriceInv
  <2>6. /\ op.op = "crash" => task[t].at = CrashAt
        /\ task[t].at = CrashAt + 1 => op.op = "crashSent"
    BY <1>1, <2>1, <2>2, <2>3 DEF CrashesOnce
  <2> QED BY <1>1, <1>2, <2>5, <2>6
<1>3. CASE t # Run!Crash
  <2>1. t \in Run!ScenarioIds
    BY <1>3, CrashIsNoScenario
  <2>2. PICK p : p = Run!Plan(t)
    OBVIOUS
  <2>3. Omits(p, PairOps)
    BY <1>3, <2>1, <2>2, ScenarioPlain, OmitsOf DEF Run!Plan
  <2>4. PICK S : p \in Seq(S) /\ \A x \in S : x.op \notin PairOps
    BY <2>3 DEF Omits
  <2>5. op \in S
    BY <1>1, <2>2, <2>4
  <2> QED BY <1>1, <1>3, <2>4, <2>5
<1> QED BY <1>2, <1>3

(* A task that stays, goes on by k or ends. *)
LEMMA TaskTyped ==
  ASSUME Tasked, NEW t \in Run!Tasks, NEW k \in Nat,
         \/ task' = task
         \/ task' = [task EXCEPT ![t].at = @ + k]
         \/ \E s : task' = [task EXCEPT ![t].status = s]
  PROVE  /\ Tasked' /\ task'[t].at >= task[t].at
         /\ \A u \in Run!Tasks : u # t => task'[u] = task[u]
<1>1. CASE task' = task
  BY <1>1, TasksStay DEF Tasked
<1>2. CASE task' = [task EXCEPT ![t].at = @ + k]
  <2>1. task' = [u \in Run!Tasks |-> IF u = t THEN [task[t] EXCEPT !.at = @ + k] ELSE task[u]]
    BY <1>2 DEF Tasked
  <2>2. [task[t] EXCEPT !.at = @ + k] = [at |-> task[t].at + k, status |-> task[t].status]
    BY DEF Tasked
  <2>3. task[t].at \in Nat /\ task[t].at + k \in Nat
    BY DEF Tasked
  <2> QED BY <2>1, <2>2, <2>3, TasksStay DEF Tasked
<1>3. CASE \E s : task' = [task EXCEPT ![t].status = s]
  <2>1. PICK s : task' = [task EXCEPT ![t].status = s]
    BY <1>3
  <2>2. task' = [u \in Run!Tasks |-> IF u = t THEN [task[t] EXCEPT !.status = s] ELSE task[u]]
    BY <2>1 DEF Tasked
  <2>3. [task[t] EXCEPT !.status = s] = [at |-> task[t].at, status |-> s]
    BY DEF Tasked
  <2>4. task[t].at \in Nat
    BY DEF Tasked
  <2> QED BY <2>2, <2>3, <2>4, TasksStay DEF Tasked
<1> QED BY <1>1, <1>2, <1>3

LEMMA MoveKeeps ==
  ASSUME Run!RunAssumption, PriceInv, NEW t \in Run!Tasks, main \in {"work", "pair"},
         main = "work" => t # Run!Crash, t = Run!Crash => price_tx["crash"] # "sent",
         task' = task \/ Run!Advance(t) \/ \E s : Run!Ends(t, s),
         UNCHANGED <<main, queue, source, crashed, restored, signal, price_tx>>
  PROVE  PriceInv'
<1>1. /\ Tasked' /\ task'[t].at >= task[t].at
      /\ \A u \in Run!Tasks : u # t => task'[u] = task[u]
  BY TaskTyped DEF PriceInv, Run!Advance, Run!Ends
<1>2. CASE t = Run!Crash
  <2>1. task[t].at \in Nat /\ task'[t].at \in Nat
    BY <1>1, TasksStay DEF PriceInv, Tasked
  <2> QED BY <1>1, <1>2, <2>1, TasksStay DEF PriceInv, CrashAt
<1>3. CASE t # Run!Crash
  BY <1>1, <1>3, TasksStay DEF PriceInv
<1> QED BY <1>2, <1>3

LEMMA TaskKeepsPrice ==
  ASSUME Run!RunAssumption, PriceInv, NEW t \in Run!Tasks, NEW op \in Run!Awaits(t),
         Run!ScenarioStep(t, op) \/ Run!CrashStep(t, op)
  PROVE  PriceInv'
<1>1. /\ main \in {"work", "pair"} /\ task[t].status = "run"
      /\ t = Run!Crash => /\ main = "pair"
                          /\ op.op = "crash" => task[t].at = CrashAt
                          /\ task[t].at = CrashAt + 1 => op.op = "crashSent"
      /\ t # Run!Crash => op.op \notin PairOps
  BY AwaitsWhat
<1>2. t = Run!Crash /\ op.op # "crashSent" => price_tx["crash"] # "sent"
  BY <1>1 DEF PriceInv
<1>3. ASSUME op.op # "crashSent" \/ price_tx["crash"] # "sent",
             task' = task \/ Run!Advance(t) \/ \E s : Run!Ends(t, s),
             UNCHANGED <<main, queue, source, crashed, restored, signal, price_tx>>
      PROVE  PriceInv'
  BY <1>1, <1>2, <1>3, MoveKeeps
<1>4. ASSUME TaskMoves(t), op.op \notin PriceOps PROVE PriceInv'
  BY <1>3, <1>4 DEF TaskMoves, PriceOps, Run!flow, Run!crash_vars
<1>5. CASE Run!ScenarioStep(t, op)
  BY <1>4, <1>5, ScenarioMoves, ScenarioOps
<1>6. CASE Run!checkExposed(t, op) \/ Run!noLiquidation(t, op) \/ Run!checkSunk(t, op)
           \/ Run!liquidateMax(t, op) \/ Run!checkSaved(t, op)
  BY <1>4, <1>6, PairMoves
<1>7. CASE Run!priceView(t, op)
  BY <1>3, <1>7 DEF Run!priceView, Run!flow
<1>8. CASE Run!crashSent(t, op) \/ Run!restoreSent(t, op)
  <2>1. UNCHANGED <<main, queue, source, crashed, restored, signal, price_tx>>
    BY <1>8 DEF Run!crashSent, Run!restoreSent, Run!flow, Run!crash_vars
  <2>2. Run!Advance(t) \/ \E s : Run!Ends(t, s)
    BY <1>8, Zenon DEF Run!crashSent, Run!restoreSent, Run!AwaitsPrice
  <2>3. op.op # "crashSent" \/ price_tx["crash"] # "sent"
    BY <1>8 DEF Run!crashSent, Run!restoreSent, Run!AwaitsPrice
  <2> QED BY <1>3, <2>1, <2>2, <2>3
<1>9. CASE Run!sendCrash(t, op)
  <2>1. op.op = "crash" /\ crashed' = TRUE /\ Run!SendTx("crash") /\ Run!Advance(t)
        /\ UNCHANGED <<main, queue, source, restored, signal>>
    BY <1>9 DEF Run!sendCrash, Run!flow
  <2>2. t = Run!Crash /\ main = "pair" /\ task[t].at = CrashAt
    BY <1>1, <2>1 DEF PairOps
  <2>3. ~crashed /\ ~restored
    BY <2>2 DEF PriceInv, CrashAt
  <2>4. task' = [task EXCEPT ![t].at = @ + 1]
    BY <2>1 DEF Run!Advance
  <2>5. Tasked' /\ task'[t].at = CrashAt + 1 /\ task'[t].status = "run"
    <3>1. Tasked'
      BY <2>4, TaskTyped DEF PriceInv
    <3> QED BY <1>1, <2>2, <2>4, <3>1 DEF PriceInv, Tasked
  <2>6. price_tx' = [price_tx EXCEPT !["crash"] = "sent"]
    BY <2>1 DEF Run!SendTx
  <2>7. /\ price_tx' = [x \in {"crash", "restore"} |-> price_tx'[x]]
        /\ price_tx'["crash"] = "sent" /\ price_tx'["restore"] = price_tx["restore"]
    BY <2>6 DEF PriceInv
  <2>8. price_tx["restore"] = "none"
    BY <2>3 DEF PriceInv
  <2>9. main' = "pair" /\ restored' = FALSE /\ signal' # "handled"
    BY <2>1, <2>2, <2>3 DEF PriceInv
  <2>10. Run!Crash' \in Run!Tasks' /\ task'[Run!Crash'] = task'[t]
    BY <2>2, TasksStay
  <2>11. CrashAt < CrashAt + 1
    BY DEF CrashAt
  <2> QED BY <2>1, <2>5, <2>7, <2>8, <2>9, <2>10, <2>11, TasksStay DEF PriceInv
<1>10. CASE Run!restoreStep(t, op)
  <2>1. op.op = "restore" /\ Run!restore /\ UNCHANGED <<main, queue, source, crashed, signal>>
    BY <1>10 DEF Run!restoreStep, Run!flow
  <2>2. t = Run!Crash /\ main = "pair" /\ price_tx["crash"] # "sent"
    BY <1>1, <1>2, <2>1 DEF PairOps
  <2>3. PICK k \in {1, 2} : task' = [task EXCEPT ![t].at = @ + k]
    BY <1>10 DEF Run!restoreStep
  <2>4. Tasked' /\ task'[t].at >= task[t].at
    BY <2>3, TaskTyped DEF PriceInv
  <2>5. task[t].at \in Nat /\ task'[t].at \in Nat
    BY <2>4, TasksStay DEF PriceInv, Tasked
  <2>6. crashed => CrashAt < task'[t].at
    BY <2>2, <2>4, <2>5 DEF PriceInv, CrashAt
  <2>7. CASE Run!MustRestore
    <3>1. crashed /\ restored' = TRUE /\ price_tx' = [price_tx EXCEPT !["restore"] = "sent"]
      BY <2>1, <2>7 DEF Run!restore, Run!SendTx, Run!MustRestore
    <3>2. /\ price_tx' = [x \in {"crash", "restore"} |-> price_tx'[x]]
          /\ price_tx'["restore"] = "sent" /\ price_tx'["crash"] = price_tx["crash"]
      BY <3>1 DEF PriceInv
    <3> QED BY <2>1, <2>2, <2>4, <2>6, <3>1, <3>2, TasksStay DEF PriceInv
  <2>8. CASE ~Run!MustRestore
    <3>1. UNCHANGED <<restored, price_tx>>
      BY <2>1, <2>8 DEF Run!restore
    <3> QED BY <2>1, <2>2, <2>4, <2>6, <3>1, TasksStay DEF PriceInv
  <2> QED BY <2>7, <2>8
<1> QED BY <1>5, <1>6, <1>7, <1>8, <1>9, <1>10, Zenon DEF Run!CrashStep


(* What the script itself does to a task: it starts it or notes its result. *)
LEMMA TaskSet ==
  ASSUME Tasked, NEW x,
         task' = [task EXCEPT ![x].at = 1] \/ \E s : task' = [task EXCEPT ![x].status = s]
  PROVE  /\ Tasked'
         /\ \A u \in Run!Tasks : u # x => task'[u] = task[u]
<1>1. \A g : task' = [task EXCEPT ![x] = g] =>
        task' = [u \in Run!Tasks |-> IF u = x THEN g ELSE task[u]]
  BY DEF Tasked
<1>2. CASE task' = [task EXCEPT ![x].at = 1]
  <2>1. task' = [u \in Run!Tasks |-> IF u = x THEN [task[x] EXCEPT !.at = 1] ELSE task[u]]
    BY <1>1, <1>2
  <2>2. x \in Run!Tasks => [task[x] EXCEPT !.at = 1] = [at |-> 1, status |-> task[x].status]
    BY DEF Tasked
  <2> QED BY <2>1, <2>2, TasksStay DEF Tasked
<1>3. CASE \E s : task' = [task EXCEPT ![x].status = s]
  <2>1. PICK s : task' = [task EXCEPT ![x].status = s]
    BY <1>3
  <2>2. task' = [u \in Run!Tasks |-> IF u = x THEN [task[x] EXCEPT !.status = s] ELSE task[u]]
    BY <1>1, <2>1
  <2>3. x \in Run!Tasks => /\ [task[x] EXCEPT !.status = s] = [at |-> task[x].at, status |-> s]
                           /\ task[x].at \in Nat
    BY DEF Tasked
  <2> QED BY <2>2, <2>3, TasksStay DEF Tasked
<1> QED BY <1>2, <1>3

LEMMA ScriptKeepsPrice ==
  ASSUME Run!RunAssumption, PriceInv,
         \/ Run!SaveKeys \/ Run!Fund \/ Run!TakeScenario \/ Run!WorkDone \/ Run!Sweep \/ Run!Exit
  PROVE  PriceInv'
<1> USE TasksStay DEF PriceInv
<1>1. CASE Run!SaveKeys
  <2>1. UNCHANGED <<task, queue, source, crashed, restored, signal, price_tx>>
        /\ main = "save" /\ main' = "fund"
    BY <1>1 DEF Run!SaveKeys, Run!crash_vars
  <2> QED BY <2>1 DEF Tasked
<1>2. CASE Run!Fund
  <2>1. UNCHANGED <<task, source, crashed, restored, signal, price_tx>> /\ main = "fund"
        /\ ((main' = "work" /\ queue' = Scenarios) \/ main' \in {"fund", "exited"})
    BY <1>2 DEF Run!Fund, Run!crash_vars
  <2>2. Scenarios \in Seq(Run!ScenarioIds)
    BY DEF Run!RunAssumption
  <2> QED BY <2>1, <2>2 DEF Tasked
<1>3. CASE Run!TakeScenario
  <2>1. UNCHANGED <<main, source, crashed, restored, signal, price_tx>> /\ main = "work"
        /\ queue # <<>> /\ queue' = Tail(queue)
        /\ task' = [task EXCEPT ![Head(queue)].at = 1]
    BY <1>3 DEF Run!TakeScenario, Run!crash_vars
  <2>2. Head(queue) \in Run!ScenarioIds /\ queue' \in Seq(Run!ScenarioIds)
    BY <2>1
  <2>3. Tasked' /\ \A u \in Run!Tasks : u # Head(queue) => task'[u] = task[u]
    <3>1. PICK x : x = Head(queue)
      OBVIOUS
    <3>2. task' = [task EXCEPT ![x].at = 1]
      BY <2>1, <3>1
    <3>3. Tasked
      OBVIOUS
    <3> HIDE TasksStay DEF PriceInv
    <3>4. Tasked' /\ \A u \in Run!Tasks : u # x => task'[u] = task[u]
      BY <3>2, <3>3, TaskSet
    <3> QED BY <3>1, <3>4
  <2>4. Run!Crash # Head(queue)
    BY <2>2, CrashIsNoScenario
  <2> QED BY <2>1, <2>2, <2>3, <2>4
<1>4. CASE Run!WorkDone
  <2>1. UNCHANGED <<source, crashed, restored, signal, price_tx>> /\ main = "work"
        /\ main' \in {"pair", "sweep"}
    BY <1>4 DEF Run!WorkDone, Run!crash_vars
  <2>2. task' = task \/ task' = [task EXCEPT ![Run!Crash].at = 1]
    BY <1>4 DEF Run!WorkDone
  <2>3. Tasked'
    BY <2>2, TaskSet DEF Tasked
  <2> QED BY <2>1, <2>3
<1>5. CASE Run!Sweep
  <2>1. UNCHANGED <<task, main, source, crashed, restored, signal, price_tx>> /\ main = "sweep"
    BY <1>5 DEF Run!Sweep, Run!crash_vars
  <2> QED BY <2>1 DEF Tasked
<1>6. CASE Run!Exit
  <2>1. UNCHANGED <<task, source, crashed, restored, signal, price_tx>>
        /\ main = "sweep" /\ main' = "exited"
    BY <1>6 DEF Run!Exit, Run!crash_vars
  <2> QED BY <2>1 DEF Tasked
<1> QED BY <1>1, <1>2, <1>3, <1>4, <1>5, <1>6

(* The end of a scenario and the block `finally` of the pair. *)
LEMMA EndKeepsPrice ==
  ASSUME Run!RunAssumption, PriceInv,
         \/ \E t \in Run!Tasks : Run!EndScenario(t)
         \/ Run!Finally \/ Run!PairDone
  PROVE  PriceInv'
<1>1. ASSUME NEW t \in Run!Tasks, Run!EndScenario(t)
      PROVE  PriceInv'
  <2>1. UNCHANGED <<main, queue, source, crashed, restored, signal, price_tx>>
        /\ main = "work" /\ t # Run!Crash /\ Run!Ends(t, "PASS")
    BY <1>1 DEF Run!EndScenario, Run!flow, Run!crash_vars
  <2> QED BY <2>1, MoveKeeps
<1>2. CASE Run!Finally
  <2>1. UNCHANGED <<task, queue, source, crashed, signal>> /\ Run!restore
        /\ main = "pair" /\ main' = "restoring"
    BY <1>2 DEF Run!Finally
  <2>2. price_tx["crash"] # "sent"
    <3>1. CrashesOnce(Run!Plan(Run!Crash))
      BY PairPlan DEF Run!Plan
    <3>2. PICK p : p = Run!Plan(Run!Crash)
      OBVIOUS
    <3>3. Len(p) \in Nat /\ Len(p) > CrashAt
      BY <3>1, <3>2 DEF CrashesOnce
    <3>4. task[Run!Crash].status # "run" \/ task[Run!Crash].at > Len(p)
      BY <1>2, <3>2 DEF Run!Finally
    <3>5. ASSUME price_tx["crash"] = "sent" PROVE FALSE
      BY <3>3, <3>4, <3>5 DEF PriceInv, CrashAt
    <3> QED BY <3>5
  <2>3. CASE Run!MustRestore
    <3>1. crashed /\ restored' = TRUE /\ price_tx' = [price_tx EXCEPT !["restore"] = "sent"]
      BY <2>1, <2>3 DEF Run!restore, Run!SendTx, Run!MustRestore
    <3>2. /\ price_tx' = [x \in {"crash", "restore"} |-> price_tx'[x]]
          /\ price_tx'["restore"] = "sent" /\ price_tx'["crash"] = price_tx["crash"]
      BY <3>1 DEF PriceInv
    <3> QED BY <2>1, <2>2, <3>1, <3>2, TasksStay DEF PriceInv, Tasked
  <2>4. CASE ~Run!MustRestore
    <3>1. UNCHANGED <<restored, price_tx>> /\ (crashed => restored)
      BY <2>1, <2>4 DEF Run!restore, Run!MustRestore, PriceInv
    <3> QED BY <2>1, <2>2, <3>1, TasksStay DEF PriceInv, Tasked
  <2> QED BY <2>3, <2>4
<1>3. CASE Run!PairDone
  <2>1. UNCHANGED <<source, crashed, restored, signal, price_tx>>
        /\ main = "restoring" /\ main' = "sweep"
        /\ \E s : task' = [task EXCEPT ![Run!Crash].status = s]
    <3>1. task' = [task EXCEPT ![Run!Crash].status =
                     IF task[Run!Crash].status = "run" THEN "PASS" ELSE task[Run!Crash].status]
      BY <1>3 DEF Run!PairDone
    <3> QED BY <1>3, <3>1 DEF Run!PairDone, Run!crash_vars
  <2>2. Tasked'
    BY <2>1, TaskSet DEF PriceInv
  <2>3. crashed => task'[Run!Crash].at = task[Run!Crash].at
    <3>1. PICK s : task' = [task EXCEPT ![Run!Crash].status = s]
      BY <2>1
    <3>2. ASSUME crashed PROVE task'[Run!Crash] = [task[Run!Crash] EXCEPT !.status = s]
      BY <3>1, <3>2 DEF PriceInv, Tasked
    <3> QED BY <3>2 DEF PriceInv, Tasked
  <2> QED BY <2>1, <2>2, <2>3, TasksStay DEF PriceInv
<1> QED BY <1>1, <1>2, <1>3

(* Ctrl-C, at any time but while the crash is in flight. *)
LEMMA InterruptKeepsPrice ==
  ASSUME PriceInv, ~("interrupted crash" \in Troubles), Run!Interrupt \/ Run!ExitOnSignal
  PROVE  PriceInv'
<1>1. CASE Run!Interrupt
  <2>1. UNCHANGED <<task, queue, source, crashed>> /\ main # "exited"
    BY <1>1 DEF Run!Interrupt
  <2>2. price_tx["crash"] # "sent"
    BY <1>1 DEF Run!Interrupt, Run!MayFail, Run!Sent
  <2>3. \/ /\ main' = main /\ Run!MustRestore /\ Run!restore
           /\ main \in {"pair", "restoring"} /\ signal' = "handled"
        \/ main' = "exited" /\ UNCHANGED <<restored, price_tx, signal>>
    BY <1>1, Zenon DEF Run!Interrupt, Run!restore
  <2>4. CASE Run!MustRestore /\ Run!restore /\ main' = main /\ main \in {"pair", "restoring"}
             /\ signal' = "handled"
    <3>1. crashed /\ restored' = TRUE /\ price_tx' = [price_tx EXCEPT !["restore"] = "sent"]
      BY <2>4 DEF Run!restore, Run!SendTx, Run!MustRestore
    <3>2. /\ price_tx' = [x \in {"crash", "restore"} |-> price_tx'[x]]
          /\ price_tx'["restore"] = "sent" /\ price_tx'["crash"] = price_tx["crash"]
      BY <3>1 DEF PriceInv
    <3> QED BY <2>1, <2>2, <2>4, <3>1, <3>2, TasksStay DEF PriceInv, Tasked
  <2>5. CASE main' = "exited" /\ UNCHANGED <<restored, price_tx, signal>>
    <3>1. crashed => restored
      <4>1. CASE main \in {"pair", "restoring"}
        <5>1. ~Run!MustRestore
          BY <1>1, <2>1, <2>5, <4>1 DEF Run!Interrupt
        <5> QED BY <5>1 DEF Run!MustRestore
      <4>2. CASE main \notin {"pair", "restoring"}
        BY <4>2 DEF PriceInv
      <4> QED BY <4>1, <4>2
    <3> QED BY <2>1, <2>2, <2>5, <3>1, TasksStay DEF PriceInv, Tasked
  <2> QED BY <2>3, <2>4, <2>5
<1>2. CASE Run!ExitOnSignal
  <2>1. UNCHANGED <<task, queue, source, crashed, restored, signal, price_tx>>
        /\ signal = "handled" /\ main' = "exited" /\ price_tx["restore"] \in {"done", "lost"}
    BY <1>2 DEF Run!ExitOnSignal, Run!crash_vars, Run!Resolved
  <2> QED BY <2>1, TasksStay DEF PriceInv, Tasked
<1> QED BY <1>1, <1>2

(* The two transactions, and everybody else. *)
LEMMA ChainKeepsPrice ==
  ASSUME PriceInv, ~("lost " \o "restore" \in Troubles),
         \/ \E tx \in {"crash", "restore"} : Run!Lands(tx) \/ Run!LosesTx(tx)
         \/ Run!Others
  PROVE  PriceInv'
<1>1. ASSUME NEW tx \in {"crash", "restore"}, Run!Lands(tx)
      PROVE  PriceInv'
  <2>1. /\ UNCHANGED <<task, main, queue, crashed, restored, signal>> /\ price_tx[tx] = "sent"
        /\ source' = IF tx = "crash" THEN "demo" ELSE "market"
        /\ price_tx' = [price_tx EXCEPT ![tx] = "done"]
    <3>1. UNCHANGED Run!flow
      BY <1>1, Zenon DEF Run!Lands
    <3>2. UNCHANGED <<task, crashed, restored, signal>>
      BY <1>1 DEF Run!Lands
    <3>3. /\ source' = IF tx = "crash" THEN "demo" ELSE "market"
          /\ price_tx[tx] = "sent" /\ price_tx' = [price_tx EXCEPT ![tx] = "done"]
      BY <1>1, Zenon DEF Run!Lands, Run!Sent
    <3>4. UNCHANGED <<main, queue>>
      BY <3>1 DEF Run!flow
    <3> QED BY <3>2, <3>3, <3>4
  <2>2. /\ price_tx' = [x \in {"crash", "restore"} |-> price_tx'[x]]
        /\ price_tx'[tx] = "done"
        /\ \A x \in {"crash", "restore"} : x # tx => price_tx'[x] = price_tx[x]
    <3>1. price_tx = [x \in {"crash", "restore"} |-> price_tx[x]]
      BY DEF PriceInv
    <3>2. price_tx' = [x \in {"crash", "restore"} |-> IF x = tx THEN "done" ELSE price_tx[x]]
      BY <2>1, <3>1
    <3> QED BY <3>2
  <2>3. CASE tx = "crash"
    <3>1. ~restored /\ main = "pair" /\ price_tx'["restore"] = "none" /\ price_tx'["crash"] = "done"
      BY <2>1, <2>2, <2>3 DEF PriceInv
    <3> QED BY <2>1, <2>2, <3>1, TasksStay DEF PriceInv, Tasked
  <2>4. CASE tx = "restore"
    <3>1. price_tx'["restore"] = "done" /\ price_tx'["crash"] = price_tx["crash"]
          /\ price_tx["restore"] = "sent" /\ source' = "market"
      <4>1. price_tx["restore"] = "sent" /\ price_tx'["restore"] = "done" /\ source' = "market"
        BY <2>1, <2>2, <2>4
      <4>2. price_tx'["crash"] = price_tx["crash"]
        BY <2>2, <2>4
      <4> QED BY <4>1, <4>2
    <3>2. restored /\ price_tx["crash"] # "sent"
      BY <3>1 DEF PriceInv
    <3> QED BY <2>1, <2>2, <3>1, <3>2, TasksStay DEF PriceInv, Tasked
  <2> QED BY <2>3, <2>4
<1>2. ASSUME NEW tx \in {"crash", "restore"}, Run!LosesTx(tx)
      PROVE  PriceInv'
  <2>1. "lost " \o tx \in Troubles
    BY <1>2 DEF Run!LosesTx, Run!MayFail
  <2>2. tx = "crash"
    BY <2>1
  <2>3. UNCHANGED <<task, main, queue, source, crashed, restored, signal>> /\ price_tx["crash"] = "sent"
        /\ price_tx' = [price_tx EXCEPT !["crash"] = "lost"]
    BY <1>2, <2>2 DEF Run!LosesTx, Run!Sent, Run!flow
  <2>4. /\ price_tx' = [x \in {"crash", "restore"} |-> price_tx'[x]]
        /\ price_tx'["crash"] = "lost" /\ price_tx'["restore"] = price_tx["restore"]
    BY <2>3 DEF PriceInv
  <2> QED BY <2>3, <2>4, TasksStay DEF PriceInv, Tasked
<1>3. CASE Run!Others
  <2>1. UNCHANGED <<task, main, queue, source, crashed, restored, signal, price_tx>>
    BY <1>3 DEF Run!Others, Run!flow
  <2> QED BY <2>1, TasksStay DEF PriceInv, Tasked
<1> QED BY <1>1, <1>2, <1>3

(* Whatever fails, and wherever Ctrl-C is pressed, a wallet that holds SOL or a      *)
(* position has its key in the key file: "Save the throwaway keys before funding, so a   *)
(* crash or a rate-limited sweep never strands SOL or leaves a position nobody can       *)
(* close" (scripts/devnet-wallets.ts:567).                                           *)
THEOREM NothingStrandedAlways ==
  ASSUME Run!RunAssumption
  PROVE  Run!RunSpec => []Run!NothingStranded
<1>1. Run!RunInit => KeysInv
  <2> SUFFICES ASSUME Run!RunInit PROVE Untouched
    BY DEF KeysInv
  <2>1. main = "save" /\ sol = {}
    BY DEF Run!RunInit
  <2>2. /\ collateral_amount = [p \in Positions |-> 0]
        /\ debt_principal = [p \in Positions |-> 0]
    BY DEF Run!RunInit, Run!ListedInit, Run!Positions, Positions
  <2>3. \A w \in Run!Wallets : Run!Pos(w) \in Positions
    BY DEF Run!RunAssumption, Run!Pos, Positions
  <2> QED BY <2>1, <2>2, <2>3 DEF Untouched
<1>2. KeysInv /\ [Run!RunNext]_Run!run_vars => KeysInv'
  <2> SUFFICES ASSUME KeysInv, [Run!RunNext]_Run!run_vars PROVE KeysInv'
    OBVIOUS
  <2>1. CASE UNCHANGED Run!run_vars
    <3>1. UNCHANGED <<keys, main, sol, collateral_amount, debt_principal>>
      BY <2>1 DEF Run!run_vars, Run!flow, Run!vars, Run!position_vars
    <3> QED BY <3>1 DEF KeysInv, Untouched, Run!Wallets, Run!Pair, Run!Pos
  <2>2. CASE Run!Others
    BY <2>2, UsersKeys
  <2>3. CASE \E t \in Run!Tasks : \E op \in Run!Awaits(t) :
               Run!ScenarioStep(t, op) \/ Run!CrashStep(t, op)
    BY <2>3, TaskKeys
  <2>4. ASSUME \/ Run!SaveKeys \/ Run!Fund \/ Run!TakeScenario \/ Run!WorkDone \/ Run!Sweep
               \/ Run!Exit \/ Run!Finally \/ Run!PairDone \/ Run!Interrupt \/ Run!ExitOnSignal
               \/ \E t : Run!EndScenario(t)
               \/ \E tx : Run!Lands(tx) \/ Run!LosesTx(tx)
        PROVE  KeysInv'
    BY <2>4, ScriptKeys
  <2> QED BY <2>1, <2>2, <2>3, <2>4, Zenon DEF Run!RunNext
<1>3. KeysInv => Run!NothingStranded
  BY DEF KeysInv, Untouched, Run!NothingStranded
<1> QED BY <1>1, <1>2, <1>3, PTL DEF Run!RunSpec

(* When the transaction that restores the price is not lost, and Ctrl-C is not pressed    *)
(* while the crash is in flight, the price of the crash is not in force once the script  *)
(* has exited and its transactions have settled, whatever else fails, times out or is     *)
(* interrupted: "restores the price in `finally` and on Ctrl-C"                       *)
(* (scripts/devnet-wallets.ts:17).                                                   *)
THEOREM PriceRestoredAlways ==
  ASSUME Run!RunAssumption, ~("interrupted crash" \in Troubles),
         ~("lost " \o "restore" \in Troubles)
  PROVE  Run!RunSpec => []Run!PriceRestored
<1>1. Run!RunInit => PriceInv
  <2> SUFFICES ASSUME Run!RunInit PROVE PriceInv
    OBVIOUS
  <2>1. main = "save" /\ crashed = FALSE /\ restored = FALSE /\ signal = "none"
        /\ price_tx = [tx \in {"crash", "restore"} |-> "none"]
    BY DEF Run!RunInit
  <2>2. Tasked /\ \A t \in Run!Tasks : task[t].at = 0
    <3>1. task = [t \in Run!Tasks |-> [at |-> 0, status |-> "run"]]
      BY DEF Run!RunInit
    <3> QED BY <3>1 DEF Tasked
  <2>3. /\ price_tx = [x \in {"crash", "restore"} |-> price_tx[x]]
        /\ price_tx["crash"] = "none" /\ price_tx["restore"] = "none"
    BY <2>1
  <2> QED BY <2>1, <2>2, <2>3 DEF PriceInv
<1>2. PriceInv /\ [Run!RunNext]_Run!run_vars => PriceInv'
  <2> SUFFICES ASSUME PriceInv, [Run!RunNext]_Run!run_vars PROVE PriceInv'
    OBVIOUS
  <2>1. CASE UNCHANGED Run!run_vars
    <3>1. UNCHANGED <<task, main, queue, source, crashed, restored, signal, price_tx>>
      BY <2>1 DEF Run!run_vars, Run!flow, Run!crash_vars
    <3> QED BY <3>1, TasksStay DEF PriceInv, Tasked
  <2>2. CASE \E t \in Run!Tasks : \E op \in Run!Awaits(t) :
               Run!ScenarioStep(t, op) \/ Run!CrashStep(t, op)
    BY <2>2, TaskKeepsPrice
  <2>3. ASSUME \/ Run!SaveKeys \/ Run!Fund \/ Run!TakeScenario \/ Run!WorkDone \/ Run!Sweep
               \/ Run!Exit
        PROVE  PriceInv'
    BY <2>3, ScriptKeepsPrice
  <2>4. ASSUME (\E t \in Run!Tasks : Run!EndScenario(t)) \/ Run!Finally \/ Run!PairDone
        PROVE  PriceInv'
    BY <2>4, EndKeepsPrice
  <2>5. ASSUME (\E tx \in {"crash", "restore"} : Run!Lands(tx) \/ Run!LosesTx(tx)) \/ Run!Others
        PROVE  PriceInv'
    BY <2>5, ChainKeepsPrice
  <2>6. ASSUME Run!Interrupt \/ Run!ExitOnSignal PROVE PriceInv'
    BY <2>6, InterruptKeepsPrice
  <2> QED BY <2>1, <2>2, <2>3, <2>4, <2>5, <2>6, Zenon DEF Run!RunNext
<1>3. PriceInv => Run!PriceRestored
  BY DEF PriceInv, Run!PriceRestored, Run!Sent
<1> QED BY <1>1, <1>2, <1>3, PTL DEF Run!RunSpec
=============================================================================
