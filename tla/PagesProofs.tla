------------------------------ MODULE PagesProofs ------------------------------
(***************************************************************************)
(* What the pages apart from the borrower's show: the landing calculator, the  *)
(* page of the card, and the form of the waiting list over both its back ends. *)
(*                                                                         *)
(* What the calculator announces for stocks is what the program does, for     *)
(* every value a visitor can type: TLC tries a handful of them.  The argument *)
(* is arithmetic.  A market without a haircut lends against the value itself, *)
(* and an LTV rounded up to whole basis points is within a limit exactly when *)
(* the unrounded one is, so the page's cross-wise comparisons decide the      *)
(* program's checks.                                                          *)
(*                                                                         *)
(* The card page never shows the card as it was before a change the owner was *)
(* told of: telling the owner drops the answers under way (NewsInv).           *)
(*                                                                         *)
(* The waiting list in memory is whole after every restart (MemoryHolds); the  *)
(* one on Redis, one request at a time, is at every moment a list of those who *)
(* have been answered, settled, and what the sign-up under way has written of   *)
(* its own so far (ListHolds), so that it implements the one in memory.        *)
(***************************************************************************)
EXTENDS Calculator, Sequences, FiniteSetTheorems, TLAPS

USE ScaleAssumption

-----------------------------------------------------------------------------
(* Arithmetic *)

LEMMA FloorBounds ==
  ASSUME NEW n \in Nat, NEW d \in Nat \ {0}
  PROVE  n \div d \in Nat /\ (n \div d) * d <= n /\ n < (n \div d) * d + d
OBVIOUS

LEMMA ExactDivision ==
  ASSUME NEW x \in Nat, NEW d \in Nat \ {0}
  PROVE  (x * d) \div d = x
<1>1. PICK q \in Nat : q = (x * d) \div d /\ q * d <= x * d /\ x * d < q * d + d
  BY FloorBounds
<1>2. ~(q < x)
  <2>1. ASSUME q < x PROVE q * d + d <= x * d
    <3>1. PICK r \in Nat : x = q + 1 + r
      <4>1. x - q - 1 \in Nat /\ x = q + 1 + (x - q - 1)
        BY <2>1
      <4> QED BY <4>1
    <3>2. x * d = q * d + d + r * d /\ r * d \in Nat
      BY <3>1
    <3> QED BY <3>2
  <2> QED BY <1>1, <2>1
<1>3. ~(x < q)
  <2>1. ASSUME x < q PROVE x * d < q * d
    BY <2>1
  <2> QED BY <1>1, <2>1
<1> QED BY <1>1, <1>2, <1>3

(* A quotient rounded up is within a whole limit exactly when the quotient is. *)
LEMMA CeilWithin ==
  ASSUME NEW n \in Nat, NEW d \in Nat \ {0}, NEW k \in Nat
  PROVE  CeilDiv(n, d) <= k <=> n <= k * d
<1>1. CASE n = 0
  BY <1>1 DEF CeilDiv
<1>2. CASE n # 0
  <2>1. PICK q \in Nat : q = (n - 1) \div d /\ q * d <= n - 1 /\ n - 1 < q * d + d
    BY <1>2, FloorBounds
  <2>2. CeilDiv(n, d) = q + 1
    BY <1>2, <2>1 DEF CeilDiv
  <2>3. ASSUME q + 1 <= k PROVE n <= k * d
    <3>1. PICK r \in Nat : k = q + 1 + r
      <4>1. k - q - 1 \in Nat /\ k = q + 1 + (k - q - 1)
        BY <2>3
      <4> QED BY <4>1
    <3>2. k * d = q * d + d + r * d /\ r * d \in Nat
      BY <3>1
    <3> QED BY <2>1, <3>2
  <2>4. ASSUME k <= q PROVE k * d < n
    <3>1. k * d <= q * d
      BY <2>4
    <3> QED BY <1>2, <2>1, <3>1
  <2> QED BY <2>2, <2>3, <2>4
<1> QED BY <1>1, <1>2

-----------------------------------------------------------------------------
(* The program's LTV of a loan on stocks *)

LEMMA StocksAtFullValue ==
  ASSUME NEW w \in Nat
  PROVE  Lent("stocks", w) = w
<1>1. TOKEN_UNIT * MULTIPLIER_SCALE * BPS \in Nat \ {0}
  OBVIOUS
<1>2. (w * TOKEN_UNIT) * MULTIPLIER_SCALE * 1 * (BPS - 0)
        = w * (TOKEN_UNIT * MULTIPLIER_SCALE * BPS)
  OBVIOUS
<1>3. haircutBps["stocks"] = 0
  BY DEF haircutBps
<1> QED BY <1>1, <1>2, <1>3, ExactDivision DEF Lent, CollateralValueUsd6

(* The checks of borrow and liquidate, unrounded. *)
LEMMA StocksWithin ==
  ASSUME NEW b \in Nat, NEW w \in Nat, NEW k \in 0 .. BPS
  PROVE  PositionLtv("stocks", b, w) <= k <=> b * BPS <= k * w
<1>1. CASE w = 0
  BY <1>1, StocksAtFullValue DEF PositionLtv, LtvBps
<1>2. CASE w # 0
  <2>1. PositionLtv("stocks", b, w) = CeilDiv(b * BPS, w)
    BY <1>2, StocksAtFullValue DEF PositionLtv, LtvBps
  <2> QED BY <1>2, <2>1, CeilWithin
<1> QED BY <1>1, <1>2

LEMMA StocksLtvNat ==
  ASSUME NEW b \in Nat, NEW w \in Nat
  PROVE  PositionLtv("stocks", b, w) \in Nat
<1>1. CASE w = 0
  BY <1>1, StocksAtFullValue DEF PositionLtv, LtvBps
<1>2. CASE w # 0
  <2>1. PositionLtv("stocks", b, w) = CeilDiv(b * BPS, w)
    BY <1>2, StocksAtFullValue DEF PositionLtv, LtvBps
  <2>2. CeilDiv(b * BPS, w) \in Nat
    BY <1>2, FloorBounds DEF CeilDiv
  <2> QED BY <2>1, <2>2
<1> QED BY <1>1, <1>2
-----------------------------------------------------------------------------
(* The bands of stocks *)

LEMMA LeastOf ==
  ASSUME NEW S \in SUBSET Nat, NEW m \in S, \A x \in S : m <= x
  PROVE  Min(S) = m
<1>1. Min(S) \in S /\ \A x \in S : Min(S) <= x
  <2>1. \E x \in S : \A y \in S : x <= y
    OBVIOUS
  <2>2. PICK l \in S : l = CHOOSE x \in S : \A y \in S : x <= y
    BY <2>1
  <2> QED BY <2>1, <2>2 DEF Min
<1>2. Min(S) \in Nat /\ m \in Nat /\ Min(S) <= m /\ m <= Min(S)
  BY <1>1
<1> QED BY <1>2

(* select_apr_bps over the three bands: the first that covers the LTV, the    *)
(* last when none does.                                                       *)
LEMMA StocksRate ==
  ASSUME NEW ltv \in Nat, ltv <= 5000
  PROVE  SelectAprBps(aprBands["stocks"], ltv)
           = IF ltv <= 2000 THEN 990 ELSE IF ltv <= 3500 THEN 1290 ELSE 1490
<1> DEFINE bands == aprBands["stocks"]
           cover == CoveringBands(bands, ltv)
<1>1. bands = <<Band(2000, 990), Band(3500, 1290), Band(5000, 1490)>>
  BY DEF aprBands
<1>2. /\ bands[1].max_ltv_bps = 2000 /\ bands[1].apr_bps = 990
      /\ bands[2].max_ltv_bps = 3500 /\ bands[2].apr_bps = 1290
      /\ bands[3].max_ltv_bps = 5000 /\ bands[3].apr_bps = 1490
  BY <1>1 DEF Band
<1> HIDE DEF bands
<1>3. UsedBands(bands) = {1, 2, 3}
  BY <1>2 DEF UsedBands, Bands
<1>4. cover = {i \in {1, 2, 3} : ltv <= bands[i].max_ltv_bps}
  BY <1>3 DEF CoveringBands
<1> HIDE DEF cover
<1>5. 3 \in cover /\ cover \in SUBSET Nat
  BY <1>2, <1>4
<1>6. SelectAprBps(bands, ltv) = bands[Min(cover)].apr_bps
  BY <1>5 DEF SelectAprBps, cover
<1>7. CASE ltv <= 2000
  <2>1. 1 \in cover /\ \A x \in cover : 1 <= x
    BY <1>2, <1>4, <1>7
  <2>2. Min(cover) = 1
    BY <1>5, <2>1, LeastOf
  <2> QED BY <1>2, <1>6, <1>7, <2>2 DEF bands
<1>8. CASE ~(ltv <= 2000) /\ ltv <= 3500
  <2>1. 2 \in cover /\ \A x \in cover : 2 <= x
    BY <1>2, <1>4, <1>8
  <2>2. Min(cover) = 2
    BY <1>5, <2>1, LeastOf
  <2> QED BY <1>2, <1>6, <1>8, <2>2 DEF bands
<1>9. CASE ~(ltv <= 3500)
  <2>1. \A x \in cover : 3 <= x
    BY <1>2, <1>4, <1>9
  <2>2. Min(cover) = 3
    BY <1>5, <2>1, LeastOf
  <2> QED BY <1>2, <1>6, <1>9, <2>2 DEF bands
<1> QED BY <1>7, <1>8, <1>9

-----------------------------------------------------------------------------
(* The page *)

LEMMA LineNat ==
  ASSUME NEW t \in AssetType, NEW v \in Nat
  PROVE  creditLine(t, v) \in Nat /\ creditLine(t, v) * BPS <= MAX_LTV[t] * v
<1>1. MAX_LTV[t] * v \in Nat
  BY DEF AssetType, MAX_LTV
<1> QED BY <1>1, FloorBounds DEF creditLine

LEMMA PageTypes ==
  ASSUME CalculatorAssumption
  PROVE  TypeOK /\ [Next]_vars => TypeOK'
<1> SUFFICES ASSUME TypeOK, [Next]_vars PROVE TypeOK'
  OBVIOUS
<1> USE DEF TypeOK
<1>1. ASSUME NEW t \in AssetType, SetType(t) PROVE TypeOK'
  BY <1>1 DEF SetType
<1>2. ASSUME NEW t \in AssetType, ChoosePreset(t) PROVE TypeOK'
  <2>1. Presets[t] * MAX_LTV[t] * 7 \in Nat /\ Presets[t] \in Nat
    BY DEF AssetType, Presets, MAX_LTV
  <2>2. (Presets[t] * MAX_LTV[t] * 7) \div (BPS * 10) \in Nat
    BY <2>1, FloorBounds
  <2> QED BY <1>2, <2>1, <2>2 DEF ChoosePreset
<1>3. ASSUME NEW v \in Entries, TypeValue(v) PROVE TypeOK'
  <2>1. Entered(v) \in Nat
    BY CalculatorAssumption DEF CalculatorAssumption, Entered, AtLeast
  <2>2. AtMost(borrowed, creditLine(type, Entered(v))) \in Nat
    BY <2>1, LineNat DEF AtMost
  <2> QED BY <1>3, <2>1, <2>2 DEF TypeValue
<1>4. ASSUME NEW k \in 0 .. MaxStops, Slide(k) PROVE TypeOK'
  <2>1. creditLine(type, value) \div 200 \in Nat
    BY LineNat
  <2>2. sliderStep \in Nat
    BY <2>1 DEF sliderStep, AtLeast
  <2>3. k * sliderStep \in Nat
    BY <2>2
  <2> QED BY <1>4, <2>3 DEF Slide
<1>5. CASE UNCHANGED vars
  BY <1>5 DEF vars
<1> QED BY <1>1, <1>2, <1>3, <1>4, <1>5 DEF Next

(* The page's state stays a sum of dollars and one of the four types,         *)
(* whatever numbers are typed.                                                *)
THEOREM PageTypeCorrect ==
  ASSUME CalculatorAssumption
  PROVE  Spec => []TypeOK
<1>1. Init => TypeOK
  BY DEF Init, TypeOK, AssetType
<1>2. TypeOK /\ [Next]_vars => TypeOK'
  BY CalculatorAssumption, PageTypes
<1> QED BY <1>1, <1>2, PTL DEF Spec

(* The amount shown is within the line, so the program's LTV is too. *)
LEMMA ShownWithin ==
  ASSUME CalculatorAssumption, TypeOK, type = "stocks"
  PROVE  /\ clampedBorrowed \in Nat
         /\ PositionLtv("stocks", clampedBorrowed, value) \in Nat
         /\ PositionLtv("stocks", clampedBorrowed, value) <= 5000
<1>1. /\ creditLine("stocks", value) \in Nat
      /\ creditLine("stocks", value) * BPS <= 5000 * value
  BY LineNat DEF TypeOK, AssetType, MAX_LTV
<1>2. clampedBorrowed \in Nat /\ clampedBorrowed <= creditLine("stocks", value)
  BY <1>1 DEF TypeOK, clampedBorrowed, AtMost
<1> DEFINE b == clampedBorrowed
           line == creditLine("stocks", value)
<1>3. b \in Nat /\ line \in Nat /\ value \in Nat /\ b <= line /\ line * BPS <= 5000 * value
  BY <1>1, <1>2 DEF TypeOK
<1> HIDE DEF b, line
<1>4. b * BPS <= 5000 * value /\ 5000 \in 0 .. BPS
  BY <1>3, CalculatorAssumption DEF CalculatorAssumption
<1>5. PositionLtv("stocks", b, value) \in Nat /\ PositionLtv("stocks", b, value) <= 5000
  <2>1. PositionLtv("stocks", b, value) <= 5000 <=> b * BPS <= 5000 * value
    BY <1>3, <1>4, StocksWithin
  <2> QED BY <1>3, <1>4, <2>1, StocksLtvNat
<1> QED BY <1>3, <1>5 DEF b

(* Whatever is typed, slid or kept from another type, the program lends what  *)
(* the page shows for stocks.                                                 *)
THEOREM LentCorrect ==
  ASSUME CalculatorAssumption, Claimed = {"stocks"}
  PROVE  Spec => []LentAsShown
<1>1. TypeOK => LentAsShown
  BY CalculatorAssumption, ShownWithin DEF LentAsShown, Borrowable, maxLtvBps
<1>2. Spec => []TypeOK
  BY CalculatorAssumption, PageTypeCorrect
<1> QED BY <1>1, <1>2, PTL

(* The rate shown for stocks is the one the program sets. *)
THEOREM RateCorrect ==
  ASSUME CalculatorAssumption, Claimed = {"stocks"}
  PROVE  Spec => []RateAsShown
<1>1. TypeOK => RateAsShown
  <2> SUFFICES ASSUME TypeOK, type = "stocks" PROVE RateAsShown
    BY DEF RateAsShown
  <2> DEFINE b == clampedBorrowed
             ltv == PositionLtv("stocks", b, value)
  <2>1. b \in Nat /\ ltv \in Nat /\ ltv <= 5000 /\ value \in Nat
    BY CalculatorAssumption, ShownWithin DEF TypeOK
  <2> HIDE DEF b
  <2>2. /\ ltv <= 2000 <=> b * BPS <= 2000 * value
        /\ ltv <= 3500 <=> b * BPS <= 3500 * value
    <3>1. 2000 \in 0 .. BPS /\ 3500 \in 0 .. BPS
      BY CalculatorAssumption DEF CalculatorAssumption
    <3> QED BY <2>1, <3>1, StocksWithin
  <2>3. value = 0 => ltv <= 2000
    <3>1. CASE value = 0
      <4>1. b <= creditLine("stocks", 0)
        BY <3>1 DEF b, clampedBorrowed, AtMost, creditLine, TypeOK, MAX_LTV
      <4>2. creditLine("stocks", 0) = 0
        BY DEF creditLine, MAX_LTV
      <4> QED BY <2>1, <2>2, <3>1, <4>1, <4>2
    <3> QED BY <3>1
  <2> HIDE DEF ltv
  <2>4. /\ LtvAtMost(b, value, 2000) <=> ltv <= 2000
        /\ LtvAtMost(b, value, 3500) <=> ltv <= 3500
    BY <2>1, <2>2, <2>3 DEF LtvAtMost
  <2>5. SelectAprBps(aprBands["stocks"], ltv) = aprForLtv("stocks", b, value)
    BY <2>1, <2>4, StocksRate DEF aprForLtv
  <2> QED BY <2>5 DEF RateAsShown, b, ltv
<1>2. Spec => []TypeOK
  BY CalculatorAssumption, PageTypeCorrect
<1> QED BY <1>1, <1>2, PTL

(* The program may liquidate the loan the page shows for stocks at exactly    *)
(* the values below the one shown, not only at the two next to it.            *)
THEOREM SafeUntilShownEverywhere ==
  ASSUME CalculatorAssumption, Claimed = {"stocks"}
  PROVE  Spec => [](type = "stocks" => \A w \in Nat : SafeUntilShown(w))
<1>1. TypeOK => (type = "stocks" => \A w \in Nat : SafeUntilShown(w))
  <2> SUFFICES ASSUME TypeOK, type = "stocks", NEW w \in Nat PROVE SafeUntilShown(w)
    OBVIOUS
  <2> DEFINE b == clampedBorrowed
             ltv == PositionLtv("stocks", b, w)
  <2>1. b \in Nat
    BY CalculatorAssumption, ShownWithin
  <2> HIDE DEF b
  <2>2. ltv \in Nat /\ (ltv <= 6500 <=> b * BPS <= 6500 * w)
    <3>1. 6500 \in 0 .. BPS
      BY CalculatorAssumption DEF CalculatorAssumption
    <3> QED BY <2>1, <3>1, StocksWithin, StocksLtvNat
  <2> HIDE DEF ltv
  <2>3. UnderLiquidation("stocks", b, w) <=> ltv > 6500
    BY <2>1, <2>2 DEF UnderLiquidation, LIQUIDATION_THRESHOLD
  <2> QED BY <2>3 DEF SafeUntilShown, Liquidatable, liqThresholdBps, b, ltv
<1>2. Spec => []TypeOK
  BY CalculatorAssumption, PageTypeCorrect
<1> QED BY <1>1, <1>2, PTL

-----------------------------------------------------------------------------
(* The page of the card. *)
CONSTANTS QueryKeys, NoData, Requests, Amounts, Limits, CardRates, RateUnit, Mints, FirstMint,
          Prices, Funds, MaxPurchases, MaxTaps, MaxMonths, NoCard, NoCashback, Faults
VARIABLES data, fresh, flight, card, feed, allowance, approvals, month, changes,
          screen, busy, req, toast, told, taps

Card == INSTANCE CardPage WITH Rates <- CardRates

(* A change of the card that somebody was told of, or will be. *)
Acked(r) == req[r].at = "answered" /\ req[r].kind \in {"create", "patch", "freeze"} /\ req[r].answer.ok

(* Every change the owner was told of is one the card went through; and so is     *)
(* every change an answer under way tells of.  An answer of the query that is      *)
(* under way was given after the last change the owner was told of: when the owner *)
(* is told, whatever is under way is dropped.                                     *)
NewsInv ==
  /\ changes \in Nat /\ told \in Nat /\ told <= changes
  /\ DOMAIN req = Requests
  /\ \A r \in Requests : Acked(r) => req[r].answer.seen \in Nat /\ req[r].answer.seen <= changes
  /\ DOMAIN flight = QueryKeys
  /\ flight["card"].at = "answered" =>
       flight["card"].answer.seen \in Nat /\ flight["card"].answer.seen >= told

LEMMA NewsInitially ==
  ASSUME Card!CardPageAssumption, Card!Init
  PROVE  NewsInv
BY DEF Card!CardPageAssumption, Card!Init, Card!QueryInit, Card!NoFlight, Card!IdleReq, NewsInv, Acked

(* What the cache does with a query of either key keeps the answer under way of    *)
(* the card's query, or gives it one with the card as it is.                      *)
LEMMA QueriesKeepNews ==
  ASSUME Card!CardPageAssumption, NewsInv, Card!Queries
  PROVE  NewsInv'
<1>1. UNCHANGED <<changes, told, req>>
  BY DEF Card!Queries, Card!Interval, Card!Focus, Card!ServeQuery, Card!QueryArrives,
     Card!QueryFails, Card!TimePasses, Card!server_vars, Card!page_vars
<1>2. \A r \in Requests : Acked(r)' = Acked(r)
  BY <1>1 DEF Acked
<1>3. PICK k \in QueryKeys :
        \/ Card!Interval(k) \/ Card!Focus(k) \/ Card!ServeQuery(k) \/ Card!QueryArrives(k)
        \/ Card!QueryFails(k) \/ Card!TimePasses(k)
  BY DEF Card!Queries
<1>4. ASSUME NEW f, flight' = [flight EXCEPT ![k] = f],
             k = "card" /\ f.at = "answered" => f.answer.seen = changes
      PROVE  NewsInv'
  BY <1>1, <1>2, <1>4 DEF NewsInv, Card!CardPageAssumption
<1>5. CASE Card!Interval(k) \/ Card!Focus(k)
  BY <1>4, <1>5 DEF Card!Interval, Card!Focus, Card!Fetch, Card!Asked
<1>6. CASE Card!ServeQuery(k)
  BY <1>4, <1>6 DEF Card!ServeQuery, Card!Serve, Card!CardAnswer
<1>7. CASE Card!QueryArrives(k) \/ Card!QueryFails(k)
  BY <1>4, <1>7 DEF Card!QueryArrives, Card!QueryFails, Card!Arrive, Card!Fail, Card!NoFlight
<1>8. CASE Card!TimePasses(k)
  BY <1>1, <1>2, <1>8 DEF Card!TimePasses, Card!GoStale, NewsInv
<1> QED BY <1>3, <1>5, <1>6, <1>7, <1>8

(* Invalidating a query leaves no answer of it under way that was there before. *)
LEMMA InvalidatedKeepsNews ==
  ASSUME Card!CardPageAssumption, NewsInv,
         NEW k, Card!Invalidate(k, Card!ActiveKeys, Card!CardShape)
  PROVE  /\ DOMAIN flight' = QueryKeys
         /\ flight'["card"].at = "answered" => flight'["card"] = flight["card"]
BY DEF NewsInv, Card!Invalidate, Card!Asked, Card!CardPageAssumption

LEMMA OwnerKeepsNews ==
  ASSUME Card!CardPageAssumption, NewsInv, Card!Owner
  PROVE  NewsInv'
<1>1. changes' = changes /\ told' = told
  BY DEF Card!Owner, Card!Navigate, Card!approveLimit, Card!createCard, Card!toggleFreeze,
     Card!save, Card!pay, Card!Send, Card!server_vars
<1>2. \/ req' = req
      \/ \E r \in Requests : \E q : q.at = "asked" /\ req' = [req EXCEPT ![r] = q]
  BY DEF Card!Owner, Card!Navigate, Card!approveLimit, Card!createCard, Card!toggleFreeze,
     Card!save, Card!pay, Card!Send
<1>3. DOMAIN req' = Requests /\ \A r \in Requests : Acked(r)' => req'[r] = req[r] /\ Acked(r)
  BY <1>2 DEF NewsInv, Acked
<1>4. /\ DOMAIN flight' = QueryKeys
      /\ flight'["card"].at = "answered" => flight'["card"] = flight["card"]
  <2>1. CASE \E limit \in Limits : Card!approveLimit(limit)
    BY <2>1, InvalidatedKeepsNews DEF Card!approveLimit
  <2>2. CASE ~\E limit \in Limits : Card!approveLimit(limit)
    BY <2>2 DEF Card!Owner, Card!Navigate, Card!createCard, Card!toggleFreeze, Card!save,
       Card!pay, Card!Send, Card!query_vars, NewsInv
  <2> QED BY <2>1, <2>2
<1> QED BY <1>1, <1>3, <1>4 DEF NewsInv

(* The card API answers with the change it made. *)
LEMMA HandlerKeepsNews ==
  ASSUME Card!CardPageAssumption, NewsInv, NEW r \in Requests, Card!Handler(r)
  PROVE  NewsInv'
<1>1. UNCHANGED <<data, fresh, flight, told>>
  BY DEF Card!Handler, Card!ServeCreate, Card!ServePatch, Card!ServePay, Card!Reply,
     Card!query_vars
<1>2. PICK a : /\ req' = [req EXCEPT ![r] = [at |-> "answered", kind |-> req[r].kind,
                                              body |-> req[r].body, answer |-> a]]
               /\ \/ changes' = changes /\ (req[r].kind = "pay" \/ ~a.ok)
                  \/ changes' = changes + 1 /\ a.seen = changes'
  <2> DEFINE Yes == [ok |-> TRUE, seen |-> changes']
             No  == [ok |-> FALSE]
  <2>0. Yes.seen = changes' /\ ~No.ok
    OBVIOUS
  <2>1. CASE Card!ServeCreate(r)
    <3>1. changes' = changes + 1 /\ Card!Reply(r, Yes)
      BY <2>1 DEF Card!ServeCreate
    <3> HIDE DEF Yes, No
    <3> QED BY <2>0, <3>1 DEF Card!Reply
  <2>2. CASE Card!ServePatch(r) /\ card = NoCard
    <3>1. changes' = changes /\ Card!Reply(r, No)
      BY <2>2 DEF Card!ServePatch
    <3> HIDE DEF Yes, No
    <3> QED BY <2>0, <3>1 DEF Card!Reply
  <2>3. CASE Card!ServePatch(r) /\ card # NoCard
    <3>1. changes' = changes + 1 /\ Card!Reply(r, Yes)
      BY <2>3 DEF Card!ServePatch
    <3> HIDE DEF Yes, No
    <3> QED BY <2>0, <3>1 DEF Card!Reply
  <2>4. CASE Card!ServePay(r)
    <3>1. req[r].kind = "pay" /\ changes' = changes
      BY <2>4 DEF Card!ServePay, Card!Asks
    <3>2. Card!Reply(r, Card!Purchase(req[r].body.amount))
      BY <2>4 DEF Card!ServePay
    <3> QED BY <3>1, <3>2 DEF Card!Reply
  <2> QED BY <2>1, <2>2, <2>3, <2>4 DEF Card!Handler
<1>3. changes' \in Nat /\ changes <= changes'
  BY <1>2 DEF NewsInv
<1>4. DOMAIN req' = Requests
  BY <1>2 DEF NewsInv
<1>5. ASSUME NEW s \in Requests, Acked(s)'
      PROVE  req'[s].answer.seen \in Nat /\ req'[s].answer.seen <= changes'
  <2>1. CASE s = r
    BY <1>2, <1>3, <1>5, <2>1 DEF NewsInv, Acked
  <2>2. CASE s # r
    BY <1>2, <1>3, <1>5, <2>2 DEF NewsInv, Acked
  <2> QED BY <2>1, <2>2
<1> QED BY <1>1, <1>3, <1>4, <1>5 DEF NewsInv

LEMMA AnsweredKeepsNews ==
  ASSUME Card!CardPageAssumption, NewsInv, NEW r \in Requests, Card!Answered(r)
  PROVE  NewsInv'
<1>1. changes' = changes /\ req' = [req EXCEPT ![r] = Card!IdleReq]
  BY DEF Card!Answered, Card!Saved, Card!NotSaved, Card!Paid, Card!Finish, Card!server_vars
<1>2. DOMAIN req' = Requests /\ \A s \in Requests : Acked(s)' => Acked(s) /\ req'[s] = req[s]
  BY <1>1 DEF NewsInv, Acked, Card!IdleReq
<1>3. CASE Card!Saved(r)
  <2>1. Acked(r)
    BY <1>3 DEF Card!Saved, Card!Gets, Card!Changing, Acked
  <2>2. told' \in Nat /\ told' <= changes
    BY <1>3, <2>1 DEF Card!Saved, NewsInv
  <2>3. DOMAIN flight' = QueryKeys /\ (flight'["card"].at = "answered" => flight'["card"] = flight["card"])
    BY <1>3, InvalidatedKeepsNews DEF Card!Saved, Card!RefreshCard
  <2>4. CASE Card!Active("card")
    <3>1. flight'["card"].at = "asked"
      BY <1>3, <2>4 DEF Card!Saved, Card!RefreshCard, Card!Invalidate, Card!ActiveKeys,
         Card!Asked, Card!CardPageAssumption, NewsInv
    <3> QED BY <1>1, <1>2, <2>2, <2>3, <3>1 DEF NewsInv
  <2>5. CASE ~Card!Active("card")
    <3>1. told' = told
      BY <1>3, <2>5 DEF Card!Saved
    <3> QED BY <1>1, <1>2, <2>2, <2>3, <3>1 DEF NewsInv
  <2> QED BY <2>4, <2>5
<1>4. CASE Card!NotSaved(r) \/ Card!Paid(r)
  <2>1. told' = told
    BY <1>4 DEF Card!NotSaved, Card!Paid
  <2>2. DOMAIN flight' = QueryKeys /\ (flight'["card"].at = "answered" => flight'["card"] = flight["card"])
    BY <1>4, InvalidatedKeepsNews DEF Card!NotSaved, Card!Paid, Card!query_vars, NewsInv
  <2> QED BY <1>1, <1>2, <2>1, <2>2 DEF NewsInv
<1> QED BY <1>3, <1>4 DEF Card!Answered

LEMMA NewsStep ==
  ASSUME Card!CardPageAssumption, NewsInv, [Card!Next]_(Card!vars)
  PROVE  NewsInv'
<1>1. ASSUME \/ UNCHANGED Card!vars
             \/ \E i \in DOMAIN feed : Card!ProcessCashback(i)
             \/ \E limit \in Limits : Card!ExecuteApproval(limit)
             \/ Card!NextMonth
      PROVE  NewsInv'
  <2>1. UNCHANGED <<changes, told, req, flight>>
    BY <1>1 DEF Card!ProcessCashback, Card!ExecuteApproval, Card!NextMonth, Card!vars,
       Card!server_vars, Card!page_vars, Card!query_vars
  <2>2. \A r \in Requests : Acked(r)' = Acked(r)
    BY <2>1 DEF Acked
  <2> QED BY <2>1, <2>2 DEF NewsInv
<1> QED BY <1>1, QueriesKeepNews, OwnerKeepsNews, HandlerKeepsNews, AnsweredKeepsNews
        DEF Card!Next

(* Only an answer that arrives changes what is shown. *)
LEMMA OnlyArrivalsShow ==
  ASSUME Card!CardPageAssumption, NewsInv, [Card!Next]_(Card!vars),
         data'["card"] # data["card"]
  PROVE  data'["card"].seen >= told
<1>1. PICK k \in QueryKeys : Card!QueryArrives(k)
  BY DEF Card!Next, Card!vars, Card!Queries, Card!Interval, Card!Focus, Card!ServeQuery,
     Card!QueryFails, Card!TimePasses, Card!Fetch, Card!Serve, Card!Fail, Card!GoStale,
     Card!Owner, Card!Navigate, Card!approveLimit, Card!createCard, Card!toggleFreeze,
     Card!save, Card!pay, Card!Send, Card!Handler, Card!ServeCreate, Card!ServePatch,
     Card!ServePay, Card!Reply, Card!Answered, Card!Saved, Card!NotSaved, Card!Paid,
     Card!RefreshCard, Card!Invalidate, Card!ProcessCashback, Card!ExecuteApproval,
     Card!NextMonth, Card!query_vars
<1>2. flight[k].at = "answered" /\ data' = [data EXCEPT ![k] = flight[k].answer]
  BY <1>1 DEF Card!QueryArrives, Card!Arrive
<1>3. k = "card" /\ data'["card"] = flight["card"].answer
  BY <1>2
<1> QED BY <1>2, <1>3 DEF NewsInv

THEOREM NoOldNewsAlways ==
  ASSUME Card!CardPageAssumption
  PROVE  Card!Spec => Card!NoOldNews
<1>1. Card!Init => NewsInv
  BY NewsInitially
<1>2. NewsInv /\ [Card!Next]_(Card!vars) => NewsInv'
  BY NewsStep
<1>3. NewsInv /\ [Card!Next]_(Card!vars)
        => [data'["card"] # data["card"] => data'["card"].seen >= told]_(Card!vars)
  BY OnlyArrivalsShow
<1> QED BY <1>1, <1>2, <1>3, PTL DEF Card!Spec, Card!NoOldNews

-----------------------------------------------------------------------------
(* The waiting list in memory. *)
CONSTANTS Emails, Nobody, NoRecord, MaxSignups, SPOTS
VARIABLES records, codes, queue, signups, file, timer

Memory == INSTANCE WaitlistMemory

(* So many values are counted by numbering them without a repetition. *)
LEMMA Numbered ==
  ASSUME NEW n \in Nat, NEW f, NEW S, S = {f[i] : i \in 1 .. n},
         \A i, j \in 1 .. n : f[i] = f[j] => i = j
  PROVE  IsFiniteSet(S) /\ Cardinality(S) = n
<1> DEFINE g == [i \in 1 .. n |-> f[i]]
<1>1. g \in Bijection(1 .. n, S)
  BY DEF Bijection, Injection, Surjection, IsInjective
<1>2. IsFiniteSet(1 .. n)
  BY FS_Interval
<1>3. ExistsBijection(1 .. n, S)
  BY <1>1 DEF ExistsBijection
<1> QED BY <1>2, <1>3, FS_Bijection, FS_CountingElements

-----------------------------------------------------------------------------
Entry == [code : 1 .. MaxSignups, ref : 0 .. MaxSignups, count : Nat, reward : BOOLEAN]

(* Who joined with a code of e, by the records R and the codes C. *)
FriendsOf(R, C, e) ==
  {f \in Emails \ {e} : R[f] # NoRecord /\ R[f].ref # 0 /\ C[R[f].ref] = e}

(* A whole list of n sign-ups or fewer: each record is queued once and filed under *)
(* its code, each code belongs to the record that has it, and every friend counts. *)
ListedOnce(R, Q) ==
  /\ Q \in Seq(Emails)
  /\ \A i, j \in 1 .. Len(Q) : Q[i] = Q[j] => i = j
  /\ \A e \in Emails : R[e] # NoRecord <=> \E i \in 1 .. Len(Q) : Q[i] = e

Filed(R, C, n) ==
  /\ n \in 0 .. MaxSignups
  /\ R \in [Emails -> Entry \cup {NoRecord}] /\ C \in [1 .. MaxSignups -> Emails \cup {Nobody}]
  /\ \A e \in Emails : R[e] # NoRecord =>
       R[e].code <= n /\ R[e].ref <= n /\ C[R[e].code] = e
  /\ \A c \in 1 .. MaxSignups : C[c] # Nobody =>
       c <= n /\ R[C[c]] # NoRecord /\ R[C[c]].code = c

Counts(R, C) ==
  \A e \in Emails : R[e] # NoRecord =>
    /\ R[e].count = Cardinality(FriendsOf(R, C, e))
    /\ R[e].reward = (FriendsOf(R, C, e) # {})

WholeList(R, C, Q, n) == Filed(R, C, n) /\ ListedOnce(R, Q) /\ Counts(R, C)

NoneIsApart ==
  /\ Nobody \notin Emails /\ NoRecord \notin Entry
  /\ MaxSignups \in Nat \ {0} /\ SPOTS \in Nat \ {0}

LEMMA Apart == ASSUME Memory!WaitlistAssumption PROVE NoneIsApart
BY DEF Memory!WaitlistAssumption, NoneIsApart, Memory!Entry, Memory!Codes, Entry

LEMMA FriendsFinite ==
  ASSUME NEW R, NEW C, NEW Q, ListedOnce(R, Q), NEW e \in Emails
  PROVE  IsFiniteSet(FriendsOf(R, C, e))
<1>1. PICK n \in Nat : n = Len(Q)
  BY DEF ListedOnce
<1> DEFINE S == {Q[i] : i \in 1 .. n}
<1>2. IsFiniteSet(S)
  BY <1>1, Numbered DEF ListedOnce
<1>3. FriendsOf(R, C, e) \subseteq S
  BY <1>1 DEF FriendsOf, ListedOnce
<1> HIDE DEF S
<1> QED BY <1>2, <1>3, FS_Subset

(* One more address joins, last, under a new code; who it came from has a friend    *)
(* more.                                                                       *)
LEMMA JoinKeepsQueue ==
  ASSUME NEW R, NEW Q, ListedOnce(R, Q), NEW e \in Emails, R[e] = NoRecord,
         NEW S, S[e] # NoRecord,
         \A f \in Emails \ {e} : S[f] # NoRecord <=> R[f] # NoRecord
  PROVE  ListedOnce(S, Append(Q, e))
<1>1. PICK n \in Nat : n = Len(Q)
  BY DEF ListedOnce
<1>2. PICK P : P = Append(Q, e)
  OBVIOUS
<1>3. /\ P \in Seq(Emails) /\ Len(P) = n + 1
      /\ P[n + 1] = e /\ \A i \in 1 .. n : P[i] = Q[i]
  BY <1>1, <1>2 DEF ListedOnce
<1>4. \A i \in 1 .. n : Q[i] # e /\ Q[i] \in Emails
  BY <1>1 DEF ListedOnce
<1>5. \A i, j \in 1 .. n + 1 : P[i] = P[j] => i = j
  <2>1. \A i \in 1 .. n + 1 : i = n + 1 \/ i \in 1 .. n
    BY <1>1
  <2> QED BY <1>1, <1>3, <1>4, <2>1 DEF ListedOnce
<1>6. \A f \in Emails : S[f] # NoRecord <=> \E i \in 1 .. n + 1 : P[i] = f
  <2>1. \A i \in 1 .. n + 1 : i = n + 1 \/ i \in 1 .. n
    BY <1>1
  <2>2. 1 .. n \subseteq 1 .. n + 1 /\ n + 1 \in 1 .. n + 1
    BY <1>1
  <2> QED BY <1>1, <1>3, <1>4, <2>1, <2>2 DEF ListedOnce
<1> QED BY <1>2, <1>3, <1>5, <1>6 DEF ListedOnce

(* What a new address and the one it came from have on record. *)
CreditOf(x, y) ==
  y \in Entry /\ y.code = x.code /\ y.ref = x.ref /\ y.count = x.count + 1 /\ y.reward = TRUE

Bumped(x) == [x EXCEPT !.count = @ + 1, !.reward = TRUE]

LEMMA Credit ==
  ASSUME NEW x \in Entry
  PROVE  CreditOf(x, Bumped(x))
<1>1. PICK n \in Nat : n = x.count
  BY DEF Entry
<1>2. PICK y : y = [x EXCEPT !.count = n + 1, !.reward = TRUE]
  OBVIOUS
<1>3. y.code = x.code /\ y.ref = x.ref /\ y.count = n + 1 /\ y.reward = TRUE
  BY <1>2 DEF Entry
<1>4. y \in Entry
  <2>1. PICK z : z = [x EXCEPT !.count = n + 1]
    OBVIOUS
  <2>2. z \in Entry
    BY <1>1, <2>1 DEF Entry
  <2>3. y = [z EXCEPT !.reward = TRUE]
    BY <1>2, <2>1
  <2> QED BY <2>2, <2>3 DEF Entry
<1> QED BY <1>1, <1>2, <1>3, <1>4 DEF CreditOf, Bumped

WithNew(R, e, new) == [R EXCEPT ![e] = new]
WithCredit(R, from, e) ==
  IF from \in {Nobody, e} THEN R ELSE [R EXCEPT ![from] = Bumped(@)]

NewsOf(R, S, e, new, from) ==
  /\ S \in [Emails -> Entry \cup {NoRecord}]
  /\ S[e] = new
  /\ \A f \in Emails \ {e} :
       /\ from # f => S[f] = R[f]
       /\ from = f => CreditOf(R[f], S[f])

LEMMA JoinedRecords ==
  ASSUME NoneIsApart, NEW R \in [Emails -> Entry \cup {NoRecord}],
         NEW e \in Emails, NEW new \in Entry,
         NEW from \in (Emails \ {e}) \cup {Nobody}, from # Nobody => R[from] # NoRecord
  PROVE  NewsOf(R, WithCredit(WithNew(R, e, new), from, e), e, new, from)
<1>a. PICK added : added = WithNew(R, e, new)
  OBVIOUS
<1>b. PICK S : S = WithCredit(added, from, e)
  OBVIOUS
<1>n. SUFFICES NewsOf(R, S, e, new, from)
  BY <1>a, <1>b
<1> USE DEF NewsOf
<1>1. added \in [Emails -> Entry \cup {NoRecord}] /\ added[e] = new
      /\ \A f \in Emails \ {e} : added[f] = R[f]
  BY <1>a DEF WithNew
<1>2. CASE from = Nobody
  BY <1>1, <1>2, <1>b DEF NoneIsApart, WithCredit
<1>3. CASE from # Nobody
  <2>1. PICK old \in Entry : old = added[from] /\ old = R[from]
    BY <1>1, <1>3
  <2>2. PICK up : up = Bumped(added[from])
    OBVIOUS
  <2>3. CreditOf(old, up) /\ up \in Entry
    BY <2>1, <2>2, Credit DEF CreditOf
  <2>4. S = [added EXCEPT ![from] = up]
    <3>1. from \notin {Nobody, e}
      BY <1>3
    <3> QED BY <1>b, <2>2, <3>1 DEF WithCredit
  <2>5. /\ S \in [Emails -> Entry \cup {NoRecord}] /\ S[from] = up
        /\ \A f \in Emails \ {from} : S[f] = added[f]
    BY <1>1, <1>3, <2>3, <2>4
  <2> QED BY <1>1, <1>3, <2>1, <2>3, <2>5
<1> QED BY <1>2, <1>3

(* The new address is the only new friend, and of nobody but the one it came from. *)
OneMore(R, C, S, D, n, e, ref, from) ==
  /\ n \in Nat /\ ref \in 0 .. n
  /\ R[e] = NoRecord
  /\ \A g \in Emails : R[g] # NoRecord => R[g].ref \in 0 .. n
  /\ \A c \in 1 .. n : D[c] = C[c]
  /\ \A g \in Emails \ {e} :
       /\ S[g] # NoRecord <=> R[g] # NoRecord
       /\ R[g] # NoRecord => S[g].ref = R[g].ref
  /\ S[e] # NoRecord /\ S[e].ref = ref
  /\ from = (IF ref = 0 THEN Nobody ELSE C[ref]) /\ from # e

MoreFriends(R, C, S, D, e, from) ==
  \A f \in Emails : FriendsOf(S, D, f) = IF f = from THEN FriendsOf(R, C, f) \cup {e}
                                         ELSE FriendsOf(R, C, f)

LEMMA OneMoreFriend ==
  ASSUME NoneIsApart, NEW R, NEW C, NEW S, NEW D, NEW n, NEW e \in Emails, NEW ref, NEW from,
         OneMore(R, C, S, D, n, e, ref, from)
  PROVE  MoreFriends(R, C, S, D, e, from)
<1> SUFFICES ASSUME NEW f \in Emails
             PROVE  FriendsOf(S, D, f) = IF f = from THEN FriendsOf(R, C, f) \cup {e}
                                         ELSE FriendsOf(R, C, f)
  BY DEF MoreFriends
<1> USE DEF OneMore
<1>1. ASSUME NEW g \in Emails \ {e}
      PROVE  (S[g] # NoRecord /\ S[g].ref # 0 /\ D[S[g].ref] = f)
               <=> (R[g] # NoRecord /\ R[g].ref # 0 /\ C[R[g].ref] = f)
  <2>1. CASE R[g] = NoRecord
    BY <2>1
  <2>2. CASE R[g] # NoRecord
    <3>1. PICK x \in 0 .. n : x = R[g].ref /\ x = S[g].ref
      BY <2>2
    <3>2. x # 0 => D[x] = C[x]
      BY <3>1
    <3> QED BY <2>2, <3>1, <3>2
  <2> QED BY <2>1, <2>2
<1>2. (S[e] # NoRecord /\ S[e].ref # 0 /\ D[S[e].ref] = f) <=> f = from
  BY DEF NoneIsApart
<1>3. e \notin FriendsOf(R, C, f)
  BY DEF FriendsOf
<1>4. ASSUME NEW g \in Emails \ {e}
      PROVE  g \in FriendsOf(S, D, f) <=> g \in FriendsOf(R, C, f)
  BY <1>1 DEF FriendsOf
<1>5. e \in FriendsOf(S, D, f) <=> f = from
  BY <1>2 DEF FriendsOf
<1>6. FriendsOf(S, D, f) \subseteq Emails /\ FriendsOf(R, C, f) \subseteq Emails
  BY DEF FriendsOf
<1> HIDE DEF OneMore
<1>7. CASE f = from
  <2>1. \A g \in Emails : g \in FriendsOf(S, D, f) <=> g \in FriendsOf(R, C, f) \cup {e}
    BY <1>4, <1>5, <1>7
  <2> QED BY <1>6, <1>7, <2>1
<1>8. CASE f # from
  <2>1. \A g \in Emails : g \in FriendsOf(S, D, f) <=> g \in FriendsOf(R, C, f)
    BY <1>3, <1>4, <1>5, <1>8
  <2> QED BY <1>6, <1>8, <2>1
<1> QED BY <1>7, <1>8

LEMMA JoinKeepsWhole ==
  ASSUME NoneIsApart, NEW R, NEW C, NEW Q, NEW n, WholeList(R, C, Q, n),
         NEW e \in Emails, R[e] = NoRecord, n + 1 \in 1 .. MaxSignups,
         NEW ref \in 0 .. n, NEW from, from = IF ref = 0 THEN Nobody ELSE C[ref],
         NEW new, new = [code |-> n + 1, ref |-> ref, count |-> 0, reward |-> FALSE],
         NEW S, S = WithCredit(WithNew(R, e, new), from, e),
         NEW D, D = [C EXCEPT ![n + 1] = e]
  PROVE  WholeList(S, D, Append(Q, e), n + 1)
<1>1. /\ n \in Nat /\ n + 1 \in 1 .. MaxSignups /\ C[n + 1] = Nobody
      /\ R \in [Emails -> Entry \cup {NoRecord}]
  BY DEF WholeList, Filed, NoneIsApart
<1>2. \A f \in Emails : R[f] # NoRecord =>
        /\ R[f].code \in 1 .. n /\ R[f].ref \in 0 .. n /\ R[f].count \in Nat
        /\ C[R[f].code] = f
  <2>1. \A f \in Emails : R[f] # NoRecord => R[f] \in Entry
    BY <1>1
  <2> QED BY <1>1, <2>1 DEF WholeList, Filed, Entry
<1>3. \A c \in 1 .. n : c \in 1 .. MaxSignups
  BY <1>1 DEF NoneIsApart
<1>4. from \in (Emails \ {e}) \cup {Nobody} /\ (from # Nobody => R[from] # NoRecord)
  <2>1. ref # 0 => ref \in 1 .. MaxSignups
    BY <1>1, <1>3
  <2> QED BY <2>1 DEF WholeList, Filed
<1>5. new \in Entry
  BY <1>1 DEF Entry, NoneIsApart
<1>6. /\ S \in [Emails -> Entry \cup {NoRecord}] /\ S[e] = new
      /\ \A f \in Emails \ {e} :
           /\ from # f => S[f] = R[f]
           /\ from = f => CreditOf(R[f], S[f])
  <2>1. R \in [Emails -> Entry \cup {NoRecord}]
    BY <1>1
  <2>2. from \in (Emails \ {e}) \cup {Nobody}
    BY <1>4
  <2>3. from # Nobody => R[from] # NoRecord
    BY <1>4
  <2>4. NewsOf(R, S, e, new, from)
    BY <1>5, <2>1, <2>2, <2>3, JoinedRecords
  <2> QED BY <2>4 DEF NewsOf
<1>7. S[e] # NoRecord /\ S[e].code = n + 1 /\ S[e].ref = ref /\ S[e].count = 0 /\ S[e].reward = FALSE
  BY <1>5, <1>6 DEF NoneIsApart
<1>8. \A f \in Emails \ {e} :
        /\ S[f] # NoRecord <=> R[f] # NoRecord
        /\ R[f] # NoRecord => S[f].code = R[f].code /\ S[f].ref = R[f].ref
  <2>1. ASSUME NEW f \in Emails \ {e}, from = f
        PROVE  S[f] # NoRecord /\ S[f].code = R[f].code /\ S[f].ref = R[f].ref
    <3>1. R[f] # NoRecord /\ CreditOf(R[f], S[f])
      BY <1>4, <1>6, <2>1 DEF NoneIsApart
    <3> QED BY <3>1 DEF NoneIsApart, CreditOf
  <2>2. ASSUME NEW f \in Emails \ {e}, from # f
        PROVE  S[f] = R[f]
    BY <1>6, <2>2
  <2>3. \A f \in Emails \ {e} : from = f => R[f] # NoRecord
    BY <1>4 DEF NoneIsApart
  <2> QED BY <2>1, <2>2, <2>3
<1>9. D \in [1 .. MaxSignups -> Emails \cup {Nobody}] /\ D[n + 1] = e
      /\ \A c \in 1 .. MaxSignups : c # n + 1 => D[c] = C[c]
  BY <1>1 DEF WholeList, Filed
<1>10. \A c \in 1 .. n : D[c] = C[c]
  BY <1>1, <1>3, <1>9
<1>11. Filed(S, D, n + 1)
  <2>1. ASSUME NEW f \in Emails, S[f] # NoRecord
        PROVE  S[f].code <= n + 1 /\ S[f].ref <= n + 1 /\ D[S[f].code] = f
    <3>1. CASE f = e
      BY <1>1, <1>7, <1>9, <3>1
    <3>2. CASE f # e
      <4>1. R[f].code \in 1 .. n /\ R[f].ref \in 0 .. n /\ C[R[f].code] = f
        BY <1>2, <1>8, <2>1, <3>2
      <4>2. S[f].code = R[f].code /\ S[f].ref = R[f].ref
        BY <1>8, <2>1, <3>2
      <4> QED BY <1>1, <1>10, <4>1, <4>2
    <3> QED BY <3>1, <3>2
  <2>2. ASSUME NEW c \in 1 .. MaxSignups, D[c] # Nobody
        PROVE  c <= n + 1 /\ S[D[c]] # NoRecord /\ S[D[c]].code = c
    <3>1. CASE c = n + 1
      BY <1>1, <1>7, <1>9, <3>1
    <3>2. CASE c # n + 1
      <4>1. D[c] \in Emails \ {e} /\ c <= n /\ R[D[c]] # NoRecord /\ R[D[c]].code = c
        BY <1>9, <2>2, <3>2 DEF WholeList, Filed
      <4>2. S[D[c]] # NoRecord /\ S[D[c]].code = c
        BY <1>8, <4>1
      <4> QED BY <1>1, <4>1, <4>2
    <3> QED BY <3>1, <3>2
  <2>3. n + 1 \in 0 .. MaxSignups
    BY <1>1
  <2> QED BY <1>6, <1>9, <2>1, <2>2, <2>3 DEF Filed
<1>12. ListedOnce(S, Append(Q, e))
  <2>1. ListedOnce(R, Q)
    BY DEF WholeList
  <2>2. \A f \in Emails \ {e} : S[f] # NoRecord <=> R[f] # NoRecord
    BY <1>8
  <2>3. S[e] # NoRecord
    BY <1>7
  <2> HIDE DEF WholeList, Filed
  <2> QED BY <2>1, <2>2, <2>3, JoinKeepsQueue
<1>13. ASSUME NEW f \in Emails
       PROVE  FriendsOf(S, D, f) = IF f = from THEN FriendsOf(R, C, f) \cup {e}
                                   ELSE FriendsOf(R, C, f)
  <2>1. from # e
    BY <1>4 DEF NoneIsApart
  <2>2. \A g \in Emails : R[g] # NoRecord => R[g].ref \in 0 .. n
    BY <1>2
  <2>3. \A g \in Emails \ {e} :
          /\ S[g] # NoRecord <=> R[g] # NoRecord
          /\ R[g] # NoRecord => S[g].ref = R[g].ref
    BY <1>8
  <2>4. n \in Nat /\ ref \in 0 .. n /\ R[e] = NoRecord
    BY <1>1
  <2>5. S[e] # NoRecord /\ S[e].ref = ref
    BY <1>7
  <2>6. OneMore(R, C, S, D, n, e, ref, from)
    BY <1>10, <2>1, <2>2, <2>3, <2>4, <2>5, Zenon DEF OneMore
  <2>7. MoreFriends(R, C, S, D, e, from)
    BY <2>6, OneMoreFriend, Zenon
  <2> QED BY <2>7 DEF MoreFriends
<1>14. FriendsOf(R, C, e) = {}
  <2>1. \A c \in 1 .. n : C[c] # e
    BY <1>1, <1>3 DEF WholeList, Filed, NoneIsApart
  <2>2. ASSUME NEW g \in FriendsOf(R, C, e) PROVE FALSE
    <3>1. g \in Emails /\ R[g] # NoRecord /\ R[g].ref # 0 /\ C[R[g].ref] = e
      BY <2>2 DEF FriendsOf
    <3>2. R[g].ref \in 1 .. n
      BY <1>2, <3>1
    <3> QED BY <2>1, <3>1, <3>2
  <2> QED BY <2>2
<1>15. ASSUME NEW f \in Emails, S[f] # NoRecord
       PROVE  /\ S[f].count = Cardinality(FriendsOf(S, D, f))
              /\ S[f].reward = (FriendsOf(S, D, f) # {})
  <2>1. CASE f = e
    <3>1. FriendsOf(S, D, f) = {}
      BY <1>4, <1>13, <1>14, <2>1 DEF NoneIsApart
    <3> QED BY <1>7, <2>1, <3>1, FS_EmptySet
  <2>2. CASE f # e /\ f = from
    <3>1. PICK F : F = FriendsOf(R, C, f)
      OBVIOUS
    <3>2. IsFiniteSet(F) /\ e \notin F
      BY <3>1, FriendsFinite DEF FriendsOf, WholeList
    <3>3. Cardinality(F \cup {e}) = Cardinality(F) + 1
      BY <3>2, FS_AddElement
    <3>4. R[f] # NoRecord
      BY <1>8, <1>15, <2>2
    <3>5. R[f].count = Cardinality(F)
      BY <3>1, <3>4 DEF WholeList, Counts
    <3>6. S[f].count = R[f].count + 1 /\ S[f].reward = TRUE
      BY <1>6, <2>2 DEF CreditOf
    <3>7. FriendsOf(S, D, f) = F \cup {e}
      BY <1>13, <2>2, <3>1
    <3> QED BY <3>3, <3>5, <3>6, <3>7
  <2>3. CASE f # e /\ f # from
    <3>1. S[f] = R[f]
      BY <1>6, <2>3
    <3>2. FriendsOf(S, D, f) = FriendsOf(R, C, f)
      BY <1>13, <2>3
    <3> QED BY <1>15, <3>1, <3>2 DEF WholeList, Counts
  <2> QED BY <2>1, <2>2, <2>3
<1> QED BY <1>11, <1>12, <1>15 DEF WholeList, Counts
-----------------------------------------------------------------------------
LEMMA NobodyYet ==
  ASSUME NoneIsApart
  PROVE  WholeList([e \in Emails |-> NoRecord], [c \in 1 .. MaxSignups |-> Nobody], <<>>, 0)
<1> DEFINE R == [e \in Emails |-> NoRecord]
           C == [c \in 1 .. MaxSignups |-> Nobody]
<1>1. Filed(R, C, 0)
  BY DEF Filed, NoneIsApart
<1>2. ListedOnce(R, <<>>)
  BY DEF ListedOnce
<1>3. Counts(R, C)
  BY DEF Counts
<1> QED BY <1>1, <1>2, <1>3 DEF WholeList

LEMMA MoreSignups ==
  ASSUME NoneIsApart, NEW R, NEW C, NEW Q, NEW n, WholeList(R, C, Q, n), n + 1 \in 1 .. MaxSignups
  PROVE  WholeList(R, C, Q, n + 1)
<1>1. n \in Nat /\ n + 1 \in 0 .. MaxSignups
  BY DEF WholeList, Filed, NoneIsApart
<1>2. \A e \in Emails : R[e] # NoRecord => R[e].code \in Nat /\ R[e].ref \in Nat
  BY DEF WholeList, Filed, Entry
<1>3. Filed(R, C, n + 1)
  <2>1. \A e \in Emails : R[e] # NoRecord =>
          R[e].code <= n + 1 /\ R[e].ref <= n + 1 /\ C[R[e].code] = e
    BY <1>1, <1>2 DEF WholeList, Filed
  <2>2. \A c \in 1 .. MaxSignups : C[c] # Nobody =>
          c <= n + 1 /\ R[C[c]] # NoRecord /\ R[C[c]].code = c
    BY <1>1 DEF WholeList, Filed
  <2> QED BY <1>1, <2>1, <2>2 DEF WholeList, Filed
<1> QED BY <1>3 DEF WholeList

LEMMA QueuedOnce ==
  ASSUME NEW R, NEW Q, ListedOnce(R, Q)
  PROVE  Cardinality({Q[i] : i \in 1 .. Len(Q)}) = Len(Q)
<1>1. PICK n \in Nat : n = Len(Q)
  BY DEF ListedOnce
<1> DEFINE S == {Q[i] : i \in 1 .. n}
<1>2. Cardinality(S) = n
  BY <1>1, Numbered DEF ListedOnce
<1> QED BY <1>1, <1>2

(* Both lists are whole: the one in memory and the one in WAITLIST_FILE. *)
MemoryHolds ==
  /\ WholeList(records, codes, queue, signups)
  /\ WholeList(file.records, file.codes, file.queue, signups)

LEMMA JoinHolds ==
  ASSUME NoneIsApart, MemoryHolds, NEW e \in Emails, NEW ref \in 0 .. signups,
         Memory!Join(e, ref), UNCHANGED file
  PROVE  MemoryHolds'
<1>1. PICK n : n = signups
  OBVIOUS
<1>2. /\ records[e] = NoRecord /\ n + 1 \in 1 .. MaxSignups /\ signups' = n + 1
      /\ codes' = [codes EXCEPT ![n + 1] = e] /\ queue' = Append(queue, e)
  BY <1>1 DEF Memory!Join, Memory!Codes
<1>3. PICK new : new = [code |-> n + 1, ref |-> ref, count |-> 0, reward |-> FALSE]
  OBVIOUS
<1>4. PICK from : from = IF ref = 0 THEN Nobody ELSE codes[ref]
  OBVIOUS
<1>5. records' = WithCredit(WithNew(records, e, new), from, e)
  BY <1>1, <1>3, <1>4
     DEF Memory!Join, Memory!NewRecord, Memory!Credited, WithCredit, WithNew, Bumped
<1>6. WholeList(records, codes, queue, n) /\ ref \in 0 .. n
  BY <1>1 DEF MemoryHolds
<1>7. WholeList(records', codes', queue', n + 1)
  BY <1>2, <1>3, <1>4, <1>5, <1>6, JoinKeepsWhole
<1>8. WholeList(file.records, file.codes, file.queue, n + 1)
  BY <1>1, <1>2, MoreSignups DEF MemoryHolds
<1> QED BY <1>2, <1>7, <1>8 DEF MemoryHolds

LEMMA MemoryStep ==
  ASSUME NoneIsApart, MemoryHolds, [Memory!Next]_Memory!vars
  PROVE  MemoryHolds'
<1>1. ASSUME NEW e \in Emails, NEW ref \in 0 .. signups, Memory!SignUp(e, ref)
      PROVE  MemoryHolds'
  <2>1. CASE Memory!AlreadyJoined(e)
    BY <1>1, <2>1 DEF Memory!AlreadyJoined, Memory!SignUp, MemoryHolds
  <2>2. CASE Memory!Join(e, ref)
    BY <1>1, <2>2, JoinHolds DEF Memory!SignUp
  <2> QED BY <1>1, <2>1, <2>2 DEF Memory!SignUp, Memory!addToWaitlist
<1>2. CASE Memory!persistMem
  BY <1>2 DEF Memory!persistMem, Memory!core_vars, Memory!Contents, MemoryHolds
<1>3. CASE Memory!loadMem
  BY <1>3 DEF Memory!loadMem, MemoryHolds
<1>4. CASE UNCHANGED Memory!vars
  BY <1>4 DEF Memory!vars, Memory!core_vars, MemoryHolds
<1> QED BY <1>1, <1>2, <1>3, <1>4 DEF Memory!Next

LEMMA HoldsWhole ==
  ASSUME NoneIsApart, MemoryHolds
  PROVE  Memory!Whole
<1>1. ListedOnce(records, queue) /\ Filed(records, codes, signups) /\ Counts(records, codes)
  BY DEF MemoryHolds, WholeList
<1>2. Memory!Cardinality({queue[i] : i \in 1 .. Len(queue)}) = Len(queue)
  BY <1>1, QueuedOnce DEF Memory!Cardinality, Cardinality
<1>3. ASSUME NEW e \in Emails, records[e] # NoRecord
      PROVE  codes[records[e].code] = e /\ records[e].count = Memory!Cardinality(Memory!Friends(e))
  <2>1. Memory!Friends(e) = FriendsOf(records, codes, e)
    BY DEF Memory!Friends, FriendsOf
  <2>2. PICK F : F = FriendsOf(records, codes, e)
    OBVIOUS
  <2>3. records[e].count = Cardinality(F)
    BY <1>1, <1>3, <2>2 DEF Counts
  <2>4. Memory!Cardinality(F) = Cardinality(F)
    BY DEF Memory!Cardinality, Cardinality
  <2> QED BY <1>1, <1>3, <2>1, <2>2, <2>3, <2>4 DEF Filed
<1> QED BY <1>1, <1>2, <1>3 DEF Memory!Whole, ListedOnce

(* The list in memory is whole from the first sign-up on, and after every restart. *)
THEOREM WholeAlways ==
  ASSUME Memory!WaitlistAssumption
  PROVE  Memory!Spec => []Memory!Whole
<1>0. NoneIsApart
  BY Apart
<1>1. Memory!Init => MemoryHolds
  <2> SUFFICES ASSUME Memory!Init PROVE MemoryHolds
    OBVIOUS
  <2>1. /\ records = [e \in Emails |-> NoRecord] /\ codes = [c \in 1 .. MaxSignups |-> Nobody]
        /\ queue = <<>> /\ signups = 0
        /\ file.records = [e \in Emails |-> NoRecord]
        /\ file.codes = [c \in 1 .. MaxSignups |-> Nobody] /\ file.queue = <<>>
    BY DEF Memory!Init, Memory!CoreInit, Memory!Empty, Memory!Codes
  <2> QED BY <1>0, <2>1, NobodyYet DEF MemoryHolds
<1>2. MemoryHolds /\ [Memory!Next]_Memory!vars => MemoryHolds'
  BY <1>0, MemoryStep
<1>3. MemoryHolds => Memory!Whole
  BY <1>0, HoldsWhole
<1> QED BY <1>1, <1>2, <1>3, PTL DEF Memory!Spec

-----------------------------------------------------------------------------
(* The list on Redis. *)
CONSTANTS RATE_LIMIT_PER_HOUR, Stops
VARIABLES refs, rl, clock

List == INSTANCE Waitlist

(* One request at a time, none of which breaks off. *)
OneSignUp == (\A r, s \in Requests : r = s) /\ ~Stops

Asked(at, e, ref)       == [at |-> at, email |-> e, ref |-> ref]
Known(e, found)         == [at |-> "known", email |-> e, found |-> found]
Writing(at, e, ref, c)  == [at |-> at, email |-> e, ref |-> ref, code |-> c]
Crediting(at, e, ref, c, from) ==
  [at |-> at, email |-> e, ref |-> ref, code |-> c, referrer |-> from]

Scores(R) == [e \in Emails |-> IF R[e] = NoRecord THEN 0 ELSE R[e].code]
Line(C, n) == [i \in 1 .. n |-> C[i]]
Blank(c, ref) == [code |-> c, ref |-> ref, count |-> 0, reward |-> FALSE]
From(C, ref) == IF ref = 0 THEN Nobody ELSE C[ref]
Added(R, e, c, ref) == WithNew(R, e, Blank(c, ref))
OneUp(R, f) == [R EXCEPT ![f].count = @ + 1]
Rewarded(R, f) == [R EXCEPT ![f].reward = TRUE]

(* The list of those who have been answered: whole, and every code has an address. *)
Settled(R, C, n) ==
  /\ WholeList(R, C, Line(C, n), n)
  /\ \A c \in 1 .. n : C[c] # Nobody

(* Who is not joining: it has read the list as it is. *)
Waiting(q, R, n) ==
  \/ q = [at |-> "idle"]
  \/ \E e \in Emails, ref \in 0 .. n, at \in {"incr", "expire", "hgetall"} : q = Asked(at, e, ref)
  \/ \E e \in Emails : R[e] # NoRecord /\ q = Known(e, R[e])

(* Who is joining a list of R, C and n: what it has written of it so far.  X, F and Z *)
(* are what Redis has of the records, the codes and the queue.                     *)
Adding(q, X, F, Z, R, C, n, e, ref) ==
  LET c == n + 1
      new == Added(R, e, c, ref)
      filed == [C EXCEPT ![c] = e]
      queued == [Scores(R) EXCEPT ![e] = c]
      from == From(C, ref)
  IN  \/ q = Writing("hset", e, ref, c) /\ X = R /\ F = C /\ Z = Scores(R)
      \/ q = Writing("set", e, ref, c) /\ X = new /\ F = C /\ Z = Scores(R)
      \/ q = Writing("zadd", e, ref, c) /\ X = new /\ F = filed /\ Z = Scores(R)
      \/ q = Writing("get", e, ref, c) /\ ref # 0 /\ X = new /\ F = filed /\ Z = queued
      \/ q = Crediting("hincrby", e, ref, c, from) /\ ref # 0 /\ X = new /\ F = filed /\ Z = queued
      \/ q = Crediting("reward", e, ref, c, from) /\ ref # 0 /\ X = OneUp(new, from)
           /\ F = filed /\ Z = queued
      \/ q = Writing("zrank", e, ref, c) /\ ref = 0 /\ X = new /\ F = filed /\ Z = queued
      \/ q = Crediting("zrank", e, ref, c, from) /\ ref # 0 /\ X = WithCredit(new, from, e)
           /\ F = filed /\ Z = queued

AnsweredUpTo(n) ==
  DOMAIN told = Emails /\ \A e \in Emails : told[e] # NoRecord => told[e].code \in 1 .. n

Resting(R, C, n) ==
  /\ records = R /\ refs = C /\ queue = Scores(R) /\ clock = n
  /\ \A r \in Requests : Waiting(req[r], R, n)

Joins(R, C, n, r, e, ref) ==
  /\ R[e] = NoRecord /\ clock = n + 1 /\ n + 1 \in 1 .. MaxSignups
  /\ Adding(req[r], records, refs, queue, R, C, n, e, ref)

ListHolds(R, C, n) ==
  /\ Settled(R, C, n) /\ AnsweredUpTo(n) /\ DOMAIN req = Requests
  /\ \/ Resting(R, C, n)
     \/ \E r \in Requests, e \in Emails, ref \in 0 .. n : Joins(R, C, n, r, e, ref)

-----------------------------------------------------------------------------
LEMMA SettledFacts ==
  ASSUME NoneIsApart, NEW R, NEW C, NEW n, Settled(R, C, n)
  PROVE  /\ n \in 0 .. MaxSignups
         /\ R \in [Emails -> Entry \cup {NoRecord}] /\ C \in [1 .. MaxSignups -> Emails \cup {Nobody}]
         /\ \A e \in Emails : R[e] # NoRecord =>
              /\ R[e] \in Entry /\ R[e].code \in 1 .. n /\ C[R[e].code] = e
              /\ R[e].count \in Nat /\ R[e].reward = (R[e].count > 0)
         /\ \A c \in 1 .. n : C[c] \in Emails /\ R[C[c]] # NoRecord /\ R[C[c]].code = c
         /\ \A c \in 1 .. MaxSignups : c \notin 1 .. n => C[c] = Nobody
<1>1. Filed(R, C, n) /\ ListedOnce(R, Line(C, n)) /\ Counts(R, C)
  BY DEF Settled, WholeList
<1>2. /\ n \in 0 .. MaxSignups
      /\ R \in [Emails -> Entry \cup {NoRecord}] /\ C \in [1 .. MaxSignups -> Emails \cup {Nobody}]
  BY <1>1 DEF Filed
<1>3. ASSUME NEW e \in Emails, R[e] # NoRecord
      PROVE  /\ R[e] \in Entry /\ R[e].code \in 1 .. n /\ C[R[e].code] = e
             /\ R[e].count \in Nat /\ R[e].reward = (R[e].count > 0)
  <2>1. R[e] \in Entry
    BY <1>2, <1>3
  <2>2. R[e].code \in 1 .. n /\ C[R[e].code] = e
    BY <1>1, <1>2, <1>3, <2>1 DEF Filed, Entry
  <2>3. PICK F : F = FriendsOf(R, C, e)
    OBVIOUS
  <2>4. IsFiniteSet(F)
    BY <1>1, <2>3, FriendsFinite
  <2>5. R[e].count = Cardinality(F) /\ R[e].reward = (F # {})
    BY <1>1, <1>3, <2>3 DEF Counts
  <2>6. Cardinality(F) \in Nat /\ (Cardinality(F) = 0 <=> F = {})
    BY <2>4, FS_CardinalityType, FS_EmptySet
  <2>7. (Cardinality(F) > 0) = (F # {})
    BY <2>6
  <2> QED BY <2>1, <2>2, <2>5, <2>6, <2>7
<1>4. ASSUME NEW c \in 1 .. n
      PROVE  C[c] \in Emails /\ R[C[c]] # NoRecord /\ R[C[c]].code = c
  <2>1. c \in 1 .. MaxSignups
    BY <1>2 DEF NoneIsApart
  <2> QED BY <1>1, <1>2, <2>1 DEF Settled, Filed
<1>5. \A c \in 1 .. MaxSignups : c \notin 1 .. n => C[c] = Nobody
  BY <1>1, <1>2 DEF Filed
<1> QED BY <1>2, <1>3, <1>4, <1>5

(* As many addresses have a code up to k as there are numbers up to k. *)
LEMMA CodesUpTo ==
  ASSUME NoneIsApart, NEW R, NEW C, NEW n, Settled(R, C, n), NEW k \in 0 .. n
  PROVE  Cardinality({e \in Emails : R[e] # NoRecord /\ R[e].code <= k}) = k
<1>1. n \in Nat /\ k \in Nat
  BY SettledFacts DEF NoneIsApart
<1> DEFINE S == {C[i] : i \in 1 .. k}
           T == {e \in Emails : R[e] # NoRecord /\ R[e].code <= k}
<1>2. \A i \in 1 .. k : i \in 1 .. n
  BY <1>1
<1>3. \A i, j \in 1 .. k : C[i] = C[j] => i = j
  BY <1>2, SettledFacts
<1>4. Cardinality(S) = k
  BY <1>1, <1>3, Numbered
<1>5. ASSUME NEW e \in T PROVE e \in S
  <2>1. R[e].code \in 1 .. n /\ C[R[e].code] = e /\ R[e].code <= k
    BY <1>5, SettledFacts
  <2>2. R[e].code \in 1 .. k
    BY <1>1, <2>1
  <2> QED BY <2>1, <2>2
<1>6. ASSUME NEW i \in 1 .. k PROVE C[i] \in T
  <2>1. C[i] \in Emails /\ R[C[i]] # NoRecord /\ R[C[i]].code = i
    BY <1>2, SettledFacts
  <2> QED BY <1>1, <2>1
<1>7. S = T
  BY <1>5, <1>6
<1> QED BY <1>4, <1>7

-----------------------------------------------------------------------------
(* What the settled list says of one address, from what Redis has of it. *)
LEMMA Restored ==
  ASSUME NEW x \in Entry, x.reward = (x.count > 0), NEW y,
         y = x \/ y = [x EXCEPT !.count = @ + 1] \/ y = Bumped(x)
  PROVE  /\ y.code = x.code
         /\ y.count \in Nat /\ y.count - (IF y = x THEN 0 ELSE 1) = x.count
         /\ [y EXCEPT !.count = x.count, !.reward = (x.count > 0)] = x
<1>1. PICK k \in Nat : k = x.count
  BY DEF Entry
<1>2. PICK c, f, b : c = x.code /\ f = x.ref /\ b = x.reward
  OBVIOUS
<1>3. x = [code |-> c, ref |-> f, count |-> k, reward |-> b]
  BY <1>1, <1>2 DEF Entry
<1>4. y = x \/ y = [code |-> c, ref |-> f, count |-> k + 1, reward |-> b]
        \/ y = [code |-> c, ref |-> f, count |-> k + 1, reward |-> TRUE]
  BY <1>3 DEF Bumped
<1>5. PICK l, d : /\ y = [code |-> c, ref |-> f, count |-> l, reward |-> d]
                  /\ l \in {k, k + 1}
  BY <1>3, <1>4
<1>6. [y EXCEPT !.count = k, !.reward = (k > 0)] = x
  <2>1. PICK z : z = [y EXCEPT !.count = k]
    OBVIOUS
  <2>2. z = [code |-> c, ref |-> f, count |-> k, reward |-> d]
    BY <1>5, <2>1
  <2>3. [y EXCEPT !.count = k, !.reward = (k > 0)] = [z EXCEPT !.reward = (k > 0)]
    BY <2>1, <1>5
  <2>4. b = (k > 0)
    BY <1>1, <1>2
  <2> QED BY <1>3, <2>2, <2>3, <2>4
<1>7. y.count - (IF y = x THEN 0 ELSE 1) = k
  BY <1>1, <1>3, <1>4
<1> QED BY <1>1, <1>2, <1>5, <1>6, <1>7

(* What Redis has of a list of R, C and n while the addresses of J join it and those *)
(* of L have been credited for one of them.                                       *)
SeenOf(x, y, l) ==
  /\ x.code = y.code /\ x.count \in Nat
  /\ x.count - (IF l THEN 1 ELSE 0) = y.count
  /\ [x EXCEPT !.count = y.count, !.reward = (y.count > 0)] = y

Sees(X, F, Z, J, L, R, C, n) ==
  /\ \A f \in Emails :
       /\ (X[f] # NoRecord /\ f \notin J) <=> R[f] # NoRecord
       /\ R[f] # NoRecord => SeenOf(X[f], R[f], f \in L) /\ Z[f] = R[f].code
       /\ R[f] = NoRecord => Z[f] \in {0, n + 1}
  /\ \A c \in 1 .. MaxSignups :
       /\ c \in 1 .. n => F[c] = C[c]
       /\ c \notin 1 .. n => F[c] = Nobody \/ F[c] \in J

LEMMA SeesAtRest ==
  ASSUME NoneIsApart, NEW R, NEW C, NEW n, Settled(R, C, n)
  PROVE  Sees(R, C, Scores(R), {}, {}, R, C, n)
<1>1. ASSUME NEW f \in Emails, R[f] # NoRecord
      PROVE  SeenOf(R[f], R[f], f \in {})
  <2>1. R[f] \in Entry /\ R[f].count \in Nat /\ R[f].reward = (R[f].count > 0)
    BY <1>1, SettledFacts
  <2>2. PICK x \in Entry : x = R[f] /\ x.count \in Nat /\ x.reward = (x.count > 0)
    BY <2>1
  <2>3. SeenOf(x, x, f \in {})
    BY <2>2, Restored DEF SeenOf
  <2> QED BY <2>2, <2>3
<1>2. \A c \in 1 .. MaxSignups : c \notin 1 .. n => C[c] = Nobody
  BY SettledFacts
<1> QED BY <1>1, <1>2 DEF Sees, Scores
(* What Redis has while e joins with the code n + 1: nothing of it yet, its record, or *)
(* its record and the credit of who it came from.                                   *)
LEMMA SeesJoining ==
  ASSUME NoneIsApart, NEW R, NEW C, NEW n, Settled(R, C, n),
         NEW e \in Emails, R[e] = NoRecord, n + 1 \in 1 .. MaxSignups, NEW ref \in 0 .. n,
         NEW new, new = Added(R, e, n + 1, ref), NEW from, from = From(C, ref),
         NEW X, NEW L,
         \/ X = new /\ L = {}
         \/ ref # 0 /\ X = OneUp(new, from) /\ L = {from}
         \/ ref # 0 /\ X = WithCredit(new, from, e) /\ L = {from},
         NEW F, F = C \/ F = [C EXCEPT ![n + 1] = e],
         NEW Z, Z = Scores(R) \/ Z = [Scores(R) EXCEPT ![e] = n + 1]
  PROVE  Sees(X, F, Z, {e}, L, R, C, n)
<1>1. /\ n \in Nat /\ R \in [Emails -> Entry \cup {NoRecord}]
      /\ C \in [1 .. MaxSignups -> Emails \cup {Nobody}]
  BY SettledFacts DEF NoneIsApart
<1>2. PICK blank : blank = Blank(n + 1, ref)
  OBVIOUS
<1>3. blank \in Entry /\ blank # NoRecord
  <2>1. n + 1 \in 1 .. MaxSignups /\ ref \in 0 .. MaxSignups
    BY <1>1 DEF NoneIsApart
  <2>2. blank \in Entry
    BY <1>2, <2>1 DEF Blank, Entry
  <2> QED BY <2>2 DEF NoneIsApart
<1>4. /\ new = [R EXCEPT ![e] = blank] /\ new[e] = blank /\ DOMAIN new = Emails
      /\ \A f \in Emails \ {e} : new[f] = R[f]
  BY <1>1, <1>2 DEF Added, WithNew
<1>5. ref # 0 => from \in Emails \ {e} /\ R[from] # NoRecord /\ new[from] = R[from]
  <2>1. CASE ref # 0
    <3>1. ref \in 1 .. n
      BY <1>1, <2>1
    <3>2. from = C[ref]
      BY <2>1 DEF From
    <3>3. C[ref] \in Emails /\ R[C[ref]] # NoRecord
      BY <3>1, SettledFacts
    <3> QED BY <1>4, <3>2, <3>3
  <2> QED BY <2>1
<1>6. /\ X[e] = blank
      /\ \A f \in Emails \ {e} :
           \/ X[f] = R[f] /\ f \notin L
           \/ f \in L /\ R[f] # NoRecord /\ (X[f] = [R[f] EXCEPT !.count = @ + 1] \/ X[f] = Bumped(R[f]))
      /\ e \notin L
  <2>1. CASE X = new /\ L = {}
    BY <1>4, <2>1
  <2>2. CASE ref # 0 /\ X = OneUp(new, from) /\ L = {from}
    <3>1. X = [new EXCEPT ![from] = [new[from] EXCEPT !.count = @ + 1]]
      BY <2>2 DEF OneUp
    <3>2. PICK up : up = [R[from] EXCEPT !.count = @ + 1]
      OBVIOUS
    <3>3. X = [new EXCEPT ![from] = up]
      BY <1>5, <2>2, <3>1, <3>2
    <3>4. X[from] = up /\ \A f \in Emails \ {from} : X[f] = new[f]
      BY <1>4, <1>5, <2>2, <3>3
    <3> QED BY <1>4, <1>5, <2>2, <3>2, <3>4
  <2>3. CASE ref # 0 /\ X = WithCredit(new, from, e) /\ L = {from}
    <3>1. from \notin {Nobody, e}
      BY <1>5, <2>3 DEF NoneIsApart
    <3>2. PICK up : up = Bumped(new[from])
      OBVIOUS
    <3>3. X = [new EXCEPT ![from] = up]
      BY <2>3, <3>1, <3>2 DEF WithCredit
    <3>4. X[from] = up /\ \A f \in Emails \ {from} : X[f] = new[f]
      BY <1>4, <1>5, <2>3, <3>3
    <3>5. up = Bumped(R[from])
      BY <1>5, <2>3, <3>2
    <3> QED BY <1>4, <1>5, <2>3, <3>4, <3>5
  <2> QED BY <2>1, <2>2, <2>3
<1>7. ASSUME NEW f \in Emails, R[f] # NoRecord
      PROVE  SeenOf(X[f], R[f], f \in L) /\ X[f] # NoRecord
  <2>1. f # e
    BY <1>7
  <2>2. PICK x \in Entry : x = R[f] /\ x.count \in Nat /\ x.reward = (x.count > 0)
    BY <1>7, SettledFacts
  <2>3. PICK y : y = X[f]
    OBVIOUS
  <2>4. CASE y = x /\ f \notin L
    <3>1. SeenOf(x, x, f \in L)
      BY <2>2, <2>4, Restored DEF SeenOf
    <3> QED BY <1>7, <2>2, <2>3, <2>4, <3>1
  <2>5. CASE f \in L /\ (y = [x EXCEPT !.count = @ + 1] \/ y = Bumped(x))
    <3>1. y.count = x.count + 1 /\ y.code = x.code
      BY <2>2, <2>5 DEF Bumped, Entry
    <3>2. [y EXCEPT !.count = x.count, !.reward = (x.count > 0)] = x
      BY <2>2, <2>5, Restored
    <3>3. y \in Entry
      <4>1. PICK z : z = [x EXCEPT !.count = @ + 1]
        OBVIOUS
      <4>2. z \in Entry
        BY <2>2, <4>1 DEF Entry
      <4>3. Bumped(x) \in Entry
        BY <2>2, Credit DEF CreditOf
      <4> QED BY <2>5, <4>1, <4>2, <4>3
    <3>4. SeenOf(y, x, f \in L)
      BY <2>2, <2>5, <3>1, <3>2 DEF SeenOf
    <3>5. y # NoRecord
      BY <3>3 DEF NoneIsApart
    <3> QED BY <2>2, <2>3, <3>4, <3>5
  <2> QED BY <1>6, <2>1, <2>2, <2>3, <2>4, <2>5
<1>8. ASSUME NEW f \in Emails
      PROVE  (X[f] # NoRecord /\ f \notin {e}) <=> R[f] # NoRecord
  BY <1>6, <1>7
<1>9. ASSUME NEW f \in Emails
      PROVE  /\ R[f] # NoRecord => Z[f] = R[f].code
             /\ R[f] = NoRecord => Z[f] \in {0, n + 1}
  BY DEF Scores
<1>10. ASSUME NEW c \in 1 .. MaxSignups
       PROVE  /\ c \in 1 .. n => F[c] = C[c]
              /\ c \notin 1 .. n => F[c] = Nobody \/ F[c] \in {e}
  <2>1. c \notin 1 .. n => C[c] = Nobody
    BY SettledFacts
  <2>2. CASE F = C
    BY <2>1, <2>2
  <2>3. CASE F = [C EXCEPT ![n + 1] = e]
    <3>1. c # n + 1 => F[c] = C[c]
      BY <1>1, <2>3
    <3>2. c = n + 1 => F[c] = e /\ c \notin 1 .. n
      BY <1>1, <2>3
    <3> QED BY <2>1, <3>1, <3>2
  <2> QED BY <2>2, <2>3
<1> QED BY <1>7, <1>8, <1>9, <1>10 DEF Sees

-----------------------------------------------------------------------------
(* The mapped list. *)
LEMMA RankOf ==
  ASSUME NoneIsApart, NEW R, NEW C, NEW n, Settled(R, C, n), NEW Z, NEW k \in 0 .. n,
         \A f \in Emails : (R[f] # NoRecord => Z[f] = R[f].code)
                            /\ (R[f] = NoRecord => Z[f] \in {0, n + 1})
  PROVE  Cardinality({f \in Emails : Z[f] # 0 /\ Z[f] < k + 1}) = k
<1>1. n \in Nat /\ k \in Nat /\ k <= n
  BY SettledFacts DEF NoneIsApart
<1>2. ASSUME NEW f \in Emails
      PROVE  (Z[f] # 0 /\ Z[f] < k + 1) <=> (R[f] # NoRecord /\ R[f].code <= k)
  <2>1. CASE R[f] = NoRecord
    BY <1>1, <2>1
  <2>2. CASE R[f] # NoRecord
    <3>1. PICK c \in 1 .. n : c = R[f].code /\ c = Z[f]
      BY <2>2, SettledFacts
    <3> QED BY <1>1, <2>2, <3>1
  <2> QED BY <2>1, <2>2
<1>3. {f \in Emails : Z[f] # 0 /\ Z[f] < k + 1} = {f \in Emails : R[f] # NoRecord /\ R[f].code <= k}
  BY <1>2
<1> QED BY <1>3, CodesUpTo

StandInLine(M, X, C, n) ==
  /\ Cardinality(M) = n
  /\ \A i \in 1 .. n :
       (CHOOSE e \in M : Cardinality({f \in M : X[f].code <= X[e].code}) = i) = C[i]

LEMMA MembersInOrder ==
  ASSUME NoneIsApart, NEW R, NEW C, NEW n, Settled(R, C, n), NEW X,
         \A f \in Emails : R[f] # NoRecord => X[f].code = R[f].code,
         NEW M, M = {f \in Emails : R[f] # NoRecord}
  PROVE  StandInLine(M, X, C, n)
<1>1. n \in Nat
  BY SettledFacts DEF NoneIsApart
<1>2. Cardinality(M) = n
  <2>1. \A f \in Emails : R[f] # NoRecord => R[f].code <= n
    BY <1>1, SettledFacts
  <2>2. M = {f \in Emails : R[f] # NoRecord /\ R[f].code <= n}
    BY <2>1
  <2>3. n \in 0 .. n
    BY <1>1
  <2> QED BY <2>2, <2>3, CodesUpTo
<1>3. ASSUME NEW e \in M
      PROVE  Cardinality({f \in M : X[f].code <= X[e].code}) = R[e].code
  <2>1. PICK k \in 1 .. n : k = R[e].code
    BY SettledFacts
  <2>2. {f \in M : X[f].code <= X[e].code} = {f \in Emails : R[f] # NoRecord /\ R[f].code <= k}
    BY <2>1
  <2>3. k \in 0 .. n
    BY <1>1
  <2> QED BY <2>1, <2>2, <2>3, CodesUpTo
<1>4. ASSUME NEW i \in 1 .. n
      PROVE  (CHOOSE e \in M : Cardinality({f \in M : X[f].code <= X[e].code}) = i) = C[i]
  <2> DEFINE P(e) == Cardinality({f \in M : X[f].code <= X[e].code}) = i
  <2>1. C[i] \in M /\ R[C[i]].code = i
    BY SettledFacts
  <2>2. P(C[i])
    BY <1>3, <2>1
  <2>3. ASSUME NEW e \in M, P(e) PROVE e = C[i]
    <3>1. R[e].code = i
      BY <1>3, <2>3
    <3>2. C[R[e].code] = e
      BY SettledFacts
    <3> QED BY <3>1, <3>2
  <2> HIDE DEF P
  <2>4. (CHOOSE e \in M : P(e)) = C[i]
    BY <2>1, <2>2, <2>3
  <2> QED BY <2>4 DEF P
<1> QED BY <1>2, <1>4 DEF StandInLine

Joiners == {e \in Emails : List!Joining(e)}
CreditedNow == {e \in Emails : List!Early(e) \/ List!Later(e)}

Mapped(R, C, n) ==
  /\ [e \in Emails |-> List!SettledRecord(e)] = R
  /\ List!SettledCodes = C
  /\ List!InOrder = Line(C, n)
  /\ List!Cardinality({e \in Emails : List!Joined(e)}) = n

LEMMA MapsTo ==
  ASSUME NoneIsApart, NEW R, NEW C, NEW n, Settled(R, C, n),
         Sees(records, refs, queue, Joiners, CreditedNow, R, C, n)
  PROVE  Mapped(R, C, n)
<1>1. /\ n \in Nat /\ R \in [Emails -> Entry \cup {NoRecord}]
      /\ C \in [1 .. MaxSignups -> Emails \cup {Nobody}]
  BY SettledFacts DEF NoneIsApart
<1>2. \A f \in Emails : List!Joined(f) <=> R[f] # NoRecord
  BY DEF Sees, List!Joined, Joiners
<1>3. ASSUME NEW f \in Emails
      PROVE  List!SettledRecord(f) = R[f]
  <2>1. CASE R[f] = NoRecord
    BY <1>2, <2>1 DEF List!SettledRecord
  <2>2. CASE R[f] # NoRecord
    <3>1. SeenOf(records[f], R[f], f \in CreditedNow)
      BY <2>2 DEF Sees
    <3>2. (f \in CreditedNow) <=> (List!Early(f) \/ List!Later(f))
      BY DEF CreditedNow
    <3>3. List!CountSoFar(f) = R[f].count
      BY <3>1, <3>2 DEF SeenOf, List!CountSoFar
    <3>4. [records[f] EXCEPT !.count = R[f].count, !.reward = (R[f].count > 0)] = R[f]
      BY <3>1 DEF SeenOf
    <3> QED BY <1>2, <2>2, <3>3, <3>4 DEF List!SettledRecord
  <2> QED BY <2>1, <2>2
<1>4. [e \in Emails |-> List!SettledRecord(e)] = R
  BY <1>1, <1>3
<1>5. List!SettledCodes = C
  <2>1. ASSUME NEW c \in 1 .. MaxSignups
        PROVE  (IF refs[c] # Nobody /\ List!Joined(refs[c]) THEN refs[c] ELSE Nobody) = C[c]
    <3>1. CASE c \in 1 .. n
      <4>1. refs[c] = C[c] /\ C[c] \in Emails /\ R[C[c]] # NoRecord
        BY <3>1, SettledFacts DEF Sees
      <4> QED BY <1>2, <4>1 DEF NoneIsApart
    <3>2. CASE c \notin 1 .. n
      <4>1. C[c] = Nobody /\ (refs[c] = Nobody \/ refs[c] \in Joiners)
        BY <3>2, SettledFacts DEF Sees
      <4> QED BY <4>1 DEF Joiners, List!Joined
    <3> QED BY <3>1, <3>2
  <2> QED BY <1>1, <2>1 DEF List!SettledCodes, List!Codes
<1>6. PICK M : M = {f \in Emails : R[f] # NoRecord}
  OBVIOUS
<1>7. {e \in Emails : List!Joined(e)} = M
  BY <1>2, <1>6
<1>8. \A f \in Emails : R[f] # NoRecord => records[f].code = R[f].code
  BY DEF Sees, SeenOf
<1>9. /\ Cardinality(M) = n
      /\ \A i \in 1 .. n :
           (CHOOSE e \in M : Cardinality({f \in M : records[f].code <= records[e].code}) = i) = C[i]
  <2>1. PICK X : X = records
    OBVIOUS
  <2>2. \A f \in Emails : R[f] # NoRecord => X[f].code = R[f].code
    BY <1>8, <2>1
  <2>3. StandInLine(M, X, C, n)
    BY <1>6, <2>2, MembersInOrder, Zenon
  <2> QED BY <2>1, <2>3 DEF StandInLine
<1>10. \A S : List!Cardinality(S) = Cardinality(S)
  BY DEF List!Cardinality, Cardinality
<1>11. List!InOrder = Line(C, n)
  BY <1>7, <1>9, <1>10 DEF List!InOrder, Line
<1> QED BY <1>4, <1>5, <1>7, <1>9, <1>10, <1>11 DEF Mapped

-----------------------------------------------------------------------------
(* Who is joining and who has been credited, by where the request is. *)
LEMMA WaitingAt ==
  ASSUME NEW q, NEW R, NEW n, Waiting(q, R, n)
  PROVE  q.at \in {"idle", "incr", "expire", "hgetall", "known"}
<1>1. ASSUME NEW e, NEW ref, NEW at, q = Asked(at, e, ref) PROVE q.at = at
  BY <1>1 DEF Asked
<1>2. ASSUME NEW e, NEW found, q = Known(e, found) PROVE q.at = "known"
  BY <1>2 DEF Known
<1> QED BY <1>1, <1>2 DEF Waiting

LEMMA WaitingAs ==
  ASSUME NEW q, NEW R, NEW n, Waiting(q, R, n)
  PROVE  /\ q.at \in {"incr", "expire", "hgetall"} =>
              \E e \in Emails, ref \in 0 .. n : q = Asked(q.at, e, ref)
         /\ q.at = "known" => \E e \in Emails : R[e] # NoRecord /\ q = Known(e, R[e])
<1>1. ASSUME NEW e \in Emails, NEW ref \in 0 .. n, NEW at, q = Asked(at, e, ref)
      PROVE  q = Asked(q.at, e, ref)
  BY <1>1 DEF Asked
<1>2. ASSUME NEW e, NEW found, q = Known(e, found) PROVE q.at = "known"
  BY <1>2 DEF Known
<1>3. CASE q = [at |-> "idle"]
  BY <1>3
<1>4. CASE \E e \in Emails, ref \in 0 .. n, at \in {"incr", "expire", "hgetall"} : q = Asked(at, e, ref)
  <2>1. PICK e \in Emails, ref \in 0 .. n, at \in {"incr", "expire", "hgetall"} : q = Asked(at, e, ref)
    BY <1>4
  <2>2. q = Asked(q.at, e, ref) /\ q.at = at
    BY <1>1, <2>1 DEF Asked
  <2> QED BY <2>1, <2>2
<1>5. CASE \E e \in Emails : R[e] # NoRecord /\ q = Known(e, R[e])
  BY <1>2, <1>5
<1> QED BY <1>3, <1>4, <1>5 DEF Waiting

LEMMA NobodyJoins ==
  ASSUME \A r \in Requests : req[r].at \notin {"set", "zadd", "get", "hincrby", "reward", "zrank"}
  PROVE  Joiners = {} /\ CreditedNow = {}
BY DEF Joiners, CreditedNow, List!Joining, List!Early, List!Later

LEMMA OneJoins ==
  ASSUME OneSignUp, NEW r \in Requests, NEW e \in Emails, req[r].email = e,
         req[r].at \in {"set", "zadd", "get", "hincrby", "reward", "zrank"}
  PROVE  /\ Joiners = {e}
         /\ CreditedNow = IF req[r].at = "reward" \/ (req[r].at = "zrank" /\ "referrer" \in DOMAIN req[r])
                          THEN {f \in Emails : f = req[r].referrer} ELSE {}
<1>1. \A s \in Requests : s = r
  BY DEF OneSignUp
<1>2. \A f \in Emails : List!Joining(f) <=> f = e
  BY <1>1 DEF List!Joining
<1>3. \A f \in Emails : (List!Early(f) \/ List!Later(f)) <=>
        /\ req[r].at = "reward" \/ (req[r].at = "zrank" /\ "referrer" \in DOMAIN req[r])
        /\ f = req[r].referrer
  BY <1>1 DEF List!Early, List!Later
<1> QED BY <1>2, <1>3 DEF Joiners, CreditedNow

LEMMA HoldsSees ==
  ASSUME NoneIsApart, OneSignUp, NEW R, NEW C, NEW n, ListHolds(R, C, n)
  PROVE  Sees(records, refs, queue, Joiners, CreditedNow, R, C, n)
<1>1. Settled(R, C, n)
  BY DEF ListHolds
<1>2. CASE Resting(R, C, n)
  <2>1. \A r \in Requests : req[r].at \in {"idle", "incr", "expire", "hgetall", "known"}
    BY <1>2, WaitingAt DEF Resting
  <2>2. Joiners = {} /\ CreditedNow = {}
    BY <2>1, NobodyJoins
  <2> QED BY <1>1, <1>2, <2>2, SeesAtRest DEF Resting
<1>3. ASSUME NEW r \in Requests, NEW e \in Emails, NEW ref \in 0 .. n, Joins(R, C, n, r, e, ref)
      PROVE  Sees(records, refs, queue, Joiners, CreditedNow, R, C, n)
  <2>1. R[e] = NoRecord /\ n + 1 \in 1 .. MaxSignups
    BY <1>3 DEF Joins
  <2>2. PICK q, X, F, Z : q = req[r] /\ X = records /\ F = refs /\ Z = queue
    OBVIOUS
  <2>3. Adding(q, X, F, Z, R, C, n, e, ref)
    BY <1>3, <2>2 DEF Joins
  <2>4. PICK new, from : new = Added(R, e, n + 1, ref) /\ from = From(C, ref)
    OBVIOUS
  <2>5. CASE q.at = "hset"
    <3>1. \A s \in Requests : req[s].at = "hset"
      BY <2>2, <2>5 DEF OneSignUp
    <3>2. Joiners = {} /\ CreditedNow = {}
      BY <3>1, NobodyJoins
    <3>3. X = R /\ F = C /\ Z = Scores(R)
      BY <2>3, <2>5 DEF Adding, Writing, Crediting
    <3> QED BY <1>1, <2>2, <3>2, <3>3, SeesAtRest
  <2>6. CASE q.at # "hset"
    <3>1. /\ q.email = e /\ q.at \in {"set", "zadd", "get", "hincrby", "reward", "zrank"}
          /\ F = C \/ F = [C EXCEPT ![n + 1] = e]
          /\ Z = Scores(R) \/ Z = [Scores(R) EXCEPT ![e] = n + 1]
      BY <2>3, <2>6 DEF Adding, Writing, Crediting
    <3>2. ref # 0 => from \in Emails
      <4>1. ref # 0 => ref \in 1 .. n
        BY <1>1, SettledFacts DEF NoneIsApart
      <4>2. ref # 0 => C[ref] \in Emails
        BY <1>1, <4>1, SettledFacts
      <4> QED BY <2>4, <4>2 DEF From
    <3>3. PICK L : L = CreditedNow
      OBVIOUS
    <3>4. /\ Joiners = {e}
          /\ L = IF q.at = "reward" \/ (q.at = "zrank" /\ "referrer" \in DOMAIN q)
                 THEN {f \in Emails : f = q.referrer} ELSE {}
      BY <2>2, <3>1, <3>3, OneJoins
    <3>5. \/ X = new /\ L = {}
          \/ ref # 0 /\ X = OneUp(new, from) /\ L = {from}
          \/ ref # 0 /\ X = WithCredit(new, from, e) /\ L = {from}
      BY <2>3, <2>4, <2>6, <3>2, <3>4 DEF Adding, Writing, Crediting
    <3>6. Sees(X, F, Z, {e}, L, R, C, n)
      BY <1>1, <2>1, <2>4, <3>1, <3>5, SeesJoining
    <3> QED BY <2>2, <3>3, <3>4, <3>6
  <2> QED BY <2>5, <2>6
<1> QED BY <1>2, <1>3 DEF ListHolds

LEMMA HoldsMapped ==
  ASSUME NoneIsApart, OneSignUp, NEW CONSTANT R, NEW CONSTANT C, NEW CONSTANT n
  PROVE  ListHolds(R, C, n) => Mapped(R, C, n)
<1> SUFFICES ASSUME ListHolds(R, C, n) PROVE Mapped(R, C, n)
  OBVIOUS
<1> QED BY HoldsSees, MapsTo DEF ListHolds

LEMMA HoldsMappedNext ==
  ASSUME NoneIsApart, OneSignUp, NEW CONSTANT R, NEW CONSTANT C, NEW CONSTANT n
  PROVE  ListHolds(R, C, n)' => Mapped(R, C, n)'
<1>1. ListHolds(R, C, n) => Mapped(R, C, n)
  BY HoldsMapped
<1> QED BY <1>1, PTL

-----------------------------------------------------------------------------
(* Steps: the settled list stays, or an address joins it. *)
Stays(R, C, n, S, D, m) == S = R /\ D = C /\ m = n

Goes(R, C, n, S, D, m) ==
  \/ Stays(R, C, n, S, D, m) /\ told' = told
  \/ /\ Stays(R, C, n, S, D, m)
     /\ \E e \in Emails :
          /\ R[e] # NoRecord
          /\ told' = [told EXCEPT ![e] = List!Answer(R[e].code,
                                           List!effectivePosition(R[e].code, R[e].count))]
  \/ \E e \in Emails, ref \in 0 .. n :
       /\ R[e] = NoRecord /\ n + 1 \in 1 .. MaxSignups
       /\ m = n + 1 /\ D = [C EXCEPT ![n + 1] = e]
       /\ S = WithCredit(Added(R, e, n + 1, ref), From(C, ref), e)
       /\ told' = [told EXCEPT ![e] = List!Answer(n + 1, n + 1)]

GoesOn(R, C, n) == \E S, D, m : ListHolds(S, D, m)' /\ Goes(R, C, n, S, D, m)

LEMMA WhoWaits ==
  ASSUME OneSignUp, NEW R, NEW C, NEW n, ListHolds(R, C, n), NEW r \in Requests,
         req[r].at \in {"idle", "incr", "expire", "hgetall", "known"}
  PROVE  Resting(R, C, n) /\ Waiting(req[r], R, n)
<1>1. ASSUME NEW s \in Requests, NEW e \in Emails, NEW ref \in 0 .. n, Joins(R, C, n, s, e, ref)
      PROVE  FALSE
  <2>1. PICK q, X, F, Z : q = req[r] /\ X = records /\ F = refs /\ Z = queue
    OBVIOUS
  <2>2. Adding(q, X, F, Z, R, C, n, e, ref)
    BY <1>1, <2>1 DEF Joins, OneSignUp
  <2>3. q.at \notin {"idle", "incr", "expire", "hgetall", "known"}
    BY <2>2 DEF Adding, Writing, Crediting
  <2> QED BY <2>1, <2>3
<1> QED BY <1>1 DEF ListHolds, Resting

LEMMA WhoJoins ==
  ASSUME OneSignUp, NEW R, NEW C, NEW n, ListHolds(R, C, n), NEW r \in Requests,
         req[r].at \notin {"idle", "incr", "expire", "hgetall", "known"}
  PROVE  \E e \in Emails, ref \in 0 .. n : Joins(R, C, n, r, e, ref)
<1>1. ~Resting(R, C, n)
  BY WaitingAt DEF Resting
<1>2. \A s \in Requests : s = r
  BY DEF OneSignUp
<1> QED BY <1>1, <1>2 DEF ListHolds

LEMMA RestsOn ==
  ASSUME OneSignUp, NEW R, NEW C, NEW n, ListHolds(R, C, n), Resting(R, C, n),
         NEW r \in Requests, NEW q, Waiting(q, R, n), List!Goto(r, q),
         UNCHANGED <<records, refs, queue, clock, told>>
  PROVE  GoesOn(R, C, n)
<1>1. req' = [req EXCEPT ![r] = q] /\ DOMAIN req = Requests
  BY DEF List!Goto, ListHolds
<1>2. \A s \in Requests : s = r
  BY DEF OneSignUp
<1>3. DOMAIN req' = Requests /\ \A s \in Requests : req'[s] = q
  BY <1>1, <1>2
<1>4. Resting(R, C, n)'
  BY <1>3 DEF Resting
<1>5. AnsweredUpTo(n)'
  BY DEF ListHolds, AnsweredUpTo
<1>6. ListHolds(R, C, n)'
  BY <1>3, <1>4, <1>5 DEF ListHolds
<1> QED BY <1>6 DEF GoesOn, Goes, Stays

LEMMA AddsOn ==
  ASSUME OneSignUp, NEW R, NEW C, NEW n, ListHolds(R, C, n), NEW r \in Requests,
         NEW e \in Emails, NEW ref \in 0 .. n, R[e] = NoRecord, n + 1 \in 1 .. MaxSignups,
         clock' = n + 1, told' = told,
         NEW q, List!Goto(r, q), Adding(q, records', refs', queue', R, C, n, e, ref)
  PROVE  GoesOn(R, C, n)
<1>1. req' = [req EXCEPT ![r] = q] /\ DOMAIN req = Requests
  BY DEF List!Goto, ListHolds
<1>3. DOMAIN req' = Requests /\ req'[r] = q
  BY <1>1
<1>4. Joins(R, C, n, r, e, ref)'
  BY <1>3 DEF Joins
<1>5. AnsweredUpTo(n)'
  BY DEF ListHolds, AnsweredUpTo
<1>6. ListHolds(R, C, n)'
  BY <1>3, <1>4, <1>5 DEF ListHolds
<1> QED BY <1>6 DEF GoesOn, Goes, Stays

LEMMA AskingGoesOn ==
  ASSUME OneSignUp, NEW R, NEW C, NEW n, ListHolds(R, C, n), NEW r \in Requests,
         \/ \E e \in Emails, ref \in List!Codes \union {0} : List!onSubmit(r, e, ref)
         \/ List!Incr(r) \/ List!Expire(r)
  PROVE  GoesOn(R, C, n)
<1> DEFINE Still == UNCHANGED <<records, refs, queue, clock, told>>
<1>1. ASSUME NEW e \in Emails, NEW ref, List!onSubmit(r, e, ref)
      PROVE  GoesOn(R, C, n)
  <2>1. req[r].at = "idle" /\ List!Goto(r, Asked("incr", e, ref)) /\ Still
    BY <1>1 DEF List!onSubmit, List!At, Asked
  <2>2. ref \in 0 .. n
    <3>1. n \in Nat /\ \A f \in Emails : told[f] # NoRecord => told[f].code \in 1 .. n
      BY DEF ListHolds, AnsweredUpTo, Settled, WholeList, Filed
    <3> QED BY <1>1, <3>1 DEF List!onSubmit, List!Shown
  <2>3. Waiting(Asked("incr", e, ref), R, n)
    BY <2>2 DEF Waiting
  <2>4. Resting(R, C, n)
    BY <2>1, WhoWaits
  <2> QED BY <2>1, <2>3, <2>4, RestsOn
<1>2. CASE List!Incr(r) \/ List!Expire(r)
  <2>1. req[r].at \in {"incr", "expire"} /\ Still
    BY <1>2 DEF List!Incr, List!Expire, List!At
  <2>2. Resting(R, C, n) /\ Waiting(req[r], R, n)
    BY <2>1, WhoWaits
  <2>3. PICK e \in Emails, ref \in 0 .. n : req[r] = Asked(req[r].at, e, ref)
    BY <2>1, <2>2, WaitingAs
  <2>4. ASSUME NEW b PROVE List!Moved(r, b) = Asked(b, e, ref)
    <3>1. PICK a : req[r] = Asked(a, e, ref)
      BY <2>3
    <3>2. [req[r] EXCEPT !.at = b] = Asked(b, e, ref)
      BY <3>1 DEF Asked
    <3> QED BY <3>2 DEF List!Moved
  <2>5. PICK q : List!Goto(r, q) /\ q \in {[at |-> "idle"], Asked("expire", e, ref), Asked("hgetall", e, ref)}
    BY <1>2, <2>4 DEF List!Incr, List!Expire, List!Idle
  <2>6. Waiting(q, R, n)
    BY <2>5 DEF Waiting
  <2> QED BY <2>1, <2>2, <2>5, <2>6, RestsOn
<1> QED BY <1>1, <1>2
(* The record is looked up, and the answer of an address that is on the list. *)
LEMMA FindingGoesOn ==
  ASSUME NoneIsApart, OneSignUp, NEW R, NEW C, NEW n, ListHolds(R, C, n), NEW r \in Requests,
         List!Hgetall(r)
  PROVE  GoesOn(R, C, n)
<1>1. req[r].at = "hgetall"
  BY DEF List!Hgetall, List!At
<1>2. Resting(R, C, n) /\ Waiting(req[r], R, n)
  BY <1>1, WhoWaits
<1>3. PICK e \in Emails, ref \in 0 .. n : req[r] = Asked("hgetall", e, ref)
  BY <1>1, <1>2, WaitingAs
<1>4. req[r].email = e /\ req[r].ref = ref /\ records = R /\ clock = n
  BY <1>2, <1>3 DEF Asked, Resting
<1>5. UNCHANGED <<records, refs, queue, told>>
  BY DEF List!Hgetall
<1>6. CASE R[e] # NoRecord
  <2>1. List!Goto(r, Known(e, R[e])) /\ clock' = clock
    BY <1>4, <1>6 DEF List!Hgetall, Known
  <2>2. Waiting(Known(e, R[e]), R, n)
    BY <1>6 DEF Waiting
  <2> QED BY <1>2, <1>5, <2>1, <2>2, RestsOn
<1>7. CASE R[e] = NoRecord
  <2>1. clock < MaxSignups /\ clock' = n + 1
        /\ List!Goto(r, [at |-> "hset", email |-> e, ref |-> ref, code |-> clock'])
    BY <1>4, <1>7 DEF List!Hgetall
  <2>2. List!Goto(r, Writing("hset", e, ref, n + 1))
    BY <2>1 DEF Writing
  <2>3. n \in Nat /\ n + 1 \in 1 .. MaxSignups
    <3>1. n \in 0 .. MaxSignups
      BY SettledFacts DEF ListHolds
    <3> QED BY <1>4, <2>1, <3>1 DEF NoneIsApart
  <2>4. Adding(Writing("hset", e, ref, n + 1), records', refs', queue', R, C, n, e, ref)
    BY <1>2, <1>5 DEF Adding, Resting
  <2> QED BY <1>5, <1>7, <2>1, <2>2, <2>3, <2>4, AddsOn
<1> QED BY <1>6, <1>7

LEMMA KnownGoesOn ==
  ASSUME NoneIsApart, OneSignUp, NEW R, NEW C, NEW n, ListHolds(R, C, n), NEW r \in Requests,
         List!AnswerKnown(r)
  PROVE  GoesOn(R, C, n)
<1>1. req[r].at = "known" /\ UNCHANGED <<records, refs, queue, clock>>
  BY DEF List!AnswerKnown, List!At
<1>2. Resting(R, C, n) /\ Waiting(req[r], R, n)
  BY <1>1, WhoWaits
<1>3. PICK e \in Emails : R[e] # NoRecord /\ req[r] = Known(e, R[e])
  BY <1>1, <1>2, WaitingAs
<1>4. req[r].email = e /\ req[r].found = R[e] /\ queue = Scores(R)
  BY <1>2, <1>3 DEF Known, Resting
<1>5. Settled(R, C, n)
  BY DEF ListHolds
<1>6. PICK k \in Nat : R[e].code = k + 1 /\ k \in 0 .. n /\ R[e].code \in 1 .. n
  <2>1. n \in Nat /\ R[e].code \in 1 .. n
    BY <1>3, <1>5, SettledFacts DEF NoneIsApart
  <2>2. R[e].code - 1 \in Nat /\ R[e].code = (R[e].code - 1) + 1 /\ R[e].code - 1 \in 0 .. n
    BY <2>1
  <2> QED BY <2>1, <2>2
<1>7. List!Zrank(e) = k
  <2>1. PICK Z : Z = queue
    OBVIOUS
  <2>2. \A f \in Emails : (R[f] # NoRecord => Z[f] = R[f].code)
                           /\ (R[f] = NoRecord => Z[f] \in {0, n + 1})
    BY <1>4, <2>1 DEF Scores
  <2>3. Cardinality({f \in Emails : Z[f] # 0 /\ Z[f] < k + 1}) = k
    BY <1>5, <1>6, <2>2, RankOf
  <2>4. Z[e] = k + 1 /\ k + 1 # 0
    BY <1>3, <1>6, <2>2
  <2> QED BY <2>1, <2>3, <2>4 DEF List!Zrank, List!Cardinality, Cardinality
<1>8. told' = [told EXCEPT ![e] = List!Answer(R[e].code, List!effectivePosition(R[e].code, R[e].count))]
  BY <1>4, <1>6, <1>7 DEF List!AnswerKnown
<1>9. Goes(R, C, n, R, C, n)
  BY <1>3, <1>8 DEF Goes, Stays
<1>10. ListHolds(R, C, n)'
  <2>1. DOMAIN req' = Requests /\ \A s \in Requests : req'[s] = [at |-> "idle"]
    BY DEF List!AnswerKnown, List!Goto, List!Idle, ListHolds, OneSignUp
  <2>2. Resting(R, C, n)'
    BY <1>1, <1>2, <2>1 DEF Resting, Waiting
  <2>3. AnsweredUpTo(n)'
    <3>1. PICK a : a = List!Answer(R[e].code, List!effectivePosition(R[e].code, R[e].count))
      OBVIOUS
    <3>2. a.code \in 1 .. n /\ told' = [told EXCEPT ![e] = a]
      BY <1>6, <1>8, <3>1 DEF List!Answer
    <3> QED BY <3>2 DEF ListHolds, AnsweredUpTo
  <2> QED BY <1>5, <2>1, <2>2, <2>3 DEF ListHolds
<1> QED BY <1>9, <1>10 DEF GoesOn
(* The commands of a sign-up, one after the other. *)
LEMMA Referrer ==
  ASSUME NoneIsApart, NEW R, NEW C, NEW n, Settled(R, C, n), NEW e \in Emails, R[e] = NoRecord,
         NEW ref \in 0 .. n, ref # 0, n + 1 \in 1 .. MaxSignups,
         NEW from, from = From(C, ref), NEW new, new = Added(R, e, n + 1, ref)
  PROVE  /\ from \in Emails \ {e} /\ R[from] # NoRecord /\ from \notin {Nobody, e}
         /\ [C EXCEPT ![n + 1] = e][ref] = from
         /\ DOMAIN new = Emails /\ new[from] = R[from]
         /\ Rewarded(OneUp(new, from), from) = WithCredit(new, from, e)
<1>1. n \in Nat /\ ref \in 1 .. n /\ C \in [1 .. MaxSignups -> Emails \cup {Nobody}]
      /\ R \in [Emails -> Entry \cup {NoRecord}]
  BY SettledFacts DEF NoneIsApart
<1>2. from = C[ref]
  BY DEF From
<1>3. from \in Emails \ {e} /\ R[from] # NoRecord /\ from \notin {Nobody, e}
  BY <1>1, <1>2, SettledFacts DEF NoneIsApart
<1>4. [C EXCEPT ![n + 1] = e][ref] = from
  BY <1>1, <1>2
<1>5. DOMAIN new = Emails /\ new[from] = R[from]
  BY <1>1, <1>3 DEF Added, WithNew
<1>6. Rewarded(OneUp(new, from), from) = WithCredit(new, from, e)
  <2>1. PICK x \in Entry : x = new[from]
    BY <1>1, <1>3, <1>5
  <2>2. PICK y : y = [x EXCEPT !.count = @ + 1]
    OBVIOUS
  <2>3. Bumped(x) = [y EXCEPT !.reward = TRUE]
    BY <2>1, <2>2 DEF Bumped, Entry
  <2>4. PICK one : one = OneUp(new, from)
    OBVIOUS
  <2>5. one = [new EXCEPT ![from] = y]
    BY <2>1, <2>2, <2>4 DEF OneUp
  <2>6. one[from] = y /\ DOMAIN one = Emails /\ \A f \in Emails \ {from} : one[f] = new[f]
    BY <1>3, <1>5, <2>5
  <2>7. Rewarded(one, from) = [one EXCEPT ![from] = Bumped(x)]
    BY <2>3, <2>6 DEF Rewarded
  <2>8. WithCredit(new, from, e) = [new EXCEPT ![from] = Bumped(x)]
    BY <1>3, <2>1 DEF WithCredit
  <2>9. [one EXCEPT ![from] = Bumped(x)] = [new EXCEPT ![from] = Bumped(x)]
    BY <1>3, <1>5, <2>5
  <2> QED BY <2>4, <2>7, <2>8, <2>9
<1> QED BY <1>3, <1>4, <1>5, <1>6

LEMMA WritingGoesOn ==
  ASSUME NoneIsApart, OneSignUp, NEW R, NEW C, NEW n, ListHolds(R, C, n), NEW r \in Requests,
         \/ List!Hset(r) \/ List!SetRef(r) \/ List!Zadd(r)
         \/ List!GetReferrer(r) \/ List!Hincrby(r) \/ List!HsetReward(r)
  PROVE  GoesOn(R, C, n)
<1>1. req[r].at \in {"hset", "set", "zadd", "get", "hincrby", "reward"}
      /\ clock' = clock /\ told' = told
  BY DEF List!Hset, List!SetRef, List!Zadd, List!GetReferrer, List!Hincrby, List!HsetReward, List!At
<1>2. PICK e \in Emails, ref \in 0 .. n : Joins(R, C, n, r, e, ref)
  BY <1>1, WhoJoins
<1>3. /\ R[e] = NoRecord /\ clock = n + 1 /\ n + 1 \in 1 .. MaxSignups
      /\ Settled(R, C, n)
  BY <1>2 DEF Joins, ListHolds
<1>4. PICK q : q = req[r]
  OBVIOUS
<1>5. PICK c, new, from : c = n + 1 /\ new = Added(R, e, n + 1, ref) /\ from = From(C, ref)
  OBVIOUS
<1>6. PICK filed, queued : filed = [C EXCEPT ![n + 1] = e] /\ queued = [Scores(R) EXCEPT ![e] = n + 1]
  OBVIOUS
<1>7. Adding(q, records, refs, queue, R, C, n, e, ref)
  BY <1>2, <1>4 DEF Joins
<1>8. SUFFICES \E p : List!Goto(r, p) /\ Adding(p, records', refs', queue', R, C, n, e, ref)
  BY <1>1, <1>3, AddsOn
<1>9. CASE List!Hset(r)
  <2>1. q = Writing("hset", e, ref, c) /\ records = R /\ refs = C /\ queue = Scores(R)
    BY <1>4, <1>5, <1>7, <1>9 DEF Adding, Writing, Crediting, List!Hset, List!At
  <2>2. List!Goto(r, Writing("set", e, ref, c))
    <3>0. req[r] = Writing("hset", e, ref, c)
      BY <1>4, <2>1
    <3>1. List!Moved(r, "set") = Writing("set", e, ref, c)
      BY <3>0 DEF Writing, List!Moved
    <3> QED BY <1>9, <3>1 DEF List!Hset
  <2>3. records' = new /\ refs' = C /\ queue' = Scores(R)
    BY <1>4, <1>5, <1>9, <2>1
       DEF List!Hset, List!NewRecord, Added, WithNew, Blank, Writing
  <2> QED BY <1>5, <2>2, <2>3 DEF Adding
<1>10. CASE List!SetRef(r)
  <2>1. q = Writing("set", e, ref, c) /\ records = new /\ refs = C /\ queue = Scores(R)
    BY <1>4, <1>5, <1>7, <1>10 DEF Adding, Writing, Crediting, List!SetRef, List!At
  <2>2. List!Goto(r, Writing("zadd", e, ref, c))
    <3>0. req[r] = Writing("set", e, ref, c)
      BY <1>4, <2>1
    <3>1. List!Moved(r, "zadd") = Writing("zadd", e, ref, c)
      BY <3>0 DEF Writing, List!Moved
    <3> QED BY <1>10, <3>1 DEF List!SetRef
  <2>3. records' = new /\ refs' = filed /\ queue' = Scores(R)
    BY <1>4, <1>5, <1>6, <1>10, <2>1 DEF List!SetRef, Writing
  <2> QED BY <1>5, <1>6, <2>2, <2>3 DEF Adding
<1>11. CASE List!Zadd(r)
  <2>1. q = Writing("zadd", e, ref, c) /\ records = new /\ refs = filed /\ queue = Scores(R)
    BY <1>4, <1>5, <1>6, <1>7, <1>11 DEF Adding, Writing, Crediting, List!Zadd, List!At
  <2>2. List!Goto(r, Writing(IF ref = 0 THEN "zrank" ELSE "get", e, ref, c))
    <3>1. q.ref = ref
      BY <2>1 DEF Writing
    <3>2. PICK to : to = IF ref = 0 THEN "zrank" ELSE "get"
      OBVIOUS
    <3>0. req[r] = Writing("zadd", e, ref, c)
      BY <1>4, <2>1
    <3>3. List!Moved(r, to) = Writing(to, e, ref, c)
      BY <3>0 DEF Writing, List!Moved
    <3> QED BY <1>4, <1>11, <3>1, <3>2, <3>3 DEF List!Zadd
  <2>3. records' = new /\ refs' = filed /\ queue' = queued
    BY <1>4, <1>5, <1>6, <1>11, <2>1 DEF List!Zadd, Writing
  <2>4. CASE ref = 0
    BY <1>5, <1>6, <2>2, <2>3, <2>4 DEF Adding
  <2>5. CASE ref # 0
    BY <1>5, <1>6, <2>2, <2>3, <2>5 DEF Adding
  <2> QED BY <2>4, <2>5
<1>12. CASE List!GetReferrer(r)
  <2>1. q = Writing("get", e, ref, c) /\ ref # 0 /\ records = new /\ refs = filed /\ queue = queued
    BY <1>4, <1>5, <1>6, <1>7, <1>12 DEF Adding, Writing, Crediting, List!GetReferrer, List!At
  <2>2. refs[ref] = from /\ from \notin {Nobody, e}
    BY <1>3, <1>5, <1>6, <2>1, Referrer
  <2>3. q.ref = ref /\ q.email = e /\ q.code = c
    BY <2>1 DEF Writing
  <2>4. List!Goto(r, Crediting("hincrby", e, ref, c, from))
    BY <1>4, <1>12, <2>2, <2>3 DEF List!GetReferrer, Crediting
  <2>5. records' = new /\ refs' = filed /\ queue' = queued
    BY <1>12, <2>1 DEF List!GetReferrer
  <2> QED BY <1>5, <1>6, <2>1, <2>4, <2>5 DEF Adding
<1>13. CASE List!Hincrby(r)
  <2>1. q = Crediting("hincrby", e, ref, c, from) /\ ref # 0 /\ records = new /\ refs = filed /\ queue = queued
    BY <1>4, <1>5, <1>6, <1>7, <1>13 DEF Adding, Writing, Crediting, List!Hincrby, List!At
  <2>2. List!Goto(r, Crediting("reward", e, ref, c, from))
    <3>0. req[r] = Crediting("hincrby", e, ref, c, from)
      BY <1>4, <2>1
    <3>1. List!Moved(r, "reward") = Crediting("reward", e, ref, c, from)
      BY <3>0 DEF Crediting, List!Moved
    <3> QED BY <1>13, <3>1 DEF List!Hincrby
  <2>3. q.referrer = from
    BY <2>1 DEF Crediting
  <2>4. records' = OneUp(new, from) /\ refs' = filed /\ queue' = queued
    BY <1>4, <1>13, <2>1, <2>3 DEF List!Hincrby, OneUp
  <2> QED BY <1>5, <1>6, <2>1, <2>2, <2>4 DEF Adding
<1>14. CASE List!HsetReward(r)
  <2>1. q = Crediting("reward", e, ref, c, from) /\ ref # 0 /\ records = OneUp(new, from)
        /\ refs = filed /\ queue = queued
    BY <1>4, <1>5, <1>6, <1>7, <1>14 DEF Adding, Writing, Crediting, List!HsetReward, List!At
  <2>2. List!Goto(r, Crediting("zrank", e, ref, c, from))
    <3>0. req[r] = Crediting("reward", e, ref, c, from)
      BY <1>4, <2>1
    <3>1. List!Moved(r, "zrank") = Crediting("zrank", e, ref, c, from)
      BY <3>0 DEF Crediting, List!Moved
    <3> QED BY <1>14, <3>1 DEF List!HsetReward
  <2>3. q.referrer = from
    BY <2>1 DEF Crediting
  <2>4. records' = Rewarded(OneUp(new, from), from) /\ refs' = filed /\ queue' = queued
    BY <1>4, <1>14, <2>1, <2>3 DEF List!HsetReward, Rewarded
  <2>5. records' = WithCredit(new, from, e)
    <3>1. Rewarded(OneUp(new, from), from) = WithCredit(new, from, e)
      BY <1>3, <1>5, <2>1, Referrer
    <3> QED BY <2>4, <3>1
  <2> QED BY <1>5, <1>6, <2>1, <2>2, <2>4, <2>5 DEF Adding
<1> QED BY <1>9, <1>10, <1>11, <1>12, <1>13, <1>14
Grows(C, n, e, D) == Append(Line(C, n), e) = Line(D, n + 1)

LEMMA LineGrows ==
  ASSUME NoneIsApart, NEW R, NEW C, NEW n, Settled(R, C, n), NEW e \in Emails,
         n + 1 \in 1 .. MaxSignups, NEW D, D = [C EXCEPT ![n + 1] = e]
  PROVE  Grows(C, n, e, D)
<1>1. n \in Nat /\ C \in [1 .. MaxSignups -> Emails \cup {Nobody}]
      /\ \A c \in 1 .. n : C[c] \in Emails
  BY SettledFacts DEF NoneIsApart
<1>2. PICK Q : Q = Line(C, n)
  OBVIOUS
<1>3. Q \in Seq(Emails) /\ Len(Q) = n
  BY <1>1, <1>2 DEF Line
<1>4. \A i \in 1 .. n : Q[i] = C[i] /\ D[i] = C[i]
  BY <1>1, <1>2 DEF Line, NoneIsApart
<1>5. D[n + 1] = e
  BY <1>1
<1>6. PICK P : P = Append(Q, e)
  OBVIOUS
<1>7. P \in Seq(Emails) /\ Len(P) = n + 1 /\ P[n + 1] = e /\ \A i \in 1 .. n : P[i] = Q[i]
  BY <1>1, <1>3, <1>6
<1>8. ASSUME NEW i \in 1 .. n + 1 PROVE P[i] = D[i]
  <2>1. i = n + 1 \/ i \in 1 .. n
    BY <1>1
  <2> QED BY <1>4, <1>5, <1>7, <2>1
<1>9. P = [i \in 1 .. n + 1 |-> P[i]]
  BY <1>7
<1> QED BY <1>2, <1>6, <1>8, <1>9 DEF Line, Grows

(* The sign-up is answered: it has joined the settled list. *)
LEMMA JoiningGoesOn ==
  ASSUME NoneIsApart, OneSignUp, NEW R, NEW C, NEW n, ListHolds(R, C, n), NEW r \in Requests,
         List!AnswerJoined(r)
  PROVE  GoesOn(R, C, n)
<1>1. req[r].at = "zrank" /\ UNCHANGED <<records, refs, queue, clock>>
  BY DEF List!AnswerJoined, List!At
<1>2. PICK e \in Emails, ref \in 0 .. n : Joins(R, C, n, r, e, ref)
  BY <1>1, WhoJoins
<1>3. /\ R[e] = NoRecord /\ clock = n + 1 /\ n + 1 \in 1 .. MaxSignups
      /\ Settled(R, C, n)
  BY <1>2 DEF Joins, ListHolds
<1>4. PICK q : q = req[r]
  OBVIOUS
<1>5. PICK new, from : new = Added(R, e, n + 1, ref) /\ from = From(C, ref)
  OBVIOUS
<1>6. PICK S, D, Z : S = records /\ D = refs /\ Z = queue
  OBVIOUS
<1>7. /\ q.email = e /\ q.code = n + 1
      /\ S = WithCredit(new, from, e)
      /\ D = [C EXCEPT ![n + 1] = e] /\ Z = [Scores(R) EXCEPT ![e] = n + 1]
  <2>1. Adding(q, S, D, Z, R, C, n, e, ref) /\ q.at = "zrank"
    BY <1>1, <1>2, <1>4, <1>6 DEF Joins
  <2>2. /\ q.email = e /\ q.code = n + 1
        /\ ((ref = 0 /\ S = new) \/ S = WithCredit(new, from, e))
        /\ D = [C EXCEPT ![n + 1] = e] /\ Z = [Scores(R) EXCEPT ![e] = n + 1]
    BY <1>5, <2>1 DEF Adding, Writing, Crediting
  <2>3. ref = 0 => WithCredit(new, from, e) = new
    BY <1>5 DEF From, WithCredit
  <2> QED BY <2>2, <2>3
<1>8. /\ n \in Nat /\ R \in [Emails -> Entry \cup {NoRecord}]
      /\ C \in [1 .. MaxSignups -> Emails \cup {Nobody}]
  BY <1>3, SettledFacts DEF NoneIsApart
<1>9. WholeList(S, D, Line(D, n + 1), n + 1)
  <2>1. PICK Q : Q = Line(C, n)
    OBVIOUS
  <2>2. WholeList(R, C, Q, n)
    BY <1>3, <2>1 DEF Settled
  <2>3. PICK blank : blank = [code |-> n + 1, ref |-> ref, count |-> 0, reward |-> FALSE]
    OBVIOUS
  <2>4. S = WithCredit(WithNew(R, e, blank), from, e)
    BY <1>5, <1>7, <2>3 DEF Added, Blank
  <2>5. from = IF ref = 0 THEN Nobody ELSE C[ref]
    BY <1>5 DEF From
  <2>6. WholeList(S, D, Append(Q, e), n + 1)
    BY <1>3, <1>7, <2>2, <2>3, <2>4, <2>5, JoinKeepsWhole
  <2>7. Append(Q, e) = Line(D, n + 1)
    <3>1. Grows(C, n, e, D)
      BY <1>3, <1>7, LineGrows
    <3> QED BY <2>1, <3>1 DEF Grows
  <2> QED BY <2>6, <2>7
<1>10. Settled(S, D, n + 1)
  <2>1. \A c \in 1 .. n : C[c] \in Emails
    BY <1>3, SettledFacts
  <2>2. ASSUME NEW c \in 1 .. n + 1 PROVE D[c] # Nobody
    <3>1. c = n + 1 \/ c \in 1 .. n
      BY <1>8
    <3> QED BY <1>3, <1>7, <1>8, <2>1, <3>1 DEF NoneIsApart
  <2> QED BY <1>9, <2>2 DEF Settled
<1>11. Z = Scores(S)
  <2>1. Sees(S, D, Z, {e}, {}, R, C, n) \/ Sees(S, D, Z, {e}, {from}, R, C, n)
    <3>1. CASE ref = 0
      <4>1. S = new
        BY <1>5, <1>7, <3>1 DEF From, WithCredit
      <4> QED BY <1>3, <1>5, <1>7, <4>1, SeesJoining
    <3>2. CASE ref # 0
      BY <1>3, <1>5, <1>7, <3>2, SeesJoining
    <3> QED BY <3>1, <3>2
  <2>2. ASSUME NEW f \in Emails \ {e}
        PROVE  (S[f] # NoRecord <=> R[f] # NoRecord) /\ (R[f] # NoRecord => S[f].code = R[f].code)
    BY <2>1 DEF Sees, SeenOf
  <2>3. S[e] # NoRecord /\ S[e].code = n + 1
    <3>1. D[n + 1] = e
      BY <1>3, <1>7, <1>8
    <3>2. n + 1 \in 1 .. n + 1
      BY <1>8
    <3> QED BY <1>10, <3>1, <3>2, SettledFacts
  <2>4. ASSUME NEW f \in Emails
        PROVE  Z[f] = IF S[f] = NoRecord THEN 0 ELSE S[f].code
    BY <1>7, <2>2, <2>3 DEF Scores
  <2> QED BY <1>7, <2>4 DEF Scores
<1>12. List!Zrank(e) = n
  <2>1. \A f \in Emails : (R[f] # NoRecord => Z[f] = R[f].code)
                           /\ (R[f] = NoRecord => Z[f] \in {0, n + 1})
    BY <1>3, <1>7 DEF Scores
  <2>2. n \in 0 .. n
    BY <1>8
  <2>3. Cardinality({f \in Emails : Z[f] # 0 /\ Z[f] < n + 1}) = n
    BY <1>3, <2>1, <2>2, RankOf
  <2>4. Z[e] = n + 1 /\ n + 1 # 0
    BY <1>7, <1>8 DEF Scores
  <2> QED BY <1>6, <2>3, <2>4 DEF List!Zrank, List!Cardinality, Cardinality
<1>13. told' = [told EXCEPT ![e] = List!Answer(n + 1, n + 1)]
  BY <1>4, <1>7, <1>12 DEF List!AnswerJoined
<1>14. Goes(R, C, n, S, D, n + 1)
  BY <1>3, <1>5, <1>7, <1>13 DEF Goes
<1>15. ListHolds(S, D, n + 1)'
  <2>1. DOMAIN req' = Requests /\ \A s \in Requests : req'[s] = [at |-> "idle"]
    BY DEF List!AnswerJoined, List!Goto, List!Idle, ListHolds, OneSignUp
  <2>2. Resting(S, D, n + 1)'
    BY <1>1, <1>3, <1>6, <1>11, <2>1 DEF Resting, Waiting
  <2>3. AnsweredUpTo(n + 1)'
    <3>1. PICK a : a = List!Answer(n + 1, n + 1)
      OBVIOUS
    <3>2. a.code = n + 1 /\ told' = [told EXCEPT ![e] = a]
      BY <1>13, <3>1 DEF List!Answer
    <3>3. 1 .. n \subseteq 1 .. n + 1 /\ n + 1 \in 1 .. n + 1
      BY <1>8
    <3> QED BY <3>2, <3>3 DEF ListHolds, AnsweredUpTo
  <2> QED BY <1>10, <2>1, <2>2, <2>3 DEF ListHolds
<1> QED BY <1>14, <1>15 DEF GoesOn
LEMMA ListStep ==
  ASSUME NoneIsApart, OneSignUp, NEW R, NEW C, NEW n, ListHolds(R, C, n),
         [List!Next]_List!vars
  PROVE  GoesOn(R, C, n)
<1>1. ASSUME NEW r \in Requests,
             \E e \in Emails, ref \in List!Codes \union {0} : List!onSubmit(r, e, ref)
      PROVE  GoesOn(R, C, n)
  BY <1>1, AskingGoesOn
<1>2. ASSUME NEW r \in Requests, List!Serves(r)
      PROVE  GoesOn(R, C, n)
  <2>1. CASE List!Incr(r) \/ List!Expire(r)
    BY <2>1, AskingGoesOn
  <2>2. CASE List!Hgetall(r)
    BY <2>2, FindingGoesOn
  <2>3. CASE List!AnswerKnown(r)
    BY <2>3, KnownGoesOn
  <2>4. CASE \/ List!Hset(r) \/ List!SetRef(r) \/ List!Zadd(r)
             \/ List!GetReferrer(r) \/ List!Hincrby(r) \/ List!HsetReward(r)
    BY <2>4, WritingGoesOn
  <2>5. CASE List!AnswerJoined(r)
    BY <2>5, JoiningGoesOn
  <2> QED BY <1>2, <2>1, <2>2, <2>3, <2>4, <2>5 DEF List!Serves
<1>3. ~ \E r \in Requests : List!Stop(r)
  BY DEF List!Stop, OneSignUp
<1>4. CASE List!KeyExpires \/ UNCHANGED List!vars
  <2>1. UNCHANGED <<records, refs, queue, clock, told, req>>
    BY <1>4 DEF List!KeyExpires, List!vars
  <2>2. ListHolds(R, C, n)'
    BY <2>1 DEF ListHolds, Resting, Joins, AnsweredUpTo
  <2> QED BY <2>1, <2>2 DEF GoesOn, Goes, Stays
<1> QED BY <1>1, <1>2, <1>3, <1>4 DEF List!Next

ListInv == \E R, C, n : ListHolds(R, C, n)

LEMMA ListInitially ==
  ASSUME NoneIsApart, List!Init
  PROVE  ListHolds([e \in Emails |-> NoRecord], [c \in 1 .. MaxSignups |-> Nobody], 0)
<1>1. PICK R, C : R = [e \in Emails |-> NoRecord] /\ C = [c \in 1 .. MaxSignups |-> Nobody]
  OBVIOUS
<1>2. Line(C, 0) = <<>>
  BY DEF Line
<1>3. Settled(R, C, 0)
  BY <1>1, <1>2, NobodyYet DEF Settled
<1>4. /\ records = R /\ refs = C /\ queue = [e \in Emails |-> 0] /\ clock = 0
      /\ told = [e \in Emails |-> NoRecord] /\ req = [r \in Requests |-> [at |-> "idle"]]
  BY <1>1 DEF List!Init, List!ListInit, List!Codes, List!Idle
<1>5. Resting(R, C, 0)
  BY <1>1, <1>4 DEF Resting, Scores, Waiting
<1>6. AnsweredUpTo(0) /\ DOMAIN req = Requests
  BY <1>4 DEF AnsweredUpTo
<1> QED BY <1>1, <1>3, <1>5, <1>6 DEF ListHolds

LEMMA ListSteps ==
  ASSUME NoneIsApart, OneSignUp, ListInv, [List!Next]_List!vars
  PROVE  ListInv'
<1>1. PICK R, C, n : ListHolds(R, C, n)
  BY DEF ListInv
<1>2. PICK S, D, m : ListHolds(S, D, m)'
  BY <1>1, ListStep DEF GoesOn
<1> QED BY <1>2 DEF ListInv
-----------------------------------------------------------------------------
LEMMA PlaceInLine ==
  ASSUME NoneIsApart, NEW R, NEW C, NEW n, Settled(R, C, n), NEW e \in Emails, R[e] # NoRecord
  PROVE  List!Memory!Place(Line(C, n), e) = R[e].code
<1>1. PICK k \in 1 .. n : k = R[e].code /\ C[k] = e
  BY SettledFacts
<1>2. PICK Q : Q = Line(C, n)
  OBVIOUS
<1>3. Q \in Seq(Emails) /\ Len(Q) = n /\ \A i \in 1 .. n : Q[i] = C[i]
  <2>1. n \in Nat /\ \A c \in 1 .. n : C[c] \in Emails
    BY SettledFacts DEF NoneIsApart
  <2> QED BY <1>2, <2>1 DEF Line
<1>4. \A i \in 1 .. n : C[i] = e => i = k
  BY <1>1, SettledFacts
<1>5. (CHOOSE i \in 1 .. Len(Q) : Q[i] = e) = k
  BY <1>1, <1>3, <1>4
<1> QED BY <1>1, <1>2, <1>5 DEF List!Memory!Place

(* A step of the settled list is a step of the list in memory, or none. *)
LEMMA ListRefines ==
  ASSUME NoneIsApart, OneSignUp, NEW R, NEW C, NEW n, NEW S, NEW D, NEW m,
         ListHolds(R, C, n), ListHolds(S, D, m)', Goes(R, C, n, S, D, m)
  PROVE  [List!Memory!CoreNext]_(List!Memory!core_vars)
<1>1. Mapped(R, C, n) /\ Mapped(S, D, m)'
  BY HoldsMapped, HoldsMappedNext
<1>2. Settled(R, C, n)
  BY DEF ListHolds
<1>3. CASE Stays(R, C, n, S, D, m) /\ told' = told
  BY <1>1, <1>3 DEF Stays, Mapped, List!Memory!core_vars
<1>4. CASE Stays(R, C, n, S, D, m)
           /\ \E e \in Emails :
                /\ R[e] # NoRecord
                /\ told' = [told EXCEPT ![e] = List!Answer(R[e].code,
                                                 List!effectivePosition(R[e].code, R[e].count))]
  <2>1. PICK e \in Emails :
          /\ R[e] # NoRecord
          /\ told' = [told EXCEPT ![e] = List!Answer(R[e].code,
                                           List!effectivePosition(R[e].code, R[e].count))]
    BY <1>4
  <2>2. List!Memory!Place(Line(C, n), e) = R[e].code
    BY <1>2, <2>1, PlaceInLine
  <2>3. List!Memory!AlreadyJoined(e)
    BY <1>1, <1>4, <2>1, <2>2
       DEF Stays, Mapped, List!Memory!AlreadyJoined, List!Memory!Answer, List!Answer,
           List!Memory!effectivePosition, List!effectivePosition
  <2> QED BY <2>3 DEF List!Memory!CoreNext, List!Memory!addToWaitlist
<1>5. ASSUME NEW e \in Emails, NEW ref \in 0 .. n,
             R[e] = NoRecord, n + 1 \in 1 .. MaxSignups,
             m = n + 1, D = [C EXCEPT ![n + 1] = e],
             S = WithCredit(Added(R, e, n + 1, ref), From(C, ref), e),
             told' = [told EXCEPT ![e] = List!Answer(n + 1, n + 1)]
      PROVE  List!Memory!CoreNext
  <2>1. Append(Line(C, n), e) = Line(D, n + 1)
    <3>1. Grows(C, n, e, D)
      BY <1>2, <1>5, LineGrows
    <3> QED BY <3>1 DEF Grows
  <2>2. Len(Line(D, n + 1)) = n + 1
    <3>1. n + 1 \in Nat
      BY <1>5
    <3> QED BY <3>1 DEF Line
  <2>3. List!Memory!Join(e, ref)
    BY <1>1, <1>5, <2>1, <2>2
       DEF Mapped, List!Memory!Join, List!Memory!Answer, List!Answer, List!Memory!NewRecord,
           List!Memory!Credited, List!Memory!Codes, WithCredit, Added, WithNew, Blank, Bumped, From
  <2>4. ref \in List!Memory!Codes \union {0}
    <3>1. n \in 0 .. MaxSignups
      BY <1>2, SettledFacts
    <3> QED BY <3>1 DEF List!Memory!Codes, NoneIsApart
  <2> QED BY <2>3, <2>4 DEF List!Memory!CoreNext, List!Memory!addToWaitlist
<1> QED BY <1>3, <1>4, <1>5 DEF Goes
LEMMA ListStartsEmpty ==
  ASSUME NoneIsApart, OneSignUp, List!Init
  PROVE  List!Memory!CoreInit
<1>1. PICK R, C : R = [e \in Emails |-> NoRecord] /\ C = [c \in 1 .. MaxSignups |-> Nobody]
  OBVIOUS
<1>2. ListHolds(R, C, 0)
  BY <1>1, ListInitially
<1>3. Mapped(R, C, 0)
  BY <1>2, HoldsMapped
<1>4. Line(C, 0) = <<>>
  BY DEF Line
<1>5. told = [e \in Emails |-> NoRecord]
  BY DEF List!Init, List!ListInit
<1> QED BY <1>1, <1>3, <1>4, <1>5 DEF Mapped, List!Memory!CoreInit, List!Memory!Codes

(* One request at a time, the list on Redis behaves as the list in memory does. *)
THEOREM ImplementsMemoryAlways ==
  ASSUME Memory!WaitlistAssumption, OneSignUp
  PROVE  List!Spec => List!ImplementsMemory
<1>0. NoneIsApart
  BY Apart
<1>1. List!Init => ListInv /\ List!Memory!CoreInit
  BY <1>0, ListInitially, ListStartsEmpty DEF ListInv
<1>2. ListInv /\ [List!Next]_List!vars => ListInv' /\ [List!Memory!CoreNext]_(List!Memory!core_vars)
  <2> SUFFICES ASSUME ListInv, [List!Next]_List!vars
               PROVE  ListInv' /\ [List!Memory!CoreNext]_(List!Memory!core_vars)
    OBVIOUS
  <2>1. PICK R, C, n : ListHolds(R, C, n)
    BY DEF ListInv
  <2>2. PICK S, D, m : ListHolds(S, D, m)' /\ Goes(R, C, n, S, D, m)
    BY <1>0, <2>1, ListStep DEF GoesOn
  <2>3. [List!Memory!CoreNext]_(List!Memory!core_vars)
    BY <1>0, <2>1, <2>2, ListRefines
  <2> QED BY <2>2, <2>3 DEF ListInv
<1> QED BY <1>1, <1>2, PTL DEF List!Spec, List!ImplementsMemory, List!Memory!Core

-----------------------------------------------------------------------------
LEMMA HoldsCredited ==
  ASSUME NoneIsApart, OneSignUp, NEW R, NEW C, NEW n, ListHolds(R, C, n)
  PROVE  List!CreditedPerFriend
<1> SUFFICES ASSUME List!AtRest, NEW e \in Emails, records[e] # NoRecord
             PROVE  /\ records[e].count = List!Cardinality(List!Friends(e))
                    /\ records[e].reward <=> List!Friends(e) # {}
  BY DEF List!CreditedPerFriend
<1>1. Resting(R, C, n)
  <2>1. ASSUME NEW r \in Requests, NEW f \in Emails, NEW ref \in 0 .. n, Joins(R, C, n, r, f, ref)
        PROVE  FALSE
    <3>1. req[r].at = "idle"
      BY DEF List!AtRest, List!Idle
    <3>2. PICK q, X, F, Z : q = req[r] /\ X = records /\ F = refs /\ Z = queue
      OBVIOUS
    <3>3. Adding(q, X, F, Z, R, C, n, f, ref)
      BY <2>1, <3>2 DEF Joins
    <3>4. q.at # "idle"
      BY <3>3 DEF Adding, Writing, Crediting
    <3> QED BY <3>1, <3>2, <3>4
  <2> QED BY <2>1 DEF ListHolds
<1>2. Counts(R, C) /\ records = R /\ refs = C
  BY <1>1 DEF ListHolds, Settled, WholeList, Resting
<1>3. PICK F : F = FriendsOf(R, C, e)
  OBVIOUS
<1>4. List!Friends(e) = F
  BY <1>2, <1>3 DEF List!Friends, FriendsOf
<1>5. R[e].count = Cardinality(F) /\ R[e].reward = (F # {})
  BY <1>2, <1>3 DEF Counts
<1>6. List!Cardinality(F) = Cardinality(F)
  BY DEF List!Cardinality, Cardinality
<1> QED BY <1>2, <1>4, <1>5, <1>6

LEMMA HoldsGiven ==
  ASSUME NoneIsApart, OneSignUp, List!ListAssumption, NEW R, NEW C, NEW n, ListHolds(R, C, n)
  PROVE  List!GivenCodeWorks
<1> SUFFICES ASSUME NEW c \in List!Shown PROVE List!getWaitlistStatus(c) # NoRecord
  BY DEF List!GivenCodeWorks
<1>1. Settled(R, C, n)
  BY DEF ListHolds
<1>2. c \in 1 .. n /\ n \in 0 .. MaxSignups
  BY <1>1, SettledFacts DEF List!Shown, ListHolds, AnsweredUpTo
<1>3. PICK X, F, Z, J, L : /\ X = records /\ F = refs /\ Z = queue
                           /\ J = Joiners /\ L = CreditedNow
  OBVIOUS
<1>4. Sees(X, F, Z, J, L, R, C, n)
  BY <1>3, HoldsSees
<1>5. PICK e \in Emails : e = C[c] /\ R[e] # NoRecord /\ R[e].code = c
  BY <1>1, <1>2, SettledFacts
<1>6. F[c] = e /\ X[e] # NoRecord /\ X[e].count \in Nat /\ Z[e] = c
  <2>1. c \in 1 .. MaxSignups
    BY <1>2 DEF NoneIsApart
  <2> QED BY <1>2, <1>4, <1>5, <2>1 DEF Sees, SeenOf
<1>7. PICK k \in Nat : c = k + 1 /\ k \in 0 .. n
  <2>1. c - 1 \in Nat /\ c = (c - 1) + 1 /\ c - 1 \in 0 .. n
    BY <1>2
  <2> QED BY <2>1
<1>8. List!Zrank(e) = k
  <2>1. \A f \in Emails : (R[f] # NoRecord => Z[f] = R[f].code)
                           /\ (R[f] = NoRecord => Z[f] \in {0, n + 1})
    BY <1>4 DEF Sees
  <2>2. Cardinality({f \in Emails : Z[f] # 0 /\ Z[f] < k + 1}) = k
    BY <1>1, <1>7, <2>1, RankOf
  <2> QED BY <1>3, <1>6, <1>7, <2>2 DEF List!Zrank, List!Cardinality, Cardinality
<1>9. PICK p \in Nat : p = List!effectivePosition(List!Zrank(e) + 1, X[e].count)
  <2>1. PICK a \in Nat, b \in Nat : a = k + 1 /\ b = X[e].count
    BY <1>6
  <2>2. PICK s \in Nat : s = SPOTS * b
    BY <2>1 DEF NoneIsApart
  <2>3. (IF a > s THEN a - s ELSE 1) \in Nat
    BY <2>1
  <2> QED BY <1>8, <2>1, <2>2, <2>3 DEF List!effectivePosition
<1>10. PICK b \in Nat : b = X[e].count
  BY <1>6
<1>11. [position |-> p, referralCount |-> b] # NoRecord
  BY DEF List!ListAssumption
<1>12. List!getWaitlistStatus(c) = [position |-> p, referralCount |-> b]
  BY <1>3, <1>6, <1>7, <1>9, <1>10 DEF List!getWaitlistStatus, NoneIsApart
<1> QED BY <1>11, <1>12

(* When no sign-up is running everybody has been credited once for every friend, and *)
(* a code that was shown to somebody always leads to a place in the queue.           *)
THEOREM WaitlistKeepsItsWord ==
  ASSUME Memory!WaitlistAssumption, List!ListAssumption, OneSignUp
  PROVE  List!Spec => [](List!CreditedPerFriend /\ List!GivenCodeWorks)
<1>0. NoneIsApart
  BY Apart
<1>1. List!Init => ListInv
  BY <1>0, ListInitially DEF ListInv
<1>2. ListInv /\ [List!Next]_List!vars => ListInv'
  BY <1>0, ListSteps
<1>3. ListInv => List!CreditedPerFriend /\ List!GivenCodeWorks
  BY <1>0, HoldsCredited, HoldsGiven DEF ListInv
<1> QED BY <1>1, <1>2, <1>3, PTL DEF List!Spec
=============================================================================
