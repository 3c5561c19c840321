--------------------------- MODULE PricesProofs ---------------------------
(***************************************************************************)
(* What the price signer reads and decides, for any readings of its sources, any *)
(* limit on their spread and any number of requests: a price it posts is within   *)
(* the limit of an honest source whichever one lies, and it posts exactly when    *)
(* one source is all there is or two agree; a premium of a traded token moves it   *)
(* by a bounded part, Jupiter alone never makes it, and the trading flag it obeys is        *)
(* fresh.  TLC tries readings around one price.                                 *)
(*                                                                         *)
(* The argument has three parts: a decision that waits to be posted is still       *)
(* the one the rules give for the reading it came from (DecisionInv), a rounded    *)
(* mean of prices that are pairwise near is near each of them, and what the        *)
(* services can have answered is of the shape that the routes expect (SourcesInv,  *)
(* FlagInv).  What the prices lead to is last: the alerts tell a device of a band    *)
(* only if the position got worse (TellInv).                                   *)
(***************************************************************************)
EXTENDS PriceDesk, SequenceTheorems, FiniteSetTheorems, TLAPS

-----------------------------------------------------------------------------
(* Rounding *)

LEMMA FloorOf ==
  ASSUME NEW n \in Nat, NEW d \in Nat \ {0}
  PROVE  n \div d \in Nat /\ (n \div d) * d <= n /\ n < (n \div d) * d + d
OBVIOUS

(* A rounded quotient is at most k exactly when the quotient is below k + 1/2. *)
LEMMA RoundAtMost ==
  ASSUME NEW n \in Nat, NEW d \in Nat \ {0}, NEW k \in Nat
  PROVE  /\ RoundDiv(n, d) \in Nat
         /\ RoundDiv(n, d) <= k <=> 2 * n < (2 * k + 1) * d
<1>1. 2 * n + d \in Nat /\ 2 * d \in Nat \ {0}
  OBVIOUS
<1>2. PICK q \in Nat : /\ q = (2 * n + d) \div (2 * d)
                       /\ q * (2 * d) <= 2 * n + d
                       /\ 2 * n + d < q * (2 * d) + 2 * d
  BY <1>1, FloorOf
<1>3. ASSUME q <= k PROVE 2 * n < (2 * k + 1) * d
  <2>1. q * d <= k * d
    BY <1>3
  <2>2. (2 * k + 1) * d = 2 * (k * d) + d /\ q * (2 * d) = 2 * (q * d)
    OBVIOUS
  <2> QED BY <1>2, <2>1, <2>2
<1>4. ASSUME k < q PROVE ~(2 * n < (2 * k + 1) * d)
  <2>1. (k + 1) * d <= q * d
    BY <1>4
  <2>2. (2 * k + 1) * d = 2 * (k * d) + d /\ q * (2 * d) = 2 * (q * d)
        /\ (k + 1) * d = k * d + d
    OBVIOUS
  <2> QED BY <1>2, <2>1, <2>2
<1> QED BY <1>2, <1>3, <1>4 DEF RoundDiv

LEMMA RoundBetween ==
  ASSUME NEW n \in Nat, NEW d \in Nat \ {0}, NEW l \in Nat, NEW h \in Nat,
         l * d <= n, n <= h * d
  PROVE  RoundDiv(n, d) \in Nat /\ l <= RoundDiv(n, d) /\ RoundDiv(n, d) <= h
<1>1. RoundDiv(n, d) \in Nat /\ RoundDiv(n, d) <= h
  <2>1. (2 * h + 1) * d = 2 * (h * d) + d
    OBVIOUS
  <2> QED BY <2>1, RoundAtMost
<1>2. l <= RoundDiv(n, d)
  <2>1. CASE l = 0
    BY <1>1, <2>1
  <2>2. CASE l # 0
    <3>1. PICK k \in Nat : l = k + 1
      <4>1. l - 1 \in Nat /\ l = (l - 1) + 1
        BY <2>2
      <4> QED BY <4>1
    <3>2. (2 * k + 1) * d = 2 * (k * d) + d /\ l * d = k * d + d
      BY <3>1
    <3>3. ~(RoundDiv(n, d) <= k)
      <4>1. k * d + d <= n /\ k * d \in Nat
        BY <3>1, <3>2
      <4>2. ~(2 * n < (2 * k + 1) * d)
        BY <3>2, <4>1
      <4> QED BY <4>2, RoundAtMost
    <3> QED BY <1>1, <3>1, <3>3
  <2> QED BY <2>1, <2>2
<1> QED BY <1>1, <1>2

-----------------------------------------------------------------------------
(* Near: the limit on the spread, unrounded *)

LEMMA LimitNat == AgreementBps \in Nat /\ PriceScale \in Nat \ {0}
BY SignerAssumption

LEMMA SpreadIsNear ==
  ASSUME NEW a \in Nat \ {0}, NEW b \in Nat \ {0}
  PROVE  /\ spreadBps(a, b) \in Nat
         /\ spreadBps(a, b) <= AgreementBps <=> Near(a, b)
<1>1. Apart(a, b) \in Nat /\ a + b \in Nat \ {0}
  BY DEF Apart
<1>2. 20000 * Apart(a, b) \in Nat /\ 2 * (20000 * Apart(a, b)) = 40000 * Apart(a, b)
  BY <1>1
<1>3. /\ RoundDiv(20000 * Apart(a, b), a + b) \in Nat
      /\ RoundDiv(20000 * Apart(a, b), a + b) <= AgreementBps
           <=> 2 * (20000 * Apart(a, b)) < (2 * AgreementBps + 1) * (a + b)
  <2> DEFINE n == 20000 * Apart(a, b)
             d == a + b
  <2>1. n \in Nat /\ d \in Nat \ {0} /\ AgreementBps \in Nat
    BY <1>1, <1>2, LimitNat
  <2> HIDE DEF n, d
  <2>2. RoundDiv(n, d) \in Nat
        /\ (RoundDiv(n, d) <= AgreementBps <=> 2 * n < (2 * AgreementBps + 1) * d)
    BY <2>1, RoundAtMost
  <2> QED BY <2>2 DEF n, d
<1> QED BY <1>2, <1>3 DEF spreadBps, Near

LEMMA NearSymmetric ==
  ASSUME NEW a \in Nat, NEW b \in Nat
  PROVE  Near(a, b) <=> Near(b, a)
<1>1. Apart(a, b) = Apart(b, a) /\ a + b = b + a
  BY DEF Apart
<1> QED BY <1>1 DEF Near

LEMMA NearItself ==
  ASSUME NEW a \in Nat \ {0}
  PROVE  Near(a, a)
<1>1. Apart(a, a) = 0 /\ (2 * AgreementBps + 1) * (a + a) > 0
  BY LimitNat DEF Apart
<1> QED BY <1>1 DEF Near

LEMMA NearScaled ==
  ASSUME NEW a \in Nat, NEW b \in Nat, NEW s \in Nat \ {0}, Near(a, b)
  PROVE  Near(s * a, s * b)
<1> DEFINE k == 2 * AgreementBps + 1
<1>1. Apart(s * a, s * b) = s * Apart(a, b)
  <2>1. CASE a > b
    <3>1. s * a > s * b /\ s * (a - b) = s * a - s * b
      BY <2>1
    <3> QED BY <2>1, <3>1 DEF Apart
  <2>2. CASE ~(a > b)
    <3>1. ~(s * a > s * b) /\ s * (b - a) = s * b - s * a
      BY <2>2
    <3> QED BY <2>2, <3>1 DEF Apart
  <2> QED BY <2>1, <2>2
<1>2. Apart(a, b) \in Nat /\ k \in Nat /\ k * (a + b) \in Nat
  BY LimitNat DEF Apart
<1>3. 40000 * Apart(a, b) < k * (a + b)
  BY DEF Near
<1>4. s * (40000 * Apart(a, b)) < s * (k * (a + b))
  BY <1>2, <1>3
<1>5. s * (40000 * Apart(a, b)) = 40000 * (s * Apart(a, b))
      /\ s * (k * (a + b)) = k * (s * a + s * b)
  BY <1>2
<1> QED BY <1>1, <1>4, <1>5 DEF Near

(* What lies between two prices that are near a third is near it too. *)
LEMMA NearBetween ==
  ASSUME NEW h \in Nat \ {0}, NEW x \in Nat, NEW m \in Nat, NEW y \in Nat,
         x <= m, m <= y, Near(x, h), Near(y, h)
  PROVE  Near(m, h)
<1> DEFINE k == 2 * AgreementBps + 1
<1>1. k \in Nat /\ k > 0
  BY LimitNat
<1>2. \A t \in Nat : k * (t + h) = k * t + k * h /\ k * t \in Nat /\ k * h \in Nat
  BY <1>1
<1>3. CASE m > h
  <2>1. y > h /\ Apart(m, h) = m - h /\ Apart(y, h) = y - h
    BY <1>3 DEF Apart
  <2>2. 40000 * (y - h) < k * y + k * h
    BY <1>2, <2>1 DEF Near
  <2>3. CASE k <= 40000
    <3>1. k * (y - m) <= 40000 * (y - m)
      BY <1>1, <2>3
    <3>2. k * (y - m) = k * y - k * m
      BY <1>1
    <3>3. 40000 * (m - h) < k * m + k * h
      BY <1>2, <2>2, <3>1, <3>2
    <3> QED BY <1>2, <2>1, <3>3 DEF Near
  <2>4. CASE k > 40000
    <3>1. 40000 * (m + h) < k * (m + h)
      BY <1>1, <2>4
    <3>2. 40000 * (m - h) < k * (m + h)
      BY <1>2, <3>1
    <3> QED BY <2>1, <3>2 DEF Near
  <2> QED BY <1>1, <2>3, <2>4
<1>4. CASE ~(m > h)
  <2>1. Apart(m, h) = h - m /\ Apart(x, h) = h - x
    BY <1>4 DEF Apart
  <2>2. 40000 * (h - x) < k * x + k * h
    BY <1>2, <2>1 DEF Near
  <2>3. k * x <= k * m
    BY <1>1
  <2>4. 40000 * (h - m) < k * m + k * h
    BY <1>2, <2>2, <2>3
  <2> QED BY <1>2, <2>1, <2>4 DEF Near
<1> QED BY <1>3, <1>4

-----------------------------------------------------------------------------
(* The candidates of a reading *)

Candidate == [name : {"primary", "jupiter", "pyth"}, price : Nat \ {0}]
GoodList(c) == c \in Seq(Candidate) /\ Len(c) \in 1 .. 3

LEMMA OneGood ==
  ASSUME NEW present \in BOOLEAN, NEW name \in {"primary", "jupiter", "pyth"}, NEW price,
         present => price \in Nat \ {0}
  PROVE  /\ One(present, name, price) \in Seq(Candidate)
         /\ Len(One(present, name, price)) <= 1
<1>1. CASE present
  <2>1. [name |-> name, price |-> price] \in Candidate
    BY <1>1 DEF Candidate
  <2>2. <<[name |-> name, price |-> price]>> \in Seq(Candidate)
        /\ Len(<<[name |-> name, price |-> price]>>) = 1
    BY <2>1
  <2> QED BY <1>1, <2>2 DEF One
<1>2. CASE ~present
  BY <1>2 DEF One
<1> QED BY <1>1, <1>2

LEMMA CandidatesGood ==
  ASSUME NEW r \in Readings, NEW last, ~Gated(r, last)
  PROVE  GoodList(candidates(r))
<1> DEFINE p == One(r.primary > 0, "primary", r.primary)
           j == One(jupiterUsable(r), "jupiter", r.jupiter)
           y == One(usablePyth(r), "pyth", r.pyth)
<1>1. r.primary \in Nat /\ r.jupiter \in Nat /\ r.pyth \in Nat
  BY DeskAssumption
<1>2. p \in Seq(Candidate) /\ Len(p) <= 1
  <2>1. (r.primary > 0) \in BOOLEAN /\ (r.primary > 0 => r.primary \in Nat \ {0})
    BY <1>1
  <2> QED BY <2>1, OneGood
<1>3. j \in Seq(Candidate) /\ Len(j) <= 1
  <2>1. jupiterUsable(r) \in BOOLEAN /\ (jupiterUsable(r) => r.jupiter \in Nat \ {0})
    BY <1>1 DEF jupiterUsable
  <2> QED BY <2>1, OneGood
<1>4. y \in Seq(Candidate) /\ Len(y) <= 1
  <2>1. usablePyth(r) \in BOOLEAN /\ (usablePyth(r) => r.pyth \in Nat \ {0})
    BY <1>1 DEF usablePyth
  <2> QED BY <2>1, OneGood
<1>5. Len(p) = 1 \/ Len(y) = 1
  <2>1. r.primary > 0 \/ usablePyth(r)
    BY <1>1 DEF Gated, Closed
  <2> QED BY <2>1 DEF One
<1>6. p \o j \o y \in Seq(Candidate) /\ Len(p \o j \o y) = Len(p) + Len(j) + Len(y)
  <2> HIDE DEF p, j, y
  <2> QED BY <1>2, <1>3, <1>4
<1>7. Len(p) \in Nat /\ Len(j) \in Nat /\ Len(y) \in Nat
  <2> HIDE DEF p, j, y
  <2> QED BY <1>2, <1>3, <1>4
<1>8. candidates(r) = p \o j \o y
  BY DEF candidates
<1> HIDE DEF p, j, y
<1> QED BY <1>2, <1>3, <1>4, <1>5, <1>6, <1>7, <1>8 DEF GoodList

LEMMA PriceOf ==
  ASSUME NEW c, GoodList(c)
  PROVE  DOMAIN c = 1 .. Len(c) /\ \A k \in DOMAIN c : c[k].price \in Nat \ {0}
<1>1. c \in Seq(Candidate)
  BY DEF GoodList
<1>2. DOMAIN c = 1 .. Len(c)
  BY <1>1
<1>3. \A k \in DOMAIN c : c[k] \in Candidate
  BY <1>1, <1>2
<1> QED BY <1>2, <1>3 DEF Candidate

LEMMA PairNear ==
  ASSUME NEW c, GoodList(c), NEW i \in DOMAIN c, NEW j \in DOMAIN c, i < j
  PROVE  /\ <<i, j>> \in Pairs(c)
         /\ Bps(c, <<i, j>>) \in Nat
         /\ Bps(c, <<i, j>>) <= AgreementBps <=> Near(c[i].price, c[j].price)
<1>1. Bps(c, <<i, j>>) = spreadBps(c[i].price, c[j].price)
  BY DEF Bps
<1>2. <<i, j>> \in Pairs(c)
  BY DEF Pairs
<1> QED BY <1>1, <1>2, PriceOf, SpreadIsNear

(* The two loops keep a pair that agrees whenever there is one. *)
LEMMA PairKept ==
  ASSUME NEW c, GoodList(c), Len(c) = 3, Agreeing(c) # {}
  PROVE  \E i, j \in DOMAIN c :
           i < j /\ agreeingPair(c) = <<i, j>> /\ Near(c[i].price, c[j].price)
<1> DEFINE Before(p, q) == Bps(c, p) < Bps(c, q) \/ (Bps(c, p) = Bps(c, q) /\ Earlier(p, q))
<1>1. DOMAIN c = {1, 2, 3}
  BY PriceOf
<1>2. \A p \in Agreeing(c) : p \in {<<1, 2>>, <<1, 3>>, <<2, 3>>}
  BY <1>1 DEF Agreeing, Pairs
<1>3. Bps(c, <<1, 2>>) \in Nat /\ Bps(c, <<1, 3>>) \in Nat /\ Bps(c, <<2, 3>>) \in Nat
  BY <1>1, PairNear
<1>4. /\ Earlier(<<1, 2>>, <<1, 2>>) /\ Earlier(<<1, 2>>, <<1, 3>>) /\ Earlier(<<1, 2>>, <<2, 3>>)
      /\ Earlier(<<1, 3>>, <<1, 3>>) /\ Earlier(<<1, 3>>, <<2, 3>>) /\ Earlier(<<2, 3>>, <<2, 3>>)
  BY DEF Earlier
<1>5. \E p \in Agreeing(c) : \A q \in Agreeing(c) : Before(p, q)
  <2>1. CASE /\ <<1, 2>> \in Agreeing(c)
             /\ <<1, 3>> \in Agreeing(c) => Bps(c, <<1, 2>>) <= Bps(c, <<1, 3>>)
             /\ <<2, 3>> \in Agreeing(c) => Bps(c, <<1, 2>>) <= Bps(c, <<2, 3>>)
    <3>1. \A q \in Agreeing(c) : Before(<<1, 2>>, q)
      BY <1>2, <1>3, <1>4, <2>1
    <3> QED BY <2>1, <3>1
  <2>2. CASE /\ <<1, 3>> \in Agreeing(c)
             /\ <<1, 2>> \in Agreeing(c) => Bps(c, <<1, 3>>) < Bps(c, <<1, 2>>)
             /\ <<2, 3>> \in Agreeing(c) => Bps(c, <<1, 3>>) <= Bps(c, <<2, 3>>)
    <3>1. \A q \in Agreeing(c) : Before(<<1, 3>>, q)
      BY <1>2, <1>3, <1>4, <2>2
    <3> QED BY <2>2, <3>1
  <2>3. CASE /\ <<2, 3>> \in Agreeing(c)
             /\ <<1, 2>> \in Agreeing(c) => Bps(c, <<2, 3>>) < Bps(c, <<1, 2>>)
             /\ <<1, 3>> \in Agreeing(c) => Bps(c, <<2, 3>>) < Bps(c, <<1, 3>>)
    <3>1. \A q \in Agreeing(c) : Before(<<2, 3>>, q)
      BY <1>2, <1>3, <1>4, <2>3
    <3> QED BY <2>3, <3>1
  <2>4. <<1, 2>> \in Agreeing(c) \/ <<1, 3>> \in Agreeing(c) \/ <<2, 3>> \in Agreeing(c)
    BY <1>2
  <2> QED BY <1>3, <2>1, <2>2, <2>3, <2>4
<1>6. agreeingPair(c) \in Agreeing(c)
  BY <1>5 DEF agreeingPair
<1>7. PICK p \in Pairs(c) : agreeingPair(c) = p /\ Bps(c, p) <= AgreementBps
  BY <1>6 DEF Agreeing
<1>8. PICK i, j \in DOMAIN c : p = <<i, j>> /\ i < j
  BY <1>7 DEF Pairs
<1> QED BY <1>7, <1>8, PairNear

-----------------------------------------------------------------------------
(* The posted price: a rounded mean of the prices used *)

LEMMA MeanOfTwo ==
  ASSUME NEW a \in Nat, NEW b \in Nat, a <= b,
         NEW prices, prices \in [1 .. 2 -> {a, b}], prices[1] + prices[2] = a + b
  PROVE  /\ meanE6(prices) \in Nat
         /\ PriceScale * a <= meanE6(prices) /\ meanE6(prices) <= PriceScale * b
<1> DEFINE s == PriceScale
           n == s * (a + b)
<1>1. s \in Nat /\ s * a \in Nat /\ s * b \in Nat /\ n = s * a + s * b /\ s * a <= s * b
  BY LimitNat
<1>2. n \in Nat /\ (s * a) * 2 <= n /\ n <= (s * b) * 2
  BY <1>1
<1>3. Len(prices) = 2
  BY DEF Total
<1>4. Total(prices) = a + b
  BY <1>3 DEF Total
<1> HIDE DEF s, n
<1>5. RoundDiv(n, 2) \in Nat /\ s * a <= RoundDiv(n, 2) /\ RoundDiv(n, 2) <= s * b
  BY <1>1, <1>2, RoundBetween
<1> QED BY <1>3, <1>4, <1>5 DEF meanE6, s, n

LEMMA MeanOfThree ==
  ASSUME NEW prices \in [1 .. 3 -> Nat],
         NEW a \in Nat, NEW b \in Nat, \A k \in 1 .. 3 : a <= prices[k] /\ prices[k] <= b
  PROVE  /\ meanE6(prices) \in Nat
         /\ PriceScale * a <= meanE6(prices) /\ meanE6(prices) <= PriceScale * b
<1> DEFINE s == PriceScale
           t == prices[1] + prices[2] + prices[3]
           n == s * t
<1>1. s \in Nat /\ t \in Nat /\ a * 3 <= t /\ t <= b * 3
  BY LimitNat
<1>2. s * a \in Nat /\ s * b \in Nat /\ n \in Nat
  BY <1>1
<1>3. (s * a) * 3 <= n /\ n <= (s * b) * 3
  <2> HIDE DEF s, t
  <2>1. s * (a * 3) <= s * t /\ s * t <= s * (b * 3)
    BY <1>1
  <2>2. s * (a * 3) = (s * a) * 3 /\ s * (b * 3) = (s * b) * 3
    BY <1>1
  <2> QED BY <2>1, <2>2
<1>4. Total(prices) = t /\ Len(prices) = 3
  <2> HIDE DEF s, n
  <2>1. prices = [k \in 1 .. 3 |-> prices[k]]
    OBVIOUS
  <2>2. Len([k \in 1 .. 3 |-> prices[k]]) = 3
    OBVIOUS
  <2> QED BY <2>1, <2>2 DEF Total
<1> HIDE DEF s, t, n
<1>5. RoundDiv(n, 3) \in Nat /\ s * a <= RoundDiv(n, 3) /\ RoundDiv(n, 3) <= s * b
  BY <1>2, <1>3, RoundBetween
<1> QED BY <1>4, <1>5 DEF meanE6, s, n

(* Among prices that are pairwise near, the mean is near each of them. *)
LEMMA TwoNear ==
  ASSUME NEW c, GoodList(c), NEW i \in DOMAIN c, NEW j \in DOMAIN c,
         Near(c[i].price, c[j].price), NEW h \in {i, j}
  PROVE  Near(Post(c, <<i, j>>).priceE6, PriceScale * c[h].price)
<1> DEFINE prices == [k \in DOMAIN <<i, j>> |-> c[<<i, j>>[k]].price]
           x == c[i].price
           y == c[j].price
           z == c[h].price
<1>1. x \in Nat \ {0} /\ y \in Nat \ {0} /\ z \in {x, y}
  BY PriceOf
<1>2. DOMAIN <<i, j>> = 1 .. 2
  OBVIOUS
<1>3. prices \in [1 .. 2 -> {x, y}] /\ prices[1] = x /\ prices[2] = y
  BY <1>2
<1>4. Post(c, <<i, j>>).priceE6 = meanE6(prices)
  BY DEF Post
<1>5. Near(x, y) /\ Near(y, x) /\ Near(x, x) /\ Near(y, y)
  BY <1>1, NearItself, NearSymmetric
<1> HIDE DEF prices, x, y, z
<1>6. PriceScale * z \in Nat \ {0} /\ PriceScale * x \in Nat /\ PriceScale * y \in Nat
  BY <1>1, LimitNat
<1>7. Near(x, z) /\ Near(y, z)
  BY <1>1, <1>5
<1>8. Near(PriceScale * x, PriceScale * z) /\ Near(PriceScale * y, PriceScale * z)
  BY <1>1, <1>7, LimitNat, NearScaled
<1>9. CASE x <= y
  <2>1. meanE6(prices) \in Nat /\ PriceScale * x <= meanE6(prices)
        /\ meanE6(prices) <= PriceScale * y
    BY <1>1, <1>3, <1>9, MeanOfTwo
  <2>2. Near(meanE6(prices), PriceScale * z)
    BY <1>6, <1>8, <2>1, NearBetween
  <2> QED BY <1>4, <2>2 DEF z
<1>10. CASE y <= x
  <2>1. meanE6(prices) \in Nat /\ PriceScale * y <= meanE6(prices)
        /\ meanE6(prices) <= PriceScale * x
    BY <1>1, <1>3, <1>10, MeanOfTwo
  <2>2. Near(meanE6(prices), PriceScale * z)
    BY <1>6, <1>8, <2>1, NearBetween
  <2> QED BY <1>4, <2>2 DEF z
<1> QED BY <1>1, <1>9, <1>10

LEMMA AllNear ==
  ASSUME NEW c, GoodList(c), Len(c) = 3, NEW h \in DOMAIN c,
         \A i, j \in DOMAIN c : i # j => Near(c[i].price, c[j].price)
  PROVE  Near(Post(c, [k \in DOMAIN c |-> k]).priceE6, PriceScale * c[h].price)
<1> DEFINE used == [k \in DOMAIN c |-> k]
           prices == [k \in DOMAIN used |-> c[used[k]].price]
           z == c[h].price
<1>1. DOMAIN c = 1 .. 3 /\ \A k \in 1 .. 3 : c[k].price \in Nat \ {0}
  BY PriceOf
<1>2. prices \in [1 .. 3 -> Nat] /\ \A k \in 1 .. 3 : prices[k] = c[k].price
  BY <1>1
<1>3. Post(c, used).priceE6 = meanE6(prices)
  BY DEF Post
<1>4. z \in Nat \ {0} /\ h \in 1 .. 3
  BY <1>1
<1>5. \A k \in 1 .. 3 : Near(c[k].price, z)
  <2> SUFFICES ASSUME NEW k \in 1 .. 3 PROVE Near(c[k].price, z)
    OBVIOUS
  <2>1. CASE k = h
    BY <1>4, <2>1, NearItself
  <2>2. CASE k # h
    BY <1>1, <1>4, <2>2
  <2> QED BY <2>1, <2>2
<1> HIDE DEF used, prices, z
<1>6. \E l, u \in 1 .. 3 : \A k \in 1 .. 3 : prices[l] <= prices[k] /\ prices[k] <= prices[u]
  <2>1. \A k \in 1 .. 3 : prices[k] \in Nat
    BY <1>2
  <2>2. \E l \in 1 .. 3 : \A k \in 1 .. 3 : prices[l] <= prices[k]
    BY <2>1
  <2>3. \E u \in 1 .. 3 : \A k \in 1 .. 3 : prices[k] <= prices[u]
    BY <2>1
  <2> QED BY <2>2, <2>3
<1>7. PICK l, u \in 1 .. 3 : \A k \in 1 .. 3 : prices[l] <= prices[k] /\ prices[k] <= prices[u]
  BY <1>6
<1>8. /\ meanE6(prices) \in Nat
      /\ PriceScale * prices[l] <= meanE6(prices) /\ meanE6(prices) <= PriceScale * prices[u]
  <2>1. prices[l] \in Nat /\ prices[u] \in Nat
    BY <1>2
  <2> QED BY <1>2, <1>7, <2>1, MeanOfThree
<1>9. prices[l] \in Nat /\ prices[u] \in Nat /\ Near(prices[l], z) /\ Near(prices[u], z)
  BY <1>1, <1>2, <1>5
<1>10. Near(PriceScale * prices[l], PriceScale * z) /\ Near(PriceScale * prices[u], PriceScale * z)
  BY <1>4, <1>9, LimitNat, NearScaled
<1>11. PriceScale * z \in Nat \ {0} /\ PriceScale * prices[l] \in Nat
       /\ PriceScale * prices[u] \in Nat
  BY <1>4, <1>9, LimitNat
<1>12. Near(meanE6(prices), PriceScale * z)
  BY <1>8, <1>10, <1>11, NearBetween
<1> QED BY <1>3, <1>12 DEF used, z

-----------------------------------------------------------------------------
(* What decide answers when no gate is shut *)

LEMMA AgreeIsNear ==
  ASSUME NEW c, GoodList(c)
  PROVE  /\ AllAgree(c) <=> \A i, j \in DOMAIN c : i # j => Near(c[i].price, c[j].price)
         /\ Agreeing(c) # {} <=> \E i, j \in DOMAIN c : i # j /\ Near(c[i].price, c[j].price)
<1>1. \A i, j \in DOMAIN c : i < j =>
        /\ <<i, j>> \in Pairs(c)
        /\ Bps(c, <<i, j>>) <= AgreementBps <=> Near(c[i].price, c[j].price)
  BY PairNear
<1>2. \A i, j \in DOMAIN c : Near(c[i].price, c[j].price) <=> Near(c[j].price, c[i].price)
  BY PriceOf, NearSymmetric
<1>3. \A p \in Pairs(c) : \E i, j \in DOMAIN c : p = <<i, j>> /\ i < j
  BY DEF Pairs
<1>4. \A i, j \in DOMAIN c : i # j => i < j \/ j < i
  BY PriceOf DEF GoodList
<1>5. \A i, j \in DOMAIN c : i < j => i # j
  BY PriceOf DEF GoodList
<1>6. ASSUME AllAgree(c), NEW i \in DOMAIN c, NEW j \in DOMAIN c, i # j
      PROVE  Near(c[i].price, c[j].price)
  <2>1. CASE i < j
    BY <1>1, <1>6, <2>1 DEF AllAgree
  <2>2. CASE j < i
    BY <1>1, <1>2, <1>6, <2>2 DEF AllAgree
  <2> QED BY <1>4, <1>6, <2>1, <2>2
<1>7. ASSUME \A i, j \in DOMAIN c : i # j => Near(c[i].price, c[j].price), NEW p \in Pairs(c)
      PROVE  Bps(c, p) <= AgreementBps
  <2>1. PICK i, j \in DOMAIN c : p = <<i, j>> /\ i < j
    BY <1>3, <1>7
  <2>2. Near(c[i].price, c[j].price)
    BY <1>5, <1>7, <2>1
  <2> QED BY <1>1, <2>1, <2>2
<1>8. ASSUME NEW p \in Agreeing(c)
      PROVE  \E i, j \in DOMAIN c : i # j /\ Near(c[i].price, c[j].price)
  <2>1. p \in Pairs(c) /\ Bps(c, p) <= AgreementBps
    BY <1>8 DEF Agreeing
  <2>2. PICK i, j \in DOMAIN c : p = <<i, j>> /\ i < j
    BY <1>3, <2>1
  <2> QED BY <1>1, <1>5, <2>1, <2>2
<1>9. ASSUME NEW i \in DOMAIN c, NEW j \in DOMAIN c, i # j, Near(c[i].price, c[j].price)
      PROVE  Agreeing(c) # {}
  <2>1. CASE i < j
    <3>1. <<i, j>> \in Agreeing(c)
      BY <1>1, <1>9, <2>1 DEF Agreeing
    <3> QED BY <3>1
  <2>2. CASE j < i
    <3>1. <<j, i>> \in Agreeing(c)
      BY <1>1, <1>2, <1>9, <2>2 DEF Agreeing
    <3> QED BY <3>1
  <2> QED BY <1>4, <1>9, <2>1, <2>2
<1>10. AllAgree(c) <=> \A i, j \in DOMAIN c : i # j => Near(c[i].price, c[j].price)
  BY <1>6, <1>7 DEF AllAgree
<1>11. Agreeing(c) # {} <=> \E i, j \in DOMAIN c : i # j /\ Near(c[i].price, c[j].price)
  BY <1>8, <1>9
<1> QED BY <1>10, <1>11

LEMMA PostIsNotSkip ==
  ASSUME NEW c, NEW used
  PROVE  /\ Post(c, used).action = "post" /\ Post(c, used).used = used
         /\ Skip.action = "skip" /\ Post(c, used) # Skip
<1>1. Post(c, used).action = "post" /\ Post(c, used).used = used
  BY DEF Post
<1>2. Skip.action = "skip"
  BY DEF Skip
<1> QED BY <1>1, <1>2

LEMMA PostsWhenAgreed ==
  ASSUME NEW r \in Readings, NEW last, ~Gated(r, last)
  PROVE  decide(r, last).action = "post" <=>
           \/ Len(candidates(r)) = 1
           \/ \E i, j \in DOMAIN candidates(r) :
                i # j /\ Near(candidates(r)[i].price, candidates(r)[j].price)
<1> DEFINE c == candidates(r)
<1>1. GoodList(c)
  BY CandidatesGood
<1>2. decide(r, last) = IF AllAgree(c) THEN Post(c, [k \in DOMAIN c |-> k])
                        ELSE IF Len(c) = 3 /\ Agreeing(c) # {} THEN Post(c, agreeingPair(c))
                        ELSE Skip
  BY DEF decide
<1> HIDE DEF c
<1>3. decide(r, last).action = "post" <=> AllAgree(c) \/ (Len(c) = 3 /\ Agreeing(c) # {})
  BY <1>2, PostIsNotSkip
<1>4. DOMAIN c = 1 .. Len(c) /\ Len(c) \in 1 .. 3
  BY <1>1, PriceOf DEF GoodList
<1>5. CASE Len(c) = 1
  <2>1. \A i, j \in DOMAIN c : i = j
    BY <1>4, <1>5
  <2>2. AllAgree(c)
    BY <1>1, <2>1, AgreeIsNear
  <2> QED BY <1>3, <1>5, <2>2 DEF c
<1>6. CASE Len(c) = 2
  <2>1. DOMAIN c = {1, 2}
    BY <1>4, <1>6
  <2>2. Near(c[1].price, c[2].price) <=> Near(c[2].price, c[1].price)
    BY <1>1, <2>1, PriceOf, NearSymmetric
  <2>3. AllAgree(c) <=> Near(c[1].price, c[2].price)
    BY <1>1, <2>1, <2>2, AgreeIsNear
  <2>4. (\E i, j \in DOMAIN c : i # j /\ Near(c[i].price, c[j].price))
          <=> Near(c[1].price, c[2].price)
    BY <2>1, <2>2
  <2> QED BY <1>3, <1>6, <2>3, <2>4 DEF c
<1>7. CASE Len(c) = 3
  <2>1. 1 \in DOMAIN c /\ 2 \in DOMAIN c
    BY <1>4, <1>7
  <2>2. AllAgree(c) => Agreeing(c) # {}
    BY <1>1, <2>1, AgreeIsNear
  <2>3. Agreeing(c) # {} <=> \E i, j \in DOMAIN c : i # j /\ Near(c[i].price, c[j].price)
    BY <1>1, AgreeIsNear
  <2> QED BY <1>3, <1>7, <2>2, <2>3 DEF c
<1> QED BY <1>4, <1>5, <1>6, <1>7

LEMMA MeanNearOthers ==
  ASSUME NEW r \in Readings, NEW last,
         NEW d, d = decide(r, last), d.action = "post",
         NEW used, used = {d.used[k] : k \in DOMAIN d.used}, Cardinality(used) >= 2,
         NEW liar \in used
  PROVE  \E honest \in used \ {liar} : Near(d.priceE6, PriceScale * candidates(r)[honest].price)
<1> DEFINE c == candidates(r)
<1>1. ~Gated(r, last)
  BY PostIsNotSkip DEF decide
<1>2. GoodList(c)
  BY <1>1, CandidatesGood
<1>3. d = IF AllAgree(c) THEN Post(c, [k \in DOMAIN c |-> k])
          ELSE IF Len(c) = 3 /\ Agreeing(c) # {} THEN Post(c, agreeingPair(c))
          ELSE Skip
  BY <1>1 DEF decide
<1> SUFFICES \E honest \in used \ {liar} : Near(d.priceE6, PriceScale * c[honest].price)
  OBVIOUS
<1> HIDE DEF c
<1>4. DOMAIN c = 1 .. Len(c) /\ Len(c) \in 1 .. 3
  BY <1>2, PriceOf DEF GoodList
<1>5. CASE AllAgree(c)
  <2> DEFINE all == [k \in DOMAIN c |-> k]
  <2>1. d = Post(c, all) /\ d.used = all
    BY <1>3, <1>5, PostIsNotSkip
  <2>2. used = DOMAIN c
    <3>1. DOMAIN all = DOMAIN c /\ \A k \in DOMAIN c : all[k] = k
      OBVIOUS
    <3> HIDE DEF all
    <3> QED BY <2>1, <3>1
  <2>3. \A i, j \in DOMAIN c : i # j => Near(c[i].price, c[j].price)
    BY <1>2, <1>5, AgreeIsNear
  <2>4. CASE Len(c) = 1
    <3>1. used = {1}
      BY <1>4, <2>2, <2>4
    <3>2. Cardinality(used) = 1
      BY <3>1, FS_Singleton
    <3> QED BY <3>2
  <2>5. CASE Len(c) = 2
    <3>1. DOMAIN c = {1, 2} /\ all = <<1, 2>>
      BY <1>4, <2>5
    <3>2. \A h \in {1, 2} : Near(Post(c, <<1, 2>>).priceE6, PriceScale * c[h].price)
      BY <1>2, <2>3, <3>1, TwoNear
    <3>3. \E h \in {1, 2} : h # liar
      OBVIOUS
    <3> QED BY <2>1, <2>2, <3>1, <3>2, <3>3
  <2>6. CASE Len(c) = 3
    <3>1. \A h \in DOMAIN c : Near(Post(c, all).priceE6, PriceScale * c[h].price)
      BY <1>2, <2>3, <2>6, AllNear
    <3>2. \E h \in DOMAIN c : h # liar
      BY <1>4, <2>6
    <3> QED BY <2>1, <2>2, <3>1, <3>2
  <2> QED BY <1>4, <2>4, <2>5, <2>6
<1>6. CASE ~AllAgree(c)
  <2>1. Len(c) = 3 /\ Agreeing(c) # {} /\ d = Post(c, agreeingPair(c))
    BY <1>3, <1>6, PostIsNotSkip
  <2>2. PICK i, j \in DOMAIN c :
          i < j /\ agreeingPair(c) = <<i, j>> /\ Near(c[i].price, c[j].price)
    BY <1>2, <2>1, PairKept
  <2>3. d = Post(c, <<i, j>>) /\ d.used = <<i, j>>
    BY <2>1, <2>2, PostIsNotSkip
  <2>4. used = {i, j} /\ i # j
    BY <1>4, <2>2, <2>3
  <2>5. \A h \in {i, j} : Near(Post(c, <<i, j>>).priceE6, PriceScale * c[h].price)
    BY <1>2, <2>2, TwoNear
  <2> QED BY <2>3, <2>4, <2>5
<1> QED BY <1>5, <1>6

-----------------------------------------------------------------------------
(* A decision waiting to be posted *)

DecisionOf(q) ==
  /\ q.at \in {"sourced", "decided"} => q.reading \in Readings
  /\ q.at = "decided" => q.decision = decide(q.reading, q.last)
  /\ q.at = "confirming" =>
       /\ q.then \in {"recording", "demo point"}
       /\ q = [at |-> "confirming", tx |-> q.tx, price |-> q.price, then |-> q.then]

DecisionInv ==
  /\ DOMAIN req = Requests
  /\ \A r \in Requests : DecisionOf(req[r])

LEMMA IdleGood == DecisionOf(IdleReq)
BY DEF DecisionOf, IdleReq

LEMMA DecisionInit == Init => DecisionInv
<1> SUFFICES ASSUME Init PROVE DecisionInv
  OBVIOUS
<1>1. DOMAIN req = Requests /\ \A r \in Requests : req[r] = IdleReq
  BY DEF Init
<1> QED BY <1>1, IdleGood DEF DecisionInv

(* A request that moves on to a good state leaves all of them good. *)
LEMMA DecisionMoves ==
  ASSUME DecisionInv, NEW r \in Requests, NEW q, Goto(r, q), DecisionOf(q)
  PROVE  DecisionInv'
<1>1. req' = [req EXCEPT ![r] = q] /\ DOMAIN req = Requests
  BY DEF Goto, DecisionInv
<1>2. \A s \in Requests : req'[s] = IF s = r THEN q ELSE req[s]
  BY <1>1
<1>3. DOMAIN req' = Requests
  BY <1>1
<1>4. \A s \in Requests : DecisionOf(req[s])
  BY DEF DecisionInv
<1>5. \A s \in Requests : DecisionOf(req'[s])
  BY <1>2, <1>4
<1>6. DecisionInv' <=> /\ DOMAIN req' = Requests
                       /\ \A s \in Requests : DecisionOf(req'[s])
  BY DEF DecisionInv, DecisionOf
<1> QED BY <1>3, <1>5, <1>6

LEMMA DecisionStays ==
  ASSUME DecisionInv, UNCHANGED req
  PROVE  DecisionInv'
BY DEF DecisionInv, DecisionOf

(* States a decision plays no part in. *)
LEMMA ElsewhereGood ==
  ASSUME NEW q, q.at \notin {"sourced", "decided", "confirming"}
  PROVE  DecisionOf(q)
BY DEF DecisionOf

LEMMA SendingMoves ==
  ASSUME DecisionInv, NEW r \in Requests, NEW price, NEW source, NEW by,
         NEW then \in {"recording", "demo point"}, SendPrice(r, price, source, by, then)
  PROVE  DecisionInv'
<1> DEFINE q == [at |-> "confirming", tx |-> Len(txs) + 1, price |-> price, then |-> then]
<1>1. DecisionOf(q)
  BY DEF DecisionOf
<1>2. Goto(r, q)
  BY DEF SendPrice, GotoWith
<1> QED BY <1>1, <1>2, DecisionMoves

LEMMA SyncKept ==
  ASSUME DecisionInv, NEW r \in Requests, SyncStep(r)
  PROVE  DecisionInv'
<1>1. CASE Sync(r)
  <2>1. PICK reading \in Readings : Goto(r, [at |-> "sourced", reading |-> reading])
    BY <1>1 DEF Sync, GotoWith
  <2>2. DecisionOf([at |-> "sourced", reading |-> reading])
    BY DEF DecisionOf
  <2> QED BY <2>1, <2>2, DecisionMoves
<1>2. CASE ReadLastSource(r)
  <2>1. PICK last : Goto(r, [at |-> "decided", reading |-> req[r].reading, last |-> last,
                             decision |-> decide(req[r].reading, last)])
    BY <1>2 DEF ReadLastSource, GotoWith
  <2>2. req[r].reading \in Readings
    BY <1>2 DEF ReadLastSource, At, DecisionInv, DecisionOf
  <2>3. DecisionOf([at |-> "decided", reading |-> req[r].reading, last |-> last,
                    decision |-> decide(req[r].reading, last)])
    BY <2>2 DEF DecisionOf
  <2> QED BY <2>1, <2>3, DecisionMoves
<1>3. CASE PostDecision(r)
  <2>1. CASE req[r].decision = Skip
    BY <1>3, <2>1, IdleGood, DecisionMoves DEF PostDecision, GotoWith
  <2>2. CASE req[r].decision # Skip
    BY <1>3, <2>2, SendingMoves DEF PostDecision
  <2> QED BY <2>1, <2>2
<1>4. CASE recordHistory(r)
  BY <1>4, IdleGood, DecisionMoves DEF recordHistory
<1> QED BY <1>1, <1>2, <1>3, <1>4 DEF SyncStep

LEMMA ConfirmedKept ==
  ASSUME DecisionInv, NEW r \in Requests, Confirmed(r)
  PROVE  DecisionInv'
<1>1. CASE Goto(r, IdleReq)
  BY <1>1, IdleGood, DecisionMoves
<1>2. CASE Goto(r, Moved(r, req[r].then))
  <2> DEFINE q == req[r]
  <2>1. /\ q.then \in {"recording", "demo point"}
        /\ q = [at |-> "confirming", tx |-> q.tx, price |-> q.price, then |-> q.then]
    BY DEF Confirmed, At, DecisionInv, DecisionOf
  <2>2. Moved(r, req[r].then).at = req[r].then
    <3>1. Moved(r, q.then) = [q EXCEPT !.at = q.then]
      BY DEF Moved
    <3> HIDE DEF q
    <3>2. [q EXCEPT !.at = q.then].at = q.then
      BY <2>1
    <3> QED BY <3>1, <3>2 DEF q
  <2> QED BY <1>2, <2>1, <2>2, ElsewhereGood, DecisionMoves
<1> QED BY <1>1, <1>2 DEF Confirmed, GotoWith

LEMMA AdminKept ==
  ASSUME DecisionInv, NEW r \in Requests, AdminStep(r)
  PROVE  DecisionInv'
<1>1. ASSUME NEW action, Refuse(r, action) PROVE DecisionInv'
  <2>1. DecisionOf([at |-> "denied", action |-> action])
    BY DEF DecisionOf
  <2> QED BY <1>1, <2>1, DecisionMoves DEF Refuse, GotoWith
<1>2. ASSUME NEW price, NEW source, AdminPost(r, price, source) PROVE DecisionInv'
  BY <1>2, SendingMoves DEF AdminPost
<1>3. CASE Crash(r) \/ Restore(r)
  BY <1>1, <1>2, <1>3 DEF Crash, Restore
<1>4. CASE AnswerRefused(r) \/ AddDemoPoint(r)
  BY <1>4, IdleGood, DecisionMoves DEF AnswerRefused, AddDemoPoint, GotoWith
<1>5. CASE \E price \in Typed : PostTyped(r, price, "demo") \/ PostTyped(r, price, "market")
  BY <1>2, <1>5 DEF PostTyped
<1> QED BY <1>3, <1>4, <1>5 DEF AdminStep

LEMMA HistoryKept ==
  ASSUME DecisionInv, NEW r \in Requests, HistoryStep(r)
  PROVE  DecisionInv'
<1>1. CASE ReadCached(r)
  <2>1. PICK q : Goto(r, q) /\ q.at \in {"answering", "loading"}
    BY <1>1 DEF ReadCached, GotoWith
  <2> QED BY <2>1, ElsewhereGood, DecisionMoves
<1>2. CASE ReadPoints(r)
  <2>1. PICK q : Goto(r, q) /\ q.at = "fetching"
    BY <1>2 DEF ReadPoints, GotoWith
  <2> QED BY <2>1, ElsewhereGood, DecisionMoves
<1>3. CASE Compose(r)
  <2>1. PICK q : Goto(r, q) /\ q.at = "answering"
    BY <1>3 DEF Compose
  <2> QED BY <2>1, ElsewhereGood, DecisionMoves
<1>4. CASE AnswerHistory(r)
  BY <1>4, IdleGood, DecisionMoves DEF AnswerHistory, GotoWith
<1> QED BY <1>1, <1>2, <1>3, <1>4 DEF HistoryStep

LEMMA DecisionStep == DecisionInv /\ [Next]_vars => DecisionInv'
<1> SUFFICES ASSUME DecisionInv, [Next]_vars PROVE DecisionInv'
  OBVIOUS
<1>1. ASSUME NEW r \in Requests,
             SyncStep(r) \/ Confirmed(r) \/ AdminStep(r) \/ HistoryStep(r)
      PROVE  DecisionInv'
  BY <1>1, SyncKept, ConfirmedKept, AdminKept, HistoryKept
<1>2. ASSUME NEW r \in Requests, StoreActs(r) PROVE DecisionInv'
  BY <1>2, DecisionStays DEF StoreActs
<1>3. CASE PageRefetches \/ Tick \/ \E i \in DOMAIN txs : Execute(i)
  BY <1>3, DecisionStays DEF PageRefetches, Tick, Execute
<1>4. CASE UNCHANGED vars
  BY <1>4, DecisionStays DEF vars
<1> QED BY <1>1, <1>2, <1>3, <1>4 DEF Next

LEMMA DecisionInvariant == Spec => []DecisionInv
BY DecisionInit, DecisionStep, PTL DEF Spec

(* No single source moves the collateral price: whichever of two or more used *)
(* sources lies, the price decide answers is within AGREEMENT_BPS, as spreadBps *)
(* rounds it, of another source it used.                                       *)
THEOREM OneLiarAlwaysBounded ==
  Spec => []OneLiarBounded
<1>1. DecisionInv => OneLiarBounded
  <2> SUFFICES ASSUME DecisionInv, NEW r \in Posting, Cardinality(Used(r)) >= 2,
                      NEW liar \in Used(r)
               PROVE  \E honest \in Used(r) \ {liar} :
                        Near(req[r].decision.priceE6, PriceScale * Usable(r)[honest].price)
    BY DEF OneLiarBounded
  <2>1. /\ req[r].reading \in Readings /\ req[r].decision.action = "post"
        /\ req[r].decision = decide(req[r].reading, req[r].last)
    BY DEF Posting, Deciding, DecisionInv, DecisionOf
  <2>2. Used(r) = {req[r].decision.used[k] : k \in DOMAIN req[r].decision.used}
    BY DEF Used
  <2> QED BY <2>1, <2>2, MeanNearOthers DEF Usable
<1> QED BY <1>1, DecisionInvariant, PTL

(* The signer does not go dark without a reason: with no gate shut it posts    *)
(* exactly when one source is all there is, be it Pyth, or two of them agree.  *)
THEOREM PostsExactlyWhenAgreed ==
  Spec => []PostsWhenTwoAgree
<1>1. DecisionInv => PostsWhenTwoAgree
  <2> SUFFICES ASSUME DecisionInv, NEW r \in Deciding, ~Gated(req[r].reading, req[r].last)
               PROVE  r \in Posting <=>
                        \/ Len(Usable(r)) = 1
                        \/ \E i, j \in DOMAIN Usable(r) :
                             i # j /\ Near(Usable(r)[i].price, Usable(r)[j].price)
    BY DEF PostsWhenTwoAgree
  <2>1. /\ req[r].reading \in Readings
        /\ req[r].decision = decide(req[r].reading, req[r].last)
    BY DEF Deciding, DecisionInv, DecisionOf
  <2>2. r \in Posting <=> req[r].decision.action = "post"
    BY DEF Posting
  <2> QED BY <2>1, <2>2, PostsWhenAgreed DEF Usable
<1> QED BY <1>1, DecisionInvariant, PTL

(* Whatever the sources answer, one that lies cannot move the price, and the    *)
(* signer is silent only with a reason; a price of Pyth alone is not excluded.  *)
THEOREM DecisionsAlwaysHold == Spec => []DecisionsHold
BY OneLiarAlwaysBounded, PostsExactlyWhenAgreed, PTL DEF DecisionsHold

-----------------------------------------------------------------------------
(* The sources (PriceSources, PythFeeds): whatever the services answer, what the  *)
(* signer reads of them is sound.                                              *)

CONSTANTS Provider, Stocks, Signed, Rows, Quotes, Liquidity, Ages, Flags, Changing, Down,
          Ids, Override, FeedTtl, HoursTtl, Fails, None
VARIABLES partner, issuer, backpack, jupiter, pyth, posted,
          hermes, feedCache, hoursCache, lookups

Sources == INSTANCE PriceSources
Feeds   == INSTANCE PythFeeds WITH req <- lookups

Row == [mark : Nat, token : Nat]

(* What the services can have answered.  Pyth is asked of stocks only. *)
SourcesInv ==
  /\ partner = [p \in Sources!Providers |-> partner[p]]
  /\ \A p \in Sources!Providers :
       partner[p] = Down \/ partner[p] \in [Sources!Owned(p) -> Row]
  /\ issuer = [s \in Stocks |-> issuer[s]] /\ \A s \in Stocks : issuer[s].price \in Nat
  /\ backpack \in Nat
  /\ jupiter = [s \in Signed |-> jupiter[s]]
  /\ \A s \in Signed : jupiter[s].price \in Nat
  /\ pyth = [s \in Signed |-> pyth[s]]
  /\ \A s \in Signed :
       /\ pyth[s].price \in Nat
       /\ s \notin Stocks => pyth[s].price = 0 /\ pyth[s].open = Unknown

LEMMA SourcesInit ==
  ASSUME Sources!SourcesAssumption, Sources!Init
  PROVE  SourcesInv
BY DEF Sources!Init, SourcesInv

LEMMA SourcesStep ==
  ASSUME Sources!SourcesAssumption, SourcesInv, [Sources!Next]_(Sources!vars)
  PROVE  SourcesInv'
<1> USE DEF SourcesInv
<1>1. CASE Sources!Sync \/ UNCHANGED Sources!vars
  BY <1>1 DEF Sources!Sync, Sources!vars, Sources!source_vars
<1>2. ASSUME NEW p \in Sources!Providers, Sources!PartnerChanges(p) PROVE SourcesInv'
  <2>1. PICK a \in [Sources!Owned(p) -> Rows[p]] \cup {Down} :
          partner' = [partner EXCEPT ![p] = a]
    BY <1>2 DEF Sources!PartnerChanges
  <2>2. a = Down \/ a \in [Sources!Owned(p) -> Row]
    BY <2>1 DEF Sources!SourcesAssumption, Row
  <2>3. UNCHANGED <<issuer, backpack, jupiter, pyth>>
    BY <1>2 DEF Sources!PartnerChanges
  <2>4. /\ partner' = [w \in Sources!Providers |-> partner'[w]]
        /\ \A w \in Sources!Providers : partner'[w] = IF w = p THEN a ELSE partner[w]
    BY <2>1
  <2>5. \A w \in Sources!Providers :
          partner'[w] = Down \/ partner'[w] \in [Sources!Owned(w) -> Row]
    BY <2>2, <2>4
  <2> QED BY <2>3, <2>4, <2>5 DEF Sources!Owned, Sources!PreIpo, Sources!Providers
<1>3. ASSUME NEW s \in Stocks, Sources!IssuerChanges(s) PROVE SourcesInv'
  <2>1. PICK a \in Sources!Answers : issuer' = [issuer EXCEPT ![s] = a]
    BY <1>3 DEF Sources!IssuerChanges
  <2>2. a.price \in Nat
    BY <2>1 DEF Sources!Answers, Sources!SourcesAssumption
  <2>3. UNCHANGED <<partner, backpack, jupiter, pyth>>
    BY <1>3 DEF Sources!IssuerChanges
  <2>4. /\ issuer' = [w \in Stocks |-> issuer'[w]]
        /\ \A w \in Stocks : issuer'[w] = IF w = s THEN a ELSE issuer[w]
    BY <2>1
  <2> QED BY <2>2, <2>3, <2>4 DEF Sources!Owned, Sources!PreIpo, Sources!Providers
<1>4. CASE Sources!BackpackChanges
  BY <1>4 DEF Sources!BackpackChanges, Sources!SourcesAssumption
<1>5. ASSUME NEW s \in Signed, Sources!JupiterChanges(s) PROVE SourcesInv'
  <2>1. PICK q \in Quotes, l \in Liquidity, a \in Ages :
          jupiter' = [jupiter EXCEPT ![s] = [price |-> q, liquidity |-> l, stockAge |-> a]]
    BY <1>5 DEF Sources!JupiterChanges
  <2>2. q \in Nat
    BY <2>1 DEF Sources!SourcesAssumption
  <2>3. UNCHANGED <<partner, issuer, backpack, pyth>>
    BY <1>5 DEF Sources!JupiterChanges
  <2>4. /\ jupiter' = [w \in Signed |-> jupiter'[w]]
        /\ \A w \in Signed : jupiter'[w].price = IF w = s THEN q ELSE jupiter[w].price
    BY <2>1
  <2> QED BY <2>2, <2>3, <2>4
<1>6. ASSUME NEW s \in Stocks, Sources!PythChanges(s) PROVE SourcesInv'
  <2>1. PICK y : pyth' = [pyth EXCEPT ![s] = y] /\ y.price \in Quotes
    <3>1. PICK q \in Quotes, o \in Flags :
            pyth' = [pyth EXCEPT ![s] = [price |-> q, open |-> o]]
      BY <1>6 DEF Sources!PythChanges
    <3> DEFINE y == [price |-> q, open |-> o]
    <3>2. y.price \in Quotes
      OBVIOUS
    <3>3. pyth' = [pyth EXCEPT ![s] = y]
      BY <3>1
    <3> HIDE DEF y
    <3> QED BY <3>2, <3>3
  <2>2. y.price \in Nat
    BY <2>1 DEF Sources!SourcesAssumption
  <2>3. UNCHANGED <<partner, issuer, backpack, jupiter>>
    BY <1>6 DEF Sources!PythChanges
  <2>4. /\ pyth' = [w \in Signed |-> pyth'[w]]
        /\ \A w \in Signed : w # s => pyth'[w] = pyth[w]
        /\ pyth'[s] = y /\ s \in Signed
    BY <2>1 DEF Sources!SourcesAssumption
  <2>5. \A w \in Signed :
          /\ pyth'[w].price \in Nat
          /\ w \notin Stocks => pyth'[w].price = 0 /\ pyth'[w].open = Unknown
    <3> SUFFICES ASSUME NEW w \in Signed
                 PROVE  /\ pyth'[w].price \in Nat
                        /\ w \notin Stocks => pyth'[w].price = 0 /\ pyth'[w].open = Unknown
      OBVIOUS
    <3>1. CASE w = s
      BY <2>1, <2>2, <2>4, <3>1
    <3>2. CASE w # s
      BY <2>4, <3>2
    <3> QED BY <3>1, <3>2
  <2> QED BY <2>3, <2>4, <2>5
<1> QED BY <1>1, <1>2, <1>3, <1>4, <1>5, <1>6 DEF Sources!Next

(* A pre-IPO symbol: the lower of the two prices its provider publishes. *)

LEMMA LeastOf ==
  ASSUME NEW S, S \subseteq Nat, S # {}, NEW a, NEW b, S \subseteq {a, b}
  PROVE  Sources!Min(S) \in S /\ \A y \in S : Sources!Min(S) <= y
<1>1. \E x \in S : \A y \in S : x <= y
  <2>1. CASE a \in S /\ b \in S
    <3>1. a \in Nat /\ b \in Nat
      BY <2>1
    <3> QED BY <2>1, <3>1
  <2>2. CASE ~(a \in S /\ b \in S)
    <3>1. PICK x \in S : S = {x}
      BY <2>2
    <3> QED BY <3>1
  <2> QED BY <2>1, <2>2
<1> QED BY <1>1 DEF Sources!Min

LEMMA PreIpoRead ==
  ASSUME Sources!SourcesAssumption, SourcesInv, NEW s \in Sources!PreIpo
  PROVE  LET P == Sources!Published(s)
             r == Sources!readSource(s)
         IN  /\ P # {} => Sources!Min(P) \in Nat \ {0} /\ r.primary = Sources!Min(P)
             /\ P = {} => r.primary = 0
             /\ r.jupiter = jupiter[s].price /\ r.pyth = pyth[s].price
<1> DEFINE p == Provider[s]
           mark == partner[p][s].mark
           token == partner[p][s].token
<1>1. p \in Sources!Providers /\ s \in Sources!Owned(p) /\ s \in Signed /\ s # "SPCX"
  BY DEF Sources!SourcesAssumption, Sources!Owned
<1>2. Sources!Published(s) = IF partner[p] # Down THEN {mark, token} \ {0} ELSE {}
  BY DEF Sources!Published
<1>3. partner[p] # Down => /\ DOMAIN partner[p] = Sources!Owned(p)
                           /\ mark \in Nat /\ token \in Nat
  BY <1>1 DEF SourcesInv, Row
<1> HIDE DEF p, mark, token
<1>4. /\ Sources!Listed(s) <=> s \in DOMAIN Sources!Caught(p)
      /\ s \in DOMAIN Sources!readPreIpo <=> Sources!Listed(s)
      /\ Sources!Listed(s) => Sources!readPreIpo[s] = Sources!Caught(p)[s]
  BY <1>1 DEF Sources!Listed, Sources!readPreIpo, p
<1>5. CASE partner[p] = Down
  <2>1. Sources!Caught(p) = Sources!Nothing /\ DOMAIN Sources!Nothing = {}
    BY <1>5 DEF Sources!Caught, Sources!Nothing
  <2> QED BY <1>1, <1>2, <1>4, <1>5, <2>1 DEF Sources!readSource, Sources!Reading
<1>6. CASE partner[p] # Down
  <2> DEFINE usable == {n \in {mark, token} : n > 0}
  <2>1. usable = Sources!Published(s) /\ usable \subseteq Nat
    BY <1>2, <1>3, <1>6
  <2>2. Sources!conservativePrice(mark, token)
          = IF usable = {} THEN None ELSE Sources!Min(usable)
    BY DEF Sources!conservativePrice
  <2>3. usable # {} => Sources!Min(usable) \in usable
    BY <2>1, LeastOf
  <2>4. Sources!conservativePrice(mark, token) # None <=> usable # {}
    BY <2>1, <2>2, <2>3 DEF Sources!SourcesAssumption
  <2> HIDE DEF usable
  <2>5. /\ s \in DOMAIN Sources!Fetch(p) <=> Sources!conservativePrice(mark, token) # None
        /\ s \in DOMAIN Sources!Fetch(p) =>
             Sources!Fetch(p)[s] = Sources!conservativePrice(mark, token)
    BY <1>1, <1>3, <1>6 DEF Sources!Fetch, mark, token
  <2>6. Sources!Caught(p) = Sources!Fetch(p)
    BY <1>6 DEF Sources!Caught
  <2>7. CASE usable # {}
    <3>1. Sources!readSource(s) = Sources!Reading(s, Sources!Min(usable), Unknown, FALSE)
      BY <1>4, <2>2, <2>4, <2>5, <2>6, <2>7 DEF Sources!readSource
    <3>2. Sources!Min(usable) \in Nat \ {0}
      BY <1>2, <1>3, <1>6, <2>1, <2>3, <2>7
    <3> QED BY <2>1, <2>7, <3>1, <3>2 DEF Sources!Reading
  <2>8. CASE usable = {}
    <3>1. Sources!readSource(s) = Sources!Reading(s, 0, Unknown, FALSE)
      <4>1. pyth[s].open = Unknown
        BY <1>1 DEF SourcesInv, Sources!SourcesAssumption
      <4> QED BY <1>1, <1>4, <2>4, <2>5, <2>6, <2>8, <4>1 DEF Sources!readSource
    <3> QED BY <2>1, <2>8, <3>1 DEF Sources!Reading
  <2> QED BY <2>7, <2>8
<1> QED BY <1>5, <1>6

(* Nothing but Jupiter: nothing is posted. *)
LEMMA DecidedHasSource ==
  ASSUME NEW r, NEW last, Sources!decide(r, last) # Sources!Skip, r.pyth = 0
  PROVE  r.primary # 0
BY DEF Sources!decide, Sources!Gated, Sources!Closed, Sources!usablePyth

(* The decision on a primary price without Pyth's: that price, or its mean with    *)
(* Jupiter's when the two agree.                                              *)
LEMMA DecidedOfTwo ==
  ASSUME NEW m \in Nat \ {0}, NEW r, r.primary = m, r.jupiter \in Nat, r.pyth = 0,
         NEW last, Sources!decide(r, last) # Sources!Skip
  PROVE  LET price == Sources!decide(r, last).priceE6
         IN  \/ price = RoundDiv(PriceScale * m, 1)
             \/ /\ r.jupiter > 0 /\ spreadBps(m, r.jupiter) <= AgreementBps
                /\ price = RoundDiv(PriceScale * (m + r.jupiter), 2)
<1> DEFINE c == Sources!candidates(r)
           first == [name |-> "primary", price |-> m]
           second == [name |-> "jupiter", price |-> r.jupiter]
           prices == [k \in DOMAIN c |-> c[[i \in DOMAIN c |-> i][k]].price]
<1>1. /\ Sources!One(r.primary > 0, "primary", r.primary) = <<first>>
      /\ Sources!One(Sources!usablePyth(r), "pyth", r.pyth) = <<>>
      /\ Sources!One(Sources!jupiterUsable(r), "jupiter", r.jupiter)
           = IF Sources!jupiterUsable(r) THEN <<second>> ELSE <<>>
      /\ Sources!jupiterUsable(r) => r.jupiter > 0
  BY DEF Sources!One, Sources!usablePyth, Sources!jupiterUsable
<1>2. /\ Len(c) = IF Sources!jupiterUsable(r) THEN 2 ELSE 1
      /\ DOMAIN c = 1 .. Len(c) /\ c[1] = first
      /\ (Sources!jupiterUsable(r) => c[2] = second)
  <2> DEFINE x == IF Sources!jupiterUsable(r) THEN <<second>> ELSE <<>>
             T == {first, second}
  <2>1. c = (<<first>> \o x) \o <<>>
    BY <1>1 DEF Sources!candidates
  <2> HIDE DEF first, second, c
  <2>2. /\ x \in Seq(T) /\ Len(x) = (IF Sources!jupiterUsable(r) THEN 1 ELSE 0)
        /\ (Sources!jupiterUsable(r) => x[1] = second)
    <3>1. CASE Sources!jupiterUsable(r)
      BY <3>1
    <3>2. CASE ~Sources!jupiterUsable(r)
      BY <3>2
    <3> QED BY <3>1, <3>2
  <2>3. <<first>> \in Seq(T) /\ Len(<<first>>) = 1 /\ <<first>>[1] = first
        /\ <<>> \in Seq(T) /\ Len(<<>>) = 0
    OBVIOUS
  <2> HIDE DEF x, T
  <2>4. /\ <<first>> \o x \in Seq(T) /\ Len(<<first>> \o x) = 1 + Len(x)
        /\ \A i \in 1 .. 1 + Len(x) :
             (<<first>> \o x)[i] = IF i <= 1 THEN <<first>>[i] ELSE x[i - 1]
    BY ONLY <2>2, <2>3, ConcatProperties
  <2>5. c = <<first>> \o x
    BY <2>1, <2>4, ConcatEmptySeq
  <2>6. Len(c) = 1 + Len(x) /\ Len(x) \in {0, 1} /\ DOMAIN c = 1 .. Len(c)
    BY <2>2, <2>4, <2>5, LenProperties
  <2>7. c[1] = first /\ (Len(x) = 1 => c[2] = x[1])
    BY <2>3, <2>4, <2>5, <2>6
  <2> QED BY <2>2, <2>6, <2>7
<1> HIDE DEF c
<1>3. Len(c) # 3 /\ (Sources!AllAgree(c) \/ Sources!decide(r, last) = Sources!Skip)
  <2>1. Len(c) # 3
    BY <1>2
  <2> QED BY <2>1 DEF Sources!decide, c
<1>4. /\ Sources!AllAgree(c)
      /\ Sources!decide(r, last) = Sources!Post(c, [k \in DOMAIN c |-> k])
  BY <1>3 DEF Sources!decide, c
<1>5. Sources!decide(r, last).priceE6 = Sources!meanE6(prices)
  BY <1>4 DEF Sources!Post
<1>6. CASE ~Sources!jupiterUsable(r)
  <2>1. DOMAIN c = 1 .. 1 /\ c[1].price = m
    BY <1>2, <1>6
  <2>2. prices = <<m>>
    BY <2>1
  <2>3. Sources!Total(<<m>>) = m /\ Len(<<m>>) = 1
    BY DEF Sources!Total
  <2> QED BY <1>5, <2>2, <2>3 DEF Sources!meanE6, Sources!RoundDiv, RoundDiv
<1>7. CASE Sources!jupiterUsable(r)
  <2>1. DOMAIN c = 1 .. 2 /\ c[1].price = m /\ c[2].price = r.jupiter
    BY <1>2, <1>7
  <2>2. prices = <<m, r.jupiter>>
    BY <2>1
  <2>3. Sources!Total(<<m, r.jupiter>>) = m + r.jupiter /\ Len(<<m, r.jupiter>>) = 2
    BY DEF Sources!Total
  <2>4. <<1, 2>> \in Sources!Pairs(c)
    BY <2>1 DEF Sources!Pairs
  <2>5. spreadBps(m, r.jupiter) <= AgreementBps
    BY <1>4, <2>1, <2>4 DEF Sources!AllAgree, Sources!Bps, Sources!spreadBps,
       Sources!RoundDiv, Sources!Apart, spreadBps, RoundDiv, Apart
  <2> QED BY <1>1, <1>5, <1>7, <2>2, <2>3, <2>5 DEF Sources!meanE6, Sources!RoundDiv, RoundDiv
<1> QED BY <1>6, <1>7

LEMMA HalfOf ==
  ASSUME NEW n \in Nat \ {0}
  PROVE  /\ RoundDiv(n, 1) = n
         /\ RoundDiv(n, 2) \in Nat \ {0} /\ 2 * RoundDiv(n, 2) <= n + 1
BY DEF RoundDiv

(* Of a price and one that agrees with it, the sum is bounded by the price; so is   *)
(* their mean.                                                                *)
LEMMA MeanIsBounded ==
  ASSUME NEW m \in Nat \ {0}, NEW j \in Nat, NEW price \in Nat \ {0},
         2 * price <= PriceScale * (m + j) + 1,
         j <= m \/ 40000 * Apart(m, j) < (2 * AgreementBps + 1) * (m + j)
  PROVE  (2 * price - 1) * (40000 - (2 * AgreementBps + 1)) <= 80000 * PriceScale * m
<1> DEFINE k == 2 * AgreementBps + 1
           d == 40000 - k
           s == PriceScale
           n == s * (m + j)
<1>1. /\ k \in Nat /\ k > 0 /\ d \in Int /\ d = 40000 - k
      /\ s \in Nat \ {0} /\ n \in Nat /\ n = s * (m + j)
      /\ 2 * price <= n + 1 /\ (j <= m \/ 40000 * Apart(m, j) < k * (m + j))
  BY LimitNat
<1> HIDE DEF k, d, s, n
<1>2. (m + j) * d <= 80000 * m
  <2> DEFINE t == k * (m + j)
  <2>1. (m + j) * d = 40000 * (m + j) - t /\ t \in Nat
    BY <1>1
  <2>2. CASE j <= m
    <3> HIDE DEF t
    <3> QED BY <2>1, <2>2
  <2>3. CASE j > m
    <3>1. 40000 * (j - m) < t
      BY <1>1, <2>3 DEF Apart
    <3> HIDE DEF t
    <3> QED BY <2>1, <2>3, <3>1
  <2> QED BY <2>2, <2>3
<1>3. 2 * price - 1 <= n /\ 2 * price - 1 \in Nat
  BY <1>1
<1>4. (2 * price - 1) * d <= s * (80000 * m) /\ s * (80000 * m) \in Nat
  <2>0. s * (80000 * m) \in Nat
    BY <1>1
  <2>1. CASE d <= 0
    <3>1. (2 * price - 1) * d <= 0
      BY <1>1, <1>3, <2>1
    <3> QED BY <1>1, <1>3, <2>0, <3>1
  <2>2. CASE d > 0
    <3>1. (2 * price - 1) * d <= n * d
      BY <1>1, <1>3, <2>2
    <3>2. n * d = s * ((m + j) * d)
      BY <1>1
    <3>3. s * ((m + j) * d) <= s * (80000 * m)
      BY <1>1, <1>2
    <3> QED BY <1>1, <1>3, <2>0, <3>1, <3>2, <3>3
  <2> QED BY <1>1, <2>1, <2>2
<1>5. s * (80000 * m) = 80000 * s * m
  BY <1>1
<1> QED BY <1>4, <1>5 DEF k, d, s

LEMMA PremiumBounded ==
  ASSUME Sources!SourcesAssumption, SourcesInv
  PROVE  Sources!PremiumIsBounded
<1> SUFFICES ASSUME NEW s \in Sources!PreIpo, Sources!Decision(s) # Sources!Skip
             PROVE  LET d == Sources!Decision(s)
                        P == Sources!Published(s)
                    IN  /\ P # {}
                        /\ (2 * d.priceE6 - 1) * (40000 - (2 * AgreementBps + 1))
                             <= 80000 * PriceScale * Sources!Min(P)
  BY DEF Sources!PremiumIsBounded
<1> DEFINE r == Sources!readSource(s)
           m == Sources!Min(Sources!Published(s))
           j == jupiter[s].price
           d == Sources!decide(r, "market")
<1>1. s \in Signed /\ s \notin Stocks /\ j \in Nat /\ pyth[s].price = 0
  BY DEF Sources!SourcesAssumption, SourcesInv
<1>2. r.jupiter = j /\ r.pyth = 0
  BY <1>1, PreIpoRead
<1>3. d = Sources!Decision(s) /\ d # Sources!Skip
  BY DEF Sources!Decision
<1>4. Sources!Published(s) # {}
  BY <1>2, <1>3, DecidedHasSource, PreIpoRead
<1>5. m \in Nat \ {0} /\ r.primary = m
  BY <1>4, PreIpoRead
<1> HIDE DEF r, m, j, d
<1>6. \/ d.priceE6 = RoundDiv(PriceScale * m, 1)
      \/ /\ j > 0 /\ spreadBps(m, j) <= AgreementBps
         /\ d.priceE6 = RoundDiv(PriceScale * (m + j), 2)
  <2> DEFINE last == "market"
  <2>1. r.jupiter \in Nat /\ Sources!decide(r, last) # Sources!Skip
    BY <1>1, <1>2, <1>3 DEF d
  <2> HIDE DEF last
  <2>2. \/ Sources!decide(r, last).priceE6 = RoundDiv(PriceScale * m, 1)
        \/ /\ r.jupiter > 0 /\ spreadBps(m, r.jupiter) <= AgreementBps
           /\ Sources!decide(r, last).priceE6 = RoundDiv(PriceScale * (m + r.jupiter), 2)
    BY <1>2, <1>5, <2>1, DecidedOfTwo
  <2> QED BY <1>2, <2>2 DEF d, last
<1>7. (2 * d.priceE6 - 1) * (40000 - (2 * AgreementBps + 1)) <= 80000 * PriceScale * m
  <2>1. PriceScale * m \in Nat \ {0} /\ PriceScale * (m + 0) = PriceScale * m
        /\ PriceScale * (m + j) \in Nat \ {0}
    BY <1>1, <1>5, LimitNat
  <2>2. CASE d.priceE6 = RoundDiv(PriceScale * m, 1)
    <3>1. d.priceE6 = PriceScale * m
      BY <2>1, <2>2, HalfOf
    <3>2. 2 * d.priceE6 <= PriceScale * (m + m) + 1 /\ d.priceE6 \in Nat \ {0}
      BY <1>5, <2>1, <3>1, LimitNat
    <3> QED BY <1>5, <3>2, MeanIsBounded
  <2>3. CASE /\ j > 0 /\ spreadBps(m, j) <= AgreementBps
             /\ d.priceE6 = RoundDiv(PriceScale * (m + j), 2)
    <3>1. 40000 * Apart(m, j) < (2 * AgreementBps + 1) * (m + j)
      <4>1. m \in Nat \ {0} /\ j \in Nat \ {0}
        BY <1>1, <1>5, <2>3
      <4>2. Near(m, j)
        BY <2>3, <4>1, SpreadIsNear
      <4> QED BY <4>2 DEF Near
    <3>2. d.priceE6 \in Nat \ {0} /\ 2 * d.priceE6 <= PriceScale * (m + j) + 1
      BY <2>1, <2>3, HalfOf
    <3> QED BY <1>1, <1>5, <3>1, <3>2, MeanIsBounded
  <2> QED BY <1>6, <2>2, <2>3
<1> QED BY <1>3, <1>4, <1>7 DEF m

LEMMA JupiterAlone ==
  ASSUME Sources!SourcesAssumption, SourcesInv
  PROVE  Sources!JupiterNotAlone
<1> SUFFICES ASSUME NEW s \in Signed, pyth[s].price = 0, Sources!Decision(s) # Sources!Skip
             PROVE  CASE s \in Sources!PreIpo -> Sources!Published(s) # {}
                      [] s \in Stocks -> issuer[s].price > 0
                      [] OTHER -> backpack > 0
  BY DEF Sources!JupiterNotAlone
<1> DEFINE r == Sources!readSource(s)
<1>1. Sources!decide(r, "market") # Sources!Skip
  BY DEF Sources!Decision
<1>2. r.pyth = pyth[s].price
  BY DEF Sources!readSource, Sources!Reading
<1>3. r.primary # 0
  BY <1>1, <1>2, DecidedHasSource
<1>4. ~(s \in Sources!PreIpo /\ s \in Stocks) /\ (s \in Stocks => s # "SPCX")
      /\ (s \notin Sources!PreIpo /\ s \notin Stocks => s = "SPCX")
  BY DEF Sources!SourcesAssumption
<1>5. CASE s \in Sources!PreIpo
  BY <1>3, <1>4, <1>5, PreIpoRead
<1>6. CASE s \notin Sources!PreIpo
  <2>1. s \notin DOMAIN Sources!readPreIpo
    BY <1>6 DEF Sources!readPreIpo, Sources!Listed
  <2>2. CASE s \in Stocks
    <3>1. r.primary = issuer[s].price /\ issuer[s].price \in Nat
      BY <1>4, <1>6, <2>1, <2>2 DEF Sources!readSource, Sources!fetchXStocks,
         Sources!Reading, SourcesInv
    <3>2. issuer[s].price > 0
      BY <1>3, <3>1
    <3> QED BY <1>6, <2>2, <3>2
  <2>3. CASE s \notin Stocks
    <3>1. r.primary = backpack /\ backpack \in Nat
      BY <1>4, <1>6, <2>1, <2>3 DEF Sources!readSource, Sources!Reading, SourcesInv
    <3>2. backpack > 0
      BY <1>3, <3>1
    <3> QED BY <1>6, <2>3, <3>2
  <2> QED BY <2>2, <2>3
<1> QED BY <1>5, <1>6

(* For any assets, providers and prices: a premium of a traded token moves the price *)
(* lent against by no more than half the limit, a provider that answers is read though the other is       *)
(* down, and Jupiter alone never prices collateral.                              *)
THEOREM SourcesAlwaysSound ==
  ASSUME Sources!SourcesAssumption
  PROVE  Sources!Spec => []Sources!SourcesAreSound
<1>1. Sources!Init => SourcesInv
  BY SourcesInit
<1>2. SourcesInv /\ [Sources!Next]_(Sources!vars) => SourcesInv'
  BY SourcesStep
<1>3. SourcesInv => Sources!SourcesAreSound
  <2>1. SourcesInv => Sources!LiveProviderIsRead
    BY PreIpoRead DEF Sources!LiveProviderIsRead
  <2> QED BY <2>1, PremiumBounded, JupiterAlone DEF Sources!SourcesAreSound
<1> QED BY <1>1, <1>2, <1>3, PTL DEF Sources!Spec

(* Pyth's trading flag.  A flag in the cache, and one a request is answered with, is *)
(* one that Hermes had at a time when it was read: not before the request that       *)
(* cached it began.                                                           *)

HadFlag(open, from, til) ==
  \E t \in Feeds!Times : from <= t /\ t <= til /\ hermes[t].open = open

FlagInv ==
  /\ now \in Nat /\ now <= MaxTime
  /\ lookups = [r \in Requests |-> lookups[r]]
  /\ hoursCache # None =>
       \E open, at : /\ hoursCache = [open |-> open, at |-> at] /\ at \in Nat /\ at <= now
                     /\ HadFlag(open, at, now)
  /\ \A r \in Requests :
       \/ lookups[r] = Feeds!IdleReq
       \/ /\ lookups[r].at \in {"checking", "asking"}
          /\ lookups[r].since \in Nat /\ lookups[r].since <= now
       \/ /\ lookups[r].at = "answered"
          /\ lookups[r].since \in Nat /\ lookups[r].since <= now
          /\ HadFlag(lookups[r].answer.open, lookups[r].since, now)
       \/ /\ lookups[r].at = "resolved"
          /\ lookups[r].open # None =>
               \E t \in Feeds!Times : /\ t <= now /\ t + HoursTtl > lookups[r].since
                                      /\ hermes[t].open = lookups[r].open

LEMMA FlagInit ==
  ASSUME Feeds!FeedsAssumption, Feeds!Init
  PROVE  FlagInv
BY DEF Feeds!Init, Feeds!FeedsAssumption, FlagInv

(* Only a request moves on, and what it has is sound. *)
LEMMA LookupGoes ==
  ASSUME FlagInv, NEW r \in Requests, NEW x, Feeds!Goto(r, x), UNCHANGED <<hermes, now>>,
         \/ UNCHANGED hoursCache
         \/ \E open, at : /\ hoursCache' = [open |-> open, at |-> at] /\ at \in Nat
                          /\ at <= now /\ HadFlag(open, at, now),
         \/ x = Feeds!IdleReq
         \/ x.at \in {"checking", "asking"} /\ x.since \in Nat /\ x.since <= now
         \/ /\ x.at = "answered" /\ x.since \in Nat /\ x.since <= now
            /\ HadFlag(x.answer.open, x.since, now)
         \/ /\ x.at = "resolved"
            /\ x.open # None =>
                 \E t \in Feeds!Times : /\ t <= now /\ t + HoursTtl > x.since
                                        /\ hermes[t].open = x.open
  PROVE  FlagInv'
<1> USE DEF FlagInv
<1>1. /\ lookups' = [lookups EXCEPT ![r] = x]
      /\ \A w \in Requests : lookups'[w] = IF w = r THEN x ELSE lookups[w]
      /\ lookups' = [w \in Requests |-> lookups'[w]]
  BY DEF Feeds!Goto
<1>2. hoursCache' # None =>
        \E open, at : /\ hoursCache' = [open |-> open, at |-> at] /\ at \in Nat /\ at <= now
                      /\ HadFlag(open, at, now)
  OBVIOUS
<1> QED BY <1>1, <1>2 DEF HadFlag

LEMMA ResolveGoes ==
  ASSUME Feeds!FeedsAssumption, FlagInv, NEW r \in Requests, Feeds!Resolve(r)
  PROVE  FlagInv'
<1> DEFINE began  == lookups[r].since
           cached == [at |-> "resolved", id |-> Feeds!cachedId, open |-> hoursCache.open,
                      since |-> began]
           asking == [at |-> "asking", cached |-> Feeds!cachedId, since |-> began]
<1>1. /\ lookups[r].at = "checking" /\ UNCHANGED <<hermes, hoursCache, now>>
      /\ Feeds!Goto(r, asking) \/ (Feeds!HoursFresh(r) /\ Feeds!Goto(r, cached))
  BY DEF Feeds!Resolve, Feeds!Resolved
<1>2. began \in Nat /\ began <= now
  BY <1>1 DEF FlagInv, Feeds!IdleReq
<1>3. asking.at = "asking" /\ asking.since = began
  OBVIOUS
<1>4. CASE Feeds!HoursFresh(r)
  <2>1. PICK open, at : /\ hoursCache = [open |-> open, at |-> at] /\ at \in Nat /\ at <= now
                        /\ HadFlag(open, at, now)
    BY <1>4 DEF Feeds!HoursFresh, FlagInv
  <2>2. PICK t \in Feeds!Times : at <= t /\ t <= now /\ hermes[t].open = open
    BY <2>1 DEF HadFlag
  <2>3. t + HoursTtl > began
    BY <1>2, <1>4, <2>1, <2>2 DEF Feeds!HoursFresh, Feeds!Times, Feeds!FeedsAssumption
  <2>4. cached.at = "resolved" /\ cached.open = open /\ cached.since = began
    BY <2>1
  <2> HIDE DEF cached, asking, began
  <2> QED BY <1>1, <1>2, <1>3, <2>2, <2>3, <2>4, LookupGoes
<1> HIDE DEF cached, asking, began
<1> QED BY <1>1, <1>2, <1>3, <1>4, LookupGoes

LEMMA AnswerGoes ==
  ASSUME Feeds!FeedsAssumption, FlagInv, NEW r \in Requests, Feeds!HermesAnswers(r)
  PROVE  FlagInv'
<1> DEFINE x == [at |-> "answered", cached |-> lookups[r].cached, since |-> lookups[r].since,
                 answer |-> hermes[now]]
<1>1. lookups[r].at = "asking" /\ Feeds!Goto(r, x) /\ UNCHANGED <<hermes, hoursCache, now>>
  BY DEF Feeds!HermesAnswers
<1>2. now \in Feeds!Times /\ lookups[r].since \in Nat /\ lookups[r].since <= now
  BY <1>1 DEF FlagInv, Feeds!Times, Feeds!IdleReq, Feeds!FeedsAssumption
<1>3. HadFlag(hermes[now].open, lookups[r].since, now)
  BY <1>2 DEF HadFlag, FlagInv
<1>4. x.at = "answered" /\ x.answer.open = hermes[now].open /\ x.since = lookups[r].since
  OBVIOUS
<1> HIDE DEF x
<1> QED BY <1>1, <1>2, <1>3, <1>4, LookupGoes

LEMMA MatchGoes ==
  ASSUME Feeds!FeedsAssumption, FlagInv, NEW r \in Requests, Feeds!Match(r)
  PROVE  FlagInv'
<1> DEFINE open  == lookups[r].answer.open
           began == lookups[r].since
           x == [at |-> "resolved", id |-> lookups[r].answer.id, open |-> open, since |-> began]
<1>1. /\ lookups[r].at = "answered" /\ Feeds!Goto(r, x) /\ UNCHANGED <<hermes, now>>
      /\ hoursCache' = [open |-> open, at |-> began]
  BY DEF Feeds!Match, Feeds!Resolved, Feeds!Stamp
<1>2. began \in Nat /\ began <= now /\ HadFlag(open, began, now)
  BY <1>1 DEF FlagInv, Feeds!IdleReq
<1>3. PICK t \in Feeds!Times : began <= t /\ t <= now /\ hermes[t].open = open
  BY <1>2 DEF HadFlag
<1>4. t + HoursTtl > began
  BY <1>2, <1>3 DEF Feeds!Times, Feeds!FeedsAssumption
<1>5. x.at = "resolved" /\ x.open = open /\ x.since = began
  OBVIOUS
<1> HIDE DEF x, open, began
<1> QED BY <1>1, <1>2, <1>3, <1>4, <1>5, LookupGoes

LEMMA FlagStep ==
  ASSUME Feeds!FeedsAssumption, FlagInv, [Feeds!Next]_(Feeds!vars)
  PROVE  FlagInv'
<1>1. ASSUME NEW r \in Requests, Feeds!AskFailed(r) \/ Feeds!NoMatch(r) PROVE FlagInv'
  <2>1. PICK id : Feeds!Goto(r, [at |-> "resolved", id |-> id, open |-> None,
                                 since |-> lookups[r].since])
    BY <1>1 DEF Feeds!AskFailed, Feeds!NoMatch, Feeds!Resolved
  <2>2. UNCHANGED <<hermes, hoursCache, now>>
    BY <1>1 DEF Feeds!AskFailed, Feeds!NoMatch
  <2> QED BY <2>1, <2>2, LookupGoes
<1>2. ASSUME NEW r \in Requests, Feeds!Answer(r) \/ Feeds!Start(r) PROVE FlagInv'
  <2>1. CASE Feeds!Answer(r)
    BY <2>1, LookupGoes DEF Feeds!Answer
  <2>2. CASE Feeds!Start(r)
    <3> DEFINE x == [at |-> "checking", since |-> now]
    <3>1. /\ Feeds!Goto(r, x) /\ UNCHANGED <<hermes, hoursCache, now>>
          /\ x.at = "checking" /\ x.since = now
      BY <2>2 DEF Feeds!Start
    <3>2. now \in Nat /\ now <= now
      BY DEF FlagInv
    <3> HIDE DEF x
    <3> QED BY <3>1, <3>2, LookupGoes
  <2> QED BY <1>2, <2>1, <2>2
<1>3. CASE Feeds!Restart
  BY <1>3 DEF Feeds!Restart, FlagInv
<1>4. CASE Feeds!Tick
  <2>1. /\ now' = now + 1 /\ now < MaxTime /\ now \in Nat /\ MaxTime \in Nat
        /\ UNCHANGED <<hermes, hoursCache, lookups>>
    BY <1>4 DEF Feeds!Tick, FlagInv, Feeds!FeedsAssumption
  <2>2. /\ now' \in Nat /\ now' <= MaxTime
        /\ \A k \in Nat : k <= now => k <= now'
    BY <2>1
  <2>3. \A open, at : HadFlag(open, at, now) => HadFlag(open, at, now)'
    BY <2>1, <2>2 DEF HadFlag, Feeds!Times
  <2> QED BY <2>1, <2>2, <2>3 DEF FlagInv, Feeds!Times
<1>5. CASE UNCHANGED Feeds!vars
  BY <1>5 DEF Feeds!vars, FlagInv, HadFlag
<1> QED BY <1>1, <1>2, <1>3, <1>4, <1>5, ResolveGoes, AnswerGoes, MatchGoes DEF Feeds!Next

(* "re-reads it every 60 s" (parameters.md:107): for any number of requests sharing   *)
(* the caches, and any life of them, a trading flag that gates the signer is one that  *)
(* Hermes had within HoursTtl of the call it is given to, however late Hermes answered *)
(* the one that cached it: an entry is stamped when its call began.              *)
THEOREM FlagAlwaysFresh ==
  ASSUME Feeds!FeedsAssumption
  PROVE  Feeds!Spec => []Feeds!FlagFresh
<1>1. Feeds!Init => FlagInv
  BY FlagInit
<1>2. FlagInv /\ [Feeds!Next]_(Feeds!vars) => FlagInv'
  BY FlagStep
<1>3. FlagInv => Feeds!FlagFresh
  BY DEF FlagInv, Feeds!FlagFresh, Feeds!Answered, Feeds!Since, Feeds!IdleReq
<1> QED BY <1>1, <1>2, <1>3, PTL DEF Feeds!Spec
-----------------------------------------------------------------------------
(* The alerts.  With one request at a time and none that stops, the band on record *)
(* is one the position was in since each device was last told of one: so a band      *)
(* that is worse than the record is worse than something in between.              *)

CONSTANTS Endpoints, Registered, Bands, NoLoan, MAX_DEVICES, MaxMoves, MaxStops
VARIABLES bands, endpoint, card, removed, pushed, stops

Alerts == INSTANCE Alerts

OneCheck == (\A r, s \in Requests : r = s) /\ MaxStops = 0

Rank == 0..4
Told == [band : Rank, seen : Nat \ {0}]

(* The alerts shown on a device, oldest first. *)
ToldInTurn(list, bs) ==
  /\ list \in Seq(Told)
  /\ \A i \in DOMAIN list : list[i].seen \in DOMAIN bs
  /\ \A i, j \in DOMAIN list : i < j =>
       /\ list[i].seen <= list[j].seen
       /\ \E m \in list[i].seen .. list[j].seen : bs[m] = NoLoan \/ bs[m] < list[j].band

IsCheck(x) == "band" \in DOMAIN x
GoodCheck(x, bs) ==
  /\ "at" \in DOMAIN x
  /\ x.at = "sending" => "pending" \in DOMAIN x
  /\ x.at \in {"comparing", "recording"} => IsCheck(x)
  /\ IsCheck(x) => /\ x.at \in {"comparing", "listing", "sending", "recording"}
                   /\ x.band \in Rank
                   /\ "seen" \in DOMAIN x /\ x.seen \in DOMAIN bs /\ bs[x.seen] = x.band

GoodWrite(w) ==
  \/ w = <<>>
  \/ \E v : w = Alerts!kvSet(Alerts!pushKey, v)
  \/ \E b \in Rank : w = Alerts!kvSet(Alerts!alertKey, b)

(* The band on record when the write under way is done. *)
Record(last, w) ==
  IF w # <<>> /\ w[1].key = Alerts!alertKey THEN w[1].value ELSE last

(* Whether e was told, or will be, before a check that is under way. *)
Ahead(x, e) ==
  \/ ~IsCheck(x) \/ x.at \in {"comparing", "listing"}
  \/ x.at = "sending" /\ e \in x.pending
Observed(x, bs) == IF IsCheck(x) THEN x.seen ELSE Len(bs)
LastSeen(list) == list[Len(list)].seen

Since(x, rec, bs, ps) ==
  /\ rec \in Rank \cup {NoEntry}
  /\ IsCheck(x) /\ x.at \in {"listing", "sending"} => rec = NoEntry \/ rec < x.band
  /\ \A e \in Endpoints : ps[e] # <<>> =>
       /\ LastSeen(ps[e]) <= Observed(x, bs)
       /\ Ahead(x, e) => \E m \in LastSeen(ps[e]) .. Observed(x, bs) : bs[m] = rec

TellInv ==
  /\ bands \in Seq(Rank \cup {NoLoan}) /\ bands # <<>> /\ stops = 0
  /\ req = [r \in Requests |-> req[r]] /\ todo = [r \in Requests |-> todo[r]]
  /\ doc = [r \in Requests |-> doc[r]] /\ store = [k \in Keys |-> store[k]]
  /\ pushed = [e \in Endpoints |-> pushed[e]]
  /\ \A e \in Endpoints : ToldInTurn(pushed[e], bands)
  /\ \A r \in Requests :
       /\ GoodCheck(req[r], bands) /\ GoodWrite(todo[r])
       /\ doc[r] # NoDoc => Backend = "gist" /\ doc[r] = store
       /\ Since(req[r], Record(store[Alerts!alertKey], todo[r]), bands, pushed)

LEMMA TellInit ==
  ASSUME Alerts!AlertsAssumption, Alerts!Init
  PROVE  TellInv
<1>1. /\ bands = <<0>> /\ stops = 0 /\ pushed = [e \in Endpoints |-> <<>>]
      /\ req = [r \in Requests |-> Alerts!IdleReq] /\ todo = [r \in Requests |-> <<>>]
      /\ doc = [r \in Requests |-> NoDoc]
  BY DEF Alerts!Init, Alerts!AlertsInit, Alerts!AlertsAssumption
<1>2. /\ store = [k \in Keys |-> store[k]] /\ store[Alerts!alertKey] = NoEntry
  BY DEF Alerts!Init, Alerts!Registry, Alerts!AlertsAssumption, Alerts!alertKey, Alerts!pushKey
<1>3. bands \in Seq(Rank \cup {NoLoan}) /\ bands # <<>>
  BY <1>1 DEF Rank
<1>4. \A e \in Endpoints : ToldInTurn(pushed[e], bands)
  BY <1>1 DEF ToldInTurn
<1>5. GoodCheck(Alerts!IdleReq, bands)
  BY DEF GoodCheck, IsCheck, Alerts!IdleReq
<1>6. Since(Alerts!IdleReq, NoEntry, bands, pushed)
  BY <1>1 DEF Since, IsCheck, Alerts!IdleReq
<1>7. Record(store[Alerts!alertKey], <<>>) = NoEntry /\ GoodWrite(<<>>)
  BY <1>2 DEF Record, GoodWrite
<1> QED BY <1>1, <1>2, <1>3, <1>4, <1>5, <1>6, <1>7 DEF TellInv

(* A step of the one request there is. *)
LEMMA CheckGoes ==
  ASSUME OneCheck, TellInv, NEW r \in Requests, NEW x, NEW w,
         req' = [req EXCEPT ![r] = x], todo' = [todo EXCEPT ![r] = w],
         UNCHANGED <<store, doc, bands, pushed, stops>>,
         GoodCheck(x, bands), GoodWrite(w),
         Since(x, Record(store[Alerts!alertKey], w), bands, pushed)
  PROVE  TellInv'
<1>1. /\ req' = [s \in Requests |-> req'[s]] /\ \A s \in Requests : req'[s] = x
      /\ todo' = [s \in Requests |-> todo'[s]] /\ \A s \in Requests : todo'[s] = w
  BY DEF TellInv, OneCheck
<1> QED BY <1>1 DEF TellInv

LEMMA CheckReads ==
  ASSUME OneCheck, TellInv, NEW r \in Requests, NEW x, todo[r] = <<>>,
         Alerts!GotoWith(r, x), UNCHANGED <<bands, pushed, stops>>,
         GoodCheck(x, bands), Since(x, store[Alerts!alertKey], bands, pushed)
  PROVE  TellInv'
<1>1. /\ req' = [req EXCEPT ![r] = x] /\ todo' = [todo EXCEPT ![r] = <<>>]
      /\ UNCHANGED <<store, doc, bands, pushed, stops>>
  BY DEF Alerts!GotoWith, Alerts!Goto, Alerts!kv_vars, TellInv
<1>2. GoodWrite(<<>>) /\ Record(store[Alerts!alertKey], <<>>) = store[Alerts!alertKey]
  BY DEF GoodWrite, Record
<1> QED BY <1>1, <1>2, CheckGoes

LEMMA SettledRecord ==
  ASSUME TellInv, NEW r \in Requests, todo[r] = <<>>
  PROVE  GoodCheck(req[r], bands) /\ Since(req[r], store[Alerts!alertKey], bands, pushed)
BY DEF TellInv, Record

(* Requests that are no checks: they neither read the band on record nor write it. *)
LEMMA OtherGoes ==
  ASSUME OneCheck, TellInv, NEW r \in Requests, NEW x, NEW w, todo[r] = <<>>,
         req' = [req EXCEPT ![r] = x], todo' = [todo EXCEPT ![r] = w],
         UNCHANGED <<store, doc, bands, pushed, stops>>,
         ~IsCheck(req[r]), ~IsCheck(x), GoodCheck(x, bands),
         w = <<>> \/ \E v : w = Alerts!kvSet(Alerts!pushKey, v)
  PROVE  TellInv'
<1>1. GoodWrite(w) /\ Record(store[Alerts!alertKey], w) = store[Alerts!alertKey]
  BY DEF GoodWrite, Record, Alerts!kvSet, Alerts!pushKey, Alerts!alertKey
<1>2. Since(x, store[Alerts!alertKey], bands, pushed)
  BY SettledRecord DEF Since, Ahead, Observed
<1> QED BY <1>1, <1>2, CheckGoes

(* The record a check writes is of the band it saw. *)
LEMMA RecordedSince ==
  ASSUME TellInv, NEW x, IsCheck(x), GoodCheck(x, bands), NEW rec, Since(x, rec, bands, pushed),
         NEW y, ~IsCheck(y)
  PROVE  Since(y, x.band, bands, pushed)
<1>1. /\ x.seen \in 1 .. Len(bands) /\ bands[x.seen] = x.band /\ x.band \in Rank
      /\ Len(bands) \in Nat
  BY DEF GoodCheck, TellInv
<1>2. Observed(x, bands) = x.seen /\ Observed(y, bands) = Len(bands)
  BY DEF Observed
<1>3. ASSUME NEW e \in Endpoints, pushed[e] # <<>>
      PROVE  /\ LastSeen(pushed[e]) <= Len(bands)
             /\ \E m \in LastSeen(pushed[e]) .. Len(bands) : bands[m] = x.band
  <2>1. LastSeen(pushed[e]) \in Nat
    BY <1>3 DEF LastSeen, TellInv, ToldInTurn, Told
  <2>2. LastSeen(pushed[e]) <= x.seen
    BY <1>2, <1>3 DEF Since
  <2>3. x.seen \in LastSeen(pushed[e]) .. Len(bands)
    BY <1>1, <2>1, <2>2
  <2> QED BY <1>1, <2>1, <2>3
<1> QED BY <1>1, <1>2, <1>3 DEF Since

LEMMA ReadPositionTells ==
  ASSUME Alerts!AlertsAssumption, OneCheck, TellInv, NEW r \in Requests,
         Alerts!ReadPosition(r)
  PROVE  TellInv'
<1> DEFINE x == [at |-> "comparing", band |-> bands[Len(bands)], seen |-> Len(bands)]
<1>1. /\ req[r].at = "idle" /\ todo[r] = <<>> /\ bands[Len(bands)] # NoLoan
      /\ Alerts!GotoWith(r, x) /\ UNCHANGED <<bands, pushed, stops>>
  BY DEF Alerts!ReadPosition, Alerts!At, Alerts!Settled, Alerts!Band
<1>2. Len(bands) \in DOMAIN bands /\ bands[Len(bands)] \in Rank
  BY <1>1 DEF TellInv
<1>3. GoodCheck(x, bands)
  BY <1>2 DEF GoodCheck, IsCheck
<1>4. ~IsCheck(req[r]) /\ IsCheck(x) /\ x.at = "comparing"
  BY <1>1, SettledRecord DEF GoodCheck, IsCheck
<1>5. Observed(x, bands) = Observed(req[r], bands)
  BY <1>4 DEF Observed
<1> HIDE DEF x
<1>6. Since(x, store[Alerts!alertKey], bands, pushed)
  BY <1>1, <1>4, <1>5, SettledRecord DEF Since, Ahead
<1> QED BY <1>1, <1>3, <1>6, CheckReads

LEMMA CompareBandTells ==
  ASSUME Alerts!AlertsAssumption, OneCheck, TellInv, NEW r \in Requests,
         Alerts!CompareBand(r)
  PROVE  TellInv'
<1> DEFINE rec == store[Alerts!alertKey]
<1>1. /\ req[r].at = "comparing" /\ todo[r] = <<>>
      /\ UNCHANGED <<bands, pushed, stops>>
  BY DEF Alerts!CompareBand, Alerts!At, Alerts!Settled
<1>2. /\ GoodCheck(req[r], bands) /\ Since(req[r], rec, bands, pushed) /\ IsCheck(req[r])
  BY <1>1, SettledRecord DEF GoodCheck
<1>3. CASE Alerts!shouldNotify(req[r].band, rec)
  <2> DEFINE x == [req[r] EXCEPT !.at = "listing"]
  <2>1. Alerts!GotoWith(r, x)
    BY <1>3 DEF Alerts!CompareBand, Alerts!Moved, Alerts!kvGet
  <2>2. /\ DOMAIN x = DOMAIN req[r] /\ x.at = "listing"
        /\ \A k \in DOMAIN x : k # "at" => x[k] = req[r][k]
    BY <1>2 DEF GoodCheck
  <2>3. IsCheck(x) /\ x.band = req[r].band /\ x.seen = req[r].seen
    BY <1>2, <2>2 DEF IsCheck, GoodCheck
  <2>4. rec = NoEntry \/ rec < x.band
    BY <1>2, <1>3, <2>3 DEF Alerts!shouldNotify, GoodCheck, Since, Rank
  <2> HIDE DEF x
  <2>5. GoodCheck(x, bands)
    BY <1>2, <2>2, <2>3 DEF GoodCheck
  <2>6. Since(x, rec, bands, pushed)
    BY <1>1, <1>2, <2>2, <2>3, <2>4 DEF Since, Ahead, Observed
  <2> QED BY <1>1, <2>1, <2>5, <2>6, CheckReads
<1>4. CASE ~Alerts!shouldNotify(req[r].band, rec)
  <2>1. /\ Alerts!TrackImprovement(r, req[r].band)
        /\ req' = [req EXCEPT ![r] = Alerts!IdleReq]
    BY <1>4 DEF Alerts!CompareBand, Alerts!Goto, Alerts!kvGet
  <2>2. PICK w : /\ todo' = [todo EXCEPT ![r] = w] /\ UNCHANGED <<store, doc>>
                 /\ GoodWrite(w) /\ Record(rec, w) = req[r].band
    <3>1. CASE req[r].band # rec
      <4>1. todo' = [todo EXCEPT ![r] = Alerts!kvSet(Alerts!alertKey, req[r].band)]
            /\ UNCHANGED <<store, doc>>
        BY <2>1, <3>1 DEF Alerts!TrackImprovement, Alerts!Await, Alerts!kvGet
      <4>2. GoodWrite(Alerts!kvSet(Alerts!alertKey, req[r].band))
        BY <1>2 DEF GoodWrite, GoodCheck
      <4>3. Record(rec, Alerts!kvSet(Alerts!alertKey, req[r].band)) = req[r].band
        BY DEF Record, Alerts!kvSet
      <4> QED BY <4>1, <4>2, <4>3
    <3>2. CASE req[r].band = rec
      <4>1. todo' = [todo EXCEPT ![r] = <<>>] /\ UNCHANGED <<store, doc>>
        BY <1>1, <2>1, <3>2 DEF Alerts!TrackImprovement, Alerts!kv_vars, Alerts!kvGet, TellInv
      <4> QED BY <3>2, <4>1 DEF GoodWrite, Record
    <3> QED BY <3>1, <3>2
  <2>3. GoodCheck(Alerts!IdleReq, bands) /\ ~IsCheck(Alerts!IdleReq)
    BY DEF GoodCheck, IsCheck, Alerts!IdleReq
  <2>4. Since(Alerts!IdleReq, req[r].band, bands, pushed)
    BY <1>2, <2>3, RecordedSince
  <2> QED BY <1>1, <2>1, <2>2, <2>3, <2>4, CheckGoes
<1> QED BY <1>3, <1>4

LEMMA ListingTells ==
  ASSUME OneCheck, TellInv, NEW r \in Requests, Alerts!listSubscriptions(r)
  PROVE  TellInv'
<1> DEFINE list == Alerts!Devices
           x == Alerts!ToAll(req[r], list)
<1>1. /\ req[r].at = "listing" /\ todo[r] = <<>>
      /\ Alerts!GotoWith(r, x) /\ UNCHANGED <<bands, pushed, stops>>
  BY DEF Alerts!listSubscriptions, Alerts!At, Alerts!Settled
<1>2. GoodCheck(req[r], bands) /\ Since(req[r], store[Alerts!alertKey], bands, pushed)
  BY <1>1, SettledRecord
<1>3. /\ IsCheck(x) <=> IsCheck(req[r])
      /\ x.at = "sending" /\ {"at", "pending"} \subseteq DOMAIN x
      /\ IsCheck(x) => x.band = req[r].band /\ x.seen = req[r].seen /\ "seen" \in DOMAIN x
  <2>1. CASE IsCheck(req[r])
    BY <2>1 DEF IsCheck, Alerts!ToAll
  <2>2. CASE ~IsCheck(req[r])
    BY <2>2 DEF IsCheck, Alerts!ToAll
  <2> QED BY <2>1, <2>2
<1> HIDE DEF x
<1>4. GoodCheck(x, bands)
  BY <1>2, <1>3 DEF GoodCheck
<1>5. Observed(x, bands) = Observed(req[r], bands)
  BY <1>3 DEF Observed
<1>6. Since(x, store[Alerts!alertKey], bands, pushed)
  BY <1>1, <1>2, <1>3, <1>5 DEF Since, Ahead
<1> QED BY <1>1, <1>4, <1>6, CheckReads

(* The alert that is sent tells of a band worse than one since the last. *)
LEMMA AppendTold ==
  ASSUME NEW bs, NEW list, ToldInTurn(list, bs), NEW t \in Told, t.seen \in DOMAIN bs,
         list # <<>> => /\ LastSeen(list) <= t.seen
                        /\ \E m \in LastSeen(list) .. t.seen : bs[m] = NoLoan \/ bs[m] < t.band
  PROVE  ToldInTurn(Append(list, t), bs) /\ LastSeen(Append(list, t)) = t.seen
<1> DEFINE more == Append(list, t)
           n == Len(list)
<1>1. /\ more \in Seq(Told) /\ n \in Nat /\ Len(more) = n + 1 /\ DOMAIN more = 1 .. n + 1
      /\ DOMAIN list = 1 .. n /\ more[n + 1] = t /\ \A i \in 1 .. n : more[i] = list[i]
  BY DEF ToldInTurn
<1>2. t.seen \in Nat /\ \A i \in 1 .. n : list[i].seen \in Nat
  <2>1. \A i \in 1 .. n : list[i] \in Told
    BY <1>1 DEF ToldInTurn
  <2> QED BY <2>1 DEF Told
<1> HIDE DEF more
<1>3. ASSUME NEW i \in 1 .. n
      PROVE  /\ list[i].seen <= t.seen
             /\ \E m \in list[i].seen .. t.seen : bs[m] = NoLoan \/ bs[m] < t.band
  <2>1. list # <<>> /\ n \in 1 .. n /\ LastSeen(list) = list[n].seen
    BY <1>1 DEF LastSeen, ToldInTurn
  <2>2. list[i].seen <= list[n].seen
    <3>1. CASE i < n
      BY <1>1, <3>1 DEF ToldInTurn
    <3>2. CASE i = n
      BY <1>2, <3>2
    <3> QED BY <2>1, <3>1, <3>2
  <2>3. PICK m \in list[n].seen .. t.seen : bs[m] = NoLoan \/ bs[m] < t.band
    BY <2>1
  <2>4. m \in list[i].seen .. t.seen /\ list[i].seen <= t.seen
    BY <1>2, <2>1, <2>2, <2>3
  <2> QED BY <2>3, <2>4
<1>4. ASSUME NEW i \in DOMAIN more, NEW j \in DOMAIN more, i < j
      PROVE  /\ more[i].seen <= more[j].seen
             /\ \E m \in more[i].seen .. more[j].seen : bs[m] = NoLoan \/ bs[m] < more[j].band
  <2>1. CASE j = n + 1
    <3>1. i \in 1 .. n /\ more[j] = t /\ more[i] = list[i]
      BY <1>1, <1>4, <2>1
    <3> QED BY <1>3, <3>1
  <2>2. CASE j # n + 1
    <3>1. i \in 1 .. n /\ j \in 1 .. n /\ more[i] = list[i] /\ more[j] = list[j]
      BY <1>1, <1>4, <2>2
    <3> QED BY <1>1, <1>4, <3>1 DEF ToldInTurn
  <2> QED BY <2>1, <2>2
<1>5. \A i \in DOMAIN more : more[i].seen \in DOMAIN bs
  BY <1>1 DEF ToldInTurn
<1>6. LastSeen(more) = t.seen
  BY <1>1 DEF LastSeen
<1>7. ToldInTurn(more, bs)
  BY <1>1, <1>4, <1>5 DEF ToldInTurn
<1> QED BY <1>6, <1>7 DEF more

LEMMA SendingTells ==
  ASSUME Alerts!AlertsAssumption, OneCheck, TellInv, NEW r \in Requests, NEW e \in Endpoints,
         Alerts!sendNotification(r, e)
  PROVE  TellInv'
<1> DEFINE rec == store[Alerts!alertKey]
           dead == IF endpoint[e] = "gone" THEN req[r].dead \union {e} ELSE req[r].dead
           x == [req[r] EXCEPT !.pending = req[r].pending \ {e}, !.dead = dead]
           t == [band |-> req[r].band, seen |-> req[r].seen]
<1>1. /\ req[r].at = "sending" /\ todo[r] = <<>> /\ e \in req[r].pending
      /\ Alerts!GotoWith(r, x) /\ UNCHANGED <<bands, stops>>
  BY DEF Alerts!sendNotification, Alerts!At, Alerts!Settled
<1>2. GoodCheck(req[r], bands) /\ Since(req[r], rec, bands, pushed)
  BY <1>1, SettledRecord
<1>3. /\ DOMAIN x = DOMAIN req[r] /\ x.at = "sending" /\ x.pending = req[r].pending \ {e}
      /\ \A k \in DOMAIN x : k \notin {"pending", "dead"} => x[k] = req[r][k]
  BY <1>1, <1>2 DEF GoodCheck
<1>4. /\ IsCheck(x) <=> IsCheck(req[r])
      /\ IsCheck(x) => x.band = req[r].band /\ x.seen = req[r].seen
  BY <1>2, <1>3 DEF IsCheck, GoodCheck
<1> HIDE DEF x
<1>5. GoodCheck(x, bands)
  BY <1>1, <1>2, <1>3, <1>4 DEF GoodCheck
<1>6. /\ Observed(x, bands) = Observed(req[r], bands)
      /\ \A d \in Endpoints : Ahead(x, d) => Ahead(req[r], d) /\ (d # e \/ ~IsCheck(x))
  BY <1>1, <1>3, <1>4 DEF Observed, Ahead
<1>7. CASE pushed' = pushed
  <2>1. Since(x, rec, bands, pushed)
    BY <1>1, <1>2, <1>3, <1>4, <1>6 DEF Since
  <2> QED BY <1>1, <1>5, <1>7, <2>1, CheckReads
<1>8. CASE IsCheck(req[r]) /\ pushed' = [pushed EXCEPT ![e] = Append(pushed[e], t)]
  <2>1. /\ pushed' = [d \in Endpoints |-> pushed'[d]] /\ pushed'[e] = Append(pushed[e], t)
        /\ \A d \in Endpoints : d # e => pushed'[d] = pushed[d]
    BY <1>8 DEF TellInv
  <2>2. /\ t \in Told /\ t.seen = req[r].seen /\ t.band = req[r].band /\ t.seen \in DOMAIN bands
        /\ Observed(req[r], bands) = t.seen
    BY <1>2, <1>8 DEF GoodCheck, Told, TellInv, Observed
  <2> HIDE DEF t
  <2>3. pushed[e] # <<>> => /\ LastSeen(pushed[e]) <= t.seen
                            /\ \E m \in LastSeen(pushed[e]) .. t.seen :
                                 bands[m] = NoLoan \/ bands[m] < t.band
    <3>1. SUFFICES ASSUME pushed[e] # <<>>
          PROVE  /\ LastSeen(pushed[e]) <= t.seen
                 /\ \E m \in LastSeen(pushed[e]) .. t.seen :
                                 bands[m] = NoLoan \/ bands[m] < t.band
      OBVIOUS
    <3>2. Ahead(req[r], e)
      BY <1>1 DEF Ahead
    <3>3. PICK m \in LastSeen(pushed[e]) .. t.seen : bands[m] = rec
      BY <1>2, <2>2, <3>1, <3>2 DEF Since
    <3>4. m \in DOMAIN bands
      <4>1. LastSeen(pushed[e]) \in 1 .. Len(bands) /\ t.seen \in 1 .. Len(bands)
        BY <2>2, <3>1 DEF TellInv, LastSeen, ToldInTurn
      <4> QED BY <3>3, <4>1 DEF TellInv
    <3>5. bands[m] = NoLoan \/ bands[m] < t.band
      BY <1>1, <1>2, <1>8, <2>2, <3>3, <3>4 DEF Since, TellInv, Alerts!AlertsAssumption, Rank
    <3> QED BY <1>2, <2>2, <3>1, <3>3, <3>5 DEF Since
  <2>4. ToldInTurn(pushed'[e], bands) /\ LastSeen(pushed'[e]) = t.seen
    BY <2>1, <2>2, <2>3, AppendTold DEF TellInv
  <2>5. t.seen <= t.seen
    BY <2>2 DEF Told
  <2>6. ASSUME NEW d \in Endpoints, pushed'[d] # <<>>
        PROVE  /\ LastSeen(pushed'[d]) <= Observed(x, bands)
               /\ Ahead(x, d) => \E m \in LastSeen(pushed'[d]) .. Observed(x, bands) : bands[m] = rec
    <3>1. CASE d = e
      BY <1>4, <1>6, <1>8, <2>2, <2>4, <2>5, <3>1
    <3>2. CASE d # e
      BY <1>2, <1>6, <2>1, <2>6, <3>2 DEF Since
    <3> QED BY <3>1, <3>2
  <2>7. Since(x, rec, bands, pushed')
    BY <1>1, <1>2, <1>3, <1>4, <2>6 DEF Since
  <2>8. \A d \in Endpoints : ToldInTurn(pushed'[d], bands)
    BY <2>1, <2>4 DEF TellInv
  <2>9. /\ req' = [s \in Requests |-> req'[s]] /\ \A s \in Requests : req'[s] = x
        /\ UNCHANGED <<store, todo, doc>> /\ \A s \in Requests : todo[s] = <<>>
    BY <1>1 DEF TellInv, OneCheck, Alerts!GotoWith, Alerts!Goto, Alerts!kv_vars
  <2>10. Record(rec, <<>>) = rec
    BY DEF Record
  <2> QED BY <1>1, <1>5, <2>1, <2>7, <2>8, <2>9, <2>10 DEF TellInv
<1> QED BY <1>7, <1>8 DEF Alerts!sendNotification, Alerts!IsAlert, IsCheck

LEMMA DropDeadTells ==
  ASSUME OneCheck, TellInv, NEW r \in Requests, Alerts!DropDead(r)
  PROVE  TellInv'
<1> DEFINE rec == store[Alerts!alertKey]
           x == IF IsCheck(req[r]) THEN [req[r] EXCEPT !.at = "recording"] ELSE Alerts!IdleReq
<1>1. /\ req[r].at = "sending" /\ todo[r] = <<>> /\ req' = [req EXCEPT ![r] = x]
      /\ UNCHANGED <<bands, pushed, stops>>
  BY DEF Alerts!DropDead, Alerts!At, Alerts!Settled, Alerts!Goto, Alerts!Moved, Alerts!IsAlert,
         IsCheck
<1>2. PICK w : /\ todo' = [todo EXCEPT ![r] = w] /\ UNCHANGED <<store, doc>>
               /\ GoodWrite(w) /\ Record(rec, w) = rec
  <2>1. CASE req[r].dead = {}
    <3>1. todo' = [todo EXCEPT ![r] = <<>>] /\ UNCHANGED <<store, doc>>
      BY <1>1, <2>1 DEF Alerts!DropDead, Alerts!kv_vars, TellInv
    <3> QED BY <3>1 DEF GoodWrite, Record
  <2>2. CASE req[r].dead # {}
    <3> DEFINE v == Alerts!Without(req[r].subs, req[r].dead)
    <3>1. todo' = [todo EXCEPT ![r] = Alerts!kvSet(Alerts!pushKey, v)] /\ UNCHANGED <<store, doc>>
      BY <2>2 DEF Alerts!DropDead, Alerts!Await
    <3> HIDE DEF v
    <3>2. GoodWrite(Alerts!kvSet(Alerts!pushKey, v))
      BY DEF GoodWrite
    <3>3. Record(rec, Alerts!kvSet(Alerts!pushKey, v)) = rec
      BY DEF Record, Alerts!kvSet, Alerts!pushKey, Alerts!alertKey
    <3> QED BY <3>1, <3>2, <3>3
  <2> QED BY <2>1, <2>2
<1>3. GoodCheck(req[r], bands) /\ Since(req[r], rec, bands, pushed)
  BY <1>1, SettledRecord
<1>4. GoodCheck(x, bands) /\ Since(x, rec, bands, pushed)
  <2>1. CASE IsCheck(req[r])
    <3> DEFINE y == [req[r] EXCEPT !.at = "recording"]
    <3>1. /\ DOMAIN y = DOMAIN req[r] /\ y.at = "recording"
          /\ y.band = req[r].band /\ y.seen = req[r].seen
      BY <1>3, <2>1 DEF GoodCheck, IsCheck
    <3> HIDE DEF y
    <3>2. GoodCheck(y, bands) /\ IsCheck(y)
      BY <1>3, <2>1, <3>1 DEF GoodCheck, IsCheck
    <3>3. Since(y, rec, bands, pushed)
      BY <1>3, <2>1, <3>1, <3>2 DEF Since, Ahead, Observed
    <3> QED BY <2>1, <3>2, <3>3 DEF y
  <2>2. CASE ~IsCheck(req[r])
    <3>1. GoodCheck(Alerts!IdleReq, bands) /\ ~IsCheck(Alerts!IdleReq)
      BY DEF GoodCheck, IsCheck, Alerts!IdleReq
    <3>2. Since(Alerts!IdleReq, rec, bands, pushed)
      BY <1>3, <2>2, <3>1 DEF Since, Ahead, Observed
    <3> QED BY <2>2, <3>1, <3>2
  <2> QED BY <2>1, <2>2
<1> HIDE DEF x
<1> QED BY <1>1, <1>2, <1>4, CheckGoes

LEMMA RecordingTells ==
  ASSUME OneCheck, TellInv, NEW r \in Requests, Alerts!writeLastBand(r)
  PROVE  TellInv'
<1> DEFINE w == Alerts!kvSet(Alerts!alertKey, req[r].band)
<1>1. /\ req[r].at = "recording" /\ todo[r] = <<>> /\ req' = [req EXCEPT ![r] = Alerts!IdleReq]
      /\ todo' = [todo EXCEPT ![r] = w] /\ UNCHANGED <<store, doc, bands, pushed, stops>>
  BY DEF Alerts!writeLastBand, Alerts!At, Alerts!Settled, Alerts!Goto, Alerts!Await
<1>2. /\ GoodCheck(req[r], bands) /\ IsCheck(req[r])
      /\ Since(req[r], store[Alerts!alertKey], bands, pushed)
  BY <1>1, SettledRecord DEF GoodCheck
<1>3. GoodWrite(w) /\ Record(store[Alerts!alertKey], w) = req[r].band
  BY <1>2 DEF GoodWrite, GoodCheck, Record, Alerts!kvSet
<1>4. GoodCheck(Alerts!IdleReq, bands) /\ ~IsCheck(Alerts!IdleReq)
  BY DEF GoodCheck, IsCheck, Alerts!IdleReq
<1>5. Since(Alerts!IdleReq, req[r].band, bands, pushed)
  BY <1>2, <1>4, RecordedSince
<1> QED BY <1>1, <1>3, <1>4, <1>5, CheckGoes

LEMMA DevicesTell ==
  ASSUME OneCheck, TellInv, NEW r \in Requests, Alerts!DeviceSteps(r)
  PROVE  TellInv'
<1>1. ASSUME NEW x, todo[r] = <<>>, ~IsCheck(req[r]), ~IsCheck(x), GoodCheck(x, bands),
             Alerts!GotoWith(r, x), UNCHANGED <<bands, pushed, stops>>
      PROVE  TellInv'
  <2>1. todo' = [todo EXCEPT ![r] = <<>>] /\ req' = [req EXCEPT ![r] = x]
        /\ UNCHANGED <<store, doc>>
    BY <1>1 DEF Alerts!GotoWith, Alerts!Goto, Alerts!kv_vars, TellInv
  <2> QED BY <1>1, <2>1, OtherGoes
<1>2. GoodCheck(req[r], bands)
  BY DEF TellInv
<1>3. req[r].at \in {"idle", "adding", "added", "removed"} => ~IsCheck(req[r])
  BY <1>2 DEF GoodCheck
<1>4. GoodCheck(Alerts!IdleReq, bands) /\ ~IsCheck(Alerts!IdleReq)
  BY DEF GoodCheck, IsCheck, Alerts!IdleReq
<1>5. CASE Alerts!TestPush(r)
  <2> DEFINE x == [at |-> "listing"]
  <2>1. GoodCheck(x, bands) /\ ~IsCheck(x)
    BY DEF GoodCheck, IsCheck
  <2>2. /\ req[r].at = "idle" /\ todo[r] = <<>>
        /\ Alerts!GotoWith(r, x) /\ UNCHANGED <<bands, pushed, stops>>
    BY <1>5 DEF Alerts!TestPush, Alerts!At, Alerts!Settled
  <2> QED BY <1>1, <1>3, <2>1, <2>2
<1>6. ASSUME NEW e \in Endpoints, Alerts!turnOn(r, e) PROVE TellInv'
  <2> DEFINE x == [at |-> "adding", device |-> e]
  <2>1. GoodCheck(x, bands) /\ ~IsCheck(x)
    BY DEF GoodCheck, IsCheck
  <2>2. /\ req[r].at = "idle" /\ todo[r] = <<>>
        /\ Alerts!GotoWith(r, x) /\ UNCHANGED <<bands, pushed, stops>>
    BY <1>6 DEF Alerts!turnOn, Alerts!At, Alerts!Settled
  <2> QED BY <1>1, <1>3, <2>1, <2>2
<1>7. ASSUME NEW e \in Endpoints, Alerts!removeSubscription(r, e) PROVE TellInv'
  <2> DEFINE x == [at |-> "removed", device |-> e]
             v == Alerts!Without(Alerts!Devices, {e})
  <2>1. GoodCheck(x, bands) /\ ~IsCheck(x)
    BY DEF GoodCheck, IsCheck
  <2>2. /\ req[r].at = "idle" /\ todo[r] = <<>> /\ req' = [req EXCEPT ![r] = x]
        /\ todo' = [todo EXCEPT ![r] = Alerts!kvSet(Alerts!pushKey, v)]
        /\ UNCHANGED <<store, doc, bands, pushed, stops>>
    BY <1>7 DEF Alerts!removeSubscription, Alerts!At, Alerts!Settled, Alerts!Await, Alerts!Goto
  <2> HIDE DEF v
  <2> QED BY <1>3, <2>1, <2>2, OtherGoes
<1>8. CASE Alerts!addSubscription(r)
  <2> DEFINE x == [req[r] EXCEPT !.at = "added"]
             v == Alerts!Registering(Alerts!Devices, req[r].device, MAX_DEVICES)
  <2>1. /\ req[r].at = "adding" /\ todo[r] = <<>> /\ req' = [req EXCEPT ![r] = x]
        /\ todo' = [todo EXCEPT ![r] = Alerts!kvSet(Alerts!pushKey, v)]
        /\ UNCHANGED <<store, doc, bands, pushed, stops>>
    BY <1>8 DEF Alerts!addSubscription, Alerts!At, Alerts!Settled, Alerts!Await, Alerts!Goto,
                Alerts!Moved
  <2>2. DOMAIN x = DOMAIN req[r] /\ x.at = "added"
    BY <1>2 DEF GoodCheck
  <2> HIDE DEF v, x
  <2>3. GoodCheck(x, bands) /\ ~IsCheck(x)
    BY <1>2, <1>3, <2>1, <2>2 DEF GoodCheck, IsCheck
  <2> QED BY <1>3, <2>1, <2>3, OtherGoes
<1>9. CASE Alerts!AnswerAdded(r) \/ Alerts!AnswerRemoved(r)
  <2>1. /\ req[r].at \in {"added", "removed"} /\ todo[r] = <<>>
        /\ Alerts!GotoWith(r, Alerts!IdleReq) /\ UNCHANGED <<bands, pushed, stops>>
    BY <1>9 DEF Alerts!AnswerAdded, Alerts!AnswerRemoved, Alerts!At, Alerts!Settled
  <2> QED BY <1>1, <1>3, <1>4, <2>1
<1> QED BY <1>5, <1>6, <1>7, <1>8, <1>9 DEF Alerts!DeviceSteps

LEMMA MoveTells ==
  ASSUME TellInv, NEW b \in Rank \cup {NoLoan}, Alerts!Move(b)
  PROVE  TellInv'
<1> DEFINE more == Append(bands, b)
<1>1. bands' = more /\ UNCHANGED <<store, todo, doc, req, pushed, stops>>
  BY DEF Alerts!Move, Alerts!kv_vars
<1>2. /\ more \in Seq(Rank \cup {NoLoan}) /\ more # <<>> /\ Len(more) = Len(bands) + 1
      /\ Len(bands) \in Nat /\ \A m \in 1 .. Len(bands) : m \in DOMAIN more /\ more[m] = bands[m]
  BY DEF TellInv
<1> HIDE DEF more
<1>3. ASSUME NEW list, ToldInTurn(list, bands) PROVE ToldInTurn(list, more)
  <2>1. \A i \in DOMAIN list : list[i].seen \in 1 .. Len(bands)
    BY <1>2, <1>3 DEF ToldInTurn, TellInv
  <2>2. \A i, j \in DOMAIN list : \A m \in list[i].seen .. list[j].seen : more[m] = bands[m]
    BY <1>2, <2>1
  <2> QED BY <1>2, <1>3, <2>1, <2>2 DEF ToldInTurn
<1>4. ASSUME NEW x, GoodCheck(x, bands) PROVE GoodCheck(x, more)
  BY <1>2, <1>4 DEF GoodCheck, TellInv
<1>5. ASSUME NEW x, GoodCheck(x, bands), NEW rec, Since(x, rec, bands, pushed)
      PROVE  Since(x, rec, more, pushed)
  <2>1. /\ Observed(x, bands) \in 1 .. Len(bands) /\ Observed(x, more) \in Nat
        /\ Observed(x, bands) <= Observed(x, more)
    BY <1>2, <1>5 DEF Observed, GoodCheck, TellInv
  <2>2. ASSUME NEW e \in Endpoints, pushed[e] # <<>>
        PROVE  LastSeen(pushed[e]) \in 1 .. Len(bands)
    BY <2>2 DEF TellInv, ToldInTurn, LastSeen
  <2>3. ASSUME NEW e \in Endpoints, pushed[e] # <<>>, Ahead(x, e)
        PROVE  \E m \in LastSeen(pushed[e]) .. Observed(x, more) : more[m] = rec
    <3>1. PICK m \in LastSeen(pushed[e]) .. Observed(x, bands) : bands[m] = rec
      BY <1>5, <2>3 DEF Since
    <3>2. m \in LastSeen(pushed[e]) .. Observed(x, more) /\ m \in 1 .. Len(bands)
      BY <2>1, <2>2, <2>3, <3>1
    <3> QED BY <1>2, <3>1, <3>2
  <2>4. ASSUME NEW e \in Endpoints, pushed[e] # <<>>
        PROVE  LastSeen(pushed[e]) <= Observed(x, more)
    <3>1. LastSeen(pushed[e]) <= Observed(x, bands)
      BY <1>5, <2>4 DEF Since
    <3> QED BY <2>1, <2>2, <2>4, <3>1
  <2> QED BY <1>5, <2>3, <2>4 DEF Since
<1> QED BY <1>1, <1>2, <1>3, <1>4, <1>5 DEF TellInv

LEMMA StoreTells ==
  ASSUME Alerts!AlertsAssumption, OneCheck, TellInv, NEW r \in Requests, Alerts!StoreActs(r)
  PROVE  TellInv'
<1> DEFINE a == Alerts!alertKey
<1>1. UNCHANGED <<req, bands, pushed, stops>> /\ Alerts!KvStep(r)
  BY DEF Alerts!StoreActs, Alerts!device_vars
<1>2. /\ todo = [v \in Requests |-> todo[v]] /\ store = [k \in Keys |-> store[k]]
      /\ doc = [v \in Requests |-> doc[v]] /\ {Alerts!pushKey, a} \subseteq Keys
      /\ doc[r] # NoDoc => Backend = "gist" /\ doc[r] = store
      /\ \A s \in Requests : s = r
  BY DEF TellInv, OneCheck, Alerts!AlertsAssumption
<1>3. ASSUME todo[r] # <<>>
      PROVE  /\ todo[r] = <<todo[r][1]>> /\ todo[r][1].cmd = "set" /\ todo[r][1].key \in Keys
             /\ Record(store[a], todo[r]) =
                  Alerts!Applied(store, todo[r][1])[a]
  <2>1. \A key, v : /\ Alerts!kvSet(key, v) = <<Alerts!kvSet(key, v)[1]>>
                    /\ Alerts!kvSet(key, v)[1] = [cmd |-> "set", key |-> key, value |-> v]
    BY DEF Alerts!kvSet
  <2>2. PICK key, v : todo[r] = Alerts!kvSet(key, v) /\ key \in {Alerts!pushKey, a}
    BY <1>3 DEF TellInv, GoodWrite
  <2> DEFINE c == [cmd |-> "set", key |-> key, value |-> v]
  <2>3. todo[r] = <<c>> /\ todo[r][1] = c
    BY <2>1, <2>2
  <2>4. Alerts!Applied(store, c)[a] = IF key = a THEN v ELSE store[a]
    BY <1>2, <2>2 DEF Alerts!Applied, Alerts!Changed
  <2>5. Record(store[a], <<c>>) = IF key = a THEN v ELSE store[a]
    BY DEF Record
  <2> QED BY <1>2, <2>2, <2>3, <2>4, <2>5
<1>4. /\ store' = [k \in Keys |-> store'[k]] /\ todo' = [v \in Requests |-> todo'[v]]
      /\ doc' = [v \in Requests |-> doc'[v]]
      /\ todo'[r] = <<>> \/ todo'[r] = todo[r]
      /\ Record(store'[a], todo'[r]) = Record(store[a], todo[r])
      /\ doc'[r] # NoDoc => Backend = "gist" /\ doc'[r] = store'
  <2>1. ASSUME NEW f, f = store, todo[r] # <<>>,
               store' = Alerts!Applied(f, todo[r][1]), todo' = [todo EXCEPT ![r] = <<>>],
               doc' = [doc EXCEPT ![r] = NoDoc] \/ (doc' = doc /\ doc[r] = NoDoc)
        PROVE  /\ store' = [k \in Keys |-> store'[k]] /\ todo' = [v \in Requests |-> todo'[v]]
               /\ doc' = [v \in Requests |-> doc'[v]]
               /\ todo'[r] = <<>> \/ todo'[r] = todo[r]
               /\ Record(store'[a], todo'[r]) = Record(store[a], todo[r])
               /\ doc'[r] # NoDoc => Backend = "gist" /\ doc'[r] = store'
    <3>1. /\ store' = [k \in Keys |-> store'[k]]
          /\ store'[a] = Record(store[a], todo[r])
      BY <1>2, <1>3, <2>1 DEF Alerts!Applied
    <3>2. Record(store'[a], <<>>) = store'[a]
      BY DEF Record
    <3> QED BY <1>2, <2>1, <3>1, <3>2
  <2>2. CASE Alerts!RedisCommand(r)
    <3>1. /\ todo[r] # <<>> /\ store' = Alerts!Applied(store, Head(todo[r]))
          /\ todo' = [todo EXCEPT ![r] = Tail(todo[r])] /\ doc' = doc /\ doc[r] = NoDoc
      BY <1>2, <2>2 DEF Alerts!RedisCommand, Alerts!Settled
    <3>2. Head(todo[r]) = todo[r][1] /\ Tail(todo[r]) = <<>>
      <4>1. todo[r] = <<todo[r][1]>>
        BY <1>3, <3>1
      <4>2. \A c : Head(<<c>>) = c /\ Tail(<<c>>) = <<>>
        OBVIOUS
      <4> QED BY <4>1, <4>2
    <3> QED BY <2>1, <3>1, <3>2
  <2>3. CASE Alerts!GistLoad(r)
    BY <1>2, <2>3 DEF Alerts!GistLoad
  <2>4. CASE Alerts!GistSave(r)
    <3>1. /\ todo[r] # <<>> /\ store' = Alerts!Executed(store, todo[r])
          /\ todo' = [todo EXCEPT ![r] = <<>>] /\ doc' = [doc EXCEPT ![r] = NoDoc]
      BY <1>2, <2>4 DEF Alerts!GistSave, Alerts!Settled
    <3>2. Len(todo[r]) = 1
      <4>1. todo[r] = <<todo[r][1]>>
        BY <1>3, <3>1
      <4>2. \A c : Len(<<c>>) = 1
        OBVIOUS
      <4> QED BY <4>1, <4>2
    <3>3. store' = Alerts!Applied(store, todo[r][1])
      BY <3>1, <3>2 DEF Alerts!Executed
    <3> QED BY <2>1, <3>1, <3>3
  <2> QED BY <1>1, <2>2, <2>3, <2>4 DEF Alerts!KvStep
<1> QED BY <1>1, <1>2, <1>4 DEF TellInv, GoodWrite

LEMMA TellStep ==
  ASSUME Alerts!AlertsAssumption, OneCheck, TellInv, [Alerts!Next]_(Alerts!vars)
  PROVE  TellInv'
<1>1. CASE UNCHANGED Alerts!vars
  BY <1>1 DEF Alerts!vars, Alerts!kv_vars, Alerts!device_vars, TellInv
<1>2. ASSUME NEW r \in Requests, Alerts!CheckSteps(r) PROVE TellInv'
  BY <1>2, ReadPositionTells, CompareBandTells, ListingTells, SendingTells, DropDeadTells,
     RecordingTells, StoreTells DEF Alerts!CheckSteps
<1>3. ASSUME NEW r \in Requests, Alerts!Stop(r) PROVE FALSE
  BY <1>3 DEF Alerts!Stop, OneCheck, TellInv
<1>4. ASSUME NEW e \in Endpoints, Alerts!Reload(e) \/ Alerts!Expire(e) PROVE TellInv'
  BY <1>4 DEF Alerts!Reload, Alerts!Expire, Alerts!kv_vars, TellInv
<1>5. ASSUME NEW b \in Bands \cup {NoLoan}, Alerts!Move(b) PROVE TellInv'
  BY <1>5, MoveTells DEF Alerts!AlertsAssumption, Rank
<1> QED BY <1>1, <1>2, <1>3, <1>4, <1>5, DevicesTell DEF Alerts!Next

(* "A new push is sent only when the position enters a worse band" (spec.md:60): when   *)
(* requests do not overlap and none stops, between two alerts on one device the       *)
(* position was in a better band than the second tells of, or had no loan.             *)
THEOREM EntersWorseAlways ==
  ASSUME Alerts!AlertsAssumption, OneCheck
  PROVE  Alerts!Spec => []Alerts!EntersWorse
<1>1. Alerts!Init => TellInv
  BY TellInit
<1>2. TellInv /\ [Alerts!Next]_(Alerts!vars) => TellInv'
  BY TellStep
<1>3. TellInv => Alerts!EntersWorse
  <2> SUFFICES ASSUME TellInv, NEW e \in Endpoints, NEW i \in DOMAIN pushed[e],
                      NEW j \in DOMAIN pushed[e], i < j
               PROVE  \E b \in Alerts!BandsBetween(pushed[e][i], pushed[e][j]) :
                        b = NoLoan \/ b < pushed[e][j].band
    BY DEF Alerts!EntersWorse
  <2>1. PICK m \in pushed[e][i].seen .. pushed[e][j].seen :
          bands[m] = NoLoan \/ bands[m] < pushed[e][j].band
    BY DEF TellInv, ToldInTurn
  <2> QED BY <2>1 DEF Alerts!BandsBetween
<1> QED BY <1>1, <1>2, <1>3, PTL DEF Alerts!Spec
=============================================================================
