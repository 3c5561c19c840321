----------------------------- MODULE PriceSigner -----------------------------
(***************************************************************************)
(* The price signer's decision rules (app/src/lib/prices/signer.ts): from the  *)
(* readings of one symbol, whether to post a price and which.  Prices are      *)
(* natural numbers, 0 for none; a posted price is in 1 / PriceScale of them.   *)
(***************************************************************************)
EXTENDS Naturals, Sequences

CONSTANTS
  AgreementBps,   \* 200
  MinLiquidity,   \* 100_000 USD
  MaxStockAge,    \* 15 min
  MaxPythAge,     \* 5 min
  MaxPythConf,    \* 100 bps
  PriceScale,     \* 10^6
  Unknown         \* a flag or an age nobody gave

ASSUME SignerAssumption ==
  {AgreementBps, MinLiquidity, MaxStockAge, MaxPythAge, MaxPythConf, PriceScale}
    \subseteq Nat \ {0}

RoundDiv(a, b) == (2 * a + b) \div (2 * b)
Apart(a, b) == IF a > b THEN a - b ELSE b - a

spreadBps(a, b) == RoundDiv(20000 * Apart(a, b), a + b)
(* Of one price, two or three. *)
Total(prices) ==
  prices[1] + (IF Len(prices) > 1 THEN prices[2] ELSE 0)
            + (IF Len(prices) > 2 THEN prices[3] ELSE 0)
meanE6(prices) == RoundDiv(PriceScale * Total(prices), Len(prices))

-----------------------------------------------------------------------------
(* A reading: [primary, jupiter, liquidity, stockAge, pyth, pythAge, pythConf, *)
(* open, halted].                                                             *)

usablePyth(r) == r.pyth > 0 /\ r.pythAge <= MaxPythAge /\ r.pythConf <= MaxPythConf
jupiterUsable(r) == r.jupiter > 0 /\ r.liquidity >= MinLiquidity

One(present, name, price) ==
  IF present THEN <<[name |-> name, price |-> price]>> ELSE <<>>
candidates(r) ==
  One(r.primary > 0, "primary", r.primary)
    \o One(jupiterUsable(r), "jupiter", r.jupiter)
    \o One(usablePyth(r), "pyth", r.pyth)

Pairs(c) == {p \in (DOMAIN c) \X (DOMAIN c) : p[1] < p[2]}
Bps(c, p) == spreadBps(c[p[1]].price, c[p[2]].price)

SomeAgree(c) == \E p \in Pairs(c) : Bps(c, p) <= AgreementBps
AllAgree(c)  == \A p \in Pairs(c) : Bps(c, p) <= AgreementBps
Agreeing(c)        == {p \in Pairs(c) : Bps(c, p) <= AgreementBps}

(* The pair the two loops keep: the closest, and the first of those.           *)
Earlier(p, q) == p[1] < q[1] \/ (p[1] = q[1] /\ p[2] <= q[2])
agreeingPair(c) ==
  CHOOSE p \in Agreeing(c) :
    \A q \in Agreeing(c) :
      Bps(c, p) < Bps(c, q) \/ (Bps(c, p) = Bps(c, q) /\ Earlier(p, q))

Skip == [action |-> "skip"]
Post(c, used) ==
  [action |-> "post", used |-> used,
   priceE6 |-> meanE6([k \in DOMAIN used |-> c[used[k]].price])]

Closed(r, lastSource) ==
  \/ r.halted
  \/ r.primary = 0 /\ ~usablePyth(r)
  \/ r.jupiter > 0 /\ r.stockAge # Unknown /\ r.stockAge > MaxStockAge
  \/ r.open = FALSE
Gated(r, lastSource) == lastSource = "demo" \/ Closed(r, lastSource)

decide(r, lastSource) ==
  LET c == candidates(r)
  IN  IF Gated(r, lastSource)
      THEN Skip
      ELSE IF AllAgree(c)
           THEN Post(c, [k \in DOMAIN c |-> k])
           ELSE IF Len(c) = 3 /\ Agreeing(c) # {}
                THEN Post(c, agreeingPair(c))
                ELSE Skip
=============================================================================
