-------------------------- MODULE SavingsPoolProofs --------------------------
(***************************************************************************)
(* The promises of SavingsPool follow from its actions alone.               *)
(***************************************************************************)
EXTENDS SavingsPool, TLAPS

PoolInv == BooksOK /\ Backed /\ Settled

(* Redeeming part of the shares at a price of at least one, rounded down,    *)
(* leaves at least one unit behind for every share that stays.              *)
LEMMA RedeemKeepsBacking ==
  ASSUME NEW v \in Nat, NEW t \in Nat, NEW paid \in Nat, NEW burned \in Nat,
         t <= v, burned <= t, paid * t <= burned * v, 0 < t
  PROVE  t - burned <= v - paid
<1>1. v * (t - burned) <= t * (v - paid)
  <2>1. v * (t - burned) = v * t - burned * v
    OBVIOUS
  <2>2. t * (v - paid) = v * t - paid * t
    OBVIOUS
  <2> QED BY <2>1, <2>2
<1>2. t * (t - burned) <= v * (t - burned)
  <2>1. t - burned \in Nat
    OBVIOUS
  <2> QED BY <2>1
<1>3. t * (t - burned) <= t * (v - paid)
  BY <1>1, <1>2
<1>4. \A x, y \in Int : t * x <= t * y => x <= y
  OBVIOUS
<1> QED BY <1>3, <1>4

(* Funding at a price of at least one mints no more shares than cash comes. *)
LEMMA FundKeepsBacking ==
  ASSUME NEW v \in Nat, NEW t \in Nat, NEW paid \in Nat, NEW minted \in Nat,
         t <= v, 0 < t, minted * v <= paid * t
  PROVE  minted <= paid
<1>1. paid * t <= paid * v
  OBVIOUS
<1>2. minted * v <= paid * v
  BY <1>1
<1>3. 0 < v
  OBVIOUS
<1> QED BY <1>2, <1>3

(* Every step keeps the books natural, the shares backed and an empty pool  *)
(* settled.                                                                 *)
LEMMA PoolInductive == PoolInv /\ [Next]_books => PoolInv'
<1> SUFFICES ASSUME PoolInv, [Next]_books PROVE PoolInv'
  OBVIOUS
<1> USE DEF PoolInv, BooksOK, Backed, Settled, value
<1>b. PICK c, l, f, i \in Nat : cash' = c /\ loans' = l /\ fees' = f /\ issued' = i
  BY DEF Next, books
<1>1. CASE Fund
  <2>u. l = loans /\ f = fees /\ c > cash /\ i > issued
    BY <1>1, <1>b DEF Fund
  <2>1. CASE issued = 0
    <3>1. i - issued = c - cash
      BY <1>1, <1>b, <2>1 DEF Fund
    <3> QED BY <1>b, <2>u, <2>1, <3>1
  <2>2. CASE issued # 0
    <3>1. c - cash \in Nat /\ i - issued \in Nat /\ value \in Nat
      BY <2>u
    <3>2. (i - issued) * value <= (c - cash) * issued
      BY <1>1, <1>b, <2>2 DEF Fund
    <3>3. i - issued <= c - cash
      BY <2>2, <3>1, <3>2, FundKeepsBacking
    <3> QED BY <1>b, <2>u, <2>2, <3>3
  <2> QED BY <2>1, <2>2
<1>2. CASE Redeem
  <2>u. /\ l = loans /\ f = fees /\ c < cash /\ i < issued
        /\ i = 0 => loans = 0 /\ c = fees
    BY <1>2, <1>b DEF Redeem
  <2>1. /\ cash - c \in Nat /\ issued - i \in Nat /\ value \in Nat
        /\ issued - i <= issued /\ 0 < issued
    BY <2>u
  <2>2. (cash - c) * issued <= (issued - i) * value
    BY <1>2, <1>b DEF Redeem
  <2>3. issued - (issued - i) <= value - (cash - c)
    BY <2>1, <2>2, RedeemKeepsBacking
  <2> QED BY <1>b, <2>u, <2>3
<1>3. CASE Service
  BY <1>3, <1>b DEF Service
<1>4. CASE Collect
  BY <1>4, <1>b DEF Collect
<1>5. CASE UNCHANGED books
  BY <1>5 DEF books
<1> QED BY <1>1, <1>2, <1>3, <1>4, <1>5 DEF Next

(* No step lowers the price of a share.                                     *)
LEMMA PriceStep == PoolInv /\ [Next]_books => value' * issued >= value * issued'
<1> SUFFICES ASSUME PoolInv, [Next]_books PROVE value' * issued >= value * issued'
  OBVIOUS
<1>b. PICK c, l, f, i \in Nat : cash' = c /\ loans' = l /\ fees' = f /\ issued' = i
  BY DEF PoolInv, BooksOK, Next, books
<1>v. PICK v \in Nat : value = v
  BY DEF PoolInv, BooksOK, Backed, value
<1>t. issued \in Nat /\ cash \in Nat /\ loans \in Nat /\ fees \in Nat
  BY DEF PoolInv, BooksOK
<1>w. value' = c + l - f
  BY <1>b DEF value
<1> SUFFICES (c + l - f) * issued >= v * i
  BY <1>b, <1>v, <1>w
<1>1. CASE Fund
  <2>u. l = loans /\ f = fees
    BY <1>1, <1>b DEF Fund
  <2>1. CASE issued = 0
    BY <1>v, <1>t, <2>1 DEF PoolInv, Settled, value
  <2>2. CASE issued # 0
    <3>1. (i - issued) * v <= (c - cash) * issued
      BY <1>1, <1>b, <1>v, <2>2 DEF Fund
    <3>2. (c + l - f) * issued = v * issued + (c - cash) * issued
      BY <1>v, <1>t, <2>u DEF value
    <3>3. v * i = v * issued + (i - issued) * v
      BY <1>t
    <3> QED BY <1>t, <3>1, <3>2, <3>3
  <2> QED BY <2>1, <2>2
<1>2. CASE Redeem
  <2>1. (cash - c) * issued <= (issued - i) * v
    BY <1>2, <1>b, <1>v DEF Redeem
  <2>2. (c + l - f) * issued = v * issued - (cash - c) * issued
    BY <1>2, <1>b, <1>v, <1>t DEF Redeem, value
  <2>3. v * i = v * issued - (issued - i) * v
    BY <1>t
  <2> QED BY <1>t, <2>1, <2>2, <2>3
<1>3. CASE Service \/ Collect \/ UNCHANGED books
  <2>1. c + l - f >= v /\ i = issued
    BY <1>3, <1>b, <1>v, <1>t DEF Service, Collect, books, value
  <2>2. \A x \in Int : x >= v => x * i >= v * i
    OBVIOUS
  <2> QED BY <2>1, <2>2, <1>t
<1> QED BY <1>1, <1>2, <1>3 DEF Next

(* The pool stays backed and settled whatever its users do.                 *)
THEOREM PoolPromises == Spec => [](Backed /\ Settled)
<1>1. Init => PoolInv
  BY DEF Init, PoolInv, BooksOK, Backed, Settled, value
<1>2. PoolInv => Backed /\ Settled
  BY DEF PoolInv
<1> QED BY <1>1, <1>2, PoolInductive, PTL DEF Spec

(* No user of the pool ever pays for another: the share price is monotone.  *)
THEOREM PoolPriceMonotone == Spec => PriceNeverFalls
<1>1. Init => PoolInv
  BY DEF Init, PoolInv, BooksOK, Backed, Settled, value
<1>2. PoolInv /\ [Next]_books => [value' * issued >= value * issued']_books
  BY PriceStep
<1> QED BY <1>1, <1>2, PoolInductive, PTL DEF Spec, PriceNeverFalls
=============================================================================
