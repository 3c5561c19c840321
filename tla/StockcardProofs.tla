--------------------------- MODULE StockcardProofs ---------------------------
(***************************************************************************)
(* Theorems about Stockcard for every choice of its constants.              *)
(*                                                                         *)
(* The six instructions on a position share one shape (PositionStep): the  *)
(* position is accrued and rewritten, and the books move by what moved in   *)
(* it.  One lemma per instruction reduces it to that shape; every invariant *)
(* is then preserved by the shape, the savings instructions and the rest.   *)
(***************************************************************************)
EXTENDS Stockcard, Functions, FiniteSetTheorems, WellFoundedInduction, TLAPS

-----------------------------------------------------------------------------
(* Sums over ledgers.  Config.total_borrowed, Config.total_shares and          *)
(* Market.total_collateral are running totals of per-account fields; to prove   *)
(* that they stay equal to those sums, the proofs need to know what             *)
(* SumFunctionOnSet does when one entry changes.  It is a fold, that is, a      *)
(* recursive function on SUBSET S: its recursion equation, and each induction   *)
(* over finite sets below, comes from the well-foundedness of strict inclusion  *)
(* (MinimalSubset).                                                            *)

(* The element the fold removes first from the set T. *)
Picked(T) == CHOOSE x \in T : TRUE

(* g is the table the fold computes for f over the subsets of A. *)
IsSumTable(g, f, A) ==
  g = [T \in SUBSET A |->
         IF T = {} THEN 0 ELSE f[Picked(T)] + g[T \ {Picked(T)}]]

(* A non-empty family of subsets of a finite set has a member that includes *)
(* no other member: induction over finite sets, stated over families.       *)
LEMMA MinimalSubset ==
  ASSUME NEW S, IsFiniteSet(S), NEW F \in SUBSET (SUBSET S), F # {}
  PROVE  \E A \in F : \A B \in F : B \subseteq A => B = A
<1>1. IsWellFoundedOn(StrictSubsetOrdering(S), SUBSET S)
  BY FS_StrictSubsetOrderingWellFounded, FS_FiniteSubsetsOfFinite
<1>2. \E A \in F : \A B \in F : ~(<<B, A>> \in StrictSubsetOrdering(S))
  BY <1>1, WFMin
<1> QED
  BY <1>2 DEF StrictSubsetOrdering

(* Two tables of the same function agree wherever both are defined. *)
LEMMA SumTablesAgree ==
  ASSUME NEW f, NEW A, NEW B, IsFiniteSet(A), NEW g, NEW h,
         IsSumTable(g, f, A), IsSumTable(h, f, B)
  PROVE  \A T \in SUBSET (A \cap B) : g[T] = h[T]
<1> DEFINE Differ == {T \in SUBSET (A \cap B) : g[T] # h[T]}
<1>1. SUFFICES ASSUME Differ # {} PROVE FALSE
  OBVIOUS
<1>2. Differ \in SUBSET (SUBSET A)
  OBVIOUS
<1>3. PICK T \in Differ : \A U \in Differ : U \subseteq T => U = T
  <2> HIDE DEF Differ
  <2> QED BY <1>1, <1>2, MinimalSubset
<1>4. T # {}
  BY DEF IsSumTable
<1>5. Picked(T) \in T
  BY <1>4 DEF Picked
<1>6. g[T \ {Picked(T)}] = h[T \ {Picked(T)}]
  BY <1>3, <1>5
<1> QED
  BY <1>4, <1>6 DEF IsSumTable

(* The table exists: the fold is well defined on every finite set. *)
LEMMA SumTableExists ==
  ASSUME NEW f, NEW S, IsFiniteSet(S)
  PROVE  \E g : IsSumTable(g, f, S)
<1> DEFINE Missing == {A \in SUBSET S : ~ \E g : IsSumTable(g, f, A)}
<1>1. SUFFICES ASSUME Missing # {} PROVE FALSE
  OBVIOUS
<1>2. PICK A \in Missing : \A B \in Missing : B \subseteq A => B = A
  <2> Missing \in SUBSET (SUBSET S)
    OBVIOUS
  <2> HIDE DEF Missing
  <2> QED BY <1>1, MinimalSubset
<1> DEFINE Table(B) == CHOOSE g : IsSumTable(g, f, B)
           Entry(T) == IF T = {} THEN 0
                       ELSE f[Picked(T)] + Table(T \ {Picked(T)})[T \ {Picked(T)}]
           Whole == [T \in SUBSET A |-> Entry(T)]
<1>3. \A B \in SUBSET A : B # A => IsSumTable(Table(B), f, B)
  <2> TAKE B \in SUBSET A
  <2> HAVE B # A
  <2>1. \E g : IsSumTable(g, f, B)
    BY <1>2
  <2> QED BY <2>1
<1>4. ASSUME NEW T \in SUBSET A, T # {}
      PROVE  Whole[T \ {Picked(T)}] = Table(T \ {Picked(T)})[T \ {Picked(T)}]
  <2> DEFINE R == T \ {Picked(T)}
  <2> SUFFICES Whole[R] = Table(R)[R]
    OBVIOUS
  <2>1. R \in SUBSET A /\ R # A
    BY <1>4 DEF Picked
  <2>2. IsSumTable(Table(R), f, R)
    BY <1>3, <2>1
  <2>3. Table(R)[R] = IF R = {} THEN 0
                      ELSE f[Picked(R)] + Table(R)[R \ {Picked(R)}]
    <3> HIDE DEF R, Table
    <3> QED BY <2>2 DEF IsSumTable
  <2>4. CASE R = {}
    <3>1. Whole[R] = 0
      BY <2>1, <2>4
    <3> HIDE DEF R, Table, Whole
    <3> QED BY <2>3, <2>4, <3>1
  <2>5. CASE R # {}
    <3> DEFINE Q == R \ {Picked(R)}
    <3>1. Q \in SUBSET R /\ Q \in SUBSET A /\ Q # A
      BY <2>1, <2>5 DEF Picked
    <3>2. IsSumTable(Table(Q), f, Q)
      BY <1>3, <3>1
    <3>3. IsFiniteSet(R)
      BY <2>1, FS_Subset
    <3>4. Table(R)[Q] = Table(Q)[Q]
      <4> HIDE DEF Q, R, Table
      <4> Q \in SUBSET (R \cap Q)
        BY <3>1
      <4> QED BY <2>2, <3>2, <3>3, SumTablesAgree
    <3>5. Whole[R] = f[Picked(R)] + Table(Q)[Q]
      BY <2>1, <2>5
    <3> HIDE DEF R, Table, Whole
    <3> QED BY <2>3, <2>5, <3>4, <3>5
  <2> QED BY <2>4, <2>5
<1>5. IsSumTable(Whole, f, A)
  <2>1. \A T \in SUBSET A :
          Whole[T] = IF T = {} THEN 0 ELSE f[Picked(T)] + Whole[T \ {Picked(T)}]
    <3> TAKE T \in SUBSET A
    <3>1. CASE T = {}
      BY <3>1
    <3>2. CASE T # {}
      <4>1. Whole[T] = f[Picked(T)] + Table(T \ {Picked(T)})[T \ {Picked(T)}]
        BY <3>2
      <4> HIDE DEF Whole, Table
      <4> QED BY <1>4, <3>2, <4>1
    <3> QED BY <3>1, <3>2
  <2>2. Whole = [T \in SUBSET A |-> Whole[T]]
    OBVIOUS
  <2> HIDE DEF Whole
  <2> QED BY <2>1, <2>2 DEF IsSumTable
<1> QED
  <2> HIDE DEF Whole
  <2> QED BY <1>2, <1>5

(* The fold agrees with any table that covers its set. *)
LEMMA SumIsTable ==
  ASSUME NEW f, NEW S, IsFiniteSet(S), NEW g, IsSumTable(g, f, S),
         NEW T \in SUBSET S
  PROVE  SumFunctionOnSet(f, T) = g[T]
<1> DEFINE it == CHOOSE h : IsSumTable(h, f, T)
<1>1. SumFunctionOnSet(f, T) = it[T]
  BY DEF SumFunctionOnSet, FoldFunctionOnSet, MapThenFoldSet, IsSumTable, Picked
<1>2. IsFiniteSet(T)
  BY FS_Subset
<1>3. IsSumTable(it, f, T)
  BY <1>2, SumTableExists
<1> HIDE DEF it
<1>4. g[T] = it[T]
  <2> T \in SUBSET (T \cap S)
    OBVIOUS
  <2> QED BY <1>2, <1>3, SumTablesAgree
<1> QED
  BY <1>1, <1>4

(* The recursion equation of the fold. *)
LEMMA SumStep ==
  ASSUME NEW f, NEW S, IsFiniteSet(S)
  PROVE  SumFunctionOnSet(f, S) =
           IF S = {} THEN 0
           ELSE f[Picked(S)] + SumFunctionOnSet(f, S \ {Picked(S)})
<1>1. PICK g : IsSumTable(g, f, S)
  BY SumTableExists
<1>2. SumFunctionOnSet(f, S) = g[S]
  BY <1>1, SumIsTable
<1>3. SumFunctionOnSet(f, S \ {Picked(S)}) = g[S \ {Picked(S)}]
  BY <1>1, SumIsTable
<1> QED
  BY <1>1, <1>2, <1>3 DEF IsSumTable

(* The sum of no entries, and the sum of naturals, are naturals. *)
LEMMA SumEmpty == \A f : SumFunctionOnSet(f, {}) = 0
  BY SumStep, FS_EmptySet

LEMMA SumNat ==
  ASSUME NEW S, IsFiniteSet(S), NEW f, \A x \in S : f[x] \in Nat
  PROVE  SumFunctionOnSet(f, S) \in Nat
<1> DEFINE Bad == {T \in SUBSET S : SumFunctionOnSet(f, T) \notin Nat}
<1>1. SUFFICES ASSUME Bad # {} PROVE FALSE
  OBVIOUS
<1>2. PICK T \in Bad : \A U \in Bad : U \subseteq T => U = T
  <2> Bad \in SUBSET (SUBSET S)
    OBVIOUS
  <2> HIDE DEF Bad
  <2> QED BY <1>1, MinimalSubset
<1>3. IsFiniteSet(T)
  BY FS_Subset
<1>4. T # {}
  BY SumEmpty
<1>5. Picked(T) \in T
  BY <1>4 DEF Picked
<1>6. SumFunctionOnSet(f, T \ {Picked(T)}) \in Nat
  BY <1>2, <1>5
<1>7. SumFunctionOnSet(f, T) = f[Picked(T)] + SumFunctionOnSet(f, T \ {Picked(T)})
  BY <1>3, <1>4, SumStep
<1> QED
  BY <1>5, <1>6, <1>7

(* Functions that agree on S have the same sum over S. *)
LEMMA SumCongruent ==
  ASSUME NEW S, IsFiniteSet(S), NEW f, NEW h, \A x \in S : f[x] = h[x]
  PROVE  SumFunctionOnSet(f, S) = SumFunctionOnSet(h, S)
<1> DEFINE Bad == {T \in SUBSET S : SumFunctionOnSet(f, T) # SumFunctionOnSet(h, T)}
<1>1. SUFFICES ASSUME Bad # {} PROVE FALSE
  OBVIOUS
<1>2. PICK T \in Bad : \A U \in Bad : U \subseteq T => U = T
  <2> Bad \in SUBSET (SUBSET S)
    OBVIOUS
  <2> HIDE DEF Bad
  <2> QED BY <1>1, MinimalSubset
<1>3. IsFiniteSet(T)
  BY FS_Subset
<1>4. T # {}
  BY SumEmpty
<1>5. Picked(T) \in T
  BY <1>4 DEF Picked
<1>6. SumFunctionOnSet(f, T \ {Picked(T)}) = SumFunctionOnSet(h, T \ {Picked(T)})
  BY <1>2, <1>5
<1> QED
  BY <1>3, <1>4, <1>5, <1>6, SumStep

(* Any entry can be taken out first: the order of the fold is irrelevant. *)
LEMMA SumExtract ==
  ASSUME NEW S, IsFiniteSet(S), NEW f, \A x \in S : f[x] \in Nat, NEW u \in S
  PROVE  SumFunctionOnSet(f, S) = f[u] + SumFunctionOnSet(f, S \ {u})
<1> DEFINE Bad == {T \in SUBSET S :
                     \E v \in T : SumFunctionOnSet(f, T) # f[v] + SumFunctionOnSet(f, T \ {v})}
<1>1. SUFFICES ASSUME Bad # {} PROVE FALSE
  OBVIOUS
<1>2. PICK T \in Bad : \A U \in Bad : U \subseteq T => U = T
  <2> Bad \in SUBSET (SUBSET S)
    OBVIOUS
  <2> HIDE DEF Bad
  <2> QED BY <1>1, MinimalSubset
<1>3. PICK v \in T : SumFunctionOnSet(f, T) # f[v] + SumFunctionOnSet(f, T \ {v})
  OBVIOUS
<1> DEFINE x == Picked(T)
<1>4. x \in T
  BY DEF Picked
<1> HIDE DEF x
<1>5. IsFiniteSet(T) /\ IsFiniteSet(T \ {x}) /\ IsFiniteSet(T \ {v}) /\ IsFiniteSet((T \ {x}) \ {v})
  BY FS_Subset
<1>6. SumFunctionOnSet(f, T) = f[x] + SumFunctionOnSet(f, T \ {x})
  BY <1>4, <1>5, SumStep DEF x
<1>7. v # x
  BY <1>3, <1>6
<1>12. ASSUME NEW y \in T, NEW z \in T \ {y}
       PROVE  SumFunctionOnSet(f, T \ {y}) = f[z] + SumFunctionOnSet(f, (T \ {y}) \ {z})
  <2>1. T \ {y} \in SUBSET S /\ T \ {y} \subseteq T /\ T \ {y} # T
    OBVIOUS
  <2>2. T \ {y} \notin Bad
    <3> HIDE DEF Bad
    <3> QED BY <1>2, <2>1
  <2> QED BY <2>1, <2>2
<1>8. SumFunctionOnSet(f, T \ {x}) = f[v] + SumFunctionOnSet(f, (T \ {x}) \ {v})
  <2> HIDE DEF Bad
  <2> QED BY <1>4, <1>7, <1>12
<1>9. SumFunctionOnSet(f, T \ {v}) = f[x] + SumFunctionOnSet(f, (T \ {v}) \ {x})
  <2> HIDE DEF Bad
  <2> QED BY <1>4, <1>7, <1>12
<1>10. (T \ {x}) \ {v} = (T \ {v}) \ {x}
  OBVIOUS
<1>11. SumFunctionOnSet(f, (T \ {x}) \ {v}) \in Nat /\ f[x] \in Nat /\ f[v] \in Nat
  BY <1>4, <1>5, SumNat
<1> HIDE DEF Bad
<1> QED
  BY <1>3, <1>6, <1>8, <1>9, <1>10, <1>11

(* An entry of a ledger is at most its total. *)
LEMMA SumBoundsEntry ==
  ASSUME NEW S, IsFiniteSet(S), NEW f, \A x \in S : f[x] \in Nat, NEW u \in S
  PROVE  f[u] <= SumFunctionOnSet(f, S)
<1>1. IsFiniteSet(S \ {u})
  BY FS_Subset
<1>2. SumFunctionOnSet(f, S \ {u}) \in Nat
  BY <1>1, SumNat
<1> QED
  BY <1>2, SumExtract

(* When one entry of S changes, the total moves by the change of the entry; *)
(* when the entry is not in S the total stays.                              *)
LEMMA SumUpdate ==
  ASSUME NEW D, NEW S, S \subseteq D, IsFiniteSet(S),
         NEW f \in [D -> Nat], NEW h \in [D -> Nat],
         NEW u \in D, \A x \in D \ {u} : h[x] = f[x]
  PROVE  /\ u \in S => SumFunctionOnSet(h, S) = SumFunctionOnSet(f, S) - f[u] + h[u]
         /\ u \notin S => SumFunctionOnSet(h, S) = SumFunctionOnSet(f, S)
<1>1. ASSUME u \in S
      PROVE  SumFunctionOnSet(h, S) = SumFunctionOnSet(f, S) - f[u] + h[u]
  <2>1. IsFiniteSet(S \ {u})
    BY FS_Subset
  <2>2. SumFunctionOnSet(h, S) = h[u] + SumFunctionOnSet(h, S \ {u})
    BY <1>1, SumExtract
  <2>3. SumFunctionOnSet(f, S) = f[u] + SumFunctionOnSet(f, S \ {u})
    BY <1>1, SumExtract
  <2>4. SumFunctionOnSet(h, S \ {u}) = SumFunctionOnSet(f, S \ {u})
    BY <2>1, SumCongruent
  <2>5. SumFunctionOnSet(f, S \ {u}) \in Nat
    BY <2>1, SumNat
  <2>6. h[u] \in Nat /\ f[u] \in Nat
    OBVIOUS
  <2> QED BY <2>2, <2>3, <2>4, <2>5, <2>6
<1>2. ASSUME u \notin S
      PROVE  SumFunctionOnSet(h, S) = SumFunctionOnSet(f, S)
  BY <1>2, SumCongruent
<1> QED BY <1>1, <1>2

(* A ledger whose entries are all zero sums to zero. *)
LEMMA SumZero ==
  ASSUME NEW S, IsFiniteSet(S), NEW f, \A x \in S : f[x] = 0
  PROVE  SumFunctionOnSet(f, S) = 0
<1> DEFINE Bad == {T \in SUBSET S : SumFunctionOnSet(f, T) # 0}
<1>1. SUFFICES ASSUME Bad # {} PROVE FALSE
  OBVIOUS
<1>2. PICK T \in Bad : \A U \in Bad : U \subseteq T => U = T
  <2> Bad \in SUBSET (SUBSET S)
    OBVIOUS
  <2> HIDE DEF Bad
  <2> QED BY <1>1, MinimalSubset
<1>3. IsFiniteSet(T)
  BY FS_Subset
<1>4. T # {}
  BY SumEmpty
<1>5. Picked(T) \in T
  BY <1>4 DEF Picked
<1>6. SumFunctionOnSet(f, T \ {Picked(T)}) = 0
  BY <1>2, <1>5
<1> QED
  BY <1>3, <1>4, <1>5, <1>6, SumStep

(* Distinct accounts hold their entries side by side within the total. *)
LEMMA SumBoundsPair ==
  ASSUME NEW S, IsFiniteSet(S), NEW f, \A x \in S : f[x] \in Nat,
         NEW u \in S, NEW w \in S, u # w
  PROVE  f[u] + f[w] <= SumFunctionOnSet(f, S)
<1>1. IsFiniteSet(S \ {u})
  BY FS_Subset
<1>2. f[w] <= SumFunctionOnSet(f, S \ {u})
  BY <1>1, SumBoundsEntry
<1>3. SumFunctionOnSet(f, S \ {u}) \in Nat
  BY <1>1, SumNat
<1> QED
  BY <1>2, <1>3, SumExtract

-----------------------------------------------------------------------------
(* Arithmetic *)

USE ScaleAssumption DEF U64, FitsU64

LEMMA FloorDiv ==
  ASSUME NEW n \in Nat, NEW d \in Nat \ {0}
  PROVE  n \div d \in Nat /\ (n \div d) * d <= n
OBVIOUS

LEMMA CeilDivBounds ==
  ASSUME NEW n \in Nat, NEW d \in Nat \ {0}
  PROVE  /\ CeilDiv(n, d) \in Nat
         /\ \A k \in Nat : n <= k * d => CeilDiv(n, d) <= k
<1>1. CASE n = 0
  BY <1>1 DEF CeilDiv
<1>2. CASE n # 0
  <2>1. PICK q \in Nat : q = (n - 1) \div d /\ q * d <= n - 1
    BY <1>2, FloorDiv
  <2>2. CeilDiv(n, d) = q + 1
    BY <1>2, <2>1 DEF CeilDiv
  <2>3. ASSUME NEW k \in Nat, n <= k * d PROVE q + 1 <= k
    <3>1. q * d < k * d
      BY <1>2, <2>1, <2>3
    <3>2. ~(k <= q)
      <4>1. k <= q => k * d <= q * d
        OBVIOUS
      <4> QED BY <3>1, <4>1
    <3> QED BY <3>2
  <2> QED BY <2>2, <2>3
<1> QED BY <1>1, <1>2

(* The protocol's share is a part of the interest. *)
LEMMA ShareOfInterest ==
  ASSUME NEW i \in Nat
  PROVE  /\ ReserveShare(i, PROTOCOL_SHARE_BPS) \in Nat
         /\ ReserveShare(i, PROTOCOL_SHARE_BPS) <= i
<1>1. i * PROTOCOL_SHARE_BPS \in Nat /\ i * PROTOCOL_SHARE_BPS <= i * BPS
  BY ConfigAssumption
<1> QED BY <1>1, CeilDivBounds DEF ReserveShare

LEMMA InterestNat ==
  ASSUME NEW debt \in Nat, NEW apr \in Nat, NEW elapsed \in Nat
  PROVE  AccrueInterest(debt, apr, elapsed) \in Nat
<1>1. debt * apr * elapsed \in Nat
  OBVIOUS
<1>2. BPS * SECONDS_PER_YEAR \in Nat \ {0}
  OBVIOUS
<1> QED BY <1>1, <1>2, CeilDivBounds DEF AccrueInterest

LEMMA PriceNat ==
  ASSUME NEW price \in Nat, NEW expo \in Expos
  PROVE  PriceToUsd6(price, expo) \in Nat
<1>1. CASE expo + USD_DECIMALS >= 0
  <2>1. 10 ^ (expo + USD_DECIMALS) \in Nat
    <3>1. expo + USD_DECIMALS \in 0 .. USD_DECIMALS
      BY <1>1 DEF Expos, MinExpo, USD_DECIMALS
    <3> QED BY <3>1, PowersOfTen
  <2> QED BY <1>1, <2>1 DEF PriceToUsd6
<1>2. CASE ~(expo + USD_DECIMALS >= 0)
  <2>1. 10 ^ (-(expo + USD_DECIMALS)) \in Nat \ {0}
    <3>1. -(expo + USD_DECIMALS) \in 0 .. USD_DECIMALS
      BY <1>2 DEF Expos, MinExpo, USD_DECIMALS
    <3> QED BY <3>1, PowersOfTen
  <2> QED BY <1>2, <2>1, FloorDiv DEF PriceToUsd6
<1> QED BY <1>1, <1>2

LEMMA SeizeNat ==
  ASSUME NEW repaid \in Nat, NEW bonus \in Nat, NEW price \in Nat,
         NEW multiplier \in Nat, SeizeDefined(price, multiplier)
  PROVE  SeizeAmount(repaid, bonus, price, multiplier) \in Nat
<1>1. repaid * (BPS + bonus) * TOKEN_UNIT * MULTIPLIER_SCALE \in Nat
  OBVIOUS
<1>2. BPS * price * multiplier \in Nat \ {0}
  BY DEF SeizeDefined
<1> QED BY <1>1, <1>2, FloorDiv DEF SeizeAmount

-----------------------------------------------------------------------------
(* Whatever the LTV, a market with valid parameters charges a rate. *)

LEMMA BandExtremes ==
  ASSUME NEW S \in SUBSET Bands, S # {}
  PROVE  Min(S) \in S /\ Max(S) \in S
<1>1. \A x \in S : x \in {1, 2, 3}
  BY DEF Bands
<1>2. (\E x \in S : \A y \in S : x <= y) /\ (\E x \in S : \A y \in S : x >= y)
  <2>1. CASE 1 \in S /\ 3 \in S
    BY <1>1, <2>1
  <2>2. CASE 1 \in S /\ 3 \notin S
    BY <1>1, <2>2
  <2>3. CASE 1 \notin S
    BY <1>1, <2>3
  <2> QED BY <2>1, <2>2, <2>3
<1> QED BY <1>2 DEF Min, Max

LEMMA SelectedRate ==
  ASSUME NEW r \in RiskParamsType, ValidRiskParams(r), NEW ltv
  PROVE  SelectAprBps(r.apr_bands, ltv) \in 1 .. BPS \div 2
<1> DEFINE bands == r.apr_bands
<1>1. \A i \in Bands : bands[i] \in RateBandType
  BY DEF RiskParamsType
<1>2. \A i \in UsedBands(bands) : i \in Bands /\ bands[i].apr_bps \in 1 .. BPS \div 2
  BY <1>1 DEF UsedBands, ValidRiskParams, BandsAscend, BandUnused, RateBandType
<1>3. UsedBands(bands) # {}
  BY <1>1 DEF UsedBands, ValidRiskParams, LastBandCovers, BandsAscend, BandUnused,
              RateBandType
<1>4. UsedBands(bands) \in SUBSET Bands /\ CoveringBands(bands, ltv) \in SUBSET Bands
      /\ CoveringBands(bands, ltv) \subseteq UsedBands(bands)
  BY DEF UsedBands, CoveringBands
<1>5. CASE CoveringBands(bands, ltv) # {}
  <2>1. Min(CoveringBands(bands, ltv)) \in UsedBands(bands)
    BY <1>4, <1>5, BandExtremes
  <2> QED BY <1>2, <1>5, <2>1 DEF SelectAprBps
<1>6. CASE CoveringBands(bands, ltv) = {}
  <2>1. Max(UsedBands(bands)) \in UsedBands(bands)
    BY <1>3, <1>4, BandExtremes
  <2> QED BY <1>2, <1>3, <1>6, <2>1 DEF SelectAprBps
<1> QED BY <1>5, <1>6

-----------------------------------------------------------------------------
(* Accrual *)

(* Positions in an existing market whose parameters were validated. *)
MarketsValid == \A m \in Markets : market[m] # NoMarket => ValidRiskParams(market[m])
MarketOpen   == \A p \in opened : market[p[1]] # NoMarket

LEMMA Accrual ==
  ASSUME TypeOK, NEW p \in Positions
  PROVE  /\ Interest(p) \in Nat
         /\ ReserveShare(Interest(p), PROTOCOL_SHARE_BPS) \in 0 .. Interest(p)
         /\ AccruedDebt(p) \in Nat /\ AccruedBorrowed(p) \in Nat
         /\ AccruedReserve(p) \in Nat
         /\ debt_principal[p] = 0 => Interest(p) = 0
<1>1. /\ debt_principal[p] \in Nat /\ apr_bps[p] \in Nat
      /\ last_accrual_ts[p] \in Nat /\ now \in Nat /\ last_accrual_ts[p] <= now
      /\ total_borrowed \in Nat /\ reserve \in Nat
  BY DEF TypeOK
<1>2. Interest(p) \in Nat /\ (debt_principal[p] = 0 => Interest(p) = 0)
  <2>1. now - last_accrual_ts[p] \in Nat
    BY <1>1
  <2>2. AccrueInterest(debt_principal[p], apr_bps[p], now - last_accrual_ts[p]) \in Nat
    BY <1>1, <2>1, InterestNat
  <2> QED BY <1>1, <2>2 DEF Interest
<1> QED BY <1>1, <1>2, ShareOfInterest DEF AccruedDebt, AccruedBorrowed, AccruedReserve

(* Reselecting leaves a valid rate wherever there was one. *)
LEMMA ReselectedRate ==
  ASSUME TypeOK, MarketsValid, NEW p \in Positions, market[p[1]] # NoMarket,
         NEW collateral, NEW debt, NEW with_price
  PROVE  \/ ReselectApr(p, collateral, debt, with_price) \in 1 .. BPS \div 2
         \/ /\ ReselectApr(p, collateral, debt, with_price) = apr_bps[p]
            /\ debt # 0
<1>1. p[1] \in Markets /\ market[p[1]] \in RiskParamsType /\ ValidRiskParams(market[p[1]])
  BY InputAssumption DEF Positions, TypeOK, MarketsValid
<1>2. \A ltv : SelectAprBps(market[p[1]].apr_bands, ltv) \in 1 .. BPS \div 2
  BY <1>1, SelectedRate
<1> QED BY <1>2 DEF ReselectApr

-----------------------------------------------------------------------------
(* The shape of an instruction on position p, after which it holds c tokens  *)
(* and owes d at rate a.                                                     *)

PositionStep(p, c, d, a) ==
  /\ opened' \in {opened, opened \cup {p}} /\ p \in opened'
  /\ market[p[1]] # NoMarket
  /\ WritePosition(p, c, d, a)
  /\ c \in U64 /\ d \in U64
  /\ a \in 1 .. BPS \div 2 \/ (a = apr_bps[p] /\ d > 0)
  /\ total_borrowed' = AccruedBorrowed(p) + (d - AccruedDebt(p))
  /\ total_borrowed' \in U64
  /\ reserve' = AccruedReserve(p) /\ reserve' \in U64
  /\ usdc_vault' = usdc_vault + (AccruedDebt(p) - d)
  /\ usdc_vault' \in 0 .. UsdcSupply
  /\ total_collateral' =
       [total_collateral EXCEPT ![p[1]] = @ + (c - collateral_amount[p])]
  /\ total_collateral'[p[1]] \in U64
  /\ collateral_vault' =
       [collateral_vault EXCEPT ![p[1]] = @ + (c - collateral_amount[p])]
  /\ collateral_vault'[p[1]] \in Nat
  /\ collateral_vault'[p[1]] + clawed_back[p[1]] <= TokenSupply
  /\ UNCHANGED <<total_shares, shares, admin_vars, env_vars>>
  /\ d > AccruedDebt(p) =>
       /\ CollateralSound(p[1]) /\ PoolCovers(p, d - AccruedDebt(p))
       /\ a \in 1 .. BPS \div 2

(* What TypeOK says of one position and its market. *)
LEMMA PositionTypes ==
  ASSUME TypeOK, NEW p \in Positions
  PROVE  /\ p[1] \in Markets
         /\ collateral_amount[p] \in U64 /\ debt_principal[p] \in U64
         /\ total_collateral[p[1]] \in U64 /\ collateral_vault[p[1]] \in Nat
         /\ clawed_back[p[1]] \in Nat
         /\ collateral_vault[p[1]] + clawed_back[p[1]] <= TokenSupply
         /\ usdc_vault \in 0 .. UsdcSupply /\ UsdcSupply \in Nat /\ TokenSupply \in Nat
         /\ total_collateral = [m \in Markets |-> total_collateral[m]]
         /\ collateral_vault = [m \in Markets |-> collateral_vault[m]]
BY InputAssumption DEF TypeOK, Positions

LEMMA AmountsNat ==
  Amounts \subseteq Nat /\ TokenAmounts \subseteq Nat /\ SavingsAmounts \subseteq Nat
BY InputAssumption

LEMMA LockShape ==
  ASSUME TypeOK, MarketsValid, NEW p \in Positions, NEW amount \in Nat,
         NEW with_price \in BOOLEAN, LockCollateral(p, amount, with_price)
  PROVE  \E c, d, a : PositionStep(p, c, d, a)
<1> DEFINE c == collateral_amount[p] + amount
           d == AccruedDebt(p)
           a == ReselectApr(p, c, d, with_price)
<1>1. amount \in Nat /\ amount > 0 /\ market[p[1]] # NoMarket
  BY InputAssumption DEF LockCollateral
<1>2. /\ d \in U64 /\ AccruedBorrowed(p) \in U64 /\ AccruedReserve(p) \in U64
  BY Accrual DEF LockCollateral, AccrualFits
<1>3. a \in 1 .. BPS \div 2 \/ (a = apr_bps[p] /\ d > 0)
  BY <1>1, <1>2, ReselectedRate
<1>4. c \in U64 /\ c - collateral_amount[p] = amount
  BY <1>1, PositionTypes DEF LockCollateral
<1>5. /\ total_collateral' =
           [total_collateral EXCEPT ![p[1]] = @ + (c - collateral_amount[p])]
      /\ total_collateral'[p[1]] \in U64
      /\ collateral_vault' =
           [collateral_vault EXCEPT ![p[1]] = @ + (c - collateral_amount[p])]
      /\ collateral_vault'[p[1]] \in Nat
      /\ collateral_vault'[p[1]] + clawed_back[p[1]] <= TokenSupply
  <2>1. /\ total_collateral' = [total_collateral EXCEPT ![p[1]] = @ + amount]
        /\ collateral_vault' = [collateral_vault EXCEPT ![p[1]] = @ + amount]
        /\ total_collateral[p[1]] + amount <= U64Max
        /\ collateral_vault[p[1]] + clawed_back[p[1]] + amount <= TokenSupply
    BY DEF LockCollateral, CollateralIn
  <2>2. /\ total_collateral'[p[1]] = total_collateral[p[1]] + amount
        /\ collateral_vault'[p[1]] = collateral_vault[p[1]] + amount
    BY <2>1, PositionTypes
  <2>3. /\ total_collateral[p[1]] + amount \in U64
        /\ collateral_vault[p[1]] + amount \in Nat
        /\ collateral_vault[p[1]] + amount + clawed_back[p[1]] <= TokenSupply
    BY <1>1, <2>1, PositionTypes
  <2> HIDE DEF c
  <2> QED BY <1>4, <2>1, <2>2, <2>3
<1>6. WritePosition(p, c, d, a)
  BY DEF LockCollateral
<1>7. /\ total_borrowed' = AccruedBorrowed(p) + (d - AccruedDebt(p))
      /\ total_borrowed' \in U64
      /\ reserve' = AccruedReserve(p) /\ reserve' \in U64
      /\ usdc_vault' = usdc_vault + (AccruedDebt(p) - d)
      /\ usdc_vault' \in 0 .. UsdcSupply
  BY <1>2, PositionTypes DEF LockCollateral
<1>8. /\ opened' = opened \cup {p}
      /\ UNCHANGED <<total_shares, shares, admin_vars, env_vars>>
  BY DEF LockCollateral
<1> HIDE DEF c, d, a
<1>9. ~(d > AccruedDebt(p))
  BY <1>2 DEF d
<1> QED BY <1>1, <1>2, <1>3, <1>4, <1>5, <1>6, <1>7, <1>8, <1>9 DEF PositionStep

LEMMA WithdrawShape ==
  ASSUME TypeOK, MarketsValid, MarketOpen, NEW p \in Positions,
         NEW amount \in Nat, NEW with_price \in BOOLEAN,
         WithdrawCollateral(p, amount, with_price)
  PROVE  \E c, d, a : PositionStep(p, c, d, a)
<1> DEFINE c == collateral_amount[p] - amount
           d == AccruedDebt(p)
           a == ReselectApr(p, c, d, with_price)
<1>1. amount \in Nat /\ amount > 0 /\ p \in opened /\ market[p[1]] # NoMarket
  BY InputAssumption DEF WithdrawCollateral, MarketOpen
<1>2. /\ d \in U64 /\ AccruedBorrowed(p) \in U64 /\ AccruedReserve(p) \in U64
  BY Accrual DEF WithdrawCollateral, AccrualFits
<1>3. a \in 1 .. BPS \div 2 \/ (a = apr_bps[p] /\ d > 0)
  BY <1>1, <1>2, ReselectedRate
<1>4. c \in U64 /\ c - collateral_amount[p] = -amount
  BY <1>1, PositionTypes DEF WithdrawCollateral
<1>5. /\ total_collateral' =
           [total_collateral EXCEPT ![p[1]] = @ + (c - collateral_amount[p])]
      /\ total_collateral'[p[1]] \in U64
      /\ collateral_vault' =
           [collateral_vault EXCEPT ![p[1]] = @ + (c - collateral_amount[p])]
      /\ collateral_vault'[p[1]] \in Nat
      /\ collateral_vault'[p[1]] + clawed_back[p[1]] <= TokenSupply
  <2>1. /\ total_collateral' = [total_collateral EXCEPT ![p[1]] = @ - amount]
        /\ collateral_vault' = [collateral_vault EXCEPT ![p[1]] = @ - amount]
        /\ amount <= total_collateral[p[1]]
        /\ amount <= collateral_vault[p[1]]
    BY DEF WithdrawCollateral, CollateralOut
  <2>2. /\ total_collateral'[p[1]] = total_collateral[p[1]] - amount
        /\ collateral_vault'[p[1]] = collateral_vault[p[1]] - amount
    BY <2>1, PositionTypes
  <2>3. /\ total_collateral[p[1]] - amount \in U64
        /\ collateral_vault[p[1]] - amount \in Nat
        /\ collateral_vault[p[1]] - amount + clawed_back[p[1]] <= TokenSupply
        /\ total_collateral[p[1]] + (-amount) = total_collateral[p[1]] - amount
        /\ collateral_vault[p[1]] + (-amount) = collateral_vault[p[1]] - amount
    BY <1>1, <2>1, PositionTypes
  <2> HIDE DEF c
  <2> QED BY <1>4, <2>1, <2>2, <2>3
<1>6. WritePosition(p, c, d, a)
  BY DEF WithdrawCollateral
<1>7. /\ total_borrowed' = AccruedBorrowed(p) + (d - AccruedDebt(p))
      /\ total_borrowed' \in U64
      /\ reserve' = AccruedReserve(p) /\ reserve' \in U64
      /\ usdc_vault' = usdc_vault + (AccruedDebt(p) - d)
      /\ usdc_vault' \in 0 .. UsdcSupply
  BY <1>2, PositionTypes DEF WithdrawCollateral
<1>8. /\ opened' = opened
      /\ UNCHANGED <<total_shares, shares, admin_vars, env_vars>>
  BY DEF WithdrawCollateral
<1> HIDE DEF c, d, a
<1>9. ~(d > AccruedDebt(p))
  BY <1>2 DEF d
<1> QED BY <1>1, <1>2, <1>3, <1>4, <1>5, <1>6, <1>7, <1>8, <1>9 DEF PositionStep

(* An instruction that moves only USDC leaves the vaults as the shape says.  *)
LEMMA VaultsUntouched ==
  ASSUME TypeOK, NEW p \in Positions, UNCHANGED vault_vars
  PROVE  LET c == collateral_amount[p]
         IN  /\ total_collateral' =
                  [total_collateral EXCEPT ![p[1]] = @ + (c - collateral_amount[p])]
             /\ total_collateral'[p[1]] \in U64
             /\ collateral_vault' =
                  [collateral_vault EXCEPT ![p[1]] = @ + (c - collateral_amount[p])]
             /\ collateral_vault'[p[1]] \in Nat
             /\ collateral_vault'[p[1]] + clawed_back[p[1]] <= TokenSupply
<1>1. total_collateral' = total_collateral /\ collateral_vault' = collateral_vault
  BY DEF vault_vars
<1>2. /\ total_collateral[p[1]] + (collateral_amount[p] - collateral_amount[p])
           = total_collateral[p[1]]
      /\ collateral_vault[p[1]] + (collateral_amount[p] - collateral_amount[p])
           = collateral_vault[p[1]]
  BY PositionTypes
<1> QED BY <1>1, <1>2, PositionTypes

LEMMA BorrowShape ==
  ASSUME TypeOK, MarketsValid, MarketOpen, NEW p \in Positions,
         NEW amount \in Nat, Borrow(p, amount)
  PROVE  \E c, d, a : PositionStep(p, c, d, a)
<1> DEFINE c == collateral_amount[p]
           d == AccruedDebt(p) + amount
           a == SelectAprBps(market[p[1]].apr_bands, Ltv(p[1], collateral_amount[p], d))
<1>1. amount \in Nat /\ amount > 0 /\ p \in opened /\ market[p[1]] # NoMarket
  BY InputAssumption DEF Borrow, MarketOpen
<1>2. /\ AccruedDebt(p) \in U64 /\ d \in U64
      /\ AccruedBorrowed(p) \in U64 /\ AccruedReserve(p) \in U64
      /\ d - AccruedDebt(p) = amount /\ AccruedDebt(p) - d = -amount
  BY <1>1, Accrual DEF Borrow, AccrualFits
<1>3. a \in 1 .. BPS \div 2
  <2>1. market[p[1]] \in RiskParamsType /\ ValidRiskParams(market[p[1]])
    BY <1>1, InputAssumption, PositionTypes DEF TypeOK, MarketsValid
  <2> QED BY <2>1, SelectedRate
<1>4. c \in U64
  BY PositionTypes
<1>5. WritePosition(p, c, d, a) /\ UNCHANGED vault_vars
  BY DEF Borrow
<1>6. PoolCovers(p, amount) /\ CollateralSound(p[1])
  BY DEF Borrow
<1>7. /\ total_borrowed' = AccruedBorrowed(p) + amount
      /\ total_borrowed' \in U64
      /\ reserve' = AccruedReserve(p) /\ reserve' \in U64
      /\ usdc_vault' = usdc_vault + (-amount)
      /\ usdc_vault' \in 0 .. UsdcSupply
  <2>1. /\ AccruedBorrowed(p) + amount \in U64
        /\ usdc_vault - AccruedReserve(p) >= amount
    BY <1>1, <1>2, <1>6 DEF PoolCovers
  <2>2. /\ usdc_vault - amount \in 0 .. UsdcSupply
        /\ usdc_vault - amount = usdc_vault + (-amount)
    BY <1>1, <1>2, <2>1, PositionTypes
  <2>3. /\ total_borrowed' = AccruedBorrowed(p) + amount
        /\ reserve' = AccruedReserve(p) /\ usdc_vault' = usdc_vault - amount
    BY DEF Borrow
  <2> QED BY <1>2, <2>1, <2>2, <2>3
<1>8. /\ opened' = opened
      /\ UNCHANGED <<total_shares, shares, admin_vars, env_vars>>
  BY DEF Borrow
<1> HIDE DEF a, d
<1> QED BY <1>1, <1>2, <1>3, <1>4, <1>5, <1>6, <1>7, <1>8, VaultsUntouched
        DEF PositionStep

LEMMA RepayShape ==
  ASSUME TypeOK, MarketsValid, MarketOpen, NEW p \in Positions,
         NEW amount \in Nat, NEW with_price \in BOOLEAN,
         Repay(p, amount, with_price)
  PROVE  \E c, d, a : PositionStep(p, c, d, a)
<1> DEFINE paid == PaidAmount(p, amount)
           c == collateral_amount[p]
           d == AccruedDebt(p) - paid
           a == ReselectApr(p, collateral_amount[p], d, with_price)
<1>1. amount \in Nat /\ amount > 0 /\ p \in opened /\ market[p[1]] # NoMarket
  BY InputAssumption DEF Repay, MayRepay, MarketOpen
<1>2. /\ AccruedDebt(p) \in U64 /\ AccruedBorrowed(p) \in U64
      /\ AccruedReserve(p) \in U64
  BY Accrual DEF Repay, MayRepay, AccrualFits
<1>p. paid \in Nat /\ 0 < paid /\ paid <= AccruedDebt(p)
  BY <1>1, <1>2 DEF Repay, MayRepay, PaidAmount
<1>d. d \in U64 /\ d - AccruedDebt(p) = -paid /\ AccruedDebt(p) - d = paid
      /\ ~(d > AccruedDebt(p))
  BY <1>2, <1>p
<1>3. a \in 1 .. BPS \div 2 \/ (a = apr_bps[p] /\ d > 0)
  BY <1>1, <1>d, ReselectedRate
<1>4. c \in U64
  BY PositionTypes
<1>5. WritePosition(p, c, d, a) /\ UNCHANGED vault_vars
  BY DEF Repay
<1>7. /\ total_borrowed' = AccruedBorrowed(p) + (-paid)
      /\ total_borrowed' \in U64
      /\ reserve' = AccruedReserve(p) /\ reserve' \in U64
      /\ usdc_vault' = usdc_vault + paid
      /\ usdc_vault' \in 0 .. UsdcSupply
  <2>1. /\ total_borrowed' = AccruedBorrowed(p) - paid
        /\ paid <= AccruedBorrowed(p)
        /\ reserve' = AccruedReserve(p)
        /\ usdc_vault' = usdc_vault + paid /\ usdc_vault + paid <= UsdcSupply
    BY DEF Repay, MayRepay
  <2>2. /\ AccruedBorrowed(p) - paid \in U64
        /\ AccruedBorrowed(p) - paid = AccruedBorrowed(p) + (-paid)
        /\ usdc_vault + paid \in 0 .. UsdcSupply
    BY <1>2, <1>p, <2>1, PositionTypes
  <2> QED BY <1>2, <2>1, <2>2
<1>8. /\ opened' = opened
      /\ UNCHANGED <<total_shares, shares, admin_vars, env_vars>>
  BY DEF Repay
<1> HIDE DEF a, d, paid
<1> QED BY <1>1, <1>2, <1>p, <1>d, <1>3, <1>4, <1>5, <1>7, <1>8, VaultsUntouched
        DEF PositionStep

LEMMA LiquidateShape ==
  ASSUME TypeOK, MarketsValid, MarketOpen, NEW p \in Positions,
         NEW amount \in Nat, Liquidate(p, amount)
  PROVE  \E c, d, a : PositionStep(p, c, d, a)
<1> DEFINE seize == SeizedAmount(p, amount)
           c == collateral_amount[p] - seize
           d == AccruedDebt(p) - amount
           a == SelectAprBps(market[p[1]].apr_bands, Ltv(p[1], c, d))
<1>1. amount \in Nat /\ amount > 0 /\ p \in opened /\ market[p[1]] # NoMarket
  BY InputAssumption DEF Liquidate, MayLiquidate, MarketOpen
<1>2. /\ AccruedDebt(p) \in U64 /\ AccruedBorrowed(p) \in U64
      /\ AccruedReserve(p) \in U64
  BY Accrual DEF Liquidate, MayLiquidate, AccrualFits
<1>d. d \in U64 /\ d - AccruedDebt(p) = -amount /\ AccruedDebt(p) - d = amount
      /\ ~(d > AccruedDebt(p))
  BY <1>1, <1>2 DEF Liquidate, MayLiquidate
<1>3. a \in 1 .. BPS \div 2
  <2>1. market[p[1]] \in RiskParamsType /\ ValidRiskParams(market[p[1]])
    BY <1>1, InputAssumption, PositionTypes DEF TypeOK, MarketsValid
  <2> QED BY <2>1, SelectedRate
<1>s. seize \in Nat /\ seize <= collateral_amount[p]
  <2>1. market[p[1]] \in RiskParamsType /\ mint[p[1]].multiplier \in Nat
    BY <1>1, InputAssumption, PositionTypes DEF TypeOK
  <2>2. PriceUsd6(p[1]) \in Nat
    <3>1. signed_price[p[1]] \in SignedPriceType
      BY PositionTypes DEF Liquidate, MayLiquidate, AboveLiqThreshold, PriceUsable, TypeOK
    <3> QED BY <3>1, PriceNat DEF PriceUsd6, SignedPriceType
  <2>3. SeizeAmount(amount, market[p[1]].liq_bonus_bps, PriceUsd6(p[1]),
                    mint[p[1]].multiplier) \in Nat
    BY <1>1, <2>1, <2>2, SeizeNat DEF RiskParamsType, Liquidate, MayLiquidate
  <2> QED BY <2>3, PositionTypes DEF SeizedAmount
<1>4. c \in U64 /\ c - collateral_amount[p] = -seize
  BY <1>s, PositionTypes
<1>5. /\ total_collateral' =
           [total_collateral EXCEPT ![p[1]] = @ + (c - collateral_amount[p])]
      /\ total_collateral'[p[1]] \in U64
      /\ collateral_vault' =
           [collateral_vault EXCEPT ![p[1]] = @ + (c - collateral_amount[p])]
      /\ collateral_vault'[p[1]] \in Nat
      /\ collateral_vault'[p[1]] + clawed_back[p[1]] <= TokenSupply
  <2>1. /\ total_collateral' = [total_collateral EXCEPT ![p[1]] = @ - seize]
        /\ collateral_vault' = [collateral_vault EXCEPT ![p[1]] = @ - seize]
        /\ seize <= total_collateral[p[1]]
        /\ seize <= collateral_vault[p[1]]
    BY DEF Liquidate, MayLiquidate, CollateralOut
  <2>2. /\ total_collateral'[p[1]] = total_collateral[p[1]] - seize
        /\ collateral_vault'[p[1]] = collateral_vault[p[1]] - seize
    BY <2>1, PositionTypes
  <2>3. /\ total_collateral[p[1]] - seize \in U64
        /\ collateral_vault[p[1]] - seize \in Nat
        /\ collateral_vault[p[1]] - seize + clawed_back[p[1]] <= TokenSupply
        /\ total_collateral[p[1]] + (-seize) = total_collateral[p[1]] - seize
        /\ collateral_vault[p[1]] + (-seize) = collateral_vault[p[1]] - seize
    BY <1>s, <2>1, PositionTypes
  <2> HIDE DEF c, seize
  <2> QED BY <1>4, <2>1, <2>2, <2>3
<1>6. WritePosition(p, c, d, a)
  BY DEF Liquidate
<1>7. /\ total_borrowed' = AccruedBorrowed(p) + (-amount)
      /\ total_borrowed' \in U64
      /\ reserve' = AccruedReserve(p) /\ reserve' \in U64
      /\ usdc_vault' = usdc_vault + amount
      /\ usdc_vault' \in 0 .. UsdcSupply
  <2>1. /\ total_borrowed' = AccruedBorrowed(p) - amount
        /\ amount <= AccruedBorrowed(p)
        /\ reserve' = AccruedReserve(p)
        /\ usdc_vault' = usdc_vault + amount /\ usdc_vault + amount <= UsdcSupply
    BY DEF Liquidate, MayLiquidate
  <2>2. /\ AccruedBorrowed(p) - amount \in U64
        /\ AccruedBorrowed(p) - amount = AccruedBorrowed(p) + (-amount)
        /\ usdc_vault + amount \in 0 .. UsdcSupply
    BY <1>1, <1>2, <2>1, PositionTypes
  <2> QED BY <1>2, <2>1, <2>2
<1>8. /\ opened' = opened
      /\ UNCHANGED <<total_shares, shares, admin_vars, env_vars>>
  BY DEF Liquidate
<1> HIDE DEF c, d, a, seize
<1> QED BY <1>1, <1>2, <1>d, <1>3, <1>4, <1>5, <1>6, <1>7, <1>8 DEF PositionStep

(* Every instruction of the collateral and debt side has the shape.         *)
LEMMA PositionSteps ==
  ASSUME TypeOK, MarketsValid, MarketOpen, CollateralNext \/ DebtNext
  PROVE  \E p \in Positions : \E c, d, a : PositionStep(p, c, d, a)
<1>1. ASSUME NEW p \in Positions, NEW amount \in TokenAmounts, NEW wp \in BOOLEAN,
             \/ DepositCollateral(p, amount, wp)
             \/ DepositCollateralFor(p, amount, wp)
             \/ WithdrawCollateral(p, amount, wp)
      PROVE  \E c, d, a : PositionStep(p, c, d, a)
  BY <1>1, AmountsNat, LockShape, WithdrawShape DEF DepositCollateral, DepositCollateralFor
<1>2. ASSUME NEW p \in Positions, NEW amount \in Amounts,
             \/ Borrow(p, amount)
             \/ \E wp \in BOOLEAN : Repay(p, amount, wp)
             \/ Liquidate(p, amount)
      PROVE  \E c, d, a : PositionStep(p, c, d, a)
  BY <1>2, AmountsNat, BorrowShape, RepayShape, LiquidateShape
<1>3. CASE CollateralNext
  BY <1>1, <1>3 DEF CollateralNext
<1>4. CASE DebtNext
  BY <1>2, <1>4 DEF DebtNext
<1> QED BY <1>3, <1>4

-----------------------------------------------------------------------------
(* Type correctness.  It needs to know that market parameters were validated *)
(* and that a position lives in an existing market: otherwise the rate that  *)
(* an instruction selects could be anything.                                 *)

TypeInv == TypeOK /\ MarketsValid /\ MarketOpen

LEMMA TypeInit == Init => TypeInv
<1> SUFFICES ASSUME Init PROVE TypeInv
  OBVIOUS
<1>1. mint \in [Markets -> MintSettings]
  BY DEF Init
<1>2. BPS \div 2 \in Nat
  OBVIOUS
<1>3. MarketsValid /\ MarketOpen
  BY DEF Init, MarketsValid, MarketOpen
<1>4. signed_price = [m \in Markets |-> NoPrice]
  BY DEF Init
<1>5. \A m \in Markets : collateral_vault[m] + clawed_back[m] <= TokenSupply
  BY InputAssumption DEF Init
<1>6. /\ collateral_amount \in [Positions -> U64]
      /\ debt_principal \in [Positions -> U64]
      /\ last_accrual_ts \in [Positions -> 0 .. now]
      /\ apr_bps \in [Positions -> 0 .. BPS \div 2]
  BY <1>2 DEF Init
<1>p. paused \in BOOLEAN
  BY DEF Init
<1>7. /\ opened \subseteq Positions /\ now \in 0 .. MaxTime
      /\ total_borrowed \in U64 /\ total_shares \in U64 /\ reserve \in U64
      /\ usdc_vault \in 0 .. UsdcSupply /\ shares \in [Savers -> U64]
  BY InputAssumption DEF Init
<1>8. /\ market \in [Markets -> RiskParams \cup {NoMarket}]
      /\ total_collateral \in [Markets -> U64]
      /\ collateral_vault \in [Markets -> Nat]
      /\ clawed_back \in [Markets -> Nat]
  BY DEF Init
<1>9. /\ signed_price \in [Markets -> SignedPriceType \cup {NoPrice}]
      /\ \A m \in Markets :
           signed_price[m] # NoPrice => signed_price[m].publish_time <= now
  BY <1>4
<1> QED BY <1>1, <1>3, <1>5, <1>6, <1>p, <1>7, <1>8, <1>9 DEF TypeInv, TypeOK

LEMMA TypePosition ==
  ASSUME TypeInv, NEW p \in Positions, NEW c, NEW d, NEW a, PositionStep(p, c, d, a)
  PROVE  TypeInv'
<1> USE DEF TypeInv, PositionStep
<1>1. /\ collateral_amount' \in [Positions -> U64]
      /\ debt_principal' \in [Positions -> U64]
      /\ last_accrual_ts' \in [Positions -> 0 .. now']
      /\ apr_bps' \in [Positions -> 0 .. BPS \div 2]
  <2>1. a \in 0 .. BPS \div 2
    BY DEF TypeOK
  <2> QED BY <2>1 DEF WritePosition, TypeOK, env_vars
<1>2. /\ total_collateral' \in [Markets -> U64]
      /\ collateral_vault' \in [Markets -> Nat]
      /\ \A m \in Markets : collateral_vault'[m] + clawed_back'[m] <= TokenSupply
  <2>1. \A m \in Markets : m # p[1] =>
          /\ total_collateral'[m] = total_collateral[m]
          /\ collateral_vault'[m] = collateral_vault[m]
    BY PositionTypes
  <2>2. /\ total_collateral' = [m \in Markets |-> total_collateral'[m]]
        /\ collateral_vault' = [m \in Markets |-> collateral_vault'[m]]
    BY PositionTypes
  <2>3. \A m \in Markets : /\ total_collateral'[m] \in U64
                           /\ collateral_vault'[m] \in Nat
                           /\ collateral_vault'[m] + clawed_back'[m] <= TokenSupply
    BY <2>1 DEF TypeOK, env_vars
  <2> QED BY <2>2, <2>3
<1>3. opened' \subseteq Positions /\ MarketOpen'
  BY DEF TypeOK, MarketOpen, admin_vars
<1> QED BY <1>1, <1>2, <1>3 DEF TypeOK, MarketsValid, admin_vars, env_vars

LEMMA SharesNat ==
  ASSUME TypeInv, NEW s \in Savers, NEW amount \in Nat,
         DepositSavings(s, amount)
  PROVE  SharesForDeposit(amount, total_shares, pool_value) \in Nat
<1>1. amount \in Nat /\ total_shares \in Nat /\ pool_value \in Int
  BY InputAssumption DEF TypeInv, TypeOK, pool_value, PoolValue
<1>2. CASE total_shares = 0
  BY <1>1, <1>2 DEF SharesForDeposit
<1>3. CASE total_shares # 0
  <2>1. pool_value \in Nat \ {0} /\ amount * total_shares \in Nat
    BY <1>1, <1>3 DEF DepositSavings
  <2> QED BY <1>3, <2>1, FloorDiv DEF SharesForDeposit
<1> QED BY <1>2, <1>3

LEMMA TypeDeposit ==
  ASSUME TypeInv, NEW s \in Savers, NEW amount \in Nat, DepositSavings(s, amount)
  PROVE  TypeInv'
<1> DEFINE minted == SharesForDeposit(amount, total_shares, pool_value)
<1>1. amount \in Nat /\ total_shares \in Nat /\ usdc_vault \in Nat
  BY InputAssumption DEF TypeInv, TypeOK
<1>2. minted \in Nat
  BY SharesNat
<1>3. /\ shares' = [shares EXCEPT ![s] = @ + minted]
      /\ total_shares' = total_shares + minted
      /\ usdc_vault' = usdc_vault + amount
      /\ shares[s] + minted <= U64Max /\ total_shares + minted <= U64Max
      /\ usdc_vault + amount <= UsdcSupply
      /\ UNCHANGED <<total_borrowed, reserve, position_vars, vault_vars,
                     admin_vars, env_vars>>
  BY DEF DepositSavings
<1> HIDE DEF minted
<1> QED BY <1>1, <1>2, <1>3, InputAssumption
        DEF TypeInv, TypeOK, MarketsValid, MarketOpen, position_vars, vault_vars,
            admin_vars, env_vars

LEMMA TypeWithdrawal ==
  ASSUME TypeInv, NEW s \in Savers, NEW burned \in Nat, WithdrawSavings(s, burned)
  PROVE  TypeInv'
<1> DEFINE amount == AmountForShares(burned, total_shares, pool_value)
<1>1. burned \in Nat /\ total_shares \in Nat /\ usdc_vault \in 0 .. UsdcSupply
      /\ reserve \in Nat /\ shares[s] \in U64
  BY InputAssumption DEF TypeInv, TypeOK
<1>2. amount \in Nat
  <2>1. pool_value \in Nat
    BY DEF WithdrawSavings, TypeInv, TypeOK, pool_value, PoolValue
  <2>2. burned * pool_value \in Nat
    BY <1>1, <2>1
  <2> QED BY <1>1, <2>2, FloorDiv DEF AmountForShares
<1>3. /\ shares' = [shares EXCEPT ![s] = @ - burned]
      /\ total_shares' = total_shares - burned
      /\ usdc_vault' = usdc_vault - amount
      /\ burned <= shares[s] /\ burned <= total_shares
      /\ usdc_vault - reserve >= amount
      /\ UNCHANGED <<total_borrowed, reserve, position_vars, vault_vars,
                     admin_vars, env_vars>>
  BY DEF WithdrawSavings, IdleCovers
<1> HIDE DEF amount
<1> QED BY <1>1, <1>2, <1>3, InputAssumption
        DEF TypeInv, TypeOK, MarketsValid, MarketOpen, position_vars, vault_vars,
            admin_vars, env_vars

LEMMA TypeSavings == ASSUME TypeInv, SavingsNext PROVE TypeInv'
<1>1. ASSUME NEW s \in Savers, NEW amount \in SavingsAmounts,
             DepositSavings(s, amount) \/ WithdrawSavings(s, amount)
      PROVE  TypeInv'
  BY <1>1, AmountsNat, TypeDeposit, TypeWithdrawal
<1>2. ASSUME NEW amount \in Amounts, ClaimReserve(amount)
      PROVE  TypeInv'
  BY <1>2, InputAssumption
     DEF ClaimReserve, TypeInv, TypeOK, MarketsValid, MarketOpen, position_vars,
         vault_vars, admin_vars, env_vars
<1> QED BY <1>1, <1>2 DEF SavingsNext

LEMMA TypeAdmin == ASSUME TypeInv, AdminNext PROVE TypeInv'
<1> USE DEF TypeInv
<1>1. ASSUME NEW m \in Markets, NEW r \in RiskParams,
             AddMarket(m, r) \/ UpdateMarket(m, r)
      PROVE  TypeInv'
  <2>1. /\ market' = [market EXCEPT ![m] = r] /\ ValidRiskParams(r)
        /\ total_collateral' \in [Markets -> U64]
        /\ UNCHANGED <<paused, signed_price, collateral_vault, pool_vars,
                       position_vars, env_vars>>
    BY <1>1 DEF AddMarket, UpdateMarket, TypeOK, vault_vars
  <2>2. r \in RiskParamsType /\ r # NoMarket
    BY InputAssumption
  <2>3. market' \in [Markets -> RiskParams \cup {NoMarket}] /\ MarketsValid'
    BY <2>1 DEF TypeOK, MarketsValid
  <2>4. MarketOpen'
    BY <2>1, <2>2 DEF TypeOK, MarketOpen, position_vars, Positions
  <2> QED BY <2>1, <2>3, <2>4 DEF TypeOK, pool_vars, position_vars, env_vars
<1>2. ASSUME NEW b \in Pauses, SetPause(b) PROVE TypeInv'
  BY <1>2, InputAssumption DEF SetPause, TypeOK, MarketsValid, MarketOpen, pool_vars,
     position_vars, vault_vars, env_vars
<1>3. ASSUME NEW m \in Markets, NEW q \in PostedPrices, SetSignedPrice(m, q[1], q[2])
      PROVE  TypeInv'
  <2>1. q[1] \in Nat /\ q[2] \in Expos /\ now \in Nat
    BY InputAssumption DEF TypeOK
  <2> DEFINE new == [price |-> q[1], expo |-> q[2], publish_time |-> now]
  <2>2. new \in SignedPriceType
    BY <2>1 DEF SignedPriceType
  <2>3. /\ signed_price' = [signed_price EXCEPT ![m] = new]
        /\ UNCHANGED <<paused, market, pool_vars, position_vars, vault_vars, env_vars>>
    BY <1>3 DEF SetSignedPrice
  <2>4. \A n \in Markets :
          signed_price'[n] # NoPrice => signed_price'[n].publish_time <= now'
    <3>1. \A n \in Markets : signed_price'[n] = IF n = m THEN new ELSE signed_price[n]
      BY <2>3 DEF TypeOK
    <3> QED BY <2>1, <2>3, <3>1 DEF TypeOK, env_vars
  <2> HIDE DEF new
  <2> QED BY <2>2, <2>3, <2>4 DEF TypeOK, MarketsValid, MarketOpen, pool_vars,
             position_vars, vault_vars, env_vars
<1> QED BY <1>1, <1>2, <1>3 DEF AdminNext

LEMMA TypeEnv == ASSUME TypeInv, EnvNext PROVE TypeInv'
<1> USE DEF TypeInv
<1>1. CASE Tick
  <2>1. now' = now + 1 /\ now' \in 0 .. MaxTime /\ now \in Nat
    BY <1>1, InputAssumption DEF Tick, TypeOK
  <2>2. UNCHANGED <<mint, clawed_back, pool_vars, position_vars, vault_vars, admin_vars>>
    BY <1>1 DEF Tick
  <2>3. last_accrual_ts' \in [Positions -> 0 .. now']
    BY <2>1, <2>2 DEF TypeOK, position_vars
  <2>4. \A m \in Markets : signed_price'[m] # NoPrice =>
          signed_price'[m].publish_time <= now'
    BY <2>1, <2>2 DEF TypeOK, admin_vars, SignedPriceType
  <2> QED BY <2>1, <2>2, <2>3, <2>4 DEF TypeOK, MarketsValid, MarketOpen, pool_vars,
             position_vars, vault_vars, admin_vars
<1>2. ASSUME NEW m \in Markets, NEW setting \in MintSettings, IssuerSets(m, setting)
      PROVE  TypeInv'
  BY <1>2 DEF IssuerSets, TypeOK, MarketsValid, MarketOpen, pool_vars, position_vars,
              vault_vars, admin_vars
<1>3. ASSUME NEW m \in Markets, NEW amount \in Clawbacks,
             IssuerClawsBack(m, amount) \/ IssuerReturns(m, amount)
      PROVE  TypeInv'
  <2>1. amount \in Nat
    BY InputAssumption
  <2>2. UNCHANGED <<now, mint, total_collateral, pool_vars, position_vars, admin_vars>>
    BY <1>3 DEF IssuerClawsBack, IssuerReturns
  <2>3. /\ collateral_vault' \in [Markets -> Nat] /\ clawed_back' \in [Markets -> Nat]
        /\ \A n \in Markets : collateral_vault'[n] + clawed_back'[n] <= TokenSupply
    <3>1. CASE IssuerClawsBack(m, amount)
      BY <2>1, <3>1 DEF IssuerClawsBack, TypeOK
    <3>2. CASE IssuerReturns(m, amount)
      BY <2>1, <3>2 DEF IssuerReturns, TypeOK
    <3> QED BY <1>3, <3>1, <3>2
  <2> QED BY <2>2, <2>3 DEF TypeOK, MarketsValid, MarketOpen, pool_vars,
             position_vars, admin_vars
<1> QED BY <1>1, <1>2, <1>3 DEF EnvNext

LEMMA TypeStep == TypeInv /\ [Next]_vars => TypeInv'
<1> SUFFICES ASSUME TypeInv, [Next]_vars PROVE TypeInv'
  OBVIOUS
<1>1. CASE CollateralNext \/ DebtNext
  BY <1>1, PositionSteps, TypePosition DEF TypeInv
<1>2. CASE UNCHANGED vars
  BY <1>2 DEF vars, TypeInv, TypeOK, MarketsValid, MarketOpen, pool_vars,
     position_vars, vault_vars, admin_vars, env_vars
<1> QED BY <1>1, <1>2, TypeSavings, TypeAdmin, TypeEnv DEF Next

(* Every field stays in the range of its type: no subtraction of the program *)
(* goes below zero, no rate leaves the validated range, and the collateral   *)
(* of a position never outgrows its u64.                                     *)
THEOREM TypeCorrect == Spec => []TypeOK
<1>1. TypeInv => TypeOK
  BY DEF TypeInv
<1> QED BY <1>1, TypeInit, TypeStep, PTL DEF Spec

LEMMA TypeInvariant == Spec => []TypeInv
BY TypeInit, TypeStep, PTL DEF Spec

-----------------------------------------------------------------------------
(* The running totals.  add_market writes total_collateral = 0: harmless,    *)
(* because a market that does not exist yet has none.                        *)

NothingBeforeMarket ==
  \A m \in Markets : market[m] = NoMarket => total_collateral[m] = 0

TotalsInv == TypeInv /\ NothingBeforeMarket /\ TotalsMatch

LEMMA FinitePositions ==
  /\ IsFiniteSet(Positions) /\ IsFiniteSet(Savers)
  /\ \A m \in Markets : {m} \X Owners \subseteq Positions /\ IsFiniteSet({m} \X Owners)
<1>1. IsFiniteSet(Positions)
  BY InputAssumption, FS_Product DEF Positions
<1>2. ASSUME NEW m \in Markets
      PROVE  {m} \X Owners \subseteq Positions /\ IsFiniteSet({m} \X Owners)
  <2>1. {m} \X Owners \subseteq Positions
    BY DEF Positions
  <2> QED BY <1>1, <2>1, FS_Subset
<1> QED BY <1>1, <1>2, InputAssumption

LEMMA TotalsInit == Init => TotalsInv
<1> SUFFICES ASSUME Init PROVE TotalsInv
  OBVIOUS
<1>1. DebtSum = 0
  <2>1. \A p \in Positions : debt_principal[p] = 0
    BY DEF Init
  <2> QED BY <2>1, FinitePositions, SumZero DEF DebtSum
<1>2. SharesSum = 0
  <2>1. \A s \in Savers : shares[s] = 0
    BY DEF Init
  <2> QED BY <2>1, FinitePositions, SumZero DEF SharesSum
<1>3. ASSUME NEW m \in Markets PROVE CollateralSum(m) = 0
  <2>1. \A p \in {m} \X Owners : collateral_amount[p] = 0
    BY FinitePositions DEF Init
  <2> QED BY <2>1, FinitePositions, SumZero DEF CollateralSum
<1>4. /\ total_borrowed = 0 /\ total_shares = 0
      /\ \A m \in Markets : total_collateral[m] = 0
  BY DEF Init
<1> QED BY <1>1, <1>2, <1>3, <1>4, TypeInit DEF TotalsInv, TotalsMatch, NothingBeforeMarket

LEMMA TotalsPosition ==
  ASSUME TotalsInv, NEW p \in Positions, NEW c, NEW d, NEW a, PositionStep(p, c, d, a)
  PROVE  TotalsMatch' /\ NothingBeforeMarket'
<1> USE DEF TotalsInv, TypeInv
<1>1. /\ debt_principal \in [Positions -> Nat] /\ collateral_amount \in [Positions -> Nat]
      /\ debt_principal[p] \in Nat /\ collateral_amount[p] \in Nat
      /\ c \in Nat /\ d \in Nat
  BY DEF TypeOK, PositionStep
<1>2. /\ debt_principal' = [debt_principal EXCEPT ![p] = d]
      /\ collateral_amount' = [collateral_amount EXCEPT ![p] = c]
      /\ total_borrowed' = AccruedBorrowed(p) + (d - AccruedDebt(p))
      /\ total_collateral' =
           [total_collateral EXCEPT ![p[1]] = @ + (c - collateral_amount[p])]
      /\ total_shares' = total_shares /\ shares' = shares
      /\ market' = market /\ market[p[1]] # NoMarket
  BY DEF PositionStep, WritePosition, admin_vars
<1>3. total_borrowed' = DebtSum'
  <2>1. SumFunctionOnSet([debt_principal EXCEPT ![p] = d], Positions)
          = SumFunctionOnSet(debt_principal, Positions) - debt_principal[p] + d
    <3> DEFINE h == [debt_principal EXCEPT ![p] = d]
    <3>1. /\ h \in [Positions -> Nat] /\ h[p] = d
          /\ \A x \in Positions \ {p} : h[x] = debt_principal[x]
      BY <1>1
    <3> HIDE DEF h
    <3>2. SumFunctionOnSet(h, Positions)
            = SumFunctionOnSet(debt_principal, Positions) - debt_principal[p] + h[p]
      BY <1>1, <3>1, FinitePositions, SumUpdate
    <3> QED BY <3>1, <3>2 DEF h
  <2>2. DebtSum' = total_borrowed - debt_principal[p] + d
    BY <1>2, <2>1 DEF DebtSum, TotalsMatch
  <2>3. Interest(p) \in Nat /\ total_borrowed \in Nat
    BY Accrual DEF TypeOK
  <2> QED BY <1>1, <1>2, <2>2, <2>3 DEF AccruedBorrowed, AccruedDebt
<1>4. ASSUME NEW m \in Markets PROVE total_collateral'[m] = CollateralSum(m)'
  <2>1. SumFunctionOnSet([collateral_amount EXCEPT ![p] = c], {m} \X Owners)
          = IF p \in {m} \X Owners
            THEN SumFunctionOnSet(collateral_amount, {m} \X Owners)
                   - collateral_amount[p] + c
            ELSE SumFunctionOnSet(collateral_amount, {m} \X Owners)
    <3> DEFINE h == [collateral_amount EXCEPT ![p] = c]
               S == {m} \X Owners
    <3>1. /\ h \in [Positions -> Nat] /\ h[p] = c
          /\ \A x \in Positions \ {p} : h[x] = collateral_amount[x]
      BY <1>1
    <3>2. S \subseteq Positions /\ IsFiniteSet(S)
      BY FinitePositions
    <3> HIDE DEF h, S
    <3>3. /\ p \in S => SumFunctionOnSet(h, S)
                          = SumFunctionOnSet(collateral_amount, S) - collateral_amount[p] + h[p]
          /\ p \notin S => SumFunctionOnSet(h, S) = SumFunctionOnSet(collateral_amount, S)
      BY <1>1, <3>1, <3>2, SumUpdate
    <3> QED BY <3>1, <3>3 DEF h, S
  <2>2. p \in {m} \X Owners <=> m = p[1]
    BY DEF Positions
  <2>3. total_collateral[m] \in Nat
        /\ total_collateral[m] = SumFunctionOnSet(collateral_amount, {m} \X Owners)
    BY DEF TypeOK, TotalsMatch, CollateralSum
  <2>4. total_collateral'[m] = IF m = p[1] THEN total_collateral[m] + (c - collateral_amount[p])
                               ELSE total_collateral[m]
    BY <1>2 DEF TypeOK
  <2>5. CollateralSum(m)' = IF m = p[1] THEN total_collateral[m] - collateral_amount[p] + c
                            ELSE total_collateral[m]
    BY <1>2, <2>1, <2>2, <2>3 DEF CollateralSum
  <2> QED BY <1>1, <2>3, <2>4, <2>5
<1>5. total_shares' = SharesSum'
  BY <1>2 DEF SharesSum, TotalsMatch
<1>6. NothingBeforeMarket'
  BY <1>2 DEF NothingBeforeMarket, TypeOK
<1> QED BY <1>3, <1>4, <1>5, <1>6 DEF TotalsMatch

LEMMA TotalsSavings == ASSUME TotalsInv, SavingsNext PROVE TotalsMatch' /\ NothingBeforeMarket'
<1> USE DEF TotalsInv, TypeInv
<1>1. UNCHANGED <<total_borrowed, position_vars, vault_vars, market>>
  BY DEF SavingsNext, DepositSavings, WithdrawSavings, ClaimReserve, admin_vars
<1>2. /\ total_borrowed' = DebtSum' /\ NothingBeforeMarket'
      /\ \A m \in Markets : total_collateral'[m] = CollateralSum(m)'
  BY <1>1 DEF TotalsMatch, DebtSum, CollateralSum, NothingBeforeMarket, position_vars,
     vault_vars
<1>3. shares \in [Savers -> Nat] /\ total_shares \in Nat /\ total_shares = SharesSum
  BY DEF TypeOK, TotalsMatch
<1>4. total_shares' = SharesSum'
  <2>1. ASSUME NEW s \in Savers, NEW n, shares' = [shares EXCEPT ![s] = n],
               n \in Nat, total_shares' = total_shares - shares[s] + n
        PROVE  total_shares' = SharesSum'
    <3>1. SumFunctionOnSet([shares EXCEPT ![s] = n], Savers)
            = SumFunctionOnSet(shares, Savers) - shares[s] + n
      <4> DEFINE h == [shares EXCEPT ![s] = n]
      <4>1. /\ h \in [Savers -> Nat] /\ h[s] = n
            /\ \A x \in Savers \ {s} : h[x] = shares[x]
        BY <1>3, <2>1
      <4> HIDE DEF h
      <4>2. SumFunctionOnSet(h, Savers) = SumFunctionOnSet(shares, Savers) - shares[s] + h[s]
        BY <1>3, <4>1, FinitePositions, SumUpdate
      <4> QED BY <4>1, <4>2 DEF h
    <3> QED BY <1>3, <2>1, <3>1 DEF SharesSum
  <2>2. ASSUME NEW s \in Savers, NEW amount \in SavingsAmounts, DepositSavings(s, amount)
        PROVE  total_shares' = SharesSum'
    <3> DEFINE minted == SharesForDeposit(amount, total_shares, pool_value)
               n == shares[s] + minted
    <3>1. /\ shares' = [shares EXCEPT ![s] = n] /\ total_shares' = total_shares + minted
      BY <2>2 DEF DepositSavings
    <3>2. shares'[s] = n /\ shares'[s] \in Nat /\ shares[s] \in Nat
          /\ total_shares' \in Nat /\ minted > 0
      <4>1. TypeOK'
        BY <2>2, TypeSavings DEF SavingsNext
      <4> QED BY <1>3, <2>2, <3>1, <4>1 DEF TypeOK, DepositSavings
    <3>3. minted \in Nat
      BY <2>2, SharesNat, AmountsNat
    <3> HIDE DEF minted
    <3>4. n \in Nat /\ total_shares' = total_shares - shares[s] + n
      BY <1>3, <3>1, <3>2, <3>3
    <3> HIDE DEF n
    <3> QED BY <2>1, <3>1, <3>4
  <2>3. ASSUME NEW s \in Savers, NEW burned \in SavingsAmounts, WithdrawSavings(s, burned)
        PROVE  total_shares' = SharesSum'
    <3> DEFINE n == shares[s] - burned
    <3>1. /\ shares' = [shares EXCEPT ![s] = n] /\ total_shares' = total_shares - burned
          /\ burned <= shares[s] /\ burned \in Nat /\ shares[s] \in Nat
      BY <1>3, <2>3, InputAssumption DEF WithdrawSavings
    <3>2. n \in Nat /\ total_shares' = total_shares - shares[s] + n
      BY <1>3, <3>1
    <3> HIDE DEF n
    <3> QED BY <2>1, <3>1, <3>2
  <2>4. ASSUME NEW amount \in Amounts, ClaimReserve(amount)
        PROVE  total_shares' = SharesSum'
    BY <1>3, <2>4 DEF ClaimReserve, SharesSum
  <2> QED BY <2>2, <2>3, <2>4 DEF SavingsNext
<1> QED BY <1>2, <1>4 DEF TotalsMatch

LEMMA TotalsRest ==
  ASSUME TotalsInv, AdminNext \/ EnvNext \/ UNCHANGED vars
  PROVE  TotalsMatch' /\ NothingBeforeMarket'
<1> USE DEF TotalsInv, TypeInv
<1>1. /\ total_borrowed' = total_borrowed /\ total_shares' = total_shares
      /\ shares' = shares /\ debt_principal' = debt_principal
      /\ collateral_amount' = collateral_amount
      /\ total_collateral' = total_collateral
      /\ \A m \in Markets : market'[m] = NoMarket => market[m] = NoMarket
  <2>1. ASSUME NEW m \in Markets, NEW r \in RiskParams, AddMarket(m, r)
        PROVE  total_collateral' = total_collateral
    BY <2>1 DEF AddMarket, NothingBeforeMarket, TypeOK
  <2>2. ASSUME NEW m \in Markets, NEW r \in RiskParams, AddMarket(m, r) \/ UpdateMarket(m, r)
        PROVE  \A n \in Markets : market'[n] = NoMarket => market[n] = NoMarket
    BY <2>2, InputAssumption DEF AddMarket, UpdateMarket, TypeOK
  <2>3. CASE AdminNext
    BY <2>1, <2>2, <2>3 DEF AdminNext, AddMarket, UpdateMarket, SetPause,
       SetSignedPrice, pool_vars, position_vars, vault_vars
  <2>4. CASE EnvNext
    BY <2>4 DEF EnvNext, Tick, IssuerSets, IssuerClawsBack, IssuerReturns, pool_vars,
       position_vars, vault_vars, admin_vars
  <2>5. CASE UNCHANGED vars
    BY <2>5 DEF vars, pool_vars, position_vars, vault_vars, admin_vars
  <2> QED BY <2>3, <2>4, <2>5
<1>2. DebtSum' = DebtSum /\ SharesSum' = SharesSum
      /\ \A m \in Markets : CollateralSum(m)' = CollateralSum(m)
  BY <1>1 DEF DebtSum, SharesSum, CollateralSum
<1> QED BY <1>1, <1>2 DEF TotalsMatch, NothingBeforeMarket

LEMMA TotalsStep == TotalsInv /\ [Next]_vars => TotalsInv'
<1> SUFFICES ASSUME TotalsInv, [Next]_vars PROVE TotalsInv'
  OBVIOUS
<1>1. TypeInv'
  BY TypeStep DEF TotalsInv
<1>2. CASE CollateralNext \/ DebtNext
  BY <1>1, <1>2, PositionSteps, TotalsPosition DEF TotalsInv, TypeInv
<1>3. CASE SavingsNext
  BY <1>1, <1>3, TotalsSavings DEF TotalsInv
<1>4. CASE AdminNext \/ EnvNext \/ UNCHANGED vars
  BY <1>1, <1>4, TotalsRest DEF TotalsInv
<1> QED BY <1>2, <1>3, <1>4 DEF Next

(* total_borrowed, total_shares and total_collateral are always the sums of  *)
(* the accounts they summarise.                                              *)
THEOREM TotalsCorrect == Spec => []TotalsMatch
<1>1. TotalsInv => TotalsMatch
  BY DEF TotalsInv
<1> QED BY <1>1, TotalsInit, TotalsStep, PTL DEF Spec

-----------------------------------------------------------------------------
(* Stockcard implements SavingsPool, so the promises proved of the abstract   *)
(* pool hold of the program: every instruction on a position is a Service     *)
(* step of the pool, and each savings instruction is the step of its name.    *)
(* The induction runs over both specifications at once: that a step maps to a *)
(* pool step needs the pool to be backed and settled before it, and the pool's *)
(* own proof then gives the same after it.                                     *)

PoolP == INSTANCE SavingsPoolProofs WITH
           cash <- usdc_vault, loans <- total_borrowed, fees <- reserve,
           issued <- total_shares

(* Backed and settled books, in the names of the program. *)
PoolBacked  == total_shares <= usdc_vault + total_borrowed - reserve
PoolSettled == total_shares = 0 => total_borrowed = 0 /\ usdc_vault = reserve

RefinementInv == TotalsInv /\ PoolBacked /\ PoolSettled

LEMMA BooksAreNatural ==
  ASSUME TypeOK
  PROVE  /\ usdc_vault \in Nat /\ total_borrowed \in Nat /\ reserve \in Nat
         /\ total_shares \in Nat
BY InputAssumption DEF TypeOK

(* The abstract invariant is the concrete one. *)
LEMMA PoolInvMeaning ==
  ASSUME TypeOK
  PROVE  PoolP!PoolInv <=> PoolBacked /\ PoolSettled
BY BooksAreNatural DEF PoolP!PoolInv, PoolP!BooksOK, PoolP!Backed, PoolP!Settled,
   PoolP!value, PoolBacked, PoolSettled

LEMMA PoolKept ==
  ASSUME RefinementInv, TypeOK', [PoolP!Next]_(PoolP!books)
  PROVE  PoolBacked' /\ PoolSettled'
<1>1. PoolP!PoolInv
  BY PoolInvMeaning DEF RefinementInv, TotalsInv, TypeInv
<1>2. PoolP!PoolInv'
  BY <1>1, PoolP!PoolInductive
<1> QED BY <1>2 DEF PoolP!PoolInv, PoolP!BooksOK, PoolP!Backed, PoolP!Settled,
   PoolP!value, PoolBacked, PoolSettled

-----------------------------------------------------------------------------
(* Every action of the program maps to one of the pool. *)

(* Without loans no position owes anything, and nothing accrues. *)
LEMMA NothingAccruesUnlent ==
  ASSUME TotalsInv, total_borrowed = 0, NEW p \in Positions
  PROVE  Interest(p) = 0
<1>1. \A q \in Positions : debt_principal[q] \in Nat
  BY DEF TotalsInv, TypeInv, TypeOK
<1>2. debt_principal[p] <= 0
  BY <1>1, FinitePositions, SumBoundsEntry DEF TotalsInv, TotalsMatch, DebtSum
<1> QED BY <1>1, <1>2, Accrual DEF TotalsInv, TypeInv

(* An instruction on a position adds its interest to the loans and the fee   *)
(* to the reserve; a loan is paid out of idle cash.                          *)
LEMMA PositionIsService ==
  ASSUME RefinementInv, NEW p \in Positions, NEW c, NEW d, NEW a,
         PositionStep(p, c, d, a)
  PROVE  Pool!Service
<1> DEFINE i == Interest(p)
           f == ReserveShare(Interest(p), PROTOCOL_SHARE_BPS)
           moved == d - AccruedDebt(p)
<1>1. /\ i \in Nat /\ f \in Nat /\ 0 <= f /\ f <= i
      /\ AccruedDebt(p) \in Nat /\ d \in Nat /\ moved \in Int
  BY Accrual DEF RefinementInv, TotalsInv, TypeInv, PositionStep
<1>2. /\ usdc_vault \in Nat /\ total_borrowed \in Nat /\ reserve \in Nat
      /\ total_shares \in Nat
  BY BooksAreNatural DEF RefinementInv, TotalsInv, TypeInv
<1>3. /\ total_borrowed' = total_borrowed + i + moved
      /\ reserve' = reserve + f
      /\ usdc_vault' = usdc_vault - moved
      /\ total_shares' = total_shares
  BY <1>1, <1>2 DEF PositionStep, AccruedBorrowed, AccruedReserve
<1>4. total_borrowed = 0 => i = 0
  BY NothingAccruesUnlent DEF RefinementInv
<1>5. moved > 0 => usdc_vault - (reserve + f) >= moved
  BY <1>1, <1>2 DEF PositionStep, PoolCovers, AccruedReserve
<1>6. moved > 0 => total_shares > 0
  <2>1. SUFFICES ASSUME moved > 0, total_shares = 0 PROVE FALSE
    BY <1>2
  <2>2. total_borrowed = 0 /\ usdc_vault = reserve
    BY <2>1 DEF RefinementInv, PoolSettled
  <2> HIDE DEF moved, f
  <2> QED BY <1>1, <1>2, <1>5, <2>1, <2>2
<1> HIDE DEF i, f, moved
<1>7. (usdc_vault' + total_borrowed') - (usdc_vault + total_borrowed) = i
  BY <1>1, <1>2, <1>3
<1>8. reserve' - reserve = f
  BY <1>1, <1>2, <1>3
<1>9. usdc_vault' < usdc_vault => moved > 0
  BY <1>1, <1>2, <1>3
<1>10. moved > 0 => reserve' <= usdc_vault'
  BY <1>1, <1>2, <1>3, <1>5
<1> QED BY <1>1, <1>3, <1>4, <1>6, <1>7, <1>8, <1>9, <1>10 DEF Pool!Service

LEMMA DepositIsFund ==
  ASSUME RefinementInv, NEW s \in Savers, NEW amount \in SavingsAmounts,
         DepositSavings(s, amount)
  PROVE  Pool!Fund
<1> DEFINE minted == SharesForDeposit(amount, total_shares, pool_value)
<1>1. /\ usdc_vault \in Nat /\ total_borrowed \in Nat /\ reserve \in Nat
      /\ total_shares \in Nat /\ amount \in Nat
  BY BooksAreNatural, InputAssumption DEF RefinementInv, TotalsInv, TypeInv
<1>2. minted \in Nat
  BY SharesNat, AmountsNat DEF RefinementInv, TotalsInv
<1>3. /\ usdc_vault' = usdc_vault + amount /\ total_shares' = total_shares + minted
      /\ amount > 0 /\ minted > 0
      /\ total_borrowed' = total_borrowed /\ reserve' = reserve
      /\ pool_value >= 0 /\ (total_shares # 0 => pool_value # 0)
  BY DEF DepositSavings
<1>4. CASE total_shares = 0
  <2>1. minted = amount
    BY <1>4 DEF SharesForDeposit
  <2> HIDE DEF minted
  <2> QED BY <1>1, <1>2, <1>3, <1>4, <2>1 DEF Pool!Fund
<1>5. CASE total_shares # 0
  <2>1. pool_value \in Nat \ {0} /\ amount * total_shares \in Nat
    BY <1>1, <1>3, <1>5 DEF pool_value, PoolValue
  <2>2. minted * pool_value <= amount * total_shares
    BY <1>5, <2>1, FloorDiv DEF SharesForDeposit
  <2>3. pool_value = Pool!value
    BY DEF pool_value, PoolValue, Pool!value
  <2> HIDE DEF minted
  <2>4. total_shares' - total_shares = minted /\ usdc_vault' - usdc_vault = amount
    BY <1>1, <1>2, <1>3
  <2>5. usdc_vault' > usdc_vault /\ total_shares' > total_shares
    BY <1>1, <1>2, <1>3
  <2> QED BY <1>3, <1>5, <2>2, <2>3, <2>4, <2>5 DEF Pool!Fund
<1> QED BY <1>4, <1>5

LEMMA WithdrawalIsRedeem ==
  ASSUME RefinementInv, NEW s \in Savers, NEW burned \in SavingsAmounts,
         WithdrawSavings(s, burned)
  PROVE  Pool!Redeem
<1> DEFINE paid == AmountForShares(burned, total_shares, pool_value)
<1>1. /\ usdc_vault \in Nat /\ total_borrowed \in Nat /\ reserve \in Nat
      /\ total_shares \in Nat /\ burned \in Nat
  BY BooksAreNatural, InputAssumption DEF RefinementInv, TotalsInv, TypeInv
<1>2. /\ usdc_vault' = usdc_vault - paid /\ total_shares' = total_shares - burned
      /\ burned > 0 /\ burned <= total_shares /\ paid > 0
      /\ usdc_vault >= reserve /\ usdc_vault - reserve >= paid
      /\ total_borrowed' = total_borrowed /\ reserve' = reserve
      /\ pool_value >= 0
  BY DEF WithdrawSavings, IdleCovers
<1>3. /\ total_shares \in Nat \ {0} /\ pool_value \in Nat
      /\ burned * pool_value \in Nat
  BY <1>1, <1>2 DEF pool_value, PoolValue
<1>4. paid \in Nat /\ paid * total_shares <= burned * pool_value
  BY <1>3, FloorDiv DEF AmountForShares
<1>5. burned = total_shares => paid = pool_value
  <2>1. ASSUME NEW n \in Nat \ {0}, NEW v \in Nat PROVE (n * v) \div n = v
    OBVIOUS
  <2> QED BY <1>3, <2>1 DEF AmountForShares
<1>6. pool_value = Pool!value /\ pool_value = usdc_vault + total_borrowed - reserve
  BY DEF pool_value, PoolValue, Pool!value
<1> HIDE DEF paid
<1>7. total_shares' = 0 => total_borrowed = 0 /\ usdc_vault' = reserve
  BY <1>1, <1>2, <1>4, <1>5, <1>6
<1>8. usdc_vault - usdc_vault' = paid /\ total_shares - total_shares' = burned
  BY <1>1, <1>2, <1>4
<1>9. usdc_vault' < usdc_vault /\ total_shares' < total_shares /\ reserve <= usdc_vault'
  BY <1>1, <1>2, <1>4
<1> QED BY <1>2, <1>4, <1>6, <1>7, <1>8, <1>9 DEF Pool!Redeem

LEMMA ClaimIsCollect ==
  ASSUME RefinementInv, NEW amount \in Amounts, ClaimReserve(amount)
  PROVE  Pool!Collect
<1>1. usdc_vault \in Nat /\ reserve \in Nat /\ amount \in Nat
  BY BooksAreNatural, InputAssumption DEF RefinementInv, TotalsInv, TypeInv
<1> QED BY <1>1 DEF ClaimReserve, Pool!Collect

(* Every step of the program is a step of the pool or leaves its books alone. *)
LEMMA StepRefines ==
  RefinementInv /\ [Next]_vars => [Pool!Next]_(Pool!books)
<1> SUFFICES ASSUME RefinementInv, [Next]_vars PROVE [Pool!Next]_(Pool!books)
  OBVIOUS
<1>1. Pool!BooksOK'
  BY TypeStep, InputAssumption DEF RefinementInv, TotalsInv, TypeInv, TypeOK, Pool!BooksOK
<1>2. CASE CollateralNext \/ DebtNext
  <2>1. \E p \in Positions : \E c, d, a : PositionStep(p, c, d, a)
    BY <1>2, PositionSteps DEF RefinementInv, TotalsInv, TypeInv
  <2> QED BY <1>1, <2>1, PositionIsService DEF Pool!Next
<1>3. CASE SavingsNext
  BY <1>1, <1>3, DepositIsFund, WithdrawalIsRedeem, ClaimIsCollect
     DEF SavingsNext, Pool!Next
<1>4. CASE AdminNext
  BY <1>4 DEF AdminNext, AddMarket, UpdateMarket, SetPause, SetSignedPrice, pool_vars,
     Pool!books
<1>5. CASE EnvNext
  BY <1>5 DEF EnvNext, Tick, IssuerSets, IssuerClawsBack, IssuerReturns, pool_vars,
     Pool!books
<1>6. CASE UNCHANGED vars
  BY <1>6 DEF vars, pool_vars, Pool!books
<1> QED BY <1>2, <1>3, <1>4, <1>5, <1>6 DEF Next

-----------------------------------------------------------------------------
(* The induction over both specifications. *)

LEMMA RefinementInit == Init => RefinementInv
BY TotalsInit DEF Init, RefinementInv, PoolBacked, PoolSettled

LEMMA RefinementStep == RefinementInv /\ [Next]_vars => RefinementInv'
<1> SUFFICES ASSUME RefinementInv, [Next]_vars PROVE RefinementInv'
  OBVIOUS
<1>1. TotalsInv'
  BY TotalsStep DEF RefinementInv
<1>2. TypeOK'
  BY <1>1 DEF TotalsInv, TypeInv
<1>3. [PoolP!Next]_(PoolP!books)
  BY StepRefines DEF Pool!Next, PoolP!Next, Pool!books, PoolP!books, Pool!BooksOK,
     PoolP!BooksOK, Pool!Fund, PoolP!Fund, Pool!Redeem, PoolP!Redeem, Pool!Service,
     PoolP!Service, Pool!Collect, PoolP!Collect, Pool!value, PoolP!value
<1> QED BY <1>1, <1>2, <1>3, PoolKept DEF RefinementInv

LEMMA RefinementInvariant == Spec => []RefinementInv
BY RefinementInit, RefinementStep, PTL DEF Spec

(* Whatever borrowers, liquidators, the admin, the price signer and the      *)
(* issuers do, savers deal with the pool that SavingsPool describes: every    *)
(* instruction is one of its steps or leaves its books alone.                 *)
THEOREM Refinement == Spec => ImplementsPool
<1>1. Init => Pool!Init
  BY DEF Init, Pool!Init
<1> QED BY <1>1, StepRefines, RefinementInvariant, PTL
        DEF Spec, ImplementsPool, Pool!Spec

(* The reserve is always covered by the cash and the loans: the checked_sub   *)
(* of pool_value, which every savings operation starts with, never fails.     *)
THEOREM SolventAlways == Spec => []PoolSolvent
<1>1. RefinementInv => PoolSolvent
  BY BooksAreNatural DEF RefinementInv, TotalsInv, TypeInv, PoolBacked, PoolSolvent
<1> QED BY <1>1, RefinementInvariant, PTL

(* Every savings share stays worth at least the unit it was first sold for.   *)
THEOREM SharesBackedAlways == Spec => []SharesBacked
<1>1. RefinementInv => SharesBacked
  BY DEF RefinementInv, PoolBacked, SharesBacked, pool_value, PoolValue
<1> QED BY <1>1, RefinementInvariant, PTL

(* Once the last saver has left, no loan is open and the vault holds exactly  *)
(* the reserve.                                                               *)
THEOREM EmptyPoolAlways == Spec => []EmptyPool
<1>1. RefinementInv => EmptyPool
  BY DEF RefinementInv, PoolSettled, EmptyPool
<1> QED BY <1>1, RefinementInvariant, PTL

(* No instruction ever lowers the price of a savings share.                   *)
THEOREM SharePriceMonotone == Spec => SharePriceNeverFalls
<1>1. RefinementInv /\ [Next]_vars
        => [pool_value' * total_shares >= pool_value * total_shares']_vars
  <2> SUFFICES ASSUME RefinementInv, [Next]_vars
               PROVE  pool_value' * total_shares >= pool_value * total_shares'
    OBVIOUS
  <2>1. PoolP!PoolInv
    BY PoolInvMeaning DEF RefinementInv, TotalsInv, TypeInv
  <2>2. [PoolP!Next]_(PoolP!books)
    BY StepRefines DEF Pool!Next, PoolP!Next, Pool!books, PoolP!books, Pool!BooksOK,
       PoolP!BooksOK, Pool!Fund, PoolP!Fund, Pool!Redeem, PoolP!Redeem, Pool!Service,
       PoolP!Service, Pool!Collect, PoolP!Collect, Pool!value, PoolP!value
  <2>3. PoolP!value' * total_shares >= PoolP!value * total_shares'
    BY <2>1, <2>2, PoolP!PriceStep
  <2> QED BY <2>3 DEF PoolP!value, pool_value, PoolValue
<1> QED BY <1>1, RefinementInvariant, PTL DEF Spec, SharePriceNeverFalls

-----------------------------------------------------------------------------
(* Loans, issuers and liquidators: a debt always carries a rate, changes only  *)
(* with cash or time, and none is made against a vault the issuer has taken     *)
(* from; no instruction makes a healthy position liquidatable, and a            *)
(* liquidation leaves less debt behind each token of collateral; nothing stands  *)
(* in the way of a repayment, and only the issuer in that of a liquidation.      *)
(*                                                                         *)
(* The results come from the shape of an instruction (PositionStep): what it    *)
(* writes into the position, and that the books move with it.  The later ones   *)
(* also need what each instruction checked first (InstructionEffects), and how  *)
(* the rounded divisions of StockcardMath move with their arguments.           *)

(* The inductive invariant.  The vault reconciles because every instruction   *)
(* moves total_collateral and the vault together; add_market writes            *)
(* total_collateral = 0, which TotalsInv knows is no change.                   *)

LoansInv == TotalsInv /\ VaultReconciles /\ NoFreeLoan

LEMMA LoansInit == Init => LoansInv
<1> SUFFICES ASSUME Init PROVE LoansInv
  OBVIOUS
<1>1. VaultReconciles
  BY DEF Init, VaultReconciles
<1>2. NoFreeLoan
  BY DEF Init, NoFreeLoan
<1> QED BY <1>1, <1>2, TotalsInit DEF LoansInv

LEMMA LoansPosition ==
  ASSUME LoansInv, NEW p \in Positions, NEW c, NEW d, NEW a, PositionStep(p, c, d, a)
  PROVE  VaultReconciles' /\ NoFreeLoan'
<1> USE DEF LoansInv, TotalsInv, TypeInv
<1>1. VaultReconciles'
  <2> SUFFICES ASSUME NEW m \in Markets
               PROVE  collateral_vault'[m] + clawed_back'[m] = total_collateral'[m]
    BY DEF VaultReconciles
  <2>1. /\ collateral_vault[m] + clawed_back[m] = total_collateral[m]
        /\ collateral_vault[m] \in Nat /\ clawed_back[m] \in Nat
        /\ clawed_back' = clawed_back
    BY DEF VaultReconciles, TypeOK, PositionStep, env_vars
  <2>2. CASE m = p[1]
    <3>1. /\ collateral_vault'[m] = collateral_vault[m] + (c - collateral_amount[p])
          /\ total_collateral'[m] = total_collateral[m] + (c - collateral_amount[p])
      BY <2>2, PositionTypes DEF PositionStep
    <3>2. c - collateral_amount[p] \in Int
      BY PositionTypes DEF PositionStep
    <3> QED BY <2>1, <3>1, <3>2
  <2>3. CASE m # p[1]
    BY <2>1, <2>3, PositionTypes DEF PositionStep
  <2> QED BY <2>2, <2>3
<1>2. NoFreeLoan'
  <2>1. /\ debt_principal' = [debt_principal EXCEPT ![p] = d]
        /\ apr_bps' = [apr_bps EXCEPT ![p] = a]
    BY DEF PositionStep, WritePosition
  <2>2. d > 0 => a > 0
    <3>1. CASE a \in 1 .. BPS \div 2
      BY <3>1
    <3>2. CASE a = apr_bps[p] /\ d > 0
      <4>1. CASE d > AccruedDebt(p)
        BY <4>1 DEF PositionStep
      <4>2. CASE ~(d > AccruedDebt(p))
        <5>1. debt_principal[p] > 0
          BY <3>2, <4>2, Accrual DEF AccruedDebt, TypeOK, PositionStep
        <5> QED BY <3>2, <5>1 DEF NoFreeLoan
      <4> QED BY <4>1, <4>2
    <3> QED BY <3>1, <3>2 DEF PositionStep
  <2> QED BY <2>1, <2>2 DEF NoFreeLoan, TypeOK
<1> QED BY <1>1, <1>2

LEMMA LoansRest ==
  ASSUME LoansInv, SavingsNext \/ AdminNext \/ EnvNext \/ UNCHANGED vars
  PROVE  VaultReconciles' /\ NoFreeLoan'
<1> USE DEF LoansInv, TotalsInv, TypeInv
<1>1. debt_principal' = debt_principal /\ apr_bps' = apr_bps
  BY DEF SavingsNext, DepositSavings, WithdrawSavings, ClaimReserve, AdminNext,
     AddMarket, UpdateMarket, SetPause, SetSignedPrice, EnvNext, Tick, IssuerSets,
     IssuerClawsBack, IssuerReturns, vars, position_vars
<1>2. ASSUME NEW m \in Markets, NEW amount \in Clawbacks,
             IssuerClawsBack(m, amount) \/ IssuerReturns(m, amount)
      PROVE  VaultReconciles'
  <2> SUFFICES ASSUME NEW k \in Markets
               PROVE  collateral_vault'[k] + clawed_back'[k] = total_collateral'[k]
    BY DEF VaultReconciles
  <2>1. /\ amount \in Nat
        /\ collateral_vault[k] \in Nat /\ clawed_back[k] \in Nat
        /\ collateral_vault[k] + clawed_back[k] = total_collateral[k]
    BY InputAssumption DEF VaultReconciles, TypeOK
  <2>2. total_collateral' = total_collateral
    BY <1>2 DEF IssuerClawsBack, IssuerReturns
  <2>3. CASE k # m
    BY <1>2, <2>1, <2>2, <2>3 DEF IssuerClawsBack, IssuerReturns, TypeOK
  <2>4. CASE k = m /\ IssuerClawsBack(m, amount)
    <3>1. /\ collateral_vault'[k] = collateral_vault[k] - amount
          /\ clawed_back'[k] = clawed_back[k] + amount
      BY <2>4 DEF IssuerClawsBack, TypeOK
    <3> QED BY <2>1, <2>2, <3>1
  <2>5. CASE k = m /\ IssuerReturns(m, amount)
    <3>1. /\ collateral_vault'[k] = collateral_vault[k] + amount
          /\ clawed_back'[k] = clawed_back[k] - amount
      BY <2>5 DEF IssuerReturns, TypeOK
    <3> QED BY <2>1, <2>2, <3>1
  <2> QED BY <1>2, <2>3, <2>4, <2>5
<1>3. ASSUME NEW m \in Markets, NEW r \in RiskParams, AddMarket(m, r)
      PROVE  VaultReconciles'
  <2>1. total_collateral' = total_collateral
    BY <1>3 DEF AddMarket, NothingBeforeMarket, TypeOK
  <2> QED BY <1>3, <2>1 DEF AddMarket, VaultReconciles, env_vars
<1>4. ASSUME UNCHANGED <<vault_vars, clawed_back>>
      PROVE  VaultReconciles'
  <2>1. /\ total_collateral' = total_collateral
        /\ collateral_vault' = collateral_vault /\ clawed_back' = clawed_back
    BY <1>4 DEF vault_vars
  <2>2. \A m \in Markets : collateral_vault[m] + clawed_back[m] = total_collateral[m]
    BY DEF VaultReconciles
  <2> QED BY ONLY <2>1, <2>2 DEF VaultReconciles
<1>5. VaultReconciles'
  BY <1>2, <1>3, <1>4 DEF SavingsNext, DepositSavings, WithdrawSavings, ClaimReserve,
     AdminNext, UpdateMarket, SetPause, SetSignedPrice, EnvNext, Tick, IssuerSets,
     vars, vault_vars, env_vars
<1> QED BY <1>1, <1>5 DEF NoFreeLoan

LEMMA LoansStep == LoansInv /\ [Next]_vars => LoansInv'
<1> SUFFICES ASSUME LoansInv, [Next]_vars PROVE LoansInv'
  OBVIOUS
<1>1. TotalsInv'
  BY TotalsStep DEF LoansInv
<1>2. CASE CollateralNext \/ DebtNext
  BY <1>1, <1>2, PositionSteps, LoansPosition DEF LoansInv, TotalsInv, TypeInv
<1>3. CASE SavingsNext \/ AdminNext \/ EnvNext \/ UNCHANGED vars
  BY <1>1, <1>3, LoansRest DEF LoansInv
<1> QED BY <1>2, <1>3 DEF Next

LEMMA LoansInvariant == Spec => []LoansInv
BY LoansInit, LoansStep, PTL DEF Spec

(* Every token the books call collateral is in the vault, except what the     *)
(* issuer took back, whatever instructions and clawbacks came before.         *)
THEOREM VaultReconcilesAlways == Spec => []VaultReconciles
<1>1. LoansInv => VaultReconciles
  BY DEF LoansInv
<1> QED BY <1>1, LoansInvariant, PTL

(* A position with a debt has a rate, whatever update_market did to the bands *)
(* of its market and whether or not a price account was passed.               *)
THEOREM NoFreeLoanAlways == Spec => []NoFreeLoan
<1>1. LoansInv => NoFreeLoan
  BY DEF LoansInv
<1> QED BY <1>1, LoansInvariant, PTL

-----------------------------------------------------------------------------
(* How a rounded division, a value and an LTV move with their arguments. *)

LEMMA FloorMonotone ==
  ASSUME NEW m \in Nat, NEW n \in Nat, m <= n, NEW d \in Nat \ {0}
  PROVE  m \div d <= n \div d /\ m \div d \in Nat /\ n \div d \in Nat
<1>1. PICK a \in Nat : a = m \div d /\ a * d <= m
  BY FloorDiv
<1>2. PICK b \in Nat : b = n \div d /\ n < b * d + d
  OBVIOUS
<1>3. a * d < (b + 1) * d
  BY <1>1, <1>2
<1>4. b + 1 <= a => (b + 1) * d <= a * d
  OBVIOUS
<1> QED BY <1>1, <1>2, <1>3, <1>4

LEMMA ProductMonotone ==
  ASSUME NEW a \in Nat, NEW b \in Nat, a <= b, NEW k \in Nat
  PROVE  a * k <= b * k /\ a * k \in Nat /\ b * k \in Nat
OBVIOUS

(* Rounded up, a quotient is at most t exactly when t divisors cover the       *)
(* dividend.                                                                  *)
LEMMA CeilAtMost ==
  ASSUME NEW n \in Nat, NEW d \in Nat \ {0}, NEW t \in Nat
  PROVE  CeilDiv(n, d) <= t <=> n <= t * d
<1>1. n <= t * d => CeilDiv(n, d) <= t
  BY CeilDivBounds
<1>2. CeilDiv(n, d) \in Nat /\ n <= CeilDiv(n, d) * d
  <2>1. CASE n = 0
    BY <2>1 DEF CeilDiv
  <2>2. CASE n # 0
    <3>1. PICK q \in Nat : q = (n - 1) \div d /\ n - 1 < q * d + d
      BY <2>2
    <3>2. CeilDiv(n, d) = q + 1 /\ (q + 1) * d = q * d + d
      BY <2>2, <3>1 DEF CeilDiv
    <3> QED BY <2>2, <3>1, <3>2
  <2> QED BY <2>1, <2>2
<1>3. CeilDiv(n, d) <= t => CeilDiv(n, d) * d <= t * d
  BY <1>2
<1> QED BY <1>1, <1>2, <1>3

LEMMA ValueMonotone ==
  ASSUME NEW c \in Nat, NEW e \in Nat, c <= e, NEW multiplier \in Nat,
         NEW price \in Nat, NEW haircut \in Nat, HaircutValid(haircut)
  PROVE  /\ CollateralValueUsd6(c, multiplier, price, haircut) \in Nat
         /\ CollateralValueUsd6(e, multiplier, price, haircut) \in Nat
         /\ CollateralValueUsd6(c, multiplier, price, haircut)
              <= CollateralValueUsd6(e, multiplier, price, haircut)
<1>1. BPS - haircut \in Nat
  BY DEF HaircutValid
<1>2. /\ c * multiplier <= e * multiplier
      /\ c * multiplier \in Nat /\ e * multiplier \in Nat
  BY ProductMonotone
<1>3. /\ c * multiplier * price <= e * multiplier * price
      /\ c * multiplier * price \in Nat /\ e * multiplier * price \in Nat
  BY <1>2, ProductMonotone
<1>4. /\ c * multiplier * price * (BPS - haircut) <= e * multiplier * price * (BPS - haircut)
      /\ c * multiplier * price * (BPS - haircut) \in Nat
      /\ e * multiplier * price * (BPS - haircut) \in Nat
  BY <1>1, <1>3, ProductMonotone
<1>5. TOKEN_UNIT * MULTIPLIER_SCALE * BPS \in Nat \ {0}
  OBVIOUS
<1> QED BY <1>4, <1>5, FloorMonotone DEF CollateralValueUsd6

(* An LTV that is within a limit stays there with less debt or more value; a   *)
(* limit is less than what stands for "no value at all".                       *)
LEMMA LtvStays ==
  ASSUME NEW d \in Nat, NEW e \in Nat, e <= d, NEW v \in Nat, NEW w \in Nat, v <= w,
         NEW t \in Nat, t < U64Max, LtvBps(d, v) <= t
  PROVE  LtvBps(e, w) <= t
<1>1. CASE v = 0
  <2>1. d = 0 /\ e = 0
    BY <1>1 DEF LtvBps
  <2> QED BY <2>1 DEF LtvBps, CeilDiv
<1>2. CASE v # 0
  <2>1. d * BPS \in Nat /\ e * BPS \in Nat /\ e * BPS <= d * BPS
    BY ProductMonotone
  <2>2. d * BPS <= t * v
    BY <1>2, <2>1, CeilAtMost DEF LtvBps
  <2>3. t * v <= t * w /\ t * v \in Nat /\ t * w \in Nat
    BY ProductMonotone
  <2>4. w \in Nat \ {0} /\ e * BPS <= t * w
    BY ONLY <1>2, <2>1, <2>2, <2>3, v \in Nat, w \in Nat, v <= w
  <2>5. CeilDiv(e * BPS, w) <= t
    BY ONLY <2>1, <2>4, t \in Nat, CeilAtMost
  <2>6. w # 0
    BY <2>4
  <2> QED BY ONLY <2>5, <2>6 DEF LtvBps
<1> QED BY <1>1, <1>2

LEMMA LtvNat ==
  ASSUME NEW d \in Nat, NEW v \in Nat
  PROVE  LtvBps(d, v) \in Nat
BY CeilDivBounds DEF LtvBps

-----------------------------------------------------------------------------
(* What is owed *)

LEMMA CeilMonotone ==
  ASSUME NEW m \in Nat, NEW n \in Nat, m <= n, NEW d \in Nat \ {0}
  PROVE  CeilDiv(m, d) <= CeilDiv(n, d)
<1>1. CeilDiv(n, d) \in Nat /\ n <= CeilDiv(n, d) * d
  BY CeilDivBounds, CeilAtMost
<1>2. m <= CeilDiv(n, d) * d
  BY <1>1
<1> QED BY <1>1, <1>2, CeilAtMost

(* What a position owes now is what accrue would write into it.               *)
LEMMA OwedIsAccrued ==
  ASSUME TypeOK, NEW p \in Positions
  PROVE  OwedNow(p) = AccruedDebt(p) /\ OwedNow(p) \in Nat
<1>1. /\ debt_principal[p] \in Nat /\ apr_bps[p] \in Nat
      /\ last_accrual_ts[p] \in Nat /\ now \in Nat /\ last_accrual_ts[p] <= now
  BY DEF TypeOK
<1>2. debt_principal[p] = 0 \/ last_accrual_ts[p] = now =>
        debt_principal[p] * apr_bps[p] * (now - last_accrual_ts[p]) = 0
  BY <1>1
<1>3. Interest(p) = AccrueInterest(debt_principal[p], apr_bps[p], now - last_accrual_ts[p])
  <2>1. CASE debt_principal[p] = 0 \/ last_accrual_ts[p] = now
    BY <1>1, <1>2, <2>1 DEF Interest, AccrueInterest, CeilDiv
  <2>2. CASE ~(debt_principal[p] = 0 \/ last_accrual_ts[p] = now)
    BY <1>1, <2>2 DEF Interest
  <2> QED BY <2>1, <2>2
<1> QED BY <1>3, Accrual DEF OwedNow, AccruedDebt

(* After an instruction the position owes what was written, and the others     *)
(* what they owed.                                                            *)
LEMMA OwedAfter ==
  ASSUME TypeOK, NEW p \in Positions, NEW c, NEW d, NEW a, PositionStep(p, c, d, a),
         NEW q \in Positions
  PROVE  OwedNow(q)' = IF q = p THEN d ELSE OwedNow(q)
<1>1. /\ debt_principal' = [debt_principal EXCEPT ![p] = d]
      /\ last_accrual_ts' = [last_accrual_ts EXCEPT ![p] = now]
      /\ apr_bps' = [apr_bps EXCEPT ![p] = a]
      /\ now' = now
  BY DEF PositionStep, WritePosition, env_vars
<1>2. CASE q # p
  <2>1. /\ debt_principal'[q] = debt_principal[q] /\ apr_bps'[q] = apr_bps[q]
        /\ last_accrual_ts'[q] = last_accrual_ts[q]
    BY <1>1, <1>2 DEF TypeOK
  <2> QED BY <1>1, <1>2, <2>1 DEF OwedNow
<1>3. CASE q = p
  <2>1. /\ debt_principal'[p] = d /\ last_accrual_ts'[p] = now /\ apr_bps'[p] = a
        /\ d \in Nat /\ a \in Nat /\ now \in Nat
    BY <1>1 DEF TypeOK, PositionStep
  <2>2. d * a * (now - now) = 0
    BY <2>1
  <2>3. AccrueInterest(d, a, now - now) = 0
    BY <2>2 DEF AccrueInterest, CeilDiv
  <2> QED BY <1>1, <1>3, <2>1, <2>3 DEF OwedNow
<1> QED BY <1>2, <1>3

(* Time alone only adds to a debt.                                            *)
LEMMA OwedGrows ==
  ASSUME TypeOK, Tick, NEW p \in Positions
  PROVE  OwedNow(p)' >= OwedNow(p) /\ OwedNow(p)' \in Nat
<1>1. /\ debt_principal' = debt_principal /\ last_accrual_ts' = last_accrual_ts
      /\ apr_bps' = apr_bps /\ now' = now + 1
  BY DEF Tick, position_vars
<1> DEFINE debt == debt_principal[p]
           apr  == apr_bps[p]
           e    == now - last_accrual_ts[p]
<1>2. /\ debt \in Nat /\ apr \in Nat /\ e \in Nat /\ now + 1 - last_accrual_ts[p] = e + 1
  BY DEF TypeOK
<1>3. /\ OwedNow(p) = debt + AccrueInterest(debt, apr, e)
      /\ OwedNow(p)' = debt + AccrueInterest(debt, apr, e + 1)
  <2>1. now' - last_accrual_ts'[p] = e + 1
    <3>1. now' = now + 1 /\ last_accrual_ts'[p] = last_accrual_ts[p]
      BY <1>1
    <3>2. now \in Int /\ last_accrual_ts[p] \in Int
      BY DEF TypeOK
    <3> QED BY ONLY <3>1, <3>2 DEF e
  <2> QED BY ONLY <1>1, <2>1 DEF OwedNow
<1> HIDE DEF debt, apr, e
<1>4. /\ debt * apr * e \in Nat /\ debt * apr * (e + 1) \in Nat
      /\ debt * apr * e <= debt * apr * (e + 1)
  <2>1. debt * apr \in Nat
    BY <1>2
  <2>2. debt * apr * (e + 1) = debt * apr * e + debt * apr
    BY <1>2
  <2> QED BY <1>2, <2>1, <2>2
<1>5. AccrueInterest(debt, apr, e) <= AccrueInterest(debt, apr, e + 1)
  <2>1. BPS * SECONDS_PER_YEAR \in Nat \ {0}
    OBVIOUS
  <2> QED BY <1>4, <2>1, CeilMonotone DEF AccrueInterest
<1>6. AccrueInterest(debt, apr, e) \in Nat /\ AccrueInterest(debt, apr, e + 1) \in Nat
  <2>1. e + 1 \in Nat
    BY <1>2
  <2> QED BY <1>2, <2>1, InterestNat
<1> QED BY <1>2, <1>3, <1>5, <1>6

(* Every other step leaves what each position owes alone. *)
LEMMA OwedKept ==
  ASSUME NEW p \in Positions,
         UNCHANGED <<debt_principal, apr_bps, last_accrual_ts, now>>
  PROVE  OwedNow(p)' = OwedNow(p)
BY DEF OwedNow

LEMMA OwedAtLeastPrincipal ==
  ASSUME TypeOK, NEW p \in Positions
  PROVE  debt_principal[p] <= OwedNow(p) /\ OwedNow(p) \in Nat
<1>1. debt_principal[p] \in Nat
  BY DEF TypeOK
<1> QED BY <1>1, Accrual, OwedIsAccrued DEF AccruedDebt

-----------------------------------------------------------------------------
(* How a debt moves *)

DebtMoves(p) ==
  /\ now' = now /\ OwedNow(p)' # OwedNow(p) =>
       OwedNow(p)' - OwedNow(p) = usdc_vault - usdc_vault'
  /\ OwedNow(p)' < OwedNow(p) => usdc_vault' > usdc_vault

LoansAreSound(p) ==
  debt_principal'[p] > OwedNow(p) => CollateralSound(p[1])

LEMMA DebtByPosition ==
  ASSUME TypeOK, NEW q \in Positions, NEW c, NEW d, NEW a, PositionStep(q, c, d, a),
         NEW p \in Positions
  PROVE  DebtMoves(p) /\ LoansAreSound(p)
<1>1. OwedNow(p)' = IF p = q THEN d ELSE OwedNow(p)
  BY OwedAfter
<1>2. OwedNow(p) \in Nat /\ debt_principal[p] <= OwedNow(p) /\ debt_principal[p] \in Nat
  BY OwedAtLeastPrincipal DEF TypeOK
<1>3. debt_principal' = [debt_principal EXCEPT ![q] = d]
  BY DEF PositionStep, WritePosition
<1>4. CASE p # q
  <2>1. debt_principal'[p] = debt_principal[p]
    BY <1>3, <1>4 DEF TypeOK
  <2> QED BY <1>1, <1>2, <1>4, <2>1 DEF DebtMoves, LoansAreSound
<1>5. CASE p = q
  <2>1. OwedNow(p) = AccruedDebt(p)
    BY OwedIsAccrued
  <2>2. /\ debt_principal'[p] = d /\ d \in Nat
        /\ usdc_vault' = usdc_vault + (OwedNow(p) - d) /\ usdc_vault \in Nat
        /\ d > OwedNow(p) => CollateralSound(p[1])
    BY <1>3, <1>5, <2>1 DEF PositionStep, TypeOK
  <2>3. OwedNow(p)' = d
    BY <1>1, <1>5
  <2> QED BY <1>2, <2>2, <2>3 DEF DebtMoves, LoansAreSound
<1> QED BY <1>4, <1>5

LEMMA DebtByRest ==
  ASSUME TypeOK, SavingsNext \/ AdminNext \/ EnvNext \/ UNCHANGED vars,
         NEW p \in Positions
  PROVE  DebtMoves(p) /\ LoansAreSound(p)
<1>1. /\ debt_principal' = debt_principal /\ apr_bps' = apr_bps
      /\ last_accrual_ts' = last_accrual_ts
  BY DEF SavingsNext, DepositSavings, WithdrawSavings, ClaimReserve, AdminNext,
     AddMarket, UpdateMarket, SetPause, SetSignedPrice, EnvNext, Tick, IssuerSets,
     IssuerClawsBack, IssuerReturns, vars, position_vars
<1>2. OwedNow(p) \in Nat /\ debt_principal[p] <= OwedNow(p) /\ debt_principal[p] \in Nat
  BY OwedAtLeastPrincipal DEF TypeOK
<1>3. LoansAreSound(p)
  BY <1>1, <1>2 DEF LoansAreSound
<1>4. CASE Tick
  <2>1. now \in Nat /\ now' = now + 1
    BY <1>4 DEF Tick, TypeOK
  <2>2. OwedNow(p)' >= OwedNow(p) /\ OwedNow(p)' \in Nat
    BY <1>4, OwedGrows
  <2> QED BY <1>2, <1>3, <2>1, <2>2 DEF DebtMoves
<1>5. CASE ~Tick
  <2>1. now' = now
    BY <1>5 DEF SavingsNext, DepositSavings, WithdrawSavings, ClaimReserve, AdminNext,
       AddMarket, UpdateMarket, SetPause, SetSignedPrice, EnvNext, IssuerSets,
       IssuerClawsBack, IssuerReturns, vars, env_vars
  <2>2. OwedNow(p)' = OwedNow(p)
    BY <1>1, <2>1, OwedKept
  <2> QED BY <1>2, <1>3, <2>2 DEF DebtMoves
<1> QED BY <1>4, <1>5

LEMMA DebtStep ==
  ASSUME LoansInv, [Next]_vars, NEW p \in Positions
  PROVE  DebtMoves(p) /\ LoansAreSound(p)
<1>1. TypeOK
  BY DEF LoansInv, TotalsInv, TypeInv
<1>2. CASE CollateralNext \/ DebtNext
  <2>1. PICK q \in Positions : \E c, d, a : PositionStep(q, c, d, a)
    BY <1>2, PositionSteps DEF LoansInv, TotalsInv, TypeInv
  <2>2. PICK c, d, a : PositionStep(q, c, d, a)
    BY <2>1
  <2> QED BY <1>1, <2>2, DebtByPosition
<1>3. CASE SavingsNext \/ AdminNext \/ EnvNext \/ UNCHANGED vars
  BY <1>1, <1>3, DebtByRest
<1> QED BY <1>2, <1>3 DEF Next

(* At one instant a debt changes only by the cash that leaves or enters the   *)
(* vault, and time alone never reduces it.                                    *)
THEOREM DebtMovesWithCashAlways == Spec => DebtMovesWithCash
<1>1. LoansInv /\ [Next]_vars =>
        [\A p \in Positions :
           /\ now' = now /\ OwedNow(p)' # OwedNow(p) =>
                OwedNow(p)' - OwedNow(p) = usdc_vault - usdc_vault'
           /\ OwedNow(p)' < OwedNow(p) => usdc_vault' > usdc_vault]_vars
  BY DebtStep DEF DebtMoves
<1> QED BY <1>1, LoansInvariant, PTL DEF Spec, DebtMovesWithCash

(* A market whose issuer took collateral and has not sent it back lends       *)
(* nothing: the books then say more than the vault holds.                     *)
THEOREM ClawbackStopsLoansAlways == Spec => ClawbackStopsLoans
<1>1. ASSUME LoansInv, NEW p \in Positions, CollateralSound(p[1])
      PROVE  clawed_back[p[1]] = 0
  <2>1. /\ p[1] \in Markets
        /\ collateral_vault[p[1]] \in Nat /\ clawed_back[p[1]] \in Nat
        /\ collateral_vault[p[1]] + clawed_back[p[1]] = total_collateral[p[1]]
    BY <1>1, PositionTypes DEF LoansInv, TotalsInv, TypeInv, VaultReconciles
  <2> QED BY <1>1, <2>1 DEF CollateralSound
<1>2. LoansInv /\ [Next]_vars =>
        [\A p \in Positions :
           debt_principal'[p] > OwedNow(p) => clawed_back[p[1]] = 0]_vars
  BY <1>1, DebtStep DEF LoansAreSound
<1> QED BY <1>2, LoansInvariant, PTL DEF Spec, ClawbackStopsLoans
-----------------------------------------------------------------------------
(* Health.  A position nobody opened owes nothing: its first deposit cannot      *)
(* turn an old debt into a liquidatable one.                                   *)

UnopenedOweNothing == \A p \in Positions : p \notin opened => debt_principal[p] = 0
RiskInv == LoansInv /\ UnopenedOweNothing

LEMMA RiskInvariant == Spec => []RiskInv
<1>1. Init => UnopenedOweNothing
  BY DEF Init, UnopenedOweNothing
<1>2. LoansInv /\ UnopenedOweNothing /\ [Next]_vars => UnopenedOweNothing'
  <2> SUFFICES ASSUME LoansInv, UnopenedOweNothing, [Next]_vars
               PROVE  UnopenedOweNothing'
    OBVIOUS
  <2> USE DEF LoansInv, TotalsInv, TypeInv
  <2>1. CASE CollateralNext \/ DebtNext
    <3>1. PICK p \in Positions : \E c, d, a : PositionStep(p, c, d, a)
      BY <2>1, PositionSteps
    <3>2. /\ opened \subseteq opened' /\ p \in opened'
          /\ \A q \in Positions : q # p => debt_principal'[q] = debt_principal[q]
      BY <3>1 DEF PositionStep, WritePosition, TypeOK
    <3> QED BY <3>2 DEF UnopenedOweNothing
  <2>2. CASE SavingsNext \/ AdminNext \/ EnvNext \/ UNCHANGED vars
    <3>1. debt_principal' = debt_principal /\ opened' = opened
      BY <2>2 DEF SavingsNext, DepositSavings, WithdrawSavings, ClaimReserve, AdminNext,
         AddMarket, UpdateMarket, SetPause, SetSignedPrice, EnvNext, Tick, IssuerSets,
         IssuerClawsBack, IssuerReturns, vars, position_vars
    <3> QED BY <3>1 DEF UnopenedOweNothing
  <2> QED BY <2>1, <2>2 DEF Next
<1> QED BY <1>1, <1>2, LoansInvariant, PTL DEF Spec, RiskInv

(* What an instruction on p may leave behind. *)
Improves(p) ==
  /\ collateral_amount[p] <= collateral_amount'[p]
  /\ debt_principal'[p] <= AccruedDebt(p)
KeepsHealth(p) ==
  \/ debt_principal'[p] = 0
  \/ WithinMaxLtv(p[1], collateral_amount'[p], debt_principal'[p])
  \/ Improves(p)
  \/ Unhealthy(p)

(* Of the tokens a liquidator takes, and the debt it repays. *)
TakesFairly(p, repaid, seized) ==
  /\ repaid \in Nat /\ repaid <= AccruedDebt(p)
  /\ seized \in Nat /\ seized <= collateral_amount[p]
  /\ debt_principal'[p] = AccruedDebt(p) - repaid
  /\ collateral_amount'[p] = collateral_amount[p] - seized
  /\ PriceUsd6(p[1]) \in Nat /\ market[p[1]].liq_bonus_bps \in Nat
  /\ BPS * PriceUsd6(p[1]) * mint[p[1]].multiplier \in Nat \ {0}
  /\ seized * (BPS * PriceUsd6(p[1]) * mint[p[1]].multiplier)
       <= repaid * (BPS + market[p[1]].liq_bonus_bps) * TOKEN_UNIT * MULTIPLIER_SCALE
TradesFairly(p) ==
  \/ collateral_amount[p] <= collateral_amount'[p]
  \/ AccruedDebt(p) <= debt_principal'[p]
  \/ \E repaid, seized : TakesFairly(p, repaid, seized)

LEMMA LiquidationIsFair ==
  ASSUME TypeOK, MarketOpen, NEW p \in Positions, NEW amount \in Amounts,
         Liquidate(p, amount)
  PROVE  TakesFairly(p, amount, SeizedAmount(p, amount))
<1> DEFINE m == p[1]
           price == PriceUsd6(m)
           worth == BPS * price * mint[m].multiplier
           due == amount * (BPS + market[m].liq_bonus_bps) * TOKEN_UNIT * MULTIPLIER_SCALE
<1>1. /\ amount \in Nat /\ AccruedDebt(p) \in Nat /\ collateral_amount[p] \in Nat
      /\ amount <= AccruedDebt(p) /\ market[m] # NoMarket
  BY InputAssumption, Accrual, PositionTypes DEF Liquidate, MayLiquidate, MarketOpen
<1>2. /\ market[m].liq_bonus_bps \in Nat /\ mint[m].multiplier \in Nat
      /\ SeizeDefined(price, mint[m].multiplier)
  BY <1>1, InputAssumption, PositionTypes DEF TypeOK, RiskParamsType, Liquidate, MayLiquidate
<1>3. price \in Nat
  <2>1. signed_price[m] \in SignedPriceType
    BY PositionTypes DEF Liquidate, MayLiquidate, AboveLiqThreshold, PriceUsable, TypeOK
  <2> QED BY <2>1, PriceNat DEF PriceUsd6, SignedPriceType
<1> HIDE DEF price
<1>4. worth \in Nat \ {0} /\ due \in Nat
  BY <1>1, <1>2, <1>3 DEF SeizeDefined
<1>5. /\ SeizeAmount(amount, market[m].liq_bonus_bps, price, mint[m].multiplier) = due \div worth
      /\ due \div worth \in Nat /\ (due \div worth) * worth <= due
  BY <1>4, FloorDiv DEF SeizeAmount
<1> DEFINE seized == SeizedAmount(p, amount)
<1>6. seized \in Nat /\ seized <= collateral_amount[p] /\ seized <= due \div worth
  BY <1>1, <1>5 DEF SeizedAmount, price
<1>7. seized * worth <= due
  <2> HIDE DEF seized, worth, due
  <2>1. seized * worth <= (due \div worth) * worth /\ seized * worth \in Nat
    BY <1>4, <1>5, <1>6, ProductMonotone
  <2> QED BY <1>4, <1>5, <2>1
<1>8. /\ debt_principal'[p] = AccruedDebt(p) - amount
      /\ collateral_amount'[p] = collateral_amount[p] - seized
  BY DEF Liquidate, WritePosition, TypeOK
<1> QED BY <1>1, <1>2, <1>3, <1>4, <1>6, <1>7, <1>8 DEF TakesFairly, price

(* A swap of s tokens for r of debt, at no better than b of debt for k tokens, *)
(* lowers o of debt per c tokens when these are worth at least as much.        *)
LEMMA FairSwap ==
  ASSUME NEW o \in Nat, NEW c \in Nat, NEW r \in Nat, NEW s \in Nat,
         r <= o, s <= c, NEW k \in Nat \ {0}, NEW b \in Nat,
         s * k <= r * b, o * b <= c * k
  PROVE  (o - r) * c <= o * (c - s)
<1>1. o * s <= r * c
  <2>1. (o * s) * k <= o * (r * b) /\ (o * s) * k \in Nat
    <3>1. s * k \in Nat /\ r * b \in Nat
      OBVIOUS
    <3>2. (s * k) * o <= (r * b) * o
      BY <3>1, ProductMonotone
    <3> QED BY <3>2
  <2>2. r * (o * b) <= (r * c) * k
    <3>1. o * b \in Nat /\ c * k \in Nat
      OBVIOUS
    <3>2. (o * b) * r <= (c * k) * r
      BY <3>1, ProductMonotone
    <3> QED BY <3>2
  <2>3. (o * s) * k <= (r * c) * k
    BY <2>1, <2>2
  <2>4. o * s \in Nat /\ r * c \in Nat
    OBVIOUS
  <2> DEFINE x == o * s
             y == r * c
  <2>5. x \in Nat /\ y \in Nat /\ x * k <= y * k
    BY <2>3, <2>4
  <2> HIDE DEF x, y
  <2>6. x <= y
    <3>1. y + 1 <= x => (y + 1) * k <= x * k
      BY <2>5, ProductMonotone
    <3>2. (y + 1) * k = y * k + k /\ y * k \in Nat /\ x * k \in Nat
      BY <2>5
    <3> QED BY <2>5, <3>1, <3>2
  <2> QED BY <2>6 DEF x, y
<1>2. (o - r) * c = o * c - r * c /\ o * (c - s) = o * c - o * s
  OBVIOUS
<1>3. o * c \in Nat /\ r * c \in Nat /\ o * s \in Nat
  OBVIOUS
<1> QED BY <1>1, <1>2, <1>3

(* What an instruction does to the health of its position and to the          *)
(* collateral behind its debt.                                               *)
LEMMA InstructionEffects ==
  ASSUME TypeOK, MarketsValid, MarketOpen, CollateralNext \/ DebtNext
  PROVE  \E p \in Positions :
           /\ KeepsHealth(p) /\ TradesFairly(p)
           /\ \E c, d, a : PositionStep(p, c, d, a)
<1>1. ASSUME NEW p \in Positions, NEW c, NEW d, NEW a, WritePosition(p, c, d, a)
      PROVE  collateral_amount'[p] = c /\ debt_principal'[p] = d
  BY <1>1 DEF WritePosition, TypeOK
<1>2. ASSUME NEW p \in Positions, NEW amount \in TokenAmounts, NEW wp \in BOOLEAN,
             LockCollateral(p, amount, wp)
      PROVE  KeepsHealth(p) /\ TradesFairly(p)
  <2>1. /\ collateral_amount'[p] = collateral_amount[p] + amount
        /\ debt_principal'[p] = AccruedDebt(p)
    BY <1>1, <1>2 DEF LockCollateral
  <2>2. amount \in Nat /\ collateral_amount[p] \in Nat /\ AccruedDebt(p) \in Nat
    BY InputAssumption, Accrual, PositionTypes
  <2> QED BY <2>1, <2>2 DEF KeepsHealth, Improves, TradesFairly
<1>3. ASSUME NEW p \in Positions, NEW amount \in TokenAmounts, NEW wp \in BOOLEAN,
             WithdrawCollateral(p, amount, wp)
      PROVE  KeepsHealth(p) /\ TradesFairly(p)
  <2>1. /\ collateral_amount'[p] = collateral_amount[p] - amount
        /\ debt_principal'[p] = AccruedDebt(p)
        /\ MayWithdraw(p, amount, wp)
    BY <1>1, <1>3 DEF WithdrawCollateral
  <2>2. AccruedDebt(p) \in Nat
    BY Accrual
  <2> QED BY <2>1, <2>2 DEF KeepsHealth, MayWithdraw, TradesFairly
<1>4. ASSUME NEW p \in Positions, NEW amount \in Amounts, Borrow(p, amount)
      PROVE  KeepsHealth(p) /\ TradesFairly(p)
  <2>1. /\ collateral_amount'[p] = collateral_amount[p]
        /\ debt_principal'[p] = AccruedDebt(p) + amount
        /\ WithinMaxLtv(p[1], collateral_amount[p], AccruedDebt(p) + amount)
    BY <1>1, <1>4 DEF Borrow
  <2>2. amount \in Nat /\ AccruedDebt(p) \in Nat
    BY InputAssumption, Accrual
  <2> QED BY <2>1, <2>2 DEF KeepsHealth, TradesFairly
<1>5. ASSUME NEW p \in Positions, NEW amount \in Amounts, NEW wp \in BOOLEAN,
             Repay(p, amount, wp)
      PROVE  KeepsHealth(p) /\ TradesFairly(p)
  <2>1. /\ collateral_amount'[p] = collateral_amount[p]
        /\ debt_principal'[p] = AccruedDebt(p) - PaidAmount(p, amount)
        /\ PaidAmount(p, amount) > 0
    BY <1>1, <1>5 DEF Repay, MayRepay
  <2>2. /\ amount \in Nat /\ collateral_amount[p] \in Nat /\ AccruedDebt(p) \in Nat
        /\ PaidAmount(p, amount) \in Nat
    BY InputAssumption, Accrual, PositionTypes DEF PaidAmount
  <2> QED BY <2>1, <2>2 DEF KeepsHealth, Improves, TradesFairly
<1>6. ASSUME NEW p \in Positions, NEW amount \in Amounts, Liquidate(p, amount)
      PROVE  KeepsHealth(p) /\ TradesFairly(p)
  <2>1. KeepsHealth(p)
    BY <1>6, OwedIsAccrued
       DEF Liquidate, MayLiquidate, AboveLiqThreshold, LtvDefined, Unhealthy, KeepsHealth
  <2>2. TradesFairly(p)
    BY <1>6, LiquidationIsFair DEF TradesFairly
  <2> QED BY <2>1, <2>2
<1>7. CASE CollateralNext
  BY <1>2, <1>3, <1>7, AmountsNat, LockShape, WithdrawShape
     DEF CollateralNext, DepositCollateral, DepositCollateralFor
<1>8. CASE DebtNext
  BY <1>4, <1>5, <1>6, <1>8, AmountsNat, BorrowShape, RepayShape, LiquidateShape
     DEF DebtNext
<1> QED BY <1>7, <1>8

(* The market, the price, the mint and the clock as they were: so is what they  *)
(* say of a position.                                                         *)
SameMarket(m) ==
  /\ now' = now /\ signed_price'[m] = signed_price[m]
  /\ market'[m] = market[m] /\ mint'[m] = mint[m]

LEMMA SameRisk ==
  ASSUME NEW m, SameMarket(m)
  PROVE  /\ PriceUsable(m)' = PriceUsable(m)
         /\ EffectiveHaircut(m)' = EffectiveHaircut(m)
         /\ PriceUsd6(m)' = PriceUsd6(m)
BY DEF SameMarket, PriceUsable, PriceAge, Fresh, ClosedMarketFallback, PriceUsd6,
       EffectiveHaircut

LEMMA RiskTypes ==
  ASSUME TypeInv, NEW p \in Positions, market[p[1]] # NoMarket, PriceUsable(p[1])
  PROVE  /\ PriceUsd6(p[1]) \in Nat /\ mint[p[1]].multiplier \in Nat
         /\ EffectiveHaircut(p[1]) \in Nat /\ market[p[1]].liq_bonus_bps \in Nat
         /\ market[p[1]].liq_threshold_bps \in Nat
         /\ market[p[1]].max_ltv_bps \in Nat
         /\ market[p[1]].max_ltv_bps <= market[p[1]].liq_threshold_bps
         /\ market[p[1]].liq_threshold_bps < U64Max
<1> USE DEF TypeInv
<1>1. /\ p[1] \in Markets /\ market[p[1]] \in RiskParamsType
      /\ ValidRiskParams(market[p[1]]) /\ mint[p[1]].multiplier \in Nat
  BY InputAssumption, PositionTypes DEF TypeOK, MarketsValid
<1>2. PriceUsd6(p[1]) \in Nat
  <2>1. signed_price[p[1]] \in SignedPriceType
    BY <1>1 DEF PriceUsable, TypeOK
  <2> QED BY <2>1, PriceNat DEF PriceUsd6, SignedPriceType
<1>3. EffectiveHaircut(p[1]) \in Nat
  BY <1>1 DEF EffectiveHaircut, RiskParamsType
<1>4. (9 * BPS) \div 10 < U64Max
  OBVIOUS
<1> QED BY <1>1, <1>2, <1>3, <1>4 DEF ValidRiskParams, ThresholdsOrdered, RiskParamsType

LEMMA HealthyByPosition ==
  ASSUME RiskInv, NEW q \in Positions, KeepsHealth(q),
         NEW c, NEW d, NEW a, PositionStep(q, c, d, a),
         NEW p \in Positions, SameMarket(p[1]), ~Unhealthy(p)
  PROVE  ~Unhealthy(p)'
<1> USE DEF RiskInv, LoansInv, TotalsInv, TypeInv
<1> DEFINE m == p[1]
<1>1. OwedNow(p)' = IF p = q THEN d ELSE OwedNow(p)
  BY OwedAfter
<1>2. /\ collateral_amount' = [collateral_amount EXCEPT ![q] = c]
      /\ debt_principal' = [debt_principal EXCEPT ![q] = d]
      /\ opened' \in {opened, opened \cup {q}}
  BY DEF PositionStep, WritePosition
<1>3. /\ PriceUsable(m)' = PriceUsable(m)
      /\ EffectiveHaircut(m)' = EffectiveHaircut(m)
      /\ PriceUsd6(m)' = PriceUsd6(m)
      /\ market'[m] = market[m] /\ mint'[m] = mint[m]
  BY SameRisk DEF SameMarket
<1>4. Ltv(m, collateral_amount[p], OwedNow(p))'
        = LtvBps(OwedNow(p)', CollateralValueUsd6(collateral_amount'[p],
                   mint[m].multiplier, PriceUsd6(m), EffectiveHaircut(m)))
  BY <1>3 DEF Ltv, Value
<1>5. CASE p # q
  <2>1. /\ OwedNow(p)' = OwedNow(p) /\ collateral_amount'[p] = collateral_amount[p]
        /\ p \in opened' <=> p \in opened
    BY <1>1, <1>2, <1>5 DEF TypeOK
  <2> QED BY <1>3, <1>4, <2>1 DEF Unhealthy, Ltv, Value
<1>6. CASE p = q
  <2> SUFFICES ASSUME Unhealthy(p)'
               PROVE  FALSE
    OBVIOUS
  <2> DEFINE V(n) == CollateralValueUsd6(n, mint[m].multiplier, PriceUsd6(m),
                                         EffectiveHaircut(m))
             limit == market[m].liq_threshold_bps
  <2>1. /\ PriceUsable(m) /\ HaircutValid(EffectiveHaircut(m))
        /\ collateral_amount'[p] = c /\ debt_principal'[p] = d /\ OwedNow(p)' = d
        /\ LtvBps(d, V(c)) > limit
    <3>1. collateral_amount'[p] = c /\ debt_principal'[p] = d
      BY <1>2, <1>6 DEF TypeOK
    <3> QED BY <1>1, <1>3, <1>4, <1>6, <3>1 DEF Unhealthy
  <2>2. /\ PriceUsd6(m) \in Nat /\ mint[m].multiplier \in Nat
        /\ EffectiveHaircut(m) \in Nat
        /\ limit \in Nat /\ limit < U64Max
        /\ market[m].max_ltv_bps \in Nat /\ market[m].max_ltv_bps <= limit
    BY <1>6, <2>1, RiskTypes DEF PositionStep
  <2>3. d \in Nat /\ c \in Nat /\ collateral_amount[p] \in Nat
    BY PositionTypes DEF PositionStep
  <2>4. \A n \in Nat, k \in Nat : n <= k => V(n) \in Nat /\ V(n) <= V(k)
    BY ONLY <2>1, <2>2, ValueMonotone
  <2> HIDE DEF V, limit
  <2>v. V(c) \in Nat /\ LtvBps(d, V(c)) \in Nat
    <3>1. c \in Nat /\ d \in Nat /\ c <= c
      BY ONLY <2>3
    <3>2. V(c) \in Nat
      BY ONLY <2>4, <3>1
    <3> QED BY ONLY <3>1, <3>2, LtvNat
  <2>5. OwedNow(p) = AccruedDebt(p) /\ OwedNow(p) \in Nat
    BY OwedIsAccrued
  <2>6. d # 0
    BY <2>1, <2>2, <2>v DEF LtvBps, CeilDiv
  <2>7. ~WithinMaxLtv(m, c, d)
    <3>1. ASSUME LtvBps(d, V(c)) <= market[m].max_ltv_bps PROVE FALSE
      <4> QED BY ONLY <2>1, <2>2, <2>v, <3>1
    <3> QED BY <3>1 DEF WithinMaxLtv, Ltv, Value, V
  <2>8. ASSUME collateral_amount[p] <= c, d <= OwedNow(p) PROVE FALSE
    <3>1. p \in opened
      <4>1. CASE p \notin opened
        <5>1. debt_principal[p] = 0
          BY <4>1 DEF UnopenedOweNothing
        <5>2. OwedNow(p) = 0
          BY <2>5, <5>1, Accrual DEF AccruedDebt
        <5> QED BY <2>3, <2>6, <2>8, <5>2
      <4> QED BY <4>1
    <3>2. ~(LtvBps(OwedNow(p), V(collateral_amount[p])) > limit)
      BY <2>1, <3>1 DEF Unhealthy, Ltv, Value, V, limit
    <3>3. /\ V(collateral_amount[p]) \in Nat
          /\ V(collateral_amount[p]) <= V(c)
      BY ONLY <2>3, <2>4, <2>8
    <3>4. LtvBps(OwedNow(p), V(collateral_amount[p])) \in Nat
      BY <2>5, <3>3, LtvNat
    <3>5. LtvBps(OwedNow(p), V(collateral_amount[p])) <= limit
      BY ONLY <2>2, <3>2, <3>4
    <3>6. LtvBps(d, V(c)) <= limit
      BY ONLY <2>2, <2>3, <2>5, <2>8, <2>v, <3>3, <3>5, LtvStays
    <3> QED BY ONLY <2>1, <2>2, <2>v, <3>6
  <2> QED BY <1>6, <2>1, <2>5, <2>6, <2>7, <2>8 DEF KeepsHealth, Improves
<1> QED BY <1>5, <1>6

LEMMA HealthyStep ==
  ASSUME RiskInv, [Next]_vars, NEW p \in Positions, SameMarket(p[1]), ~Unhealthy(p)
  PROVE  ~Unhealthy(p)'
<1> USE DEF RiskInv, LoansInv, TotalsInv, TypeInv
<1>1. CASE CollateralNext \/ DebtNext
  <2>1. PICK q \in Positions :
          KeepsHealth(q) /\ \E c, d, a : PositionStep(q, c, d, a)
    BY <1>1, InstructionEffects
  <2>2. PICK c, d, a : PositionStep(q, c, d, a)
    BY <2>1
  <2> QED BY <2>1, <2>2, HealthyByPosition
<1>2. CASE SavingsNext \/ AdminNext \/ EnvNext \/ UNCHANGED vars
  <2>1. position_vars' = position_vars
    BY <1>2 DEF SavingsNext, DepositSavings, WithdrawSavings, ClaimReserve, AdminNext,
       AddMarket, UpdateMarket, SetPause, SetSignedPrice, EnvNext, Tick, IssuerSets,
       IssuerClawsBack, IssuerReturns, vars
  <2>2. OwedNow(p)' = OwedNow(p)
    BY <2>1, OwedKept DEF position_vars, SameMarket
  <2>3. /\ PriceUsable(p[1])' = PriceUsable(p[1])
        /\ EffectiveHaircut(p[1])' = EffectiveHaircut(p[1])
        /\ PriceUsd6(p[1])' = PriceUsd6(p[1])
        /\ market'[p[1]] = market[p[1]] /\ mint'[p[1]] = mint[p[1]]
    BY SameRisk DEF SameMarket
  <2> QED BY <2>1, <2>2, <2>3 DEF Unhealthy, Ltv, Value, position_vars
<1> QED BY <1>1, <1>2 DEF Next

(* No instruction, by anyone, makes a healthy position liquidatable: that takes  *)
(* time, a new price, new risk parameters or a new multiplier.                  *)
THEOREM StaysHealthyAlways == Spec => StaysHealthy
<1>1. RiskInv /\ [Next]_vars =>
        [\A p \in Positions :
           (~Unhealthy(p) /\ Unhealthy(p)') =>
             \/ now' # now
             \/ signed_price'[p[1]] # signed_price[p[1]]
             \/ market'[p[1]] # market[p[1]]
             \/ mint'[p[1]] # mint[p[1]]]_vars
  BY HealthyStep DEF SameMarket
<1> QED BY <1>1, RiskInvariant, PTL DEF Spec, StaysHealthy

-----------------------------------------------------------------------------
(* Liquidation *)

FairAt(p) ==
  (/\ debt_principal'[p] < OwedNow(p)
   /\ collateral_amount'[p] < collateral_amount[p]
   /\ CoversBonus(p)) =>
    debt_principal'[p] * collateral_amount[p] <= OwedNow(p) * collateral_amount'[p]

LEMMA TakenFairly ==
  ASSUME TypeOK, NEW p \in Positions, NEW repaid, NEW seized,
         TakesFairly(p, repaid, seized)
  PROVE  FairAt(p)
<1> SUFFICES ASSUME CoversBonus(p)
             PROVE  debt_principal'[p] * collateral_amount[p]
                      <= OwedNow(p) * collateral_amount'[p]
  BY DEF FairAt
<1> DEFINE o == OwedNow(p)
           c == collateral_amount[p]
           price == PriceUsd6(p[1])
           mult == mint[p[1]].multiplier
           k == BPS * price * mult
           b == (BPS + market[p[1]].liq_bonus_bps) * TOKEN_UNIT * MULTIPLIER_SCALE
<1>1. /\ o = AccruedDebt(p) /\ o \in Nat /\ c \in Nat
      /\ price \in Nat /\ market[p[1]].liq_bonus_bps \in Nat
      /\ mult \in Nat
  BY OwedIsAccrued, PositionTypes, InputAssumption DEF TakesFairly, TypeOK
<1>2. /\ repaid \in Nat /\ seized \in Nat /\ repaid <= o /\ seized <= c
      /\ debt_principal'[p] = o - repaid /\ collateral_amount'[p] = c - seized
      /\ k \in Nat \ {0}
      /\ seized * k
           <= repaid * (BPS + market[p[1]].liq_bonus_bps) * TOKEN_UNIT * MULTIPLIER_SCALE
  BY <1>1 DEF TakesFairly
<1>3. c * mult * price * BPS
        >= o * (BPS + market[p[1]].liq_bonus_bps) * TOKEN_UNIT * MULTIPLIER_SCALE
  BY DEF CoversBonus
<1> DEFINE bonus == market[p[1]].liq_bonus_bps
<1> HIDE DEF o, c, price, mult, bonus
<1>4. b \in Nat
  BY <1>1 DEF bonus
<1>5. /\ repaid * (BPS + bonus) * TOKEN_UNIT * MULTIPLIER_SCALE
           = repaid * ((BPS + bonus) * TOKEN_UNIT * MULTIPLIER_SCALE)
      /\ o * (BPS + bonus) * TOKEN_UNIT * MULTIPLIER_SCALE
           = o * ((BPS + bonus) * TOKEN_UNIT * MULTIPLIER_SCALE)
      /\ c * mult * price * BPS = c * (BPS * price * mult)
  <2>1. bonus \in Nat
    BY <1>1 DEF bonus
  <2> QED BY ONLY <1>1, <1>2, <2>1, ScaleAssumption
<1>6. seized * k <= repaid * b /\ o * b <= c * k
  BY <1>2, <1>3, <1>5 DEF bonus
<1> HIDE DEF k, b
<1>7. (o - repaid) * c <= o * (c - seized)
  BY ONLY <1>1, <1>2, <1>4, <1>6, FairSwap
<1> QED BY ONLY <1>2, <1>7 DEF o, c

LEMMA FairStep ==
  ASSUME RiskInv, [Next]_vars, NEW p \in Positions
  PROVE  FairAt(p)
<1> USE DEF RiskInv, LoansInv, TotalsInv, TypeInv
<1>1. /\ OwedNow(p) = AccruedDebt(p) /\ OwedNow(p) \in Nat
      /\ debt_principal[p] <= OwedNow(p) /\ debt_principal[p] \in Nat
      /\ collateral_amount[p] \in Nat
  BY OwedIsAccrued, OwedAtLeastPrincipal, PositionTypes
<1>2. CASE CollateralNext \/ DebtNext
  <2>1. PICK q \in Positions :
          TradesFairly(q) /\ \E c, d, a : PositionStep(q, c, d, a)
    BY <1>2, InstructionEffects
  <2>2. PICK c, d, a : PositionStep(q, c, d, a)
    BY <2>1
  <2>3. /\ collateral_amount' = [collateral_amount EXCEPT ![q] = c]
        /\ debt_principal' = [debt_principal EXCEPT ![q] = d]
        /\ c \in Nat /\ d \in Nat
    BY <2>2 DEF PositionStep, WritePosition
  <2>4. CASE p # q
    <3>1. collateral_amount'[p] = collateral_amount[p]
      BY <2>3, <2>4 DEF TypeOK
    <3> QED BY <1>1, <3>1 DEF FairAt
  <2>5. CASE p = q
    <3>1. collateral_amount'[p] = c /\ debt_principal'[p] = d
      BY <2>3, <2>5 DEF TypeOK
    <3>2. CASE \E repaid, seized : TakesFairly(p, repaid, seized)
      BY <3>2, TakenFairly
    <3>3. CASE \/ collateral_amount[p] <= collateral_amount'[p]
               \/ AccruedDebt(p) <= debt_principal'[p]
      BY <1>1, <2>3, <3>1, <3>3 DEF FairAt
    <3> QED BY <2>1, <2>5, <3>2, <3>3 DEF TradesFairly
  <2> QED BY <2>4, <2>5
<1>3. CASE SavingsNext \/ AdminNext \/ EnvNext \/ UNCHANGED vars
  <2>1. collateral_amount' = collateral_amount
    BY <1>3 DEF SavingsNext, DepositSavings, WithdrawSavings, ClaimReserve, AdminNext,
       AddMarket, UpdateMarket, SetPause, SetSignedPrice, EnvNext, Tick, IssuerSets,
       IssuerClawsBack, IssuerReturns, vars, position_vars
  <2> QED BY <1>1, <2>1 DEF FairAt
<1> QED BY <1>2, <1>3 DEF Next

(* While the collateral at full price covers the debt and the bonus, a         *)
(* liquidation lowers the debt per token of collateral, however the seizure    *)
(* is rounded and whether or not it is capped.                                *)
THEOREM LiquidationHelpsAlways == Spec => LiquidationHelps
<1>1. RiskInv /\ [Next]_vars =>
        [\A p \in Positions :
           (/\ debt_principal'[p] < OwedNow(p)
            /\ collateral_amount'[p] < collateral_amount[p]
            /\ CoversBonus(p)) =>
             debt_principal'[p] * collateral_amount[p]
               <= OwedNow(p) * collateral_amount'[p]]_vars
  BY FairStep DEF FairAt
<1> QED BY <1>1, RiskInvariant, PTL DEF Spec, LiquidationHelps

-----------------------------------------------------------------------------
(* What stays open.  RepayAlwaysOpen and LiquidationOpen say it with ENABLED,   *)
(* on instances where no sum leaves a u64; here it is the handler's own checks,  *)
(* and the sums that must fit are named.                                      *)

(* The books cover each of their entries. *)
LEMMA BooksCover ==
  ASSUME TotalsInv, NEW p \in Positions
  PROVE  /\ AccruedDebt(p) <= AccruedBorrowed(p)
         /\ collateral_amount[p] <= total_collateral[p[1]]
<1> USE DEF TotalsInv, TypeInv
<1>1. debt_principal[p] <= total_borrowed
  <2>1. \A q \in Positions : debt_principal[q] \in Nat
    BY DEF TypeOK
  <2> QED BY <2>1, FinitePositions, SumBoundsEntry DEF TotalsMatch, DebtSum
<1>2. collateral_amount[p] <= total_collateral[p[1]]
  <2>1. p[1] \in Markets /\ p \in {p[1]} \X Owners
    BY DEF Positions
  <2>2. IsFiniteSet({p[1]} \X Owners) /\ {p[1]} \X Owners \subseteq Positions
    BY <2>1, FinitePositions
  <2>3. \A q \in {p[1]} \X Owners : collateral_amount[q] \in Nat
    BY <2>2 DEF TypeOK
  <2>4. collateral_amount[p] <= SumFunctionOnSet(collateral_amount, {p[1]} \X Owners)
    BY ONLY <2>1, <2>2, <2>3, SumBoundsEntry
  <2> QED BY <2>1, <2>4 DEF TotalsMatch, CollateralSum
<1>3. /\ Interest(p) \in Nat /\ debt_principal[p] \in Nat /\ total_borrowed \in Nat
  BY Accrual DEF TypeOK
<1> QED BY <1>1, <1>2, <1>3 DEF AccruedDebt, AccruedBorrowed

(* Only a position someone opened owes anything. *)
LEMMA DebtorIsOpen ==
  ASSUME RiskInv, NEW p \in Positions, OwedNow(p) > 0
  PROVE  p \in opened
<1>1. TypeOK
  BY DEF RiskInv, LoansInv, TotalsInv, TypeInv
<1>2. ASSUME debt_principal[p] = 0 PROVE FALSE
  <2>1. OwedNow(p) = 0
    BY <1>1, <1>2, OwedIsAccrued, Accrual DEF AccruedDebt
  <2> QED BY <2>1
<1> QED BY <1>2 DEF RiskInv, UnopenedOweNothing

RepaymentsPass ==
  \A p \in Positions, amount \in Nat \ {0} :
    (/\ OwedNow(p) > 0
     /\ AccrualFits(p)
     /\ usdc_vault + PaidAmount(p, amount) <= UsdcSupply) => MayRepay(p, amount, FALSE)

(* No pause, price, issuer control or risk parameter can stop a repayment that   *)
(* passes no price account, of any amount: what the payer has is all it takes.  *)
THEOREM RepaymentsAlwaysPass == Spec => []RepaymentsPass
<1>1. RiskInv => RepaymentsPass
  <2> SUFFICES ASSUME RiskInv, NEW p \in Positions, NEW amount \in Nat \ {0},
                      OwedNow(p) > 0, AccrualFits(p),
                      usdc_vault + PaidAmount(p, amount) <= UsdcSupply
               PROVE  MayRepay(p, amount, FALSE)
    BY DEF RepaymentsPass
  <2> USE DEF RiskInv, LoansInv, TotalsInv, TypeInv
  <2>1. p \in opened
    BY DebtorIsOpen
  <2>2. /\ AccruedDebt(p) = OwedNow(p) /\ AccruedDebt(p) \in Nat
        /\ AccruedBorrowed(p) \in Nat /\ AccruedDebt(p) <= AccruedBorrowed(p)
    BY OwedIsAccrued, Accrual, BooksCover
  <2>3. PaidAmount(p, amount) > 0 /\ PaidAmount(p, amount) <= AccruedBorrowed(p)
    BY <2>2 DEF PaidAmount
  <2> QED BY <2>1, <2>3 DEF MayRepay, PriceAccountPassed, ReselectDefined
<1> QED BY <1>1, RiskInvariant, PTL

(* An LTV is at most the debt in basis points, or u64::MAX for no value. *)
LEMMA LtvFits ==
  ASSUME NEW d \in Nat, NEW v \in Nat, d * BPS <= U64Max
  PROVE  LtvBps(d, v) <= U64Max
<1>1. CASE v = 0
  BY <1>1 DEF LtvBps
<1>2. CASE v # 0
  <2>1. d * BPS \in Nat /\ d * BPS <= U64Max * v
    <3>1. U64Max \in Nat /\ U64Max <= U64Max * v
      BY <1>2
    <3>2. U64Max * v \in Int /\ d * BPS \in Nat
      OBVIOUS
    <3> QED BY ONLY <3>1, <3>2, d * BPS <= U64Max
  <2>2. CeilDiv(d * BPS, v) <= U64Max
    BY <1>2, <2>1, CeilAtMost
  <2> QED BY <1>2, <2>2 DEF LtvBps
<1> QED BY <1>1, <1>2

LEMMA MaxRepayBound ==
  ASSUME NEW d \in Nat
  PROVE  MaxRepay(d) \in Nat /\ MaxRepay(d) <= d
<1>1. CLOSE_FACTOR_BPS \in Nat /\ CLOSE_FACTOR_BPS <= BPS
  BY ConfigAssumption
<1>2. CLOSE_FACTOR_BPS * d <= BPS * d /\ CLOSE_FACTOR_BPS * d \in Nat /\ BPS * d \in Nat
  BY <1>1, ProductMonotone
<1>3. PICK q \in Nat : q = (d * CLOSE_FACTOR_BPS) \div BPS /\ q * BPS <= d * CLOSE_FACTOR_BPS
  BY <1>1, FloorDiv
<1>4. q * BPS <= d * BPS
  BY <1>1, <1>2, <1>3
<1>5. d + 1 <= q => (d + 1) * BPS <= q * BPS
  BY ProductMonotone
<1> QED BY <1>3, <1>4, <1>5 DEF MaxRepay

LiquidationsPass ==
  \A p \in Positions, amount \in Nat \ {0} :
    (/\ Unhealthy(p)
     /\ amount <= MaxRepay(OwedNow(p))
     /\ SeizeDefined(PriceUsd6(p[1]), mint[p[1]].multiplier)
     /\ CollateralMoves(p[1]) /\ clawed_back[p[1]] = 0
     /\ usdc_vault + amount <= UsdcSupply
     /\ AccrualFits(p) /\ SeizeFits(p, amount) /\ OwedNow(p) * BPS <= U64Max
     /\ FitsU64(Value(p[1], collateral_amount[p]))) => MayLiquidate(p, amount)

(* An unhealthy position can be liquidated by any amount up to the close factor, *)
(* whatever the owner, the pause and the risk parameters do, while the issuer    *)
(* lets the collateral move and has taken none back.                            *)
THEOREM LiquidationsAlwaysPass == Spec => []LiquidationsPass
<1>1. RiskInv => LiquidationsPass
  <2> SUFFICES ASSUME RiskInv, NEW p \in Positions, NEW amount \in Nat \ {0},
                      Unhealthy(p),
                      amount <= MaxRepay(OwedNow(p)),
                      SeizeDefined(PriceUsd6(p[1]), mint[p[1]].multiplier),
                      CollateralMoves(p[1]), clawed_back[p[1]] = 0,
                      usdc_vault + amount <= UsdcSupply, AccrualFits(p),
                      SeizeFits(p, amount), OwedNow(p) * BPS <= U64Max,
                      FitsU64(Value(p[1], collateral_amount[p]))
               PROVE  MayLiquidate(p, amount)
    BY DEF LiquidationsPass
  <2> USE DEF RiskInv, LoansInv, TotalsInv, TypeInv
  <2> DEFINE m == p[1]
             owed == OwedNow(p)
             c == collateral_amount[p]
             seize == SeizedAmount(p, amount)
             V(n) == CollateralValueUsd6(n, mint[m].multiplier, PriceUsd6(m),
                                         EffectiveHaircut(m))
  <2>1. /\ owed = AccruedDebt(p) /\ owed \in Nat /\ owed <= AccruedBorrowed(p)
        /\ AccruedBorrowed(p) \in Nat /\ c \in Nat
        /\ c <= total_collateral[m] /\ total_collateral[m] \in Nat
        /\ amount <= owed
    BY OwedIsAccrued, Accrual, BooksCover, PositionTypes, MaxRepayBound
  <2>2. collateral_vault[m] = total_collateral[m]
    BY PositionTypes DEF VaultReconciles
  <2>3. /\ p \in opened /\ market[m] # NoMarket
        /\ PriceUsable(m) /\ HaircutValid(EffectiveHaircut(m))
        /\ LtvBps(owed, V(c)) > market[m].liq_threshold_bps
    BY DEF Unhealthy, Ltv, Value, MarketOpen
  <2>4. /\ PriceUsd6(m) \in Nat /\ mint[m].multiplier \in Nat
        /\ EffectiveHaircut(m) \in Nat /\ market[m].liq_bonus_bps \in Nat
    BY <2>3, RiskTypes
  <2>5. \A n \in Nat, k \in Nat : n <= k => V(n) \in Nat /\ V(n) <= V(k)
    BY ONLY <2>3, <2>4, ValueMonotone
  <2>6. seize \in Nat /\ seize <= c
    <3>1. SeizeAmount(amount, market[m].liq_bonus_bps, PriceUsd6(m), mint[m].multiplier) \in Nat
      BY <2>4, SeizeNat
    <3> QED BY <2>1, <3>1 DEF SeizedAmount
  <2> HIDE DEF V, seize, owed, c
  <2>7. ASSUME NEW n \in Nat, n <= c, NEW d \in Nat, d <= owed
        PROVE  V(n) <= U64Max /\ LtvBps(d, V(n)) <= U64Max
    <3>1. V(c) <= U64Max
      BY DEF Value, V, c
    <3>2. c \in Nat /\ c <= c
      BY <2>1
    <3>3. V(n) \in Nat /\ V(c) \in Nat /\ V(n) <= V(c)
      BY ONLY <2>5, <2>7, <3>2
    <3>4. d * BPS <= owed * BPS /\ owed * BPS <= U64Max /\ d * BPS \in Nat
      BY <2>1, <2>7, ProductMonotone DEF owed
    <3>5. d * BPS <= U64Max
      BY <2>1, <3>4
    <3> QED BY <2>7, <3>1, <3>3, <3>5, LtvFits
  <2>8. AboveLiqThreshold(m, c, owed)
    <3>1. V(c) <= U64Max /\ LtvBps(owed, V(c)) <= U64Max
      BY <2>1, <2>7
    <3> QED BY <2>3, <3>1 DEF AboveLiqThreshold, LtvDefined, Ltv, Value, V
  <2>9. LtvDefined(m, c - seize, owed - amount)
    <3>1. /\ c - seize \in Nat /\ c - seize <= c
          /\ owed - amount \in Nat /\ owed - amount <= owed
      BY <2>1, <2>6 DEF owed
    <3>2. V(c - seize) <= U64Max /\ LtvBps(owed - amount, V(c - seize)) <= U64Max
      BY ONLY <2>7, <3>1
    <3> QED BY <2>3, <3>2 DEF LtvDefined, Ltv, Value, V
  <2>10. /\ seize <= collateral_vault[m] /\ seize <= total_collateral[m]
         /\ amount <= owed /\ amount <= AccruedBorrowed(p)
    BY <2>1, <2>2, <2>6 DEF owed
  <2> QED BY <2>1, <2>3, <2>8, <2>9, <2>10 DEF MayLiquidate, seize, owed, c
<1> QED BY <1>1, RiskInvariant, PTL
=============================================================================
