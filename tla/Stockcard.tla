------------------------------ MODULE Stockcard ------------------------------
(***************************************************************************)
(* The Stockcard lending program (programs/stockcard/src): savers fund one  *)
(* USDC pool, owners lock tokens of a market as collateral and borrow from  *)
(* the pool, liquidators repay unhealthy positions, an admin sets risk      *)
(* parameters and a signer posts prices.                                    *)
(*                                                                         *)
(* One action per instruction.  A Solana transaction is atomic: when any    *)
(* check or token transfer fails the whole instruction has no effect, so    *)
(* every `require!`, `checked_...` and transfer is a conjunct of the action. *)
(* The steps the program does not take itself (the clock, and what the      *)
(* issuer of a collateral mint may do to it) are the environment's.         *)
(***************************************************************************)
EXTENDS StockcardMath

CONSTANTS
  Markets, Owners, Savers,
  SignedMarkets,        \* the markets whose oracle_kind is Signed
  NoMarket, NoPrice,    \* the account has not been created
  PROTOCOL_SHARE_BPS, MAX_UTILIZATION_BPS, CLOSE_FACTOR_BPS,  \* init_config
  \* inputs
  RiskParams,           \* the arguments of add_market and update_market
  PostedPrices,         \* the (price, expo) arguments of set_signed_price
  MintSettings,         \* what the issuer of a collateral mint may set
  Clawbacks,            \* the amounts it may take as permanent delegate
  Amounts,              \* the amounts of a loan, a repayment or a claim
  SavingsAmounts,       \* the amounts and share counts of savings
  TokenAmounts,         \* the amounts of collateral
  Pauses,               \* the arguments of set_pause
  \* bounds
  UsdcSupply,           \* USDC in existence
  TokenSupply,          \* tokens of one collateral mint in existence
  MaxTime               \* the last second of the clock

Positions == Markets \X Owners

RateBandType == [max_ltv_bps : Nat, apr_bps : Nat]
RiskParamsType ==
  [max_ltv_bps : Nat, liq_threshold_bps : Nat, liq_bonus_bps : Nat,
   haircut_bps : Nat, apr_bands : [Bands -> RateBandType],
   max_price_age_secs : Nat, closed_market_age_secs : Nat,
   closed_haircut_bps : Nat]

SignedPriceType == [price : Nat, expo : Expos, publish_time : Nat]

(* init_config refuses ratios above 100%; the rest are types. *)
ASSUME ConfigAssumption ==
  /\ PROTOCOL_SHARE_BPS \in 0 .. BPS
  /\ MAX_UTILIZATION_BPS \in 0 .. BPS
  /\ CLOSE_FACTOR_BPS \in 0 .. BPS

ASSUME InputAssumption ==
  /\ IsFiniteSet(Markets) /\ IsFiniteSet(Owners) /\ IsFiniteSet(Savers)
  /\ SignedMarkets \subseteq Markets
  /\ \A r \in RiskParams : r \in RiskParamsType
  /\ NoMarket \notin RiskParams
  /\ PostedPrices \subseteq Nat \X Expos
  /\ MintSettings \subseteq [blocked : BOOLEAN, frozen : BOOLEAN, multiplier : Nat]
  /\ Clawbacks \subseteq Nat
  /\ Amounts \subseteq U64 /\ SavingsAmounts \subseteq U64
  /\ TokenAmounts \subseteq U64
  /\ Pauses \subseteq BOOLEAN
  /\ UsdcSupply \in U64 /\ TokenSupply \in U64 /\ MaxTime \in Nat

ASSUME NoPriceAssumption ==
  \A q \in PostedPrices, t \in 0 .. MaxTime :
    NoPrice # [price |-> q[1], expo |-> q[2], publish_time |-> t]

VARIABLES
  \* Config and the USDC vault
  paused, total_borrowed, total_shares, reserve, usdc_vault,
  \* SavingsPosition.shares by saver
  shares,
  \* Market by market: risk parameters, total_collateral, the vault's balance
  market, total_collateral, collateral_vault,
  \* SignedPrice by market
  signed_price,
  \* Position by (market, owner); "opened" is the set of existing accounts
  opened, collateral_amount, debt_principal, last_accrual_ts, apr_bps,
  \* environment: the clock, the issuer's settings of each mint, and what the
  \* issuer has taken out of each vault as permanent delegate and kept
  now, mint, clawed_back

pool_vars     == <<total_borrowed, total_shares, reserve, usdc_vault, shares>>
position_vars == <<opened, collateral_amount, debt_principal, last_accrual_ts,
                   apr_bps>>
vault_vars    == <<total_collateral, collateral_vault>>
admin_vars    == <<paused, market, signed_price>>
env_vars      == <<now, mint, clawed_back>>
vars == <<pool_vars, position_vars, vault_vars, admin_vars, env_vars>>

-----------------------------------------------------------------------------
(* Risk parameters (validate_risk_params) *)

BandUnused(b) == b.max_ltv_bps = 0 /\ b.apr_bps = 0

BandsAscend(bands) ==
  \A i \in Bands : ~BandUnused(bands[i]) =>
    /\ bands[i].apr_bps > 0 /\ bands[i].apr_bps <= BPS \div 2
    /\ bands[i].max_ltv_bps > 0
    /\ \A j \in 1 .. i - 1 : bands[i].max_ltv_bps > bands[j].max_ltv_bps

ThresholdsOrdered(r) ==
  /\ r.max_ltv_bps > 0
  /\ r.max_ltv_bps < r.liq_threshold_bps
  /\ r.liq_threshold_bps <= (9 * BPS) \div 10

NoBandCheck(r) == TRUE
LastBandCovers(r) ==
  \E i \in Bands : /\ ~BandUnused(r.apr_bands[i])
                   /\ r.apr_bands[i].max_ltv_bps >= r.max_ltv_bps

ValidRiskParams(r) ==
  /\ ThresholdsOrdered(r)
  /\ r.liq_bonus_bps <= BPS \div 5
  /\ HaircutValid(r.haircut_bps)
  /\ BandsAscend(r.apr_bands)
  /\ LastBandCovers(r)

-----------------------------------------------------------------------------
(* The oracle (checked_price) and what it says of a position *)

PriceAge(m) == now - signed_price[m].publish_time

Fresh(m) == PriceAge(m) <= market[m].max_price_age_secs
ClosedMarketFallback(m) ==
  /\ market[m].closed_market_age_secs > 0
  /\ PriceAge(m) <= market[m].closed_market_age_secs

PriceUsd6(m) == PriceToUsd6(signed_price[m].price, signed_price[m].expo)
EffectiveHaircut(m) ==
  IF Fresh(m) THEN market[m].haircut_bps ELSE market[m].closed_haircut_bps

PriceUsable(m) ==
  /\ m \in SignedMarkets
  /\ signed_price[m] # NoPrice
  /\ signed_price[m].price > 0
  /\ PriceAge(m) >= 0
  /\ Fresh(m) \/ ClosedMarketFallback(m)
  /\ FitsU64(PriceUsd6(m))

Value(m, collateral) ==
  CollateralValueUsd6(collateral, mint[m].multiplier, PriceUsd6(m),
                      EffectiveHaircut(m))
Ltv(m, collateral, debt) == LtvBps(debt, Value(m, collateral))

(* collateral_value_usd6 and ltv_bps both return Ok. *)
LtvDefined(m, collateral, debt) ==
  /\ HaircutValid(EffectiveHaircut(m))
  /\ FitsU64(Value(m, collateral))
  /\ FitsU64(Ltv(m, collateral, debt))

WithinMaxLtv(m, collateral, debt) ==
  /\ PriceUsable(m)
  /\ LtvDefined(m, collateral, debt)
  /\ Ltv(m, collateral, debt) <= market[m].max_ltv_bps

AboveLiqThreshold(m, collateral, debt) ==
  /\ PriceUsable(m)
  /\ LtvDefined(m, collateral, debt)
  /\ Ltv(m, collateral, debt) > market[m].liq_threshold_bps

-----------------------------------------------------------------------------
(* Interest (accrue): every instruction on a position starts with it. *)

FirstSecondFree(p) ==
  IF debt_principal[p] > 0 /\ now > last_accrual_ts[p] + 1
  THEN AccrueInterest(debt_principal[p], apr_bps[p], now - last_accrual_ts[p])
  ELSE 0
Interest(p) ==
  IF debt_principal[p] > 0 /\ now > last_accrual_ts[p]
  THEN AccrueInterest(debt_principal[p], apr_bps[p], now - last_accrual_ts[p])
  ELSE 0

AccruedDebt(p)     == debt_principal[p] + Interest(p)
InterestOffTheBooks(p) == total_borrowed
AccruedBorrowed(p) == total_borrowed + Interest(p)
ReserveOfDebt(p) ==
  reserve + IF Interest(p) > 0 THEN ReserveShare(AccruedDebt(p), PROTOCOL_SHARE_BPS)
            ELSE 0
AccruedReserve(p)  == reserve + ReserveShare(Interest(p), PROTOCOL_SHARE_BPS)

AccrualFits(p) ==
  /\ FitsU64(AccruedDebt(p))
  /\ FitsU64(AccruedBorrowed(p))
  /\ FitsU64(AccruedReserve(p))

(* The rate band (reselect_apr): a missing, stale or foreign price leaves it *)
(* alone; a price that is usable but cannot be valued is an error.           *)
ReselectNeedsPrice(m, collateral, debt, with_price) ==
  debt > 0 => with_price /\ PriceUsable(m) /\ LtvDefined(m, collateral, debt)
ReselectDefined(m, collateral, debt, with_price) ==
  debt > 0 /\ with_price /\ PriceUsable(m) => LtvDefined(m, collateral, debt)

ReselectApr(p, collateral, debt, with_price) ==
  LET m == p[1]
  IN  IF debt = 0 THEN SelectAprBps(market[m].apr_bands, 0)
      ELSE IF with_price /\ PriceUsable(m)
      THEN SelectAprBps(market[m].apr_bands, Ltv(m, collateral, debt))
      ELSE apr_bps[p]

WritePosition(p, collateral, debt, apr) ==
  /\ collateral_amount' = [collateral_amount EXCEPT ![p] = collateral]
  /\ debt_principal' = [debt_principal EXCEPT ![p] = debt]
  /\ last_accrual_ts' = [last_accrual_ts EXCEPT ![p] = now]
  /\ apr_bps' = [apr_bps EXCEPT ![p] = apr]

(* A caller may pass the price account only once it exists. *)
PriceAccountPassed(m, with_price) == with_price => signed_price[m] # NoPrice

(* transfer_checked on the collateral mint: the issuer may have paused it, *)
(* hooked it or frozen the vault.                                          *)
CollateralMoves(m) == ~mint[m].blocked /\ ~mint[m].frozen

-----------------------------------------------------------------------------
(* Collateral *)

CollateralIn(p, amount) ==
  /\ total_collateral' = [total_collateral EXCEPT ![p[1]] = @ + amount]
  /\ collateral_vault' = [collateral_vault EXCEPT ![p[1]] = @ + amount]

VaultOutOnly(p, amount) ==
  /\ collateral_vault' = [collateral_vault EXCEPT ![p[1]] = @ - amount]
  /\ UNCHANGED total_collateral
CollateralOut(p, amount) ==
  /\ total_collateral' = [total_collateral EXCEPT ![p[1]] = @ - amount]
  /\ collateral_vault' = [collateral_vault EXCEPT ![p[1]] = @ - amount]

LockCollateral(p, amount, with_price) ==
  LET m          == p[1]
      collateral == collateral_amount[p] + amount
      debt       == AccruedDebt(p)
  IN  /\ amount > 0
      /\ market[m] # NoMarket
      /\ AccrualFits(p)
      /\ CollateralMoves(m)
      /\ collateral_vault[m] + clawed_back[m] + amount <= TokenSupply
      /\ FitsU64(collateral) /\ FitsU64(total_collateral[m] + amount)
      /\ PriceAccountPassed(m, with_price)
      /\ ReselectDefined(m, collateral, debt, with_price)
      /\ opened' = opened \cup {p}
      /\ WritePosition(p, collateral, debt,
                       ReselectApr(p, collateral, debt, with_price))
      /\ total_borrowed' = AccruedBorrowed(p)
      /\ reserve' = AccruedReserve(p)
      /\ CollateralIn(p, amount)
      /\ UNCHANGED <<total_shares, usdc_vault, shares, admin_vars, env_vars>>

(* Signed by the owner, who pays the tokens. *)
DepositCollateral(p, amount, with_price) == LockCollateral(p, amount, with_price)

(* Signed by the cashback authority, who pays the tokens into the owner's    *)
(* position; the handler is otherwise the same.                              *)
DepositCollateralFor(p, amount, with_price) ==
  LockCollateral(p, amount, with_price)

(* An owner with debt must show a usable price and stay within max_ltv. *)
BeforeWithdrawal(p, amount, with_price) ==
  AccruedDebt(p) > 0 =>
    with_price /\ WithinMaxLtv(p[1], collateral_amount[p], AccruedDebt(p))
MayWithdraw(p, amount, with_price) ==
  AccruedDebt(p) > 0 =>
    with_price /\ WithinMaxLtv(p[1], collateral_amount[p] - amount, AccruedDebt(p))

WithdrawCollateral(p, amount, with_price) ==
  LET m          == p[1]
      collateral == collateral_amount[p] - amount
      debt       == AccruedDebt(p)
  IN  /\ amount > 0
      /\ ~paused
      /\ p \in opened
      /\ AccrualFits(p)
      /\ amount <= collateral_amount[p]
      /\ PriceAccountPassed(m, with_price)
      /\ MayWithdraw(p, amount, with_price)
      /\ CollateralMoves(m)
      /\ amount <= collateral_vault[m]
      /\ amount <= total_collateral[m]
      /\ ReselectDefined(m, collateral, debt, with_price)
      /\ WritePosition(p, collateral, debt,
                       ReselectApr(p, collateral, debt, with_price))
      /\ total_borrowed' = AccruedBorrowed(p)
      /\ reserve' = AccruedReserve(p)
      /\ CollateralOut(p, amount)
      /\ UNCHANGED <<total_shares, usdc_vault, shares, opened, admin_vars, env_vars>>

-----------------------------------------------------------------------------
(* Debt *)

(* Issuer controls: a blocked mint, a frozen vault, or a vault that no longer *)
(* covers total_collateral stops new loans.                                   *)
IgnoresShortVault(m) == ~mint[m].blocked /\ ~mint[m].frozen
CollateralSound(m) ==
  /\ ~mint[m].blocked
  /\ ~mint[m].frozen
  /\ collateral_vault[m] >= total_collateral[m]

PoolCovers(p, amount) ==
  LET value == PoolValue(usdc_vault, AccruedBorrowed(p), AccruedReserve(p))
      used  == UtilizationBps(AccruedBorrowed(p) + amount, value)
  IN  /\ value >= 0 /\ FitsU64(value)
      /\ FitsU64(AccruedBorrowed(p) + amount) /\ FitsU64(used)
      /\ used <= MAX_UTILIZATION_BPS
      /\ usdc_vault >= AccruedReserve(p)
      /\ usdc_vault - AccruedReserve(p) >= amount

Borrow(p, amount) ==
  LET m    == p[1]
      debt == AccruedDebt(p) + amount
  IN  /\ amount > 0
      /\ ~paused
      /\ p \in opened
      /\ AccrualFits(p)
      /\ CollateralSound(m)
      /\ FitsU64(debt)
      /\ WithinMaxLtv(m, collateral_amount[p], debt)
      /\ PoolCovers(p, amount)
      /\ WritePosition(p, collateral_amount[p], debt,
           SelectAprBps(market[m].apr_bands, Ltv(m, collateral_amount[p], debt)))
      /\ total_borrowed' = AccruedBorrowed(p) + amount
      /\ reserve' = AccruedReserve(p)
      /\ usdc_vault' = usdc_vault - amount
      /\ UNCHANGED <<total_shares, shares, opened, vault_vars, admin_vars, env_vars>>

(* Overpayment is never taken; u64::MAX means everything. *)
PaidAmount(p, amount) ==
  IF amount <= AccruedDebt(p) THEN amount ELSE AccruedDebt(p)

(* Anyone may pay. *)
MayRepay(p, amount, with_price) ==
  LET paid == PaidAmount(p, amount)
  IN  /\ amount > 0
      /\ p \in opened
      /\ AccrualFits(p)
      /\ paid > 0
      /\ usdc_vault + paid <= UsdcSupply
      /\ paid <= AccruedBorrowed(p)
      /\ PriceAccountPassed(p[1], with_price)
      /\ ReselectDefined(p[1], collateral_amount[p], AccruedDebt(p) - paid, with_price)

Repay(p, amount, with_price) ==
  LET paid == PaidAmount(p, amount)
      debt == AccruedDebt(p) - paid
  IN  /\ MayRepay(p, amount, with_price)
      /\ WritePosition(p, collateral_amount[p], debt,
                       ReselectApr(p, collateral_amount[p], debt, with_price))
      /\ total_borrowed' = AccruedBorrowed(p) - paid
      /\ reserve' = AccruedReserve(p)
      /\ usdc_vault' = usdc_vault + paid
      /\ UNCHANGED <<total_shares, shares, opened, vault_vars, admin_vars, env_vars>>

MaxRepay(debt) == (debt * CLOSE_FACTOR_BPS) \div BPS

UncappedSeizure(p, repay_amount) ==
  SeizeAmount(repay_amount, market[p[1]].liq_bonus_bps, PriceUsd6(p[1]),
              mint[p[1]].multiplier)
SeizedAmount(p, repay_amount) ==
  LET m     == p[1]
      seize == SeizeAmount(repay_amount, market[m].liq_bonus_bps, PriceUsd6(m),
                           mint[m].multiplier)
  IN  IF seize <= collateral_amount[p] THEN seize ELSE collateral_amount[p]

(* The u64 conversion inside seize_amount happens before the cap. *)
SeizeFits(p, repay_amount) ==
  FitsU64(SeizeAmount(repay_amount, market[p[1]].liq_bonus_bps, PriceUsd6(p[1]),
                      mint[p[1]].multiplier))

MayLiquidate(p, repay_amount) ==
  LET m     == p[1]
      seize == SeizedAmount(p, repay_amount)
  IN  /\ repay_amount > 0
      /\ p \in opened
      /\ AccrualFits(p)
      /\ AboveLiqThreshold(m, collateral_amount[p], AccruedDebt(p))
      /\ repay_amount <= MaxRepay(AccruedDebt(p))
      /\ SeizeDefined(PriceUsd6(m), mint[m].multiplier)
      /\ SeizeFits(p, repay_amount)
      /\ usdc_vault + repay_amount <= UsdcSupply
      /\ CollateralMoves(m)
      /\ seize <= collateral_vault[m]
      /\ repay_amount <= AccruedDebt(p) /\ repay_amount <= AccruedBorrowed(p)
      /\ seize <= total_collateral[m]
      /\ LtvDefined(m, collateral_amount[p] - seize, AccruedDebt(p) - repay_amount)

Liquidate(p, repay_amount) ==
  LET m          == p[1]
      seize      == SeizedAmount(p, repay_amount)
      collateral == collateral_amount[p] - seize
      debt       == AccruedDebt(p) - repay_amount
  IN  /\ MayLiquidate(p, repay_amount)
      /\ WritePosition(p, collateral, debt,
           SelectAprBps(market[m].apr_bands, Ltv(m, collateral, debt)))
      /\ total_borrowed' = AccruedBorrowed(p) - repay_amount
      /\ reserve' = AccruedReserve(p)
      /\ usdc_vault' = usdc_vault + repay_amount
      /\ CollateralOut(p, seize)
      /\ UNCHANGED <<total_shares, shares, opened, admin_vars, env_vars>>

-----------------------------------------------------------------------------
(* Savings and the protocol's reserve *)

pool_value == PoolValue(usdc_vault, total_borrowed, reserve)
LoansCountAsIdle(amount) == usdc_vault + total_borrowed - reserve >= amount
IdleCovers(amount) == usdc_vault >= reserve /\ usdc_vault - reserve >= amount

DepositSavings(s, amount) ==
  LET minted == SharesForDeposit(amount, total_shares, pool_value)
  IN  /\ amount > 0
      /\ pool_value >= 0 /\ FitsU64(pool_value)
      /\ total_shares # 0 => pool_value # 0
      /\ FitsU64(minted)
      /\ minted > 0
      /\ usdc_vault + amount <= UsdcSupply
      /\ FitsU64(shares[s] + minted) /\ FitsU64(total_shares + minted)
      /\ shares' = [shares EXCEPT ![s] = @ + minted]
      /\ total_shares' = total_shares + minted
      /\ usdc_vault' = usdc_vault + amount
      /\ UNCHANGED <<total_borrowed, reserve, position_vars, vault_vars,
                     admin_vars, env_vars>>

WithdrawSavings(s, burned) ==
  LET amount == AmountForShares(burned, total_shares, pool_value)
  IN  /\ burned > 0
      /\ burned <= shares[s]
      /\ pool_value >= 0 /\ FitsU64(pool_value)
      /\ FitsU64(amount)
      /\ amount > 0
      /\ IdleCovers(amount)
      /\ burned <= total_shares
      /\ shares' = [shares EXCEPT ![s] = @ - burned]
      /\ total_shares' = total_shares - burned
      /\ usdc_vault' = usdc_vault - amount
      /\ UNCHANGED <<total_borrowed, reserve, position_vars, vault_vars,
                     admin_vars, env_vars>>

ClaimReserve(amount) ==
  /\ amount > 0
  /\ amount <= reserve
  /\ amount <= usdc_vault
  /\ reserve' = reserve - amount
  /\ usdc_vault' = usdc_vault - amount
  /\ UNCHANGED <<total_borrowed, total_shares, shares, position_vars, vault_vars,
                 admin_vars, env_vars>>

-----------------------------------------------------------------------------
(* Admin and price signer *)

AddMarket(m, r) ==
  /\ market[m] = NoMarket
  /\ ValidRiskParams(r)
  /\ ~mint[m].blocked
  /\ market' = [market EXCEPT ![m] = r]
  /\ total_collateral' = [total_collateral EXCEPT ![m] = 0]
  /\ UNCHANGED <<paused, signed_price, collateral_vault, pool_vars,
                 position_vars, env_vars>>

UpdateMarket(m, r) ==
  /\ market[m] # NoMarket
  /\ ValidRiskParams(r)
  /\ market' = [market EXCEPT ![m] = r]
  /\ UNCHANGED <<paused, signed_price, pool_vars, position_vars, vault_vars,
                 env_vars>>

SetPause(b) ==
  /\ paused' = b
  /\ UNCHANGED <<market, signed_price, pool_vars, position_vars, vault_vars,
                 env_vars>>

SetSignedPrice(m, price, expo) ==
  /\ market[m] # NoMarket /\ m \in SignedMarkets
  /\ price > 0 /\ expo \in Expos
  /\ signed_price' = [signed_price EXCEPT
       ![m] = [price |-> price, expo |-> expo, publish_time |-> now]]
  /\ UNCHANGED <<paused, market, pool_vars, position_vars, vault_vars, env_vars>>

-----------------------------------------------------------------------------
(* Environment: the clock, and the issuer of a collateral mint, who may pause *)
(* or hook the mint, freeze the vault, set the Scaled UI Amount multiplier,   *)
(* take tokens out of the vault as permanent delegate and send them back.     *)

Tick ==
  /\ now < MaxTime
  /\ now' = now + 1
  /\ UNCHANGED <<mint, clawed_back, pool_vars, position_vars, vault_vars, admin_vars>>

IssuerSets(m, setting) ==
  /\ mint' = [mint EXCEPT ![m] = setting]
  /\ UNCHANGED <<now, clawed_back, pool_vars, position_vars, vault_vars, admin_vars>>

IssuerClawsBack(m, amount) ==
  /\ amount > 0 /\ amount <= collateral_vault[m]
  /\ collateral_vault' = [collateral_vault EXCEPT ![m] = @ - amount]
  /\ clawed_back' = [clawed_back EXCEPT ![m] = @ + amount]
  /\ UNCHANGED <<now, mint, total_collateral, pool_vars, position_vars, admin_vars>>

IssuerReturns(m, amount) ==
  /\ amount > 0 /\ amount <= clawed_back[m]
  /\ collateral_vault' = [collateral_vault EXCEPT ![m] = @ + amount]
  /\ clawed_back' = [clawed_back EXCEPT ![m] = @ - amount]
  /\ UNCHANGED <<now, mint, total_collateral, pool_vars, position_vars, admin_vars>>

-----------------------------------------------------------------------------
Init ==
  /\ paused = FALSE
  /\ total_borrowed = 0 /\ total_shares = 0 /\ reserve = 0 /\ usdc_vault = 0
  /\ shares = [s \in Savers |-> 0]
  /\ market = [m \in Markets |-> NoMarket]
  /\ total_collateral = [m \in Markets |-> 0]
  /\ collateral_vault = [m \in Markets |-> 0]
  /\ signed_price = [m \in Markets |-> NoPrice]
  /\ opened = {}
  /\ collateral_amount = [p \in Positions |-> 0]
  /\ debt_principal = [p \in Positions |-> 0]
  /\ last_accrual_ts = [p \in Positions |-> 0]
  /\ apr_bps = [p \in Positions |-> 0]
  /\ now = 0
  /\ mint \in [Markets -> {s \in MintSettings : ~s.blocked /\ ~s.frozen}]
  /\ clawed_back = [m \in Markets |-> 0]

CollateralNext ==
  \E p \in Positions, amount \in TokenAmounts, with_price \in BOOLEAN :
    \/ DepositCollateral(p, amount, with_price)
    \/ DepositCollateralFor(p, amount, with_price)
    \/ WithdrawCollateral(p, amount, with_price)

DebtNext ==
  \E p \in Positions, amount \in Amounts :
    \/ Borrow(p, amount)
    \/ \E with_price \in BOOLEAN : Repay(p, amount, with_price)
    \/ Liquidate(p, amount)

SavingsNext ==
  \/ \E s \in Savers, amount \in SavingsAmounts :
       DepositSavings(s, amount) \/ WithdrawSavings(s, amount)
  \/ \E amount \in Amounts : ClaimReserve(amount)

AdminNext ==
  \/ \E m \in Markets, r \in RiskParams : AddMarket(m, r) \/ UpdateMarket(m, r)
  \/ \E b \in Pauses : SetPause(b)
  \/ \E m \in Markets, q \in PostedPrices : SetSignedPrice(m, q[1], q[2])

EnvNext ==
  \/ Tick
  \/ \E m \in Markets, setting \in MintSettings : IssuerSets(m, setting)
  \/ \E m \in Markets, amount \in Clawbacks :
       IssuerClawsBack(m, amount) \/ IssuerReturns(m, amount)

Next == CollateralNext \/ DebtNext \/ SavingsNext \/ AdminNext \/ EnvNext

Spec == Init /\ [][Next]_vars

-----------------------------------------------------------------------------
(* Properties *)

(* Every field keeps the range of its type, no position is accrued in the   *)
(* future and a rate never exceeds the 50% cap of validate_risk_params.     *)
TypeOK ==
  /\ paused \in BOOLEAN
  /\ total_borrowed \in U64 /\ total_shares \in U64 /\ reserve \in U64
  /\ usdc_vault \in 0 .. UsdcSupply
  /\ shares \in [Savers -> U64]
  /\ market \in [Markets -> RiskParams \cup {NoMarket}]
  /\ total_collateral \in [Markets -> U64]
  /\ collateral_vault \in [Markets -> Nat]
  /\ signed_price \in [Markets -> SignedPriceType \cup {NoPrice}]
  /\ \A m \in Markets :
       signed_price[m] # NoPrice => signed_price[m].publish_time <= now
  /\ opened \subseteq Positions
  /\ collateral_amount \in [Positions -> U64]
  /\ debt_principal \in [Positions -> U64]
  /\ last_accrual_ts \in [Positions -> 0 .. now]
  /\ apr_bps \in [Positions -> 0 .. BPS \div 2]
  /\ now \in 0 .. MaxTime
  /\ mint \in [Markets -> MintSettings]
  /\ clawed_back \in [Markets -> Nat]
  /\ \A m \in Markets : collateral_vault[m] + clawed_back[m] <= TokenSupply

(* What a position owes at this instant, whenever it was last accrued. *)
OwedNow(p) ==
  debt_principal[p]
    + AccrueInterest(debt_principal[p], apr_bps[p], now - last_accrual_ts[p])

Unhealthy(p) ==
  /\ p \in opened
  /\ PriceUsable(p[1]) /\ HaircutValid(EffectiveHaircut(p[1]))
  /\ Ltv(p[1], collateral_amount[p], OwedNow(p)) > market[p[1]].liq_threshold_bps

DebtSum          == SumFunctionOnSet(debt_principal, Positions)
SharesSum        == SumFunctionOnSet(shares, Savers)
CollateralSum(m) == SumFunctionOnSet(collateral_amount, {m} \X Owners)

(* The three running totals are the sums of the accounts they summarise, so  *)
(* the unchecked `-=` of repay, liquidate and the withdrawals cannot abort.   *)
TotalsMatch ==
  /\ total_borrowed = DebtSum
  /\ total_shares = SharesSum
  /\ \A m \in Markets : total_collateral[m] = CollateralSum(m)

(* The reserve never exceeds the cash and loans it is carved out of: the     *)
(* checked_sub of pool_value, on which every savings operation depends,       *)
(* always succeeds.                                                           *)
PoolSolvent == reserve <= usdc_vault + total_borrowed

(* A share is worth at least the one unit it was first sold for, whatever    *)
(* mix of deposits, withdrawals, interest and claims has happened since.      *)
SharesBacked == total_shares <= pool_value

(* The last saver can leave only when every loan is repaid, and then leaves  *)
(* nothing behind but the reserve.                                            *)
EmptyPool ==
  total_shares = 0 => total_borrowed = 0 /\ usdc_vault = reserve

(* Rounding, interest and reserve claims never take value from a savings     *)
(* share: the price of a share does not fall in any step.                     *)
SharePriceNeverFalls ==
  [][pool_value' * total_shares >= pool_value * total_shares']_vars

(* Whatever borrowers, liquidators and issuers do, savers deal with the pool  *)
(* that SavingsPool describes.                                                *)
Pool == INSTANCE SavingsPool WITH
          cash <- usdc_vault, loans <- total_borrowed, fees <- reserve,
          issued <- total_shares
ImplementsPool == Pool!Spec

(* Every token the books call collateral is in the vault, except what the    *)
(* issuer took back.                                                          *)
VaultReconciles ==
  \A m \in Markets : collateral_vault[m] + clawed_back[m] = total_collateral[m]

(* A market whose issuer took collateral out of the vault and has not sent it *)
(* back lends nothing more, however well covered the borrower is.             *)
ClawbackStopsLoans ==
  [][\A p \in Positions :
       debt_principal'[p] > OwedNow(p) => clawed_back[p[1]] = 0]_vars

(* Whatever update_market did in between, a debt always carries a rate.       *)
NoFreeLoan ==
  \A p \in Positions : debt_principal[p] > 0 => apr_bps[p] > 0

(* No instruction, by anyone, makes a healthy position liquidatable: that    *)
(* takes time, a new price, new risk parameters or a new multiplier.          *)
StaysHealthy ==
  [][\A p \in Positions :
       (~Unhealthy(p) /\ Unhealthy(p)') =>
         \/ now' # now
         \/ signed_price'[p[1]] # signed_price[p[1]]
         \/ market'[p[1]] # market[p[1]]
         \/ mint'[p[1]] # mint[p[1]]]_vars

(* Interest is neither forgiven nor charged twice: at one instant what a     *)
(* position owes changes only by the cash that leaves or enters the vault,    *)
(* and the clock alone never reduces it.                                      *)
DebtMovesWithCash ==
  [][\A p \in Positions :
       /\ now' = now /\ OwedNow(p)' # OwedNow(p) =>
            OwedNow(p)' - OwedNow(p) = usdc_vault - usdc_vault'
       /\ OwedNow(p)' < OwedNow(p) => usdc_vault' > usdc_vault]_vars

(* While the collateral at full price covers the debt and the bonus, a       *)
(* liquidation lowers debt per token of collateral, rounding included.        *)
CoversBonus(p) ==
  collateral_amount[p] * mint[p[1]].multiplier * PriceUsd6(p[1]) * BPS
    >= OwedNow(p) * (BPS + market[p[1]].liq_bonus_bps) * TOKEN_UNIT * MULTIPLIER_SCALE

LiquidationHelps ==
  [][\A p \in Positions :
       (/\ debt_principal'[p] < OwedNow(p)
        /\ collateral_amount'[p] < collateral_amount[p]
        /\ CoversBonus(p)) =>
         debt_principal'[p] * collateral_amount[p]
           <= OwedNow(p) * collateral_amount'[p]]_vars

(* Neither a pause, nor the issuer, nor the price can stop a repayment: with  *)
(* no price account passed it goes through as long as the payer has the USDC. *)
RepayAlwaysOpen ==
  \A p \in Positions :
    OwedNow(p) > 0 /\ usdc_vault < UsdcSupply => ENABLED Repay(p, 1, FALSE)

(* An unhealthy position can be liquidated unless the close factor rounds to  *)
(* nothing, the price converts to zero, or the issuer stands in the way.      *)
LiquidationOpen ==
  \A p \in Positions :
    (/\ Unhealthy(p)
     /\ MaxRepay(OwedNow(p)) > 0
     /\ SeizeDefined(PriceUsd6(p[1]), mint[p[1]].multiplier)
     /\ CollateralMoves(p[1]) /\ clawed_back[p[1]] = 0
     /\ usdc_vault < UsdcSupply) => ENABLED Liquidate(p, 1)

(* instructions/mod.rs says of deposits and repayments that "those never fail *)
(* on price".  They do when closed_haircut_bps, which validate_risk_params    *)
(* does not look at, is 100% or more and the price is in the closed window.   *)
RepayNeverFailsOnPrice ==
  \A p \in Positions :
    (ENABLED Repay(p, 1, FALSE)) /\ signed_price[p[1]] # NoPrice
      => ENABLED Repay(p, 1, TRUE)
=============================================================================
