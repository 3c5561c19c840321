------------------------------- MODULE HomePage --------------------------------
(***************************************************************************)
(* What Home shows of a wallet (app/page.tsx, components/balance-summary.tsx,   *)
(* health-bar.tsx, band-banners.tsx).  usePortfolio (lib/portfolio.ts) reads     *)
(* market after market, each account by a request of its own; useBalances       *)
(* (lib/balances.ts) reads the rest of the wallet, all at a time; buildBalances  *)
(* (lib/balances-core.ts) adds it up.  The wallet may move in between, and a     *)
(* balance that cannot be read counts as none.                                 *)
(***************************************************************************)
EXTENDS ClientRisk, Sequences, SequencesExt

CONSTANTS
  MARKETS,    \* config.ts: the markets in their order
  Info,       \* by market, its row in config.ts
  Opening,    \* by market, [wallet, locked, debt] at the start
  Cash,       \* USDC and SOL at the start
  Prices,     \* the prices a market may have; 0: never posted
  Moves,      \* the steps the wallet may take
  MaxMoves,   \* bound: how often it takes them
  Faults,     \* whether a request may fail
  Unread      \* not read yet

MarketSet == ToSet(MARKETS)

Holding == [wallet : Nat, locked : Nat, debt : Nat]

HomeAssumption ==
  /\ MARKETS \in Seq(MarketSet) \ {<<>>} /\ IsInjective(MARKETS)
  /\ \A m \in MarketSet : /\ Info[m].haircutBps \in 0 .. BPS
                        /\ {Info[m].multiplierMicro, Info[m].maxLtvBps} \subseteq Nat
  /\ Opening \in [MarketSet -> Holding]
  /\ Moves \subseteq {"lock", "unlock", "borrow", "repay", "price"}
  /\ Prices \subseteq Nat

VARIABLES
  held,       \* by market, the wallet's tokens, locked tokens and debt
  cash,       \* USDC and lamports (SOL at $1 here)
  price,      \* by market, the SignedPrice
  refresh,    \* the query "portfolio" under way
  portfolio,  \* its last answer, by market
  wanted,     \* the query "wallet-extras" under way: what is still to be read
  got,        \* what it has read
  extras,     \* its last answer
  moves       \* how often the wallet moved

chain_vars == <<held, cash, price, moves>>
page_vars  == <<refresh, portfolio, wanted, got, extras>>
vars == <<chain_vars, page_vars>>

Idle == [at |-> "idle"]
Nothing == [wallet |-> 0, locked |-> 0, debt |-> 0, price |-> 0]

-----------------------------------------------------------------------------
(* usePortfolio: for each market its price, then balance and position in any     *)
(* order.  A failure ends the query, except that of the balance.                *)

Polls(answer)    == TRUE

StartPortfolio ==
  /\ refresh = Idle /\ Polls(portfolio)
  /\ refresh' = [at |-> "price", i |-> 1, assets |-> [m \in MarketSet |-> Nothing],
                 left |-> {}]
  /\ UNCHANGED <<chain_vars, portfolio, wanted, got, extras>>

Current == MARKETS[refresh.i]

ReadPrice ==
  /\ refresh.at = "price"
  /\ refresh' = [refresh EXCEPT !.at = "holdings", !.left = {"wallet", "position"},
                                !.assets[Current].price = price[Current]]
  /\ UNCHANGED <<chain_vars, portfolio, wanted, got, extras>>

BalanceRead(n) ==
  /\ refresh.at = "holdings" /\ "wallet" \in refresh.left
  /\ refresh' = [refresh EXCEPT !.left = @ \ {"wallet"}, !.assets[Current].wallet = n]
  /\ UNCHANGED <<chain_vars, portfolio, wanted, got, extras>>

ReadBalance == refresh # Idle /\ BalanceRead(held[Current].wallet)
MissBalance == Faults /\ refresh # Idle /\ BalanceRead(0)

ReadPosition ==
  /\ refresh.at = "holdings" /\ "position" \in refresh.left
  /\ refresh' = [refresh EXCEPT !.left = @ \ {"position"},
                                !.assets[Current].locked = held[Current].locked,
                                !.assets[Current].debt = held[Current].debt]
  /\ UNCHANGED <<chain_vars, portfolio, wanted, got, extras>>

NextMarket ==
  /\ refresh.at = "holdings" /\ refresh.left = {}
  /\ IF refresh.i < Len(MARKETS)
     THEN /\ refresh' = [refresh EXCEPT !.at = "price", !.i = @ + 1]
          /\ UNCHANGED portfolio
     ELSE refresh' = Idle /\ portfolio' = refresh.assets
  /\ UNCHANGED <<chain_vars, wanted, got, extras>>

PortfolioFails ==
  /\ Faults /\ refresh # Idle
  /\ refresh' = Idle
  /\ UNCHANGED <<chain_vars, portfolio, wanted, got, extras>>

-----------------------------------------------------------------------------
(* useBalances: the rest of the wallet, read at the same time; what fails is 0.  *)

StartExtras ==
  /\ wanted = {} /\ Polls(extras)
  /\ wanted' = DOMAIN cash /\ got' = [k \in DOMAIN cash |-> 0]
  /\ UNCHANGED <<chain_vars, refresh, portfolio, extras>>

ExtraRead(k, n) ==
  /\ k \in wanted
  /\ wanted' = wanted \ {k} /\ got' = [got EXCEPT ![k] = n]
  /\ extras' = IF wanted' = {} THEN got' ELSE extras
  /\ UNCHANGED <<chain_vars, refresh, portfolio>>

ReadExtra(k) == ExtraRead(k, cash[k])
MissExtra(k) == Faults /\ ExtraRead(k, 0)

-----------------------------------------------------------------------------
(* What the page computes: buildBalances, totals, the bar and the banners.      *)

Loaded == portfolio # Unread /\ extras # Unread

SumOver(f(_)) == SumFunctionOnSet([m \in MarketSet |-> f(m)], MarketSet)

grossValueUsd6(amount, m) ==
  collateralValue(amount, portfolio[m].price, 0, Info[m].multiplierMicro)
valueUsd6(m) ==
  collateralValue(portfolio[m].locked, portfolio[m].price, Info[m].haircutBps,
                  Info[m].multiplierMicro)
ltv(m) == LtvBps(portfolio[m].debt, valueUsd6(m))

Gross(m) == grossValueUsd6(portfolio[m].locked, m)
lockedUsd6 == SumOver(Gross)
walletUsd6 == LET Worth(m) == grossValueUsd6(portfolio[m].wallet, m)
              IN  SumOver(Worth) + extras["sol"]
totalUsd6  == lockedUsd6 + walletUsd6 + extras["usdc"]
debtUsd6   == LET Debt(m) == portfolio[m].debt IN SumOver(Debt)

creditLineUsd6 ==
  LET Line(m) == (valueUsd6(m) * Info[m].maxLtvBps) \div BPS IN SumOver(Line)
IgnoringDebt(line, debt)  == line
AvailableOf(line, debt)   == Monus(line, debt)
availableUsd6 == AvailableOf(creditLineUsd6, debtUsd6)

(* The bar shows the position with the highest LTV, the first of equals.         *)
Indebted == {m \in MarketSet : portfolio[m].debt > 0}
worst == CHOOSE m \in Indebted : \A other \in Indebted : ltv(other) <= ltv(m)
health == IF ltv(worst) > Info[worst].liqThresholdBps THEN "atRisk"
          ELSE IF ltv(worst) > Info[worst].maxLtvBps THEN "watch" ELSE "healthy"

BandsOf(indebted) == {<<m, alertBand(ltv(m), Info[m])>> : m \in indebted}
banners == IF Indebted = {} THEN {} ELSE BandsOf(Indebted)

-----------------------------------------------------------------------------
(* The wallet moves, and prices. *)

Move(name) == name \in Moves /\ moves < MaxMoves /\ moves' = moves + 1

MoveTokens(m, n) ==
  /\ held' = [held EXCEPT ![m].wallet = @ - n, ![m].locked = @ + n]
  /\ UNCHANGED <<cash, price, page_vars>>

Lock(m)   == Move("lock") /\ held[m].wallet > 0 /\ MoveTokens(m, held[m].wallet)
Unlock(m) ==
  /\ Move("unlock") /\ held[m].locked > 0 /\ held[m].debt = 0
  /\ MoveTokens(m, 0 - held[m].locked)

Owe(m, n) ==
  /\ held' = [held EXCEPT ![m].debt = @ + n]
  /\ cash' = [cash EXCEPT !["usdc"] = @ + n]
  /\ UNCHANGED <<price, page_vars>>

Borrow(m) == Move("borrow") /\ held[m].locked > 0 /\ Owe(m, 1)
Repay(m)  == Move("repay") /\ held[m].debt > 0 /\ cash["usdc"] > 0 /\ Owe(m, 0 - 1)

PriceMoves(m) ==
  /\ Move("price")
  /\ \E p \in Prices \ {price[m]} : price' = [price EXCEPT ![m] = p]
  /\ UNCHANGED <<held, cash, page_vars>>

-----------------------------------------------------------------------------
Init ==
  /\ held = Opening /\ cash = Cash
  /\ price \in [MarketSet -> Prices]
  /\ refresh = Idle /\ portfolio = Unread
  /\ wanted = {} /\ got = [k \in DOMAIN Cash |-> 0] /\ extras = Unread
  /\ moves = 0

PortfolioStep ==
  StartPortfolio \/ ReadPrice \/ ReadBalance \/ ReadPosition \/ NextMarket
ExtrasStep == StartExtras \/ \E k \in DOMAIN cash : ReadExtra(k)

Next ==
  \/ PortfolioStep \/ MissBalance \/ PortfolioFails
  \/ ExtrasStep \/ \E k \in DOMAIN cash : MissExtra(k)
  \/ \E m \in MarketSet : Lock(m) \/ Unlock(m) \/ Borrow(m) \/ Repay(m) \/ PriceMoves(m)

Spec == Init /\ [][Next]_vars

-----------------------------------------------------------------------------
(* Properties *)

(* What the wallet holds in tokens with a price, counted once. *)
WorthOf(m) ==
  ((held[m].wallet + held[m].locked) * Info[m].multiplierMicro * price[m])
    \div (TOKEN_UNIT * MULTIPLIER_SCALE)
Owned == SumOver(WorthOf) + cash["usdc"] + cash["sol"]

SeenAsIs ==
  /\ Loaded /\ extras = cash
  /\ \A m \in MarketSet :
       portfolio[m] = [wallet |-> held[m].wallet, locked |-> held[m].locked,
                       debt |-> held[m].debt, price |-> price[m]]

(* Credit that is shown as available can be borrowed, from one position or from   *)
(* several, whichever of them are over their own limits.                         *)
AvailableIsBorrowable ==
  Loaded => LET Room(m) == availableCredit(portfolio[m].debt, valueUsd6(m), Info[m].maxLtvBps)
            IN  availableUsd6 <= SumOver(Room)

(* Whatever the bar says, an up to date page announces each position that the     *)
(* program would let anybody liquidate at its posted price.                     *)
CanBeLiquidated(m) ==
  LET value == collateralValue(held[m].locked, price[m], Info[m].haircutBps,
                               Info[m].multiplierMicro)
  IN  held[m].debt > 0 /\ LtvBps(held[m].debt, value) > Info[m].liqThresholdBps
RiskIsAnnounced ==
  SeenAsIs => \A m \in MarketSet : CanBeLiquidated(m) => <<m, "liquidatable">> \in banners
=============================================================================
