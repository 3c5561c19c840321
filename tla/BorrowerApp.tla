------------------------------ MODULE BorrowerApp ------------------------------
(***************************************************************************)
(* The owner's pages of the app on top of the program: the portfolio the app   *)
(* read (lib/portfolio.ts), the borrow, repay, deposit and withdraw sheets     *)
(* (app/borrow/page.tsx, app/portfolio/[symbol]/page.tsx), and the banners     *)
(* that prefill them (components/band-banners.tsx).                            *)
(*                                                                         *)
(* The app's numbers are those of its last read of the chain and of its own    *)
(* table of markets (lib/config.ts); the program decides on its state at the   *)
(* time of the transaction.                                                    *)
(***************************************************************************)
EXTENDS ListedMarket, ClientRisk

CONSTANTS
  Info,     \* by market, its row in config.ts
  NoView    \* nothing read yet

(* A position as the app read it.                                              *)
ViewType ==
  [deposited : Nat, debt : Nat, priceUsd6 : Nat, valueUsd6 : Nat, ltv : Nat]

(* Every price is posted in millionths of a dollar: by the signer               *)
(* (lib/prices/signer.ts), the admin page and the scripts alike.               *)
ASSUME AppAssumption ==
  /\ ClientAssumption
  /\ NoView \notin ViewType
  /\ \A q \in PostedPrices : q[2] = -6
  /\ Info \in [Markets ->
       [assetClass : STRING, maxLtvBps : Nat \ {0}, liqThresholdBps : Nat,
        haircutBps : 0 .. BPS - 1, multiplierMicro : Nat \ {0}]]

VARIABLES
  view,     \* by position, what the app last read of it
  sheet,    \* the open sheet: its kind, position and amount field
  answer    \* what became of the last transaction signed

app_vars == <<view, sheet, answer>>
all_vars == <<vars, app_vars>>

NoSheet == [kind |-> "none"]
Sheet(kind, p, text) == [kind |-> kind, p |-> p, text |-> text]

-----------------------------------------------------------------------------
(* The portfolio: a price's expo is taken to be -6, the haircut is the         *)
(* market's, and the debt the principal.                                       *)

Snapshot(p) ==
  LET m == p[1]
      price == IF signed_price[m] = NoPrice THEN 0 ELSE signed_price[m].price
      value == collateralValue(collateral_amount[p], price, market[m].haircut_bps,
                               Info[m].multiplierMicro)
  IN  [deposited |-> collateral_amount[p], debt |-> debt_principal[p],
       priceUsd6 |-> price, valueUsd6 |-> value,
       ltv |-> LtvBps(debt_principal[p], value)]

usePortfolio ==
  /\ view' = [p \in Positions |-> IF market[p[1]] = NoMarket THEN NoView ELSE Snapshot(p)]
  /\ UNCHANGED <<vars, sheet, answer>>

Row(p) == Info[p[1]]
Band(p) == alertBand(view[p].ltv, Row(p))
Fix(p) == fixAmounts(view[p].debt, view[p].deposited, view[p].priceUsd6, Row(p))
MaxBorrow(p) == availableCredit(view[p].debt, view[p].valueUsd6, Row(p).maxLtvBps)
WalletBalance(m) == TokenSupply - collateral_vault[m] - clawed_back[m]

-----------------------------------------------------------------------------
(* The sheets. *)

OpenSheet(kind, p) ==
  /\ sheet = NoSheet /\ view[p] # NoView
  /\ kind \in {"borrow", "repay"} => view[p].deposited > 0 /\ view[p].priceUsd6 > 0
  /\ sheet' = Sheet(kind, p, Plain(0))
  /\ UNCHANGED <<vars, view, answer>>

BandBanner(p) ==
  /\ sheet = NoSheet /\ view[p] # NoView /\ view[p].debt > 0
  /\ view[p].deposited > 0 /\ view[p].priceUsd6 > 0
  /\ Band(p) \notin {"healthy", "watch"}
  /\ \/ sheet' = Sheet("deposit", p, formatTokens(Fix(p).addTokens))
     \/ sheet' = Sheet("repay", p, Plain(Fix(p).repayUsd6))
  /\ UNCHANGED <<vars, view, answer>>

TypeAmount(n) ==
  /\ sheet # NoSheet
  /\ n \in IF sheet.kind \in {"borrow", "repay"} THEN Amounts ELSE TokenAmounts
  /\ sheet' = [sheet EXCEPT !.text = Plain(n)]
  /\ UNCHANGED <<vars, view, answer>>

MaxText(kind, p) ==
  CASE kind = "borrow"   -> Plain(MaxBorrow(p))
    [] kind = "repay"    -> All
    [] kind = "deposit"  -> formatTokens(WalletBalance(p[1]))
    [] kind = "withdraw" -> formatTokens(maxWithdraw(view[p], Row(p)))

PressMax ==
  /\ sheet # NoSheet
  /\ sheet' = [sheet EXCEPT !.text = MaxText(sheet.kind, sheet.p)]
  /\ UNCHANGED <<vars, view, answer>>

CloseSheet ==
  /\ sheet # NoSheet /\ sheet' = NoSheet
  /\ UNCHANGED <<vars, view, answer>>

Enabled(s) ==
  LET amount == Typed(s.text)
  IN  /\ amount > 0
      /\ s.kind = "borrow"   => amount <= MaxBorrow(s.p)
      /\ s.kind = "deposit"  => amount <= WalletBalance(s.p[1])
      /\ s.kind = "withdraw" => amount <= maxWithdraw(view[s.p], Row(s.p))

(* The instruction the sheet sends.  Repaying all would send u64::MAX.         *)
Instruction(s) ==
  LET price == signed_price[s.p[1]] # NoPrice
      amount == Typed(s.text)
  IN  CASE s.kind = "borrow"   -> Borrow(s.p, amount)
        [] s.kind = "repay"    -> Repay(s.p, IF s.text = All THEN U64Max ELSE amount, price)
        [] s.kind = "deposit"  -> DepositCollateral(s.p, amount, price)
        [] s.kind = "withdraw" -> WithdrawCollateral(s.p, amount, price)

Confirm ==
  /\ sheet # NoSheet /\ Enabled(sheet)
  /\ Instruction(sheet)
  /\ sheet' = NoSheet /\ answer' = "done"
  /\ UNCHANGED view

ConfirmRefused ==
  /\ sheet # NoSheet /\ Enabled(sheet)
  /\ ~ENABLED Instruction(sheet)
  /\ answer' = "refused"
  /\ UNCHANGED <<vars, view, sheet>>

-----------------------------------------------------------------------------
AppOpens ==
  /\ view = [p \in Positions |-> NoView]
  /\ sheet = NoSheet
  /\ answer = "none"
AppInit == ListedInit /\ AppOpens

AppNext ==
  \/ usePortfolio
  \/ \E p \in Positions :
       \/ \E kind \in {"borrow", "repay", "deposit", "withdraw"} : OpenSheet(kind, p)
       \/ BandBanner(p)
  \/ \E n \in Amounts \union TokenAmounts : TypeAmount(n)
  \/ PressMax \/ CloseSheet \/ Confirm \/ ConfirmRefused

(* Time passes, the signer posts prices, and others liquidate. *)
OthersNext ==
  /\ \/ Tick
     \/ \E m \in Markets, q \in PostedPrices : SetSignedPrice(m, q[1], q[2])
     \/ \E p \in Positions, amount \in Amounts : Liquidate(p, amount)
  /\ UNCHANGED app_vars

AppSpec == AppInit /\ [][AppNext \/ OthersNext]_all_vars

-----------------------------------------------------------------------------
(* Properties *)

(* The app's table has the market's parameters, it read the position as it is, *)
(* no interest is outstanding, and the price is fresh and fits its u64.         *)
Current(p) ==
  LET m == p[1]
  IN  /\ view[p] # NoView /\ view[p] = Snapshot(p) /\ Interest(p) = 0
      /\ PriceUsable(m) /\ Fresh(m) /\ FitsU64(Value(m, collateral_amount[p]))
      /\ mint[m].multiplier = Row(p).multiplierMicro
      /\ Row(p).maxLtvBps = market[m].max_ltv_bps
      /\ Row(p).liqThresholdBps = market[m].liq_threshold_bps
      /\ Row(p).haircutBps = market[m].haircut_bps

(* "Up to $X" (borrow/page.tsx:145): a loan of what a current sheet offers is   *)
(* within max LTV for the program.                                             *)
OfferHolds ==
  \A p \in Positions : Current(p) /\ MaxBorrow(p) > 0 =>
    WithinMaxLtv(p[1], collateral_amount[p], debt_principal[p] + MaxBorrow(p))

(* "Exact amounts to return to max LTV" (risk.ts:146): either fix of a current  *)
(* banner brings the position to max LTV or below, as the program computes it.  *)
FixHolds ==
  \A p \in Positions : Current(p) /\ debt_principal[p] > 0 /\ view[p].priceUsd6 > 0 =>
    LET m == p[1]
        topped == collateral_amount[p] + Fix(p).addTokens
    IN  /\ FitsU64(Value(m, topped)) => WithinMaxLtv(m, topped, debt_principal[p])
        /\ WithinMaxLtv(m, collateral_amount[p],
                        Monus(debt_principal[p], Fix(p).repayUsd6))

(* A position the program would let others liquidate is one the app shows as    *)
(* liquidatable, and so is one whose price is below the one the app names, as    *)
(* long as the program can compute its LTV at all.                             *)
BandTells ==
  \A p \in Positions : Current(p) /\ debt_principal[p] > 0 =>
    LET m == p[1]
        over == AboveLiqThreshold(m, collateral_amount[p], debt_principal[p])
        named == liquidationPrice(view[p].debt, view[p].deposited, Row(p))
        computable == FitsU64(Ltv(m, collateral_amount[p], debt_principal[p]))
    IN  /\ over => Band(p) = "liquidatable"
        /\ computable /\ view[p].priceUsd6 < named => over

(* What the sheets and banners of a current app say holds for the program.      *)
QuotesHold == OfferHolds /\ FixHolds /\ BandTells
=============================================================================
