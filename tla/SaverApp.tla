------------------------------- MODULE SaverApp --------------------------------
(***************************************************************************)
(* The savings page (app/savings/page.tsx) on top of the program.  The page    *)
(* reads the config, the vault and the saver's shares with a query each        *)
(* (lib/program.ts), each at its own time, and turns the USDC typed into the   *)
(* shares to burn; the program pays what those shares are worth when the       *)
(* transaction runs.  All numbers of the page are bigint.                      *)
(***************************************************************************)
EXTENDS ListedMarket

CONSTANTS
  Me,      \* the saver who has the page open
  MaxActs, \* bound: transactions with the pool
  Unread   \* a query that has not answered yet: no number

SaverAssumption == Me \in Savers /\ Unread \notin Nat

VARIABLES
  seen,    \* by query, its last answer
  tab, amount,
  answer,  \* the toast on the page
  acts     \* transactions with the pool so far

page_vars == <<seen, tab, amount, answer>>
all_vars  == <<vars, page_vars, acts>>

Act == acts < MaxActs /\ acts' = acts + 1
NoToast == answer' = "none"

QueryNames == {"config", "vault", "savings"}
OnChain ==
  [config  |-> [borrowed |-> total_borrowed, reserve |-> reserve, shares |-> total_shares],
   vault   |-> usdc_vault,
   savings |-> shares[Me]]

-----------------------------------------------------------------------------
(* What the page shows, once the config has answered. *)

Loaded == seen["config"] # Unread
OrZero(q) == IF seen[q] = Unread THEN 0 ELSE seen[q]

poolOf(vault, config) == vault + config.borrowed - config.reserve
amountForShares(part, all, pool) == IF all = 0 THEN 0 ELSE (part * pool) \div all

IdleOf(vault, owed)      == IF vault > owed THEN vault - owed ELSE 0

pool    == poolOf(OrZero("vault"), seen["config"])
balance == amountForShares(OrZero("savings"), seen["config"].shares, pool)
idle    == IdleOf(OrZero("vault"), seen["config"].reserve)

(* Whoever asks for all gives all shares.  Nothing is burned of a pool that is   *)
(* worth nothing.                                                              *)
RoundedUp(wanted) == IF pool <= 0 THEN 0 ELSE CeilDiv(wanted * seen["config"].shares, pool)
ByShare(wanted)   == IF pool <= 0 THEN 0 ELSE (wanted * seen["config"].shares) \div pool
SharesFor(wanted) == IF pool > 0 /\ wanted >= balance THEN OrZero("savings") ELSE ByShare(wanted)

-----------------------------------------------------------------------------
(* What the saver does, and what becomes of it. *)

Read(q) ==
  /\ seen[q] # OnChain[q]
  /\ seen' = [seen EXCEPT ![q] = OnChain[q]]
  /\ NoToast /\ UNCHANGED <<vars, tab, amount, acts>>

TypeAmount(name, n) ==
  /\ <<tab, amount>> # <<name, n>>
  /\ tab' = name /\ amount' = n
  /\ NoToast /\ UNCHANGED <<vars, seen, acts>>

PressMax ==
  /\ tab = "withdraw" /\ Loaded
  /\ amount' = balance
  /\ NoToast /\ UNCHANGED <<vars, seen, tab, acts>>

Says(message) ==
  /\ answer' = message
  /\ amount' = IF message = "done" THEN 0 ELSE amount
  /\ UNCHANGED <<seen, tab>>

Instruction ==
  IF tab = "deposit" THEN DepositSavings(Me, amount) ELSE WithdrawSavings(Me, SharesFor(amount))

NothingToBurn == tab = "withdraw" /\ SharesFor(amount) = 0

Confirm ==
  /\ Loaded /\ amount > 0 /\ ~NothingToBurn
  /\ Instruction /\ Act
  /\ Says("done")

Refused ==
  /\ Loaded /\ amount > 0 /\ ~NothingToBurn
  /\ ~ENABLED Instruction
  /\ Says("refused")
  /\ UNCHANGED <<vars, acts>>

Nothing ==
  /\ Loaded /\ amount > 0 /\ NothingToBurn
  /\ Says(IF pool = 0 THEN "division by zero" ELSE "nothing to withdraw")
  /\ UNCHANGED <<vars, acts>>

-----------------------------------------------------------------------------
PageOpens ==
  /\ seen = [q \in QueryNames |-> Unread]
  /\ tab = "deposit" /\ amount = 0 /\ answer = "none" /\ acts = 0
PageInit == ListedInit /\ PageOpens

PageNext ==
  \/ \E q \in QueryNames : Read(q)
  \/ \E name \in {"deposit", "withdraw"}, n \in SavingsAmounts : TypeAmount(name, n)
  \/ PressMax \/ Confirm \/ Refused \/ Nothing

(* Others borrow, repay and save, and time passes. *)
OthersNext ==
  /\ \/ UNCHANGED acts /\ Tick
     \/ UNCHANGED acts /\ \E p \in Positions, n \in TokenAmounts : DepositCollateral(p, n, TRUE)
     \/ Act /\ \E s \in Savers \ {Me}, n \in SavingsAmounts :
          DepositSavings(s, n) \/ WithdrawSavings(s, n)
     \/ Act /\ \E p \in Positions, n \in Amounts : Borrow(p, n) \/ Repay(p, n, TRUE)
  /\ NoToast /\ UNCHANGED <<seen, tab, amount>>

PageSpec == PageInit /\ [][PageNext \/ OthersNext]_all_vars

-----------------------------------------------------------------------------
(* Properties *)

Current == \A q \in QueryNames : seen[q] = OnChain[q]

(* A saver who sees the pool as it is never withdraws more than was typed, and   *)
(* is short of it by less than a share and a unit.                             *)
PaysWhatWasTyped ==
  [][Confirm /\ tab = "withdraw" /\ Current /\ amount <= balance =>
       LET paid == usdc_vault - usdc_vault'
       IN  paid <= amount /\ (amount - paid) * total_shares < pool_value + total_shares]_all_vars

(* "Instant up to $X" (savings/page.tsx:165, spec.md:106): what a current page    *)
(* calls instant is not refused.                                               *)
InstantHolds ==
  [][Refused /\ tab = "withdraw" /\ Current => amount > idle]_all_vars

(* Whoever withdraws all that a current page shows leaves nothing behind.        *)
MaxLeavesNothing ==
  [][Confirm /\ tab = "withdraw" /\ Current /\ amount = balance => shares'[Me] = 0]_all_vars
=============================================================================
