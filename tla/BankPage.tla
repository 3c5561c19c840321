------------------------------- MODULE BankPage --------------------------------
(***************************************************************************)
(* The sheet "Send to your bank" (app/bank/page.tsx).  It reads the saved       *)
(* accounts, the positions and a quote, each with a query of its own; on        *)
(* Confirm it asks for a quote anew, signs one transaction that borrows and     *)
(* transfers, waits, and reports it.  What the press saw is in the closure;     *)
(* the sheet stays open to typing meanwhile.                                   *)
(*                                                                         *)
(* An API request is served at once here: its interleavings are in Payouts and  *)
(* BankAccounts, the rest of the program in Stockcard.  A position is its debt   *)
(* and the most it may owe.                                                    *)
(***************************************************************************)
EXTENDS Naturals, Sequences, FiniteSets, SequencesExt, Functions

CONSTANTS
  Accounts,      \* the ids bank accounts will have
  Assets,        \* the positions, in the order of the portfolio
  Cents,         \* what may be typed, in EUR cents
  MinEurCents,   \* 1_000
  PurposeAbove,  \* 1_000_000
  UsdcFor(_, _), \* the USDC of an amount at a rate
  Rates,         \* the ECB rates that may be in force
  Limits,        \* the most a position may owe, as its price moves
  MaxSends,      \* bound: transactions of this wallet
  Timeouts,      \* whether a confirmation may time out
  Unread         \* a query that has not answered yet

Positions == ToSet(Assets)

BankPageAssumption ==
  /\ Assets \in Seq(Positions) \ {<<>>} /\ IsInjective(Assets)
  /\ Cents \subseteq Nat /\ Limits \subseteq Nat /\ 0 \notin Rates
  /\ MinEurCents \in Nat \ {0}
  /\ \A c \in Cents, e \in Rates : UsdcFor(c, e) \in Nat

VARIABLES
  saved,     \* on the server, the accounts in the order they were added
  rate,      \* the rate in force
  debt, limit, usdc,  \* on chain: by position, and the wallet's USDC
  paidTo,    \* whether the payout address has a USDC account yet
  txs,       \* the transactions sent, with what they were pressed for
  booked,    \* by transaction, the payout on the server: "none" until recorded
  seen,      \* by query, its last answer
  form,      \* what is typed and chosen
  job        \* confirm(): where it is and what its closure holds

server_vars == <<saved, rate>>
chain_vars  == <<debt, limit, usdc, paidTo>>
all_vars == <<server_vars, chain_vars, txs, booked, seen, form, job>>

Sources   == {"borrow", "balance"}
NoAccount == "none"
Ready     == [at |-> "ready"]

QueryNames == {"accounts", "portfolio", "quote"}

-----------------------------------------------------------------------------
(* What the sheet computes from what it has seen. *)

accounts == IF seen["accounts"] = Unread THEN <<>> ELSE seen["accounts"]

account ==
  IF form.account \in ToSet(accounts) THEN form.account
  ELSE IF accounts = <<>> THEN NoAccount ELSE Head(accounts)

(* The cache has every quote it was given, under what was asked; the last one is  *)
(* enough: an older one shown again is a quote whose rate has moved since.         *)
quoteKey == <<account, form.cents, form.source>>
quote == IF seen["quote"] # Unread /\ seen["quote"].key = quoteKey
         THEN seen["quote"].usdc ELSE Unread

availableCredit(position) ==
  IF position.limit > position.debt THEN position.limit - position.debt ELSE 0

(* The position with the most headroom backs the payout, the first of equals. *)
MostHeadroom(portfolio) ==
  LET room(i) == availableCredit(portfolio[Assets[i]])
  IN  Assets[CHOOSE i \in DOMAIN Assets :
        /\ \A j \in DOMAIN Assets : room(j) <= room(i)
        /\ \A j \in 1..(i - 1) : room(j) < room(i)]
borrowAsset(portfolio) == MostHeadroom(portfolio)

Previewed == form.source = "borrow" /\ seen["portfolio"] # Unread /\ quote # Unread
overMax ==
  /\ Previewed
  /\ quote > availableCredit(seen["portfolio"][borrowAsset(seen["portfolio"])])

needsPurpose == form.cents > PurposeAbove
canConfirm ==
  /\ job = Ready /\ account # NoAccount /\ quote # Unread
  /\ form.cents >= MinEurCents /\ ~overMax
  /\ needsPurpose => form.purpose

-----------------------------------------------------------------------------
(* The queries. *)

OnChain == [p \in Positions |-> [debt |-> debt[p], limit |-> limit[p]]]

See(key, answer) ==
  /\ seen[key] # answer
  /\ seen' = [seen EXCEPT ![key] = answer]
  /\ UNCHANGED <<server_vars, chain_vars, txs, booked, form, job>>

SeeAccounts  == See("accounts", saved)
SeePortfolio == See("portfolio", OnChain)

(* The quote has no poll: it is asked for again when it is stale and the sheet    *)
(* comes back to it, and refused for an account that is gone.                   *)
SeeQuote ==
  /\ account \in ToSet(saved) /\ form.cents >= MinEurCents
  /\ See("quote", [key |-> quoteKey, usdc |-> UsdcFor(form.cents, rate)])

-----------------------------------------------------------------------------
(* Typing, choosing, and the sheet to add an account. *)

Edit(changed) ==       \* until the payout's steps take the place of the form
  /\ form' = changed /\ form' # form
  /\ job.at # "done"
  /\ UNCHANGED <<server_vars, chain_vars, txs, booked, seen, job>>

Type ==
  \/ \E c \in Cents : Edit([form EXCEPT !.cents = c])
  \/ \E s \in Sources : Edit([form EXCEPT !.source = s])
  \/ \E a \in ToSet(accounts) : Edit([form EXCEPT !.account = a])
  \/ needsPurpose /\ Edit([form EXCEPT !.purpose = TRUE])

(* The new account is chosen before the list that has it arrives. *)
SaveAccount(a) ==
  /\ a \notin ToSet(saved)
  /\ saved' = Append(saved, a)
  /\ form' = [form EXCEPT !.account = a]
  /\ UNCHANGED <<rate, chain_vars, txs, booked, seen, job>>

-----------------------------------------------------------------------------
(* confirm() *)

Pressed ==
  [source |-> form.source, cents |-> form.cents, account |-> account,
   purpose |-> form.purpose, previewed |-> quote, portfolio |-> seen["portfolio"]]

Press ==
  /\ canConfirm
  /\ job' = [at |-> "quoting", pressed |-> Pressed]
  /\ UNCHANGED <<server_vars, chain_vars, txs, booked, seen, form>>

InClosure(pressed) == pressed

(* A new quote for what was pressed, or an error: the account is gone. *)
Requote ==
  /\ job.at = "quoting"
  /\ LET p == InClosure(job.pressed)
     IN  job' = IF p.account \in ToSet(saved)
                THEN [at |-> "looking", pressed |-> job.pressed, source |-> p.source,
                      account |-> p.account, usdc |-> UsdcFor(p.cents, rate)]
                ELSE Ready
  /\ UNCHANGED <<server_vars, chain_vars, txs, booked, seen, form>>

(* Whether the payout address has a USDC account decides whether one is made. *)
LookAtAta ==
  /\ job.at = "looking"
  /\ job' = IF job.source = "borrow" /\ job.pressed.portfolio = Unread
            THEN Ready
            ELSE [at |-> "signing", pressed |-> job.pressed, source |-> job.source,
                  account |-> job.account, usdc |-> job.usdc, create |-> ~paidTo]
  /\ UNCHANGED <<server_vars, chain_vars, txs, booked, seen, form>>

Tx ==
  [source |-> job.source, usdc |-> job.usdc, account |-> job.account,
   create |-> job.create, pressed |-> job.pressed, state |-> "sent",
   asset |-> IF job.source = "borrow" THEN borrowAsset(job.pressed.portfolio)
             ELSE Head(Assets)]

(* The instructions run in their order, and all of them or none. *)
BorrowFits(tx) == tx.source = "borrow" => debt[tx.asset] + tx.usdc <= limit[tx.asset]
Passes(tx) ==
  /\ BorrowFits(tx)
  /\ tx.create => ~paidTo
  /\ tx.source = "balance" => usdc >= tx.usdc

Simulated(tx) == Passes(tx)

(* The wallet is asked, the transaction is simulated and sent. *)
Send ==
  /\ job.at = "signing" /\ Len(txs) < MaxSends /\ Simulated(Tx)
  /\ txs' = Append(txs, Tx) /\ booked' = Append(booked, "none")
  /\ job' = [at |-> "sent", tx |-> Len(txs) + 1]
  /\ UNCHANGED <<server_vars, chain_vars, seen, form>>

Refused ==
  /\ job.at = "signing" /\ ~Simulated(Tx)
  /\ job' = Ready
  /\ UNCHANGED <<server_vars, chain_vars, txs, booked, seen, form>>

RejectedByUser ==
  /\ job.at = "signing"
  /\ job' = Ready
  /\ UNCHANGED <<server_vars, chain_vars, txs, booked, seen, form>>

(* confirmTransaction answers when the chain has executed it; the error in its    *)
(* answer is not read.                                                         *)
Confirmed ==
  /\ job.at = "sent" /\ txs[job.tx].state # "sent"
  /\ job' = [job EXCEPT !.at = "reporting"]
  /\ UNCHANGED <<server_vars, chain_vars, txs, booked, seen, form>>

TimesOut ==
  /\ Timeouts /\ job.at = "sent"
  /\ job' = Ready
  /\ UNCHANGED <<server_vars, chain_vars, txs, booked, seen, form>>

(* The server records a transfer that succeeded; then the status is shown. *)
Report ==
  /\ job.at = "reporting"
  /\ IF txs[job.tx].state = "ok"
     THEN /\ booked' = [booked EXCEPT ![job.tx] = "processing"]
          /\ job' = [at |-> "done", tx |-> job.tx, status |-> "processing"]
     ELSE job' = Ready /\ UNCHANGED booked
  /\ UNCHANGED <<server_vars, chain_vars, txs, seen, form>>

(* Asked every four seconds until the payout is no longer processing. *)
Polled(status) == status = "processing"

PollStatus ==
  /\ job.at = "done" /\ Polled(job.status) /\ booked[job.tx] # job.status
  /\ job' = [job EXCEPT !.status = booked[job.tx]]
  /\ UNCHANGED <<server_vars, chain_vars, txs, booked, seen, form>>

Close ==
  /\ job.at = "done"
  /\ job' = Ready
  /\ UNCHANGED <<server_vars, chain_vars, txs, booked, seen, form>>

-----------------------------------------------------------------------------
(* The chain, the bank leg, the market and other wallets. *)

EachForItself(tx) == BorrowFits(tx)
BorrowRuns(tx)    == Passes(tx)

Execute(i) ==
  LET tx == txs[i]
  IN  /\ tx.state = "sent"
      /\ txs' = [txs EXCEPT ![i].state = IF Passes(tx) THEN "ok" ELSE "failed"]
      /\ debt' = IF BorrowRuns(tx) /\ tx.source = "borrow"
                 THEN [debt EXCEPT ![tx.asset] = @ + tx.usdc] ELSE debt
      /\ usdc' = IF Passes(tx) /\ tx.source = "balance" THEN usdc - tx.usdc ELSE usdc
      /\ paidTo' = (paidTo \/ Passes(tx))
      /\ UNCHANGED <<server_vars, limit, booked, seen, form, job>>

Arrive(i) ==
  /\ booked[i] = "processing"
  /\ booked' = [booked EXCEPT ![i] = "arrived"]
  /\ UNCHANGED <<server_vars, chain_vars, txs, seen, form, job>>

MarketMoves ==
  \/ \E e \in Rates \ {rate} :
       rate' = e /\ UNCHANGED <<saved, chain_vars, txs, booked, seen, form, job>>
  \/ \E p \in Positions, n \in Limits :
       /\ limit' = [limit EXCEPT ![p] = n] /\ limit' # limit
       /\ UNCHANGED <<server_vars, debt, usdc, paidTo, txs, booked, seen, form, job>>

(* The first payout of anybody makes the account of the payout address. *)
OthersPay ==
  /\ ~paidTo /\ paidTo' = TRUE
  /\ UNCHANGED <<server_vars, debt, limit, usdc, txs, booked, seen, form, job>>

-----------------------------------------------------------------------------
Init ==
  /\ saved = <<>> /\ rate \in Rates
  /\ debt = [p \in Positions |-> 0] /\ limit \in [Positions -> Limits]
  /\ usdc \in {UsdcFor(c, e) : c \in Cents, e \in Rates} /\ paidTo \in BOOLEAN
  /\ txs = <<>> /\ booked = <<>>
  /\ seen = [q \in QueryNames |-> Unread]
  /\ form \in [source : Sources, cents : {0}, account : {NoAccount}, purpose : {FALSE}]
  /\ job = Ready

Handler ==
  \/ Requote \/ LookAtAta \/ Send \/ Refused \/ Confirmed \/ Report \/ PollStatus

Next ==
  \/ SeeAccounts \/ SeePortfolio \/ SeeQuote
  \/ Type \/ \E a \in Accounts : SaveAccount(a)
  \/ Press \/ RejectedByUser \/ TimesOut \/ Close \/ Handler
  \/ \E i \in DOMAIN txs : Execute(i) \/ Arrive(i)
  \/ MarketMoves \/ OthersPay

Spec == Init /\ [][Next]_all_vars

-----------------------------------------------------------------------------
(* Properties *)

TypeOK ==
  /\ ToSet(saved) \subseteq Accounts /\ rate \in Rates
  /\ debt \in [Positions -> Nat] /\ limit \in [Positions -> Limits]
  /\ usdc \in Nat /\ paidTo \in BOOLEAN
  /\ DOMAIN booked = DOMAIN txs
  /\ DOMAIN seen = QueryNames
  /\ form.cents \in Cents \cup {0} /\ form.source \in Sources

(* "one transaction contains borrow and a USDC transferChecked ... and it either   *)
(* fully succeeds or fully fails", and from the balance "debt is unchanged"       *)
(* (spec.md:140, 142): what the wallet owes follows what reached the payout        *)
(* address for presses on Borrow, and nothing else.                             *)
Lent(tx) == IF tx.state = "ok" /\ tx.pressed.source = "borrow" THEN tx.usdc ELSE 0
DebtIsWhatWasSent ==
  SumFunction(debt) = SumFunction([i \in DOMAIN txs |-> Lent(txs[i])])

(* Whatever is typed while a confirmation is under way, the account that gets     *)
(* the money is the one on the sheet when Confirm was pressed, and it is booked.  *)
PaysWhoWasShown ==
  \A i \in DOMAIN txs :
    /\ txs[i].account = txs[i].pressed.account
    /\ txs[i].usdc \in {UsdcFor(txs[i].pressed.cents, e) : e \in Rates}

(* Confirm is disabled for want of credit (spec.md:139) only when no position     *)
(* could carry the amount alone.                                               *)
DisabledOnlyIfNoneFits ==
  overMax /\ seen["portfolio"] = OnChain =>
    \A p \in Positions : debt[p] + quote > limit[p]
=============================================================================
