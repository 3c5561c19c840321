----------------------------- MODULE SavingsPool -----------------------------
(***************************************************************************)
(* What the USDC pool of the Stockcard program promises its savers, whoever *)
(* borrows and whatever secures the loans.  Shares are anonymous, interest  *)
(* and roundings are left open, and only their direction is fixed: a saver  *)
(* who joins gets no more shares than the money is worth, one who leaves no *)
(* more money than the shares are worth, and the protocol's fee is taken    *)
(* out of interest, never out of deposits.                                  *)
(*                                                                         *)
(* Each action relates the books before and after a step, so that the      *)
(* specification bounds no quantity.                                        *)
(***************************************************************************)
EXTENDS Integers

VARIABLES cash,    \* USDC in the vault
          loans,   \* debt outstanding, interest included
          fees,    \* the protocol's claim on the pool
          issued   \* savings shares outstanding

books == <<cash, loans, fees, issued>>

(* The books hold natural numbers. *)
BooksOK == cash \in Nat /\ loans \in Nat /\ fees \in Nat /\ issued \in Nat

value == cash + loans - fees

Fund ==
  /\ cash' > cash /\ issued' > issued
  /\ IF issued = 0 THEN issued' - issued = cash' - cash
     ELSE (issued' - issued) * value <= (cash' - cash) * issued
  /\ UNCHANGED <<loans, fees>>

(* Only idle cash leaves, and the last share takes all that is left. *)
Redeem ==
  /\ cash' < cash /\ issued' < issued
  /\ fees <= cash'
  /\ (cash - cash') * issued <= (issued - issued') * value
  /\ issued' = 0 => loans = 0 /\ cash' = fees
  /\ UNCHANGED <<loans, fees>>

(* Interest is added to the loans and the fee to the protocol's claim; then *)
(* idle cash is lent or a borrower pays some back.                          *)
Service ==
  LET interest == (cash' + loans') - (cash + loans)
      fee      == fees' - fees
  IN  /\ 0 <= fee /\ fee <= interest
      /\ loans = 0 => interest = 0
      /\ cash' < cash => issued > 0 /\ fees' <= cash'
      /\ UNCHANGED issued

Collect ==
  /\ cash' < cash
  /\ cash - cash' = fees - fees'
  /\ UNCHANGED <<loans, issued>>

Init == cash = 0 /\ loans = 0 /\ fees = 0 /\ issued = 0
Next == BooksOK' /\ (Fund \/ Redeem \/ Service \/ Collect)
Spec == Init /\ [][Next]_books

-----------------------------------------------------------------------------
(* A share is worth at least the unit it was first sold for.                *)
Backed == issued <= value

(* Without savers there are no loans, and the cash is the protocol's.       *)
Settled == issued = 0 => loans = 0 /\ cash = fees

(* The price of a share never falls.                                        *)
PriceNeverFalls == [][value' * issued >= value * issued']_books
=============================================================================
