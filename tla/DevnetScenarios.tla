---------------------------- MODULE DevnetScenarios ----------------------------
(***************************************************************************)
(* scripts/devnet-wallets.ts: fresh wallets, each with a scenario of its own,  *)
(* are funded and run against the deployed program a few at a time; then two    *)
(* of them share a market whose price is crashed and restored; then what SOL    *)
(* is left is swept back.                                                     *)
(*                                                                         *)
(* A scenario is the sequence of the calls and checks it awaits.  The program   *)
(* is Stockcard; all scenarios use the one market.  Token accounts, what a      *)
(* check prints and which error a refused call names are left out.             *)
(***************************************************************************)
EXTENDS ListedMarket, SequencesExt

CONSTANTS
  Scenarios,     \* the selected ones, in order
  WantCrash,     \* whether the crash pair is selected
  Market,        \* the market, and the one that is crashed
  Users,         \* owners who have nothing to do with the run
  Concurrency, Batch,
  UnitCount,     \* tokens of a wallet's collateral
  Worth,         \* what a wallet of the crash pair locks, in USDC
  Room, Spare,   \* closeOut: seconds and USDC of slack
  CardLimit, Purchase, Euros,
  SafeLtv,       \* the LTV a safe withdrawal keeps under
  Faults, MaxFaults,
  FirstSources   \* which sources the price may have at first

VARIABLES
  main,       \* where the script is
  saved,      \* the wallets whose keys are in the key file
  sol,        \* the wallets that hold SOL
  queue,      \* the scenarios no worker has taken
  task,       \* by scenario, the position in its plan and its result
  note,       \* by wallet, the script's local variables
  coll, usdc, allowance,      \* by wallet: tokens, USDC, approved to the card
  source,     \* who posted the price: "market" or "demo"
  before,     \* the price view taken before the crash
  crashed, restored, signal,  \* runCrash's flags and the Ctrl-C handler
  price_tx,   \* by price transaction of the script: none, sent, done or lost
  faults

purse == <<coll, usdc, allowance>>
flow == <<main, saved, sol, queue>>
crash_vars == <<source, before, crashed, restored, signal, price_tx>>
run_vars == <<vars, flow, task, note, purse, crash_vars, faults>>

Crash == "crash"
Pair == IF WantCrash THEN {"A", "B"} ELSE {}
Tasks == Range(Scenarios) \cup IF WantCrash THEN {Crash} ELSE {}
Wallets == Range(Scenarios) \cup Pair
ScenarioIds == {"loop", "band", "bands", "boundary", "guard", "card", "sepa", "interest"}
RunAssumption ==
  /\ Scenarios \in Seq(ScenarioIds) /\ Market \in Markets
  /\ Wallets \subseteq Owners /\ Users \subseteq Owners \ Wallets
Ids == Scenarios \o IF WantCrash THEN <<"A", "B">> ELSE <<>>
Pos(w) == <<Market, w>>
MaxLtv == market[Market].max_ltv_bps

-----------------------------------------------------------------------------
(* The scenarios *)

Of(w, ops) == [i \in DOMAIN ops |-> [ops[i] EXCEPT !.w = w]]
Do(op) == [op |-> op, w |-> Crash]
DoN(op, n) == [op |-> op, w |-> Crash, n |-> n]
To(op, bps) == [op |-> op, w |-> Crash, bps |-> bps, plus |-> 0]

Lock(units) == <<DoN("mint", units), DoN("deposit", units), DoN("value", units)>>
openPosition(units, bps) == Lock(units) \o <<To("borrow", bps), Do("checkOpen")>>
closeOut ==
  <<Do("topUp"), Do("repayAll"), Do("checkRepaid"), Do("withdrawAll"), Do("checkBalance")>>

ScenarioPlan(id) ==
  CASE id = "loop" -> openPosition(UnitCount, MaxLtv \div 2) \o closeOut
    [] id = "band" -> openPosition(UnitCount, MaxLtv) \o <<Do("checkApr")>> \o closeOut
    [] id = "bands" -> openPosition(UnitCount, MaxLtv \div 2)
         \o <<Do("checkApr"), To("borrow", (9 * MaxLtv) \div 10), Do("checkApr")>> \o closeOut
    [] id = "boundary" -> Lock(UnitCount)
         \o <<To("noLoan", 0), [To("noLoan", MaxLtv) EXCEPT !.plus = 1],
              To("borrow", MaxLtv), Do("checkOpen"),
              [To("noLoan", MaxLtv) EXCEPT !.plus = 1]>> \o closeOut
    [] id = "guard" -> openPosition(UnitCount, (9 * MaxLtv) \div 10)
         \o <<DoN("noWithdrawal", UnitCount \div 3), Do("withdrawSafe")>> \o closeOut
    [] id = "card" -> openPosition(UnitCount, (9 * MaxLtv) \div 10)
         \o <<Do("approve"), Do("purchase"), Do("declined")>> \o closeOut
    [] id = "sepa" -> Lock(UnitCount) \o <<Do("payout")>> \o closeOut
    [] id = "interest" -> openPosition(UnitCount, MaxLtv)
         \o <<Do("wait"), Do("repayHalf"), Do("checkHalf")>> \o closeOut

CrashPlan(units) ==
  <<Do("view"), Do("exposed")>>
    \o Of("A", openPosition(units, MaxLtv - 1)) \o Of("B", openPosition(units, MaxLtv \div 3))
    \o Of("A", <<DoN("noLiquidation", "one")>>) \o <<Do("crash"), Do("crashSent")>>
    \o Of("A", <<Do("checkSunk"), DoN("noLiquidation", "over"), Do("liquidate"),
                 Do("checkSaved"), DoN("noLiquidation", "one")>>)
    \o Of("B", <<DoN("noLiquidation", "one")>>)
    \o <<Do("restore"), Do("restoreSent")>> \o Of("A", closeOut) \o Of("B", closeOut)

Plan(t) ==
  IF t = Crash THEN CrashPlan(CeilDiv(Worth, before.price)) ELSE Of(t, ScenarioPlan(t))

-----------------------------------------------------------------------------
(* Calls.  One the RPC rejects is sent again; one whose connection is reset or   *)
(* whose confirmation times out may have landed, and only the first of these     *)
(* two is sent again (RETRYABLE).  A scenario whose call fails otherwise, or whose *)
(* call is not in retry(), has failed.                                         *)

(* What a scenario awaits next.                                               *)
Awaits(t) ==
  IF main \in {"work", "pair"} /\ task[t].status = "run" /\ task[t].at \in DOMAIN Plan(t)
  THEN {Plan(t)[task[t].at]} ELSE {}
Advance(t) == task' = [task EXCEPT ![t].at = @ + 1]
Ends(t, status) == task' = [task EXCEPT ![t].status = status]
MayFail(kind) == kind \in Faults /\ faults < MaxFaults /\ faults' = faults + 1
Nothing == UNCHANGED <<vars, purse>>

Resends(t, Done) ==
  \/ MayFail("rejected") /\ Nothing /\ UNCHANGED task
  \/ MayFail("reset") /\ (Done \/ Nothing) /\ UNCHANGED task
GivesUp(t, Done) ==
  \/ MayFail("timeout") /\ (Done \/ Nothing) /\ Ends(t, "FAIL")
  \/ ~ENABLED Done /\ Nothing /\ Ends(t, "FAIL") /\ UNCHANGED faults

retry(t, Done) == Resends(t, Done)

Sends(t, Done) ==
  /\ \/ Done /\ Advance(t) /\ UNCHANGED faults
     \/ retry(t, Done)
     \/ GivesUp(t, Done)
  /\ UNCHANGED <<flow, note, crash_vars>>

SendsOnce(t, Done) ==
  /\ \/ Done /\ Advance(t) /\ UNCHANGED faults
     \/ MayFail("rejected") /\ Nothing /\ Ends(t, "FAIL")
     \/ MayFail("reset") /\ (Done \/ Nothing) /\ Ends(t, "FAIL")
     \/ GivesUp(t, Done)
  /\ UNCHANGED <<flow, note, crash_vars>>

expectError(t, Call) ==
  /\ \/ ~ENABLED Call /\ Nothing /\ Advance(t) /\ UNCHANGED faults
     \/ Call /\ UNCHANGED purse /\ Ends(t, "FAIL") /\ UNCHANGED faults
     \/ MayFail("rejected") /\ Nothing /\ UNCHANGED task
     \/ MayFail("reset") /\ (Nothing \/ (Call /\ UNCHANGED purse)) /\ UNCHANGED task
     \/ MayFail("timeout") /\ (Nothing \/ (Call /\ UNCHANGED purse)) /\ Ends(t, "FAIL")
  /\ UNCHANGED <<flow, note, crash_vars>>

expect(t, condition) ==
  /\ IF condition THEN Advance(t) ELSE Ends(t, "FAIL")
  /\ UNCHANGED <<vars, flow, purse, crash_vars, faults>>

-----------------------------------------------------------------------------
(* openPosition and closeOut *)

mintCollateral(t, op) ==
  /\ op.op = "mint"
  /\ Sends(t, /\ coll' = [coll EXCEPT ![op.w] = @ + op.n]
              /\ UNCHANGED <<vars, usdc, allowance>>)

deposit(t, op) ==
  /\ op.op = "deposit"
  /\ Sends(t, /\ coll[op.w] >= op.n /\ DepositCollateral(Pos(op.w), op.n, TRUE)
              /\ coll' = [coll EXCEPT ![op.w] = @ - op.n]
              /\ UNCHANGED <<usdc, allowance>>)

valueUsd6(t, op) ==
  /\ op.op = "value"
  /\ IF PriceUsable(Market)
       THEN /\ note' = [note EXCEPT ![op.w] =
                          [value |-> Value(Market, op.n), debt |-> 0, amount |-> op.n]]
            /\ Advance(t)
       ELSE Ends(t, "SKIP") /\ UNCHANGED note
  /\ UNCHANGED <<vars, flow, purse, crash_vars, faults>>

Loan(op) == (note[op.w].value * op.bps) \div BPS + op.plus - note[op.w].debt

borrow(t, op) ==
  /\ op.op = "borrow"
  /\ Sends(t, /\ Borrow(Pos(op.w), Loan(op))
              /\ usdc' = [usdc EXCEPT ![op.w] = @ + Loan(op)]
              /\ UNCHANGED <<coll, allowance>>)

checkOpen(t, op) ==
  LET w == op.w
      asked == Loan(Plan(t)[task[t].at - 1])
  IN  /\ op.op = "checkOpen"
      /\ expect(t, collateral_amount[Pos(w)] = note[w].amount /\ debt_principal[Pos(w)] = asked)
      /\ note' = [note EXCEPT ![w].debt = asked]

topUp(t, op) ==
  LET w == op.w
      p == Pos(w)
      elapsed == now - last_accrual_ts[p] + Room
      owed == debt_principal[p] + AccrueInterest(debt_principal[p], apr_bps[p], elapsed)
      shortfall == owed + Spare - usdc[w]
  IN  /\ op.op = "topUp"
      /\ Sends(t, /\ usdc' = [usdc EXCEPT ![w] = @ + IF shortfall > 0 THEN shortfall ELSE 0]
                  /\ UNCHANGED <<vars, coll, allowance>>)

RepayAllAmount(w) == U64Max
repayAll(t, op) ==
  LET w == op.w
      paid == PaidAmount(Pos(w), RepayAllAmount(w))
  IN  /\ op.op = "repayAll"
      /\ Sends(t, /\ usdc[w] >= paid /\ Repay(Pos(w), RepayAllAmount(w), TRUE)
                  /\ usdc' = [usdc EXCEPT ![w] = @ - paid]
                  /\ UNCHANGED <<coll, allowance>>)

checkRepaid(t, op) ==
  /\ op.op = "checkRepaid"
  /\ expect(t, debt_principal[Pos(op.w)] = 0)
  /\ UNCHANGED note

withdrawAll(t, op) ==
  LET w == op.w
      n == collateral_amount[Pos(w)]
  IN  /\ op.op = "withdrawAll"
      /\ Sends(t, IF n = 0 THEN Nothing
                  ELSE /\ WithdrawCollateral(Pos(w), n, TRUE)
                       /\ coll' = [coll EXCEPT ![w] = @ + n]
                       /\ UNCHANGED <<usdc, allowance>>)

checkBalance(t, op) ==
  LET w == op.w IN
  /\ op.op = "checkBalance"
  /\ expect(t, coll[w] = note[w].amount)
  /\ UNCHANGED note

-----------------------------------------------------------------------------
(* What the other scenarios add *)

noLoan(t, op) == op.op = "noLoan" /\ expectError(t, Borrow(Pos(op.w), Loan(op)))
noWithdrawal(t, op) ==
  op.op = "noWithdrawal" /\ expectError(t, WithdrawCollateral(Pos(op.w), op.n, TRUE))

withdrawSafe(t, op) ==
  LET w == op.w
      keep == CeilDiv(note[w].amount * ((note[w].debt * BPS) \div SafeLtv + 1), note[w].value)
      safe == note[w].amount - keep
  IN  /\ op.op = "withdrawSafe"
      /\ Sends(t, /\ safe > 0 /\ WithdrawCollateral(Pos(w), safe, TRUE)
                  /\ coll' = [coll EXCEPT ![w] = @ + safe]
                  /\ UNCHANGED <<usdc, allowance>>)

checkApr(t, op) ==
  LET w == op.w IN
  /\ op.op = "checkApr"
  /\ expect(t, apr_bps[Pos(w)] =
       SelectAprBps(market[Market].apr_bands, LtvBps(debt_principal[Pos(w)], note[w].value)))
  /\ UNCHANGED note

approve(t, op) ==
  /\ op.op = "approve"
  /\ Sends(t, /\ allowance' = [allowance EXCEPT ![op.w] = CardLimit]
              /\ UNCHANGED <<vars, coll, usdc>>)
purchase(t, op) ==
  LET w == op.w IN
  /\ op.op = "purchase"
  /\ SendsOnce(t, /\ allowance[w] >= Purchase /\ usdc[w] >= Purchase
                  /\ allowance' = [allowance EXCEPT ![w] = @ - Purchase]
                  /\ usdc' = [usdc EXCEPT ![w] = @ - Purchase]
                  /\ UNCHANGED <<vars, coll>>)
declined(t, op) ==
  op.op = "declined" /\ expect(t, allowance[op.w] < Purchase) /\ UNCHANGED note

(* The loan and the transfer of it are one transaction. *)
payout(t, op) ==
  /\ op.op = "payout"
  /\ SendsOnce(t, Borrow(Pos(op.w), Euros) /\ UNCHANGED purse)

wait(t, op) ==
  /\ op.op = "wait" /\ Tick /\ Advance(t)
  /\ UNCHANGED <<flow, note, purse, crash_vars, faults>>
repayHalf(t, op) ==
  LET w == op.w IN
  /\ op.op = "repayHalf"
  /\ Sends(t, Repay(Pos(w), note[w].debt \div 2, TRUE) /\ UNCHANGED purse)
checkHalf(t, op) ==
  LET w == op.w IN
  /\ op.op = "checkHalf"
  /\ expect(t, debt_principal[Pos(w)] < note[w].debt /\ debt_principal[Pos(w)] > 0)
  /\ UNCHANGED note
=============================================================================
