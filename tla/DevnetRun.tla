------------------------------- MODULE DevnetRun -------------------------------
(***************************************************************************)
(* The run around the scenarios of scripts/devnet-wallets.ts: keys, funding,    *)
(* workers, the crash pair with its Ctrl-C handler, and the sweep.              *)
(***************************************************************************)
EXTENDS DevnetScenarios

-----------------------------------------------------------------------------
(* The price's transactions.  The script sends one and awaits it; it may land    *)
(* after the script stopped waiting.                                           *)

Sent(tx) == price_tx[tx] = "sent"
Resolved(tx) == price_tx[tx] \in {"done", "lost"}
SendTx(tx) == price_tx' = [price_tx EXCEPT ![tx] = "sent"]
CrashPrice == (before.price * 6) \div 10

Lands(tx) ==
  /\ Sent(tx)
  /\ SetSignedPrice(Market, IF tx = "crash" THEN CrashPrice ELSE before.price, -6)
  /\ source' = IF tx = "crash" THEN "demo" ELSE "market"
  /\ price_tx' = [price_tx EXCEPT ![tx] = "done"]
  /\ UNCHANGED <<flow, task, note, purse, before, crashed, restored, signal, faults>>

LosesTx(tx) ==
  /\ Sent(tx) /\ MayFail("lost " \o tx)
  /\ price_tx' = [price_tx EXCEPT ![tx] = "lost"]
  /\ UNCHANGED <<vars, flow, task, note, purse, source, before, crashed, restored, signal>>

-----------------------------------------------------------------------------
(* runCrash *)

priceView(t, op) ==
  /\ op.op = "view"
  /\ before' = [price |-> PriceUsd6(Market), source |-> source, usable |-> PriceUsable(Market)]
  /\ Advance(t)
  /\ UNCHANGED <<vars, flow, note, purse, source, crashed, restored, signal, price_tx, faults>>

Ours(p) == p \in {Pos("A"), Pos("B")}
Exposed == {p \in opened : p[1] = Market /\ ~Ours(p) /\ debt_principal[p] > 0}

checkExposed(t, op) ==
  /\ op.op = "exposed"
  /\ IF Exposed = {} /\ before.source = "market" /\ before.usable
       THEN Advance(t) ELSE Ends(t, "SKIP")
  /\ UNCHANGED <<vars, flow, note, purse, crash_vars, faults>>

CloseMax == MaxRepay(debt_principal[Pos("A")])
noLiquidation(t, op) ==
  LET amount == IF op.n = "over" THEN CloseMax + 1 ELSE 1
  IN  /\ op.op = "noLiquidation"
      /\ expectError(t, Liquidate(Pos(op.w), amount))

sendCrash(t, op) ==
  /\ op.op = "crash"
  /\ crashed' = TRUE
  /\ SendTx("crash") /\ Advance(t)
  /\ UNCHANGED <<vars, flow, note, purse, source, before, restored, signal, faults>>

AwaitsPrice(t, tx) ==
  \/ price_tx[tx] = "done" /\ Advance(t) /\ UNCHANGED faults
  \/ price_tx[tx] = "lost" /\ Ends(t, "FAIL") /\ UNCHANGED faults
  \/ price_tx[tx] = "done" /\ MayFail("timeout") /\ Ends(t, "FAIL")

crashSent(t, op) ==
  /\ op.op = "crashSent" /\ AwaitsPrice(t, "crash")
  /\ UNCHANGED <<vars, flow, note, purse, crash_vars>>

checkSunk(t, op) ==
  /\ op.op = "checkSunk"
  /\ expect(t, AboveLiqThreshold(Market, note["A"].amount, note["A"].debt))
  /\ UNCHANGED note

liquidateMax(t, op) ==
  /\ op.op = "liquidate"
  /\ Sends(t, Liquidate(Pos("A"), CloseMax) /\ UNCHANGED purse)

checkSaved(t, op) ==
  LET p == Pos("A") IN
  /\ op.op = "checkSaved"
  /\ expect(t, /\ debt_principal[p] < note["A"].debt /\ collateral_amount[p] < note["A"].amount
               /\ Ltv(Market, collateral_amount[p], debt_principal[p])
                    < market[Market].liq_threshold_bps)
  /\ note' = [note EXCEPT !["A"].amount = collateral_amount[p]]

(* restore(): whoever calls it first sends the transaction.                     *)
MustRestore == crashed /\ ~restored
restore ==
  IF MustRestore
  THEN restored' = TRUE /\ SendTx("restore")
  ELSE UNCHANGED <<restored, price_tx>>

restoreStep(t, op) ==
  /\ op.op = "restore"
  /\ restore
  /\ task' = [task EXCEPT ![t].at = @ + IF MustRestore THEN 1 ELSE 2]
  /\ UNCHANGED <<vars, flow, note, purse, source, before, crashed, signal, faults>>
restoreSent(t, op) ==
  /\ op.op = "restoreSent" /\ AwaitsPrice(t, "restore")
  /\ UNCHANGED <<vars, flow, note, purse, crash_vars>>

Finally ==
  /\ main = "pair"
  /\ task[Crash].status # "run" \/ task[Crash].at > Len(Plan(Crash))
  /\ restore
  /\ main' = "restoring"
  /\ UNCHANGED <<vars, saved, sol, queue, task, note, purse, source, before, crashed, signal, faults>>
PairDone ==
  /\ main = "restoring" /\ ~Sent("restore")
  /\ main' = "sweep" /\ queue' = Ids
  /\ task' = [task EXCEPT ![Crash].status = IF @ = "run" THEN "PASS" ELSE @]
  /\ UNCHANGED <<vars, saved, sol, note, purse, crash_vars, faults>>

(* Ctrl-C.  While runCrash is on, its handler restores the price first; the      *)
(* script goes on until the process exits.  Pressed while the crash is in flight, *)
(* a kind of failure of its own, the restore may land before it.                 *)
Interrupt ==
  /\ main # "exited" /\ signal = "none"
  /\ MayFail(IF Sent("crash") THEN "interrupted crash" ELSE "interrupt")
  /\ IF main \in {"pair", "restoring"}
       THEN /\ restore
            /\ IF MustRestore THEN signal' = "handled" /\ UNCHANGED main
                              ELSE main' = "exited" /\ UNCHANGED signal
       ELSE main' = "exited" /\ UNCHANGED <<restored, price_tx, signal>>
  /\ UNCHANGED <<vars, saved, sol, queue, task, note, purse, source, before, crashed>>
ExitOnSignal ==
  /\ signal = "handled" /\ main # "exited" /\ Resolved("restore")
  /\ main' = "exited"
  /\ UNCHANGED <<vars, saved, sol, queue, task, note, purse, crash_vars, faults>>

-----------------------------------------------------------------------------
(* Keys, funding, workers, sweep *)

FirstBatch == {queue[i] : i \in DOMAIN queue \cap 1 .. Batch}

FundsFirst ==
  /\ main = "save"
  /\ sol' = FirstBatch
  /\ queue' = SelectSeq(queue, LAMBDA w : w \notin FirstBatch)
  /\ main' = "fund"
  /\ UNCHANGED <<vars, saved, task, note, purse, crash_vars, faults>>
SaveKeys ==
  /\ main = "save"
  /\ saved' = Wallets
  /\ main' = "fund"
  /\ UNCHANGED <<vars, sol, queue, task, note, purse, crash_vars, faults>>

(* One transaction for each batch; a failed one ends the script.                *)
Fund ==
  /\ main = "fund"
  /\ IF queue = <<>>
       THEN main' = "work" /\ queue' = Scenarios /\ UNCHANGED <<sol, faults>>
       ELSE \/ /\ sol' = sol \cup FirstBatch
               /\ queue' = SelectSeq(queue, LAMBDA w : w \notin FirstBatch)
               /\ UNCHANGED <<main, faults>>
            \/ MayFail("timeout") /\ main' = "exited" /\ UNCHANGED <<sol, queue>>
  /\ UNCHANGED <<vars, saved, task, note, purse, crash_vars>>

Running == {t \in Tasks \ {Crash} :
              task[t].status = "run" /\ task[t].at \in DOMAIN Plan(t)}
TakeScenario ==
  /\ main = "work" /\ queue # <<>> /\ Cardinality(Running) < Concurrency
  /\ task' = [task EXCEPT ![Head(queue)].at = 1]
  /\ queue' = Tail(queue)
  /\ UNCHANGED <<vars, main, saved, sol, note, purse, crash_vars, faults>>
EndScenario(t) ==
  /\ main = "work" /\ t # Crash
  /\ task[t].status = "run" /\ task[t].at > Len(Plan(t))
  /\ Ends(t, "PASS")
  /\ UNCHANGED <<vars, flow, note, purse, crash_vars, faults>>

WorkDone ==
  /\ main = "work" /\ queue = <<>>
  /\ \A t \in Tasks \ {Crash} : task[t].status # "run"
  /\ main' = IF WantCrash THEN "pair" ELSE "sweep"
  /\ queue' = IF WantCrash THEN <<>> ELSE Ids
  /\ task' = IF WantCrash THEN [task EXCEPT ![Crash].at = 1] ELSE task
  /\ UNCHANGED <<vars, saved, sol, note, purse, crash_vars, faults>>

(* A wallet that cannot be swept is reported and keeps its SOL.                 *)
Sweep ==
  /\ main = "sweep" /\ queue # <<>>
  /\ \/ sol' = sol \ {Head(queue)} /\ UNCHANGED faults
     \/ MayFail("timeout") /\ UNCHANGED sol
  /\ queue' = Tail(queue)
  /\ UNCHANGED <<vars, main, saved, task, note, purse, crash_vars>>
Exit ==
  /\ main = "sweep" /\ queue = <<>>
  /\ main' = "exited"
  /\ UNCHANGED <<vars, saved, sol, queue, task, note, purse, crash_vars, faults>>

-----------------------------------------------------------------------------
(* Other owners use the market, and the price signer posts where no demo price   *)
(* is in force.                                                              *)
Others ==
  /\ \/ /\ \E u \in Users, n \in TokenAmounts : DepositCollateral(Pos(u), n, TRUE)
        /\ UNCHANGED source
     \/ \E u \in Users, n \in Amounts : Borrow(Pos(u), n) /\ UNCHANGED source
     \/ \E u \in Users : Repay(Pos(u), U64Max, TRUE) /\ UNCHANGED source
     \/ /\ source = "market"
        /\ \E q \in PostedPrices : SetSignedPrice(Market, q[1], q[2])
        /\ UNCHANGED source
  /\ UNCHANGED <<flow, task, note, purse, before, crashed, restored, signal, price_tx, faults>>

RunInit ==
  /\ ListedInit
  /\ main = "save" /\ saved = {} /\ sol = {} /\ queue = Ids
  /\ task = [t \in Tasks |-> [at |-> 0, status |-> "run"]]
  /\ note = [w \in Wallets |-> [value |-> 0, debt |-> 0, amount |-> 0]]
  /\ coll = [w \in Wallets |-> 0] /\ usdc = [w \in Wallets |-> 0]
  /\ allowance = [w \in Wallets |-> 0]
  /\ source \in FirstSources
  /\ before = [price |-> FirstPrice, source |-> "market", usable |-> TRUE]
  /\ crashed = FALSE /\ restored = FALSE /\ signal = "none"
  /\ price_tx = [tx \in {"crash", "restore"} |-> "none"]
  /\ faults = 0

ScenarioStep(t, op) ==
  \/ mintCollateral(t, op) \/ deposit(t, op) \/ valueUsd6(t, op) \/ borrow(t, op) \/ checkOpen(t, op)
  \/ topUp(t, op) \/ repayAll(t, op) \/ checkRepaid(t, op) \/ withdrawAll(t, op) \/ checkBalance(t, op)
  \/ noLoan(t, op) \/ noWithdrawal(t, op) \/ withdrawSafe(t, op) \/ checkApr(t, op)
  \/ approve(t, op) \/ purchase(t, op) \/ declined(t, op) \/ payout(t, op)
  \/ wait(t, op) \/ repayHalf(t, op) \/ checkHalf(t, op)
CrashStep(t, op) ==
  \/ priceView(t, op) \/ checkExposed(t, op) \/ noLiquidation(t, op) \/ sendCrash(t, op) \/ crashSent(t, op)
  \/ checkSunk(t, op) \/ liquidateMax(t, op) \/ checkSaved(t, op) \/ restoreStep(t, op) \/ restoreSent(t, op)

RunNext ==
  \/ SaveKeys \/ Fund \/ TakeScenario \/ WorkDone \/ Sweep \/ Exit
  \/ \E t \in Tasks : EndScenario(t) \/ \E op \in Awaits(t) : ScenarioStep(t, op) \/ CrashStep(t, op)
  \/ Finally \/ PairDone \/ Interrupt \/ ExitOnSignal
  \/ \E tx \in {"crash", "restore"} : Lands(tx) \/ LosesTx(tx)
  \/ Others

RunSpec == RunInit /\ [][RunNext]_run_vars

-----------------------------------------------------------------------------
(* Properties *)

(* "Save the throwaway keys before funding, so a crash or a rate-limited sweep   *)
(* never strands SOL or leaves a position nobody can close" (line 567): a        *)
(* wallet that holds SOL or a position is in the key file.                      *)
NothingStranded ==
  \A w \in Wallets :
    w \in sol \/ collateral_amount[Pos(w)] > 0 \/ debt_principal[Pos(w)] > 0 => w \in saved

(* "A PASS means the program and the app agree" (line 4): a scenario passes with *)
(* its position closed and all its collateral back.                            *)
PassIsClosed ==
  \A t \in Tasks : task[t].status = "PASS" =>
    \A w \in IF t = Crash THEN Pair ELSE {t} :
      /\ debt_principal[Pos(w)] = 0 /\ collateral_amount[Pos(w)] = 0
      /\ coll[w] = note[w].amount

(* In a market at rest every scenario passes, whatever the order of the workers: *)
(* what each expects is what the program does.                                 *)
AllPass == main \in {"sweep", "exited"} => \A t \in Tasks : task[t].status = "PASS"

(* "Retry only when the request provably wasn't processed ... A confirmation       *)
(* timeout is ambiguous: never retried" (lines 136 to 138): no wallet owes more    *)
(* than its scenario borrowed.  A time-out keeps to that; a connection that is     *)
(* reset is as ambiguous, but RETRYABLE (line 140) names it, and the borrow that    *)
(* has landed is sent again.                                                   *)
BorrowedOnce ==
  \A w \in Wallets : debt_principal[Pos(w)] > 0 =>
    \E t \in Tasks : \E i \in DOMAIN Plan(t) :
      /\ Plan(t)[i].op = "borrow" /\ Plan(t)[i].w = w
      /\ debt_principal[Pos(w)] <= (note[w].value * Plan(t)[i].bps) \div BPS

(* "restores the price in `finally` and on Ctrl-C" (line 17): once the script has *)
(* exited and its transactions have settled, the crash price is not in force.   *)
PriceRestored ==
  main = "exited" /\ crashed /\ ~Sent("crash") /\ ~Sent("restore") => source = "market"
=============================================================================
