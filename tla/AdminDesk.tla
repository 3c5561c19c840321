------------------------------- MODULE AdminDesk -------------------------------
(***************************************************************************)
(* What the operator of the devnet runs on the program: the issuer guards      *)
(* (app/api/admin/guards/route.ts, lib/partners/xstocks.ts), the liquidation   *)
(* route (app/api/admin/liquidate/route.ts) and the page that lists positions  *)
(* at risk (app/admin/page.tsx).                                               *)
(***************************************************************************)
EXTENDS ListedMarket

CONSTANTS
  Runs,        \* guard runs at one time
  ListedLtv    \* by market, the max LTV of its row in config.ts

VARIABLES
  halted,   \* by market, what the issuer reports: a trading halt or a shortfall
  cache,    \* guards:xstocks, by market: halted and pausedOnChain
  job,      \* by guard run, what it is about to do and its local variables
  listed    \* the positions the page read from the chain

desk_vars == <<halted, cache, job, listed>>
all_vars == <<vars, desk_vars>>

Idle == [at |-> "idle"]
Clear == [halted |-> FALSE, pausedOnChain |-> FALSE]

-----------------------------------------------------------------------------
(* A run reads the cache, goes through the markets and saves what it found.     *)
(* A market whose issuer cannot be reached keeps its state.                    *)

Start(j) ==
  /\ job[j] = Idle
  /\ job' = [job EXCEPT ![j] = [at |-> "check", left |-> Markets, states |-> cache]]
  /\ UNCHANGED <<vars, halted, cache, listed>>

Found(j, m, state) ==
  [job[j] EXCEPT !.at = "check", !.left = @ \ {m}, !.states = [@ EXCEPT ![m] = state]]

checkGuards(j, m) ==
  LET wasPaused == job[j].states[m].pausedOnChain
  IN  /\ job[j].at = "check" /\ m \in job[j].left
      /\ job' = [job EXCEPT ![j] =
                   IF halted[m] = wasPaused
                   THEN Found(j, m, [halted |-> halted[m], pausedOnChain |-> wasPaused])
                   ELSE [at |-> "fetch", left |-> job[j].left, states |-> job[j].states,
                         m |-> m, shouldPause |-> halted[m]]]
      /\ UNCHANGED <<vars, halted, cache, listed>>

Unreachable(j, m) ==
  /\ job[j].at = "check" /\ m \in job[j].left
  /\ job' = [job EXCEPT ![j].left = @ \ {m}]
  /\ UNCHANGED <<vars, halted, cache, listed>>

FetchMarket(j) ==
  /\ job[j].at = "fetch"
  /\ job' = [job EXCEPT ![j] =
       [at |-> "send", left |-> @.left, states |-> @.states, m |-> @.m,
        shouldPause |-> @.shouldPause, found |-> market[@.m]]]
  /\ UNCHANGED <<vars, halted, cache, listed>>

Guarded(j) ==
  [job[j].found EXCEPT !.max_ltv_bps = IF job[j].shouldPause THEN 0 ELSE ListedLtv[job[j].m]]
Report(j, pausedOnChain) ==
  job' = [job EXCEPT ![j] =
    LET local == job[j]
    IN  [at |-> "check", left |-> local.left \ {local.m},
         states |-> [local.states EXCEPT ![local.m] =
                       [halted |-> local.shouldPause, pausedOnChain |-> pausedOnChain]]]]

(* The transaction is refused, or is lost, and the run reports the state before. *)
BelievesItPaused(j) ==
  /\ job[j].at = "send"
  /\ IF ENABLED UpdateMarket(job[j].m, Guarded(j))
     THEN UpdateMarket(job[j].m, Guarded(j))
     ELSE UNCHANGED vars
  /\ Report(j, job[j].shouldPause)
  /\ UNCHANGED <<halted, cache, listed>>
SendUpdate(j) ==
  /\ job[j].at = "send"
  /\ IF ENABLED UpdateMarket(job[j].m, Guarded(j))
     THEN UpdateMarket(job[j].m, Guarded(j)) /\ Report(j, job[j].shouldPause)
     ELSE UNCHANGED vars /\ Report(j, job[j].states[job[j].m].pausedOnChain)
  /\ UNCHANGED <<halted, cache, listed>>

SaveStates(j) ==
  /\ job[j].at = "check" /\ job[j].left = {}
  /\ cache' = job[j].states
  /\ job' = [job EXCEPT ![j] = Idle]
  /\ UNCHANGED <<vars, halted, listed>>

-----------------------------------------------------------------------------
(* The page.  A position's account names its market's address, which is derived *)
(* from the mint's; the page looks for a row whose mint's address it is.        *)

MarketKey(m) == <<"market", m>>
MintKey(m) == <<"mint", m>>

ReadPositions ==
  /\ listed' = opened
  /\ UNCHANGED <<vars, halted, cache, job>>

atRisk == {p \in listed : \E m \in Markets : MintKey(m) = MarketKey(p[1])}

(* The liquidation route, as an operator calls it. *)
PostLiquidate(p, repayUsd6) ==
  /\ repayUsd6 > 0 /\ Liquidate(p, repayUsd6)
  /\ UNCHANGED desk_vars

-----------------------------------------------------------------------------
IssuerReports(m) ==
  /\ halted' = [halted EXCEPT ![m] = ~@]
  /\ UNCHANGED <<vars, cache, job, listed>>

(* The owners use the program and the price signer posts. *)
Others ==
  /\ \/ \E p \in Positions, n \in TokenAmounts : DepositCollateral(p, n, TRUE)
     \/ \E p \in Positions, n \in Amounts : Borrow(p, n) \/ Repay(p, n, TRUE)
     \/ \E m \in Markets, q \in PostedPrices : SetSignedPrice(m, q[1], q[2])
  /\ UNCHANGED desk_vars

DeskOpens ==
  /\ halted = [m \in Markets |-> FALSE]
  /\ cache = [m \in Markets |-> Clear]
  /\ job = [j \in Runs |-> Idle]
  /\ listed = {}
DeskInit == ListedInit /\ DeskOpens

DeskNext ==
  \/ \E j \in Runs :
       \/ Start(j) \/ FetchMarket(j) \/ SendUpdate(j) \/ SaveStates(j)
       \/ \E m \in Markets : checkGuards(j, m) \/ Unreachable(j, m)
  \/ ReadPositions
  \/ \E p \in Positions, n \in Amounts : PostLiquidate(p, n)
  \/ \E m \in Markets : IssuerReports(m)
  \/ Others

DeskSpec == DeskInit /\ [][DeskNext]_all_vars

-----------------------------------------------------------------------------
(* Properties *)

(* "report the previous truth" (guards/route.ts:132): a market is shown as       *)
(* halted only if no loan can be taken in it.                                  *)
ChipIsTrue ==
  \A m \in Markets : cache[m].pausedOnChain =>
    \A p \in Positions : p[1] = m => \A n \in Amounts : ~ENABLED Borrow(p, n)

(* "LTV 0 blocks new borrows" (guards/route.ts:5): in a market a run found        *)
(* halted no loan can be taken.                                                *)
HaltStopsBorrowing ==
  \A m \in Markets : cache[m].halted =>
    \A p \in Positions : p[1] = m => \A n \in Amounts : ~ENABLED Borrow(p, n)
=============================================================================
