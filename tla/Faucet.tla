-------------------------------- MODULE Faucet ---------------------------------
(***************************************************************************)
(* POST /api/faucet (app/api/faucet/route.ts) over KvStore: test money,        *)
(* FirstClaim once per wallet and Daily every 24 h after it.  One wallet.      *)
(* Time is in a unit of which a day is several.                                *)
(***************************************************************************)
EXTENDS KvStore, FiniteSets

CONSTANTS
  Requests,    \* claims being served at one time
  Sigs,        \* the signatures of the mint transactions: bounds the claims
  FirstClaim,  \* 100_000 dUSDC
  Daily,       \* 10_000 dUSDC
  Day,         \* 24 h
  Ttl,         \* 30 days
  MaxTime,     \* bound: how late it may get
  Timeouts,    \* whether confirmTransaction may give up
  Stops        \* whether the server process may stop

faucetKey == <<"faucet">>

(* A FaucetState; everClaimed stands for firstClaimAt, which is only tested.    *)
States == [everClaimed : BOOLEAN, windowStart : Nat, claimed : Nat]

FaucetAssumption ==
  /\ Clients = Requests /\ faucetKey \in Keys
  /\ FirstClaim \in Nat /\ Daily \in 1..FirstClaim
  /\ Day \in Nat /\ Ttl \in Nat /\ Ttl > Day
  /\ NoEntry \notin [state : States, born : Nat]

VARIABLES
  req,   \* by request, what it is doing and its local variables
  txs,   \* by signature, the mint transaction
  ata,   \* the wallet has a dUSDC account
  now

vars == <<kv_vars, req, txs, ata, now>>

IdleReq == [at |-> "idle"]
Unsent  == [state |-> "unsent"]

At(r, place) == req[r].at = place /\ Settled(r)
Goto(r, state) == req' = [req EXCEPT ![r] = state]
GotoWith(r, state) == Goto(r, state) /\ UNCHANGED kv_vars
Moved(r, place) == [req[r] EXCEPT !.at = place]

-----------------------------------------------------------------------------
NewState == [everClaimed |-> FALSE, windowStart |-> now, claimed |-> 0]

KeepsClaimed(s) ==
  IF now - s.windowStart > Day THEN [s EXCEPT !.windowStart = now] ELSE s
Refilled(s) ==
  IF now - s.windowStart > Day THEN [s EXCEPT !.windowStart = now, !.claimed = 0] ELSE s

FaucetState ==
  Refilled(IF kvGet(faucetKey) = NoEntry THEN NewState ELSE kvGet(faucetKey).state)

Amount(s) == IF s.everClaimed THEN Daily ELSE FirstClaim
RateLimited(s) == s.everClaimed /\ s.claimed >= Daily

Claim(r) ==
  /\ At(r, "idle")
  /\ GotoWith(r, IF RateLimited(FaucetState)
                 THEN [at |-> "refused"]
                 ELSE [at |-> "minting", state |-> FaucetState, asked |-> now])
  /\ UNCHANGED <<txs, ata, now>>

AnswerRefused(r) ==
  /\ At(r, "refused")
  /\ GotoWith(r, IdleReq) /\ UNCHANGED <<txs, ata, now>>

ensureAta(r) ==
  /\ At(r, "minting")
  /\ GotoWith(r, [at |-> "sending", state |-> req[r].state, asked |-> req[r].asked,
                  create |-> ~ata])
  /\ UNCHANGED <<txs, ata, now>>

(* The create instruction is not the idempotent one: it fails on an account    *)
(* that is there, in sendRawTransaction's simulation or when it executes.      *)
Send(r, s) ==
  /\ At(r, "sending") /\ txs[s] = Unsent
  /\ IF req[r].create /\ ata
     THEN GotoWith(r, IdleReq) /\ UNCHANGED txs
     ELSE /\ txs' = [txs EXCEPT ![s] =
                       [state |-> "sent", amount |-> Amount(req[r].state),
                        create |-> req[r].create, asked |-> req[r].asked]]
          /\ GotoWith(r, [at |-> "confirming", state |-> req[r].state,
                          asked |-> req[r].asked, sig |-> s])
  /\ UNCHANGED <<ata, now>>

ConfirmTransaction(r) ==
  /\ At(r, "confirming")
  /\ \/ /\ txs[req[r].sig].state \in {"ok", "failed"}
        /\ GotoWith(r, Moved(r, "saving"))
     \/ Timeouts /\ GotoWith(r, IdleReq)
  /\ UNCHANGED <<txs, ata, now>>

Save(r) ==
  /\ At(r, "saving")
  /\ LET s == req[r].state
         after == [s EXCEPT !.everClaimed = TRUE, !.claimed = @ + Amount(s)]
     IN  Await(r, kvSet(faucetKey, [state |-> after, born |-> now]))
  /\ Goto(r, Moved(r, "answering"))
  /\ UNCHANGED <<txs, ata, now>>

AnswerClaimed(r) ==
  /\ At(r, "answering")
  /\ GotoWith(r, IdleReq) /\ UNCHANGED <<txs, ata, now>>

-----------------------------------------------------------------------------
(* The chain, the clock, and what may happen to a request. *)

Execute(s) ==
  /\ txs[s].state = "sent"
  /\ IF txs[s].create /\ ata
     THEN txs' = [txs EXCEPT ![s].state = "failed"] /\ UNCHANGED ata
     ELSE txs' = [txs EXCEPT ![s].state = "ok"] /\ ata' = TRUE
  /\ UNCHANGED <<kv_vars, req, now>>

(* Anybody may open the wallet's account, at any time.                         *)
OpenAccount ==
  /\ ~ata /\ ata' = TRUE
  /\ UNCHANGED <<kv_vars, req, txs, now>>

Tick ==
  /\ now < MaxTime /\ now' = now + 1
  /\ store' = [store EXCEPT ![faucetKey] =
                 IF @ # NoEntry /\ now' >= @.born + Ttl THEN NoEntry ELSE @]
  /\ UNCHANGED <<todo, doc, req, txs, ata>>

Stop(r) ==
  /\ Stops /\ (req[r] # IdleReq \/ ~Settled(r))
  /\ Abandon(r) /\ Goto(r, IdleReq)
  /\ UNCHANGED <<txs, ata, now>>

StoreActs(r) == KvStep(r) /\ UNCHANGED <<req, txs, ata, now>>

-----------------------------------------------------------------------------
FaucetInit ==
  /\ txs = [s \in Sigs |-> Unsent]
  /\ ata = FALSE
  /\ now = 0

Init == KvInit /\ req = [r \in Requests |-> IdleReq] /\ FaucetInit

Next ==
  \/ \E r \in Requests :
       \/ Claim(r) \/ AnswerRefused(r) \/ ensureAta(r)
       \/ \E s \in Sigs : Send(r, s)
       \/ ConfirmTransaction(r) \/ Save(r) \/ AnswerClaimed(r)
       \/ StoreActs(r) \/ Stop(r)
  \/ \E s \in Sigs : Execute(s)
  \/ OpenAccount \/ Tick

Spec == Init /\ [][Next]_vars

-----------------------------------------------------------------------------
(* Properties *)

Given == {s \in Sigs : txs[s].state = "ok"}

(* "then up to 10,000 dUSDC per 24 h" (parameters.md:328): no two claims that    *)
(* were granted were asked for within a day of each other.                     *)
OncePerDay ==
  \A s, t \in Given :
    s # t => \/ txs[s].asked > txs[t].asked + Day
             \/ txs[t].asked > txs[s].asked + Day

Refusal == \E r \in Requests : req[r].at = "idle" /\ req'[r].at = "refused"
ClaimedWithinDay == \E s \in Sigs : txs[s] # Unsent /\ now <= txs[s].asked + Day

(* A wallet is refused only when it claimed within the last day: whatever races *)
(* with what, the faucet opens again.                                          *)
RefusedWithinDay == [][Refusal => ClaimedWithinDay]_vars
=============================================================================
