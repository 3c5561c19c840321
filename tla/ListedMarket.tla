----------------------------- MODULE ListedMarket ------------------------------
(***************************************************************************)
(* Stockcard as the app finds it after seed-devnet (scripts/seed-devnet.ts):   *)
(* savings in the pool, the markets added and priced, nothing locked.          *)
(***************************************************************************)
EXTENDS Stockcard

CONSTANTS
  Funding,               \* what each saver has deposited
  FirstRisk, FirstPrice  \* the markets' parameters and price

(* add_market accepted the parameters, and the deposits were paid. *)
ASSUME ListedAssumption ==
  /\ FirstRisk \in RiskParams /\ ValidRiskParams(FirstRisk)
  /\ Funding \in U64 /\ Funding * Cardinality(Savers) \in 0 .. UsdcSupply
  /\ FirstPrice \in Nat
  /\ NoPrice # [price |-> FirstPrice, expo |-> -6, publish_time |-> 0]

ListedInit ==
  /\ paused = FALSE
  /\ total_borrowed = 0 /\ reserve = 0
  /\ shares = [s \in Savers |-> Funding]
  /\ total_shares = Funding * Cardinality(Savers)
  /\ usdc_vault = Funding * Cardinality(Savers)
  /\ market = [m \in Markets |-> FirstRisk]
  /\ total_collateral = [m \in Markets |-> 0]
  /\ collateral_vault = [m \in Markets |-> 0]
  /\ signed_price = [m \in Markets |-> [price |-> FirstPrice, expo |-> -6, publish_time |-> 0]]
  /\ opened = {}
  /\ collateral_amount = [p \in Positions |-> 0]
  /\ debt_principal = [p \in Positions |-> 0]
  /\ last_accrual_ts = [p \in Positions |-> 0]
  /\ apr_bps = [p \in Positions |-> 0]
  /\ now = 0
  /\ mint \in [Markets -> {s \in MintSettings : ~s.blocked /\ ~s.frozen}]
  /\ clawed_back = [m \in Markets |-> 0]
=============================================================================
