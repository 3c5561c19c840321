---------------------------------- MODULE Seed ----------------------------------
(***************************************************************************)
(* scripts/seed-devnet.ts: the script that creates the mints, the config,      *)
(* the markets, their prices, the pool's first deposit and the cashback        *)
(* treasury, and writes the addresses into app/.env.local.  It is run again    *)
(* when it stops half way.                                                     *)
(*                                                                         *)
(* A call to the chain is answered, is refused without effect, or times out    *)
(* after it landed; withRetry repeats it in the last two cases.  Amounts of    *)
(* dUSDC are in units of 500,000, treasuries in units of 1,000 tokens.         *)
(***************************************************************************)
EXTENDS Naturals, FiniteSets, SequencesExt

CONSTANTS
  Specs,         \* the symbols of SPECS, in order
  CashbackAssets,\* those a cashback treasury is kept for
  Selections,    \* what SEED_ONLY may select
  Faults,        \* what can go wrong: "stop", "refused", "late", "unread"
  MaxFaults,     \* how often, in all
  MaxRuns,       \* how often the operator runs the script
  MaxAttempts,   \* how often withRetry repeats a call
  None

SeedAssumption ==
  /\ Specs \in Seq(Range(Specs)) /\ IsInjective(Specs) /\ "dUSDC" \notin Range(Specs)
  /\ CashbackAssets \subseteq Range(Specs)
  /\ \A only \in Selections : only \subseteq Range(Specs)
  /\ None \notin [name : Range(Specs) \cup {"dUSDC"}, nth : Nat]  \* an address left open is no mint

Symbols == Range(Specs)
Usdc == "dUSDC"
Names == {Usdc} \cup Symbols
Foreign == [name |-> Usdc, nth |-> 0]   \* a USDC mint of another authority
PoolTarget == 4
PoolMint == 5

VARIABLES
  env,       \* app/.env.local: by name, the mint it gives, or None
  secrets,   \* whether the secrets have been written to it
  mints,     \* the mints on chain
  config,    \* the USDC mint of the config account, or None
  markets,   \* the mints that have a market
  price,     \* by mint, None or whose price is posted: "seed" or "live"
  vault,     \* dUSDC in the pool's vault
  wallet,    \* dUSDC of the admin
  treasury,  \* by mint, the balance of the cashback treasury
  shop,      \* whether the shop treasury's token account exists
  script,    \* the running script: its next step and its local variables
  faults, runs

chain == <<mints, config, markets, price, vault, wallet, treasury, shop>>
seed_vars == <<env, secrets, chain, script, faults, runs>>

Off == [at |-> "off"]
First(S) ==    \* in the order of SPECS
  Specs[CHOOSE i \in DOMAIN Specs : Specs[i] \in S /\ \A j \in 1 .. i - 1 : Specs[j] \notin S]
NewMint(name) ==
  [name |-> name, nth |-> 1 + Cardinality({m \in mints : m.name = name /\ m # Foreign})]
At(pc) == script.at = pc
GoWith(s, pc) == script' = [s EXCEPT !.at = pc, !.attempt = 0]
Goto(pc) == GoWith(script, pc)
Throw == script' = Off

-----------------------------------------------------------------------------
(* One call to the chain: Done is its effect when it lands, and the script      *)
(* goes on to pc.                                                            *)

MayFail(kind) == kind \in Faults /\ faults < MaxFaults /\ faults' = faults + 1
Again ==
  IF script.attempt < MaxAttempts
    THEN script' = [script EXCEPT !.attempt = @ + 1]
    ELSE Throw

Refused(untouched) == MayFail("refused") /\ Again /\ UNCHANGED untouched
withRetry(Done, untouched, pc) ==
  \/ Done /\ Goto(pc) /\ UNCHANGED faults
  \/ Done /\ MayFail("late") /\ Again
  \/ Refused(untouched)

(* A failed read of a balance is caught before withRetry sees it.              *)
BalanceUnread == MayFail("unread")

-----------------------------------------------------------------------------
Start(only) ==
  /\ script = Off /\ runs < MaxRuns
  /\ runs' = runs + 1
  /\ script' = [at |-> IF env[Usdc] = None THEN "createUsdc" ELSE "checkUsdc",
                attempt |-> 0, only |-> only, usdc |-> env[Usdc], mint |-> None,
                left |-> Symbols \cap only, assets |-> CashbackAssets]
  /\ UNCHANGED <<env, secrets, chain, faults>>

checkUsdc ==
  /\ At("checkUsdc")
  /\ \/ /\ Goto(IF script.usdc \in mints \ {Foreign} THEN "fetchConfig" ELSE "createUsdc")
        /\ UNCHANGED <<chain, faults>>
     \/ Refused(chain)
  /\ UNCHANGED <<env, secrets, runs>>

createUsdc ==
  /\ At("createUsdc")
  /\ LET made == NewMint(Usdc)
     IN  \/ /\ mints' = mints \cup {made}
            /\ GoWith([script EXCEPT !.usdc = made], "saveUsdc")
            /\ UNCHANGED faults
         \/ mints' = mints \cup {made} /\ MayFail("late") /\ Again
         \/ Refused(mints)
  /\ UNCHANGED <<env, secrets, config, markets, price, vault, wallet, treasury, shop, runs>>

upsertEnvFile(name, mint) == env' = [env EXCEPT ![name] = mint]

saveUsdc ==
  /\ At("saveUsdc")
  /\ upsertEnvFile(Usdc, script.usdc)
  /\ Goto("fetchConfig")
  /\ UNCHANGED <<secrets, chain, faults, runs>>

(* A broken variant, for the mutants. *)
AlwaysInits ==
  /\ At("fetchConfig") /\ Goto("initConfig")
  /\ UNCHANGED <<env, secrets, chain, faults, runs>>

fetchConfig ==
  /\ At("fetchConfig")
  /\ \/ Goto(IF config = None THEN "initConfig" ELSE "nextMarket") /\ UNCHANGED <<chain, faults>>
     \/ Refused(chain)
  /\ UNCHANGED <<env, secrets, runs>>

(* An account that exists already makes the transaction fail, and the script    *)
(* with it: the error is not one withRetry repeats.                             *)
initConfig ==
  /\ At("initConfig")
  /\ IF config # None
       THEN Throw /\ UNCHANGED <<config, faults>>
       ELSE withRetry(config' = script.usdc, config, "nextMarket")
  /\ UNCHANGED <<env, secrets, mints, markets, price, vault, wallet, treasury, shop, runs>>

-----------------------------------------------------------------------------
Symbol == First(script.left)

nextMarket ==
  /\ At("nextMarket")
  /\ IF script.left = {} THEN Goto("readVault")
     ELSE IF env[Symbol] = None THEN Goto("createMint")
     ELSE GoWith([script EXCEPT !.mint = env[Symbol]], "fetchMarket")
  /\ UNCHANGED <<env, secrets, chain, faults, runs>>

createMockMint ==
  /\ At("createMint")
  /\ LET made == NewMint(Symbol)
     IN  \/ /\ mints' = mints \cup {made}
            /\ GoWith([script EXCEPT !.mint = made], "saveMint")
            /\ UNCHANGED faults
         \/ mints' = mints \cup {made} /\ MayFail("late") /\ Again
         \/ Refused(mints)
  /\ UNCHANGED <<env, secrets, config, markets, price, vault, wallet, treasury, shop, runs>>

saveMint ==
  /\ At("saveMint")
  /\ upsertEnvFile(Symbol, script.mint)
  /\ Goto("fetchMarket")
  /\ UNCHANGED <<secrets, chain, faults, runs>>

fetchMarket ==
  /\ At("fetchMarket")
  /\ \/ Goto(IF script.mint \in markets THEN "postPrice" ELSE "addMarket") /\ UNCHANGED <<chain, faults>>
     \/ Refused(chain)
  /\ UNCHANGED <<env, secrets, runs>>

addMarket ==
  /\ At("addMarket")
  /\ IF script.mint \in markets
       THEN Throw /\ UNCHANGED <<markets, faults>>
       ELSE withRetry(markets' = markets \cup {script.mint}, markets, "postPrice")
  /\ UNCHANGED <<env, secrets, mints, config, price, vault, wallet, treasury, shop, runs>>

Posted(m, from) == [k \in DOMAIN price \cup {m} |-> IF k = m THEN from ELSE price[k]]

postPrice ==
  /\ At("postPrice")
  /\ \/ /\ price' = Posted(script.mint, "seed")
        /\ GoWith([script EXCEPT !.left = @ \ {Symbol}], "nextMarket")
        /\ UNCHANGED faults
     \/ price' = Posted(script.mint, "seed") /\ MayFail("late") /\ Again
     \/ Refused(price)
  /\ UNCHANGED <<env, secrets, mints, config, markets, vault, wallet, treasury, shop, runs>>

-----------------------------------------------------------------------------

readVault ==
  /\ At("readVault")
  /\ \/ Goto(IF vault < PoolTarget THEN "mintPool" ELSE "openShop") /\ UNCHANGED faults
     \/ BalanceUnread /\ Goto("mintPool")
  /\ UNCHANGED <<env, secrets, chain, runs>>

mintPool ==
  /\ At("mintPool")
  /\ withRetry(wallet' = wallet + PoolMint, wallet, "deposit")
  /\ UNCHANGED <<env, secrets, mints, config, markets, price, vault, treasury, shop, runs>>

deposit_savings ==
  /\ At("deposit")
  /\ IF script.usdc # config \/ wallet < PoolTarget
       THEN Throw /\ UNCHANGED <<vault, wallet, faults>>
       ELSE withRetry(vault' = vault + PoolTarget /\ wallet' = wallet - PoolTarget,
                      <<vault, wallet>>, "openShop")
  /\ UNCHANGED <<env, secrets, mints, config, markets, price, treasury, shop, runs>>

openShop ==
  /\ At("openShop")
  /\ withRetry(shop' = TRUE, shop, "readTreasury")
  /\ UNCHANGED <<env, secrets, mints, config, markets, price, vault, wallet, treasury, runs>>

Held(m) == IF m \in DOMAIN treasury THEN treasury[m] ELSE 0
Asset == First(script.assets)
AssetMint == env[Asset]

readTreasury ==
  /\ At("readTreasury")
  /\ \/ /\ IF script.assets = {} THEN Goto("writeSecrets")
           ELSE IF AssetMint = None THEN Throw
           ELSE IF Held(AssetMint) < 1 THEN Goto("mintTreasury")
           ELSE GoWith([script EXCEPT !.assets = @ \ {Asset}], "readTreasury")
        /\ UNCHANGED faults
     \/ /\ script.assets # {} /\ AssetMint # None
        /\ BalanceUnread /\ Goto("mintTreasury")
  /\ UNCHANGED <<env, secrets, chain, runs>>

MintedTo(m) == [k \in DOMAIN treasury \cup {m} |-> Held(k) + IF k = m THEN 1 ELSE 0]

mintTreasury ==
  /\ At("mintTreasury")
  /\ \/ /\ treasury' = MintedTo(AssetMint)
        /\ GoWith([script EXCEPT !.assets = @ \ {Asset}], "readTreasury")
        /\ UNCHANGED faults
     \/ treasury' = MintedTo(AssetMint) /\ MayFail("late") /\ Again
     \/ Refused(treasury)
  /\ UNCHANGED <<env, secrets, mints, config, markets, price, vault, wallet, shop, runs>>

writeSecrets ==
  /\ At("writeSecrets")
  /\ secrets' = TRUE
  /\ script' = Off
  /\ UNCHANGED <<env, chain, faults, runs>>

-----------------------------------------------------------------------------
(* The process stops between two steps.                                        *)
Stop ==
  /\ script # Off /\ MayFail("stop")
  /\ script' = Off
  /\ UNCHANGED <<env, secrets, chain, runs>>

(* The price signer and the pool's borrowers use what the script made.          *)
LivePrice(m) ==
  /\ m \in DOMAIN price /\ price[m] = "seed"
  /\ price' = Posted(m, "live")
  /\ UNCHANGED <<env, secrets, mints, config, markets, vault, wallet, treasury, shop, script, faults, runs>>

Borrowed ==
  /\ vault >= PoolTarget
  /\ vault' = vault - 1
  /\ UNCHANGED <<env, secrets, mints, config, markets, price, wallet, treasury, shop, script, faults, runs>>

Init ==
  /\ env \in {[n \in Names |-> None], [n \in Names |-> IF n = Usdc THEN Foreign ELSE None]}
  /\ secrets = FALSE /\ mints = {Foreign} /\ config = None /\ markets = {}
  /\ price = <<>> /\ vault = 0 /\ wallet = 0 /\ treasury = <<>> /\ shop = FALSE
  /\ script = Off /\ faults = 0 /\ runs = 0

Step ==
  \/ checkUsdc \/ createUsdc \/ saveUsdc \/ fetchConfig \/ initConfig
  \/ nextMarket \/ createMockMint \/ saveMint \/ fetchMarket \/ addMarket \/ postPrice
  \/ readVault \/ mintPool \/ deposit_savings \/ openShop
  \/ readTreasury \/ mintTreasury \/ writeSecrets
Others == Borrowed \/ \E m \in DOMAIN price : LivePrice(m)
Next == Step \/ Stop \/ Others \/ \E only \in Selections : Start(only)

Spec == Init /\ [][Next]_seed_vars

-----------------------------------------------------------------------------
(* A market or a config on chain is one app/.env.local names: a run that stops  *)
(* anywhere leaves nothing in use that the next run would create again         *)
(* ("Idempotent: skips mints/markets that already exist", line 4).             *)
ListedIsKnown ==
  /\ config # None => env[Usdc] = config
  /\ \A m \in markets : env[m.name] = m

(* When a run ends, every market it was asked for is listed and priced, and the *)
(* shop's and the cashback accounts are there, whatever runs before it left     *)
(* undone.                                                                   *)
ReadyAtEnd ==
  At("writeSecrets") =>
    /\ shop /\ config = script.usdc
    /\ \A s \in script.only : env[s] \in markets \cap DOMAIN price
    /\ \A s \in CashbackAssets : Held(env[s]) >= 1

(* Whatever failed before, running the script again ends in a seeded devnet.    *)
SeedConverges == <>secrets
=============================================================================
