----------------------------- MODULE PriceSources -----------------------------
(***************************************************************************)
(* Where the readings of the price signer come from: the pre-IPO providers       *)
(* (app/src/lib/prices/preipo.ts), xStocks, Backpack and Jupiter               *)
(* (readSources of lib/prices/signer.ts), and the run that decides each market   *)
(* on them (app/api/prices/sync).  Any of the services may be down, may leave a  *)
(* price out, or may answer one of two requests.  One run reads them at one      *)
(* moment.                                                                    *)
(***************************************************************************)
EXTENDS PriceSigner, FiniteSetsExt

CONSTANTS
  Provider,        \* PREIPO_ASSETS: by pre-IPO symbol, its provider
  Stocks,          \* the xStocks; every other symbol is Backpack's SPCX
  Signed,          \* SIGNED_SYMBOLS
  Rows,            \* by provider, what it may publish of a symbol: [mark, token]
  Quotes,          \* prices the other services may give; 0: none
  Liquidity, Ages, \* what Jupiter may report, and the age of its data on a stock
  Flags,           \* what a trading flag may be: a boolean or Unknown
  Changing,        \* the services that change
  Down,            \* the answer of a service that is down
  None

PreIpo == DOMAIN Provider
Providers == {"tessera", "prestocks"}

SourcesAssumption ==
  /\ Provider \in [PreIpo -> Providers] /\ Stocks \subseteq Signed \ PreIpo
  /\ PreIpo \subseteq Signed /\ "SPCX" \notin PreIpo \cup Stocks
  /\ Signed \subseteq PreIpo \cup Stocks \cup {"SPCX"}
  /\ Quotes \subseteq Nat /\ Liquidity \subseteq Nat /\ None \notin Nat
  /\ \A p \in Providers: Rows[p] \subseteq [mark: Nat, token: Nat]

VARIABLES
  partner,   \* by provider: Down, or what it publishes, by symbol
  issuer,    \* by xStock, its price (0: none), openNow and halt at the issuer, and
             \* whether the request that tells those two is answered
  backpack,  \* SPCX at Backpack; 0: no price, or down
  jupiter,   \* by symbol, [price, liquidity, stockAge]; 0: no price, or down
  pyth,      \* by symbol, Pyth's usable price (0: none) and what its calendar says
  posted     \* by symbol, priceE6 of the SignedPrice

source_vars == <<partner, issuer, backpack, jupiter, pyth>>
vars == <<source_vars, posted>>

Owned(p) == {s \in PreIpo: Provider[s] = p}

-----------------------------------------------------------------------------
(* The pre-IPO providers.                                                      *)

MarkOnly(mark, token) == IF mark > 0 THEN mark ELSE None
conservativePrice(mark, token) ==
  LET usable == {n \in {mark, token}: n > 0}
  IN  IF usable = {} THEN None ELSE Min(usable)

(* fetchTessera and fetchPreStocks: a row without a usable price is left out.     *)
Fetch(p) ==
  LET price(s) == conservativePrice(partner[p][s].mark, partner[p][s].token)
      kept     == {s \in DOMAIN partner[p]: price(s) # None}
  IN  [s \in kept |-> price(s)]

Nothing == [s \in {} |-> 0]
Caught(p)       == IF partner[p] = Down THEN Nothing ELSE Fetch(p)

Listed(s)  == s \in PreIpo /\ s \in DOMAIN Caught(Provider[s])
readPreIpo == [s \in {t \in Signed: Listed(t)} |-> Caught(Provider[s])[s]]

-----------------------------------------------------------------------------
(* The readings.  A request that fails gives no price, and no flag either.        *)

Reading(s, primary, open, stopped) ==
  [primary |-> primary, jupiter |-> jupiter[s].price,
   liquidity |-> jupiter[s].liquidity, stockAge |-> jupiter[s].stockAge,
   pyth |-> pyth[s].price, pythAge |-> 0, pythConf |-> 0, open |-> open, halted |-> stopped]

fetchXStocks(s) ==
  LET x == issuer[s]
  IN  [price |-> x.price, open |-> IF x.answers THEN x.open ELSE Unknown,
       halted |-> x.answers /\ x.halted]

readSource(s) ==
  IF s \in DOMAIN readPreIpo THEN Reading(s, readPreIpo[s], Unknown, FALSE)
  ELSE IF s = "SPCX" THEN Reading(s, backpack, Unknown, FALSE)
  ELSE IF s \in PreIpo THEN Reading(s, 0, pyth[s].open, FALSE) \* xStocks does not know it
  ELSE LET x == fetchXStocks(s)
           pythOpen == pyth[s].open
       IN  Reading(s, x.price, IF pythOpen # Unknown THEN pythOpen ELSE x.open, x.halted)

(* One run of the route, for a market without a demo override.                   *)
Decision(s) == decide(readSource(s), "market")

Sync ==
  /\ posted' = [s \in Signed |-> LET d == Decision(s) IN
                                 IF d = Skip THEN posted[s] ELSE d.priceE6]
  /\ UNCHANGED source_vars

-----------------------------------------------------------------------------
(* The services.                                                              *)

Answers == [price: Quotes, open: Flags, halted: BOOLEAN, answers: BOOLEAN]

PartnerChanges(p) ==
  /\ \E a \in [Owned(p) -> Rows[p]] \cup {Down}: partner' = [partner EXCEPT ![p] = a]
  /\ UNCHANGED <<issuer, backpack, jupiter, pyth, posted>>

IssuerChanges(s) ==
  /\ \E a \in Answers: issuer' = [issuer EXCEPT ![s] = a]
  /\ UNCHANGED <<partner, backpack, jupiter, pyth, posted>>

BackpackChanges ==
  /\ backpack' \in Quotes /\ UNCHANGED <<partner, issuer, jupiter, pyth, posted>>

JupiterChanges(s) ==
  /\ \E q \in Quotes, l \in Liquidity, a \in Ages:
       jupiter' = [jupiter EXCEPT ![s] = [price |-> q, liquidity |-> l, stockAge |-> a]]
  /\ UNCHANGED <<partner, issuer, backpack, pyth, posted>>

PythChanges(s) ==
  /\ \E q \in Quotes, o \in Flags: pyth' = [pyth EXCEPT ![s] = [price |-> q, open |-> o]]
  /\ UNCHANGED <<partner, issuer, backpack, jupiter, posted>>

-----------------------------------------------------------------------------
Init ==
  /\ partner = [p \in Providers |-> Down]
  /\ issuer = [s \in Stocks |-> [price |-> 0, open |-> Unknown, halted |-> FALSE,
                             answers |-> FALSE]]
  /\ backpack = 0
  /\ jupiter = [s \in Signed |-> [price |-> 0, liquidity |-> 0, stockAge |-> Unknown]]
  /\ pyth = [s \in Signed |-> [price |-> 0, open |-> Unknown]]
  /\ posted = [s \in Signed |-> 0]

Next == \/ Sync
        \/ \E p \in Providers \cap Changing: PartnerChanges(p)
        \/ "xstocks" \in Changing /\ \E s \in Stocks: IssuerChanges(s)
        \/ "backpack" \in Changing /\ BackpackChanges
        \/ "jupiter" \in Changing /\ \E s \in Signed: JupiterChanges(s)
        \/ "pyth" \in Changing /\ \E s \in Stocks: PythChanges(s)

Spec == Init /\ [][Next]_vars

-----------------------------------------------------------------------------
Published(s) == IF s \in PreIpo /\ partner[Provider[s]] # Down
                THEN {partner[Provider[s]][s].mark, partner[Provider[s]][s].token} \ {0}
                ELSE {}

(* "Lend against NAV, never against the premium" (preipo.ts:52, parameters.md:82) is   *)
(* true of the primary price, the lower of the two, and not of the price posted: that   *)
(* is its mean with Jupiter's, which includes the premium.  What holds is a bound: the  *)
(* premium moves the price lent against by no more than half the limit that sources     *)
(* may differ by, to half a basis point and half a unit of rounding, whatever Jupiter   *)
(* says (signer.ts:173 to 181).                                                  *)
PremiumIsBounded ==
  \A s \in PreIpo: LET d == Decision(s) IN
    d # Skip => /\ Published(s) # {}
                /\ (2 * d.priceE6 - 1) * (40000 - (2 * AgreementBps + 1))
                     <= 80000 * PriceScale * Min(Published(s))

(* A provider that answers is read, also while the other one is down                 *)
(* (preipo.ts:113 to 131).                                                       *)
LiveProviderIsRead ==
  \A s \in PreIpo:
    Published(s) # {} => readSource(s).primary = Min(Published(s))

(* Jupiter alone never prices collateral: while the issuer's own service gives no      *)
(* price, none is posted unless Pyth has one (signer.ts:129 to 133).                 *)
JupiterNotAlone ==
  \A s \in Signed: (pyth[s].price = 0 /\ Decision(s) # Skip) =>
    CASE s \in PreIpo -> Published(s) # {}
      [] s \in Stocks -> issuer[s].price > 0
      [] OTHER -> backpack > 0

(* What the signer writes on the chain is sound, whatever its providers answer. *)
SourcesAreSound == PremiumIsBounded /\ LiveProviderIsRead /\ JupiterNotAlone
================================================================================
