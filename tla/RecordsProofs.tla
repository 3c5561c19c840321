---------------------------- MODULE RecordsProofs -----------------------------
(***************************************************************************)
(* Theorems about what routes keep on record: payouts to a bank (Payouts), claims of *)
(* the faucet (Faucet), the bank accounts payouts go to (BankAccounts), the price      *)
(* points of the chart (PriceDesk), the devices alerts are sent to (Alerts) and the      *)
(* addresses of what the seeding script made (Seed).                              *)
(*                                                                         *)
(* First, a payout on record stands for a transfer that succeeded and moved what    *)
(* its quote asked for, for any number of requests, quotes and transfers, over      *)
(* either store, whatever expires, stops, times out or is posted by hand.  The      *)
(* record a request is about to write was checked against a transfer that cannot    *)
(* change any more and a quote that was made once: so it stays right while it       *)
(* waits in the commands of a write, in a loaded document, and in the store.  The   *)
(* invariant says it of the three places.                                      *)
(*                                                                         *)
(* Second, with one request at a time a transfer is on record once: the list      *)
(* itself is the guard, as long as a read of it shows all of it.                *)
(*                                                                         *)
(* Third, the faucet refuses only a wallet that was sent test money within the day, *)
(* whatever overlaps; with one claim at a time it pays once a day.               *)
(*                                                                         *)
(* Fourth, a bank account whose removal was answered stays removed, and no more than  *)
(* three are ever listed, however the requests of a wallet overlap; with one request at *)
(* a time what the wallet was told is saved is listed, and every row is.           *)
(*                                                                         *)
(* Fifth, a price point on record was executed on chain, and points are an hour apart. *)
(*                                                                         *)
(* Sixth, with one request at a time a device that was removed is sent nothing, and one *)
(* whose card says that its alerts are on is in the list, if the list has room for all.  *)
(*                                                                         *)
(* Seventh, the file of the script that seeds the devnet (Seed) names what is on chain, *)
(* wherever a run stopped, so that the next one creates nothing again.               *)
(***************************************************************************)
EXTENDS Payouts, SequenceTheorems, FiniteSetTheorems, WellFoundedInduction, TLAPS

-----------------------------------------------------------------------------
(* Facts about quotes qs and transfers ts.  They are given as parameters, since  *)
(* the same must be said before a step and after it.                            *)

Made(q, qs) == q \in QuoteIds /\ qs[q] # NoQuote

Covers(p, qs, ts) ==
  /\ p \in [sig : Sigs, quote : QuoteIds, purpose : BOOLEAN]
  /\ Made(p.quote, qs)
  /\ ts[p.sig].state = "ok" /\ ts[p.sig].usdc >= qs[p.quote].usdc

(* The entries of a store or of a document. *)
GoodEntries(e, qs, ts) ==
  /\ e \in [Keys -> {e[k] : k \in Keys}]
  /\ ListOf(e[payouts]) \in Seq([sig : Sigs, quote : QuoteIds, purpose : BOOLEAN])
  /\ \A i \in DOMAIN ListOf(e[payouts]) : Covers(ListOf(e[payouts])[i], qs, ts)
  /\ \A q \in QuoteIds : e[quote(q)] # NoEntry => Made(q, qs)

GoodCommand(c, qs, ts) ==
  \/ /\ c.cmd = "set"
     /\ \E q \in QuoteIds : c.key = quote(q) /\ (c.value = NoEntry \/ Made(q, qs))
  \/ c.cmd = "lpush" /\ c.key = payouts /\ Covers(c.element, qs, ts)
  \/ c.cmd = "ltrim" /\ c.key = payouts /\ c.keep = MaxList

GoodWrite(t, qs, ts) ==
  \/ t = <<>>
  \/ \E c : t = <<c>> /\ GoodCommand(c, qs, ts)
  \/ \E c, d : t = <<c, d>> /\ GoodCommand(c, qs, ts) /\ GoodCommand(d, qs, ts)

Places == {"looking", "verifying", "recording", "recorded"}
GoodRequest(x, qs, ts) ==
  \/ x = IdleReq
  \/ x \in [at : {"quoted"}, quote : QuoteIds] /\ Made(x.quote, qs)
  \/ x \in [at : {"expired"}, sig : Sigs]
  \/ /\ x \in [at : Places, quote : QuoteIds, sig : Sigs, purpose : BOOLEAN]
     /\ Made(x.quote, qs)
     /\ x.at = "recording" =>
          Covers([sig |-> x.sig, quote |-> x.quote, purpose |-> x.purpose], qs, ts)

GoodPage(x, qs) ==
  \/ x = ReadyPage
  \/ x = [at |-> "quoting"]
  \/ x \in [at : {"signing"}, quote : QuoteIds] /\ Made(x.quote, qs)
  \/ /\ x \in [at : {"confirming", "posting", "waiting"}, quote : QuoteIds, sig : Sigs]
     /\ Made(x.quote, qs)

-----------------------------------------------------------------------------
(* The inductive invariant *)

GoodRequests == \A r \in Requests : GoodRequest(req[r], quotes, transfers)
GoodWrites   == \A r \in Requests : GoodWrite(todo[r], quotes, transfers)
GoodDocs     == \A r \in Requests : doc[r] # NoDoc => GoodEntries(doc[r], quotes, transfers)

Shapes ==
  /\ req = [r \in Requests |-> req[r]] /\ todo = [r \in Requests |-> todo[r]]
  /\ doc = [r \in Requests |-> doc[r]]
  /\ quotes = [q \in QuoteIds |-> quotes[q]]
  /\ transfers = [s \in Sigs |-> transfers[s]]

BackedInv ==
  /\ Shapes /\ GoodPage(page, quotes)
  /\ GoodEntries(store, quotes, transfers)
  /\ GoodRequests /\ GoodWrites /\ GoodDocs

LEMMA BackedIsPayoutsBacked == BackedInv => PayoutsBacked
BY DEF BackedInv, GoodEntries, Covers, PayoutsBacked, Feed

(* A key is a quote's or the feed's. *)
LEMMA KeysDiffer ==
  ASSUME PayoutsAssumption
  PROVE  /\ \A q : quote(q) # payouts
         /\ \A q, w : quote(q) = quote(w) => q = w
         /\ payouts \in Keys /\ \A q \in QuoteIds : quote(q) \in Keys
<1>1. \A q : Len(quote(q)) = 2 /\ Len(payouts) = 1 /\ quote(q)[2] = q
  BY DEF quote, payouts
<1>2. payouts \in Keys /\ \A q \in QuoteIds : quote(q) \in Keys
  BY DEF PayoutsAssumption
<1> QED BY <1>1, <1>2

LEMMA BackedInit ==
  ASSUME PayoutsAssumption, Init
  PROVE  BackedInv
<1>1. Shapes
  BY DEF Init, KvInit, PayoutsInit, Shapes, PayoutsAssumption
<1>2. GoodPage(page, quotes)
  BY DEF Init, PayoutsInit, GoodPage
<1>3. GoodEntries(store, quotes, transfers)
  <2>1. store = [k \in Keys |-> NoEntry]
    BY DEF Init, KvInit
  <2>2. \A k \in Keys : store[k] = NoEntry
    BY <2>1
  <2>3. ListOf(store[payouts]) = <<>>
    BY <2>2, KeysDiffer DEF ListOf
  <2> QED BY <2>1, <2>2, <2>3, KeysDiffer DEF GoodEntries
<1>4. GoodRequests
  BY DEF Init, GoodRequests, GoodRequest
<1>5. GoodWrites /\ GoodDocs
  BY DEF Init, KvInit, GoodWrites, GoodWrite, GoodDocs, PayoutsAssumption
<1> QED BY <1>1, <1>2, <1>3, <1>4, <1>5 DEF BackedInv

-----------------------------------------------------------------------------
(* Writes *)

LEMMA FirstOfSeq ==
  ASSUME NEW S, NEW list \in Seq(S), NEW n \in Nat
  PROVE  /\ FirstOf(list, n) \in Seq(S)
         /\ \A i \in DOMAIN FirstOf(list, n) :
              i \in DOMAIN list /\ FirstOf(list, n)[i] = list[i]
<1> DEFINE k == IF n < Len(list) THEN n ELSE Len(list)
<1>1. k \in 0 .. Len(list)
  BY LenProperties
<1>2. /\ FirstOf(list, n) = SubSeq(list, 1, k)
      /\ SubSeq(list, 1, k) \in Seq(S)
      /\ Len(SubSeq(list, 1, k)) = k
      /\ \A i \in 1 .. k : SubSeq(list, 1, k)[i] = list[i]
  BY <1>1, SubSeqProperties DEF FirstOf
<1> QED BY <1>1, <1>2, LenProperties

(* A command leaves good entries. *)
LEMMA AppliedGood ==
  ASSUME PayoutsAssumption, NEW e, NEW qs, NEW ts, NEW c,
         GoodEntries(e, qs, ts), GoodCommand(c, qs, ts)
  PROVE  GoodEntries(Applied(e, c), qs, ts)
<1> DEFINE f == Applied(e, c)
           Records == [sig : Sigs, quote : QuoteIds, purpose : BOOLEAN]
           feed == ListOf(e[payouts])
<1>1. /\ f = [e EXCEPT ![c.key] = Changed(e[c.key], c)]
      /\ e \in [Keys -> {e[k] : k \in Keys}] /\ feed \in Seq(Records)
      /\ \A i \in DOMAIN feed : Covers(feed[i], qs, ts)
  BY DEF GoodEntries, Applied
<1>2. CASE c.cmd = "set"
  <2>1. PICK q \in QuoteIds : c.key = quote(q) /\ (c.value = NoEntry \/ Made(q, qs))
    BY <1>2 DEF GoodCommand
  <2>2. f = [e EXCEPT ![quote(q)] = c.value]
    BY <1>1, <1>2, <2>1 DEF Changed
  <2>3. /\ f[payouts] = e[payouts] /\ f[quote(q)] = c.value
        /\ \A w \in QuoteIds : w # q => f[quote(w)] = e[quote(w)]
        /\ f \in [Keys -> {f[k] : k \in Keys}]
    BY <1>1, <2>2, KeysDiffer
  <2> QED BY <2>1, <2>3 DEF GoodEntries
<1>3. CASE c.cmd \in {"lpush", "ltrim"} /\ c.key = payouts
  <2>1. /\ f[payouts] = Changed(e[payouts], c)
        /\ \A w \in QuoteIds : f[quote(w)] = e[quote(w)]
        /\ f \in [Keys -> {f[k] : k \in Keys}]
    BY <1>1, <1>3, KeysDiffer
  <2>2. /\ ListOf(f[payouts]) \in Seq(Records)
        /\ \A i \in DOMAIN ListOf(f[payouts]) : Covers(ListOf(f[payouts])[i], qs, ts)
    <3>1. CASE f[payouts] = NoEntry
      BY <3>1 DEF ListOf
    <3>2. CASE f[payouts] # NoEntry /\ c.cmd = "lpush"
      <4>1. ListOf(f[payouts]) = <<c.element>> \o feed
        BY <2>1, <3>2 DEF ListOf, Changed
      <4>2. c.element \in Records /\ Covers(c.element, qs, ts)
        BY <3>2 DEF GoodCommand, Covers
      <4> HIDE DEF feed, Records
      <4>3. /\ <<c.element>> \o feed \in Seq(Records)
            /\ \A i \in DOMAIN (<<c.element>> \o feed) :
                 (<<c.element>> \o feed)[i] = c.element
                 \/ \E j \in DOMAIN feed : (<<c.element>> \o feed)[i] = feed[j]
        <5>1. /\ <<c.element>> \in Seq(Records) /\ Len(<<c.element>>) = 1
              /\ <<c.element>>[1] = c.element
          BY <4>2
        <5>2. /\ <<c.element>> \o feed \in Seq(Records)
              /\ Len(<<c.element>> \o feed) = 1 + Len(feed)
              /\ \A i \in 1 .. 1 + Len(feed) :
                   (<<c.element>> \o feed)[i]
                     = IF i <= 1 THEN <<c.element>>[i] ELSE feed[i - 1]
          BY ONLY <1>1, <5>1, ConcatProperties
        <5>3. DOMAIN (<<c.element>> \o feed) = 1 .. 1 + Len(feed) /\ DOMAIN feed = 1 .. Len(feed)
              /\ Len(feed) \in Nat
          BY <1>1, <5>2, LenProperties
        <5> QED BY <5>1, <5>2, <5>3
      <4> QED BY <1>1, <4>1, <4>2, <4>3
    <3>3. CASE f[payouts] # NoEntry /\ c.cmd = "ltrim"
      <4>1. ListOf(f[payouts]) = FirstOf(feed, MaxList)
        BY <2>1, <3>3 DEF ListOf, Changed, GoodCommand
      <4>2. MaxList \in Nat
        BY DEF PayoutsAssumption
      <4> HIDE DEF feed, Records, f
      <4>3. /\ FirstOf(feed, MaxList) \in Seq(Records)
            /\ \A i \in DOMAIN FirstOf(feed, MaxList) :
                 i \in DOMAIN feed /\ FirstOf(feed, MaxList)[i] = feed[i]
        BY <1>1, <4>2, FirstOfSeq
      <4> QED BY <1>1, <4>1, <4>3
    <3> QED BY <1>3, <3>1, <3>2, <3>3
  <2> QED BY <2>1, <2>2 DEF GoodEntries
<1> QED BY <1>2, <1>3 DEF GoodCommand

LEMMA ExecutedGood ==
  ASSUME PayoutsAssumption, NEW e, NEW qs, NEW ts, NEW t,
         GoodEntries(e, qs, ts), GoodWrite(t, qs, ts), t # <<>>
  PROVE  GoodEntries(Executed(e, t), qs, ts)
<1>1. CASE \E c : t = <<c>> /\ GoodCommand(c, qs, ts)
  BY <1>1, AppliedGood DEF Executed
<1>2. CASE \E c, d : t = <<c, d>> /\ GoodCommand(c, qs, ts) /\ GoodCommand(d, qs, ts)
  <2>1. PICK c, d : t = <<c, d>> /\ GoodCommand(c, qs, ts) /\ GoodCommand(d, qs, ts)
    BY <1>2
  <2>2. Executed(e, t) = Applied(Applied(e, c), d)
    BY <2>1 DEF Executed
  <2> QED BY <2>1, <2>2, AppliedGood
<1> QED BY <1>1, <1>2 DEF GoodWrite

LEMMA WriteParts ==
  ASSUME NEW qs, NEW ts, NEW t, GoodWrite(t, qs, ts), t # <<>>
  PROVE  GoodCommand(Head(t), qs, ts) /\ GoodWrite(Tail(t), qs, ts)
<1>1. CASE \E c : t = <<c>> /\ GoodCommand(c, qs, ts)
  BY <1>1 DEF GoodWrite
<1>2. CASE \E c, d : t = <<c, d>> /\ GoodCommand(c, qs, ts) /\ GoodCommand(d, qs, ts)
  BY <1>2 DEF GoodWrite
<1> QED BY <1>1, <1>2 DEF GoodWrite

-----------------------------------------------------------------------------
(* A quote that was made and a transfer that succeeded stay as they are: what    *)
(* was good stays good.                                                       *)

Keeps(qs, ts, qs2, ts2) ==
  /\ \A q \in QuoteIds : qs[q] # NoQuote => qs2[q] = qs[q]
  /\ \A s \in Sigs : ts[s].state = "ok" => ts2[s] = ts[s]

LEMMA FactsStay ==
  ASSUME NEW qs, NEW ts, NEW qs2, NEW ts2, Keeps(qs, ts, qs2, ts2)
  PROVE  /\ \A p : Covers(p, qs, ts) => Covers(p, qs2, ts2)
         /\ \A c : GoodCommand(c, qs, ts) => GoodCommand(c, qs2, ts2)
         /\ \A t : GoodWrite(t, qs, ts) => GoodWrite(t, qs2, ts2)
         /\ \A e : GoodEntries(e, qs, ts) => GoodEntries(e, qs2, ts2)
         /\ \A x : GoodRequest(x, qs, ts) => GoodRequest(x, qs2, ts2)
         /\ \A x : GoodPage(x, qs) => GoodPage(x, qs2)
<1>1. \A q : Made(q, qs) => Made(q, qs2)
  BY DEF Keeps, Made
<1>2. \A p : Covers(p, qs, ts) => Covers(p, qs2, ts2)
  <2> SUFFICES ASSUME NEW p, Covers(p, qs, ts) PROVE Covers(p, qs2, ts2)
    OBVIOUS
  <2>1. p.sig \in Sigs /\ p.quote \in QuoteIds
    BY DEF Covers
  <2>2. qs2[p.quote] = qs[p.quote] /\ ts2[p.sig] = ts[p.sig]
    BY <2>1 DEF Covers, Keeps, Made
  <2> QED BY <1>1, <2>2 DEF Covers
<1>3. \A c : GoodCommand(c, qs, ts) => GoodCommand(c, qs2, ts2)
  BY <1>1, <1>2 DEF GoodCommand
<1>4. \A t : GoodWrite(t, qs, ts) => GoodWrite(t, qs2, ts2)
  BY <1>3 DEF GoodWrite
<1>5. \A e : GoodEntries(e, qs, ts) => GoodEntries(e, qs2, ts2)
  BY <1>1, <1>2 DEF GoodEntries
<1>6. \A x : GoodRequest(x, qs, ts) => GoodRequest(x, qs2, ts2)
  BY <1>1, <1>2 DEF GoodRequest
<1>7. \A x : GoodPage(x, qs) => GoodPage(x, qs2)
  BY <1>1 DEF GoodPage
<1> QED BY <1>2, <1>3, <1>4, <1>5, <1>6, <1>7

-----------------------------------------------------------------------------
(* Steps *)

QuotesKept == Keeps(quotes, transfers, quotes', transfers')

(* What no step of a request or of the page undoes. *)
LEMMA KeptWithout ==
  ASSUME UNCHANGED <<quotes, transfers>>
  PROVE  QuotesKept
BY DEF QuotesKept, Keeps

(* A request goes on: it has made a quote or nothing, and starts a write or none. *)
LEMMA RequestGoes ==
  ASSUME BackedInv, NEW r \in Requests, NEW x, NEW t,
         Goto(r, x), GoodRequest(x, quotes', transfers'),
         UNCHANGED kv_vars \/ (Await(r, t) /\ GoodWrite(t, quotes', transfers')),
         GoodPage(page', quotes'), QuotesKept,
         quotes' = [q \in QuoteIds |-> quotes'[q]],
         transfers' = [s \in Sigs |-> transfers'[s]]
  PROVE  BackedInv'
<1> USE DEF BackedInv
<1>1. /\ req' = [req EXCEPT ![r] = x]
      /\ \A w \in Requests : req'[w] = IF w = r THEN x ELSE req[w]
  BY DEF Goto, Shapes
<1>2. /\ store' = store /\ doc' = doc
      /\ \/ todo' = todo
         \/ todo' = [todo EXCEPT ![r] = t] /\ GoodWrite(t, quotes', transfers')
  BY DEF kv_vars, Await
<1>3. Shapes'
  BY <1>1, <1>2 DEF Shapes
<1>4. GoodRequests'
  BY <1>1, FactsStay DEF GoodRequests, QuotesKept
<1>5. GoodWrites'
  <2>1. \A w \in Requests : todo'[w] = todo[w] \/ (w = r /\ todo'[w] = t /\ GoodWrite(t, quotes', transfers'))
    BY <1>2 DEF Shapes
  <2>2. \A w \in Requests : GoodWrite(todo[w], quotes', transfers')
    BY FactsStay DEF GoodWrites, QuotesKept
  <2> QED BY <2>1, <2>2 DEF GoodWrites
<1>6. GoodDocs'
  BY <1>2, FactsStay DEF GoodDocs, QuotesKept
<1>7. GoodEntries(store', quotes', transfers')
  BY <1>2, FactsStay DEF QuotesKept
<1> QED BY <1>3, <1>4, <1>5, <1>6, <1>7

(* The page, the chain or time moves on, and no request. *)
LEMMA OthersGo ==
  ASSUME BackedInv, UNCHANGED <<req, todo, doc>>,
         GoodEntries(store', quotes', transfers'),
         GoodPage(page', quotes'), QuotesKept,
         quotes' = [q \in QuoteIds |-> quotes'[q]],
         transfers' = [s \in Sigs |-> transfers'[s]]
  PROVE  BackedInv'
<1> USE DEF BackedInv
<1>1. Shapes'
  BY DEF Shapes
<1>2. GoodRequests' /\ GoodWrites' /\ GoodDocs'
  BY FactsStay DEF GoodRequests, GoodWrites, GoodDocs, QuotesKept
<1> QED BY <1>1, <1>2

(* The commands of a write run, one by one or with the document around them. *)
LEMMA StoreGoes ==
  ASSUME PayoutsAssumption, BackedInv, NEW r \in Requests, StoreActs(r)
  PROVE  BackedInv'
<1> USE DEF BackedInv
<1>1. UNCHANGED <<req, page, quotes, transfers>>
  BY DEF StoreActs
<1>2. GoodWrite(todo[r], quotes, transfers)
  BY DEF GoodWrites
<1>3. GoodPage(page', quotes') /\ GoodRequests'
  BY <1>1 DEF GoodRequests
<1>4. CASE RedisCommand(r)
  <2>1. /\ todo[r] # <<>> /\ store' = Applied(store, Head(todo[r]))
        /\ todo' = [todo EXCEPT ![r] = Tail(todo[r])] /\ doc' = doc
    BY <1>4 DEF RedisCommand, Settled
  <2>2. /\ GoodCommand(Head(todo[r]), quotes, transfers)
        /\ GoodWrite(Tail(todo[r]), quotes, transfers)
    BY <1>2, <2>1, WriteParts
  <2>3. GoodEntries(store', quotes', transfers')
    BY <1>1, <2>1, <2>2, AppliedGood
  <2>4. Shapes' /\ GoodWrites' /\ GoodDocs'
    BY <1>1, <2>1, <2>2 DEF Shapes, GoodWrites, GoodDocs
  <2> QED BY <1>3, <2>3, <2>4
<1>5. CASE GistLoad(r)
  <2>1. doc' = [doc EXCEPT ![r] = store] /\ store' = store /\ todo' = todo
    BY <1>5 DEF GistLoad
  <2>2. Shapes' /\ GoodWrites' /\ GoodDocs'
    BY <1>1, <2>1 DEF Shapes, GoodWrites, GoodDocs
  <2> QED BY <1>1, <1>3, <2>1, <2>2
<1>6. CASE GistSave(r)
  <2>1. /\ todo[r] # <<>> /\ doc[r] # NoDoc
        /\ store' = Executed(doc[r], todo[r])
        /\ todo' = [todo EXCEPT ![r] = <<>>] /\ doc' = [doc EXCEPT ![r] = NoDoc]
    BY <1>6 DEF GistSave, Settled
  <2>2. GoodEntries(store', quotes', transfers')
    BY <1>1, <1>2, <2>1, ExecutedGood DEF GoodDocs
  <2>3. GoodWrite(<<>>, quotes, transfers)
    BY DEF GoodWrite
  <2>4. Shapes' /\ GoodWrites' /\ GoodDocs'
    BY <1>1, <2>1, <2>3 DEF Shapes, GoodWrites, GoodDocs
  <2> QED BY <1>3, <2>2, <2>4
<1> QED BY <1>4, <1>5, <1>6 DEF StoreActs, KvStep

LEMMA SetIsGood ==
  ASSUME NEW qs, NEW ts, NEW q \in QuoteIds, NEW value, value = NoEntry \/ Made(q, qs)
  PROVE  GoodWrite(kvSet(quote(q), value), qs, ts)
<1> DEFINE c == [cmd |-> "set", key |-> quote(q), value |-> value]
<1>1. GoodCommand(c, qs, ts)
  BY DEF GoodCommand
<1>2. kvSet(quote(q), value) = <<c>>
  BY DEF kvSet
<1> HIDE DEF c
<1> QED BY <1>1, <1>2 DEF GoodWrite

LEMMA PushIsGood ==
  ASSUME NEW qs, NEW ts, NEW p, Covers(p, qs, ts)
  PROVE  GoodWrite(kvListPush(payouts, p, MaxList), qs, ts)
<1> DEFINE c == [cmd |-> "lpush", key |-> payouts, element |-> p]
           d == [cmd |-> "ltrim", key |-> payouts, keep |-> MaxList]
<1>1. GoodCommand(c, qs, ts) /\ GoodCommand(d, qs, ts)
  BY DEF GoodCommand
<1>2. kvListPush(payouts, p, MaxList) = <<c, d>>
  BY DEF kvListPush
<1> HIDE DEF c, d
<1> QED BY <1>1, <1>2 DEF GoodWrite

(* A request that answers, or only reads before its next await. *)
LEMMA RequestReads ==
  ASSUME BackedInv, NEW r \in Requests, NEW x, GotoWith(r, x),
         GoodRequest(x, quotes, transfers), GoodPage(page', quotes),
         UNCHANGED <<quotes, transfers>>
  PROVE  BackedInv'
<1>1. QuotesKept
  BY KeptWithout
<1>2. /\ quotes' = [q \in QuoteIds |-> quotes'[q]]
      /\ transfers' = [s \in Sigs |-> transfers'[s]]
  BY DEF BackedInv, Shapes
<1>3. Goto(r, x) /\ UNCHANGED kv_vars
  BY DEF GotoWith
<1>4. GoodRequest(x, quotes', transfers') /\ GoodPage(page', quotes')
  OBVIOUS
<1> QED BY <1>1, <1>2, <1>3, <1>4, RequestGoes

LEMMA IdleIsGood == GoodRequest(IdleReq, quotes, transfers)
BY DEF GoodRequest

LEMMA ConfirmGoes ==
  ASSUME BackedInv, NEW r \in Requests, NEW q \in QuoteIds, NEW s \in Sigs,
         NEW claimed, NEW purpose \in BOOLEAN, Confirm(r, q, s, claimed, purpose),
         GoodPage(page', quotes), UNCHANGED <<quotes, transfers>>
  PROVE  BackedInv'
<1>1. CASE Answer(r)
  BY <1>1, IdleIsGood, RequestReads DEF Answer
<1>2. CASE GotoWith(r, [at |-> "expired", sig |-> s])
  <2>1. GoodRequest([at |-> "expired", sig |-> s], quotes, transfers)
    BY DEF GoodRequest
  <2> QED BY <1>2, <2>1, RequestReads
<1>3. CASE /\ kvGet(quote(q)) # NoEntry
           /\ GotoWith(r, [at |-> "looking", quote |-> q, sig |-> s, purpose |-> purpose])
  <2>1. Made(q, quotes)
    BY <1>3 DEF BackedInv, GoodEntries, kvGet
  <2>2. GoodRequest([at |-> "looking", quote |-> q, sig |-> s, purpose |-> purpose],
                    quotes, transfers)
    BY <2>1 DEF GoodRequest, Places
  <2> QED BY <1>3, <2>2, RequestReads
<1> QED BY <1>1, <1>2, <1>3 DEF Confirm

LEMMA PageQuotesGoes ==
  ASSUME PayoutsAssumption, BackedInv, NEW r \in Requests, NEW q \in QuoteIds,
         NEW cents \in Cents, PageQuotes(r, q, cents)
  PROVE  BackedInv'
<1>1. PICK rate \in Rates :
        /\ quotes' = [quotes EXCEPT ![q] = QuoteOf(cents, rate)]
        /\ Goto(r, [at |-> "quoted", quote |-> q])
        /\ Await(r, kvSet(quote(q), QuoteOf(cents, rate)))
  BY DEF PageQuotes
<1>2. /\ quotes[q] = NoQuote /\ page' = [at |-> "quoting"] /\ transfers' = transfers
      /\ cents >= MinEurCents
  BY DEF PageQuotes, Quotable
<1>3. QuoteOf(cents, rate) # NoQuote
  <2>1. cents # 0
    BY <1>2 DEF PayoutsAssumption
  <2>2. QuoteOf(cents, rate).cents = cents /\ NoQuote.cents = 0
    BY DEF QuoteOf, NoQuote
  <2> QED BY <2>1, <2>2
<1>4. /\ quotes' = [w \in QuoteIds |-> quotes'[w]]
      /\ transfers' = [s \in Sigs |-> transfers'[s]]
      /\ quotes'[q] = QuoteOf(cents, rate)
      /\ \A w \in QuoteIds : w # q => quotes'[w] = quotes[w]
  BY <1>1, <1>2 DEF BackedInv, Shapes
<1>5. Made(q, quotes') /\ QuotesKept
  BY <1>2, <1>3, <1>4 DEF Made, QuotesKept, Keeps
<1>6. GoodRequest([at |-> "quoted", quote |-> q], quotes', transfers')
  BY <1>5 DEF GoodRequest
<1>7. GoodWrite(kvSet(quote(q), QuoteOf(cents, rate)), quotes', transfers')
  BY <1>5, SetIsGood
<1>8. GoodPage(page', quotes')
  BY <1>2 DEF GoodPage
<1> QED BY <1>1, <1>4, <1>5, <1>6, <1>7, <1>8, RequestGoes

LEMMA PageSendsGoes ==
  ASSUME BackedInv, NEW s \in Sigs, PageSends(s)
  PROVE  BackedInv'
<1> USE DEF BackedInv
<1>1. /\ transfers[s] = Unsent /\ page.at = "signing"
      /\ transfers' = [transfers EXCEPT ![s] =
                         [state |-> "sent", usdc |-> quotes[page.quote].usdc]]
      /\ page' = [at |-> "confirming", quote |-> page.quote, sig |-> s]
      /\ UNCHANGED <<store, todo, doc, req, quotes>>
  BY DEF PageSends, kv_vars
<1>2. page.quote \in QuoteIds /\ Made(page.quote, quotes)
  BY <1>1 DEF GoodPage, ReadyPage
<1>3. QuotesKept
  BY <1>1 DEF QuotesKept, Keeps, Shapes, Unsent
<1>4. GoodEntries(store', quotes', transfers')
  BY <1>1, <1>3, FactsStay DEF QuotesKept
<1>5. /\ GoodPage(page', quotes')
      /\ quotes' = [q \in QuoteIds |-> quotes'[q]]
      /\ transfers' = [w \in Sigs |-> transfers'[w]]
  BY <1>1, <1>2 DEF GoodPage, Shapes
<1> QED BY <1>1, <1>3, <1>4, <1>5, OthersGo

LEMMA PageGoes ==
  ASSUME BackedInv, PageConfirmed \/ PageEnds
  PROVE  BackedInv'
<1> USE DEF BackedInv
<1>1. UNCHANGED <<store, todo, doc, req, quotes, transfers>>
  BY DEF PageConfirmed, PageEnds, kv_vars
<1>2. GoodPage(page', quotes')
  BY <1>1 DEF PageConfirmed, PageEnds, GoodPage, ReadyPage
<1> QED BY <1>1, <1>2, KeptWithout, OthersGo DEF Shapes

LEMMA PagePostsGoes ==
  ASSUME BackedInv, NEW r \in Requests, PagePosts(r)
  PROVE  BackedInv'
<1>1. /\ page.at = "posting" /\ page' = [page EXCEPT !.at = "waiting"]
      /\ Confirm(r, page.quote, page.sig, 0, quotes[page.quote].cents > PurposeAbove)
      /\ UNCHANGED <<quotes, transfers>>
  BY DEF PagePosts
<1>2. /\ page \in [at : {"confirming", "posting", "waiting"}, quote : QuoteIds, sig : Sigs]
      /\ Made(page.quote, quotes)
  BY <1>1 DEF BackedInv, GoodPage, ReadyPage
<1>3. GoodPage(page', quotes)
  BY <1>1, <1>2 DEF GoodPage
<1>4. (quotes[page.quote].cents > PurposeAbove) \in BOOLEAN
  OBVIOUS
<1> QED BY <1>1, <1>2, <1>3, <1>4, ConfirmGoes

(* The handlers after their first await. *)

LEMMA AnswersGo ==
  ASSUME BackedInv, NEW r \in Requests, AnswerQuote(r) \/ AnswerExpired(r)
  PROVE  BackedInv'
<1>1. GotoWith(r, IdleReq) /\ UNCHANGED <<quotes, transfers>>
  BY DEF AnswerQuote, AnswerExpired, Answer
<1>2. GoodPage(page', quotes)
  <2>1. CASE AnswerQuote(r)
    <3>1. /\ req[r].at = "quoted" /\ page' = [at |-> "signing", quote |-> req[r].quote]
          /\ GoodRequest(req[r], quotes, transfers)
      BY <2>1 DEF AnswerQuote, At, BackedInv, GoodRequests
    <3>2. Made(req[r].quote, quotes) /\ req[r].quote \in QuoteIds
      BY <3>1 DEF GoodRequest, IdleReq, Places, Made
    <3> QED BY <3>1, <3>2 DEF GoodPage
  <2>2. CASE AnswerExpired(r)
    BY <2>2 DEF AnswerExpired, BackedInv
  <2> QED BY <2>1, <2>2
<1> QED BY <1>1, <1>2, IdleIsGood, RequestReads

(* What a request that confirms a payout has in its locals. *)
LEMMA ConfirmLocals ==
  ASSUME BackedInv, NEW r \in Requests, req[r].at \in Places
  PROVE  /\ req[r] \in [at : Places, quote : QuoteIds, sig : Sigs, purpose : BOOLEAN]
         /\ Made(req[r].quote, quotes)
         /\ req[r].at = "recording" =>
              Covers([sig |-> req[r].sig, quote |-> req[r].quote,
                      purpose |-> req[r].purpose], quotes, transfers)
BY DEF BackedInv, GoodRequests, GoodRequest, IdleReq, Places

LEMMA LookUpGoes ==
  ASSUME BackedInv, NEW r \in Requests, LookUp(r)
  PROVE  BackedInv'
<1>1. /\ req[r].at = "looking" /\ UNCHANGED <<page, quotes, transfers>>
      /\ \/ GotoWith(r, IdleReq)
         \/ GotoWith(r, [req[r] EXCEPT !.at = "verifying"])
  BY DEF LookUp, At, Answer, Moved
<1>2. GoodPage(page', quotes)
  BY <1>1 DEF BackedInv
<1>3. GoodRequest([req[r] EXCEPT !.at = "verifying"], quotes, transfers)
  BY <1>1, ConfirmLocals DEF GoodRequest, Places
<1> QED BY <1>1, <1>2, <1>3, IdleIsGood, RequestReads

(* The transfer was read on chain before the record is written. *)
LEMMA VerifyGoes ==
  ASSUME BackedInv, NEW r \in Requests, Verify(r)
  PROVE  BackedInv'
<1>1. /\ req[r].at = "verifying" /\ UNCHANGED <<page, quotes, transfers>>
      /\ \/ GotoWith(r, IdleReq)
         \/ /\ verifyUsdcTransfer(req[r].sig, quotes[req[r].quote].usdc)
            /\ GotoWith(r, [req[r] EXCEPT !.at = "recording"])
  BY DEF Verify, At, Answer, Moved
<1>2. GoodPage(page', quotes)
  BY <1>1 DEF BackedInv
<1>3. ASSUME verifyUsdcTransfer(req[r].sig, quotes[req[r].quote].usdc)
      PROVE  GoodRequest([req[r] EXCEPT !.at = "recording"], quotes, transfers)
  <2>1. /\ req[r] \in [at : Places, quote : QuoteIds, sig : Sigs, purpose : BOOLEAN]
        /\ Made(req[r].quote, quotes)
    BY <1>1, ConfirmLocals DEF Places
  <2>2. Covers([sig |-> req[r].sig, quote |-> req[r].quote, purpose |-> req[r].purpose],
               quotes, transfers)
    BY <1>3, <2>1 DEF Covers, verifyUsdcTransfer
  <2> QED BY <2>1, <2>2 DEF GoodRequest, Places
<1> QED BY <1>1, <1>2, <1>3, IdleIsGood, RequestReads

LEMMA WritesGo ==
  ASSUME BackedInv, NEW r \in Requests, Record(r) \/ DropQuote(r)
  PROVE  BackedInv'
<1>1. UNCHANGED <<page, quotes, transfers>> /\ QuotesKept
  BY KeptWithout DEF Record, DropQuote
<1>2. /\ GoodPage(page', quotes') /\ quotes' = [q \in QuoteIds |-> quotes'[q]]
      /\ transfers' = [s \in Sigs |-> transfers'[s]]
  BY <1>1 DEF BackedInv, Shapes
<1>3. CASE Record(r)
  <2> DEFINE record == [sig |-> req[r].sig, quote |-> req[r].quote, purpose |-> req[r].purpose]
             x == [req[r] EXCEPT !.at = "recorded"]
  <2>1. /\ req[r].at = "recording" /\ Goto(r, x)
        /\ Await(r, kvListPush(payouts, record, MaxList))
    BY <1>3 DEF Record, At, Moved
  <2>2. Covers(record, quotes, transfers)
    BY <2>1, ConfirmLocals DEF Places
  <2>3. GoodRequest(x, quotes', transfers')
    BY <1>1, <2>1, ConfirmLocals DEF GoodRequest, Places
  <2>4. GoodWrite(kvListPush(payouts, record, MaxList), quotes', transfers')
    BY <1>1, <2>2, PushIsGood
  <2> QED BY <1>1, <1>2, <2>1, <2>3, <2>4, RequestGoes
<1>4. CASE DropQuote(r)
  <2>1. /\ req[r].at = "recorded" /\ Goto(r, IdleReq)
        /\ Await(r, kvSet(quote(req[r].quote), NoEntry))
    BY <1>4 DEF DropQuote, At
  <2>2. req[r].quote \in QuoteIds
    BY <2>1, ConfirmLocals DEF Places
  <2>3. GoodWrite(kvSet(quote(req[r].quote), NoEntry), quotes', transfers')
    BY <2>2, SetIsGood
  <2>4. GoodRequest(IdleReq, quotes', transfers')
    BY DEF GoodRequest
  <2> QED BY <1>1, <1>2, <2>1, <2>3, <2>4, RequestGoes
<1> QED BY <1>3, <1>4

-----------------------------------------------------------------------------
(* The chain, time, and stops *)

LEMMA ExecuteGoes ==
  ASSUME BackedInv, NEW s \in Sigs, ExecuteTransfer(s)
  PROVE  BackedInv'
<1> USE DEF BackedInv
<1>1. /\ transfers[s].state = "sent" /\ UNCHANGED <<store, todo, doc, req, page, quotes>>
      /\ \E result \in {"ok", "failed"} :
           transfers' = [transfers EXCEPT ![s].state = result]
  BY DEF ExecuteTransfer, kv_vars
<1>2. /\ \A w \in Sigs : w # s => transfers'[w] = transfers[w]
      /\ transfers' = [w \in Sigs |-> transfers'[w]]
  BY <1>1 DEF Shapes
<1>3. QuotesKept
  BY <1>1, <1>2 DEF QuotesKept, Keeps
<1>4. GoodEntries(store', quotes', transfers')
  BY <1>1, <1>3, FactsStay DEF QuotesKept
<1> QED BY <1>1, <1>2, <1>3, <1>4, OthersGo DEF Shapes

LEMMA TickGoes ==
  ASSUME PayoutsAssumption, BackedInv, Tick
  PROVE  BackedInv'
<1> USE DEF BackedInv
<1>1. /\ UNCHANGED <<todo, doc, req, page, quotes, transfers>>
      /\ store' = [k \in Keys |-> store'[k]]
      /\ \A k \in Keys : store'[k] \in {NoEntry, store[k]}
  BY DEF Tick
<1>2. GoodEntries(store', quotes', transfers')
  <2>1. store'[payouts] = NoEntry \/ store'[payouts] = store[payouts]
    BY <1>1, KeysDiffer
  <2>2. ListOf(store'[payouts]) = <<>> \/ store'[payouts] = store[payouts]
    BY <2>1 DEF ListOf
  <2>3. \A q \in QuoteIds : store'[quote(q)] # NoEntry => store[quote(q)] # NoEntry
    BY <1>1, KeysDiffer
  <2>4. store' \in [Keys -> {store'[k] : k \in Keys}]
    BY <1>1
  <2>5. /\ ListOf(store'[payouts]) \in Seq([sig : Sigs, quote : QuoteIds, purpose : BOOLEAN])
        /\ \A i \in DOMAIN ListOf(store'[payouts]) :
             Covers(ListOf(store'[payouts])[i], quotes, transfers)
    <3>1. CASE ListOf(store'[payouts]) = <<>>
      BY <3>1
    <3>2. CASE store'[payouts] = store[payouts]
      BY <3>2 DEF GoodEntries
    <3> QED BY <2>2, <3>1, <3>2
  <2>6. \A q \in QuoteIds : store'[quote(q)] # NoEntry => Made(q, quotes)
    BY <2>3 DEF GoodEntries
  <2> QED BY <1>1, <2>4, <2>5, <2>6 DEF GoodEntries
<1> QED BY <1>1, <1>2, KeptWithout, OthersGo DEF Shapes

LEMMA StopGoes ==
  ASSUME BackedInv, NEW r \in Requests, Stop(r)
  PROVE  BackedInv'
<1> USE DEF BackedInv
<1>1. /\ req' = [req EXCEPT ![r] = IdleReq] /\ UNCHANGED <<store, page, quotes, transfers>>
      /\ todo' = [todo EXCEPT ![r] = <<>>] /\ doc' = [doc EXCEPT ![r] = NoDoc]
  BY DEF Stop, Goto, Abandon
<1>2. Shapes'
  BY <1>1 DEF Shapes
<1>3. GoodRequests'
  BY <1>1, IdleIsGood DEF Shapes, GoodRequests
<1>4. GoodWrites' /\ GoodDocs'
  BY <1>1 DEF Shapes, GoodWrites, GoodWrite, GoodDocs
<1> QED BY <1>1, <1>2, <1>3, <1>4

LEMMA BackedStep ==
  ASSUME PayoutsAssumption, BackedInv, [Next]_vars
  PROVE  BackedInv'
<1>1. CASE Page
  BY <1>1, PageQuotesGoes, PageSendsGoes, PageGoes, PagePostsGoes DEF Page
<1>2. ASSUME NEW r \in Requests, Handler(r) PROVE BackedInv'
  BY <1>2, AnswersGo, LookUpGoes, VerifyGoes, WritesGo, StoreGoes DEF Handler
<1>3. ASSUME NEW r \in Requests, NEW q \in QuoteIds, NEW s \in Sigs, NEW claimed \in Cents,
             NEW purpose \in BOOLEAN, PostByHand(r, q, s, claimed, purpose)
      PROVE  BackedInv'
  <2>1. /\ Confirm(r, q, s, claimed, purpose) /\ UNCHANGED <<quotes, transfers>>
        /\ GoodPage(page', quotes)
    BY <1>3 DEF PostByHand, BackedInv
  <2> QED BY <2>1, ConfirmGoes
<1>4. CASE UNCHANGED vars
  <2>1. UNCHANGED <<store, todo, doc, req, page, quotes, transfers>>
    BY <1>4 DEF vars, kv_vars
  <2> QED BY <2>1, KeptWithout, OthersGo DEF BackedInv, Shapes
<1> QED BY <1>1, <1>2, <1>3, <1>4, StopGoes, ExecuteGoes, TickGoes DEF Next

(* Every payout is backed by a transfer that succeeded and moved what its own     *)
(* quote asked for, whatever quotes and signatures requests mix, and whatever     *)
(* expires, stops or is lost on the way.                                        *)
THEOREM PayoutsAlwaysBacked ==
  ASSUME PayoutsAssumption
  PROVE  Spec => []PayoutsBacked
<1>1. Init => BackedInv
  BY BackedInit
<1>2. BackedInv /\ [Next]_vars => BackedInv'
  BY BackedStep
<1>3. BackedInv => PayoutsBacked
  BY BackedIsPayoutsBacked
<1> QED BY <1>1, <1>2, <1>3, PTL DEF Spec

-----------------------------------------------------------------------------
(* One request at a time: a transfer is listed once.                          *)
(*                                                                         *)
(* A request looks through the list before it writes, and nobody writes between:  *)
(* what it has to rely on is that it saw the whole list.  So the list must not be  *)
(* longer than a read of it, but between the two commands of a push; a server that *)
(* stops there leaves the entry no read shows.  A document is saved whole.        *)

OneAtATime == (\A r, s \in Requests : r = s) /\ (Backend = "gist" \/ ~Stops)

Distinct(list)  == \A i, j \in DOMAIN list : list[i].sig = list[j].sig => i = j
Listed(list, s) == \E i \in DOMAIN list : list[i].sig = s

Trim    == [cmd |-> "ltrim", key |-> payouts, keep |-> MaxList]
Push(p) == [cmd |-> "lpush", key |-> payouts, element |-> p]

(* What the write under way may still do to the list. *)
Adds(t, list) ==
  \/ t = <<>> /\ Len(list) <= MaxList
  \/ Len(list) <= MaxList /\ Len(t) = 1 /\ t[1].cmd = "set" /\ t[1].key # payouts
  \/ /\ Len(list) <= MaxList
     /\ \E p \in [sig : Sigs, quote : QuoteIds, purpose : BOOLEAN] :
          t = <<Push(p), Trim>> /\ ~Listed(list, p.sig)
  \/ t = <<Trim>> /\ Backend = "redis"

OnceInv ==
  /\ Distinct(Feed)
  /\ \A r \in Requests :
       /\ Adds(todo[r], Feed)
       /\ doc[r] # NoDoc => Backend = "gist" /\ ListOf(doc[r][payouts]) = Feed
       /\ req[r].at \in {"verifying", "recording"} =>
            Settled(r) /\ ~Listed(Feed, req[r].sig)

(* Lists *)

LEMMA PushedOnce ==
  ASSUME NEW S, NEW list \in Seq(S), Distinct(list), NEW p \in S, ~Listed(list, p.sig)
  PROVE  Distinct(<<p>> \o list)
<1>1. /\ <<p>> \in Seq(S) /\ Len(<<p>>) = 1 /\ <<p>>[1] = p
  OBVIOUS
<1>2. /\ <<p>> \o list \in Seq(S)
      /\ Len(<<p>> \o list) = 1 + Len(list)
      /\ \A i \in 1 .. 1 + Len(list) :
           (<<p>> \o list)[i] = IF i <= 1 THEN <<p>>[i] ELSE list[i - 1]
  BY ONLY <1>1, list \in Seq(S), ConcatProperties
<1>3. DOMAIN (<<p>> \o list) = 1 .. 1 + Len(list) /\ DOMAIN list = 1 .. Len(list)
      /\ Len(list) \in Nat
  BY <1>2, LenProperties
<1> DEFINE pushed == <<p>> \o list
<1>4. /\ pushed[1] = p
      /\ \A i \in 2 .. 1 + Len(list) : i - 1 \in DOMAIN list /\ pushed[i] = list[i - 1]
  BY <1>1, <1>2, <1>3
<1> HIDE DEF pushed
<1>5. SUFFICES ASSUME NEW i \in 1 .. 1 + Len(list), NEW j \in 1 .. 1 + Len(list),
                      pushed[i].sig = pushed[j].sig
               PROVE  i = j
  BY <1>3 DEF Distinct, pushed
<1>6. CASE i = 1 \/ j = 1
  <2>1. \A k \in 2 .. 1 + Len(list) : pushed[k].sig # p.sig
    BY <1>4 DEF Listed
  <2> QED BY <1>3, <1>4, <1>5, <1>6, <2>1
<1>7. CASE i # 1 /\ j # 1
  <2>1. i \in 2 .. 1 + Len(list) /\ j \in 2 .. 1 + Len(list)
    BY <1>3, <1>7
  <2>2. i - 1 = j - 1
    BY <1>4, <1>5, <2>1 DEF Distinct
  <2> QED BY <1>3, <2>2
<1> QED BY <1>6, <1>7

LEMMA TrimmedOnce ==
  ASSUME NEW S, NEW list \in Seq(S), Distinct(list), NEW n \in Nat
  PROVE  /\ Distinct(FirstOf(list, n)) /\ Len(FirstOf(list, n)) <= n
         /\ \A s : ~Listed(list, s) => ~Listed(FirstOf(list, n), s)
<1>1. /\ FirstOf(list, n) \in Seq(S)
      /\ \A i \in DOMAIN FirstOf(list, n) :
           i \in DOMAIN list /\ FirstOf(list, n)[i] = list[i]
  BY FirstOfSeq
<1> DEFINE k == IF n < Len(list) THEN n ELSE Len(list)
<1>2. k \in 0 .. Len(list) /\ k <= n
  BY LenProperties
<1>3. Len(FirstOf(list, n)) = k
  BY <1>2, SubSeqProperties DEF FirstOf
<1> QED BY <1>1, <1>2, <1>3 DEF Distinct, Listed

LEMMA WholeRead ==
  ASSUME NEW S, NEW list \in Seq(S), NEW n \in Nat, Len(list) <= n
  PROVE  FirstOf(list, n) = list
<1>1. Len(list) \in Nat /\ list = [i \in 1 .. Len(list) |-> list[i]]
  BY LenProperties
<1>2. (IF n < Len(list) THEN n ELSE Len(list)) = Len(list)
  BY <1>1
<1>3. /\ SubSeq(list, 1, Len(list)) \in Seq(S) /\ Len(SubSeq(list, 1, Len(list))) = Len(list)
      /\ \A i \in 1 .. Len(list) : SubSeq(list, 1, Len(list))[i] = list[i]
  BY <1>1, SubSeqProperties
<1> QED BY <1>1, <1>2, <1>3, SeqEqual DEF FirstOf

(* The feed, and a command on it. *)

Records == [sig : Sigs, quote : QuoteIds, purpose : BOOLEAN]

LEMMA FeedRecords == BackedInv => Feed \in Seq(Records)
BY DEF BackedInv, GoodEntries, Feed, Records

LEMMA AppliedFeed ==
  ASSUME PayoutsAssumption, NEW qs, NEW ts, NEW e, GoodEntries(e, qs, ts), NEW c
  PROVE  /\ c.key \in Keys /\ c.key # payouts => Applied(e, c)[payouts] = e[payouts]
         /\ c.key = payouts => Applied(e, c)[payouts] = Changed(e[payouts], c)
BY KeysDiffer DEF GoodEntries, Applied

LEMMA PushAndTrim ==
  /\ \A p : Push(p).key = payouts /\ \A x : Changed(x, Push(p)) = <<p>> \o ListOf(x)
  /\ Trim.key = payouts /\ \A x : Changed(x, Trim) = FirstOf(ListOf(x), MaxList)
<1>1. \A p : /\ Push(p).key = payouts /\ Push(p).cmd = "lpush" /\ Push(p).element = p
  BY DEF Push
<1>2. Trim.key = payouts /\ Trim.cmd = "ltrim" /\ Trim.keep = MaxList
  BY DEF Trim
<1> QED BY <1>1, <1>2 DEF Changed

(* A list as an entry: an absent one reads as the empty list. *)
LEMMA EntryOnce ==
  ASSUME NEW list \in Seq(Records), Distinct(list)
  PROVE  Distinct(ListOf(list)) /\ Len(ListOf(list)) <= Len(list)
BY LenProperties DEF ListOf, Distinct

LEMMA TrimmedEntry ==
  ASSUME PayoutsAssumption, NEW list \in Seq(Records), Distinct(list)
  PROVE  /\ Distinct(ListOf(FirstOf(list, MaxList)))
         /\ Len(ListOf(FirstOf(list, MaxList))) <= MaxList
<1>1. MaxList \in Nat
  BY DEF PayoutsAssumption
<1>2. /\ FirstOf(list, MaxList) \in Seq(Records) /\ Distinct(FirstOf(list, MaxList))
      /\ Len(FirstOf(list, MaxList)) <= MaxList
  BY <1>1, FirstOfSeq, TrimmedOnce
<1>3. Len(FirstOf(list, MaxList)) \in Nat /\ Len(ListOf(FirstOf(list, MaxList))) \in Nat
  BY <1>2, LenProperties DEF ListOf
<1> QED BY <1>1, <1>2, <1>3, EntryOnce

(* A write of the feed or of a quote leaves what the request saw there. *)
LEMMA DoneOnce ==
  ASSUME PayoutsAssumption, NEW qs, NEW ts, NEW e, GoodEntries(e, qs, ts),
         NEW t, GoodWrite(t, qs, ts), t # <<>>, Backend = "gist",
         Distinct(ListOf(e[payouts])), Adds(t, ListOf(e[payouts]))
  PROVE  /\ Distinct(ListOf(Executed(e, t)[payouts]))
         /\ Len(ListOf(Executed(e, t)[payouts])) <= MaxList
<1>0. ListOf(e[payouts]) \in Seq(Records) /\ MaxList \in Nat
  BY DEF GoodEntries, Records, PayoutsAssumption
<1>1. CASE Len(t) = 1 /\ t[1].cmd = "set" /\ t[1].key # payouts
  <2>1. Executed(e, t) = Applied(e, t[1])
    BY <1>1 DEF Executed
  <2>2. GoodCommand(t[1], qs, ts)
    BY <1>1 DEF GoodWrite
  <2>3. t[1].key \in Keys
    BY <1>1, <2>2, KeysDiffer DEF GoodCommand
  <2>4. Len(ListOf(e[payouts])) <= MaxList
    BY <1>1 DEF Adds
  <2> QED BY <1>1, <2>1, <2>3, <2>4, AppliedFeed
<1>2. ASSUME NEW p \in Records, t = <<Push(p), Trim>>, ~Listed(ListOf(e[payouts]), p.sig)
      PROVE  /\ Distinct(ListOf(Executed(e, t)[payouts]))
             /\ Len(ListOf(Executed(e, t)[payouts])) <= MaxList
  <2>1. Executed(e, t) = Applied(Applied(e, Push(p)), Trim)
    BY <1>2 DEF Executed
  <2>2. GoodCommand(Push(p), qs, ts)
    BY <1>2, WriteParts
  <2>3. GoodEntries(Applied(e, Push(p)), qs, ts)
    BY <2>2, AppliedGood
  <2>4. Applied(e, Push(p))[payouts] = <<p>> \o ListOf(e[payouts])
    BY AppliedFeed, PushAndTrim
  <2> DEFINE pushed == Applied(e, Push(p))[payouts]
  <2>5. Distinct(ListOf(pushed)) /\ ListOf(pushed) \in Seq(Records)
    <3>1. Distinct(<<p>> \o ListOf(e[payouts])) /\ <<p>> \o ListOf(e[payouts]) \in Seq(Records)
      BY <1>0, <1>2, PushedOnce, ConcatProperties
    <3> QED BY <2>3, <2>4, <3>1, EntryOnce DEF GoodEntries, Records
  <2> HIDE DEF pushed
  <2>6. Executed(e, t)[payouts] = FirstOf(ListOf(pushed), MaxList)
    BY <2>1, <2>3, AppliedFeed, PushAndTrim DEF pushed
  <2> QED BY <1>0, <2>5, <2>6, TrimmedEntry
<1> QED BY <1>1, <1>2 DEF Adds, Records

(* Steps *)

LEMMA OnceInit ==
  ASSUME PayoutsAssumption, Init
  PROVE  OnceInv
<1>1. Feed = <<>>
  BY KeysDiffer DEF Init, KvInit, Feed, ListOf
<1>2. \A r \in Requests : todo[r] = <<>> /\ doc[r] = NoDoc /\ req[r].at = "idle"
  BY DEF Init, KvInit, PayoutsAssumption, IdleReq
<1> QED BY <1>1, <1>2 DEF OnceInv, Distinct, Adds, PayoutsAssumption

(* The request goes on: it starts a write or none. *)
LEMMA RequestOnce ==
  ASSUME OneAtATime, BackedInv, OnceInv, NEW r \in Requests, NEW x, NEW t, Settled(r),
         Goto(r, x),
         UNCHANGED kv_vars \/ (Await(r, t) /\ Adds(t, Feed)),
         x.at \in {"verifying", "recording"} => UNCHANGED kv_vars /\ ~Listed(Feed, x.sig)
  PROVE  OnceInv'
<1>1. Feed' = Feed /\ doc' = doc /\ req'[r] = x
  BY DEF Feed, kv_vars, Await, Goto, BackedInv, Shapes
<1>2. Adds(todo[r], Feed) /\ Adds(todo'[r], Feed)
  BY DEF OnceInv, kv_vars, Await, BackedInv, Shapes
<1>3. \A w \in Requests : w = r
  BY DEF OneAtATime
<1>4. x.at \in {"verifying", "recording"} => todo'[r] = <<>>
  BY DEF kv_vars, Settled
<1> QED BY <1>1, <1>2, <1>3, <1>4 DEF OnceInv, Settled

(* The page, the chain or time moves on: the feed stays. *)
LEMMA OthersOnce ==
  ASSUME OnceInv, UNCHANGED <<req, todo, doc>>, Feed' = Feed
  PROVE  OnceInv'
BY DEF OnceInv, Settled

LEMMA ReadsOnce ==
  ASSUME OneAtATime, BackedInv, OnceInv, NEW r \in Requests, NEW x, Settled(r),
         GotoWith(r, x), x.at \notin {"verifying", "recording"} \/ ~Listed(Feed, x.sig)
  PROVE  OnceInv'
BY RequestOnce DEF GotoWith

LEMMA ConfirmOnce ==
  ASSUME OneAtATime, BackedInv, OnceInv, NEW r \in Requests, NEW q, NEW s,
         NEW claimed, NEW purpose, Confirm(r, q, s, claimed, purpose)
  PROVE  OnceInv'
<1>1. /\ Settled(r)
      /\ \/ GotoWith(r, IdleReq) \/ GotoWith(r, [at |-> "expired", sig |-> s])
         \/ GotoWith(r, [at |-> "looking", quote |-> q, sig |-> s, purpose |-> purpose])
  BY DEF Confirm, At, Answer
<1> QED BY <1>1, ReadsOnce DEF IdleReq

LEMMA PageOnce ==
  ASSUME PayoutsAssumption, OneAtATime, BackedInv, OnceInv, Page
  PROVE  OnceInv'
<1>1. ASSUME NEW r \in Requests, NEW q \in QuoteIds, NEW cents \in Cents,
             PageQuotes(r, q, cents)
      PROVE  OnceInv'
  <2>1. PICK rate \in Rates :
          /\ Goto(r, [at |-> "quoted", quote |-> q])
          /\ Await(r, kvSet(quote(q), QuoteOf(cents, rate)))
    BY <1>1 DEF PageQuotes
  <2>2. Settled(r) /\ Len(Feed) <= MaxList
    <3>1. todo[r] = <<>> /\ Adds(todo[r], Feed)
      BY <1>1 DEF PageQuotes, At, Settled, OnceInv
    <3> QED BY <3>1 DEF Adds, Settled
  <2> DEFINE value == QuoteOf(cents, rate)
  <2>3. Await(r, kvSet(quote(q), value)) /\ Goto(r, [at |-> "quoted", quote |-> q])
    BY <2>1
  <2> HIDE DEF value
  <2>4. Adds(kvSet(quote(q), value), Feed)
    BY <2>2, KeysDiffer DEF Adds, kvSet
  <2> QED BY <2>2, <2>3, <2>4, RequestOnce
<1>2. ASSUME NEW s \in Sigs, PageSends(s) PROVE OnceInv'
  BY <1>2, OthersOnce DEF PageSends, kv_vars, Feed
<1>3. CASE PageConfirmed \/ PageEnds
  BY <1>3, OthersOnce DEF PageConfirmed, PageEnds, kv_vars, Feed
<1>4. ASSUME NEW r \in Requests, PagePosts(r) PROVE OnceInv'
  BY <1>4, ConfirmOnce DEF PagePosts
<1> QED BY <1>1, <1>2, <1>3, <1>4 DEF Page

(* A read of the list shows all of it: what it does not show is not listed. *)
LEMMA LookUpOnce ==
  ASSUME PayoutsAssumption, OneAtATime, BackedInv, OnceInv, NEW r \in Requests, LookUp(r)
  PROVE  OnceInv'
<1>1. /\ Settled(r) /\ req[r].at = "looking"
      /\ \/ GotoWith(r, IdleReq)
         \/ ~AlreadyListed(req[r].sig) /\ GotoWith(r, [req[r] EXCEPT !.at = "verifying"])
  BY DEF LookUp, At, Answer, Moved
<1>2. Len(Feed) <= MaxList /\ MaxList \in Nat
  <2>1. todo[r] = <<>> /\ Adds(todo[r], Feed)
    BY <1>1 DEF Settled, OnceInv
  <2> QED BY <2>1 DEF Adds, PayoutsAssumption
<1>3. kvListRead(payouts, MaxList) = Feed
  BY <1>2, FeedRecords, WholeRead DEF kvListRead, Feed
<1>4. [req[r] EXCEPT !.at = "verifying"].sig = req[r].sig
  BY <1>1, ConfirmLocals DEF Places
<1>5. ~AlreadyListed(req[r].sig) => ~Listed(Feed, req[r].sig)
  BY <1>3 DEF AlreadyListed, Listed
<1> QED BY <1>1, <1>4, <1>5, ReadsOnce DEF IdleReq

LEMMA VerifyOnce ==
  ASSUME OneAtATime, BackedInv, OnceInv, NEW r \in Requests, Verify(r)
  PROVE  OnceInv'
<1>1. /\ Settled(r) /\ req[r].at = "verifying"
      /\ \/ GotoWith(r, IdleReq) \/ GotoWith(r, [req[r] EXCEPT !.at = "recording"])
  BY DEF Verify, At, Answer, Moved
<1>2. ~Listed(Feed, req[r].sig)
  BY <1>1 DEF OnceInv
<1>3. [req[r] EXCEPT !.at = "recording"].sig = req[r].sig
  BY <1>1, ConfirmLocals DEF Places
<1> QED BY <1>1, <1>2, <1>3, ReadsOnce DEF IdleReq

LEMMA RecordOnce ==
  ASSUME OneAtATime, BackedInv, OnceInv, NEW r \in Requests, Record(r)
  PROVE  OnceInv'
<1> DEFINE p == [sig |-> req[r].sig, quote |-> req[r].quote, purpose |-> req[r].purpose]
<1>1. /\ Settled(r) /\ req[r].at = "recording" /\ Goto(r, [req[r] EXCEPT !.at = "recorded"])
      /\ Await(r, kvListPush(payouts, p, MaxList))
  BY DEF Record, At, Moved
<1>2. ~Listed(Feed, req[r].sig) /\ todo[r] = <<>> /\ Len(Feed) <= MaxList
  <2>1. Adds(todo[r], Feed) /\ todo[r] = <<>>
    BY <1>1 DEF OnceInv, Settled
  <2> QED BY <1>1, <2>1 DEF OnceInv, Adds
<1>3. /\ [req[r] EXCEPT !.at = "recorded"].at = "recorded"
      /\ p \in [sig : Sigs, quote : QuoteIds, purpose : BOOLEAN] /\ p.sig = req[r].sig
  BY <1>1, ConfirmLocals DEF Places
<1> HIDE DEF p
<1>4. kvListPush(payouts, p, MaxList) = <<Push(p), Trim>>
  BY DEF kvListPush, Push, Trim
<1>5. Adds(kvListPush(payouts, p, MaxList), Feed)
  BY <1>2, <1>3, <1>4 DEF Adds
<1> QED BY <1>1, <1>3, <1>5, RequestOnce

LEMMA DropOnce ==
  ASSUME PayoutsAssumption, OneAtATime, BackedInv, OnceInv, NEW r \in Requests, DropQuote(r)
  PROVE  OnceInv'
<1>1. /\ Settled(r) /\ req[r].at = "recorded" /\ Goto(r, IdleReq)
      /\ Await(r, kvSet(quote(req[r].quote), NoEntry))
  BY DEF DropQuote, At
<1>2. Len(Feed) <= MaxList
  <2>1. Adds(todo[r], Feed) /\ todo[r] = <<>>
    BY <1>1 DEF OnceInv, Settled
  <2> QED BY <2>1 DEF Adds
<1>3. Adds(kvSet(quote(req[r].quote), NoEntry), Feed)
  BY <1>2, KeysDiffer DEF Adds, kvSet
<1> QED BY <1>1, <1>3, RequestOnce DEF IdleReq

LEMMA StoreOnce ==
  ASSUME PayoutsAssumption, OneAtATime, BackedInv, OnceInv, NEW r \in Requests, StoreActs(r)
  PROVE  OnceInv'
<1>1. /\ req' = req /\ \A w \in Requests : w = r
      /\ Distinct(Feed) /\ Adds(todo[r], Feed) /\ Feed \in Seq(Records)
      /\ GoodWrite(todo[r], quotes, transfers) /\ GoodEntries(store, quotes, transfers)
      /\ doc[r] # NoDoc => /\ Backend = "gist" /\ ListOf(doc[r][payouts]) = Feed
                           /\ GoodEntries(doc[r], quotes, transfers)
  BY FeedRecords DEF StoreActs, OneAtATime, OnceInv, BackedInv, GoodWrites, GoodDocs
<1>2. todo[r] # <<>> => req[r].at \notin {"verifying", "recording"}
  BY DEF OnceInv, Settled
(* It is enough to look at the feed, the rest of the write, and the document. *)
<1>3. ASSUME NEW feed, feed = Feed', Distinct(feed), Adds(todo'[r], feed), todo[r] # <<>>,
             doc'[r] # NoDoc => Backend = "gist" /\ ListOf(doc'[r][payouts]) = feed
      PROVE  OnceInv'
  BY <1>1, <1>2, <1>3 DEF OnceInv
<1>4. CASE RedisCommand(r)
  <2>1. /\ Backend = "redis" /\ todo[r] # <<>> /\ doc'[r] = NoDoc
        /\ store' = Applied(store, Head(todo[r])) /\ todo'[r] = Tail(todo[r])
    BY <1>1, <1>4 DEF RedisCommand, Settled, BackedInv, Shapes
  <2>2. GoodCommand(Head(todo[r]), quotes, transfers)
    BY <1>1, <2>1, WriteParts
  <2>3. CASE Len(todo[r]) = 1 /\ todo[r][1].cmd = "set" /\ todo[r][1].key # payouts
    <3>1. /\ todo'[r] = <<>> /\ Head(todo[r]).cmd = "set" /\ Head(todo[r]).key # payouts
          /\ Len(Feed) <= MaxList
      <4>1. \E c : todo[r] = <<c>>
        BY <1>1, <2>1, <2>3 DEF GoodWrite
      <4>2. todo[r] # <<Trim>>
        BY <2>3 DEF Trim
      <4> QED BY <1>1, <2>1, <2>3, <4>1, <4>2 DEF Adds
    <3>2. Head(todo[r]).key \in Keys
      BY <2>2, <3>1, KeysDiffer DEF GoodCommand
    <3>3. Feed' = Feed
      BY <1>1, <2>1, <3>1, <3>2, AppliedFeed DEF Feed
    <3> QED BY <1>1, <1>3, <2>1, <3>1, <3>3 DEF Adds
  <2>4. ASSUME NEW p \in Records, todo[r] = <<Push(p), Trim>>, ~Listed(Feed, p.sig)
        PROVE  OnceInv'
    <3>1. Head(todo[r]) = Push(p) /\ todo'[r] = <<Trim>>
      BY <2>1, <2>4
    <3>2. store'[payouts] = <<p>> \o Feed
      BY <1>1, <2>1, <3>1, AppliedFeed, PushAndTrim DEF Feed
    <3>3. Distinct(<<p>> \o Feed) /\ <<p>> \o Feed \in Seq(Records)
      BY <1>1, <2>4, PushedOnce, ConcatProperties
    <3>4. Distinct(ListOf(<<p>> \o Feed))
      BY <3>3, EntryOnce
    <3>5. Adds(todo'[r], ListOf(<<p>> \o Feed))
      BY <2>1, <3>1 DEF Adds
    <3> QED BY <1>3, <2>1, <3>2, <3>4, <3>5 DEF Feed
  <2>5. CASE todo[r] = <<Trim>>
    <3>1. Head(todo[r]) = Trim /\ todo'[r] = <<>>
      BY <2>1, <2>5
    <3>2. store'[payouts] = FirstOf(Feed, MaxList)
      BY <1>1, <2>1, <3>1, AppliedFeed, PushAndTrim DEF Feed
    <3>3. /\ Distinct(ListOf(FirstOf(Feed, MaxList)))
          /\ Len(ListOf(FirstOf(Feed, MaxList))) <= MaxList
      BY <1>1, TrimmedEntry
    <3> QED BY <1>3, <2>1, <3>1, <3>2, <3>3 DEF Feed, Adds
  <2> QED BY <1>1, <2>1, <2>3, <2>4, <2>5 DEF Adds, Records
<1>5. CASE GistLoad(r)
  <2>1. /\ Backend = "gist" /\ todo[r] # <<>> /\ todo' = todo /\ store' = store
        /\ doc'[r] = store
    BY <1>5 DEF GistLoad, Settled, BackedInv, Shapes
  <2>2. Feed' = Feed /\ ListOf(doc'[r][payouts]) = Feed
    BY <2>1 DEF Feed
  <2> QED BY <1>1, <1>3, <2>1, <2>2
<1>6. CASE GistSave(r)
  <2>1. /\ todo[r] # <<>> /\ doc[r] # NoDoc /\ store' = Executed(doc[r], todo[r])
        /\ todo'[r] = <<>> /\ doc'[r] = NoDoc
    BY <1>6 DEF GistSave, Settled, BackedInv, Shapes
  <2>2. /\ Distinct(ListOf(Executed(doc[r], todo[r])[payouts]))
        /\ Len(ListOf(Executed(doc[r], todo[r])[payouts])) <= MaxList
    BY <1>1, <2>1, DoneOnce
  <2> QED BY <1>3, <2>1, <2>2 DEF Feed, Adds
<1> QED BY <1>4, <1>5, <1>6 DEF StoreActs, KvStep

(* A stop where documents are saved whole leaves the feed as it was. *)
LEMMA StopOnce ==
  ASSUME OneAtATime, BackedInv, OnceInv, NEW r \in Requests, Stop(r)
  PROVE  OnceInv'
<1>1. /\ Backend = "gist" /\ Feed' = Feed /\ todo'[r] = <<>> /\ doc'[r] = NoDoc
      /\ req'[r] = IdleReq /\ \A w \in Requests : w = r
  BY DEF Stop, Abandon, Goto, OneAtATime, Feed, BackedInv, Shapes
<1>2. Adds(todo[r], Feed)
  BY DEF OnceInv
<1>3. Len(Feed) <= MaxList
  BY <1>1, <1>2 DEF Adds
<1> QED BY <1>1, <1>3 DEF OnceInv, Adds, IdleReq

LEMMA TickOnce ==
  ASSUME PayoutsAssumption, OnceInv, Tick
  PROVE  OnceInv'
<1>1. store'[payouts] = store[payouts] /\ UNCHANGED <<req, todo, doc>>
  BY KeysDiffer DEF Tick
<1> QED BY <1>1, OthersOnce DEF Feed

LEMMA OnceStep ==
  ASSUME PayoutsAssumption, OneAtATime, BackedInv, OnceInv, [Next]_vars
  PROVE  OnceInv'
<1>1. ASSUME NEW r \in Requests, Handler(r) PROVE OnceInv'
  <2>1. CASE AnswerQuote(r) \/ AnswerExpired(r)
    <3>1. Settled(r) /\ GotoWith(r, IdleReq)
      BY <2>1 DEF AnswerQuote, AnswerExpired, At, Answer
    <3> QED BY <3>1, ReadsOnce DEF IdleReq
  <2> QED BY <1>1, <2>1, LookUpOnce, VerifyOnce, RecordOnce, DropOnce, StoreOnce DEF Handler
<1>2. ASSUME NEW r \in Requests, NEW q \in QuoteIds, NEW s \in Sigs, NEW claimed \in Cents,
             NEW purpose \in BOOLEAN, PostByHand(r, q, s, claimed, purpose)
      PROVE  OnceInv'
  BY <1>2, ConfirmOnce DEF PostByHand
<1>3. ASSUME NEW s \in Sigs, ExecuteTransfer(s) PROVE OnceInv'
  BY <1>3, OthersOnce DEF ExecuteTransfer, kv_vars, Feed
<1>4. CASE UNCHANGED vars
  BY <1>4, OthersOnce DEF vars, kv_vars, Feed
<1> QED BY <1>1, <1>2, <1>3, <1>4, PageOnce, StopOnce, TickOnce DEF Next

LEMMA OnceIsOnePayout ==
  ASSUME BackedInv, OnceInv
  PROVE  OnePayoutPerTransfer
<1>1. SUFFICES ASSUME NEW s \in Sigs PROVE Booked(s) <= 1
  BY DEF OnePayoutPerTransfer
<1> DEFINE places == {i \in DOMAIN Feed : Feed[i].sig = s}
<1>2. \A i, j \in places : i = j
  BY DEF OnceInv, Distinct
<1>3. CASE places = {}
  BY <1>3, FS_EmptySet DEF Booked
<1>4. CASE places # {}
  <2>1. PICK i \in places : places = {i}
    BY <1>2, <1>4
  <2>2. Cardinality(places) = 1
    BY <2>1, FS_Singleton
  <2> QED BY <2>2 DEF Booked
<1> QED BY <1>3, <1>4

(* "Idempotent by `transferSig`" (data-model.md:108): with one request at a time,  *)
(* and no stop between the two commands of a push, a transfer is listed as one     *)
(* payout however often it is reported, whatever expires, fails or times out.      *)
THEOREM OnePayoutAlways ==
  ASSUME PayoutsAssumption, OneAtATime
  PROVE  Spec => []OnePayoutPerTransfer
<1>1. Init => BackedInv /\ OnceInv
  BY BackedInit, OnceInit
<1>2. BackedInv /\ OnceInv /\ [Next]_vars => BackedInv' /\ OnceInv'
  BY BackedStep, OnceStep
<1>3. BackedInv /\ OnceInv => OnePayoutPerTransfer
  BY OnceIsOnePayout
<1> QED BY <1>1, <1>2, <1>3, PTL DEF Spec

-----------------------------------------------------------------------------
(* The faucet, an instance over the same store.  A window with claims in it began   *)
(* no later than one of the mints was asked for: said of the stored state, of a      *)
(* write under way, of a loaded document and of what a request holds.             *)

CONSTANTS FirstClaim, Daily, Day, Ttl
VARIABLES mints, ata

Faucet == INSTANCE Faucet WITH txs <- mints

Explained(st, ms) ==
  st.claimed > 0 => \E s \in Sigs : ms[s] # Faucet!Unsent /\ ms[s].asked >= st.windowStart

Entries == [state : Faucet!States, born : Nat]
GoodState(st, ms, t) ==
  st \in Faucet!States /\ st.windowStart <= t /\ Explained(st, ms)
GoodEntry(e, ms, t) == e = NoEntry \/ (e \in Entries /\ GoodState(e.state, ms, t))

GoodSave(w, ms, t) ==
  \/ w = <<>>
  \/ \E e \in Entries : w = Faucet!kvSet(Faucet!faucetKey, e) /\ GoodState(e.state, ms, t)

Own(x, ms) == ms[x.sig] # Faucet!Unsent /\ ms[x.sig].asked = x.asked
GoodClaim(x, ms, t) ==
  \/ x = Faucet!IdleReq \/ x = [at |-> "refused"]
  \/ /\ \/ x \in [at : {"minting"}, state : Faucet!States, asked : Nat]
        \/ x \in [at : {"sending"}, state : Faucet!States, asked : Nat, create : BOOLEAN]
        \/ /\ x \in [at : {"confirming", "saving", "answering"}, state : Faucet!States,
                     asked : Nat, sig : Sigs]
           /\ Own(x, ms)
     /\ x.state.windowStart <= x.asked /\ x.asked <= t

Mint == [state : {"sent", "ok", "failed"}, amount : Nat, create : BOOLEAN, asked : Nat]

ClaimsInv ==
  /\ now \in Nat
  /\ mints = [s \in Sigs |-> mints[s]]
  /\ \A s \in Sigs : mints[s] = Faucet!Unsent \/ mints[s] \in Mint
  /\ store = [k \in Keys |-> store[k]]
  /\ GoodEntry(store[Faucet!faucetKey], mints, now)
  /\ todo = [r \in Requests |-> todo[r]] /\ doc = [r \in Requests |-> doc[r]]
  /\ req = [r \in Requests |-> req[r]]
  /\ \A r \in Requests : GoodSave(todo[r], mints, now)
  /\ \A r \in Requests : doc[r] # NoDoc =>
       doc[r] = [k \in Keys |-> doc[r][k]] /\ GoodEntry(doc[r][Faucet!faucetKey], mints, now)
  /\ \A r \in Requests : GoodClaim(req[r], mints, now)

LEMMA ClaimsInit ==
  ASSUME Faucet!FaucetAssumption, Faucet!Init
  PROVE  ClaimsInv
<1>1. now = 0 /\ mints = [s \in Sigs |-> Faucet!Unsent]
  BY DEF Faucet!Init, Faucet!FaucetInit
<1>2. /\ store = [k \in Keys |-> NoEntry] /\ todo = [r \in Requests |-> <<>>]
      /\ doc = [r \in Requests |-> NoDoc] /\ Faucet!faucetKey \in Keys
      /\ req = [r \in Requests |-> Faucet!IdleReq]
  BY DEF Faucet!Init, Faucet!KvInit, Faucet!FaucetAssumption
<1>3. GoodEntry(store[Faucet!faucetKey], mints, now)
  <2>1. \A k \in Keys : store[k] = NoEntry
    BY <1>2
  <2> QED BY <1>2, <2>1 DEF GoodEntry
<1> QED BY <1>1, <1>2, <1>3 DEF ClaimsInv, GoodSave, GoodClaim

(* What is sent stays sent, and as it was asked for. *)
Stands ==
  /\ now \in Nat /\ now' \in Nat /\ now <= now'
  /\ \A s \in Sigs : mints[s] # Faucet!Unsent =>
       mints'[s] # Faucet!Unsent /\ mints'[s].asked = mints[s].asked

LEMMA StandsGood ==
  ASSUME Stands
  PROVE  /\ \A e : GoodEntry(e, mints, now) => GoodEntry(e, mints', now')
         /\ \A w : GoodSave(w, mints, now) => GoodSave(w, mints', now')
         /\ \A x : GoodClaim(x, mints, now) => GoodClaim(x, mints', now')
<1>1. \A st : GoodState(st, mints, now) => GoodState(st, mints', now')
  <2>1. \A st : Explained(st, mints) => Explained(st, mints')
    BY DEF Explained, Stands
  <2>2. \A n \in Nat : n <= now => n <= now'
    BY DEF Stands
  <2> QED BY <2>1, <2>2 DEF GoodState, Faucet!States
<1>2. \A e : GoodEntry(e, mints, now) => GoodEntry(e, mints', now')
  BY <1>1 DEF GoodEntry
<1>3. \A w : GoodSave(w, mints, now) => GoodSave(w, mints', now')
  BY <1>1 DEF GoodSave
<1>4. ASSUME NEW x, GoodClaim(x, mints, now) PROVE GoodClaim(x, mints', now')
  <2>1. x.sig \in Sigs /\ Own(x, mints) => Own(x, mints')
    BY DEF Own, Stands
  <2>2. \A n \in Nat : n <= now => n <= now'
    BY DEF Stands
  <2> QED BY <1>4, <2>1, <2>2 DEF GoodClaim
<1> QED BY <1>2, <1>3, <1>4

(* A request that goes on: its own state is all there is to look at, and what it  *)
(* sends or starts to write. *)
LEMMA ClaimGoes ==
  ASSUME ClaimsInv, NEW r \in Requests, NEW x, req' = [req EXCEPT ![r] = x],
         NEW w, todo' = [todo EXCEPT ![r] = w], UNCHANGED <<store, doc, now>>,
         mints' = [s \in Sigs |-> mints'[s]], Stands,
         \A s \in Sigs : mints'[s] = Faucet!Unsent \/ mints'[s] \in Mint,
         GoodClaim(x, mints', now), GoodSave(w, mints', now)
  PROVE  ClaimsInv'
<1>1. /\ req' = [v \in Requests |-> req'[v]]
      /\ \A v \in Requests : req'[v] = IF v = r THEN x ELSE req[v]
  BY DEF ClaimsInv
<1>2. /\ todo' = [v \in Requests |-> todo'[v]]
      /\ \A v \in Requests : todo'[v] = IF v = r THEN w ELSE todo[v]
  BY DEF ClaimsInv
<1>3. \A v \in Requests : GoodClaim(req'[v], mints', now') /\ GoodSave(todo'[v], mints', now')
  BY <1>1, <1>2, StandsGood DEF ClaimsInv
<1>4. GoodEntry(store'[Faucet!faucetKey], mints', now')
  BY StandsGood DEF ClaimsInv
<1>5. \A v \in Requests : doc'[v] # NoDoc =>
        /\ doc'[v] = [k \in Keys |-> doc'[v][k]]
        /\ GoodEntry(doc'[v][Faucet!faucetKey], mints', now')
  BY StandsGood DEF ClaimsInv
<1>6. store' = [k \in Keys |-> store'[k]] /\ doc' = [v \in Requests |-> doc'[v]] /\ now' \in Nat
  BY DEF ClaimsInv
<1> QED BY <1>1, <1>2, <1>3, <1>4, <1>5, <1>6 DEF ClaimsInv

(* A step that reads, or waits. *)
LEMMA ClaimReads ==
  ASSUME ClaimsInv, NEW r \in Requests, NEW x, Faucet!GotoWith(r, x),
         UNCHANGED <<mints, now>>, GoodClaim(x, mints, now)
  PROVE  ClaimsInv'
<1>1. todo' = [todo EXCEPT ![r] = todo[r]]
  BY DEF Faucet!GotoWith, Faucet!kv_vars, ClaimsInv
<1>2. Stands /\ GoodSave(todo[r], mints', now)
  BY DEF Stands, ClaimsInv
<1>3. /\ mints' = [s \in Sigs |-> mints'[s]] /\ GoodClaim(x, mints', now)
      /\ \A s \in Sigs : mints'[s] = Faucet!Unsent \/ mints'[s] \in Mint
  BY DEF ClaimsInv
<1>4. req' = [req EXCEPT ![r] = x] /\ UNCHANGED <<store, doc, now>>
  BY DEF Faucet!GotoWith, Faucet!Goto, Faucet!kv_vars
<1> QED BY <1>1, <1>2, <1>3, <1>4, ClaimGoes

LEMMA StateRead ==
  ASSUME Faucet!FaucetAssumption, ClaimsInv
  PROVE  Faucet!FaucetState \in Faucet!States /\ Faucet!FaucetState.windowStart <= now
<1>1. Faucet!NewState \in Faucet!States /\ Faucet!NewState.windowStart = now
  BY DEF Faucet!NewState, Faucet!States, ClaimsInv
<1>2. ASSUME NEW st \in Faucet!States, st.windowStart <= now
      PROVE  Faucet!Refilled(st) \in Faucet!States /\ Faucet!Refilled(st).windowStart <= now
  <2>1. /\ [st EXCEPT !.windowStart = now, !.claimed = 0] \in Faucet!States
        /\ [st EXCEPT !.windowStart = now, !.claimed = 0].windowStart = now
    BY DEF Faucet!States, ClaimsInv
  <2>2. now <= now
    BY DEF ClaimsInv
  <2> QED BY <1>2, <2>1, <2>2 DEF Faucet!Refilled
<1>3. ASSUME Faucet!kvGet(Faucet!faucetKey) # NoEntry 
      PROVE  /\ Faucet!kvGet(Faucet!faucetKey).state \in Faucet!States
             /\ Faucet!kvGet(Faucet!faucetKey).state.windowStart <= now
  BY <1>3 DEF Faucet!kvGet, ClaimsInv, GoodEntry, GoodState
<1>4. now \in Nat /\ now <= now
  BY DEF ClaimsInv
<1> QED BY <1>1, <1>2, <1>3, <1>4 DEF Faucet!FaucetState

LEMMA ClaimKept ==
  ASSUME Faucet!FaucetAssumption, ClaimsInv, NEW r \in Requests, Faucet!Claim(r)
  PROVE  ClaimsInv'
<1> DEFINE x == IF Faucet!RateLimited(Faucet!FaucetState)
                THEN [at |-> "refused"]
                ELSE [at |-> "minting", state |-> Faucet!FaucetState, asked |-> now]
<1>1. Faucet!GotoWith(r, x) /\ UNCHANGED <<mints, now>>
  BY DEF Faucet!Claim
<1>2. GoodClaim(x, mints, now)
  <2>1. now \in Nat /\ now <= now
    BY DEF ClaimsInv
  <2>2. CASE Faucet!RateLimited(Faucet!FaucetState)
    BY <2>2 DEF GoodClaim
  <2>3. CASE ~Faucet!RateLimited(Faucet!FaucetState)
    BY <2>1, <2>3, StateRead DEF GoodClaim
  <2> QED BY <2>2, <2>3
<1> HIDE DEF x
<1> QED BY <1>1, <1>2, ClaimReads

LEMMA AtaKept ==
  ASSUME ClaimsInv, NEW r \in Requests, Faucet!ensureAta(r), ata \in BOOLEAN
  PROVE  ClaimsInv'
<1> DEFINE x == [at |-> "sending", state |-> req[r].state, asked |-> req[r].asked,
                 create |-> ~ata]
<1>1. Faucet!GotoWith(r, x) /\ UNCHANGED <<mints, now>> /\ req[r].at = "minting"
  BY DEF Faucet!ensureAta, Faucet!At
<1>2. req[r] \in [at : {"minting"}, state : Faucet!States, asked : Nat]
      /\ req[r].state.windowStart <= req[r].asked /\ req[r].asked <= now
  BY <1>1 DEF ClaimsInv, GoodClaim, Faucet!IdleReq
<1>3. GoodClaim(x, mints, now)
  BY <1>2 DEF GoodClaim
<1> HIDE DEF x
<1> QED BY <1>1, <1>3, ClaimReads

LEMMA SendKept ==
  ASSUME Faucet!FaucetAssumption, ClaimsInv, NEW r \in Requests, NEW s \in Sigs,
         Faucet!Send(r, s)
  PROVE  ClaimsInv'
<1>1. req[r].at = "sending" /\ mints[s] = Faucet!Unsent
  BY DEF Faucet!Send, Faucet!At
<1>2. /\ req[r] \in [at : {"sending"}, state : Faucet!States, asked : Nat, create : BOOLEAN]
      /\ req[r].state.windowStart <= req[r].asked /\ req[r].asked <= now
  BY <1>1 DEF ClaimsInv, GoodClaim, Faucet!IdleReq
<1>3. CASE req[r].create /\ ata
  BY <1>3, ClaimReads DEF Faucet!Send, GoodClaim
<1>4. CASE ~(req[r].create /\ ata)
  <2> DEFINE m == [state |-> "sent", amount |-> Faucet!Amount(req[r].state),
                   create |-> req[r].create, asked |-> req[r].asked]
             x == [at |-> "confirming", state |-> req[r].state, asked |-> req[r].asked,
                   sig |-> s]
  <2>1. /\ mints' = [mints EXCEPT ![s] = m] /\ Faucet!GotoWith(r, x)
        /\ now' = now
    BY <1>4 DEF Faucet!Send
  <2>2. m \in Mint /\ m.asked = req[r].asked /\ m # Faucet!Unsent
    BY <1>2 DEF Mint, Faucet!Amount, Faucet!FaucetAssumption, Faucet!Unsent
  <2>3. /\ x \in [at : {"confirming", "saving", "answering"}, state : Faucet!States,
                  asked : Nat, sig : Sigs]
        /\ x.state.windowStart <= x.asked /\ x.asked <= now /\ x.sig = s
        /\ x.asked = req[r].asked
    BY <1>2
  <2> HIDE DEF m, x
  <2>4. /\ mints' = [v \in Sigs |-> mints'[v]]
        /\ \A v \in Sigs : mints'[v] = IF v = s THEN m ELSE mints[v]
    BY <2>1 DEF ClaimsInv
  <2>5. Stands /\ \A v \in Sigs : mints'[v] = Faucet!Unsent \/ mints'[v] \in Mint
    BY <1>1, <2>1, <2>2, <2>4 DEF Stands, ClaimsInv
  <2>6. GoodClaim(x, mints', now)
    BY <2>2, <2>3, <2>4 DEF GoodClaim, Own
  <2>7. GoodSave(todo[r], mints', now)
    BY <2>1, <2>5, StandsGood DEF ClaimsInv
  <2>8. /\ todo' = [todo EXCEPT ![r] = todo[r]] /\ req' = [req EXCEPT ![r] = x]
        /\ UNCHANGED <<store, doc, now>>
    BY <2>1 DEF Faucet!GotoWith, Faucet!Goto, Faucet!kv_vars, ClaimsInv
  <2> QED BY <2>4, <2>5, <2>6, <2>7, <2>8, ClaimGoes
<1> QED BY <1>3, <1>4

LEMMA Minted ==
  ASSUME ClaimsInv, NEW r \in Requests, req[r].at \in {"confirming", "saving", "answering"}
  PROVE  /\ req[r] \in [at : {"confirming", "saving", "answering"}, state : Faucet!States,
                        asked : Nat, sig : Sigs]
         /\ req[r].state.windowStart <= req[r].asked /\ req[r].asked <= now
         /\ Own(req[r], mints)
<1>1. GoodClaim(req[r], mints, now)
  BY DEF ClaimsInv
<1>2. req[r].at \notin {"idle", "refused", "minting", "sending"}
  OBVIOUS
<1> QED BY <1>1, <1>2 DEF GoodClaim, Faucet!IdleReq

LEMMA ConfirmKept ==
  ASSUME ClaimsInv, NEW r \in Requests, Faucet!ConfirmTransaction(r)
  PROVE  ClaimsInv'
<1>1. req[r].at = "confirming" /\ UNCHANGED <<mints, now>>
  BY DEF Faucet!ConfirmTransaction, Faucet!At
<1>2. /\ req[r] \in [at : {"confirming", "saving", "answering"}, state : Faucet!States,
                     asked : Nat, sig : Sigs]
      /\ req[r].state.windowStart <= req[r].asked /\ req[r].asked <= now
      /\ Own(req[r], mints)
  BY <1>1, Minted
<1>3. GoodClaim(Faucet!Moved(r, "saving"), mints, now) /\ GoodClaim(Faucet!IdleReq, mints, now)
  BY <1>2 DEF GoodClaim, Faucet!Moved, Own
<1> QED BY <1>1, <1>3, ClaimReads DEF Faucet!ConfirmTransaction

LEMMA SaveKept ==
  ASSUME Faucet!FaucetAssumption, ClaimsInv, NEW r \in Requests, Faucet!Save(r)
  PROVE  ClaimsInv'
<1>1. req[r].at = "saving" /\ UNCHANGED <<mints, now>>
  BY DEF Faucet!Save, Faucet!At
<1>2. /\ req[r] \in [at : {"confirming", "saving", "answering"}, state : Faucet!States,
                     asked : Nat, sig : Sigs]
      /\ req[r].state.windowStart <= req[r].asked /\ req[r].asked <= now
      /\ Own(req[r], mints)
  BY <1>1, Minted
<1> DEFINE s == req[r].state
           after == [s EXCEPT !.everClaimed = TRUE, !.claimed = @ + Faucet!Amount(s)]
           e == [state |-> after, born |-> now]
<1>3. /\ todo' = [todo EXCEPT ![r] = Faucet!kvSet(Faucet!faucetKey, e)]
      /\ UNCHANGED <<store, doc, now>>
      /\ req' = [req EXCEPT ![r] = Faucet!Moved(r, "answering")]
  BY DEF Faucet!Save, Faucet!Await, Faucet!Goto
<1>4. /\ after \in Faucet!States /\ after.windowStart = s.windowStart
  <2>1. s.claimed + Faucet!Amount(s) \in Nat
    BY <1>2 DEF Faucet!States, Faucet!Amount, Faucet!FaucetAssumption
  <2> QED BY <1>2, <2>1 DEF Faucet!States
<1>5. e \in Entries /\ e.state = after
  BY <1>4 DEF Entries, ClaimsInv
<1>6. GoodState(after, mints, now)
  BY <1>2, <1>4 DEF GoodState, Explained, Own, ClaimsInv, Faucet!States
<1> HIDE DEF e, after
<1>7. GoodSave(Faucet!kvSet(Faucet!faucetKey, e), mints, now)
  BY <1>5, <1>6 DEF GoodSave
<1>8. GoodClaim(Faucet!Moved(r, "answering"), mints, now)
  BY <1>2 DEF GoodClaim, Faucet!Moved, Own
<1>9. Stands /\ mints' = [v \in Sigs |-> mints'[v]]
      /\ \A v \in Sigs : mints'[v] = Faucet!Unsent \/ mints'[v] \in Mint
  BY <1>1 DEF Stands, ClaimsInv
<1> QED BY <1>1, <1>3, <1>7, <1>8, <1>9, ClaimGoes

(* The chain executes a mint: the request waiting for it does not change. *)
LEMMA ExecuteKept ==
  ASSUME ClaimsInv, NEW s \in Sigs, Faucet!Execute(s)
  PROVE  ClaimsInv'
<1>1. PICK end \in {"failed", "ok"} : mints' = [mints EXCEPT ![s].state = end]
  BY DEF Faucet!Execute
<1>2. /\ mints[s].state = "sent" /\ mints[s] \in Mint /\ UNCHANGED <<store, todo, doc, req, now>>
  BY DEF Faucet!Execute, Faucet!kv_vars, ClaimsInv, Faucet!Unsent
<1> DEFINE m == [mints[s] EXCEPT !.state = end]
<1>3. m \in Mint /\ m.asked = mints[s].asked /\ m.state \in {"failed", "ok"}
  BY <1>1, <1>2 DEF Mint
<1>4. m # Faucet!Unsent
  BY <1>3 DEF Faucet!Unsent
<1>5. /\ mints' = [v \in Sigs |-> mints'[v]]
      /\ \A v \in Sigs : mints'[v] = IF v = s THEN m ELSE mints[v]
  BY <1>1 DEF ClaimsInv
<1> HIDE DEF m
<1>6. Stands /\ \A v \in Sigs : mints'[v] = Faucet!Unsent \/ mints'[v] \in Mint
  BY <1>2, <1>3, <1>4, <1>5 DEF Stands, ClaimsInv
<1> QED BY <1>2, <1>5, <1>6, StandsGood DEF ClaimsInv

LEMMA ClaimTick ==
  ASSUME Faucet!FaucetAssumption, ClaimsInv, Faucet!Tick
  PROVE  ClaimsInv'
<1>1. now' = now + 1 /\ UNCHANGED <<mints, todo, doc, req>>
  BY DEF Faucet!Tick
<1>2. Stands
  BY <1>1 DEF Stands, ClaimsInv
<1>3. /\ store' = [k \in Keys |-> store'[k]]
      /\ store'[Faucet!faucetKey] \in {store[Faucet!faucetKey], NoEntry}
  <2>1. PICK e : /\ store' = [store EXCEPT ![Faucet!faucetKey] = e]
                 /\ e \in {store[Faucet!faucetKey], NoEntry}
    BY DEF Faucet!Tick
  <2> QED BY <2>1 DEF ClaimsInv, Faucet!FaucetAssumption
<1>4. GoodEntry(store'[Faucet!faucetKey], mints', now')
  BY <1>2, <1>3, StandsGood DEF ClaimsInv, GoodEntry
<1> QED BY <1>1, <1>2, <1>3, <1>4, StandsGood DEF ClaimsInv, Stands

LEMMA ClaimStops ==
  ASSUME ClaimsInv, NEW r \in Requests, Faucet!Stop(r)
  PROVE  ClaimsInv'
<1>1. /\ todo' = [todo EXCEPT ![r] = <<>>] /\ doc' = [doc EXCEPT ![r] = NoDoc]
      /\ req' = [req EXCEPT ![r] = Faucet!IdleReq] /\ UNCHANGED <<store, mints, now>>
  BY DEF Faucet!Stop, Faucet!Abandon, Faucet!Goto
<1> QED BY <1>1 DEF ClaimsInv, GoodSave, GoodClaim

LEMMA ClaimStored ==
  ASSUME Faucet!FaucetAssumption, ClaimsInv, NEW r \in Requests, Faucet!StoreActs(r)
  PROVE  ClaimsInv'
<1>1. UNCHANGED <<req, mints, now>> /\ Faucet!KvStep(r)
  BY DEF Faucet!StoreActs
<1>2. ASSUME NEW e, e = [k \in Keys |-> e[k]], NEW c \in Entries,
             GoodState(c.state, mints, now)
      PROVE  /\ Faucet!Applied(e, Faucet!kvSet(Faucet!faucetKey, c)[1])
                   = [k \in Keys |-> Faucet!Applied(e, Faucet!kvSet(Faucet!faucetKey, c)[1])[k]]
             /\ GoodEntry(Faucet!Applied(e, Faucet!kvSet(Faucet!faucetKey, c)[1])[Faucet!faucetKey],
                          mints, now)
             /\ Len(Faucet!kvSet(Faucet!faucetKey, c)) = 1
             /\ Head(Faucet!kvSet(Faucet!faucetKey, c)) = Faucet!kvSet(Faucet!faucetKey, c)[1]
             /\ Tail(Faucet!kvSet(Faucet!faucetKey, c)) = <<>>
  <2> DEFINE d == [cmd |-> "set", key |-> Faucet!faucetKey, value |-> c]
  <2>1. Faucet!kvSet(Faucet!faucetKey, c) = <<d>>
    BY DEF Faucet!kvSet
  <2>2. Faucet!Applied(e, d) = [e EXCEPT ![Faucet!faucetKey] = c]
    BY DEF Faucet!Applied, Faucet!Changed
  <2>3. [e EXCEPT ![Faucet!faucetKey] = c][Faucet!faucetKey] = c
    BY <1>2 DEF Faucet!FaucetAssumption
  <2> QED BY <1>2, <2>1, <2>2, <2>3 DEF GoodEntry
<1>3. ASSUME todo[r] # <<>>
      PROVE  \E c \in Entries : /\ todo[r] = Faucet!kvSet(Faucet!faucetKey, c)
                               /\ GoodState(c.state, mints, now)
  BY <1>3 DEF ClaimsInv, GoodSave
<1>4. CASE Faucet!RedisCommand(r)
  <2>1. /\ todo[r] # <<>> /\ store' = Faucet!Applied(store, Head(todo[r]))
        /\ todo' = [todo EXCEPT ![r] = Tail(@)] /\ doc' = doc
    BY <1>4 DEF Faucet!RedisCommand, Faucet!Settled
  <2>2. /\ store' = [k \in Keys |-> store'[k]] /\ GoodEntry(store'[Faucet!faucetKey], mints, now)
        /\ Tail(todo[r]) = <<>>
    BY <1>2, <1>3, <2>1 DEF ClaimsInv
  <2> QED BY <1>1, <2>1, <2>2 DEF ClaimsInv, GoodSave
<1>5. CASE Faucet!GistLoad(r)
  BY <1>1, <1>5 DEF Faucet!GistLoad, ClaimsInv
<1>6. CASE Faucet!GistSave(r)
  <2>1. /\ todo[r] # <<>> /\ doc[r] # NoDoc /\ store' = Faucet!Executed(doc[r], todo[r])
        /\ todo' = [todo EXCEPT ![r] = <<>>] /\ doc' = [doc EXCEPT ![r] = NoDoc]
    BY <1>6 DEF Faucet!GistSave, Faucet!Settled
  <2>2. /\ store' = [k \in Keys |-> store'[k]] /\ GoodEntry(store'[Faucet!faucetKey], mints, now)
    <3>1. PICK c \in Entries : /\ todo[r] = Faucet!kvSet(Faucet!faucetKey, c)
                               /\ GoodState(c.state, mints, now)
      BY <1>3, <2>1
    <3>2. Faucet!Executed(doc[r], Faucet!kvSet(Faucet!faucetKey, c))
            = Faucet!Applied(doc[r], Faucet!kvSet(Faucet!faucetKey, c)[1])
      BY <1>2, <2>1, <3>1 DEF ClaimsInv, Faucet!Executed
    <3>3. doc[r] = [k \in Keys |-> doc[r][k]]
      BY <2>1 DEF ClaimsInv
    <3>4. store' = Faucet!Applied(doc[r], Faucet!kvSet(Faucet!faucetKey, c)[1])
      BY <2>1, <3>1, <3>2
    <3> QED BY <1>2, <3>1, <3>3, <3>4
  <2> QED BY <1>1, <2>1, <2>2 DEF ClaimsInv, GoodSave
<1> QED BY <1>1, <1>4, <1>5, <1>6 DEF Faucet!KvStep

FaucetInv == ClaimsInv /\ ata \in BOOLEAN

LEMMA FaucetStep ==
  ASSUME Faucet!FaucetAssumption, FaucetInv, [Faucet!Next]_(Faucet!vars)
  PROVE  FaucetInv'
<1> USE DEF FaucetInv
<1>1. ata' \in BOOLEAN
  BY DEF Faucet!Next, Faucet!vars, Faucet!Claim, Faucet!AnswerRefused, Faucet!ensureAta,
     Faucet!Send, Faucet!ConfirmTransaction, Faucet!Save, Faucet!AnswerClaimed,
     Faucet!StoreActs, Faucet!Stop, Faucet!Execute, Faucet!OpenAccount, Faucet!Tick
<1>2. ASSUME NEW r \in Requests, Faucet!AnswerRefused(r) \/ Faucet!AnswerClaimed(r)
      PROVE  ClaimsInv'
  BY <1>2, ClaimReads DEF Faucet!AnswerRefused, Faucet!AnswerClaimed, GoodClaim
<1>3. CASE UNCHANGED Faucet!vars \/ Faucet!OpenAccount
  BY <1>3 DEF Faucet!vars, Faucet!kv_vars, Faucet!OpenAccount, ClaimsInv
<1> QED BY <1>1, <1>2, <1>3, ClaimKept, AtaKept, SendKept, ConfirmKept, SaveKept, ExecuteKept,
     ClaimTick, ClaimStops, ClaimStored DEF Faucet!Next

(* A request that is refused read a window that is still open and has claims in it. *)
LEMMA RefusalExplained ==
  ASSUME Faucet!FaucetAssumption, ClaimsInv, NEW r \in Requests, Faucet!Claim(r),
         Faucet!RateLimited(Faucet!FaucetState)
  PROVE  \E s \in Sigs : mints[s] # Faucet!Unsent /\ now <= mints[s].asked + Day
<1> DEFINE e == store[Faucet!faucetKey]
<1>1. e # NoEntry /\ Faucet!FaucetState = Faucet!Refilled(e.state)
  <2>1. Faucet!Refilled(Faucet!NewState).everClaimed = FALSE
    BY DEF Faucet!Refilled, Faucet!NewState
  <2> QED BY <2>1 DEF Faucet!FaucetState, Faucet!RateLimited, Faucet!kvGet
<1>2. /\ e.state \in Faucet!States /\ e.state.windowStart <= now
      /\ Explained(e.state, mints)
  BY <1>1 DEF ClaimsInv, GoodEntry, GoodState
<1> HIDE DEF e
<1>3. Faucet!Refilled(e.state).claimed >= Daily /\ Daily \in Nat /\ Daily > 0 /\ Day \in Nat
  BY <1>1 DEF Faucet!RateLimited, Faucet!FaucetAssumption
<1>4. ~(now - e.state.windowStart > Day) /\ e.state.claimed > 0
  BY <1>2, <1>3 DEF Faucet!Refilled, Faucet!States
<1>5. PICK s \in Sigs : mints[s] # Faucet!Unsent /\ mints[s].asked >= e.state.windowStart
  BY <1>2, <1>4 DEF Explained
<1>6. mints[s].asked \in Nat /\ now \in Nat /\ e.state.windowStart \in Nat
  BY <1>2, <1>5 DEF ClaimsInv, Mint, Faucet!States
<1>7. now <= mints[s].asked + Day
  BY <1>3, <1>4, <1>5, <1>6
<1> QED BY <1>5, <1>7

LEMMA OnlyClaimsRefuse ==
  ASSUME Faucet!FaucetAssumption, ClaimsInv, [Faucet!Next]_(Faucet!vars), NEW r \in Requests,
         req[r].at = "idle", req'[r].at = "refused"
  PROVE  Faucet!Claim(r) /\ Faucet!RateLimited(Faucet!FaucetState)
<1>1. req' # req
  OBVIOUS
<1>2. ASSUME NEW w \in Requests, w # r, NEW x, Faucet!Goto(w, x) PROVE FALSE
  BY <1>2 DEF Faucet!Goto, ClaimsInv
<1>3. ASSUME NEW x, Faucet!Goto(r, x) PROVE x.at = "refused"
  BY <1>3 DEF Faucet!Goto, ClaimsInv
<1>4. ASSUME NEW w \in Requests, NEW x, Faucet!Goto(w, x) PROVE w = r /\ x.at = "refused"
  BY <1>2, <1>3, <1>4
<1>5. ASSUME NEW w \in Requests, 
             \/ Faucet!AnswerRefused(w) \/ Faucet!ensureAta(w)
             \/ (\E s \in Sigs : Faucet!Send(w, s)) \/ Faucet!ConfirmTransaction(w)
             \/ Faucet!Save(w) \/ Faucet!AnswerClaimed(w)
      PROVE  FALSE
  <2>1. req[w].at # "idle"
    BY <1>5 DEF Faucet!AnswerRefused, Faucet!ensureAta, Faucet!Send, Faucet!ConfirmTransaction,
       Faucet!Save, Faucet!AnswerClaimed, Faucet!At
  <2>2. \E x : Faucet!Goto(w, x)
    BY <1>5 DEF Faucet!AnswerRefused, Faucet!ensureAta, Faucet!Send, Faucet!ConfirmTransaction,
       Faucet!Save, Faucet!AnswerClaimed, Faucet!GotoWith
  <2> QED BY <1>4, <2>1, <2>2
<1>6. ASSUME NEW w \in Requests, Faucet!Stop(w) PROVE FALSE
  BY <1>4, <1>6 DEF Faucet!Stop, Faucet!IdleReq
<1>7. ASSUME NEW w \in Requests, Faucet!StoreActs(w) PROVE FALSE
  BY <1>1, <1>7 DEF Faucet!StoreActs
<1>8. ASSUME NEW s \in Sigs, Faucet!Execute(s) PROVE FALSE
  BY <1>1, <1>8 DEF Faucet!Execute
<1>9. PICK w \in Requests : Faucet!Claim(w)
  BY <1>1, <1>5, <1>6, <1>7, <1>8 DEF Faucet!Next, Faucet!OpenAccount, Faucet!Tick, Faucet!vars
<1> DEFINE x == IF Faucet!RateLimited(Faucet!FaucetState)
                THEN [at |-> "refused"]
                ELSE [at |-> "minting", state |-> Faucet!FaucetState, asked |-> now]
<1>10. Faucet!Goto(w, x)
  BY <1>9 DEF Faucet!Claim, Faucet!GotoWith
<1>11. w = r /\ x.at = "refused"
  BY <1>4, <1>10
<1> QED BY <1>9, <1>11

(* "then up to 10,000 dUSDC per 24 h" (parameters.md:328): whatever overlaps, stops, *)
(* times out or expires, the faucet refuses only a wallet that was sent test money   *)
(* within the day.                                                             *)
THEOREM RefusedWithinDayAlways ==
  ASSUME Faucet!FaucetAssumption
  PROVE  Faucet!Spec => Faucet!RefusedWithinDay
<1>1. Faucet!Init => FaucetInv
  BY ClaimsInit DEF Faucet!Init, Faucet!FaucetInit, FaucetInv
<1>2. FaucetInv /\ [Faucet!Next]_(Faucet!vars) => FaucetInv'
  BY FaucetStep
<1>3. FaucetInv /\ [Faucet!Next]_(Faucet!vars)
        => [Faucet!Refusal => Faucet!ClaimedWithinDay]_(Faucet!vars)
  BY OnlyClaimsRefuse, RefusalExplained
     DEF Faucet!Refusal, Faucet!ClaimedWithinDay, FaucetInv
<1> QED BY <1>1, <1>2, <1>3, PTL DEF Faucet!Spec, Faucet!RefusedWithinDay

-----------------------------------------------------------------------------
(* One claim at a time.  The mint a request waits for is not on record yet; of all  *)
(* the others the record, or the lack of one, says that they were asked for long    *)
(* enough ago.                                                                 *)

OneClaim == (\A r, w \in Requests : r = w) /\ ~Timeouts /\ ~Stops

Sent(ms)      == {s \in Sigs : ms[s] # Faucet!Unsent}
Past(x, ms)   == IF x.at \in {"confirming", "saving"} THEN Sent(ms) \ {x.sig} ELSE Sent(ms)
Written(e, w) == IF w = <<>> THEN e ELSE w[1].value

Recorded(e, S, ms, t) ==
  \/ e = NoEntry /\ \A s \in S : ms[s].asked + Day < t
  \/ /\ e \in Entries /\ e # NoEntry
     /\ e.state.everClaimed /\ e.state.claimed >= Daily
     /\ e.state.windowStart <= e.born
     /\ \A s \in S : ms[s].asked <= e.state.windowStart

Fresh(x, ms) ==
  /\ x.state.windowStart = x.asked /\ x.state.claimed = 0
  /\ \A s \in Past(x, ms) : ms[s].asked + Day < x.asked

Granted == {"minting", "sending", "confirming", "saving"}
InTurn(x, e, w, ms, t) ==
  /\ Recorded(Written(e, w), Past(x, ms), ms, t)
  /\ (w # <<>> => x.at = "answering")
  /\ (x.at \in Granted => Fresh(x, ms))

Spread(ms) ==
  \A s, v \in Sent(ms) :
    s # v => (ms[s].asked > ms[v].asked + Day \/ ms[v].asked > ms[s].asked + Day)

DailyInv ==
  /\ FaucetInv /\ Spread(mints)
  /\ \A r \in Requests : InTurn(req[r], store[Faucet!faucetKey], todo[r], mints, now)

LEMMA DailyInit ==
  ASSUME Faucet!FaucetAssumption, Faucet!Init
  PROVE  DailyInv
<1>1. FaucetInv
  BY ClaimsInit DEF Faucet!Init, Faucet!FaucetInit, FaucetInv
<1>2. /\ \A k \in Keys : store[k] = NoEntry
      /\ \A r \in Requests : todo[r] = <<>> /\ req[r] = [at |-> "idle"]
      /\ Faucet!faucetKey \in Keys
  BY DEF Faucet!Init, Faucet!KvInit, Faucet!FaucetAssumption, Faucet!IdleReq
<1>3. Sent(mints) = {}
  BY DEF Faucet!Init, Faucet!FaucetInit, Sent
<1>4. ASSUME NEW r \in Requests
      PROVE  InTurn(req[r], store[Faucet!faucetKey], todo[r], mints, now)
  <2>1. Written(store[Faucet!faucetKey], todo[r]) = NoEntry
    BY <1>2 DEF Written
  <2>2. Past(req[r], mints) = {} /\ req[r].at = "idle"
    BY <1>2, <1>3 DEF Past
  <2> QED BY <1>2, <2>1, <2>2 DEF InTurn, Recorded, Granted
<1> QED BY <1>1, <1>3, <1>4 DEF DailyInv, Spread

(* What is said of the mints stays true as time passes and the chain executes. *)
Lasting ==
  /\ Sent(mints') = Sent(mints)
  /\ \A s \in Sent(mints) : mints'[s].asked = mints[s].asked

LEMMA SentTypes ==
  ASSUME FaucetInv
  PROVE  \A s \in Sent(mints) : s \in Sigs /\ mints[s].asked \in Nat
BY DEF FaucetInv, ClaimsInv, Sent, Mint

LEMMA LastingKept ==
  ASSUME Faucet!FaucetAssumption, FaucetInv, Lasting, now' \in Nat, now <= now'
  PROVE  /\ Spread(mints) => Spread(mints')
         /\ \A x, e, w : InTurn(x, e, w, mints, now) => InTurn(x, e, w, mints', now')
<1>1. Spread(mints) => Spread(mints')
  BY DEF Spread, Lasting
<1>2. \A x : Past(x, mints') = Past(x, mints) /\ Past(x, mints) \subseteq Sent(mints)
  BY DEF Past, Lasting
<1>3. \A x : Fresh(x, mints) => Fresh(x, mints')
  BY <1>2 DEF Fresh, Lasting
<1>4. \A e, x : Recorded(e, Past(x, mints), mints, now) => Recorded(e, Past(x, mints'), mints', now')
  <2>1. now \in Nat /\ Day \in Nat
    BY DEF FaucetInv, ClaimsInv, Faucet!FaucetAssumption
  <2>2. \A n \in Nat : n + Day < now => n + Day < now'
    BY <2>1
  <2>3. \A x : \A s \in Past(x, mints) : mints[s].asked \in Nat /\ mints'[s].asked = mints[s].asked
    BY <1>2, SentTypes DEF Lasting
  <2> QED BY <1>2, <2>2, <2>3 DEF Recorded
<1> QED BY <1>1, <1>3, <1>4 DEF InTurn

(* A request that goes on without sending. *)
LEMMA TurnGoes ==
  ASSUME DailyInv, FaucetInv', OneClaim, NEW r \in Requests, UNCHANGED <<mints, now>>,
         InTurn(req'[r], store'[Faucet!faucetKey], todo'[r], mints, now)
  PROVE  DailyInv'
<1>1. \A w \in Requests : w = r
  BY DEF OneClaim
<1> QED BY <1>1 DEF DailyInv

LEMMA TurnReads ==
  ASSUME DailyInv, FaucetInv', OneClaim, NEW r \in Requests, NEW x, Faucet!GotoWith(r, x),
         UNCHANGED <<mints, now>>, todo[r] = <<>>,
         Past(x, mints) = Past(req[r], mints), x.at \in Granted => Fresh(x, mints)
  PROVE  DailyInv'
<1>1. /\ req'[r] = x /\ store'[Faucet!faucetKey] = store[Faucet!faucetKey] /\ todo'[r] = <<>>
  BY DEF Faucet!GotoWith, Faucet!Goto, Faucet!kv_vars, DailyInv, FaucetInv, ClaimsInv
<1>2. InTurn(x, store[Faucet!faucetKey], <<>>, mints, now)
  BY DEF DailyInv, InTurn
<1> QED BY <1>1, <1>2, TurnGoes

(* A claim is granted only when every mint on record is a day old. *)
LEMMA GrantIsFresh ==
  ASSUME Faucet!FaucetAssumption, ClaimsInv, NEW S,
         Recorded(store[Faucet!faucetKey], S, mints, now),
         \A s \in S : mints[s].asked \in Nat,
         ~Faucet!RateLimited(Faucet!FaucetState)
  PROVE  /\ Faucet!FaucetState.windowStart = now /\ Faucet!FaucetState.claimed = 0
         /\ \A s \in S : mints[s].asked + Day < now
<1> DEFINE e == store[Faucet!faucetKey]
<1>1. now \in Nat /\ Day \in Nat /\ Faucet!kvGet(Faucet!faucetKey) = e
  BY DEF ClaimsInv, Faucet!FaucetAssumption, Faucet!kvGet
<1> HIDE DEF e
<1>2. CASE e = NoEntry
  <2>1. \A s \in S : mints[s].asked + Day < now
    BY <1>2 DEF Recorded, e
  <2>2. ~(now - now > Day)
    BY <1>1
  <2>3. Faucet!FaucetState = Faucet!NewState
    BY <1>1, <1>2, <2>2 DEF Faucet!FaucetState, Faucet!Refilled, Faucet!NewState
  <2> QED BY <2>1, <2>3 DEF Faucet!NewState
<1>3. CASE e # NoEntry
  <2>1. /\ e.state \in Faucet!States /\ e.state.everClaimed /\ e.state.claimed >= Daily
        /\ \A s \in S : mints[s].asked <= e.state.windowStart
    BY <1>3 DEF Recorded, Entries, e
  <2>2. Faucet!FaucetState = Faucet!Refilled(e.state)
    BY <1>1, <1>3 DEF Faucet!FaucetState
  <2>3. now - e.state.windowStart > Day
    BY <2>1, <2>2 DEF Faucet!Refilled, Faucet!RateLimited
  <2>4. Faucet!Refilled(e.state) = [e.state EXCEPT !.windowStart = now, !.claimed = 0]
    BY <2>3 DEF Faucet!Refilled
  <2>5. e.state.windowStart \in Nat
    BY <2>1 DEF Faucet!States
  <2>6. \A s \in S : mints[s].asked + Day < now
    BY <1>1, <2>1, <2>3, <2>5
  <2> QED BY <2>1, <2>2, <2>4, <2>6 DEF Faucet!States
<1> QED BY <1>2, <1>3

LEMMA ClaimInTurn ==
  ASSUME Faucet!FaucetAssumption, OneClaim, DailyInv, FaucetInv', NEW r \in Requests,
         Faucet!Claim(r)
  PROVE  DailyInv'
<1> DEFINE x == IF Faucet!RateLimited(Faucet!FaucetState)
                THEN [at |-> "refused"]
                ELSE [at |-> "minting", state |-> Faucet!FaucetState, asked |-> now]
<1>1. /\ req[r].at = "idle" /\ todo[r] = <<>> /\ Faucet!GotoWith(r, x)
      /\ UNCHANGED <<mints, now>>
  BY DEF Faucet!Claim, Faucet!At, Faucet!Settled
<1>2. Past(req[r], mints) = Sent(mints) /\ Past(x, mints) = Sent(mints)
  BY <1>1 DEF Past
<1>3. Recorded(store[Faucet!faucetKey], Sent(mints), mints, now)
  BY <1>1, <1>2 DEF DailyInv, InTurn, Written
<1>4. ASSUME x.at \in Granted PROVE Fresh(x, mints)
  <2>1. ~Faucet!RateLimited(Faucet!FaucetState)
    BY <1>4 DEF Granted
  <2>2. /\ Faucet!FaucetState.windowStart = now /\ Faucet!FaucetState.claimed = 0
        /\ \A s \in Sent(mints) : mints[s].asked + Day < now
    BY <1>3, <2>1, GrantIsFresh, SentTypes DEF DailyInv, FaucetInv
  <2> QED BY <1>2, <2>1, <2>2 DEF Fresh
<1> HIDE DEF x
<1> QED BY <1>1, <1>2, <1>4, TurnReads

LEMMA AnswersInTurn ==
  ASSUME OneClaim, DailyInv, FaucetInv', NEW r \in Requests,
         Faucet!AnswerRefused(r) \/ Faucet!AnswerClaimed(r)
  PROVE  DailyInv'
<1>1. /\ req[r].at \in {"refused", "answering"} /\ todo[r] = <<>>
      /\ Faucet!GotoWith(r, Faucet!IdleReq) /\ UNCHANGED <<mints, now>>
  BY DEF Faucet!AnswerRefused, Faucet!AnswerClaimed, Faucet!At, Faucet!Settled
<1>2. /\ Past(req[r], mints) = Past(Faucet!IdleReq, mints)
      /\ Faucet!IdleReq.at \notin Granted
  BY <1>1 DEF Past, Faucet!IdleReq, Granted
<1> QED BY <1>1, <1>2, TurnReads

LEMMA AtaInTurn ==
  ASSUME OneClaim, DailyInv, FaucetInv', NEW r \in Requests, Faucet!ensureAta(r)
  PROVE  DailyInv'
<1> DEFINE x == [at |-> "sending", state |-> req[r].state, asked |-> req[r].asked,
                 create |-> ~ata]
<1>1. /\ req[r].at = "minting" /\ todo[r] = <<>>
      /\ Faucet!GotoWith(r, x) /\ UNCHANGED <<mints, now>>
  BY DEF Faucet!ensureAta, Faucet!At, Faucet!Settled
<1>2. /\ Past(req[r], mints) = Past(x, mints)
      /\ x.state = req[r].state /\ x.asked = req[r].asked
  BY <1>1 DEF Past
<1>3. Fresh(req[r], mints)
  BY <1>1 DEF DailyInv, InTurn, Granted
<1> HIDE DEF x
<1>4. Fresh(x, mints)
  BY <1>2, <1>3 DEF Fresh
<1> QED BY <1>1, <1>2, <1>4, TurnReads

LEMMA ConfirmInTurn ==
  ASSUME OneClaim, DailyInv, FaucetInv', NEW r \in Requests, Faucet!ConfirmTransaction(r)
  PROVE  DailyInv'
<1> DEFINE x == [req[r] EXCEPT !.at = "saving"]
<1>1. /\ req[r].at = "confirming" /\ todo[r] = <<>>
      /\ Faucet!GotoWith(r, x) /\ UNCHANGED <<mints, now>>
  BY DEF Faucet!ConfirmTransaction, Faucet!At, Faucet!Settled, OneClaim, Faucet!Moved
<1>2. req[r] \in [at : {"confirming", "saving", "answering"}, state : Faucet!States,
                  asked : Nat, sig : Sigs]
  BY <1>1, Minted DEF DailyInv, FaucetInv
<1>3. x.at = "saving" /\ x.state = req[r].state /\ x.asked = req[r].asked /\ x.sig = req[r].sig
  BY <1>2
<1> HIDE DEF x
<1>4. Fresh(req[r], mints) /\ Past(x, mints) = Past(req[r], mints)
  BY <1>1, <1>3 DEF DailyInv, InTurn, Granted, Past
<1>5. Fresh(x, mints)
  BY <1>3, <1>4 DEF Fresh
<1> QED BY <1>1, <1>4, <1>5, TurnReads

(* The mint that is sent was asked for a day after each of the others. *)
LEMMA SendInTurn ==
  ASSUME Faucet!FaucetAssumption, OneClaim, DailyInv, FaucetInv', NEW r \in Requests,
         NEW s \in Sigs, Faucet!Send(r, s)
  PROVE  DailyInv'
<1>1. req[r].at = "sending" /\ todo[r] = <<>> /\ mints[s] = Faucet!Unsent
  BY DEF Faucet!Send, Faucet!At, Faucet!Settled
<1>2. Fresh(req[r], mints) /\ Past(req[r], mints) = Sent(mints) /\ s \notin Sent(mints)
  BY <1>1 DEF DailyInv, InTurn, Granted, Past, Sent
<1>3. CASE req[r].create /\ ata
  <2>1. Faucet!GotoWith(r, Faucet!IdleReq) /\ UNCHANGED <<mints, now>>
    BY <1>3 DEF Faucet!Send
  <2>2. Past(Faucet!IdleReq, mints) = Sent(mints) /\ Faucet!IdleReq.at \notin Granted
    BY DEF Past, Faucet!IdleReq, Granted
  <2> QED BY <1>1, <1>2, <2>1, <2>2, TurnReads
<1>4. CASE ~(req[r].create /\ ata)
  <2> DEFINE m == [state |-> "sent", amount |-> Faucet!Amount(req[r].state),
                   create |-> req[r].create, asked |-> req[r].asked]
             x == [at |-> "confirming", state |-> req[r].state, asked |-> req[r].asked,
                   sig |-> s]
  <2>1. /\ mints' = [mints EXCEPT ![s] = m] /\ Faucet!GotoWith(r, x)
        /\ now' = now
    BY <1>4 DEF Faucet!Send
  <2>2. m.asked = req[r].asked /\ m # Faucet!Unsent
    BY DEF Faucet!Unsent
  <2>3. x.at = "confirming" /\ x.state = req[r].state /\ x.asked = req[r].asked /\ x.sig = s
    OBVIOUS
  <2>4. /\ req'[r] = x /\ store' = store /\ todo'[r] = <<>>
    BY <1>1, <2>1 DEF Faucet!GotoWith, Faucet!Goto, Faucet!kv_vars, DailyInv, FaucetInv, ClaimsInv
  <2> HIDE DEF m, x
  <2>5. \A v \in Sigs : mints'[v] = IF v = s THEN m ELSE mints[v]
    BY <2>1 DEF DailyInv, FaucetInv, ClaimsInv
  <2>6. Sent(mints') = Sent(mints) \cup {s} /\ mints'[s].asked = x.asked
        /\ \A v \in Sent(mints) : mints'[v] = mints[v] /\ v # s
    BY <1>2, <2>2, <2>3, <2>5 DEF Sent
  <2>7. Past(x, mints') = Sent(mints)
    BY <2>3, <2>6, <1>2 DEF Past
  <2>8. /\ x.state.windowStart = x.asked /\ x.state.claimed = 0
        /\ \A v \in Sent(mints) : mints'[v].asked + Day < x.asked
    BY <1>2, <2>3, <2>6 DEF Fresh
  <2>9. Recorded(store[Faucet!faucetKey], Sent(mints), mints', now)
    <3>1. Recorded(store[Faucet!faucetKey], Sent(mints), mints, now)
      BY <1>1, <1>2 DEF DailyInv, InTurn, Written
    <3> QED BY <2>6, <3>1 DEF Recorded
  <2>10. InTurn(x, store[Faucet!faucetKey], <<>>, mints', now)
    BY <2>3, <2>7, <2>8, <2>9 DEF InTurn, Written, Fresh
  <2>11. Spread(mints')
    <3>1. \A v \in Sent(mints) : mints[v].asked + Day < mints'[s].asked
      BY <2>6, <2>8
    <3> QED BY <2>6, <3>1 DEF Spread, DailyInv
  <2>12. \A w \in Requests : w = r
    BY DEF OneClaim
  <2> QED BY <2>1, <2>4, <2>10, <2>11, <2>12 DEF DailyInv
<1> QED BY <1>3, <1>4

LEMMA SaveInTurn ==
  ASSUME Faucet!FaucetAssumption, OneClaim, DailyInv, FaucetInv', NEW r \in Requests,
         Faucet!Save(r)
  PROVE  DailyInv'
<1> DEFINE s == req[r].state
           after == [s EXCEPT !.everClaimed = TRUE, !.claimed = @ + Faucet!Amount(s)]
           e == [state |-> after, born |-> now]
           x == [req[r] EXCEPT !.at = "answering"]
<1>1. req[r].at = "saving" /\ UNCHANGED <<mints, now>>
  BY DEF Faucet!Save, Faucet!At
<1>2. /\ req[r] \in [at : {"confirming", "saving", "answering"}, state : Faucet!States,
                     asked : Nat, sig : Sigs]
      /\ req[r].asked <= now /\ Own(req[r], mints)
  BY <1>1, Minted DEF DailyInv, FaucetInv
<1>3. /\ todo' = [todo EXCEPT ![r] = Faucet!kvSet(Faucet!faucetKey, e)]
      /\ req' = [req EXCEPT ![r] = x]
  BY DEF Faucet!Save, Faucet!Await, Faucet!Goto, Faucet!Moved
<1>4. /\ todo'[r] = Faucet!kvSet(Faucet!faucetKey, e) /\ req'[r] = x
  BY <1>3 DEF DailyInv, FaucetInv, ClaimsInv
<1>5. x.at = "answering" /\ Past(x, mints) = Sent(mints)
  BY <1>2 DEF Past
<1>6. Fresh(req[r], mints) /\ Past(req[r], mints) = Sent(mints) \ {req[r].sig}
  BY <1>1 DEF DailyInv, InTurn, Granted, Past
<1>7. s.claimed = 0 /\ s.windowStart = req[r].asked /\ s \in Faucet!States
  BY <1>2, <1>6 DEF Fresh
<1>8. /\ Faucet!Amount(s) \in Nat /\ Faucet!Amount(s) >= Daily
  BY DEF Faucet!Amount, Faucet!FaucetAssumption
<1>9. /\ after \in Faucet!States /\ after.windowStart = req[r].asked /\ after.everClaimed
      /\ after.claimed >= Daily
  <2>1. s.claimed + Faucet!Amount(s) \in Nat /\ s.claimed + Faucet!Amount(s) >= Daily
    BY <1>7, <1>8
  <2>2. /\ after.claimed = s.claimed + Faucet!Amount(s) /\ after.everClaimed
        /\ after.windowStart = s.windowStart
    BY <1>7 DEF Faucet!States
  <2> QED BY <1>7, <2>1, <2>2 DEF Faucet!States
<1>10. /\ e \in Entries /\ e # NoEntry /\ e.state = after /\ e.born = now
  <2>1. now \in Nat /\ NoEntry \notin Entries
    BY DEF DailyInv, FaucetInv, ClaimsInv, Faucet!FaucetAssumption, Entries
  <2> QED BY <1>9, <2>1 DEF Entries
<1> HIDE DEF e, after, s, x
<1>11. \A v \in Sent(mints) : mints[v].asked <= req[r].asked
  <2>1. Day \in Nat /\ req[r].asked \in Nat
    BY <1>2 DEF Faucet!FaucetAssumption
  <2>2. \A v \in Past(req[r], mints) : mints[v].asked + Day < req[r].asked
    BY <1>6 DEF Fresh
  <2>3. mints[req[r].sig].asked = req[r].asked
    BY <1>2 DEF Own
  <2> QED BY <1>6, <2>1, <2>2, <2>3, SentTypes DEF DailyInv
<1>12. Recorded(e, Sent(mints), mints, now)
  BY <1>2, <1>9, <1>10, <1>11 DEF Recorded
<1>13. Written(store'[Faucet!faucetKey], todo'[r]) = e
  BY <1>4 DEF Written, Faucet!kvSet
<1>14. InTurn(req'[r], store'[Faucet!faucetKey], todo'[r], mints, now)
  BY <1>4, <1>5, <1>12, <1>13 DEF InTurn, Granted
<1> QED BY <1>1, <1>14, TurnGoes

(* What the write will leave is the same before each of its commands. *)
LEMMA StoreInTurn ==
  ASSUME Faucet!FaucetAssumption, OneClaim, DailyInv, FaucetInv', NEW r \in Requests,
         Faucet!StoreActs(r)
  PROVE  DailyInv'
<1>1. UNCHANGED <<req, mints, now>> /\ Faucet!KvStep(r)
  BY DEF Faucet!StoreActs
<1>2. /\ todo = [v \in Requests |-> todo[v]] /\ store = [k \in Keys |-> store[k]]
      /\ Faucet!faucetKey \in Keys
      /\ doc[r] # NoDoc => doc[r] = [k \in Keys |-> doc[r][k]]
  BY DEF DailyInv, FaucetInv, ClaimsInv, Faucet!FaucetAssumption
<1>3. ASSUME todo[r] # <<>>
      PROVE  \E c \in Entries :
               todo[r] = <<[cmd |-> "set", key |-> Faucet!faucetKey, value |-> c]>>
  BY <1>3 DEF DailyInv, FaucetInv, ClaimsInv, GoodSave, Faucet!kvSet
<1>4. /\ Written(store'[Faucet!faucetKey], todo'[r]) = Written(store[Faucet!faucetKey], todo[r])
      /\ todo'[r] = <<>> \/ todo'[r] = todo[r]
  <2>1. ASSUME NEW c, NEW f, f = [k \in Keys |-> f[k]],
               NEW w, w = <<[cmd |-> "set", key |-> Faucet!faucetKey, value |-> c]>>
        PROVE  /\ Faucet!Executed(f, w)[Faucet!faucetKey] = c
               /\ Tail(w) = <<>> /\ w[1].value = c
    <3> DEFINE d == [cmd |-> "set", key |-> Faucet!faucetKey, value |-> c]
    <3>1. Faucet!Applied(f, d)[Faucet!faucetKey] = c
      BY <1>2, <2>1 DEF Faucet!Applied, Faucet!Changed
    <3>2. Head(<<d>>) = d /\ Tail(<<d>>) = <<>> /\ Len(<<d>>) = 1 /\ <<d>>[1] = d /\ d.value = c
      OBVIOUS
    <3> HIDE DEF d
    <3>3. Faucet!Executed(f, <<d>>) = Faucet!Applied(f, d)
      BY <3>2 DEF Faucet!Executed
    <3> QED BY <2>1, <3>1, <3>2, <3>3 DEF d
  <2>2. CASE Faucet!RedisCommand(r)
    <3>1. /\ todo[r] # <<>> /\ store' = Faucet!Applied(store, Head(todo[r]))
          /\ todo'[r] = Tail(todo[r])
      BY <1>2, <2>2 DEF Faucet!RedisCommand, Faucet!Settled
    <3>2. PICK c \in Entries :
            todo[r] = <<[cmd |-> "set", key |-> Faucet!faucetKey, value |-> c]>>
      BY <1>3, <3>1
    <3>3. /\ Faucet!Applied(store, Head(todo[r]))[Faucet!faucetKey] = c
          /\ Tail(todo[r]) = <<>> /\ todo[r][1].value = c
      <4>1. store = [k \in Keys |-> store[k]]
        BY <1>2
      <4>2. Tail(todo[r]) = <<>> /\ todo[r][1].value = c
        BY <2>1, <3>2, <4>1
      <4>3. Head(todo[r]) = [cmd |-> "set", key |-> Faucet!faucetKey, value |-> c]
        BY <3>2
      <4> DEFINE d == [cmd |-> "set", key |-> Faucet!faucetKey, value |-> c]
      <4>4. Faucet!Applied(store, d)[Faucet!faucetKey] = c
        BY <1>2, <4>1 DEF Faucet!Applied, Faucet!Changed
      <4> HIDE DEF d
      <4>5. Head(todo[r]) = d
        BY <4>3 DEF d
      <4> QED BY <4>2, <4>4, <4>5
    <3> QED BY <3>1, <3>2, <3>3 DEF Written
  <2>3. CASE Faucet!GistLoad(r)
    BY <2>3 DEF Faucet!GistLoad
  <2>4. CASE Faucet!GistSave(r)
    <3>1. /\ todo[r] # <<>> /\ doc[r] # NoDoc /\ store' = Faucet!Executed(doc[r], todo[r])
          /\ todo'[r] = <<>>
      BY <1>2, <2>4 DEF Faucet!GistSave, Faucet!Settled
    <3>2. PICK c \in Entries :
            todo[r] = <<[cmd |-> "set", key |-> Faucet!faucetKey, value |-> c]>>
      BY <1>3, <3>1
    <3>3. doc[r] = [k \in Keys |-> doc[r][k]]
      BY <1>2, <3>1
    <3>4. store'[Faucet!faucetKey] = c /\ todo'[r] = <<>> /\ todo[r][1].value = c
      BY <2>1, <3>1, <3>2, <3>3
    <3> QED BY <3>1, <3>4 DEF Written
  <2> QED BY <1>1, <2>2, <2>3, <2>4 DEF Faucet!KvStep
<1>5. InTurn(req[r], store[Faucet!faucetKey], todo[r], mints, now)
  BY DEF DailyInv
<1>6. InTurn(req'[r], store'[Faucet!faucetKey], todo'[r], mints, now)
  BY <1>1, <1>4, <1>5 DEF InTurn
<1> QED BY <1>1, <1>6, TurnGoes

LEMMA ExecuteInTurn ==
  ASSUME Faucet!FaucetAssumption, DailyInv, FaucetInv', NEW s \in Sigs, Faucet!Execute(s)
  PROVE  DailyInv'
<1>1. PICK end \in {"failed", "ok"} : mints' = [mints EXCEPT ![s].state = end]
  BY DEF Faucet!Execute
<1>2. /\ mints[s].state = "sent" /\ mints[s] \in Mint /\ UNCHANGED <<store, todo, req, now>>
  BY DEF Faucet!Execute, Faucet!kv_vars, DailyInv, FaucetInv, ClaimsInv, Faucet!Unsent
<1> DEFINE m == [mints[s] EXCEPT !.state = end]
<1>3. m.asked = mints[s].asked /\ m.state \in {"failed", "ok"}
  BY <1>1, <1>2 DEF Mint
<1>4. m # Faucet!Unsent /\ mints[s] # Faucet!Unsent
  BY <1>2, <1>3 DEF Faucet!Unsent
<1>5. \A v \in Sigs : mints'[v] = IF v = s THEN m ELSE mints[v]
  BY <1>1 DEF DailyInv, FaucetInv, ClaimsInv
<1> HIDE DEF m
<1>6. Lasting
  BY <1>3, <1>4, <1>5 DEF Lasting, Sent
<1>7. now' \in Nat /\ now <= now'
  BY <1>2 DEF DailyInv, FaucetInv, ClaimsInv
<1> QED BY <1>2, <1>6, <1>7, LastingKept DEF DailyInv

(* A record is dropped when all it told of is more than a day old. *)
LEMMA TickInTurn ==
  ASSUME Faucet!FaucetAssumption, DailyInv, FaucetInv', Faucet!Tick
  PROVE  DailyInv'
<1>1. now' = now + 1 /\ UNCHANGED <<mints, todo, req>>
  BY DEF Faucet!Tick
<1>2. now \in Nat /\ now' \in Nat /\ now <= now' /\ Lasting
  BY <1>1 DEF DailyInv, FaucetInv, ClaimsInv, Lasting
<1> DEFINE e == store[Faucet!faucetKey]
           gone == e # NoEntry /\ now' >= e.born + Ttl
<1>3. store'[Faucet!faucetKey] = IF gone THEN NoEntry ELSE e
  BY DEF Faucet!Tick, DailyInv, FaucetInv, ClaimsInv, Faucet!FaucetAssumption
<1>4. ASSUME NEW r \in Requests, gone, todo[r] = <<>>
      PROVE  InTurn(req[r], NoEntry, todo[r], mints, now')
  <2>1. Recorded(e, Past(req[r], mints), mints, now)
    BY <1>4 DEF DailyInv, InTurn, Written
  <2>2. /\ e \in Entries /\ e.state.windowStart <= e.born
        /\ \A s \in Past(req[r], mints) : mints[s].asked <= e.state.windowStart
    BY <1>4, <2>1 DEF Recorded
  <2>3. /\ e.born \in Nat /\ e.state.windowStart \in Nat
        /\ Day \in Nat /\ Ttl \in Nat /\ Day < Ttl
    BY <2>2 DEF Entries, Faucet!States, Faucet!FaucetAssumption
  <2>4. \A s \in Past(req[r], mints) : mints[s].asked \in Nat
    BY SentTypes DEF Past, DailyInv
  <2>5. \A s \in Past(req[r], mints) : mints[s].asked + Day < now'
    BY <1>2, <1>4, <2>2, <2>3, <2>4
  <2> QED BY <1>4, <2>5 DEF InTurn, Recorded, Written, DailyInv
<1>5. ASSUME NEW r \in Requests, NEW f, todo[r] # <<>> PROVE InTurn(req[r], f, todo[r], mints, now')
  BY <1>1, <1>2, <1>5, LastingKept DEF InTurn, Written, DailyInv
<1>6. ASSUME NEW r \in Requests PROVE InTurn(req[r], e, todo[r], mints, now')
  BY <1>1, <1>2, LastingKept DEF DailyInv
<1> HIDE DEF gone
<1>7. \A r \in Requests : InTurn(req[r], store'[Faucet!faucetKey], todo[r], mints, now')
  BY <1>3, <1>4, <1>5, <1>6
<1> QED BY <1>1, <1>7 DEF DailyInv

LEMMA DailyStep ==
  ASSUME Faucet!FaucetAssumption, OneClaim, DailyInv, [Faucet!Next]_(Faucet!vars)
  PROVE  DailyInv'
<1>1. FaucetInv'
  BY FaucetStep DEF DailyInv
<1>2. CASE UNCHANGED Faucet!vars \/ Faucet!OpenAccount
  BY <1>1, <1>2 DEF Faucet!vars, Faucet!kv_vars, Faucet!OpenAccount, DailyInv
<1>3. ASSUME NEW r \in Requests, Faucet!Stop(r) PROVE FALSE
  BY <1>3 DEF Faucet!Stop, OneClaim
<1> QED BY <1>1, <1>2, <1>3, ClaimInTurn, AnswersInTurn, AtaInTurn, ConfirmInTurn, SendInTurn,
     SaveInTurn, StoreInTurn, ExecuteInTurn, TickInTurn DEF Faucet!Next

(* "then up to 10,000 dUSDC per 24 h" (parameters.md:328): when claims do not overlap, *)
(* and the server neither stops nor gives up on a confirmation, no two claims that     *)
(* were granted were asked for within a day of each other.                         *)
THEOREM OncePerDayAlways ==
  ASSUME Faucet!FaucetAssumption, OneClaim
  PROVE  Faucet!Spec => []Faucet!OncePerDay
<1>1. Faucet!Init => DailyInv
  BY DailyInit
<1>2. DailyInv /\ [Faucet!Next]_(Faucet!vars) => DailyInv'
  BY DailyStep
<1>3. DailyInv => Faucet!OncePerDay
  <2>1. \A s \in Faucet!Given : s \in Sent(mints)
    BY DEF Faucet!Given, Sent, Faucet!Unsent
  <2> QED BY <2>1 DEF DailyInv, Spread, Faucet!OncePerDay
<1> QED BY <1>1, <1>2, <1>3, PTL DEF Faucet!Spec

-----------------------------------------------------------------------------
(* Lists that are filtered.  What Only computes by recursion is found by induction on   *)
(* how much of the list it has seen, as a least counterexample.                    *)

LEMMA LeastNumber ==
  ASSUME NEW n \in Nat, NEW I \in SUBSET (0 .. n), I # {}
  PROVE  \E i \in I : \A j \in I : i <= j
<1> DEFINE F == {0 .. i : i \in I}
<1>1. IsWellFoundedOn(StrictSubsetOrdering(0 .. n), SUBSET (0 .. n))
  <2>1. IsFiniteSet(0 .. n)
    BY FS_Interval
  <2> QED BY <2>1, FS_StrictSubsetOrderingWellFounded, FS_FiniteSubsetsOfFinite
<1>2. F \subseteq SUBSET (0 .. n) /\ F # {}
  <2>1. ASSUME NEW i \in I PROVE 0 .. i \in SUBSET (0 .. n)
    <3>1. i \in 0 .. n
      OBVIOUS
    <3> QED BY <3>1
  <2> QED BY <2>1
<1>3. PICK A \in F : \A B \in F : ~(<<B, A>> \in StrictSubsetOrdering(0 .. n))
  <2> HIDE DEF F
  <2> QED BY <1>1, <1>2, WFMin
<1>4. PICK i \in I : A = 0 .. i
  OBVIOUS
<1>5. ASSUME NEW j \in I, ~(i <= j) PROVE FALSE
  <2>1. i \in 0 .. n /\ j \in 0 .. n
    OBVIOUS
  <2>2. 0 .. j \subseteq 0 .. i /\ 0 .. j # 0 .. i /\ j < i
    <3>1. i \in 0 .. i /\ ~(i \in 0 .. j) /\ j < i
      BY <1>5, <2>1
    <3> QED BY <2>1, <3>1
  <2>3. <<0 .. j, A>> \in StrictSubsetOrdering(0 .. n)
    BY <1>2, <1>4, <2>1, <2>2 DEF StrictSubsetOrdering
  <2> QED BY <1>3, <2>3
<1> QED BY <1>5

FilterStep(g, list, S, n) ==
  IF n = 0 THEN <<>>
  ELSE IF list[n] \in S THEN Append(g[n - 1], list[n]) ELSE g[n - 1]
IsFilter(g, list, S, m) == g = [n \in 0 .. m |-> FilterStep(g, list, S, n)]

LEMMA FilterExists ==
  ASSUME NEW list, NEW S, NEW m \in Nat
  PROVE  \E g : IsFilter(g, list, S, m)
<1> DEFINE Without == {n \in 0 .. m : ~ \E g : IsFilter(g, list, S, n)}
<1>1. SUFFICES ASSUME Without # {} PROVE FALSE
  OBVIOUS
<1>2. PICK n \in Without : \A k \in Without : n <= k
  <2>1. Without \in SUBSET (0 .. m)
    OBVIOUS
  <2> HIDE DEF Without
  <2> QED BY <1>1, <2>1, LeastNumber
<1>3. n \in 0 .. m /\ ~ \E g : IsFilter(g, list, S, n)
  OBVIOUS
<1>4. n # 0
  <2>1. IsFilter([k \in 0 .. 0 |-> <<>>], list, S, 0)
    BY DEF IsFilter, FilterStep
  <2> QED BY <1>3, <2>1
<1>5. n - 1 \in 0 .. m /\ n - 1 \notin Without
  <2>1. n - 1 \in 0 .. m /\ ~(n <= n - 1)
    BY <1>3, <1>4
  <2> QED BY <1>2, <2>1
<1>6. PICK g : IsFilter(g, list, S, n - 1)
  BY <1>5
<1> DEFINE h == [k \in 0 .. n |-> IF k = n THEN FilterStep(g, list, S, n) ELSE g[k]]
<1>7. \A k \in 0 .. (n - 1) : h[k] = g[k] /\ g[k] = FilterStep(g, list, S, k)
  <2>1. \A k \in 0 .. (n - 1) : k \in 0 .. n /\ k # n
    BY <1>3
  <2>2. \A k \in 0 .. (n - 1) : g[k] = FilterStep(g, list, S, k)
    BY <1>6 DEF IsFilter
  <2> QED BY <2>1, <2>2
<1>8. \A k \in 0 .. n : h[k] = FilterStep(h, list, S, k)
  <2> SUFFICES ASSUME NEW k \in 0 .. n PROVE h[k] = FilterStep(h, list, S, k)
    OBVIOUS
  <2>1. k # 0 => k - 1 \in 0 .. (n - 1)
    BY <1>3
  <2>2. FilterStep(h, list, S, k) = FilterStep(g, list, S, k)
    <3>1. k # 0 => h[k - 1] = g[k - 1]
      BY <1>7, <2>1
    <3> HIDE DEF h
    <3> QED BY <3>1 DEF FilterStep
  <2>3. h[k] = FilterStep(g, list, S, k)
    <3>1. CASE k = n
      BY <3>1
    <3>2. CASE k # n
      <4>1. k \in 0 .. (n - 1)
        BY <1>3, <3>2
      <4> QED BY <1>7, <4>1
    <3> QED BY <3>1, <3>2
  <2> QED BY <2>2, <2>3
<1>9. IsFilter(h, list, S, n)
  <2>1. h = [k \in 0 .. n |-> h[k]]
    OBVIOUS
  <2> HIDE DEF h
  <2> QED BY <1>8, <2>1 DEF IsFilter
<1> QED BY <1>3, <1>9

(* What it keeps is in the list and in S, all of that, and in the order of the list. *)
KeepsFirst(g, list, S, R, n) ==
  LET T == {list[i] : i \in 1 .. n} \cap S
  IN  /\ g[n] \in Seq(T)
      /\ \A x \in T : \E i \in DOMAIN g[n] : g[n][i] = x
      /\ \A i, j \in DOMAIN g[n] : i < j => <<g[n][i], g[n][j]>> \in R

KeptAs(kept, T, R) ==
  /\ kept \in Seq(T)
  /\ \A x \in T : \E i \in DOMAIN kept : kept[i] = x
  /\ \A i, j \in DOMAIN kept : i < j => <<kept[i], kept[j]>> \in R

LEMMA OnlyKeeps ==
  ASSUME NEW list, NEW m \in Nat, m = Len(list), NEW S, NEW R,
         \A i, j \in 1 .. m : i < j => <<list[i], list[j]>> \in R,
         NEW T, T = {list[i] : i \in 1 .. m} \cap S, NEW kept, kept = Only(list, S)
  PROVE  KeptAs(kept, T, R)
<1> DEFINE g == CHOOSE f : IsFilter(f, list, S, m)
           Bad == {n \in 0 .. m : ~KeepsFirst(g, list, S, R, n)}
<1>1. IsFilter(g, list, S, m)
  BY FilterExists
<1>2. Only(list, S) = g[m]
  BY DEF Only, IsFilter, FilterStep
<1> HIDE DEF g
<1>3. \A n \in 0 .. m : g[n] = FilterStep(g, list, S, n)
  BY <1>1 DEF IsFilter
<1>4. ASSUME Bad # {} PROVE FALSE
  <2>1. PICK n \in Bad : \A k \in Bad : n <= k
    <3>1. Bad \in SUBSET (0 .. m)
      OBVIOUS
    <3> HIDE DEF Bad
    <3> QED BY <1>4, <3>1, LeastNumber
  <2>2. n \in 0 .. m /\ ~KeepsFirst(g, list, S, R, n)
    OBVIOUS
  <2>3. n # 0
    <3>1. ASSUME n = 0 PROVE FALSE
      <4>1. g[0] = <<>>
        BY <1>3 DEF FilterStep
      <4>2. {list[i] : i \in 1 .. 0} \cap S = {}
        OBVIOUS
      <4>3. KeepsFirst(g, list, S, R, 0)
        BY <4>1, <4>2 DEF KeepsFirst
      <4> QED BY <2>2, <3>1, <4>3
    <3> QED BY <3>1
  <2>4. n \in 1 .. m /\ n - 1 \in 0 .. m
    BY <2>2, <2>3
  <2>5. KeepsFirst(g, list, S, R, n - 1)
    <3>1. ~(n <= n - 1)
      BY <2>4
    <3> QED BY <2>1, <2>4, <3>1
  <2> DEFINE Before == {list[i] : i \in 1 .. (n - 1)}
             V == Before \cap S
             U == {list[i] : i \in 1 .. n} \cap S
             old == g[n - 1]
             new == g[n]
  <2>6. /\ old \in Seq(V)
        /\ \A x \in V : \E i \in DOMAIN old : old[i] = x
        /\ \A i, j \in DOMAIN old : i < j => <<old[i], old[j]>> \in R
    BY <2>5 DEF KeepsFirst
  <2>7. {list[i] : i \in 1 .. n} = Before \cup {list[n]}
    <3>1. 1 .. n = (1 .. (n - 1)) \cup {n}
      BY <2>4
    <3> QED BY <3>1
  <2>8. new = IF list[n] \in S THEN Append(old, list[n]) ELSE old
    BY <1>3, <2>4 DEF FilterStep
  <2>9. CASE list[n] \notin S
    <3>1. U = V /\ new = old
      BY <2>7, <2>8, <2>9
    <3> QED BY <2>2, <2>6, <3>1 DEF KeepsFirst
  <2>10. CASE list[n] \in S
    <3> DEFINE l == Len(old)
    <3>1. U = V \cup {list[n]} /\ new = Append(old, list[n])
      BY <2>7, <2>8, <2>10
    <3>2. l \in Nat /\ DOMAIN old = 1 .. l
      BY <2>6
    <3> HIDE DEF V, U, Before, old, new
    <3>3. old \in Seq(U)
      <4>1. old \in [1 .. l -> V] /\ V \subseteq U
        BY <2>6, <3>1
      <4>2. old \in [1 .. l -> U]
        BY <4>1
      <4> QED BY <3>2, <4>2
    <3>4. /\ new \in Seq(U) /\ DOMAIN new = 1 .. (l + 1) /\ new[l + 1] = list[n]
          /\ \A i \in 1 .. l : new[i] = old[i]
      BY <3>1, <3>2, <3>3
    <3>5. \A x \in U : \E i \in DOMAIN new : new[i] = x
      <4>1. l + 1 \in DOMAIN new /\ \A i \in DOMAIN old : i \in DOMAIN new /\ new[i] = old[i]
        BY <3>2, <3>4
      <4> QED BY <2>6, <3>1, <3>4, <4>1
    <3>6. ASSUME NEW i \in DOMAIN new, NEW j \in DOMAIN new, i < j
          PROVE  <<new[i], new[j]>> \in R
      <4>1. i \in 1 .. l /\ (j \in 1 .. l \/ j = l + 1)
        BY <3>2, <3>4, <3>6
      <4>2. CASE j \in 1 .. l
        BY <2>6, <3>2, <3>4, <3>6, <4>1, <4>2
      <4>3. CASE j = l + 1
        <5>1. old[i] \in V
          BY <2>6, <3>2, <4>1
        <5>2. PICK k \in 1 .. (n - 1) : list[k] = old[i]
          BY <5>1 DEF V, Before
        <5>3. k \in 1 .. m /\ n \in 1 .. m /\ k < n
          BY <2>4, <5>2
        <5>4. <<list[k], list[n]>> \in R
          BY <5>3
        <5> QED BY <3>4, <4>1, <4>3, <5>2, <5>4
      <4> QED BY <4>1, <4>2, <4>3
    <3>7. KeepsFirst(g, list, S, R, n)
      BY <3>4, <3>5, <3>6 DEF KeepsFirst, U, new
    <3> QED BY <2>2, <3>7
  <2> QED BY <2>9, <2>10
<1>5. KeepsFirst(g, list, S, R, m)
  BY <1>4
<1> QED BY <1>2, <1>5 DEF KeepsFirst, KeptAs

LEMMA OnlySome ==
  ASSUME NEW old, NEW L \in Seq(old), NEW S
  PROVE  /\ Only(L, S) \in Seq(old) /\ Only(L, S) \in Seq(S)
         /\ \A F : L \in Seq(F) => Only(L, S) \in Seq(F)
<1>1. PICK m \in Nat : m = Len(L) /\ DOMAIN L = 1 .. m
  OBVIOUS
<1> DEFINE T == {L[i] : i \in 1 .. m} \cap S
           Y == {L[i] : i \in 1 .. m}
<1>2. \A i, j \in 1 .. m : i < j => <<L[i], L[j]>> \in Y \X Y
  OBVIOUS
<1>3. Only(L, S) \in Seq(T)
  <2> DEFINE R == Y \X Y
             K == Only(L, S)
  <2>1. /\ m = Len(L) /\ T = {L[i] : i \in 1 .. m} \cap S /\ K = Only(L, S)
        /\ \A i, j \in 1 .. m : i < j => <<L[i], L[j]>> \in R
    BY <1>1, <1>2
  <2> HIDE DEF R, T, K
  <2>2. K \in Seq(T)
    <3>1. KeptAs(K, T, R)
      BY <2>1, OnlyKeeps
    <3> QED BY <3>1 DEF KeptAs
  <2> QED BY <2>2 DEF K
<1>4. T \subseteq S
  OBVIOUS
<1>5. \A F : L \in Seq(F) => T \subseteq F
  BY <1>1
<1> HIDE DEF T
<1> QED BY <1>3, <1>4, <1>5, SeqMonotonic

(* What is kept of a list without duplicates has none, and its elements are known. *)
AllApart(L) == \A m, n \in DOMAIN L : m < n => L[m] # L[n]
Elements(L) == {L[n] : n \in DOMAIN L}
Filtered(K, L, S, I) ==
  /\ K \in Seq(I) /\ Elements(K) = Elements(L) \cap S
  /\ AllApart(L) => AllApart(K)

LEMMA FilteredSet ==
  ASSUME NEW I, NEW L \in Seq(I), NEW S, NEW K, K = Only(L, S)
  PROVE  Filtered(K, L, S, I)
<1>1. PICK m \in Nat : m = Len(L) /\ DOMAIN L = 1 .. m
  OBVIOUS
<1>2. PICK T : T = {L[i] : i \in 1 .. m} \cap S
  OBVIOUS
<1>3. ASSUME NEW R, \A i, j \in 1 .. m : i < j => <<L[i], L[j]>> \in R
      PROVE  KeptAs(K, T, R)
  BY <1>1, <1>2, <1>3, OnlyKeeps
<1>4. K \in Seq(T) /\ \A x \in T : \E i \in DOMAIN K : K[i] = x
  <2>1. PICK R : R = I \X I
    OBVIOUS
  <2>2. \A i, j \in 1 .. m : i < j => <<L[i], L[j]>> \in R
    BY <1>1, <2>1
  <2>3. KeptAs(K, T, R)
    BY <1>3, <2>2
  <2> QED BY <2>3 DEF KeptAs
<1>5. {K[n] : n \in DOMAIN K} = T
  BY <1>4
<1>6. K \in Seq(I)
  BY OnlySome
<1>7. ASSUME AllApart(L) PROVE AllApart(K)
  <2>1. PICK R : R = {p \in I \X I : p[1] # p[2]}
    OBVIOUS
  <2>2. \A i, j \in 1 .. m : i < j => <<L[i], L[j]>> \in R
    BY <1>1, <1>7, <2>1 DEF AllApart
  <2>3. KeptAs(K, T, R)
    BY <1>3, <2>2
  <2>4. \A i, j \in DOMAIN K : i < j => <<K[i], K[j]>> \in R
    BY <2>3 DEF KeptAs
  <2> QED BY <2>1, <2>4 DEF AllApart
<1> QED BY <1>1, <1>2, <1>5, <1>6, <1>7 DEF Filtered, Elements

Extended(J, K, i, I) ==
  /\ J \in Seq(I) /\ Elements(J) = Elements(K) \cup {i}
  /\ AllApart(K) /\ i \notin Elements(K) => AllApart(J)

LEMMA AppendedSet ==
  ASSUME NEW I, NEW K \in Seq(I), NEW i \in I, NEW J, J = Append(K, i)
  PROVE  Extended(J, K, i, I)
<1>1. PICK m \in Nat : m = Len(K) /\ DOMAIN K = 1 .. m
  OBVIOUS
<1>2. J \in Seq(I) /\ DOMAIN J = 1 .. (m + 1) /\ J[m + 1] = i
      /\ \A n \in 1 .. m : J[n] = K[n]
  BY <1>1
<1>3. \A n \in 1 .. (m + 1) : n \in 1 .. m \/ n = m + 1
  OBVIOUS
<1>4. \A n \in 1 .. m : n \in 1 .. (m + 1)
  OBVIOUS
<1>5. \A y : y \in Elements(J) <=> y = i \/ \E n \in 1 .. m : K[n] = y
  <2>1. m + 1 \in 1 .. (m + 1)
    OBVIOUS
  <2> QED BY <1>2, <1>3, <1>4, <2>1 DEF Elements
<1>6. \A y : y \in Elements(K) <=> \E n \in 1 .. m : K[n] = y
  BY <1>1 DEF Elements
<1>7. ASSUME AllApart(K), i \notin Elements(K), NEW p \in DOMAIN J, NEW q \in DOMAIN J, p < q
      PROVE  J[p] # J[q]
  <2>1. p \in 1 .. m /\ J[p] = K[p]
    BY <1>2, <1>3, <1>7
  <2>2. CASE q = m + 1
    BY <1>2, <1>6, <1>7, <2>1, <2>2
  <2>3. CASE q \in 1 .. m
    BY <1>1, <1>2, <1>7, <2>1, <2>3 DEF AllApart
  <2> QED BY <1>2, <1>3, <2>2, <2>3
<1> QED BY <1>2, <1>5, <1>6, <1>7 DEF Extended, AllApart

-----------------------------------------------------------------------------
(* One request at a time: the store as it will be after the write under way. *)
Leads(V, r) ==
  \/ todo[r] = <<>> /\ doc[r] = NoDoc /\ V = store
  \/ \E k \in Keys : \E v :
       /\ todo[r] = kvSet(k, v) /\ V = [store EXCEPT ![k] = v]
       /\ doc[r] = NoDoc \/ (Backend = "gist" /\ doc[r] = store)

LEMMA SettledLeads ==
  ASSUME NEW r, NEW V, Leads(V, r), todo[r] = <<>>
  PROVE  V = store /\ doc[r] = NoDoc
<1>1. \A k, v : kvSet(k, v) # <<>>
  BY DEF kvSet
<1> QED BY <1>1 DEF Leads

(* Where a write leads that was just sent. *)
LEMMA LeadsNow ==
  ASSUME NEW r, NEW V, V = store, NEW U, NEW k \in Keys, NEW v, U = [V EXCEPT ![k] = v],
         UNCHANGED <<store, doc>>, doc[r] = NoDoc, todo'[r] = kvSet(k, v)
  PROVE  Leads(U, r)'
<1>1. k \in Keys /\ todo'[r] = kvSet(k, v)
      /\ U = [store' EXCEPT ![k] = v] /\ doc'[r] = NoDoc
  OBVIOUS
<1> QED BY <1>1 DEF Leads

(* The store executes the write and leads where it led. *)
LEMMA WriteLands ==
  ASSUME NEW r, NEW V, Leads(V, r), KvStep(r), NEW Q, r \in Q,
         todo = [s \in Q |-> todo[s]], doc = [s \in Q |-> doc[s]]
  PROVE  /\ Leads(V, r)' /\ store' \in {store, V}
         /\ todo' = [s \in Q |-> todo'[s]] /\ doc' = [s \in Q |-> doc'[s]]
<1>1. PICK k, v :
        /\ k \in Keys
        /\ todo[r] = kvSet(k, v) /\ V = [store EXCEPT ![k] = v]
        /\ doc[r] = NoDoc \/ (Backend = "gist" /\ doc[r] = store)
  BY DEF Leads, KvStep, RedisCommand, GistLoad, GistSave, Settled
<1>2. \A entries : Applied(entries, todo[r][1]) = [entries EXCEPT ![k] = v]
  <2>1. todo[r][1].cmd = "set" /\ todo[r][1].key = k /\ todo[r][1].value = v
    BY <1>1 DEF kvSet
  <2>2. \A e : Changed(e, todo[r][1]) = v
    BY <2>1 DEF Changed
  <2> QED BY <2>1, <2>2 DEF Applied
<1>3. Head(todo[r]) = todo[r][1] /\ Tail(todo[r]) = <<>> /\ Len(todo[r]) = 1
  <2>1. \A c : Head(<<c>>) = <<c>>[1] /\ Tail(<<c>>) = <<>> /\ Len(<<c>>) = 1
    OBVIOUS
  <2> QED BY <1>1, <2>1 DEF kvSet
<1>4. CASE RedisCommand(r)
  <2>1. /\ Backend = "redis" /\ store' = V /\ todo' = [todo EXCEPT ![r] = <<>>]
        /\ doc' = doc
    BY <1>1, <1>2, <1>3, <1>4 DEF RedisCommand
  <2>2. doc[r] = NoDoc
    BY <1>1, <2>1
  <2> QED BY <2>1, <2>2 DEF Leads
<1>5. CASE GistLoad(r)
  <2>1. /\ Backend = "gist" /\ doc' = [doc EXCEPT ![r] = store] /\ UNCHANGED <<store, todo>>
    BY <1>5 DEF GistLoad
  <2>2. doc'[r] = store
    BY <2>1
  <2> QED BY <1>1, <2>1, <2>2 DEF Leads
<1>6. CASE GistSave(r)
  <2>1. /\ doc[r] = store /\ store' = Executed(doc[r], todo[r])
        /\ todo' = [todo EXCEPT ![r] = <<>>] /\ doc' = [doc EXCEPT ![r] = NoDoc]
    BY <1>1, <1>6 DEF GistSave
  <2>2. store' = V
    BY <1>1, <1>2, <1>3, <2>1 DEF Executed
  <2> QED BY <2>1, <2>2 DEF Leads
<1> QED BY <1>4, <1>5, <1>6 DEF KvStep

-----------------------------------------------------------------------------
(* The bank accounts.  An id is newborn until the write of its row has been executed:  *)
(* nothing but the request that adds it knows it.  Every other id that was given is    *)
(* old, and no write under way gives a row to an old id.                            *)

CONSTANTS Ids, MaxAccounts
VARIABLES issued, added, removed

Accounts == INSTANCE BankAccounts

Expecting(x, w) == x.at = "reading" \/ (x.at = "listing" /\ w # <<>>)
Newborn == {req[r].id : r \in {s \in Requests : Expecting(req[s], todo[s])}}
Old == issued \ Newborn

(* A list of old ids, few enough. *)
ShortList(L, old) ==
  /\ L \in Seq(old)
  /\ \E F : IsFiniteSet(F) /\ Cardinality(F) <= MaxAccounts /\ L \in Seq(F)
ListWrite(w, old) == \E L : w = Accounts!kvSet(Accounts!bank, L) /\ ShortList(L, old)

Serves(x, w, old, entries) ==
  \/ x = [at |-> "idle"] /\ w = <<>>
  \/ /\ x = [at |-> x.at, id |-> x.id, ids |-> x.ids, unread |-> x.unread, live |-> x.live]
     /\ x.ids \in Seq(old) /\ IsFiniteSet(x.live)
     /\ \/ x.at = "reading" /\ w = <<>>
        \/ /\ x.at = "listing" /\ Cardinality(x.live) < MaxAccounts
           /\ \/ w = Accounts!kvSet(Accounts!row(x.id), Accounts!Saved(x.id))
              \/ w = <<>> /\ x.id \in old
  \/ /\ x.at \in {"added", "forgetting"} /\ x = [at |-> x.at, id |-> x.id]
     /\ x.id \in old /\ (w = <<>> \/ ListWrite(w, old))
  \/ /\ x.at = "removed" /\ x = [at |-> x.at, id |-> x.id] /\ x.id \in old
     /\ \/ w = Accounts!kvSet(Accounts!row(x.id), NoEntry)
        \/ w = <<>> /\ (Backend = "redis" => entries[Accounts!row(x.id)] = NoEntry)

AccountsInv ==
  /\ issued \subseteq Ids /\ removed \subseteq Old
  /\ Backend = "redis" => \A i \in removed : store[Accounts!row(i)] = NoEntry
  /\ store = [k \in Keys |-> store[k]]
  /\ req = [r \in Requests |-> req[r]] /\ todo = [r \in Requests |-> todo[r]]
  /\ doc = [r \in Requests |-> doc[r]]
  /\ ShortList(ListOf(store[Accounts!bank]), Old)
  /\ \A r \in Requests : Serves(req[r], todo[r], Old, store)
  /\ \A r \in Requests : Expecting(req[r], todo[r]) => req[r].id \in issued
  /\ \A r, s \in Requests :
       Expecting(req[r], todo[r]) /\ Expecting(req[s], todo[s]) /\ req[r].id = req[s].id => r = s
  /\ \A r \in Requests : doc[r] # NoDoc =>
       /\ Backend = "gist" /\ doc[r] = [k \in Keys |-> doc[r][k]]
       /\ ShortList(ListOf(doc[r][Accounts!bank]), Old)

LEMMA EmptyIsShort ==
  ASSUME Accounts!BankAccountsAssumption, NEW old
  PROVE  ShortList(<<>>, old)
<1>1. IsFiniteSet({}) /\ Cardinality({}) <= MaxAccounts
  BY FS_EmptySet DEF Accounts!BankAccountsAssumption
<1>2. <<>> \in Seq(old) /\ <<>> \in Seq({})
  OBVIOUS
<1> QED BY <1>1, <1>2 DEF ShortList

LEMMA AccountsStart ==
  ASSUME Accounts!BankAccountsAssumption, Accounts!Init
  PROVE  AccountsInv
<1>1. /\ store = [k \in Keys |-> NoEntry] /\ todo = [r \in Requests |-> <<>>]
      /\ doc = [r \in Requests |-> NoDoc] /\ Accounts!bank \in Keys
      /\ req = [r \in Requests |-> [at |-> "idle"]] /\ issued = {} /\ removed = {}
  BY DEF Accounts!Init, Accounts!KvInit, Accounts!AccountsInit, Accounts!IdleReq,
         Accounts!BankAccountsAssumption
<1>2. store[Accounts!bank] = NoEntry /\ ListOf(NoEntry) = <<>>
  BY <1>1 DEF ListOf
<1>3. \A r \in Requests : req[r] = [at |-> "idle"] /\ todo[r] = <<>> /\ doc[r] = NoDoc
  BY <1>1
<1>4. \A r \in Requests : ~Expecting(req[r], todo[r])
  BY <1>3 DEF Expecting
<1>5. \A r \in Requests : Serves(req[r], todo[r], Old, store)
  BY <1>3 DEF Serves
<1>6. ShortList(ListOf(store[Accounts!bank]), Old)
  BY <1>2, EmptyIsShort
<1>7. \A r, s \in Requests :
        Expecting(req[r], todo[r]) /\ Expecting(req[s], todo[s]) /\ req[r].id = req[s].id => r = s
  BY <1>4
<1>8. store = [k \in Keys |-> store[k]] /\ req = [r \in Requests |-> req[r]]
      /\ todo = [r \in Requests |-> todo[r]] /\ doc = [r \in Requests |-> doc[r]]
  BY <1>1
<1> QED BY <1>1, <1>3, <1>4, <1>5, <1>6, <1>7, <1>8 DEF AccountsInv

LEMMA StaysShort ==
  ASSUME NEW old, NEW older, old \subseteq older
  PROVE  /\ \A L : ShortList(L, old) => ShortList(L, older)
         /\ \A w : ListWrite(w, old) => ListWrite(w, older)
<1>1. Seq(old) \subseteq Seq(older)
  BY SeqMonotonic
<1> QED BY <1>1 DEF ShortList, ListWrite

LEMMA StillServes ==
  ASSUME NEW old, NEW older, old \subseteq older, NEW entries, NEW later,
         Backend = "redis" =>
           \A i \in old : entries[Accounts!row(i)] = NoEntry => later[Accounts!row(i)] = NoEntry,
         NEW x, NEW w, Serves(x, w, old, entries)
  PROVE  Serves(x, w, older, later)
<1>1. Seq(old) \subseteq Seq(older)
  BY SeqMonotonic
<1>2. ListWrite(w, old) => ListWrite(w, older)
  BY StaysShort
<1> QED BY <1>1, <1>2 DEF Serves

(* One request goes on, and may write, or have its write executed. *)
LEMMA OneServed ==
  ASSUME AccountsInv, NEW r \in Requests,
         NEW x, req' = [req EXCEPT ![r] = x], NEW w, todo' = [todo EXCEPT ![r] = w],
         issued \subseteq issued', issued' \subseteq Ids,
         Expecting(x, w) =>
           /\ x.id \in issued'
           /\ x.id \notin issued \/ (Expecting(req[r], todo[r]) /\ x.id = req[r].id),
         Serves(x, w, Old', store'),
         removed' \subseteq Old',
         store' = [k \in Keys |-> store'[k]],
         Old \subseteq Old' => ShortList(ListOf(store'[Accounts!bank]), Old'),
         Backend = "redis" =>
           /\ \A i \in Old : store[Accounts!row(i)] = NoEntry => store'[Accounts!row(i)] = NoEntry
           /\ \A i \in removed' : store'[Accounts!row(i)] = NoEntry,
         NEW d, doc' = [doc EXCEPT ![r] = d],
         d = NoDoc \/ d = doc[r] \/ (Backend = "gist" /\ d = store)
  PROVE  AccountsInv'
<1>1. /\ req' = [v \in Requests |-> req'[v]] /\ req'[r] = x
      /\ \A v \in Requests \ {r} : req'[v] = req[v]
  BY DEF AccountsInv
<1>2. /\ todo' = [v \in Requests |-> todo'[v]] /\ todo'[r] = w
      /\ \A v \in Requests \ {r} : todo'[v] = todo[v]
  BY DEF AccountsInv
<1>3. Old \subseteq Old'
  <2>1. ASSUME NEW i \in Old, NEW v \in Requests, Expecting(req'[v], todo'[v]), req'[v].id = i
        PROVE  FALSE
    <3>1. i \in issued /\ \A s \in Requests : Expecting(req[s], todo[s]) => req[s].id # i
      BY DEF Old, Newborn
    <3>2. CASE v # r
      BY <1>1, <1>2, <2>1, <3>1, <3>2
    <3>3. CASE v = r
      BY <1>1, <1>2, <2>1, <3>1, <3>3
    <3> QED BY <3>2, <3>3
  <2> QED BY <2>1 DEF Old, Newborn
<1>4. \A v \in Requests : Serves(req'[v], todo'[v], Old', store')
  BY <1>1, <1>2, <1>3, StillServes DEF AccountsInv
<1>5. \A v \in Requests : Expecting(req'[v], todo'[v]) => req'[v].id \in issued'
  BY <1>1, <1>2 DEF AccountsInv
<1>6. ASSUME NEW u \in Requests, NEW v \in Requests, Expecting(req'[u], todo'[u]),
             Expecting(req'[v], todo'[v]), req'[u].id = req'[v].id
      PROVE  u = v
  <2>1. \A s \in Requests \ {r} : Expecting(req'[s], todo'[s]) =>
          Expecting(req[s], todo[s]) /\ req'[s].id = req[s].id /\ req[s].id \in issued
    BY <1>1, <1>2 DEF AccountsInv
  <2>2. Expecting(req'[r], todo'[r]) =>
          req'[r].id \notin issued \/ (Expecting(req[r], todo[r]) /\ req'[r].id = req[r].id)
    BY <1>1, <1>2
  <2>3. \A s, q \in Requests :
          Expecting(req[s], todo[s]) /\ Expecting(req[q], todo[q]) /\ req[s].id = req[q].id => s = q
    BY DEF AccountsInv
  <2> QED BY <1>6, <2>1, <2>2, <2>3
<1>7. doc' = [v \in Requests |-> doc'[v]]
      /\ \A v \in Requests : doc'[v] = IF v = r THEN d ELSE doc[v]
  BY DEF AccountsInv
<1>8. \A v \in Requests : doc'[v] # NoDoc =>
        /\ Backend = "gist" /\ doc'[v] = [k \in Keys |-> doc'[v][k]]
        /\ ShortList(ListOf(doc'[v][Accounts!bank]), Old')
  <2>1. ASSUME NEW v \in Requests, doc[v] # NoDoc
        PROVE  /\ Backend = "gist" /\ doc[v] = [k \in Keys |-> doc[v][k]]
               /\ ShortList(ListOf(doc[v][Accounts!bank]), Old')
    BY <1>3, <2>1, StaysShort DEF AccountsInv
  <2>2. store = [k \in Keys |-> store[k]] /\ ShortList(ListOf(store[Accounts!bank]), Old')
    BY <1>3, StaysShort DEF AccountsInv
  <2>3. \A v \in Requests : doc'[v] = NoDoc \/ doc'[v] = doc[v]
          \/ (Backend = "gist" /\ doc'[v] = store)
    BY <1>7
  <2> QED BY <2>1, <2>2, <2>3
<1> QED BY <1>1, <1>2, <1>3, <1>4, <1>5, <1>6, <1>7, <1>8 DEF AccountsInv

(* A step of a request: the store is as it was. *)
LEMMA RequestServed ==
  ASSUME AccountsInv, NEW r \in Requests,
         NEW x, req' = [req EXCEPT ![r] = x], NEW w, todo' = [todo EXCEPT ![r] = w],
         UNCHANGED <<store, doc>>, issued \subseteq issued', issued' \subseteq Ids,
         Expecting(x, w) =>
           /\ x.id \in issued'
           /\ x.id \notin issued \/ (Expecting(req[r], todo[r]) /\ x.id = req[r].id),
         Old \subseteq Old' => Serves(x, w, Old', store),
         removed' \subseteq removed \cup
           {i \in Old : Backend = "redis" => store[Accounts!row(i)] = NoEntry}
  PROVE  AccountsInv'
<1>1. Old \subseteq Old'
  <2>1. /\ req'[r] = x /\ todo'[r] = w
        /\ \A v \in Requests \ {r} : req'[v] = req[v] /\ todo'[v] = todo[v]
    BY DEF AccountsInv
  <2> QED BY <2>1 DEF Old, Newborn
<1>2. Serves(x, w, Old', store') /\ removed' \subseteq Old'
  BY <1>1 DEF AccountsInv
<1>3. ShortList(ListOf(store'[Accounts!bank]), Old')
  BY <1>1, StaysShort DEF AccountsInv
<1>4. store' = [k \in Keys |-> store'[k]] /\ doc' = [doc EXCEPT ![r] = doc[r]]
  BY DEF AccountsInv
<1>5. Backend = "redis" =>
        /\ \A i \in Old : store[Accounts!row(i)] = NoEntry => store'[Accounts!row(i)] = NoEntry
        /\ \A i \in removed' : store'[Accounts!row(i)] = NoEntry
  BY DEF AccountsInv
<1> QED BY <1>2, <1>3, <1>4, <1>5, OneServed

LEMMA KeptIsShort ==
  ASSUME NEW old, NEW L \in Seq(old), NEW S
  PROVE  /\ Accounts!Only(L, S) \in Seq(old) /\ Accounts!Only(L, S) \in Seq(S)
         /\ \A F : L \in Seq(F) => Accounts!Only(L, S) \in Seq(F)
<1>1. Accounts!Only(L, S) = Only(L, S)
  BY DEF Accounts!Only, Only
<1> QED BY <1>1, OnlySome

LEMMA AccountsCount == \A S : Accounts!Cardinality(S) = Cardinality(S)
BY DEF Accounts!Cardinality, Cardinality

LEMMA RowsApart ==
  /\ \A i, j : Accounts!row(i) = Accounts!row(j) => i = j
  /\ \A i : Accounts!row(i) # Accounts!bank
<1>1. \A i, j : <<"row", i>> = <<"row", j>> => i = j
  OBVIOUS
<1>2. \A i : <<"row", i>> # <<"bank">>
  <2>1. \A i : Len(<<"row", i>>) = 2 /\ Len(<<"bank">>) = 1
    OBVIOUS
  <2> QED BY <2>1
<1> QED BY <1>1, <1>2 DEF Accounts!row, Accounts!bank

LEMMA AddKeeps ==
  ASSUME Accounts!BankAccountsAssumption, AccountsInv, NEW r \in Requests, Accounts!Add(r)
  PROVE  AccountsInv'
<1> USE DEF Accounts!GotoWith, Accounts!Goto, Accounts!At, Accounts!Settled, Accounts!Answer,
            Accounts!IdleReq, Accounts!kv_vars, Accounts!Await
<1>1. /\ todo = [todo EXCEPT ![r] = todo[r]] /\ todo' = [todo' EXCEPT ![r] = todo'[r]]
      /\ Serves(req[r], todo[r], Old, store)
  BY DEF AccountsInv, Accounts!Add, Accounts!AddAccount, Accounts!ReadRow, Accounts!SaveRow,
         Accounts!SaveIds, Accounts!AnswerAdded
<1>2. ASSUME NEW i \in Ids, Accounts!AddAccount(r, i) PROVE AccountsInv'
  <2> DEFINE x == [at |-> "reading", id |-> i, ids |-> Accounts!ListOf(Accounts!kvGet(Accounts!bank)),
                   unread |-> Accounts!ToSet(Accounts!ListOf(Accounts!kvGet(Accounts!bank))),
                   live |-> {}]
  <2>1. /\ req' = [req EXCEPT ![r] = x] /\ todo' = [todo EXCEPT ![r] = <<>>]
        /\ UNCHANGED <<store, doc, removed>>
        /\ i \notin issued /\ issued' = issued \cup {i}
    BY <1>1, <1>2 DEF Accounts!AddAccount
  <2>2. /\ x.at = "reading" /\ x.id = i /\ x.live = {}
        /\ x = [at |-> x.at, id |-> x.id, ids |-> x.ids, unread |-> x.unread, live |-> x.live]
        /\ x.ids \in Seq(Old)
    BY DEF AccountsInv, ShortList, Accounts!ListOf, ListOf, Accounts!kvGet
  <2> HIDE DEF x
  <2>3. Old \subseteq Old' => Serves(x, <<>>, Old', store)
    <3>1. IsFiniteSet({})
      BY FS_EmptySet
    <3> QED BY <2>2, <3>1, SeqMonotonic DEF Serves
  <2>4. issued' \subseteq Ids /\ removed' \subseteq removed
    BY <2>1 DEF AccountsInv
  <2> QED BY <2>1, <2>2, <2>3, <2>4, RequestServed
<1>3. ASSUME NEW j \in Ids, Accounts!ReadRow(r, j) PROVE AccountsInv'
  <2> DEFINE y == req[r]
             left == y.unread \ {j}
             found == IF Accounts!kvGet(Accounts!row(j)) = NoEntry THEN y.live
                      ELSE y.live \cup {j}
             x == [y EXCEPT !.unread = left, !.live = found]
  <2>1. /\ req' = [req EXCEPT ![r] = x] /\ todo' = [todo EXCEPT ![r] = <<>>]
        /\ UNCHANGED <<store, doc, removed, issued>>
        /\ y.at = "reading" /\ todo[r] = <<>>
    BY <1>1, <1>3 DEF Accounts!ReadRow
  <2>2. /\ y = [at |-> y.at, id |-> y.id, ids |-> y.ids, unread |-> y.unread, live |-> y.live]
        /\ y.ids \in Seq(Old) /\ IsFiniteSet(y.live)
    BY <1>1, <2>1 DEF Serves
  <2>3. /\ x = [at |-> x.at, id |-> x.id, ids |-> x.ids, unread |-> x.unread, live |-> x.live]
        /\ x.at = "reading" /\ x.id = y.id /\ x.ids = y.ids
        /\ x.live = y.live \/ x.live = y.live \cup {j}
    <3>1. found = y.live \/ found = y.live \cup {j}
      OBVIOUS
    <3> HIDE DEF y, left, found
    <3>2. x = [at |-> y.at, id |-> y.id, ids |-> y.ids, unread |-> left, live |-> found]
      <4>1. y = [at |-> y.at, id |-> y.id, ids |-> y.ids, unread |-> y.unread, live |-> y.live]
        BY <2>2
      <4>2. DOMAIN x = {"at", "id", "ids", "unread", "live"}
        BY <4>1
      <4>3. /\ x.at = y.at /\ x.id = y.id /\ x.ids = y.ids
            /\ x.unread = left /\ x.live = found
        BY <4>1
      <4>4. x = [k \in DOMAIN x |-> x[k]]
        OBVIOUS
      <4> HIDE DEF x
      <4> QED BY <4>2, <4>3, <4>4
    <3> HIDE DEF x
    <3> QED BY <2>1, <3>1, <3>2
  <2> HIDE DEF x
  <2>4. IsFiniteSet(x.live)
    BY <2>2, <2>3, FS_AddElement
  <2>5. Old \subseteq Old' => Serves(x, <<>>, Old', store)
    BY <2>2, <2>3, <2>4, SeqMonotonic DEF Serves
  <2>6. Expecting(y, todo[r]) /\ y.id \in issued /\ issued' \subseteq Ids
    BY <2>1 DEF Expecting, AccountsInv
  <2> QED BY <2>1, <2>3, <2>5, <2>6, RequestServed
<1>4. CASE Accounts!SaveRow(r)
  <2> DEFINE y == req[r]
             x == [y EXCEPT !.at = "listing"]
             w == Accounts!kvSet(Accounts!row(y.id), Accounts!Saved(y.id))
  <2>1. /\ UNCHANGED <<store, doc, removed, issued>> /\ y.at = "reading" /\ todo[r] = <<>>
        /\ \/ req' = [req EXCEPT ![r] = [at |-> "idle"]] /\ todo' = [todo EXCEPT ![r] = <<>>]
           \/ /\ req' = [req EXCEPT ![r] = x] /\ todo' = [todo EXCEPT ![r] = w]
              /\ ~(Cardinality(y.live) >= MaxAccounts)
    <3>1. /\ UNCHANGED <<doc, store, removed, issued>> /\ y.at = "reading" /\ todo[r] = <<>>
          /\ \/ req' = [req EXCEPT ![r] = [at |-> "idle"]] /\ todo' = todo
             \/ /\ req' = [req EXCEPT ![r] = x] /\ todo' = [todo EXCEPT ![r] = w]
                /\ ~(Cardinality(y.live) >= MaxAccounts)
      <4>1. CASE Accounts!Full(Cardinality(y.live))
        <5>1. Accounts!Answer(r) /\ UNCHANGED <<issued, removed>>
              /\ y.at = "reading" /\ todo[r] = <<>>
          BY <1>4, <4>1, AccountsCount DEF Accounts!SaveRow, Accounts!Full
        <5> QED BY <5>1
      <4>2. CASE ~Accounts!Full(Cardinality(y.live))
        BY <1>4, <4>2, AccountsCount DEF Accounts!SaveRow, Accounts!Full
      <4> QED BY <4>1, <4>2
    <3>2. todo = [todo EXCEPT ![r] = <<>>]
      BY <1>1, <3>1
    <3> QED BY <3>1, <3>2
  <2>2. /\ y = [at |-> y.at, id |-> y.id, ids |-> y.ids, unread |-> y.unread, live |-> y.live]
        /\ y.ids \in Seq(Old) /\ IsFiniteSet(y.live)
    BY <1>1, <2>1 DEF Serves
  <2>3. issued' \subseteq Ids /\ y.id \in issued /\ Expecting(y, todo[r])
    BY <2>1 DEF AccountsInv, Expecting
  <2>4. CASE req' = [req EXCEPT ![r] = [at |-> "idle"]] /\ todo' = [todo EXCEPT ![r] = <<>>]
    <3>1. ~Expecting([at |-> "idle"], <<>>) /\ Serves([at |-> "idle"], <<>>, Old', store)
      BY DEF Expecting, Serves
    <3> QED BY <2>1, <2>3, <2>4, <3>1, RequestServed
  <2>5. CASE /\ req' = [req EXCEPT ![r] = x] /\ todo' = [todo EXCEPT ![r] = w]
             /\ ~(Cardinality(y.live) >= MaxAccounts)
    <3>1. /\ x = [at |-> x.at, id |-> x.id, ids |-> x.ids, unread |-> x.unread, live |-> x.live]
          /\ x.at = "listing" /\ x.id = y.id /\ x.ids = y.ids /\ x.live = y.live
      <4> HIDE DEF y
      <4> QED BY <2>2
    <3>2. Cardinality(y.live) \in Nat /\ MaxAccounts \in Nat
      BY <2>2, FS_CardinalityType DEF Accounts!BankAccountsAssumption
    <3>3. Cardinality(x.live) < MaxAccounts
      BY <2>5, <3>1, <3>2
    <3> HIDE DEF x
    <3>4. Old \subseteq Old' => Serves(x, w, Old', store)
      BY <2>2, <3>1, <3>3, SeqMonotonic DEF Serves
    <3> QED BY <2>1, <2>3, <2>5, <3>1, <3>4, RequestServed
  <2> QED BY <2>1, <2>4, <2>5
<1>5. CASE Accounts!SaveIds(r)
  <2> DEFINE y == req[r]
             kept == Accounts!Only(y.ids, y.live)
             L == Append(kept, y.id)
             x == [at |-> "added", id |-> y.id]
             w == Accounts!kvSet(Accounts!bank, L)
  <2>1. /\ UNCHANGED <<store, doc, removed, issued>> /\ y.at = "listing" /\ todo[r] = <<>>
        /\ req' = [req EXCEPT ![r] = x] /\ todo' = [todo EXCEPT ![r] = w]
    BY <1>1, <1>5 DEF Accounts!SaveIds
  <2>2. /\ y.ids \in Seq(Old) /\ IsFiniteSet(y.live) /\ Cardinality(y.live) < MaxAccounts
        /\ y.id \in Old
    <3>1. \A i, v : Accounts!kvSet(i, v) # <<>>
      BY DEF Accounts!kvSet
    <3> QED BY <1>1, <2>1, <3>1 DEF Serves
  <2>3. kept \in Seq(Old) /\ kept \in Seq(y.live)
    BY <2>2, KeptIsShort
  <2> HIDE DEF kept
  <2>4. ShortList(L, Old)
    <3> DEFINE F == y.live \cup {y.id}
    <3>1. IsFiniteSet(F) /\ Cardinality(F) <= Cardinality(y.live) + 1 /\ Cardinality(y.live) \in Nat
      <4> DEFINE V == y.live
                 e == y.id
      <4>1. IsFiniteSet(V)
        BY <2>2
      <4> HIDE DEF V, e
      <4>2. Cardinality(V) \in Nat
        BY <4>1, FS_CardinalityType
      <4>3. /\ IsFiniteSet(V \cup {e})
            /\ Cardinality(V \cup {e}) = IF e \in V THEN Cardinality(V) ELSE Cardinality(V) + 1
        BY <4>1, FS_AddElement
      <4>4. Cardinality(V \cup {e}) <= Cardinality(V) + 1
        BY <4>2, <4>3
      <4> QED BY <4>2, <4>3, <4>4 DEF V, e
    <3>2. Cardinality(F) <= MaxAccounts
      <4>1. MaxAccounts \in Nat /\ Cardinality(F) \in Nat
        BY <3>1, FS_CardinalityType DEF Accounts!BankAccountsAssumption
      <4> QED BY <2>2, <3>1, <4>1
    <3>3. L \in Seq(F)
      <4>1. kept \in Seq(F)
        BY <2>3, SeqMonotonic
      <4>2. y.id \in F
        OBVIOUS
      <4> HIDE DEF F
      <4> QED BY <4>1, <4>2
    <3>4. L \in Seq(Old)
      BY <2>2, <2>3
    <3> HIDE DEF F, L
    <3> QED BY <3>1, <3>2, <3>3, <3>4 DEF ShortList
  <2> HIDE DEF L
  <2>5. Old \subseteq Old' => ListWrite(w, Old') /\ y.id \in Old'
    BY <2>2, <2>4, StaysShort DEF ListWrite
  <2>6. x.at = "added" /\ x.id = y.id /\ x = [at |-> x.at, id |-> x.id]
    OBVIOUS
  <2> HIDE DEF x, w
  <2>7. Old \subseteq Old' => Serves(x, w, Old', store)
    BY <2>5, <2>6 DEF Serves
  <2>8. ~Expecting(x, w) /\ issued' \subseteq Ids
    BY <2>1, <2>6 DEF Expecting, AccountsInv
  <2> QED BY <2>1, <2>7, <2>8, RequestServed
<1>6. CASE Accounts!AnswerAdded(r)
  <2>1. /\ req' = [req EXCEPT ![r] = [at |-> "idle"]] /\ todo' = [todo EXCEPT ![r] = <<>>]
        /\ UNCHANGED <<store, doc, issued, removed>>
    BY <1>1, <1>6 DEF Accounts!AnswerAdded
  <2>2. ~Expecting([at |-> "idle"], <<>>) /\ Serves([at |-> "idle"], <<>>, Old', store)
    BY DEF Expecting, Serves
  <2>3. issued' \subseteq Ids
    BY <2>1 DEF AccountsInv
  <2> QED BY <2>1, <2>2, <2>3, RequestServed
<1> QED BY <1>2, <1>3, <1>4, <1>5, <1>6 DEF Accounts!Add

LEMMA ForgetKeeps ==
  ASSUME Accounts!BankAccountsAssumption, AccountsInv, NEW r \in Requests,
         Accounts!Forget(r) \/ Accounts!Stop(r)
  PROVE  AccountsInv'
<1> USE DEF Accounts!GotoWith, Accounts!Goto, Accounts!At, Accounts!Settled, Accounts!Answer,
            Accounts!IdleReq, Accounts!kv_vars, Accounts!Await
<1>1. /\ todo = [todo EXCEPT ![r] = todo[r]] /\ doc = [doc EXCEPT ![r] = doc[r]]
      /\ Serves(req[r], todo[r], Old, store)
  BY DEF AccountsInv
<1>2. ASSUME NEW i \in Ids, Accounts!RemoveAccount(r, i) PROVE AccountsInv'
  <2> DEFINE list == Accounts!kvGet(Accounts!bank)
             L == Accounts!Only(list, Ids \ {i})
             x == [at |-> "forgetting", id |-> i]
             w == Accounts!kvSet(Accounts!bank, L)
  <2>1. /\ UNCHANGED <<store, doc, removed, issued>>
        /\ req' = [req EXCEPT ![r] = x] /\ todo' = [todo EXCEPT ![r] = w]
        /\ list # NoEntry /\ \E k \in 1 .. Len(list) : list[k] = i
    BY <1>2 DEF Accounts!RemoveAccount, Accounts!Unlisted, Accounts!Contains
  <2>2. ShortList(list, Old)
    BY <2>1 DEF AccountsInv, ListOf, Accounts!kvGet
  <2> HIDE DEF list
  <2>3. i \in Old
    <3>1. list \in Seq(Old)
      BY <2>2 DEF ShortList
    <3> QED BY <2>1, <3>1
  <2>4. ShortList(L, Old)
    BY <2>2, KeptIsShort DEF ShortList
  <2> HIDE DEF L
  <2>5. Old \subseteq Old' => ListWrite(w, Old') /\ i \in Old'
    BY <2>3, <2>4, StaysShort DEF ListWrite
  <2>6. x.at = "forgetting" /\ x.id = i /\ x = [at |-> x.at, id |-> x.id]
    OBVIOUS
  <2> HIDE DEF x, w
  <2>7. Old \subseteq Old' => Serves(x, w, Old', store)
    BY <2>5, <2>6 DEF Serves
  <2>8. ~Expecting(x, w) /\ issued' \subseteq Ids
    BY <2>1, <2>6 DEF Expecting, AccountsInv
  <2> QED BY <2>1, <2>7, <2>8, RequestServed
<1>3. CASE Accounts!ForgetRow(r)
  <2> DEFINE i == req[r].id
             x == [at |-> "removed", id |-> i]
             w == Accounts!kvSet(Accounts!row(i), NoEntry)
  <2>1. /\ UNCHANGED <<store, doc, removed, issued>> /\ req[r].at = "forgetting"
        /\ req' = [req EXCEPT ![r] = x] /\ todo' = [todo EXCEPT ![r] = w]
    BY <1>3 DEF Accounts!ForgetRow
  <2>2. i \in Old
    BY <1>1, <2>1 DEF Serves
  <2>3. x.at = "removed" /\ x.id = i /\ x = [at |-> x.at, id |-> x.id]
    OBVIOUS
  <2>4. w = Accounts!kvSet(Accounts!row(x.id), NoEntry)
    OBVIOUS
  <2> HIDE DEF x, w, i
  <2>5. Old \subseteq Old' => Serves(x, w, Old', store)
    BY <2>2, <2>3, <2>4 DEF Serves
  <2>6. ~Expecting(x, w) /\ issued' \subseteq Ids
    BY <2>1, <2>3 DEF Expecting, AccountsInv
  <2> QED BY <2>1, <2>5, <2>6, RequestServed
<1>4. CASE Accounts!AnswerRemoved(r)
  <2> DEFINE i == req[r].id
  <2>1. /\ req' = [req EXCEPT ![r] = [at |-> "idle"]] /\ todo' = [todo EXCEPT ![r] = <<>>]
        /\ UNCHANGED <<store, doc, issued>> /\ removed' = removed \cup {i}
        /\ req[r].at = "removed" /\ todo[r] = <<>>
    BY <1>1, <1>4 DEF Accounts!AnswerRemoved
  <2>2. i \in Old /\ (Backend = "redis" => store[Accounts!row(i)] = NoEntry)
    <3>1. \A k, v : Accounts!kvSet(k, v) # <<>>
      BY DEF Accounts!kvSet
    <3> QED BY <1>1, <2>1, <3>1 DEF Serves
  <2>3. ~Expecting([at |-> "idle"], <<>>) /\ Serves([at |-> "idle"], <<>>, Old', store)
    BY DEF Expecting, Serves
  <2>4. issued' \subseteq Ids
    BY <2>1 DEF AccountsInv
  <2> QED BY <2>1, <2>2, <2>3, <2>4, RequestServed
<1>5. CASE Accounts!Stop(r)
  <2>1. /\ req' = [req EXCEPT ![r] = [at |-> "idle"]] /\ todo' = [todo EXCEPT ![r] = <<>>]
        /\ doc' = [doc EXCEPT ![r] = NoDoc] /\ UNCHANGED <<store, issued, removed>>
    BY <1>5 DEF Accounts!Stop, Accounts!Abandon
  <2>2. ~Expecting([at |-> "idle"], <<>>) /\ Serves([at |-> "idle"], <<>>, Old', store')
    BY DEF Expecting, Serves
  <2>3. Old \subseteq Old'
    <3>1. /\ req'[r] = [at |-> "idle"] /\ todo'[r] = <<>>
          /\ \A v \in Requests \ {r} : req'[v] = req[v] /\ todo'[v] = todo[v]
      BY <2>1 DEF AccountsInv
    <3> QED BY <2>1, <2>2, <3>1 DEF Old, Newborn
  <2>4. /\ issued' \subseteq Ids /\ removed' \subseteq Old' /\ store' = [k \in Keys |-> store'[k]]
        /\ ShortList(ListOf(store'[Accounts!bank]), Old')
    BY <2>1, <2>3, StaysShort DEF AccountsInv
  <2>5. Backend = "redis" =>
          /\ \A i \in Old : store[Accounts!row(i)] = NoEntry => store'[Accounts!row(i)] = NoEntry
          /\ \A i \in removed' : store'[Accounts!row(i)] = NoEntry
    BY <2>1 DEF AccountsInv
  <2> QED BY <2>1, <2>2, <2>4, <2>5, OneServed
<1> QED BY <1>2, <1>3, <1>4, <1>5 DEF Accounts!Forget

(* A write of one command, executed on the data set or on the document that was loaded. *)
LEMMA WriteExecuted ==
  ASSUME Accounts!BankAccountsAssumption, AccountsInv, NEW r \in Requests, todo[r] # <<>>,
         NEW entries, entries = [k \in Keys |-> entries[k]],
         ShortList(ListOf(entries[Accounts!bank]), Old), Backend = "redis" => entries = store,
         store' = [entries EXCEPT ![todo[r][1].key] = todo[r][1].value],
         todo' = [todo EXCEPT ![r] = <<>>], doc' = [doc EXCEPT ![r] = NoDoc],
         UNCHANGED <<req, issued, removed>>
  PROVE  AccountsInv'
<1> DEFINE x == req[r]
<1>1. /\ req' = [req EXCEPT ![r] = x] /\ Serves(x, todo[r], Old, store)
      /\ req'[r] = x /\ todo'[r] = <<>>
      /\ \A v \in Requests \ {r} : req'[v] = req[v] /\ todo'[v] = todo[v]
  BY DEF AccountsInv
<1>2. issued' \subseteq Ids /\ Accounts!bank \in Keys /\ \A i \in Ids : Accounts!row(i) \in Keys
  BY DEF AccountsInv, Accounts!BankAccountsAssumption
<1>3. (Old \subseteq Old' /\ ~Expecting(x, <<>>)) \/ x.at = "reading"
  BY <1>1 DEF Old, Newborn, Expecting
<1>4. removed' \subseteq Old
  BY DEF AccountsInv
<1>5. \A k, v : /\ Accounts!kvSet(k, v)[1].key = k /\ Accounts!kvSet(k, v)[1].value = v
                /\ Accounts!kvSet(k, v) # <<>>
  BY DEF Accounts!kvSet
<1>6. CASE /\ x.at = "listing" /\ x.ids \in Seq(Old) /\ IsFiniteSet(x.live)
           /\ Cardinality(x.live) < MaxAccounts
           /\ x = [at |-> x.at, id |-> x.id, ids |-> x.ids, unread |-> x.unread, live |-> x.live]
           /\ todo[r] = Accounts!kvSet(Accounts!row(x.id), Accounts!Saved(x.id))
  <2>1. Expecting(x, todo[r]) /\ x.id \in issued /\ x.id \notin Old
    BY <1>5, <1>6 DEF Expecting, AccountsInv, Old, Newborn
  <2>2. ~Expecting(x, <<>>) /\ Old \subseteq Old'
    BY <1>3, <1>6 DEF Expecting
  <2>3. x.id \in Old'
    <3>1. \A v \in Requests \ {r} : Expecting(req[v], todo[v]) => req[v].id # x.id
      BY <2>1 DEF AccountsInv
    <3>2. \A v \in Requests : Expecting(req'[v], todo'[v]) => req'[v].id # x.id
      BY <1>1, <2>2, <3>1
    <3> QED BY <2>1, <3>2 DEF Old, Newborn
  <2>4. \A k \in Keys \ {Accounts!row(x.id)} : store'[k] = entries[k]
    BY <1>5, <1>6
  <2>5. ShortList(ListOf(store'[Accounts!bank]), Old')
    BY <1>2, <2>2, <2>4, RowsApart, StaysShort
  <2>6. Backend = "redis" => \A i \in Old : store'[Accounts!row(i)] = store[Accounts!row(i)]
    <3>1. Old \subseteq Ids
      BY DEF AccountsInv, Old
    <3> QED BY <1>2, <2>1, <2>4, <3>1, RowsApart
  <2>7. Serves(x, <<>>, Old', store')
    BY <1>6, <2>2, <2>3, SeqMonotonic DEF Serves
  <2>8. store' = [k \in Keys |-> store'[k]] /\ removed' \subseteq Old'
    BY <1>4, <2>2
  <2>9. Backend = "redis" => \A i \in removed' : store'[Accounts!row(i)] = NoEntry
    BY <1>4, <2>6 DEF AccountsInv
  <2> QED BY <1>1, <1>2, <2>2, <2>5, <2>6, <2>7, <2>8, <2>9, OneServed
<1>7. CASE /\ x.at \in {"added", "forgetting"} /\ x = [at |-> x.at, id |-> x.id]
           /\ x.id \in Old /\ ListWrite(todo[r], Old)
  <2>1. ~Expecting(x, <<>>) /\ Old \subseteq Old'
    BY <1>3, <1>7 DEF Expecting
  <2>2. PICK L : todo[r] = Accounts!kvSet(Accounts!bank, L) /\ ShortList(L, Old)
    BY <1>7 DEF ListWrite
  <2>3. /\ store'[Accounts!bank] = L
        /\ \A k \in Keys \ {Accounts!bank} : store'[k] = entries[k]
    BY <1>2, <1>5, <2>2
  <2>4. ShortList(ListOf(L), Old')
    <3>1. ListOf(L) = L \/ ListOf(L) = <<>>
      BY DEF ListOf
    <3> QED BY <2>1, <2>2, <3>1, EmptyIsShort, StaysShort
  <2>5. Backend = "redis" => \A i \in Old : store'[Accounts!row(i)] = store[Accounts!row(i)]
    <3>1. Old \subseteq Ids
      BY DEF AccountsInv, Old
    <3> QED BY <1>2, <2>3, <3>1, RowsApart
  <2>6. Serves(x, <<>>, Old', store')
    BY <1>7, <2>1 DEF Serves
  <2>7. store' = [k \in Keys |-> store'[k]] /\ removed' \subseteq Old'
    BY <1>4, <2>1
  <2>8. Backend = "redis" => \A i \in removed' : store'[Accounts!row(i)] = NoEntry
    BY <1>4, <2>5 DEF AccountsInv
  <2> QED BY <1>1, <1>2, <2>1, <2>3, <2>4, <2>5, <2>6, <2>7, <2>8, OneServed
<1>8. CASE /\ x.at = "removed" /\ x = [at |-> x.at, id |-> x.id] /\ x.id \in Old
           /\ todo[r] = Accounts!kvSet(Accounts!row(x.id), NoEntry)
  <2>1. ~Expecting(x, <<>>) /\ Old \subseteq Old'
    BY <1>3, <1>8 DEF Expecting
  <2>2. x.id \in Ids /\ Accounts!row(x.id) \in Keys
    BY <1>2, <1>8 DEF AccountsInv, Old
  <2>3. /\ store'[Accounts!row(x.id)] = NoEntry
        /\ \A k \in Keys \ {Accounts!row(x.id)} : store'[k] = entries[k]
    BY <1>5, <1>8, <2>2
  <2>4. ShortList(ListOf(store'[Accounts!bank]), Old')
    BY <1>2, <2>1, <2>3, RowsApart, StaysShort
  <2>5. Backend = "redis" => \A i \in Old :
          store[Accounts!row(i)] = NoEntry => store'[Accounts!row(i)] = NoEntry
    <3>1. Old \subseteq Ids
      BY DEF AccountsInv, Old
    <3> QED BY <1>2, <2>3, <3>1
  <2>6. Serves(x, <<>>, Old', store')
    BY <1>8, <2>1, <2>3 DEF Serves
  <2>7. store' = [k \in Keys |-> store'[k]] /\ removed' \subseteq Old'
    BY <1>4, <2>1
  <2>8. Backend = "redis" => \A i \in removed' : store'[Accounts!row(i)] = NoEntry
    BY <1>4, <2>5 DEF AccountsInv
  <2> QED BY <1>1, <1>2, <2>1, <2>4, <2>5, <2>6, <2>7, <2>8, OneServed
<1> QED BY <1>1, <1>6, <1>7, <1>8 DEF Serves

LEMMA StoreKeeps ==
  ASSUME Accounts!BankAccountsAssumption, AccountsInv, NEW r \in Requests,
         Accounts!StoreActs(r)
  PROVE  AccountsInv'
<1>1. UNCHANGED <<req, issued, removed>>
  BY DEF Accounts!StoreActs
<1>2. \A c, e : c.cmd = "set" => Accounts!Changed(e, c) = c.value
  BY DEF Accounts!Changed
<1>3. todo[r] = <<>> \/ \E k, v : todo[r] = Accounts!kvSet(k, v)
  BY DEF AccountsInv, Serves, ListWrite
<1>4. \A k, v : /\ Head(Accounts!kvSet(k, v)) = Accounts!kvSet(k, v)[1]
                /\ Tail(Accounts!kvSet(k, v)) = <<>> /\ Len(Accounts!kvSet(k, v)) = 1
                /\ Accounts!kvSet(k, v)[1].cmd = "set"
  <2>1. \A c : Head(<<c>>) = <<c>>[1] /\ Tail(<<c>>) = <<>> /\ Len(<<c>>) = 1
    OBVIOUS
  <2>2. \A k, v : [cmd |-> "set", key |-> k, value |-> v].cmd = "set"
    OBVIOUS
  <2> QED BY <2>1, <2>2 DEF Accounts!kvSet
<1>5. doc = [doc EXCEPT ![r] = doc[r]] /\ store = [k \in Keys |-> store[k]]
      /\ ShortList(ListOf(store[Accounts!bank]), Old)
  BY DEF AccountsInv
<1>6. CASE Accounts!RedisCommand(r)
  <2>1. /\ todo[r] # <<>> /\ Backend = "redis"
        /\ store' = Accounts!Applied(store, Head(todo[r]))
        /\ todo' = [todo EXCEPT ![r] = Tail(@)] /\ doc' = doc
    BY <1>6 DEF Accounts!RedisCommand, Accounts!Settled
  <2>2. /\ store' = [store EXCEPT ![todo[r][1].key] = todo[r][1].value]
        /\ todo' = [todo EXCEPT ![r] = <<>>]
    <3>1. PICK k, v : todo[r] = Accounts!kvSet(k, v)
      BY <1>3, <2>1
    <3>2. Head(todo[r]) = todo[r][1] /\ Tail(todo[r]) = <<>> /\ todo[r][1].cmd = "set"
      BY <1>4, <3>1
    <3>3. Accounts!Applied(store, todo[r][1]) = [store EXCEPT ![todo[r][1].key] = todo[r][1].value]
      BY <1>2, <3>2 DEF Accounts!Applied
    <3> QED BY <2>1, <3>2, <3>3
  <2>3. doc[r] = NoDoc
    BY <2>1 DEF AccountsInv
  <2> QED BY <1>1, <1>5, <2>1, <2>2, <2>3, WriteExecuted
<1>7. CASE Accounts!GistLoad(r)
  <2>1. /\ Backend = "gist" /\ doc' = [doc EXCEPT ![r] = store] /\ UNCHANGED <<store, todo>>
    BY <1>7 DEF Accounts!GistLoad
  <2>4. Old' = Old
    BY <1>1, <2>1 DEF Old, Newborn
  <2>2. /\ req' = [req EXCEPT ![r] = req[r]] /\ todo' = [todo EXCEPT ![r] = todo[r]]
        /\ issued' \subseteq Ids /\ removed' \subseteq Old'
        /\ Serves(req[r], todo[r], Old', store')
    <3>1. /\ issued \subseteq Ids /\ removed \subseteq Old /\ Serves(req[r], todo[r], Old, store)
          /\ req = [req EXCEPT ![r] = req[r]] /\ todo = [todo EXCEPT ![r] = todo[r]]
      BY DEF AccountsInv
    <3> QED BY <1>1, <2>1, <2>4, <3>1
  <2>3. Expecting(req[r], todo[r]) => req[r].id \in issued'
    BY <1>1 DEF AccountsInv
  <2> QED BY <1>1, <1>5, <2>1, <2>2, <2>3, <2>4, OneServed
<1>8. CASE Accounts!GistSave(r)
  <2>1. /\ todo[r] # <<>> /\ doc[r] # NoDoc
        /\ store' = Accounts!Executed(doc[r], todo[r])
        /\ todo' = [todo EXCEPT ![r] = <<>>] /\ doc' = [doc EXCEPT ![r] = NoDoc]
    BY <1>8 DEF Accounts!GistSave, Accounts!Settled
  <2>2. /\ Backend = "gist" /\ doc[r] = [k \in Keys |-> doc[r][k]]
        /\ ShortList(ListOf(doc[r][Accounts!bank]), Old)
    BY <2>1 DEF AccountsInv
  <2>3. store' = [doc[r] EXCEPT ![todo[r][1].key] = todo[r][1].value]
    <3>1. Accounts!Executed(doc[r], todo[r]) = Accounts!Applied(doc[r], todo[r][1])
      BY <1>3, <1>4, <2>1 DEF Accounts!Executed
    <3>2. todo[r][1].cmd = "set"
      BY <1>3, <1>4, <2>1
    <3> QED BY <1>2, <2>1, <3>1, <3>2 DEF Accounts!Applied
  <2> QED BY <1>1, <2>1, <2>2, <2>3, WriteExecuted
<1> QED BY <1>6, <1>7, <1>8 DEF Accounts!StoreActs, Accounts!KvStep

(* "Users MUST be able to save up to 3 EUR bank accounts" (spec.md:220), and no more     *)
(* are ever listed; an account whose removal was answered stays removed, on Redis,      *)
(* however requests that read the list before write it back, and wherever they stop.    *)
THEOREM ForgottenAlways ==
  ASSUME Accounts!BankAccountsAssumption
  PROVE  Accounts!Spec => []( /\ Accounts!AtMostMax
                              /\ Backend = "redis" => Accounts!ForgottenForGood )
<1> DEFINE Promised == /\ Accounts!AtMostMax
                       /\ Backend = "redis" => Accounts!ForgottenForGood
<1>1. Accounts!Init => AccountsInv
  BY AccountsStart
<1>2. AccountsInv /\ [Accounts!Next]_(Accounts!vars) => AccountsInv'
  <2>1. ASSUME AccountsInv, Accounts!Next PROVE AccountsInv'
    BY <2>1, AddKeeps, ForgetKeeps, StoreKeeps DEF Accounts!Next
  <2>2. ASSUME AccountsInv, UNCHANGED Accounts!vars PROVE AccountsInv'
    <3>1. UNCHANGED <<store, todo, doc, req, issued, removed>>
      BY <2>2 DEF Accounts!vars, Accounts!kv_vars
    <3>2. Old' = Old
      BY <3>1 DEF Old, Newborn
    <3> QED BY <2>2, <3>1, <3>2 DEF AccountsInv
  <2> QED BY <2>1, <2>2
<1>3. AccountsInv => Promised
  <2> SUFFICES ASSUME AccountsInv PROVE Promised
    OBVIOUS
  <2>1. Backend = "redis" => Accounts!ForgottenForGood
    BY DEF AccountsInv, Accounts!ForgottenForGood, Accounts!Rows
  <2>2. Accounts!AtMostMax
    <3> DEFINE L == ListOf(store[Accounts!bank])
    <3>1. PICK F : IsFiniteSet(F) /\ Cardinality(F) <= MaxAccounts /\ L \in Seq(F)
      BY DEF AccountsInv, ShortList
    <3>2. Accounts!Listed \subseteq F
      <4>1. Accounts!Listed = {L[k] : k \in DOMAIN L}
        BY DEF Accounts!Listed, Accounts!ToSet, Accounts!ListOf, ListOf
      <4> HIDE DEF L
      <4> QED BY <3>1, <4>1
    <3> DEFINE shown == Accounts!Listed \cap Accounts!Rows
    <3>3. Cardinality(shown) <= Cardinality(F) /\ IsFiniteSet(shown)
      <4>1. shown \in SUBSET F
        BY <3>2
      <4> HIDE DEF shown
      <4> QED BY <3>1, <4>1, FS_Subset
    <3>4. Cardinality(shown) \in Nat /\ Cardinality(F) \in Nat /\ MaxAccounts \in Nat
      BY <3>1, <3>3, FS_CardinalityType DEF Accounts!BankAccountsAssumption
    <3>5. Cardinality(shown) <= MaxAccounts
      BY <3>1, <3>3, <3>4
    <3> QED BY <3>5, AccountsCount DEF Accounts!AtMostMax
  <2> QED BY <2>1, <2>2
<1> HIDE DEF Promised
<1>4. Accounts!Spec => []Promised
  BY <1>1, <1>2, <1>3, PTL DEF Accounts!Spec
<1> QED BY <1>4, PTL DEF Promised

(* With one request at a time and none that stops, the ids and the rows agree once the *)
(* write under way is executed, up to what the request at hand has still to do.      *)
OneOwner == (\A r, s \in Requests : r = s) /\ ~Stops

ListIn(V) == ListOf(V[Accounts!bank])
IdsIn(V)  == Elements(ListIn(V))
RowsIn(V) == {i \in Ids : V[Accounts!row(i)] # NoEntry}

(* What is listed and what has a row, at each place the request x may be in; G are the *)
(* accounts the owner was told are saved and not told are gone.                    *)
Agree(x, V, G) ==
  \/ x = [at |-> "idle"] /\ IdsIn(V) = RowsIn(V) /\ G \subseteq RowsIn(V)
  \/ /\ x = [at |-> x.at, id |-> x.id, ids |-> x.ids, unread |-> x.unread, live |-> x.live]
     /\ x.id \in Ids /\ x.ids = ListIn(V) /\ G \subseteq IdsIn(V)
     /\ \/ /\ x.at = "reading" /\ IdsIn(V) = RowsIn(V)
           /\ x.unread \subseteq IdsIn(V) /\ x.live = IdsIn(V) \ x.unread
        \/ x.at = "listing" /\ RowsIn(V) = IdsIn(V) \cup {x.id} /\ x.live = IdsIn(V)
  \/ /\ x = [at |-> x.at, id |-> x.id] /\ x.id \in Ids
     /\ \/ /\ x.at = "added" /\ IdsIn(V) = RowsIn(V) /\ x.id \in RowsIn(V)
           /\ G \subseteq RowsIn(V)
        \/ x.at = "forgetting" /\ IdsIn(V) = RowsIn(V) \ {x.id} /\ G \subseteq RowsIn(V)
        \/ x.at = "removed" /\ IdsIn(V) = RowsIn(V) /\ G \ {x.id} \subseteq RowsIn(V)

LEMMA AccountsStore ==
  /\ \A k, v : Accounts!kvSet(k, v) = kvSet(k, v)
  /\ \A r : Accounts!KvStep(r) <=> KvStep(r)
<1>1. \A k, v : Accounts!kvSet(k, v) = kvSet(k, v)
  BY DEF Accounts!kvSet, kvSet
<1>2. \A e, c : Accounts!Applied(e, c) = Applied(e, c)
  BY DEF Accounts!Applied, Applied, Accounts!Changed, Changed, Accounts!ListOf, ListOf,
         Accounts!FirstOf, FirstOf
<1>3. \A e, c : Accounts!Executed(e, c) = Executed(e, c)
  BY <1>2 DEF Accounts!Executed, Executed
<1>4. ASSUME NEW r PROVE Accounts!KvStep(r) <=> KvStep(r)
  BY <1>2, <1>3 DEF Accounts!KvStep, KvStep, Accounts!RedisCommand, RedisCommand,
     Accounts!GistLoad, GistLoad, Accounts!GistSave, GistSave, Accounts!Settled, Settled
<1> QED BY <1>1, <1>4

KeepsAll(V, r) ==
  /\ Leads(V, r) /\ V = [k \in Keys |-> V[k]] /\ ListIn(V) \in Seq(Ids)
  /\ Agree(req[r], V, added \ removed)
AgreeInv ==
  /\ store = [k \in Keys |-> store[k]]
  /\ req = [r \in Requests |-> req[r]] /\ todo = [r \in Requests |-> todo[r]]
  /\ doc = [r \in Requests |-> doc[r]]
  /\ \A r \in Requests : \E V : KeepsAll(V, r)
  /\ Requests = {} => Accounts!NothingLost

(* What a write of the list, or of a row, does to them. *)
LEMMA ListWritten ==
  ASSUME Accounts!BankAccountsAssumption, NEW V, V = [k \in Keys |-> V[k]],
         NEW L \in Seq(Ids), NEW U, U = [V EXCEPT ![Accounts!bank] = L]
  PROVE  /\ U = [k \in Keys |-> U[k]] /\ ListIn(U) = L /\ RowsIn(U) = RowsIn(V)
         /\ IdsIn(U) = Elements(L)
<1>1. Accounts!bank \in Keys /\ \A i \in Ids : Accounts!row(i) \in Keys
  BY DEF Accounts!BankAccountsAssumption
<1>2. U[Accounts!bank] = L /\ \A i \in Ids : U[Accounts!row(i)] = V[Accounts!row(i)]
  BY <1>1, RowsApart
<1>3. L # NoEntry
  BY DEF Accounts!BankAccountsAssumption, Accounts!Saved
<1>4. ListIn(U) = L
  BY <1>2, <1>3 DEF ListIn, ListOf
<1>5. RowsIn(U) = RowsIn(V)
  BY <1>2 DEF RowsIn
<1> QED BY <1>4, <1>5 DEF IdsIn

RowTurns(U, V, rows) ==
  /\ U = [k \in Keys |-> U[k]] /\ ListIn(U) = ListIn(V) /\ IdsIn(U) = IdsIn(V)
  /\ RowsIn(U) = rows

LEMMA RowWritten ==
  ASSUME Accounts!BankAccountsAssumption, NEW V, V = [k \in Keys |-> V[k]],
         NEW i \in Ids, NEW e, NEW U, U = [V EXCEPT ![Accounts!row(i)] = e]
  PROVE  /\ e = Accounts!Saved(i) => RowTurns(U, V, RowsIn(V) \cup {i})
         /\ e = NoEntry => RowTurns(U, V, RowsIn(V) \ {i})
<1>1. Accounts!bank \in Keys /\ \A j \in Ids : Accounts!row(j) \in Keys
  BY DEF Accounts!BankAccountsAssumption
<1>2. /\ U[Accounts!bank] = V[Accounts!bank] /\ U[Accounts!row(i)] = e
      /\ \A j \in Ids \ {i} : U[Accounts!row(j)] = V[Accounts!row(j)]
  BY <1>1, RowsApart
<1>3. Accounts!Saved(i) # NoEntry
  BY DEF Accounts!BankAccountsAssumption, Accounts!Saved
<1> QED BY <1>2, <1>3 DEF RowTurns, ListIn, IdsIn, RowsIn

(* A step of the one request. *)
LEMMA OneAgrees ==
  ASSUME OneOwner, AgreeInv, NEW r \in Requests, NEW V, NEW x, NEW w,
         req' = [req EXCEPT ![r] = x], todo' = [todo EXCEPT ![r] = w], UNCHANGED <<store, doc>>,
         V = [k \in Keys |-> V[k]], ListIn(V) \in Seq(Ids), Leads(V, r)',
         Agree(x, V, (added \ removed)')
  PROVE  AgreeInv'
<1>1. req'[r] = x /\ \A s \in Requests : s = r
  BY DEF OneOwner, AgreeInv
<1>2. KeepsAll(V, r)'
  BY <1>1 DEF KeepsAll, Agree, IdsIn, Elements, RowsIn, ListIn, ListOf
<1>3. /\ store' = [k \in Keys |-> store'[k]]
      /\ req' = [s \in Requests |-> req'[s]] /\ todo' = [s \in Requests |-> todo'[s]]
      /\ doc' = [s \in Requests |-> doc'[s]]
  BY DEF AgreeInv
<1> QED BY <1>1, <1>2, <1>3 DEF AgreeInv

LEMMA AddAgrees ==
  ASSUME Accounts!BankAccountsAssumption, OneOwner, AgreeInv,
         NEW r \in Requests, Accounts!Add(r)
  PROVE  AgreeInv'
<1> USE DEF Accounts!GotoWith, Accounts!Goto, Accounts!At, Accounts!Settled, Accounts!Answer,
            Accounts!IdleReq, Accounts!kv_vars, Accounts!Await
<1>1. PICK V : KeepsAll(V, r)
  BY DEF AgreeInv
<1>2. /\ todo = [todo EXCEPT ![r] = todo[r]]
      /\ todo[r] = <<>> /\ UNCHANGED <<store, doc>>
  BY DEF AgreeInv, Accounts!Add, Accounts!AddAccount, Accounts!ReadRow, Accounts!SaveRow,
         Accounts!SaveIds, Accounts!AnswerAdded
<1>3. V = store /\ doc[r] = NoDoc
  BY <1>1, <1>2, SettledLeads DEF KeepsAll
<1>4. V = [k \in Keys |-> V[k]] /\ ListIn(V) \in Seq(Ids) /\ Agree(req[r], V, added \ removed)
  BY <1>1 DEF KeepsAll
<1>5. todo' = [todo EXCEPT ![r] = <<>>] => Leads(V, r)'
  BY <1>2, <1>3 DEF Leads, AgreeInv
<1> DEFINE y == req[r]
           G == added \ removed
<1>6. ASSUME NEW i \in Ids, Accounts!AddAccount(r, i) PROVE AgreeInv'
  <2> DEFINE x == [at |-> "reading", id |-> i, ids |-> Accounts!ListOf(Accounts!kvGet(Accounts!bank)),
                   unread |-> Accounts!ToSet(Accounts!ListOf(Accounts!kvGet(Accounts!bank))),
                   live |-> {}]
  <2>1. /\ req' = [req EXCEPT ![r] = x] /\ todo' = [todo EXCEPT ![r] = <<>>]
        /\ y.at = "idle" /\ (added \ removed)' = G
    BY <1>2, <1>6 DEF Accounts!AddAccount
  <2>2. IdsIn(V) = RowsIn(V) /\ G \subseteq RowsIn(V)
    BY <1>4, <2>1 DEF Agree
  <2>3. /\ x.at = "reading" /\ x.id = i /\ x.live = {} /\ x.ids = ListIn(V)
        /\ x.unread = IdsIn(V)
        /\ x = [at |-> x.at, id |-> x.id, ids |-> x.ids, unread |-> x.unread, live |-> x.live]
    BY <1>3 DEF Accounts!ListOf, Accounts!kvGet, Accounts!ToSet, ListIn, IdsIn, Elements, ListOf
  <2> HIDE DEF x
  <2>4. Agree(x, V, (added \ removed)')
    BY <2>1, <2>2, <2>3 DEF Agree
  <2> QED BY <1>2, <1>4, <1>5, <2>1, <2>4, OneAgrees
<1>7. ASSUME NEW j \in Ids, Accounts!ReadRow(r, j) PROVE AgreeInv'
  <2> DEFINE left == y.unread \ {j}
             found == IF Accounts!kvGet(Accounts!row(j)) = NoEntry THEN y.live
                      ELSE y.live \cup {j}
             x == [y EXCEPT !.unread = left, !.live = found]
  <2>1. /\ req' = [req EXCEPT ![r] = x] /\ todo' = [todo EXCEPT ![r] = <<>>]
        /\ y.at = "reading" /\ j \in y.unread /\ (added \ removed)' = G
    BY <1>2, <1>7 DEF Accounts!ReadRow
  <2>2. /\ IdsIn(V) = RowsIn(V) /\ G \subseteq IdsIn(V)
        /\ y.unread \subseteq IdsIn(V) /\ y.live = IdsIn(V) \ y.unread
        /\ y = [at |-> y.at, id |-> y.id, ids |-> y.ids, unread |-> y.unread, live |-> y.live]
        /\ y.id \in Ids /\ y.ids = ListIn(V)
    BY <1>4, <2>1 DEF Agree
  <2>3. found = y.live \cup {j}
    BY <1>3, <2>1, <2>2 DEF RowsIn, Accounts!kvGet
  <2>4. /\ x.at = "reading" /\ x.id = y.id /\ x.ids = y.ids /\ x.unread = y.unread \ {j}
        /\ x.live = y.live \cup {j}
        /\ x = [at |-> x.at, id |-> x.id, ids |-> x.ids, unread |-> x.unread, live |-> x.live]
    <3>1. left = y.unread \ {j}
      OBVIOUS
    <3> HIDE DEF y, left, found
    <3>2. DOMAIN x = {"at", "id", "ids", "unread", "live"}
      BY <2>2
    <3>3. /\ x.at = y.at /\ x.id = y.id /\ x.ids = y.ids
          /\ x.unread = left /\ x.live = found
      BY <2>2
    <3>4. x = [k \in DOMAIN x |-> x[k]]
      OBVIOUS
    <3> HIDE DEF x
    <3>5. x = [at |-> x.at, id |-> x.id, ids |-> x.ids, unread |-> x.unread, live |-> x.live]
      BY <3>2, <3>4
    <3> QED BY <2>1, <2>3, <3>1, <3>3, <3>5
  <2> HIDE DEF x
  <2>5. Agree(x, V, (added \ removed)')
    BY <2>1, <2>2, <2>4 DEF Agree
  <2> QED BY <1>2, <1>4, <1>5, <2>1, <2>5, OneAgrees
<1>8. CASE Accounts!SaveRow(r)
  <2>1. /\ y.at = "reading" /\ y.unread = {} /\ (added \ removed)' = G
    BY <1>8 DEF Accounts!SaveRow
  <2>2. /\ IdsIn(V) = RowsIn(V) /\ G \subseteq IdsIn(V) /\ y.live = IdsIn(V)
        /\ y = [at |-> y.at, id |-> y.id, ids |-> y.ids, unread |-> y.unread, live |-> y.live]
        /\ y.id \in Ids /\ y.ids = ListIn(V)
    BY <1>4, <2>1 DEF Agree
  <2>3. CASE Accounts!Full(Accounts!Cardinality(y.live))
    <3>1. /\ req' = [req EXCEPT ![r] = [at |-> "idle"]] /\ todo' = [todo EXCEPT ![r] = <<>>]
      BY <1>2, <1>8, <2>3 DEF Accounts!SaveRow
    <3>2. Agree([at |-> "idle"], V, (added \ removed)')
      BY <2>1, <2>2 DEF Agree
    <3> QED BY <1>2, <1>4, <1>5, <3>1, <3>2, OneAgrees
  <2>4. CASE ~Accounts!Full(Accounts!Cardinality(y.live))
    <3> DEFINE x == [y EXCEPT !.at = "listing"]
               e == Accounts!Saved(y.id)
               w == Accounts!kvSet(Accounts!row(y.id), e)
    <3>1. /\ req' = [req EXCEPT ![r] = x] /\ todo' = [todo EXCEPT ![r] = w]
      BY <1>2, <1>8, <2>4 DEF Accounts!SaveRow
    <3>2. /\ x.at = "listing" /\ x.id = y.id /\ x.ids = y.ids /\ x.live = y.live
          /\ x = [at |-> x.at, id |-> x.id, ids |-> x.ids, unread |-> x.unread, live |-> x.live]
      BY <2>2
    <3>3. PICK U : U = [V EXCEPT ![Accounts!row(y.id)] = e]
      OBVIOUS
    <3>4. RowTurns(U, V, RowsIn(V) \cup {y.id})
      BY <1>4, <2>2, <3>3, RowWritten
    <3>5. Leads(U, r)'
      <4>1. Accounts!row(y.id) \in Keys
        BY <2>2 DEF Accounts!BankAccountsAssumption
      <4>2. todo'[r] = kvSet(Accounts!row(y.id), e)
        BY <3>1, AccountsStore DEF AgreeInv
      <4> QED BY <1>2, <1>3, <3>3, <4>1, <4>2, LeadsNow
    <3> HIDE DEF x, w
    <3>6. Agree(x, U, (added \ removed)')
      BY <2>1, <2>2, <3>2, <3>4 DEF Agree, RowTurns
    <3> QED BY <1>2, <1>4, <3>1, <3>4, <3>5, <3>6, OneAgrees DEF RowTurns
  <2> QED BY <2>3, <2>4
<1>9. CASE Accounts!SaveIds(r)
  <2> DEFINE x == [at |-> "added", id |-> y.id]
             kept == Accounts!Only(y.ids, y.live)
             L == Append(kept, y.id)
             w == Accounts!kvSet(Accounts!bank, L)
  <2>1. /\ req' = [req EXCEPT ![r] = x] /\ todo' = [todo EXCEPT ![r] = w]
        /\ y.at = "listing" /\ (added \ removed)' = G
    BY <1>2, <1>9 DEF Accounts!SaveIds
  <2>2. /\ RowsIn(V) = IdsIn(V) \cup {y.id} /\ y.live = IdsIn(V) /\ G \subseteq IdsIn(V)
        /\ y.id \in Ids /\ y.ids = ListIn(V)
    BY <1>4, <2>1 DEF Agree
  <2>3. PICK K : K = kept
    OBVIOUS
  <2>4. K \in Seq(Ids) /\ Elements(K) = IdsIn(V)
    <3>1. y.ids \in Seq(Ids) /\ IdsIn(V) = Elements(y.ids)
      BY <1>4, <2>2 DEF IdsIn
    <3>2. K = Only(y.ids, y.live)
      BY <2>3 DEF Accounts!Only, Only
    <3>3. Filtered(K, y.ids, y.live, Ids)
      BY <3>1, <3>2, FilteredSet
    <3> QED BY <2>2, <3>1, <3>3 DEF Filtered
  <2>5. PICK J : J = Append(K, y.id)
    OBVIOUS
  <2>6. J \in Seq(Ids) /\ Elements(J) = IdsIn(V) \cup {y.id}
    <3>1. Extended(J, K, y.id, Ids)
      BY <2>2, <2>4, <2>5, AppendedSet
    <3> QED BY <2>4, <3>1 DEF Extended
  <2>7. PICK U : U = [V EXCEPT ![Accounts!bank] = J]
    OBVIOUS
  <2>8. /\ U = [k \in Keys |-> U[k]] /\ ListIn(U) = J /\ RowsIn(U) = RowsIn(V)
        /\ IdsIn(U) = RowsIn(V)
    BY <1>4, <2>2, <2>6, <2>7, ListWritten
  <2>9. Leads(U, r)'
    <3>1. Accounts!bank \in Keys
      BY DEF Accounts!BankAccountsAssumption
    <3>2. todo'[r] = kvSet(Accounts!bank, J)
      BY <2>1, <2>3, <2>5, AccountsStore DEF AgreeInv
    <3> QED BY <1>2, <1>3, <2>7, <3>1, <3>2, LeadsNow
  <2>10. Agree(x, U, (added \ removed)')
    BY <2>1, <2>2, <2>8 DEF Agree
  <2> HIDE DEF x, w
  <2> QED BY <1>2, <2>1, <2>6, <2>8, <2>9, <2>10, OneAgrees
<1>10. CASE Accounts!AnswerAdded(r)
  <2>1. /\ req' = [req EXCEPT ![r] = [at |-> "idle"]] /\ todo' = [todo EXCEPT ![r] = <<>>]
        /\ y.at = "added" /\ (added \ removed)' \subseteq G \cup {y.id}
    BY <1>2, <1>10 DEF Accounts!AnswerAdded
  <2>2. Agree([at |-> "idle"], V, (added \ removed)')
    BY <1>4, <2>1 DEF Agree
  <2> QED BY <1>2, <1>4, <1>5, <2>1, <2>2, OneAgrees
<1> QED BY <1>6, <1>7, <1>8, <1>9, <1>10 DEF Accounts!Add

LEMMA ForgetAgrees ==
  ASSUME Accounts!BankAccountsAssumption, OneOwner, AgreeInv,
         NEW r \in Requests, Accounts!Forget(r)
  PROVE  AgreeInv'
<1> USE DEF Accounts!GotoWith, Accounts!Goto, Accounts!At, Accounts!Settled, Accounts!Answer,
            Accounts!IdleReq, Accounts!kv_vars, Accounts!Await
<1>1. PICK V : KeepsAll(V, r)
  BY DEF AgreeInv
<1>2. /\ todo = [todo EXCEPT ![r] = todo[r]]
      /\ todo[r] = <<>> /\ UNCHANGED <<store, doc>>
  BY DEF AgreeInv, Accounts!Forget, Accounts!RemoveAccount, Accounts!ForgetRow,
         Accounts!AnswerRemoved
<1>3. V = store /\ doc[r] = NoDoc
  BY <1>1, <1>2, SettledLeads DEF KeepsAll
<1>4. V = [k \in Keys |-> V[k]] /\ ListIn(V) \in Seq(Ids) /\ Agree(req[r], V, added \ removed)
  BY <1>1 DEF KeepsAll
<1> DEFINE y == req[r]
           G == added \ removed
<1>5. ASSUME NEW i \in Ids, Accounts!RemoveAccount(r, i) PROVE AgreeInv'
  <2> DEFINE x == [at |-> "forgetting", id |-> i]
             kept == Accounts!Only(Accounts!kvGet(Accounts!bank), Ids \ {i})
             w == Accounts!kvSet(Accounts!bank, kept)
  <2>1. /\ req' = [req EXCEPT ![r] = x] /\ todo' = [todo EXCEPT ![r] = w]
        /\ y.at = "idle" /\ (added \ removed)' = G /\ Accounts!kvGet(Accounts!bank) # NoEntry
    BY <1>2, <1>5 DEF Accounts!RemoveAccount, Accounts!Unlisted
  <2>2. IdsIn(V) = RowsIn(V) /\ G \subseteq RowsIn(V)
    BY <1>4, <2>1 DEF Agree
  <2>3. Accounts!kvGet(Accounts!bank) = ListIn(V)
    BY <1>3, <2>1 DEF Accounts!kvGet, ListIn, ListOf
  <2>4. PICK K : K = kept
    OBVIOUS
  <2>5. K \in Seq(Ids) /\ Elements(K) = RowsIn(V) \ {i}
    <3>1. K \in Seq(Ids) /\ Elements(K) = IdsIn(V) \cap (Ids \ {i})
      <4>1. PICK L \in Seq(Ids) : L = ListIn(V) /\ IdsIn(V) = Elements(L)
        BY <1>4 DEF IdsIn
      <4>2. PICK S : S = Ids \ {i}
        OBVIOUS
      <4>3. K = Accounts!Only(L, S)
        BY <2>3, <2>4, <4>1, <4>2
      <4>4. K = Only(L, S)
        BY <4>3 DEF Accounts!Only, Only
      <4>5. Filtered(K, L, S, Ids)
        BY <4>4, FilteredSet
      <4> QED BY <4>1, <4>2, <4>5 DEF Filtered
    <3>2. RowsIn(V) \subseteq Ids
      BY DEF RowsIn
    <3> QED BY <2>2, <3>1, <3>2
  <2>6. PICK U : U = [V EXCEPT ![Accounts!bank] = K]
    OBVIOUS
  <2>7. /\ U = [k \in Keys |-> U[k]] /\ ListIn(U) = K /\ RowsIn(U) = RowsIn(V)
        /\ IdsIn(U) = RowsIn(V) \ {i}
    BY <1>4, <2>5, <2>6, ListWritten
  <2>8. Leads(U, r)'
    <3>1. Accounts!bank \in Keys
      BY DEF Accounts!BankAccountsAssumption
    <3>2. todo'[r] = kvSet(Accounts!bank, K)
      BY <2>1, <2>4, AccountsStore DEF AgreeInv
    <3> QED BY <1>2, <1>3, <2>6, <3>1, <3>2, LeadsNow
  <2>9. Agree(x, U, (added \ removed)')
    BY <2>1, <2>2, <2>7 DEF Agree
  <2> HIDE DEF x, w
  <2> QED BY <1>2, <2>1, <2>5, <2>7, <2>8, <2>9, OneAgrees
<1>6. CASE Accounts!ForgetRow(r)
  <2> DEFINE x == [at |-> "removed", id |-> y.id]
             w == Accounts!kvSet(Accounts!row(y.id), NoEntry)
  <2>1. /\ req' = [req EXCEPT ![r] = x] /\ todo' = [todo EXCEPT ![r] = w]
        /\ y.at = "forgetting" /\ (added \ removed)' = G
    BY <1>2, <1>6 DEF Accounts!ForgetRow
  <2>2. IdsIn(V) = RowsIn(V) \ {y.id} /\ G \subseteq RowsIn(V) /\ y.id \in Ids
    BY <1>4, <2>1 DEF Agree
  <2>3. PICK U : U = [V EXCEPT ![Accounts!row(y.id)] = NoEntry]
    OBVIOUS
  <2>4. RowTurns(U, V, RowsIn(V) \ {y.id})
    BY <1>4, <2>2, <2>3, RowWritten
  <2>5. Leads(U, r)'
    <3>1. Accounts!row(y.id) \in Keys
      BY <2>2 DEF Accounts!BankAccountsAssumption
    <3>2. todo'[r] = kvSet(Accounts!row(y.id), NoEntry)
      BY <2>1, AccountsStore DEF AgreeInv
    <3> QED BY <1>2, <1>3, <2>3, <3>1, <3>2, LeadsNow
  <2>6. Agree(x, U, (added \ removed)')
    BY <2>1, <2>2, <2>4 DEF Agree, RowTurns
  <2> HIDE DEF x, w
  <2> QED BY <1>2, <1>4, <2>1, <2>4, <2>5, <2>6, OneAgrees DEF RowTurns
<1>7. CASE Accounts!AnswerRemoved(r)
  <2>1. /\ req' = [req EXCEPT ![r] = [at |-> "idle"]] /\ todo' = [todo EXCEPT ![r] = <<>>]
        /\ y.at = "removed" /\ (added \ removed)' = G \ {y.id}
    BY <1>2, <1>7 DEF Accounts!AnswerRemoved
  <2>2. Agree([at |-> "idle"], V, (added \ removed)')
    BY <1>4, <2>1 DEF Agree
  <2>3. Leads(V, r)'
    BY <1>2, <1>3, <2>1 DEF Leads, AgreeInv
  <2> QED BY <1>2, <1>4, <2>1, <2>2, <2>3, OneAgrees
<1> QED BY <1>5, <1>6, <1>7 DEF Accounts!Forget

LEMMA StoreAgrees ==
  ASSUME OneOwner, AgreeInv, NEW r \in Requests, Accounts!StoreActs(r)
  PROVE  AgreeInv'
<1>1. PICK V : KeepsAll(V, r)
  BY DEF AgreeInv
<1>2. UNCHANGED <<req, added, removed>> /\ KvStep(r) /\ \A s \in Requests : s = r
  BY AccountsStore DEF Accounts!StoreActs, OneOwner
<1>3. /\ Leads(V, r)' /\ store' \in {store, V}
      /\ todo' = [s \in Requests |-> todo'[s]] /\ doc' = [s \in Requests |-> doc'[s]]
  BY <1>1, <1>2, WriteLands DEF KeepsAll, AgreeInv
<1>4. store' = [q \in Keys |-> store'[q]]
  BY <1>1, <1>3 DEF KeepsAll, AgreeInv
<1>5. KeepsAll(V, r)'
  BY <1>1, <1>2, <1>3 DEF KeepsAll, Agree, IdsIn, Elements, RowsIn, ListIn, ListOf
<1> QED BY <1>2, <1>3, <1>4, <1>5 DEF AgreeInv

LEMMA AgreeStart ==
  ASSUME Accounts!BankAccountsAssumption, NEW r \in Requests, Accounts!Init
  PROVE  KeepsAll(store, r)
<1>1. /\ store = [k \in Keys |-> NoEntry] /\ todo[r] = <<>> /\ doc[r] = NoDoc
      /\ req[r] = [at |-> "idle"] /\ added = {}
      /\ Accounts!bank \in Keys /\ \A i \in Ids : Accounts!row(i) \in Keys
  BY DEF Accounts!Init, Accounts!KvInit, Accounts!AccountsInit, Accounts!IdleReq,
         Accounts!BankAccountsAssumption
<1>2. ListIn(store) = <<>> /\ RowsIn(store) = {}
  BY <1>1 DEF ListIn, ListOf, RowsIn
<1>3. IdsIn(store) = {} /\ ListIn(store) \in Seq(Ids)
  <2>1. DOMAIN <<>> = {} /\ <<>> \in Seq(Ids)
    OBVIOUS
  <2>2. \A L : L = <<>> => {L[n] : n \in DOMAIN L} = {}
    BY <2>1
  <2> QED BY <1>2, <2>1, <2>2 DEF IdsIn, Elements
<1>4. Agree(req[r], store, added \ removed)
  BY <1>1, <1>2, <1>3 DEF Agree
<1> QED BY <1>1, <1>3, <1>4 DEF KeepsAll, Leads

(* An account the wallet was told is saved is listed until it is removed               *)
(* (data-model.md:104; spec.md:220), and no row is left that nobody can remove any more: *)
(* of requests one at a time, none of which stops.                                 *)
THEOREM NothingLostAlways ==
  ASSUME Accounts!BankAccountsAssumption, OneOwner
  PROVE  Accounts!Spec => []Accounts!NothingLost
<1>1. Accounts!Init => AgreeInv
  <2> SUFFICES ASSUME Accounts!Init PROVE AgreeInv
    OBVIOUS
  <2>1. /\ store = [k \in Keys |-> store[k]]
        /\ req = [r \in Requests |-> req[r]] /\ todo = [r \in Requests |-> todo[r]]
        /\ doc = [r \in Requests |-> doc[r]]
    BY DEF Accounts!Init, Accounts!KvInit, Accounts!BankAccountsAssumption
  <2>2. Accounts!NothingLost
    <3>1. \A i \in Ids : store[Accounts!row(i)] = NoEntry
      BY DEF Accounts!Init, Accounts!KvInit, Accounts!BankAccountsAssumption
    <3>2. added = {}
      BY DEF Accounts!Init, Accounts!AccountsInit
    <3> QED BY <3>1, <3>2 DEF Accounts!NothingLost, Accounts!Rows
  <2> QED BY <2>1, <2>2, AgreeStart DEF AgreeInv
<1>2. AgreeInv /\ [Accounts!Next]_(Accounts!vars) => AgreeInv'
  <2>1. ASSUME AgreeInv, Accounts!Next PROVE AgreeInv'
    <3>1. \A r \in Requests : ~Accounts!Stop(r)
      BY DEF OneOwner, Accounts!Stop
    <3> QED BY <2>1, <3>1, AddAgrees, ForgetAgrees, StoreAgrees DEF Accounts!Next
  <2>2. ASSUME AgreeInv, UNCHANGED Accounts!vars PROVE AgreeInv'
    <3>1. UNCHANGED <<store, todo, doc, req, added, removed>>
      BY <2>2 DEF Accounts!vars, Accounts!kv_vars
    <3>2. ASSUME NEW r, NEW V, KeepsAll(V, r) PROVE KeepsAll(V, r)'
      <4>1. Leads(V, r) => Leads(V, r)'
        BY <3>1 DEF Leads
      <4>2. Agree(req[r], V, added \ removed) => Agree(req[r], V, added \ removed)'
        BY <3>1 DEF Agree, IdsIn, Elements, RowsIn, ListIn, ListOf
      <4> QED BY <3>1, <3>2, <4>1, <4>2 DEF KeepsAll, ListIn, ListOf
    <3>3. Accounts!NothingLost => Accounts!NothingLost'
      BY <3>1 DEF Accounts!NothingLost, Accounts!Quiet, Accounts!At, Accounts!Settled,
                  Accounts!Listed, Accounts!Rows, Accounts!ListOf, Accounts!ToSet
    <3> QED BY <2>2, <3>1, <3>2, <3>3 DEF AgreeInv
  <2> QED BY <2>1, <2>2
<1>3. AgreeInv => Accounts!NothingLost
  <2> SUFFICES ASSUME AgreeInv, Accounts!Quiet PROVE Accounts!NothingLost
    BY DEF Accounts!NothingLost
  <2>1. CASE Requests = {}
    <3> QED BY <2>1 DEF AgreeInv
  <2>2. CASE Requests # {}
    <3>1. PICK r \in Requests : TRUE
      BY <2>2
    <3>2. req[r].at = "idle" /\ todo[r] = <<>>
      BY DEF Accounts!Quiet, Accounts!At, Accounts!Settled
    <3>3. PICK V : KeepsAll(V, r)
      BY DEF AgreeInv
    <3>4. V = store
      BY <3>2, <3>3, SettledLeads DEF KeepsAll
    <3>5. IdsIn(V) = RowsIn(V) /\ added \ removed \subseteq RowsIn(V)
      BY <3>2, <3>3 DEF KeepsAll, Agree
    <3>6. Accounts!Listed = IdsIn(V) /\ Accounts!Rows = RowsIn(V)
      BY <3>4 DEF Accounts!Listed, Accounts!ToSet, Accounts!ListOf, ListOf, ListIn, IdsIn, Elements,
                  Accounts!Rows, RowsIn
    <3> QED BY <3>5, <3>6 DEF Accounts!NothingLost
  <2> QED BY <2>1, <2>2
<1> QED BY <1>1, <1>2, <1>3, PTL DEF Accounts!Spec

-----------------------------------------------------------------------------
(* The price points of the chart.  A list of points is kept in the store, and written    *)
(* from the commands of a write or from a loaded document; each is good by itself.      *)

CONSTANTS AgreementBps, MinLiquidity, MaxStockAge, MaxPythAge, MaxPythConf, PriceScale,
          Unknown, Readings, Insured, Typed, Reference, Cent, Hour, Window, MaxPosts, FetchFails
VARIABLES signed, posts

Desk == INSTANCE PriceDesk WITH txs <- posts

PostType(P) == [price : P, source : {"market", "demo"}, by : {"sync", "admin"},
                state : {"sent", "done"}]
Posted(ts) == {ts[k].price : k \in {l \in DOMAIN ts : ts[l].state = "done"}}
Points(ps) == [t : Nat, price : ps]
Rounded(ps) == {Desk!ToCents(p) : p \in ps}
Hourly(L) == \A i, j \in DOMAIN L : i < j => L[j].t - L[i].t \in Hour .. Window

Kept(e, ps) ==
  /\ e = [k \in Keys |-> e[k]]
  /\ ListOf(e[Desk!pricehist]) \in Seq(Points(Rounded(ps)))
  /\ Hourly(ListOf(e[Desk!pricehist]))
  /\ ListOf(e[Desk!pricedemo]) \in Seq(Points(ps))
Setting(key, value, ps) ==
  \/ key = Desk!pricehist /\ value \in Seq(Points(Rounded(ps))) /\ Hourly(value)
  \/ key = Desk!pricedemo /\ value \in Seq(Points(ps))
  \/ key = Desk!hist
Queued(w, ps) == w = <<>> \/ \E key, value : w = Desk!kvSet(key, value) /\ Setting(key, value, ps)

(* A point is added only for a transaction that was seen executed. *)
Asked(x, ts) ==
  /\ x.at = "confirming" =>
       /\ x = [at |-> x.at, tx |-> x.tx, price |-> x.price, then |-> x.then]
       /\ x.tx \in DOMAIN ts /\ x.price = ts[x.tx].price
       /\ x.then \in {"recording", "demo point"}
  /\ x.at \in {"recording", "demo point"} => x.price \in Posted(ts)

DeskInv ==
  /\ now \in Nat /\ \E P : posts \in Seq(PostType(P))
  /\ req = [r \in Requests |-> req[r]] /\ todo = [r \in Requests |-> todo[r]]
  /\ doc = [r \in Requests |-> doc[r]]
  /\ Kept(store, Posted(posts))
  /\ \A r \in Requests :
       /\ Asked(req[r], posts) /\ Queued(todo[r], Posted(posts))
       /\ doc[r] # NoDoc => Kept(doc[r], Posted(posts))

(* A transaction is only sent or executed, so what was executed stays so. *)
LaterPosts(ts, us) ==
  /\ \E P : us \in Seq(PostType(P))
  /\ \A k \in DOMAIN ts : /\ k \in DOMAIN us /\ us[k].price = ts[k].price
                          /\ ts[k].state = "done" => us[k].state = "done"

LEMMA PostedGrows ==
  ASSUME NEW ts, NEW us, LaterPosts(ts, us)
  PROVE  /\ Posted(ts) \subseteq Posted(us)
         /\ \A e : Kept(e, Posted(ts)) => Kept(e, Posted(us))
         /\ \A w : Queued(w, Posted(ts)) => Queued(w, Posted(us))
         /\ \A x : Asked(x, ts) => Asked(x, us)
<1>1. Posted(ts) \subseteq Posted(us)
  BY DEF LaterPosts, Posted
<1>2. /\ Seq(Points(Posted(ts))) \subseteq Seq(Points(Posted(us)))
      /\ Seq(Points(Rounded(Posted(ts)))) \subseteq Seq(Points(Rounded(Posted(us))))
  <2>1. Points(Posted(ts)) \subseteq Points(Posted(us))
    BY <1>1 DEF Points
  <2>2. Rounded(Posted(ts)) \subseteq Rounded(Posted(us))
    BY <1>1 DEF Rounded
  <2>3. Points(Rounded(Posted(ts))) \subseteq Points(Rounded(Posted(us)))
    BY <2>2 DEF Points
  <2> QED BY <2>1, <2>3, SeqMonotonic
<1>3. \A e : Kept(e, Posted(ts)) => Kept(e, Posted(us))
  BY <1>2 DEF Kept
<1>4. \A w : Queued(w, Posted(ts)) => Queued(w, Posted(us))
  BY <1>2 DEF Queued, Setting
<1>5. \A x : Asked(x, ts) => Asked(x, us)
  BY <1>1 DEF LaterPosts, Asked
<1> QED BY <1>1, <1>3, <1>4, <1>5

LEMMA SamePosts ==
  ASSUME DeskInv
  PROVE  LaterPosts(posts, posts)
BY DEF DeskInv, LaterPosts

LEMMA DeskStart ==
  ASSUME Desk!DeskAssumption, Desk!Init
  PROVE  DeskInv
<1>1. /\ store = [k \in Keys |-> NoEntry] /\ todo = [r \in Requests |-> <<>>]
      /\ doc = [r \in Requests |-> NoDoc] /\ posts = <<>> /\ now = 0
      /\ req = [r \in Requests |-> [at |-> "idle"]]
      /\ {Desk!pricehist, Desk!pricedemo} \subseteq Keys
  BY DEF Desk!Init, Desk!KvInit, Desk!DeskInit, Desk!IdleReq, Desk!DeskAssumption
<1>2. Kept(store, Posted(posts))
  <2>1. /\ ListOf(NoEntry) = <<>> /\ <<>> \in Seq(Points(Posted(posts))) /\ Hourly(<<>>)
        /\ <<>> \in Seq(Points(Rounded(Posted(posts))))
    BY DEF ListOf, Hourly
  <2> QED BY <1>1, <2>1 DEF Kept
<1>3. \A r \in Requests : Asked(req[r], posts) /\ Queued(todo[r], Posted(posts)) /\ doc[r] = NoDoc
  BY <1>1 DEF Asked, Queued
<1>4. posts \in Seq(PostType({}))
  BY <1>1
<1> QED BY <1>1, <1>2, <1>3, <1>4 DEF DeskInv

(* One request goes on, and may send a transaction or begin a write. *)
LEMMA DeskServed ==
  ASSUME DeskInv, NEW r \in Requests,
         NEW x, req' = [req EXCEPT ![r] = x], Asked(x, posts'),
         NEW w, todo' = [todo EXCEPT ![r] = w], Queued(w, Posted(posts')),
         LaterPosts(posts, posts'), UNCHANGED <<store, doc, now>>
  PROVE  DeskInv'
<1>1. /\ req' = [v \in Requests |-> req'[v]] /\ req'[r] = x
      /\ \A v \in Requests \ {r} : req'[v] = req[v]
      /\ todo' = [v \in Requests |-> todo'[v]] /\ todo'[r] = w
      /\ \A v \in Requests \ {r} : todo'[v] = todo[v]
  BY DEF DeskInv
<1>2. now' \in Nat /\ (\E P : posts' \in Seq(PostType(P))) /\ Kept(store', Posted(posts'))
      /\ doc' = [v \in Requests |-> doc'[v]]
  BY PostedGrows DEF DeskInv, LaterPosts
<1>3. ASSUME NEW v \in Requests
      PROVE  /\ Asked(req'[v], posts') /\ Queued(todo'[v], Posted(posts'))
             /\ doc'[v] # NoDoc => Kept(doc'[v], Posted(posts'))
  <2>1. Asked(req[v], posts') /\ Queued(todo[v], Posted(posts'))
        /\ (doc[v] # NoDoc => Kept(doc[v], Posted(posts')))
    BY PostedGrows DEF DeskInv
  <2> QED BY <1>1, <2>1
<1> QED BY <1>1, <1>2, <1>3 DEF DeskInv

(* The steps that neither send nor write. *)
LEMMA DeskMoves ==
  ASSUME DeskInv, NEW r \in Requests, NEW x, req' = [req EXCEPT ![r] = x], Asked(x, posts),
         UNCHANGED <<store, todo, doc, posts, now>>
  PROVE  DeskInv'
<1>1. todo' = [todo EXCEPT ![r] = todo[r]] /\ Queued(todo[r], Posted(posts'))
  BY DEF DeskInv
<1>2. Asked(x, posts') /\ LaterPosts(posts, posts')
  BY SamePosts
<1> QED BY <1>1, <1>2, DeskServed

LEMMA Appended ==
  ASSUME NEW S, NEW list \in Seq(S), NEW last \in S, NEW long, long = Append(list, last)
  PROVE  /\ long \in Seq(S) /\ Len(list) + 1 \in DOMAIN long /\ long[Len(list) + 1] = last
         /\ DOMAIN long = 1 .. (Len(list) + 1) /\ DOMAIN list = 1 .. Len(list) /\ Len(list) \in Nat
         /\ \A k \in DOMAIN list : k \in DOMAIN long /\ long[k] = list[k]
OBVIOUS

OneMore(ts, us, price) ==
  LaterPosts(ts, us) /\ Len(ts) + 1 \in DOMAIN us /\ us[Len(ts) + 1].price = price

LEMMA OneMorePost ==
  ASSUME NEW P, NEW ts \in Seq(PostType(P)), NEW price, NEW tx \in PostType({price}),
         NEW us, us = Append(ts, tx)
  PROVE  OneMore(ts, us, price)
<1>1. PostType(P) \subseteq PostType(P \cup {price}) /\ tx \in PostType(P \cup {price})
      /\ tx.price = price
  BY DEF PostType
<1>2. ts \in Seq(PostType(P \cup {price}))
  BY <1>1, SeqMonotonic
<1>3. /\ us \in Seq(PostType(P \cup {price})) /\ Len(ts) + 1 \in DOMAIN us /\ us[Len(ts) + 1] = tx
      /\ \A k \in DOMAIN ts : k \in DOMAIN us /\ us[k] = ts[k]
  BY <1>1, <1>2, Appended
<1> QED BY <1>1, <1>3 DEF OneMore, LaterPosts

LEMMA PriceSent ==
  ASSUME DeskInv, NEW r \in Requests, NEW price, NEW source \in {"market", "demo"},
         NEW who \in {"sync", "admin"}, NEW goal \in {"recording", "demo point"},
         Desk!SendPrice(r, price, source, who, goal), UNCHANGED now
  PROVE  DeskInv'
<1> DEFINE tx == [price |-> price, source |-> source, by |-> who, state |-> "sent"]
           x == [at |-> "confirming", tx |-> Len(posts) + 1, price |-> price, then |-> goal]
<1>1. /\ posts' = Append(posts, tx) /\ req' = [req EXCEPT ![r] = x]
      /\ UNCHANGED <<store, todo, doc, now>>
  BY DEF Desk!SendPrice, Desk!GotoWith, Desk!Goto, Desk!kv_vars
<1>2. PICK P : posts \in Seq(PostType(P))
  BY DEF DeskInv
<1>3. tx \in PostType({price})
  BY DEF PostType
<1>4. x.at = "confirming" /\ x.tx = Len(posts) + 1 /\ x.price = price /\ x.then = goal
      /\ x = [at |-> x.at, tx |-> x.tx, price |-> x.price, then |-> x.then]
  OBVIOUS
<1> HIDE DEF tx, x
<1>5. LaterPosts(posts, posts') /\ Len(posts) + 1 \in DOMAIN posts'
      /\ posts'[Len(posts) + 1].price = price
  <2>1. posts' = Append(posts, tx)
    BY <1>1
  <2>2. OneMore(posts, posts', price)
    BY <1>2, <1>3, <2>1, OneMorePost
  <2> QED BY <2>2 DEF OneMore
<1>6. Asked(x, posts')
  BY <1>4, <1>5 DEF Asked
<1>7. todo' = [todo EXCEPT ![r] = todo[r]] /\ Queued(todo[r], Posted(posts'))
  BY <1>1, <1>5, PostedGrows DEF DeskInv
<1> QED BY <1>1, <1>5, <1>6, <1>7, DeskServed

LEMMA PointAdded ==
  ASSUME Desk!DeskAssumption, NEW ps, NEW L \in Seq(Points(ps)), Hourly(L), now \in Nat,
         ~Desk!TooSoon(L), NEW c \in ps
  PROVE  /\ Append(Desk!Inside(L), [t |-> now, price |-> c]) \in Seq(Points(ps))
         /\ Hourly(Append(Desk!Inside(L), [t |-> now, price |-> c]))
<1>0. PICK m : m = Len(L)
  OBVIOUS
<1> DEFINE S == {p \in ToSet(L) : p.t + Window >= now}
           T == {L[i] : i \in 1 .. m} \cap S
           R == {w \in Points(ps) \X Points(ps) : w[2].t - w[1].t \in Hour .. Window}
           K == Desk!Inside(L)
           p == [t |-> now, price |-> c]
<1>1. /\ m \in Nat /\ \A i \in 1 .. m : L[i] \in Points(ps) /\ L[i].t \in Nat
      /\ DOMAIN L = 1 .. m /\ Hour \in Nat \ {0} /\ Window \in Nat
  <2>1. m \in Nat /\ DOMAIN L = 1 .. m /\ \A i \in 1 .. m : L[i] \in Points(ps)
    BY <1>0
  <2>2. \A q \in Points(ps) : q.t \in Nat
    BY DEF Points
  <2>3. Hour \in Nat \ {0} /\ Window \in Nat
    BY DEF Desk!DeskAssumption
  <2> QED BY <2>1, <2>2, <2>3
<1>2. \A i, j \in 1 .. m : i < j => <<L[i], L[j]>> \in R
  BY <1>1 DEF Hourly
<1>3. K = Only(L, S)
  <2>1. Desk!ToSet(L) = ToSet(L)
    BY DEF Desk!ToSet, ToSet
  <2> HIDE DEF S
  <2>2. Desk!Only(L, S) = Only(L, S)
    BY DEF Desk!Only, Only
  <2> QED BY <2>1, <2>2 DEF Desk!Inside, S
<1> HIDE DEF S, T, R, K
<1>4. /\ \A i, j \in DOMAIN K : i < j => <<K[i], K[j]>> \in R
      /\ \A i \in DOMAIN K : K[i] \in T
  <2>1. T = {L[i] : i \in 1 .. m} \cap S
    BY DEF T
  <2>2. \A i, j \in DOMAIN K : i < j => <<K[i], K[j]>> \in R
    <3>1. KeptAs(K, T, R)
      BY <1>0, <1>1, <1>2, <1>3, <2>1, OnlyKeeps
    <3> QED BY <3>1 DEF KeptAs
  <2>3. PICK Y : Y = {L[i] : i \in 1 .. m}
    OBVIOUS
  <2>4. L \in Seq(Y)
    <3>1. \A i \in 1 .. m : L[i] \in Y
      BY <2>3
    <3> QED BY <1>0, <1>1, <3>1
  <2>5. K \in Seq(S) /\ K \in Seq(Y)
    BY <1>3, <2>4, OnlySome
  <2>6. \A i \in DOMAIN K : K[i] \in S /\ K[i] \in Y
    BY <2>5
  <2> QED BY <2>1, <2>2, <2>3, <2>6
<1>5. ASSUME NEW q \in T PROVE q \in Points(ps) /\ now - q.t \in Hour .. Window
  <2>1. PICK i \in 1 .. m : L[i] = q
    BY DEF T
  <2>2. q \in Points(ps) /\ q.t \in Nat /\ q.t + Window >= now
    BY <1>1, <2>1 DEF T, S
  <2>3. L[m].t \in Nat /\ L[m].t - q.t >= 0 /\ L # <<>>
    <3>1. i = m \/ i < m
      BY <1>1
    <3>3. m \in 1 .. m
      BY <1>1
    <3>2. i < m => L[m].t - L[i].t \in Hour .. Window
      <4>1. i \in DOMAIN L /\ m \in DOMAIN L
        BY <1>1, <3>3
      <4> QED BY <4>1 DEF Hourly
    <3>4. L # <<>>
      BY <1>0, <1>1
    <3>5. L[m].t \in Nat
      BY <1>1, <3>3
    <3>6. L[m].t - q.t >= 0
      BY <1>1, <2>1, <2>2, <3>1, <3>2, <3>5
    <3> QED BY <3>4, <3>5, <3>6
  <2>4. ~(now - L[m].t < Hour)
    BY <1>0, <2>3 DEF Desk!TooSoon
  <2> QED BY <1>1, <2>2, <2>3, <2>4
<1>6. T \subseteq Points(ps) /\ p \in Points(ps) /\ p.t = now
  BY <1>5 DEF Points
<1> HIDE DEF p
<1>7. K \in Seq(Points(ps))
  BY <1>3, OnlySome
<1> DEFINE A == Append(K, p)
<1>8. /\ A \in Seq(Points(ps)) /\ DOMAIN A = 1 .. (Len(K) + 1) /\ A[Len(K) + 1] = p
      /\ DOMAIN K = 1 .. Len(K) /\ Len(K) \in Nat /\ \A k \in DOMAIN K : A[k] = K[k]
  BY <1>6, <1>7, Appended
<1> HIDE DEF A
<1>9. ASSUME NEW i \in DOMAIN A, NEW j \in DOMAIN A, i < j
      PROVE  A[j].t - A[i].t \in Hour .. Window
  <2>1. i \in DOMAIN K /\ (j \in DOMAIN K \/ j = Len(K) + 1)
    BY <1>8, <1>9
  <2>2. CASE j \in DOMAIN K
    BY <1>4, <1>8, <1>9, <2>1, <2>2 DEF R
  <2>3. CASE j = Len(K) + 1
    <3>1. K[i] \in T
      BY <1>4, <1>8, <2>1
    <3> QED BY <1>5, <1>6, <1>8, <2>1, <2>3, <3>1
  <2> QED BY <2>1, <2>2, <2>3
<1>10. Hourly(A)
  BY <1>9 DEF Hourly
<1> QED BY <1>8, <1>10 DEF A, K, p

LEMMA SyncKeeps ==
  ASSUME Desk!DeskAssumption, DeskInv, NEW r \in Requests,
         Desk!SyncStep(r) \/ Desk!Confirmed(r)
  PROVE  DeskInv'
<1> USE DEF Desk!GotoWith, Desk!Goto, Desk!kv_vars, Desk!At, Desk!IdleReq
<1>1. Asked([at |-> "idle"], posts) /\ Asked(req[r], posts)
  BY DEF Asked, DeskInv
<1>2. CASE Desk!Sync(r)
  <2>1. PICK reading : /\ req' = [req EXCEPT ![r] = [at |-> "sourced", reading |-> reading]]
                       /\ UNCHANGED <<store, todo, doc, posts, now>>
    BY <1>2 DEF Desk!Sync
  <2>2. Asked([at |-> "sourced", reading |-> reading], posts)
    BY DEF Asked
  <2> QED BY <2>1, <2>2, DeskMoves
<1>3. CASE Desk!ReadLastSource(r)
  <2>1. PICK last, decision :
          /\ req' = [req EXCEPT ![r] = [at |-> "decided", reading |-> req[r].reading,
                                        last |-> last, decision |-> decision]]
          /\ UNCHANGED <<store, todo, doc, posts, now>>
    BY <1>3 DEF Desk!ReadLastSource
  <2>2. Asked([at |-> "decided", reading |-> req[r].reading, last |-> last,
               decision |-> decision], posts)
    BY DEF Asked
  <2> QED BY <2>1, <2>2, DeskMoves
<1>4. CASE Desk!PostDecision(r)
  <2>1. CASE /\ req' = [req EXCEPT ![r] = [at |-> "idle"]]
             /\ UNCHANGED <<store, todo, doc, posts, now>>
    BY <1>1, <2>1, DeskMoves
  <2>2. CASE /\ Desk!SendPrice(r, req[r].decision.priceE6, "market", "sync", "recording")
             /\ UNCHANGED now
    BY <2>2, PriceSent
  <2> QED BY <1>4, <2>1, <2>2 DEF Desk!PostDecision
<1>5. CASE Desk!Confirmed(r)
  <2> DEFINE x == [req[r] EXCEPT !.at = req[r].then]
  <2>1. CASE /\ req' = [req EXCEPT ![r] = [at |-> "idle"]]
             /\ UNCHANGED <<store, todo, doc, posts, now>>
    BY <1>1, <2>1, DeskMoves
  <2>2. CASE /\ req' = [req EXCEPT ![r] = x] /\ posts[req[r].tx].state = "done"
             /\ UNCHANGED <<store, todo, doc, posts, now>>
    <3>1. req[r].at = "confirming"
      BY <1>5 DEF Desk!Confirmed
    <3>2. /\ req[r] = [at |-> req[r].at, tx |-> req[r].tx, price |-> req[r].price,
                       then |-> req[r].then]
          /\ req[r].price \in Posted(posts)
      BY <1>1, <2>2, <3>1 DEF Asked, Posted
    <3>3. x = [at |-> req[r].then, tx |-> req[r].tx, price |-> req[r].price, then |-> req[r].then]
      BY <3>2
    <3>4. x.price \in Posted(posts) /\ x.at = req[r].then
      BY <3>2, <3>3
    <3>5. x.at # "confirming"
      BY <1>1, <3>1, <3>4 DEF Asked
    <3> HIDE DEF x
    <3>6. Asked(x, posts)
      BY <3>4, <3>5 DEF Asked
    <3> QED BY <2>2, <3>6, DeskMoves
  <2> QED BY <1>5, <2>1, <2>2 DEF Desk!Confirmed, Desk!Moved, Desk!Done
<1>6. CASE Desk!recordHistory(r)
  <2> DEFINE L == ListOf(store[Desk!pricehist])
             c == Desk!ToCents(req[r].price)
             A == Append(Desk!Inside(L), [t |-> now, price |-> c])
  <2>1. /\ req' = [req EXCEPT ![r] = [at |-> "idle"]] /\ req[r].at = "recording"
        /\ UNCHANGED <<store, doc, posts, now>>
        /\ \/ UNCHANGED todo
           \/ ~Desk!TooSoon(L) /\ todo' = [todo EXCEPT ![r] = Desk!kvSet(Desk!pricehist, A)]
    BY <1>6 DEF Desk!recordHistory, Desk!Await, Desk!kvGet, Desk!ListOf, ListOf
  <2>2. CASE UNCHANGED todo
    BY <1>1, <2>1, <2>2, DeskMoves
  <2>3. CASE ~Desk!TooSoon(L) /\ todo' = [todo EXCEPT ![r] = Desk!kvSet(Desk!pricehist, A)]
    <3>0. req[r].price \in Posted(posts)
      BY <1>1, <2>1 DEF Asked
    <3>1. /\ L \in Seq(Points(Rounded(Posted(posts)))) /\ Hourly(L) /\ now \in Nat
          /\ c \in Rounded(Posted(posts))
      BY <2>1, <3>0 DEF DeskInv, Kept, Rounded
    <3> HIDE DEF L, c
    <3>2. A \in Seq(Points(Rounded(Posted(posts)))) /\ Hourly(A)
      BY <2>3, <3>1, PointAdded
    <3> HIDE DEF A
    <3>3. Queued(Desk!kvSet(Desk!pricehist, A), Posted(posts))
      BY <3>2 DEF Queued, Setting
    <3>4. /\ LaterPosts(posts, posts') /\ Asked([at |-> "idle"], posts')
          /\ Queued(Desk!kvSet(Desk!pricehist, A), Posted(posts'))
      BY <1>1, <2>1, <3>3, SamePosts
    <3> QED BY <2>1, <2>3, <3>4, DeskServed
  <2> QED BY <2>1, <2>2, <2>3
<1> QED BY <1>2, <1>3, <1>4, <1>5, <1>6 DEF Desk!SyncStep

LEMMA AdminKeeps ==
  ASSUME Desk!DeskAssumption, DeskInv, NEW r \in Requests, Desk!AdminStep(r)
  PROVE  DeskInv'
<1> USE DEF Desk!GotoWith, Desk!Goto, Desk!kv_vars, Desk!At, Desk!IdleReq
<1>1. Asked([at |-> "idle"], posts) /\ \A a : Asked([at |-> "denied", action |-> a], posts)
  BY DEF Asked
<1>2. ASSUME NEW a, Desk!Refuse(r, a), UNCHANGED now PROVE DeskInv'
  BY <1>1, <1>2, DeskMoves DEF Desk!Refuse
<1>3. ASSUME NEW price, NEW source \in {"market", "demo"}, Desk!AdminPost(r, price, source),
             UNCHANGED now
      PROVE  DeskInv'
  BY <1>3, PriceSent DEF Desk!AdminPost
<1>4. CASE Desk!Crash(r) \/ Desk!Restore(r)
  BY <1>2, <1>3, <1>4 DEF Desk!Crash, Desk!Restore
<1>5. CASE Desk!AnswerRefused(r)
  BY <1>1, <1>5, DeskMoves DEF Desk!AnswerRefused
<1>6. ASSUME NEW price, Desk!PostTyped(r, price, "demo") \/ Desk!PostTyped(r, price, "market")
      PROVE  DeskInv'
  BY <1>3, <1>6 DEF Desk!PostTyped
<1>7. CASE Desk!AddDemoPoint(r)
  <2> DEFINE L == ListOf(store[Desk!pricedemo])
             p == [t |-> now, price |-> req[r].price]
             A == Append(L, p)
  <2>1. /\ req' = [req EXCEPT ![r] = [at |-> "idle"]] /\ req[r].at = "demo point"
        /\ UNCHANGED <<store, doc, posts, now>>
        /\ todo' = [todo EXCEPT ![r] = Desk!kvSet(Desk!pricedemo, A)]
    BY <1>7 DEF Desk!AddDemoPoint, Desk!Await, Desk!kvGet, Desk!ListOf, ListOf
  <2>2. L \in Seq(Points(Posted(posts))) /\ p \in Points(Posted(posts))
    BY <2>1 DEF DeskInv, Kept, Asked, Points
  <2> HIDE DEF L, p
  <2>3. A \in Seq(Points(Posted(posts)))
    BY <2>2, Appended
  <2> HIDE DEF A
  <2>4. Queued(Desk!kvSet(Desk!pricedemo, A), Posted(posts))
    BY <2>3 DEF Queued, Setting
  <2>5. /\ LaterPosts(posts, posts') /\ Asked([at |-> "idle"], posts')
        /\ Queued(Desk!kvSet(Desk!pricedemo, A), Posted(posts'))
    BY <1>1, <2>1, <2>4, SamePosts
  <2> QED BY <2>1, <2>5, DeskServed
<1> QED BY <1>4, <1>5, <1>6, <1>7 DEF Desk!AdminStep

LEMMA HistoryKeeps ==
  ASSUME Desk!DeskAssumption, DeskInv, NEW r \in Requests, Desk!HistoryStep(r)
  PROVE  DeskInv'
<1> USE DEF Desk!GotoWith, Desk!Goto, Desk!kv_vars, Desk!At, Desk!IdleReq
<1>1. Asked([at |-> "idle"], posts)
  BY DEF Asked
<1>2. CASE Desk!ReadCached(r)
  <2>1. PICK series, known :
          /\ \/ req' = [req EXCEPT ![r] = [at |-> "answering", series |-> series, known |-> known]]
             \/ req' = [req EXCEPT ![r] = [at |-> "loading", known |-> known]]
          /\ UNCHANGED <<store, todo, doc, posts, now>>
    BY <1>2 DEF Desk!ReadCached
  <2>2. /\ Asked([at |-> "answering", series |-> series, known |-> known], posts)
        /\ Asked([at |-> "loading", known |-> known], posts)
    BY DEF Asked
  <2> QED BY <2>1, <2>2, DeskMoves
<1>3. CASE Desk!ReadPoints(r)
  <2>1. PICK known, posted, demo :
          /\ req' = [req EXCEPT ![r] = [at |-> "fetching", known |-> known,
                                        posted |-> posted, demo |-> demo]]
          /\ UNCHANGED <<store, todo, doc, posts, now>>
    BY <1>3 DEF Desk!ReadPoints
  <2>2. Asked([at |-> "fetching", known |-> known, posted |-> posted, demo |-> demo], posts)
    BY DEF Asked
  <2> QED BY <2>1, <2>2, DeskMoves
<1>4. CASE Desk!Compose(r)
  <2>1. PICK series, known :
          /\ req' = [req EXCEPT ![r] = [at |-> "answering", series |-> series, known |-> known]]
          /\ UNCHANGED <<store, doc, posts, now>>
          /\ UNCHANGED todo \/ \E value : todo' = [todo EXCEPT ![r] = Desk!kvSet(Desk!hist, value)]
    BY <1>4 DEF Desk!Compose, Desk!Await
  <2>2. Asked([at |-> "answering", series |-> series, known |-> known], posts)
    BY DEF Asked
  <2>3. CASE UNCHANGED todo
    BY <2>1, <2>2, <2>3, DeskMoves
  <2>4. ASSUME NEW value, todo' = [todo EXCEPT ![r] = Desk!kvSet(Desk!hist, value)]
        PROVE  DeskInv'
    <3>1. Queued(Desk!kvSet(Desk!hist, value), Posted(posts'))
      BY DEF Queued, Setting
    <3>2. /\ LaterPosts(posts, posts')
          /\ Asked([at |-> "answering", series |-> series, known |-> known], posts')
      BY <2>1, <2>2, SamePosts
    <3> QED BY <2>1, <2>4, <3>1, <3>2, DeskServed
  <2> QED BY <2>1, <2>3, <2>4
<1>5. CASE Desk!AnswerHistory(r)
  BY <1>1, <1>5, DeskMoves DEF Desk!AnswerHistory
<1> QED BY <1>2, <1>3, <1>4, <1>5 DEF Desk!HistoryStep

(* A command, executed on the data set or on the document that was loaded. *)
LEMMA PointsWritten ==
  ASSUME Desk!DeskAssumption, DeskInv, NEW r \in Requests, todo[r] # <<>>,
         NEW entries, Kept(entries, Posted(posts)),
         store' = [entries EXCEPT ![todo[r][1].key] = todo[r][1].value],
         todo' = [todo EXCEPT ![r] = <<>>],
         doc' = doc \/ doc' = [doc EXCEPT ![r] = NoDoc], UNCHANGED <<req, posts, now>>
  PROVE  DeskInv'
<1>1. PICK key, value : todo[r] = Desk!kvSet(key, value) /\ Setting(key, value, Posted(posts))
  BY DEF DeskInv, Queued
<1>2. todo[r][1].key = key /\ todo[r][1].value = value
  BY <1>1 DEF Desk!kvSet
<1>3. /\ Desk!pricehist # Desk!pricedemo /\ Desk!hist # Desk!pricehist /\ Desk!hist # Desk!pricedemo
      /\ {Desk!pricehist, Desk!pricedemo} \subseteq Keys
  BY DEF Desk!pricehist, Desk!pricedemo, Desk!hist, Desk!DeskAssumption
<1>4. ListOf(value) = value \/ ListOf(value) = <<>>
  BY DEF ListOf
<1>5. /\ Hourly(<<>>) /\ <<>> \in Seq(Points(Posted(posts)))
      /\ <<>> \in Seq(Points(Rounded(Posted(posts))))
  BY DEF Hourly
<1>6. Kept(store', Posted(posts))
  <2>1. \A k \in Keys : store'[k] = IF k = key THEN value ELSE entries[k]
    BY <1>2 DEF Kept
  <2>2. store' = [k \in Keys |-> store'[k]]
    BY DEF Kept
  <2>3. /\ ListOf(store'[Desk!pricehist]) \in Seq(Points(Rounded(Posted(posts))))
        /\ Hourly(ListOf(store'[Desk!pricehist]))
    BY <1>1, <1>3, <1>4, <1>5, <2>1 DEF Kept, Setting
  <2>4. ListOf(store'[Desk!pricedemo]) \in Seq(Points(Posted(posts)))
    BY <1>1, <1>3, <1>4, <1>5, <2>1 DEF Kept, Setting
  <2> QED BY <2>2, <2>3, <2>4 DEF Kept
<1>7. /\ todo' = [v \in Requests |-> todo'[v]] /\ doc' = [v \in Requests |-> doc'[v]]
      /\ \A v \in Requests : /\ todo'[v] = <<>> \/ todo'[v] = todo[v]
                             /\ doc'[v] = NoDoc \/ doc'[v] = doc[v]
  BY DEF DeskInv
<1>8. \A v \in Requests : /\ Queued(todo'[v], Posted(posts))
                          /\ doc'[v] # NoDoc => Kept(doc'[v], Posted(posts))
  BY <1>7 DEF DeskInv, Queued
<1> QED BY <1>6, <1>7, <1>8 DEF DeskInv

LEMMA DeskStoreKeeps ==
  ASSUME Desk!DeskAssumption, DeskInv, NEW r \in Requests, Desk!StoreActs(r)
  PROVE  DeskInv'
<1>1. UNCHANGED <<req, posts, now>>
  BY DEF Desk!StoreActs
<1>2. ASSUME todo[r] # <<>>
      PROVE  /\ Head(todo[r]) = todo[r][1] /\ Tail(todo[r]) = <<>> /\ Len(todo[r]) = 1
             /\ \A e : Desk!Applied(e, todo[r][1]) = [e EXCEPT ![todo[r][1].key] = todo[r][1].value]
  <2>1. PICK key, value : todo[r] = Desk!kvSet(key, value)
    BY <1>2 DEF DeskInv, Queued
  <2>2. PICK c : c = [cmd |-> "set", key |-> key, value |-> value]
    OBVIOUS
  <2>3. todo[r] = <<c>> /\ c.cmd = "set"
    BY <2>1, <2>2 DEF Desk!kvSet
  <2>4. Head(<<c>>) = c /\ Tail(<<c>>) = <<>> /\ Len(<<c>>) = 1 /\ <<c>>[1] = c
    OBVIOUS
  <2>5. \A e : Desk!Applied(e, c) = [e EXCEPT ![c.key] = c.value]
    BY <2>3 DEF Desk!Applied, Desk!Changed
  <2> QED BY <2>3, <2>4, <2>5
<1>3. CASE Desk!RedisCommand(r)
  <2>1. /\ todo[r] # <<>> /\ store' = Desk!Applied(store, Head(todo[r]))
        /\ todo' = [todo EXCEPT ![r] = Tail(@)] /\ doc' = doc
    BY <1>3 DEF Desk!RedisCommand, Desk!Settled
  <2>2. /\ store' = [store EXCEPT ![todo[r][1].key] = todo[r][1].value]
        /\ todo' = [todo EXCEPT ![r] = <<>>]
    BY <1>2, <2>1
  <2>3. Kept(store, Posted(posts))
    BY DEF DeskInv
  <2> QED BY <1>1, <2>1, <2>2, <2>3, PointsWritten
<1>4. CASE Desk!GistLoad(r)
  <2>1. doc' = [doc EXCEPT ![r] = store] /\ UNCHANGED <<store, todo>>
    BY <1>4 DEF Desk!GistLoad
  <2>2. /\ doc' = [v \in Requests |-> doc'[v]]
        /\ \A v \in Requests : doc'[v] = store \/ doc'[v] = doc[v]
    BY <2>1 DEF DeskInv
  <2>3. \A v \in Requests : doc'[v] # NoDoc => Kept(doc'[v], Posted(posts))
    BY <2>2 DEF DeskInv
  <2> QED BY <1>1, <2>1, <2>2, <2>3 DEF DeskInv
<1>5. CASE Desk!GistSave(r)
  <2>1. /\ todo[r] # <<>> /\ doc[r] # NoDoc
        /\ store' = Desk!Executed(doc[r], todo[r])
        /\ todo' = [todo EXCEPT ![r] = <<>>] /\ doc' = [doc EXCEPT ![r] = NoDoc]
    BY <1>5 DEF Desk!GistSave, Desk!Settled
  <2>2. Kept(doc[r], Posted(posts))
    BY <2>1 DEF DeskInv
  <2>3. store' = [doc[r] EXCEPT ![todo[r][1].key] = todo[r][1].value]
    BY <1>2, <2>1 DEF Desk!Executed
  <2> QED BY <1>1, <2>1, <2>2, <2>3, PointsWritten
<1> QED BY <1>3, <1>4, <1>5 DEF Desk!StoreActs, Desk!KvStep

LEMMA ChainKeeps ==
  ASSUME DeskInv, NEW i \in DOMAIN posts, Desk!Execute(i)
  PROVE  DeskInv'
<1>1. /\ posts[i].state = "sent" /\ posts' = [posts EXCEPT ![i].state = "done"]
      /\ UNCHANGED <<store, todo, doc, req, now>>
  BY DEF Desk!Execute, Desk!kv_vars
<1>2. PICK P : posts \in Seq(PostType(P))
  BY DEF DeskInv
<1>3. /\ posts[i] \in PostType(P) /\ DOMAIN posts = 1 .. Len(posts) /\ Len(posts) \in Nat
  BY <1>2
<1> DEFINE tx == [posts[i] EXCEPT !.state = "done"]
<1>4. tx \in PostType(P) /\ tx.price = posts[i].price /\ tx.state = "done"
  BY <1>3 DEF PostType
<1>5. posts' = [posts EXCEPT ![i] = tx]
  BY <1>1
<1> HIDE DEF tx
<1>6. posts' \in Seq(PostType(P))
  BY <1>2, <1>4, <1>5, ExceptSeq
<1>7. DOMAIN posts' = DOMAIN posts /\ \A k \in DOMAIN posts : posts'[k] = IF k = i THEN tx ELSE posts[k]
  BY <1>5
<1>8. LaterPosts(posts, posts')
  BY <1>4, <1>6, <1>7 DEF LaterPosts
<1>9. /\ Kept(store, Posted(posts'))
      /\ \A v \in Requests : /\ Asked(req[v], posts') /\ Queued(todo[v], Posted(posts'))
                             /\ doc[v] # NoDoc => Kept(doc[v], Posted(posts'))
  BY <1>8, PostedGrows DEF DeskInv
<1> QED BY <1>1, <1>6, <1>9 DEF DeskInv

LEMMA TimeKeeps ==
  ASSUME Desk!DeskAssumption, DeskInv, Desk!Tick
  PROVE  DeskInv'
<1>1. /\ now' = now + 1 /\ UNCHANGED <<todo, doc, posts, req>>
      /\ \E value : store' = [store EXCEPT ![Desk!hist] = value]
  BY DEF Desk!Tick
<1>2. /\ Desk!hist # Desk!pricehist /\ Desk!hist # Desk!pricedemo
      /\ {Desk!pricehist, Desk!pricedemo} \subseteq Keys
  BY DEF Desk!pricehist, Desk!pricedemo, Desk!hist, Desk!DeskAssumption
<1>3. /\ store' = [k \in Keys |-> store'[k]] /\ store'[Desk!pricehist] = store[Desk!pricehist]
      /\ store'[Desk!pricedemo] = store[Desk!pricedemo]
  BY <1>1, <1>2 DEF DeskInv, Kept
<1>4. Kept(store', Posted(posts))
  BY <1>3 DEF DeskInv, Kept
<1>5. now' \in Nat
  BY <1>1 DEF DeskInv
<1> QED BY <1>1, <1>4, <1>5 DEF DeskInv

(* The points of the chart are prices that were executed, at least an hour apart and     *)
(* at most 90 days ("Keep one point per symbol per hour", prices/sync:35), however the     *)
(* requests overlap, time out or write a list they read long ago.                    *)
THEOREM HistoryAlwaysPosted ==
  ASSUME Desk!DeskAssumption
  PROVE  Desk!Spec => [](Desk!HistoryWasPosted /\ Desk!HistoryHourly)
<1> DEFINE Promised == Desk!HistoryWasPosted /\ Desk!HistoryHourly
<1>1. Desk!Init => DeskInv
  BY DeskStart
<1>2. DeskInv /\ [Desk!Next]_(Desk!vars) => DeskInv'
  <2>1. ASSUME DeskInv, NEW r \in Requests,
               \/ Desk!SyncStep(r) \/ Desk!Confirmed(r) \/ Desk!AdminStep(r)
               \/ Desk!HistoryStep(r) \/ Desk!StoreActs(r)
        PROVE  DeskInv'
    BY <2>1, SyncKeeps, AdminKeeps, HistoryKeeps, DeskStoreKeeps
  <2>2. ASSUME DeskInv, Desk!PageRefetches \/ UNCHANGED Desk!vars PROVE DeskInv'
    <3>1. UNCHANGED <<store, todo, doc, req, posts, now>>
      BY <2>2 DEF Desk!PageRefetches, Desk!vars, Desk!kv_vars
    <3> QED BY <2>2, <3>1 DEF DeskInv
  <2>3. ASSUME DeskInv, NEW i \in DOMAIN posts, Desk!Execute(i) PROVE DeskInv'
    BY <2>3, ChainKeeps
  <2>4. ASSUME DeskInv, Desk!Tick PROVE DeskInv'
    BY <2>4, TimeKeeps
  <2> QED BY <2>1, <2>2, <2>3, <2>4 DEF Desk!Next
<1>3. DeskInv => Promised
  <2> SUFFICES ASSUME DeskInv PROVE Promised
    OBVIOUS
  <2>1. Kept(store, Posted(posts)) /\ \A e : Desk!ListOf(e) = ListOf(e)
    BY DEF DeskInv, Desk!ListOf, ListOf
  <2>2. Desk!HistoryHourly
    BY <2>1 DEF Desk!HistoryHourly, Kept, Hourly
  <2>3. ASSUME NEW key \in {Desk!pricehist, Desk!pricedemo}, NEW i \in DOMAIN ListOf(store[key])
        PROVE  \E k \in DOMAIN posts :
                 posts[k].state = "done" /\ store[key][i].price = Desk!Shown(key, posts[k].price)
    <3> DEFINE ps == {Desk!Shown(key, p) : p \in Posted(posts)}
    <3>1. ListOf(store[key]) \in Seq(Points(ps))
      <4>1. CASE key = Desk!pricehist
        <5>1. ps = Rounded(Posted(posts))
          BY <4>1 DEF Desk!Shown, Rounded
        <5> QED BY <2>1, <4>1, <5>1 DEF Kept
      <4>2. CASE key # Desk!pricehist
        <5>1. ps = Posted(posts)
          BY <4>2 DEF Desk!Shown
        <5> QED BY <2>1, <2>3, <4>2, <5>1 DEF Kept
      <4> QED BY <4>1, <4>2
    <3>2. ListOf(store[key])[i].price \in ps
      <4> HIDE DEF ps
      <4>1. ListOf(store[key])[i] \in Points(ps)
        BY <3>1
      <4> QED BY <4>1 DEF Points
    <3>3. ListOf(store[key]) = store[key]
      BY <2>3 DEF ListOf
    <3> QED BY <3>2, <3>3 DEF Posted
  <2> QED BY <2>1, <2>2, <2>3 DEF Desk!HistoryWasPosted
<1> HIDE DEF Promised
<1>4. Desk!Spec => []Promised
  BY <1>1, <1>2, <1>3, PTL DEF Desk!Spec
<1> QED BY <1>4 DEF Promised

-----------------------------------------------------------------------------
(* The devices alerts go to.  With one request at a time and none that stops, the list *)
(* as it will be after the write under way has the live devices that were not removed,  *)
(* up to the one at hand.                                                       *)

CONSTANTS Endpoints, Registered, Bands, NoLoan, MAX_DEVICES, MaxMoves, MaxStops, Fails
VARIABLES bands, endpoint, card, pushed, stops

Alerts == INSTANCE Alerts

OneAlert == (\E r \in Requests : Requests = {r}) /\ MaxStops = 0
Few == Cardinality(Endpoints) <= MAX_DEVICES

DevicesIn(V) == ListOf(V[Alerts!pushKey])
SentTo(V) == Elements(DevicesIn(V))

(* A request x finds the list so; es are the endpoints, rs the removed ones. *)
Finds(x, V, es, rs) ==
  /\ "at" \in DOMAIN x
  /\ x.at = "sending" => /\ {"subs", "dead"} \subseteq DOMAIN x /\ x.subs = DevicesIn(V)
                         /\ \A e \in x.dead : e \in Endpoints /\ es[e] = "gone"
  /\ x.at = "adding" => x.device \in Endpoints \ rs
  /\ x.at = "removed" => x.device \notin SentTo(V)
  /\ rs \cap SentTo(V) = {}
  /\ Few => \A e \in Endpoints : es[e] = "live" /\ e \notin rs =>
       e \in SentTo(V) \/ (x.at \in {"adding", "removed"} /\ x.device = e)

Reaches(V, r) ==
  /\ Leads(V, r) /\ V = [k \in Keys |-> V[k]]
  /\ DevicesIn(V) \in Seq(Endpoints) /\ AllApart(DevicesIn(V))
  /\ Finds(req[r], V, endpoint, removed)
ReachInv ==
  /\ stops = 0 /\ endpoint = [e \in Endpoints |-> endpoint[e]]
  /\ store = [k \in Keys |-> store[k]]
  /\ req = [r \in Requests |-> req[r]] /\ todo = [r \in Requests |-> todo[r]]
  /\ doc = [r \in Requests |-> doc[r]]
  /\ removed \cap SentTo(store) = {}
  /\ \A r \in Requests : \E V : Reaches(V, r)

LEMMA AlertsStore ==
  /\ \A k, v : Alerts!kvSet(k, v) = kvSet(k, v)
  /\ \A r : Alerts!KvStep(r) <=> KvStep(r)
  /\ \A L, S : Alerts!Only(L, S) = Only(L, S)
<1>1. \A k, v : Alerts!kvSet(k, v) = kvSet(k, v)
  BY DEF Alerts!kvSet, kvSet
<1>2. \A e, c : Alerts!Applied(e, c) = Applied(e, c)
  BY DEF Alerts!Applied, Applied, Alerts!Changed, Changed, Alerts!ListOf, ListOf,
         Alerts!FirstOf, FirstOf
<1>3. \A e, c : Alerts!Executed(e, c) = Executed(e, c)
  BY <1>2 DEF Alerts!Executed, Executed
<1>4. ASSUME NEW r PROVE Alerts!KvStep(r) <=> KvStep(r)
  BY <1>2, <1>3 DEF Alerts!KvStep, KvStep, Alerts!RedisCommand, RedisCommand,
     Alerts!GistLoad, GistLoad, Alerts!GistSave, GistSave, Alerts!Settled, Settled
<1>5. \A L, S : Alerts!Only(L, S) = Only(L, S)
  BY DEF Alerts!Only, Only
<1> QED BY <1>1, <1>4, <1>5

(* A list without duplicates is no longer than there are endpoints. *)
LEMMA ApartIsShort ==
  ASSUME NEW I, IsFiniteSet(I), NEW L \in Seq(I), AllApart(L)
  PROVE  Len(L) <= Cardinality(I)
<1>1. PICK m \in Nat : m = Len(L) /\ DOMAIN L = 1 .. m /\ L \in [1 .. m -> I]
  OBVIOUS
<1>2. \A a, b \in 1 .. m : L[a] = L[b] => a = b
  BY <1>1 DEF AllApart
<1>3. L \in Injection(1 .. m, I)
  BY <1>1, <1>2 DEF Injection, IsInjective
<1>4. Cardinality(1 .. m) <= Cardinality(I)
  BY <1>3, FS_Injection
<1>5. Cardinality(1 .. m) = m
  BY FS_Interval
<1> QED BY <1>1, <1>4, <1>5

LatestOf(K, L, n, I) ==
  /\ K \in Seq(I) /\ Elements(K) \subseteq Elements(L)
  /\ AllApart(L) => AllApart(K)
  /\ Len(L) <= n => Elements(K) = Elements(L)

LEMMA LatestSome ==
  ASSUME NEW I, NEW L \in Seq(I), NEW n \in Nat \ {0}, NEW K, K = Alerts!Latest(L, n)
  PROVE  LatestOf(K, L, n, I)
<1>1. PICK m \in Nat : m = Len(L) /\ DOMAIN L = 1 .. m
  OBVIOUS
<1>2. PICK f \in 1 .. (m + 1) : f = IF m > n THEN m - n + 1 ELSE 1
  <2>1. CASE m > n
    <3>1. m - n + 1 \in 1 .. (m + 1)
      BY <2>1
    <3> QED BY <2>1, <3>1
  <2>2. CASE ~(m > n)
    <3>1. 1 \in 1 .. (m + 1)
      OBVIOUS
    <3> QED BY <2>2, <3>1
  <2> QED BY <2>1, <2>2
<1>3. K = SubSeq(L, f, m)
  BY <1>1, <1>2 DEF Alerts!Latest
<1>4. /\ K \in Seq(I) /\ Len(K) = m - f + 1
      /\ \A i \in 1 .. (m - f + 1) : K[i] = L[f + i - 1]
  <2>1. \A i \in f .. m : L[i] \in I
    BY <1>1, <1>2
  <2>2. f \in Int /\ m \in Int
    BY <1>2
  <2> QED BY <1>2, <1>3, <2>1, <2>2, SubSeqProperties
<1>5. DOMAIN K = 1 .. (m - f + 1)
  BY <1>4
<1>6. \A i \in 1 .. (m - f + 1) : f + i - 1 \in 1 .. m /\ i \in Nat
  <2>1. f \in Nat /\ f >= 1 /\ f <= m + 1
    BY <1>2
  <2> QED BY <2>1
<1>7. Elements(K) \subseteq Elements(L)
  <2>1. ASSUME NEW i \in DOMAIN K PROVE f + i - 1 \in DOMAIN L /\ K[i] = L[f + i - 1]
    BY <1>1, <1>4, <1>5, <1>6
  <2> QED BY <2>1 DEF Elements
<1>8. ASSUME AllApart(L) PROVE AllApart(K)
  <2>1. ASSUME NEW i \in DOMAIN K, NEW j \in DOMAIN K, i < j PROVE K[i] # K[j]
    <3>1. f + i - 1 \in DOMAIN L /\ f + j - 1 \in DOMAIN L /\ f + i - 1 < f + j - 1
      <4>1. f \in Nat /\ i \in Nat /\ j \in Nat
        BY <1>2, <1>5, <1>6
      <4> QED BY <1>1, <1>5, <1>6, <2>1, <4>1
    <3>2. K[i] = L[f + i - 1] /\ K[j] = L[f + j - 1]
      BY <1>4, <1>5
    <3> QED BY <1>8, <3>1, <3>2 DEF AllApart
  <2> QED BY <2>1 DEF AllApart
<1>9. ASSUME Len(L) <= n PROVE Elements(L) \subseteq Elements(K)
  <2>1. f = 1
    BY <1>1, <1>2, <1>9
  <2>2. DOMAIN K = 1 .. m /\ \A i \in 1 .. m : K[i] = L[i]
    BY <1>4, <1>5, <2>1
  <2> QED BY <1>1, <2>2 DEF Elements
<1> QED BY <1>4, <1>7, <1>8, <1>9 DEF LatestOf

LEMMA RegisteredListed ==
  ASSUME NEW I, IsFiniteSet(I), NEW L, L = Alerts!SetToSeq(I)
  PROVE  L \in Seq(I) /\ AllApart(L) /\ Elements(L) = I
<1>1. PICK n \in Nat : n = Cardinality(I)
  BY FS_CardinalityType
<1>2. \E f \in [1 .. n -> I] : IsInjective(f)
  <2>1. ExistsBijection(1 .. n, I)
    BY <1>1, FS_CardinalityType
  <2> QED BY <2>1 DEF ExistsBijection, Bijection, Injection
<1>3. L \in [1 .. n -> I] /\ IsInjective(L)
  <2>1. L = CHOOSE f \in [1 .. n -> I] : IsInjective(f)
    BY <1>1 DEF Alerts!SetToSeq, Alerts!Cardinality, Cardinality, Alerts!IsInjective, IsInjective
  <2> QED BY <1>2, <2>1
<1>4. L \in Seq(I) /\ DOMAIN L = 1 .. n
  BY <1>3
<1>5. AllApart(L)
  BY <1>3, <1>4 DEF AllApart, IsInjective
<1>6. Elements(L) = I
  <2>1. L \in Injection(1 .. n, I)
    BY <1>3 DEF Injection
  <2>2. Cardinality(1 .. n) = Cardinality(I)
    BY <1>1, FS_Interval
  <2>3. L \in Surjection(1 .. n, I)
    BY <2>1, <2>2, FS_Injection
  <2> QED BY <1>4, <2>3 DEF Surjection, Elements
<1> QED BY <1>4, <1>5, <1>6

-----------------------------------------------------------------------------
(* Steps of the one request there is. *)

LEMMA ReachNow ==
  ASSUME ReachInv, NEW r \in Requests, todo[r] = <<>>
  PROVE  /\ Leads(store, r) /\ doc[r] = NoDoc
         /\ DevicesIn(store) \in Seq(Endpoints) /\ AllApart(DevicesIn(store))
         /\ Finds(req[r], store, endpoint, removed)
<1>1. PICK V : Reaches(V, r)
  BY DEF ReachInv
<1>2. V = store /\ doc[r] = NoDoc
  BY <1>1, SettledLeads DEF Reaches
<1> QED BY <1>1, <1>2 DEF Reaches

LEMMA ReachGoes ==
  ASSUME OneAlert, ReachInv, NEW r \in Requests, NEW V, NEW x, NEW w,
         req' = [req EXCEPT ![r] = x], todo' = [todo EXCEPT ![r] = w],
         UNCHANGED <<store, doc, stops>>, endpoint' = [e \in Endpoints |-> endpoint'[e]],
         Leads(V, r)', V = [k \in Keys |-> V[k]],
         DevicesIn(V) \in Seq(Endpoints), AllApart(DevicesIn(V)),
         Finds(x, V, endpoint', removed'), removed' \cap SentTo(store) = {}
  PROVE  ReachInv'
<1>1. req'[r] = x /\ \A s \in Requests : s = r
  BY DEF OneAlert, ReachInv
<1>2. Reaches(V, r)'
  BY <1>1 DEF Reaches, Finds, SentTo, Elements, DevicesIn, ListOf
<1>3. /\ store' = [k \in Keys |-> store'[k]] /\ stops' = 0
      /\ req' = [s \in Requests |-> req'[s]] /\ todo' = [s \in Requests |-> todo'[s]]
      /\ doc' = [s \in Requests |-> doc'[s]]
  BY DEF ReachInv
<1>4. (removed \cap SentTo(store))' = {}
  BY DEF SentTo, Elements, DevicesIn, ListOf
<1> QED BY <1>1, <1>2, <1>3, <1>4 DEF ReachInv

(* It reads and goes on. *)
LEMMA ReadsOn ==
  ASSUME OneAlert, ReachInv, NEW r \in Requests, todo[r] = <<>>, NEW x,
         Alerts!GotoWith(r, x), UNCHANGED stops,
         endpoint' = [e \in Endpoints |-> endpoint'[e]],
         Finds(x, store, endpoint', removed')
  PROVE  ReachInv'
<1>1. /\ req' = [req EXCEPT ![r] = x] /\ todo' = [todo EXCEPT ![r] = <<>>]
      /\ UNCHANGED <<store, todo, doc>>
  BY DEF Alerts!GotoWith, Alerts!Goto, Alerts!kv_vars, ReachInv
<1>2. PICK V : V = store
  OBVIOUS
<1>3. /\ Leads(V, r) /\ DevicesIn(V) \in Seq(Endpoints) /\ AllApart(DevicesIn(V))
      /\ V = [k \in Keys |-> V[k]]
  BY <1>2, ReachNow DEF ReachInv
<1>4. Leads(V, r)'
  BY <1>1, <1>2, ReachNow DEF Leads
<1>5. Finds(x, V, endpoint', removed') /\ removed' \cap SentTo(store) = {}
  BY <1>2 DEF Finds
<1> QED BY <1>1, <1>3, <1>4, <1>5, ReachGoes

(* It writes a list, or another key. *)
LEMMA WritesOn ==
  ASSUME Alerts!AlertsAssumption, OneAlert, ReachInv, NEW r \in Requests, todo[r] = <<>>,
         NEW x, NEW k \in {Alerts!pushKey, Alerts!alertKey}, NEW v,
         Alerts!Await(r, Alerts!kvSet(k, v)), Alerts!Goto(r, x),
         UNCHANGED <<endpoint, removed, stops>>,
         k = Alerts!pushKey => v \in Seq(Endpoints) /\ AllApart(v),
         \A U : /\ k = Alerts!pushKey => DevicesIn(U) = v
                /\ k = Alerts!alertKey => DevicesIn(U) = DevicesIn(store)
                => Finds(x, U, endpoint, removed)
  PROVE  ReachInv'
<1>1. /\ req' = [req EXCEPT ![r] = x] /\ todo' = [todo EXCEPT ![r] = kvSet(k, v)]
      /\ UNCHANGED <<store, doc>> /\ todo'[r] = kvSet(k, v)
  BY AlertsStore DEF Alerts!Await, Alerts!Goto, ReachInv
<1>2. PICK V : V = store
  OBVIOUS
<1>3. PICK U : U = [V EXCEPT ![k] = v]
  OBVIOUS
<1>4. {Alerts!pushKey, Alerts!alertKey} \subseteq Keys /\ Alerts!pushKey # Alerts!alertKey
  BY DEF Alerts!AlertsAssumption, Alerts!pushKey, Alerts!alertKey
<1>5. U = [q \in Keys |-> U[q]]
  BY <1>2, <1>3 DEF ReachInv
<1>6. /\ k = Alerts!pushKey => DevicesIn(U) = v
      /\ k = Alerts!alertKey => DevicesIn(U) = DevicesIn(store)
  <2>1. CASE k = Alerts!pushKey
    <3>1. v # NoEntry
      BY <2>1 DEF Alerts!AlertsAssumption
    <3>2. U[Alerts!pushKey] = v
      BY <1>2, <1>3, <1>4, <2>1 DEF ReachInv
    <3> QED BY <1>4, <2>1, <3>1, <3>2 DEF DevicesIn, ListOf
  <2>2. CASE k = Alerts!alertKey
    <3>1. U[Alerts!pushKey] = store[Alerts!pushKey]
      BY <1>2, <1>3, <1>4, <2>2 DEF ReachInv
    <3> QED BY <1>4, <2>2, <3>1 DEF DevicesIn
  <2> QED BY <2>1, <2>2
<1>7. DevicesIn(U) \in Seq(Endpoints) /\ AllApart(DevicesIn(U))
  BY <1>6, ReachNow
<1>8. Leads(U, r)'
  BY <1>1, <1>2, <1>3, <1>4, ReachNow, LeadsNow
<1>9. Finds(x, U, endpoint', removed')
  BY <1>6
<1>10. endpoint' = [e \in Endpoints |-> endpoint'[e]] /\ removed' \cap SentTo(store) = {}
  BY DEF ReachInv
<1> QED BY <1>1, <1>5, <1>7, <1>8, <1>9, <1>10, ReachGoes

(* Between requests that concern a device, and the rest. *)
LEMMA FindsPlain ==
  ASSUME NEW x, NEW y, NEW V, NEW U, NEW es, NEW rs, Finds(y, V, es, rs),
         y.at \notin {"adding", "removed"}, DevicesIn(U) = DevicesIn(V),
         "at" \in DOMAIN x, x.at \notin {"sending", "adding", "removed"}
  PROVE  Finds(x, U, es, rs)
BY DEF Finds, SentTo

LEMMA CheckReaches ==
  ASSUME Alerts!AlertsAssumption, OneAlert, ReachInv, NEW r \in Requests,
         Alerts!ReadPosition(r) \/ Alerts!CompareBand(r) \/ Alerts!listSubscriptions(r)
           \/ Alerts!writeLastBand(r)
  PROVE  ReachInv'
<1> DEFINE y == req[r]
<1>1. /\ todo[r] = <<>> /\ UNCHANGED <<endpoint, removed, stops>>
      /\ y.at \notin {"adding", "removed"}
  BY DEF Alerts!ReadPosition, Alerts!CompareBand, Alerts!listSubscriptions, Alerts!writeLastBand,
         Alerts!At, Alerts!Settled, Alerts!device_vars
<1>2. Finds(y, store, endpoint, removed) /\ "at" \in DOMAIN y
  BY <1>1, ReachNow DEF Finds
<1>3. endpoint' = [e \in Endpoints |-> endpoint'[e]]
  BY <1>1 DEF ReachInv
<1>4. ASSUME NEW x, "at" \in DOMAIN x, x.at \notin {"sending", "adding", "removed"},
             Alerts!GotoWith(r, x)
      PROVE  ReachInv'
  <2>1. Finds(x, store, endpoint', removed')
    BY <1>1, <1>2, <1>4, FindsPlain
  <2> QED BY <1>1, <1>3, <1>4, <2>1, ReadsOn
<1>5. ASSUME NEW b, Alerts!Await(r, Alerts!kvSet(Alerts!alertKey, b)),
             Alerts!Goto(r, Alerts!IdleReq)
      PROVE  ReachInv'
  <2>1. "at" \in DOMAIN Alerts!IdleReq /\ Alerts!IdleReq.at = "idle"
    BY DEF Alerts!IdleReq
  <2>2. PICK k : k = Alerts!alertKey
    OBVIOUS
  <2>3. k # Alerts!pushKey
    BY <2>2 DEF Alerts!pushKey, Alerts!alertKey
  <2>4. \A U : DevicesIn(U) = DevicesIn(store) => Finds(Alerts!IdleReq, U, endpoint, removed)
    BY <1>1, <1>2, <2>1, FindsPlain
  <2> QED BY <1>1, <1>5, <2>2, <2>3, <2>4, WritesOn
<1>6. CASE Alerts!ReadPosition(r)
  <2> DEFINE x == [at |-> "comparing", band |-> Alerts!Band, seen |-> Len(bands)]
  <2>1. "at" \in DOMAIN x /\ x.at = "comparing" /\ Alerts!GotoWith(r, x)
    BY <1>6 DEF Alerts!ReadPosition
  <2> HIDE DEF x
  <2> QED BY <1>4, <2>1
<1>7. CASE Alerts!CompareBand(r)
  <2>1. CASE Alerts!shouldNotify(y.band, Alerts!kvGet(Alerts!alertKey))
    <3> DEFINE x == [y EXCEPT !.at = "listing"]
    <3>1. "at" \in DOMAIN x /\ x.at = "listing" /\ Alerts!GotoWith(r, x)
      BY <1>2, <1>7, <2>1 DEF Alerts!CompareBand, Alerts!Moved
    <3> HIDE DEF x
    <3> QED BY <1>4, <3>1
  <2>2. CASE ~Alerts!shouldNotify(y.band, Alerts!kvGet(Alerts!alertKey))
    <3>1. Alerts!TrackImprovement(r, y.band) /\ Alerts!Goto(r, Alerts!IdleReq)
      BY <1>7, <2>2 DEF Alerts!CompareBand
    <3>2. CASE y.band # Alerts!kvGet(Alerts!alertKey)
      BY <1>5, <3>1, <3>2 DEF Alerts!TrackImprovement
    <3>3. CASE y.band = Alerts!kvGet(Alerts!alertKey)
      <4>1. Alerts!GotoWith(r, Alerts!IdleReq)
        BY <3>1, <3>3 DEF Alerts!TrackImprovement, Alerts!GotoWith
      <4>2. "at" \in DOMAIN Alerts!IdleReq /\ Alerts!IdleReq.at = "idle"
        BY DEF Alerts!IdleReq
      <4> QED BY <1>4, <4>1, <4>2
    <3> QED BY <3>2, <3>3
  <2> QED BY <2>1, <2>2
<1>8. CASE Alerts!listSubscriptions(r)
  <2> DEFINE x == Alerts!ToAll(y, Alerts!Devices)
  <2>1. Alerts!GotoWith(r, x)
    BY <1>8 DEF Alerts!listSubscriptions
  <2>2. Alerts!Devices = DevicesIn(store)
    BY DEF Alerts!Devices, Alerts!ListOf, ListOf, Alerts!kvGet, DevicesIn
  <2>3. /\ {"at", "subs", "dead"} \subseteq DOMAIN x /\ x.at = "sending"
        /\ x.subs = DevicesIn(store) /\ x.dead = {}
    <3>1. CASE "band" \in DOMAIN y
      BY <2>2, <3>1 DEF Alerts!ToAll
    <3>2. CASE "band" \notin DOMAIN y
      BY <2>2, <3>2 DEF Alerts!ToAll
    <3> QED BY <3>1, <3>2
  <2> HIDE DEF x
  <2>4. Finds(x, store, endpoint', removed')
    BY <1>1, <1>2, <2>3 DEF Finds
  <2> QED BY <1>1, <1>3, <2>1, <2>4, ReadsOn
<1>9. CASE Alerts!writeLastBand(r)
  BY <1>5, <1>9 DEF Alerts!writeLastBand
<1> QED BY <1>6, <1>7, <1>8, <1>9

LEMMA SendReaches ==
  ASSUME Alerts!AlertsAssumption, OneAlert, ReachInv, NEW r \in Requests,
         \/ \E e \in Endpoints : Alerts!sendNotification(r, e)
         \/ Alerts!DropDead(r)
  PROVE  ReachInv'
<1> DEFINE y == req[r]
<1>1. /\ todo[r] = <<>> /\ UNCHANGED <<endpoint, removed, stops>> /\ y.at = "sending"
  BY DEF Alerts!sendNotification, Alerts!DropDead, Alerts!At, Alerts!Settled, Alerts!device_vars
<1>2. /\ Finds(y, store, endpoint, removed) /\ {"at", "subs", "dead"} \subseteq DOMAIN y
      /\ y.subs = DevicesIn(store) /\ \A e \in y.dead : e \in Endpoints /\ endpoint[e] = "gone"
      /\ DevicesIn(store) \in Seq(Endpoints) /\ AllApart(DevicesIn(store))
  BY <1>1, ReachNow DEF Finds
<1>3. endpoint' = [e \in Endpoints |-> endpoint'[e]]
  BY <1>1 DEF ReachInv
<1>4. ASSUME NEW e \in Endpoints, Alerts!sendNotification(r, e) PROVE ReachInv'
  <2> DEFINE left == y.pending \ {e}
             dead == IF endpoint[e] = "gone" THEN y.dead \union {e} ELSE y.dead
             x == [y EXCEPT !.pending = left, !.dead = dead]
  <2>1. Alerts!GotoWith(r, x)
    BY <1>4 DEF Alerts!sendNotification
  <2>2. \A d \in dead : d \in Endpoints /\ endpoint[d] = "gone"
    BY <1>2
  <2> HIDE DEF left, dead, y
  <2>3. /\ {"at", "subs", "dead"} \subseteq DOMAIN x /\ x.at = "sending"
        /\ x.subs = DevicesIn(store) /\ x.dead = dead
    BY <1>1, <1>2
  <2> HIDE DEF x
  <2>4. Finds(x, store, endpoint', removed')
    BY <1>1, <1>2, <2>2, <2>3 DEF Finds
  <2> QED BY <1>1, <1>3, <2>1, <2>4, ReadsOn
<1>5. CASE Alerts!DropDead(r)
  <2>1. PICK x : /\ Alerts!Goto(r, x) /\ "at" \in DOMAIN x
                 /\ x.at \notin {"sending", "adding", "removed"}
    <3>1. CASE Alerts!IsAlert(r)
      <4> DEFINE x == [y EXCEPT !.at = "recording"]
      <4>1. Alerts!Goto(r, x) /\ "at" \in DOMAIN x /\ x.at = "recording"
        BY <1>2, <1>5, <3>1 DEF Alerts!DropDead, Alerts!Moved
      <4> QED BY <4>1
    <3>2. CASE ~Alerts!IsAlert(r)
      <4>1. Alerts!Goto(r, Alerts!IdleReq)
        BY <1>5, <3>2 DEF Alerts!DropDead
      <4>2. "at" \in DOMAIN Alerts!IdleReq /\ Alerts!IdleReq.at = "idle"
        BY DEF Alerts!IdleReq
      <4> QED BY <4>1, <4>2
    <3> QED BY <3>1, <3>2
  <2>2. CASE y.dead = {}
    <3>1. Alerts!GotoWith(r, x)
      BY <1>5, <2>1, <2>2 DEF Alerts!DropDead, Alerts!GotoWith
    <3>2. Finds(x, store, endpoint', removed')
      BY <1>1, <1>2, <2>1, FindsPlain
    <3> QED BY <1>1, <1>3, <3>1, <3>2, ReadsOn
  <2>3. CASE y.dead # {}
    <3>1. PICK L : L = Alerts!Without(y.subs, y.dead)
      OBVIOUS
    <3>2. Alerts!Await(r, Alerts!kvSet(Alerts!pushKey, L))
      BY <1>5, <2>3, <3>1 DEF Alerts!DropDead
    <3>3. PICK S : S = Endpoints \ y.dead
      OBVIOUS
    <3>4. PICK M \in Seq(Endpoints) : M = y.subs /\ AllApart(M) /\ M = DevicesIn(store)
      BY <1>2
    <3>5. L = Only(M, S)
      BY <3>1, <3>3, <3>4, AlertsStore DEF Alerts!Without
    <3>6. Filtered(L, M, S, Endpoints)
      BY <3>5, FilteredSet
    <3>7. L \in Seq(Endpoints) /\ AllApart(L) /\ Elements(L) = SentTo(store) \ y.dead
      <4>1. Elements(M) \subseteq Endpoints
        BY DEF Elements
      <4> QED BY <3>3, <3>4, <3>6, <4>1 DEF Filtered, SentTo
    <3>8. ASSUME NEW U, DevicesIn(U) = L PROVE Finds(x, U, endpoint, removed)
      <4>1. SentTo(U) = SentTo(store) \ y.dead
        BY <3>7, <3>8 DEF SentTo
      <4> QED BY <1>1, <1>2, <2>1, <4>1 DEF Finds
    <3>9. PICK k : k = Alerts!pushKey
      OBVIOUS
    <3> QED BY <1>1, <2>1, <3>2, <3>7, <3>8, <3>9, WritesOn
  <2> QED BY <2>2, <2>3
<1> QED BY <1>4, <1>5

LEMMA DeviceReaches ==
  ASSUME Alerts!AlertsAssumption, OneAlert, ReachInv, NEW r \in Requests,
         Alerts!DeviceSteps(r)
  PROVE  ReachInv'
<1> DEFINE y == req[r]
<1>1. todo[r] = <<>> /\ stops' = stops
  BY DEF Alerts!DeviceSteps, Alerts!TestPush, Alerts!turnOn, Alerts!removeSubscription,
         Alerts!addSubscription, Alerts!AnswerAdded, Alerts!AnswerRemoved,
         Alerts!At, Alerts!Settled
<1>2. /\ Finds(y, store, endpoint, removed)
      /\ DevicesIn(store) \in Seq(Endpoints) /\ AllApart(DevicesIn(store))
      /\ endpoint = [e \in Endpoints |-> endpoint[e]]
  BY <1>1, ReachNow DEF ReachInv
<1>3. Alerts!Devices = DevicesIn(store)
  BY DEF Alerts!Devices, Alerts!ListOf, ListOf, Alerts!kvGet, DevicesIn
<1>4. CASE Alerts!TestPush(r)
  <2> DEFINE x == [at |-> "listing"]
  <2>1. /\ "at" \in DOMAIN x /\ x.at = "listing" /\ Alerts!GotoWith(r, x) /\ y.at = "idle"
        /\ UNCHANGED <<endpoint, removed>>
    BY <1>4 DEF Alerts!TestPush, Alerts!device_vars, Alerts!At
  <2> HIDE DEF x
  <2>2. Finds(x, store, endpoint', removed')
    BY <1>2, <2>1, FindsPlain
  <2> QED BY <1>1, <1>2, <2>1, <2>2, ReadsOn
<1>5. ASSUME NEW e \in Endpoints, Alerts!turnOn(r, e) PROVE ReachInv'
  <2> DEFINE x == [at |-> "adding", device |-> e]
  <2>1. /\ x.at = "adding" /\ x.device = e /\ "at" \in DOMAIN x /\ Alerts!GotoWith(r, x)
        /\ endpoint' = [endpoint EXCEPT ![e] = "live"] /\ removed' = removed \ {e}
        /\ y.at = "idle"
    BY <1>5 DEF Alerts!turnOn, Alerts!At
  <2> HIDE DEF x
  <2>2. endpoint' = [d \in Endpoints |-> endpoint'[d]]
        /\ \A d \in Endpoints \ {e} : endpoint'[d] = endpoint[d]
    BY <1>2, <2>1
  <2>3. Finds(x, store, endpoint', removed')
    BY <1>2, <2>1, <2>2 DEF Finds
  <2> QED BY <1>1, <2>1, <2>2, <2>3, ReadsOn
<1>6. CASE Alerts!addSubscription(r)
  <2>1. /\ y.at = "adding" /\ UNCHANGED <<endpoint, removed>>
        /\ Alerts!Goto(r, [y EXCEPT !.at = "added"])
    BY <1>6 DEF Alerts!addSubscription, Alerts!At, Alerts!device_vars, Alerts!Moved
  <2>2. PICK e \in Endpoints : e = y.device /\ e \notin removed
    BY <1>2, <2>1 DEF Finds
  <2>3. PICK L : L = Alerts!Registering(DevicesIn(store), e, MAX_DEVICES)
    OBVIOUS
  <2>4. Alerts!Await(r, Alerts!kvSet(Alerts!pushKey, L))
    BY <1>3, <1>6, <2>2, <2>3 DEF Alerts!addSubscription
  <2>5. PICK M \in Seq(Endpoints) : M = DevicesIn(store) /\ AllApart(M)
    BY <1>2
  <2>6. PICK S : S = Endpoints \ {e}
    OBVIOUS
  <2>7. PICK K : K = Only(M, S)
    OBVIOUS
  <2>8. Filtered(K, M, S, Endpoints)
    BY <2>7, FilteredSet
  <2>9. PICK J : J = Append(K, e)
    OBVIOUS
  <2>10. Extended(J, K, e, Endpoints)
    BY <2>8, <2>9, AppendedSet DEF Filtered
  <2>11. /\ J \in Seq(Endpoints) /\ AllApart(J)
         /\ Elements(J) = SentTo(store) \cup {e}
    <3>1. Elements(M) \subseteq Endpoints
      BY DEF Elements
    <3> QED BY <2>5, <2>6, <2>8, <2>10, <3>1 DEF Filtered, Extended, SentTo
  <2>12. LatestOf(L, J, MAX_DEVICES, Endpoints)
    <3>1. L = Alerts!Latest(J, MAX_DEVICES)
      BY <2>3, <2>5, <2>6, <2>7, <2>9, AlertsStore DEF Alerts!Registering, Alerts!Without
    <3>2. MAX_DEVICES \in Nat \ {0}
      BY DEF Alerts!AlertsAssumption
    <3> QED BY <2>11, <3>1, <3>2, LatestSome
  <2>13. /\ L \in Seq(Endpoints) /\ AllApart(L)
         /\ Elements(L) \subseteq SentTo(store) \cup {e}
         /\ Few => Elements(L) = SentTo(store) \cup {e}
    <3>1. IsFiniteSet(Endpoints) /\ MAX_DEVICES \in Nat
      BY DEF Alerts!AlertsAssumption, Alerts!IsFiniteSet, IsFiniteSet
    <3>2. Len(J) <= Cardinality(Endpoints)
      BY <2>11, <3>1, ApartIsShort
    <3>3. Few => Len(J) <= MAX_DEVICES
      <4>1. Len(J) \in Nat /\ Cardinality(Endpoints) \in Nat
        BY <2>11, <3>1, FS_CardinalityType
      <4> QED BY <3>1, <3>2, <4>1 DEF Few
    <3> QED BY <2>11, <2>12, <3>3 DEF LatestOf
  <2> DEFINE x == [y EXCEPT !.at = "added"]
  <2>14. "at" \in DOMAIN x /\ x.at = "added"
    BY <1>2 DEF Finds
  <2> HIDE DEF x
  <2>15. ASSUME NEW U, DevicesIn(U) = L PROVE Finds(x, U, endpoint, removed)
    <3>1. SentTo(U) = Elements(L)
      BY <2>15 DEF SentTo
    <3> QED BY <1>2, <2>1, <2>2, <2>13, <2>14, <3>1 DEF Finds
  <2>16. PICK k : k = Alerts!pushKey
    OBVIOUS
  <2>17. Alerts!Goto(r, x)
    BY <2>1 DEF x
  <2> QED BY <1>1, <2>1, <2>4, <2>13, <2>15, <2>16, <2>17, WritesOn
<1>7. CASE Alerts!AnswerAdded(r) \/ Alerts!AnswerRemoved(r)
  <2>1. /\ Alerts!GotoWith(r, Alerts!IdleReq) /\ endpoint' = endpoint
        /\ \/ y.at = "added" /\ removed' = removed
           \/ y.at = "removed" /\ removed' = removed \cup {y.device}
    BY <1>7 DEF Alerts!AnswerAdded, Alerts!AnswerRemoved, Alerts!At
  <2>2. "at" \in DOMAIN Alerts!IdleReq /\ Alerts!IdleReq.at = "idle"
    BY DEF Alerts!IdleReq
  <2>3. Finds(Alerts!IdleReq, store, endpoint', removed')
    BY <1>2, <2>1, <2>2 DEF Finds
  <2> QED BY <1>1, <1>2, <2>1, <2>3, ReadsOn
<1>8. ASSUME NEW e \in Endpoints, Alerts!removeSubscription(r, e) PROVE ReachInv'
  <2> DEFINE x == [at |-> "removed", device |-> e]
  <2>1. /\ x.at = "removed" /\ x.device = e /\ "at" \in DOMAIN x /\ Alerts!Goto(r, x)
        /\ UNCHANGED <<endpoint, removed>> /\ y.at = "idle"
    BY <1>8 DEF Alerts!removeSubscription, Alerts!At, Alerts!device_vars
  <2> HIDE DEF x
  <2>2. PICK L : L = Alerts!Without(DevicesIn(store), {e})
    OBVIOUS
  <2>3. Alerts!Await(r, Alerts!kvSet(Alerts!pushKey, L))
    BY <1>3, <1>8, <2>2 DEF Alerts!removeSubscription
  <2>4. PICK M \in Seq(Endpoints) : M = DevicesIn(store) /\ AllApart(M)
    BY <1>2
  <2>5. PICK S : S = Endpoints \ {e}
    OBVIOUS
  <2>6. L = Only(M, S)
    BY <2>2, <2>4, <2>5, AlertsStore DEF Alerts!Without
  <2>7. Filtered(L, M, S, Endpoints)
    BY <2>6, FilteredSet
  <2>8. L \in Seq(Endpoints) /\ AllApart(L) /\ Elements(L) = SentTo(store) \ {e}
    <3>1. Elements(M) \subseteq Endpoints
      BY DEF Elements
    <3> QED BY <2>4, <2>5, <2>7, <3>1 DEF Filtered, SentTo
  <2>9. ASSUME NEW U, DevicesIn(U) = L PROVE Finds(x, U, endpoint, removed)
    <3>1. SentTo(U) = SentTo(store) \ {e}
      BY <2>8, <2>9 DEF SentTo
    <3> QED BY <1>2, <2>1, <3>1 DEF Finds
  <2>10. PICK k : k = Alerts!pushKey
    OBVIOUS
  <2> QED BY <1>1, <2>1, <2>3, <2>8, <2>9, <2>10, WritesOn
<1> QED BY <1>4, <1>5, <1>6, <1>7, <1>8 DEF Alerts!DeviceSteps

LEMMA StoreReaches ==
  ASSUME OneAlert, ReachInv, NEW r \in Requests, Alerts!StoreActs(r)
  PROVE  ReachInv'
<1>1. PICK V : Reaches(V, r)
  BY DEF ReachInv
<1>2. /\ UNCHANGED <<req, endpoint, removed, stops>> /\ KvStep(r)
      /\ \A s \in Requests : s = r
  BY AlertsStore DEF Alerts!StoreActs, Alerts!device_vars, OneAlert
<1>3. /\ Leads(V, r)' /\ store' \in {store, V}
      /\ todo' = [s \in Requests |-> todo'[s]] /\ doc' = [s \in Requests |-> doc'[s]]
  BY <1>1, <1>2, WriteLands DEF Reaches, ReachInv
<1>4. store' = [q \in Keys |-> store'[q]]
  BY <1>1, <1>3 DEF Reaches, ReachInv
<1>5. Reaches(V, r)'
  BY <1>1, <1>2, <1>3 DEF Reaches, Finds, SentTo, Elements, DevicesIn, ListOf
<1>6. removed \cap SentTo(store) = {} /\ removed \cap SentTo(V) = {}
  BY <1>1 DEF ReachInv, Reaches, Finds
<1>7. (removed \cap SentTo(store))' = {}
  <2>1. SentTo(store)' = SentTo(store')
    BY DEF SentTo, Elements, DevicesIn, ListOf
  <2> QED BY <1>2, <1>3, <1>6, <2>1
<1> QED BY <1>2, <1>3, <1>4, <1>5, <1>7 DEF ReachInv

(* A subscription lapses, a page is loaded again, the position moves. *)
LEMMA OutsideReaches ==
  ASSUME ReachInv, UNCHANGED <<store, todo, doc, req, removed, stops>>,
         \/ endpoint' = endpoint
         \/ \E e \in Endpoints : endpoint' = [endpoint EXCEPT ![e] = "gone"]
  PROVE  ReachInv'
<1>1. /\ endpoint' = [d \in Endpoints |-> endpoint'[d]]
      /\ \A d \in Endpoints : endpoint'[d] = "live" => endpoint[d] = "live"
      /\ \A d \in Endpoints : endpoint[d] = "gone" => endpoint'[d] = "gone"
  BY DEF ReachInv
<1>2. ASSUME NEW x, NEW V, Finds(x, V, endpoint, removed)
      PROVE  Finds(x, V, endpoint', removed)
  BY <1>1, <1>2 DEF Finds
<1>3. ASSUME NEW r, NEW V, Reaches(V, r) PROVE Reaches(V, r)'
  <2>1. Leads(V, r) => Leads(V, r)'
    BY DEF Leads
  <2>2. Finds(req[r], V, endpoint', removed)
    BY <1>2, <1>3 DEF Reaches
  <2>3. Finds(req[r], V, endpoint, removed)'
    BY <2>2 DEF Finds, SentTo, Elements, DevicesIn, ListOf
  <2> QED BY <1>3, <2>1, <2>3 DEF Reaches, DevicesIn, ListOf
<1>4. (removed \cap SentTo(store))' = {}
  BY DEF ReachInv, SentTo, Elements, DevicesIn, ListOf
<1> QED BY <1>1, <1>3, <1>4 DEF ReachInv

LEMMA ReachStart ==
  ASSUME Alerts!AlertsAssumption, Alerts!Init
  PROVE  ReachInv
<1>1. /\ req = [r \in Requests |-> Alerts!IdleReq] /\ todo = [r \in Requests |-> <<>>]
      /\ doc = [r \in Requests |-> NoDoc] /\ stops = 0 /\ removed = {}
      /\ endpoint = [e \in Endpoints |-> IF e \in Registered THEN "live" ELSE "unused"]
      /\ store = Alerts!Registry
  BY DEF Alerts!Init, Alerts!AlertsInit, Alerts!AlertsAssumption
<1>2. Alerts!pushKey \in Keys /\ NoEntry \notin Seq(Endpoints)
      /\ Registered \subseteq Endpoints /\ IsFiniteSet(Registered)
  <2>1. IsFiniteSet(Endpoints) /\ Registered \subseteq Endpoints
    BY DEF Alerts!AlertsAssumption, Alerts!IsFiniteSet, IsFiniteSet
  <2> QED BY <2>1, FS_Subset DEF Alerts!AlertsAssumption
<1>3. DevicesIn(store) \in Seq(Registered) /\ AllApart(DevicesIn(store))
      /\ SentTo(store) = Registered
  <2>1. CASE Registered = {}
    <3>1. store[Alerts!pushKey] = NoEntry
      BY <1>1, <1>2, <2>1 DEF Alerts!Registry
    <3>2. DevicesIn(store) = <<>>
      BY <3>1 DEF DevicesIn, ListOf
    <3>3. DOMAIN <<>> = {} /\ <<>> \in Seq(Registered)
      OBVIOUS
    <3>4. \A L : L = <<>> => AllApart(L) /\ Elements(L) = {}
      BY <3>3 DEF AllApart, Elements
    <3> QED BY <2>1, <3>2, <3>3, <3>4 DEF SentTo
  <2>2. CASE Registered # {}
    <3>1. PICK L : L = Alerts!SetToSeq(Registered)
      OBVIOUS
    <3>2. L \in Seq(Registered) /\ AllApart(L) /\ Elements(L) = Registered
      BY <1>2, <3>1, RegisteredListed
    <3>3. store[Alerts!pushKey] = L
      BY <1>1, <1>2, <2>2, <3>1 DEF Alerts!Registry
    <3>4. L # NoEntry
      BY <1>2, <3>2, SeqMonotonic
    <3> QED BY <3>2, <3>3, <3>4 DEF DevicesIn, ListOf, SentTo
  <2> QED BY <2>1, <2>2
<1>4. DevicesIn(store) \in Seq(Endpoints)
  BY <1>2, <1>3, SeqMonotonic
<1>5. store = [k \in Keys |-> store[k]]
  BY <1>1 DEF Alerts!Registry
<1>6. Finds(Alerts!IdleReq, store, endpoint, removed)
  BY <1>1, <1>3 DEF Finds, Alerts!IdleReq
<1>7. ASSUME NEW r \in Requests PROVE Reaches(store, r)
  BY <1>1, <1>3, <1>4, <1>5, <1>6 DEF Reaches, Leads
<1> QED BY <1>1, <1>5, <1>7 DEF ReachInv

(* "Alerts are on for this device" (alerts-card.tsx:136) and "push subscriptions MUST    *)
(* be removable by the user" (spec.md:208): of requests one at a time, none of which    *)
(* stops, a device whose removal was answered stays out of the list, and the one that  *)
(* shows its alerts on is in it, as long as there are no more than MAX_DEVICES.        *)
THEOREM DevicesAlwaysKept ==
  ASSUME Alerts!AlertsAssumption, OneAlert
  PROVE  Alerts!Spec => []( /\ Alerts!RemovedStaysOut
                            /\ Cardinality(Endpoints) <= MAX_DEVICES => Alerts!CardTrue )
<1> DEFINE Told == /\ Alerts!RemovedStaysOut
                   /\ Cardinality(Endpoints) <= MAX_DEVICES => Alerts!CardTrue
<1>1. Alerts!Init => ReachInv
  BY ReachStart
<1>2. ReachInv /\ [Alerts!Next]_(Alerts!vars) => ReachInv'
  <2> SUFFICES ASSUME ReachInv, [Alerts!Next]_(Alerts!vars) PROVE ReachInv'
    OBVIOUS
  <2>1. CASE UNCHANGED Alerts!vars
    BY <2>1, OutsideReaches DEF Alerts!vars, Alerts!kv_vars, Alerts!device_vars
  <2>2. ASSUME NEW r \in Requests, Alerts!CheckSteps(r) PROVE ReachInv'
    BY <2>2, CheckReaches, SendReaches, StoreReaches DEF Alerts!CheckSteps
  <2>3. ASSUME NEW r \in Requests, Alerts!Stop(r) PROVE FALSE
    BY <2>3 DEF Alerts!Stop, OneAlert, ReachInv
  <2>4. ASSUME NEW e \in Endpoints, Alerts!Reload(e) \/ Alerts!Expire(e) PROVE ReachInv'
    BY <2>4, OutsideReaches DEF Alerts!Reload, Alerts!Expire, Alerts!kv_vars
  <2>5. ASSUME NEW b, Alerts!Move(b) PROVE ReachInv'
    BY <2>5, OutsideReaches DEF Alerts!Move, Alerts!kv_vars, Alerts!device_vars
  <2> QED BY <2>1, <2>2, <2>3, <2>4, <2>5, DeviceReaches DEF Alerts!Next
<1>3. ReachInv => Told
  <2> SUFFICES ASSUME ReachInv PROVE Told
    OBVIOUS
  <2>1. Alerts!Devices = DevicesIn(store)
    BY DEF Alerts!Devices, Alerts!ListOf, ListOf, Alerts!kvGet, DevicesIn
  <2>2. Alerts!ToSet(Alerts!Devices) = SentTo(store)
    BY <2>1 DEF Alerts!ToSet, SentTo, Elements
  <2>3. Alerts!RemovedStaysOut
    BY <2>2 DEF Alerts!RemovedStaysOut, ReachInv
  <2>4. ASSUME Few, Alerts!AllIdle PROVE \A e \in Endpoints :
               endpoint[e] = "live" /\ e \notin removed => e \in SentTo(store)
    <3>1. PICK r \in Requests : req[r].at = "idle" /\ todo[r] = <<>>
      BY <2>4 DEF OneAlert, Alerts!AllIdle, Alerts!At, Alerts!Settled
    <3>2. Finds(req[r], store, endpoint, removed)
      BY <3>1, ReachNow
    <3> QED BY <2>4, <3>1, <3>2 DEF Finds
  <2>5. Few => Alerts!CardTrue
    BY <2>2, <2>4 DEF Alerts!CardTrue
  <2> QED BY <2>3, <2>5 DEF Few
<1> QED BY <1>1, <1>2, <1>3, PTL DEF Alerts!Spec

-----------------------------------------------------------------------------
(* The script that seeds the devnet: the file gives what is on chain, and a run that ends *)
(* has set up what it was asked for, wherever runs before it stopped.                *)

CONSTANTS Specs, CashbackAssets, Selections, Faults, MaxFaults, MaxRuns, MaxAttempts, None
VARIABLES env, secrets, coins, config, markets, priced, vault, purse, treasury, shop,
          script, faults, runs

Seed == INSTANCE Seed WITH mints <- coins, price <- priced, wallet <- purse

MintsOf(n) == [name : {n}, nth : Nat]
Usable == coins \ {Seed!Foreign}

OnFile ==
  /\ env = [n \in Seed!Names |-> env[n]]
  /\ \A n \in Seed!Symbols : env[n] = None \/ env[n] \in MintsOf(n)
  /\ config # None => config = env[Seed!Usdc] /\ config \in Usable
  /\ \A m \in markets : \E n \in Seed!Symbols : m \in MintsOf(n) /\ env[n] = m
  /\ IsFiniteSet(coins) /\ \A m \in DOMAIN treasury : treasury[m] \in Nat

(* The stages of a run. *)
Minting  == {"checkUsdc", "createUsdc", "saveUsdc"}
Starting == {"fetchConfig", "initConfig"}
Listing  == {"createMint", "saveMint", "fetchMarket", "addMarket", "postPrice"}
Funding  == {"readVault", "mintPool", "deposit", "openShop"}
Stocking == {"readTreasury", "mintTreasury", "writeSecrets"}
Stages   == Minting \cup Starting \cup {"nextMarket"} \cup Listing \cup Funding \cup Stocking

Ready(n)   == env[n] \in markets \cap DOMAIN priced
Stocked(n) == env[n] # None /\ Seed!Held(env[n]) >= 1

(* What a run has done at each of its stages. *)
IsRun(s) ==
  /\ s = [at |-> s.at, attempt |-> s.attempt, only |-> s.only, usdc |-> s.usdc,
          mint |-> s.mint, left |-> s.left, assets |-> s.assets]
  /\ s.at \in Stages
  /\ s.only \subseteq Seed!Symbols /\ s.left \subseteq s.only /\ s.assets \subseteq CashbackAssets
HasUsdc(s) ==
  /\ s.at = "checkUsdc" => s.usdc = env[Seed!Usdc]
  /\ s.at \in {"createUsdc", "saveUsdc"} => config = None
  /\ s.at = "saveUsdc" => s.usdc \in Usable
  /\ s.at \notin Minting => s.usdc = env[Seed!Usdc] /\ s.usdc \in Usable
  /\ s.at \notin Minting \cup Starting => config = s.usdc
Lists(s) ==
  /\ \A n \in s.only \ s.left : Ready(n)
  /\ s.at \in Listing => s.left # {}
  /\ s.at \in {"createMint", "saveMint"} => env[Seed!First(s.left)] = None
  /\ s.at = "saveMint" => s.mint \in MintsOf(Seed!First(s.left))
  /\ s.at \in {"fetchMarket", "addMarket", "postPrice"} =>
       s.mint = env[Seed!First(s.left)] /\ s.mint # None
  /\ s.at = "postPrice" => s.mint \in markets
Stocks(s) ==
  /\ \A n \in CashbackAssets \ s.assets : Stocked(n)
  /\ s.at \in Funding \cup Stocking => s.left = {}
  /\ s.at \in Stocking => shop = TRUE
  /\ s.at = "mintTreasury" => s.assets # {} /\ env[Seed!First(s.assets)] # None
  /\ s.at = "writeSecrets" => s.assets = {}
Done(s) == IsRun(s) /\ HasUsdc(s) /\ Lists(s) /\ Stocks(s)

SeedInv == OnFile /\ (script = Seed!Off \/ Done(script))

(* The first of some symbols in the order of SPECS is one of them. *)
LEMMA FirstIsOne ==
  ASSUME Seed!SeedAssumption, NEW S \in SUBSET Seed!Symbols, S # {}
  PROVE  Seed!First(S) \in S
<1> DEFINE I == {i \in DOMAIN Specs : Specs[i] \in S}
<1>1. Len(Specs) \in Nat /\ DOMAIN Specs = 1 .. Len(Specs)
  BY DEF Seed!SeedAssumption
<1>2. PICK x \in S : TRUE
  OBVIOUS
<1>3. PICK i \in DOMAIN Specs : Specs[i] = x
  BY <1>2 DEF Seed!Symbols, Seed!Range
<1>4. I \in SUBSET (0 .. Len(Specs)) /\ I # {}
  BY <1>1, <1>2, <1>3
<1>5. PICK k \in I : \A j \in I : k <= j
  <2> HIDE DEF I
  <2> QED BY <1>1, <1>4, LeastNumber
<1>6. k \in DOMAIN Specs /\ Specs[k] \in S
  OBVIOUS
<1>7. \A j \in 1 .. k - 1 : Specs[j] \notin S
  <2> TAKE j \in 1 .. k - 1
  <2>1. j \in DOMAIN Specs /\ ~(k <= j)
    BY <1>1, <1>6
  <2> QED BY <1>5, <2>1
<1> QED BY <1>6, <1>7 DEF Seed!First

(* A new mint is a mint of its name, and not the foreign one. *)
LEMMA NewMintIsOwn ==
  ASSUME IsFiniteSet(coins), NEW n
  PROVE  Seed!NewMint(n) \in MintsOf(n) /\ Seed!NewMint(n) # Seed!Foreign
<1> DEFINE S == {m \in coins : m.name = n /\ m # Seed!Foreign}
<1>1. IsFiniteSet(S)
  BY FS_Subset
<1>2. PICK k \in Nat : k = Cardinality(S)
  BY <1>1, FS_CardinalityType
<1>3. Seed!Cardinality(S) = Cardinality(S)
  BY DEF Seed!Cardinality, Cardinality
<1>4. Seed!NewMint(n) = [name |-> n, nth |-> 1 + k]
  BY <1>2, <1>3 DEF Seed!NewMint
<1> QED BY <1>4 DEF MintsOf, Seed!Foreign

LEMMA ConstantsDiffer ==
  ASSUME Seed!SeedAssumption
  PROVE  /\ Seed!Usdc \notin Seed!Symbols /\ Seed!Usdc \in Seed!Names
         /\ Seed!Symbols \subseteq Seed!Names /\ CashbackAssets \subseteq Seed!Symbols
         /\ \A n \in Seed!Names : None \notin MintsOf(n)
BY DEF Seed!SeedAssumption, Seed!Usdc, Seed!Symbols, Seed!Names, MintsOf

-----------------------------------------------------------------------------
(* The steps of a run *)

(* A call that is repeated, or one too many, changes nothing of the run's stage. *)
LEMMA AgainStays ==
  ASSUME Done(script), Seed!Again
  PROVE  \/ script' = Seed!Off
         \/ /\ IsRun(script')
            /\ script'.at = script.at /\ script'.only = script.only /\ script'.usdc = script.usdc
            /\ script'.mint = script.mint /\ script'.left = script.left
            /\ script'.assets = script.assets
BY DEF Done, IsRun, Seed!Again, Seed!Throw

LEMMA GotoMoves ==
  ASSUME Done(script), NEW pc \in Stages, Seed!Goto(pc)
  PROVE  /\ IsRun(script')
         /\ script'.at = pc /\ script'.only = script.only /\ script'.usdc = script.usdc
         /\ script'.mint = script.mint /\ script'.left = script.left
         /\ script'.assets = script.assets
BY DEF Done, IsRun, Seed!Goto, Seed!GoWith

(* While the file stays and what is on chain only grows, a run that stays where it is    *)
(* keeps what it has done.                                                          *)
Grows ==
  /\ env' = env /\ (shop = TRUE => shop' = TRUE)
  /\ config' = config \/ script.at = "initConfig"
  /\ coins \subseteq coins' /\ markets \subseteq markets'
  /\ DOMAIN priced \subseteq DOMAIN priced'
  /\ \A m : Seed!Held(m) >= 1 => Seed!Held(m)' >= 1

LEMMA StaysDone ==
  ASSUME Done(script), Grows, Seed!Again
  PROVE  script' = Seed!Off \/ Done(script)'
<1>1. CASE script' = Seed!Off
  BY <1>1
<1>2. CASE script' # Seed!Off
  <2>1. /\ IsRun(script')
        /\ script'.at = script.at /\ script'.only = script.only /\ script'.usdc = script.usdc
        /\ script'.mint = script.mint /\ script'.left = script.left
        /\ script'.assets = script.assets
    BY <1>2, AgainStays
  <2>2. HasUsdc(script)'
    BY <2>1 DEF Done, HasUsdc, Grows, Usable, Minting, Starting
  <2>3. Lists(script)'
    BY <2>1 DEF Done, Lists, Grows, Ready
  <2>4. Stocks(script)'
    BY <2>1 DEF Done, Stocks, Grows, Stocked
  <2> QED BY <2>1, <2>2, <2>3, <2>4 DEF Done, IsRun
<1> QED BY <1>1, <1>2

(* One that goes on also has what its next stage asks for. *)
LEMMA GoesOn ==
  ASSUME Done(script), Grows, NEW pc \in Stages, Seed!Goto(pc),
         pc \notin {"checkUsdc", "saveUsdc", "saveMint"},
         pc = "createUsdc" => config' = None,
         pc \notin Minting => script.usdc = env[Seed!Usdc] /\ script.usdc \in Usable,
         pc \notin Minting \cup Starting => config' = script.usdc,
         pc \in Listing => script.left # {},
         pc = "createMint" => env[Seed!First(script.left)] = None,
         pc \in {"fetchMarket", "addMarket", "postPrice"} =>
           script.mint = env[Seed!First(script.left)] /\ script.mint # None,
         pc = "postPrice" => script.mint \in markets',
         pc \in Funding \cup Stocking => script.left = {},
         pc \in Stocking => shop' = TRUE,
         pc = "mintTreasury" => script.assets # {} /\ env[Seed!First(script.assets)] # None,
         pc = "writeSecrets" => script.assets = {}
  PROVE  Done(script)'
<1>1. /\ IsRun(script')
      /\ script'.at = pc /\ script'.only = script.only /\ script'.usdc = script.usdc
      /\ script'.mint = script.mint /\ script'.left = script.left
      /\ script'.assets = script.assets
  BY GotoMoves
<1>2. HasUsdc(script)'
  BY <1>1 DEF HasUsdc, Grows, Usable, Minting, Starting
<1>3. Lists(script)'
  BY <1>1 DEF Done, Lists, Grows, Ready
<1>4. Stocks(script)'
  BY <1>1 DEF Done, Stocks, Grows, Stocked
<1> QED BY <1>1, <1>2, <1>3, <1>4 DEF Done, IsRun

(* What is on chain may grow by what is in the file. *)
LEMMA FileGrows ==
  ASSUME OnFile, env' = env, coins \subseteq coins', IsFiniteSet(coins'),
         config' = config \/ (config' = env[Seed!Usdc] /\ config' \in Usable),
         \A m \in markets' :
           m \in markets \/ \E n \in Seed!Symbols : m \in MintsOf(n) /\ env[n] = m,
         \A m \in DOMAIN treasury' : treasury'[m] \in Nat
  PROVE  OnFile'
BY DEF OnFile, Usable

Still == UNCHANGED <<env, config, shop, coins, markets, priced, treasury>>

LEMMA NothingMoves ==
  ASSUME Still
  PROVE  Grows /\ (OnFile => OnFile')
<1>1. \A m : Seed!Held(m)' = Seed!Held(m)
  BY DEF Seed!Held, Still
<1>2. OnFile => OnFile'
  BY DEF OnFile, Usable, Still
<1> QED BY <1>1, <1>2 DEF Grows, Still

(* A step of a run. *)
Underway == Seed!SeedAssumption /\ OnFile /\ script # Seed!Off /\ Done(script)

LEMMA RefusedKeeps ==
  ASSUME Underway, Seed!Again, Still
  PROVE  SeedInv'
BY StaysDone, NothingMoves DEF Underway, SeedInv

LEMMA StopKeeps ==
  ASSUME Underway, Seed!Throw, Still
  PROVE  SeedInv'
BY NothingMoves DEF Underway, SeedInv, Seed!Throw

LEMMA GoKeeps ==
  ASSUME Underway, NEW pc \in Stages, Seed!Goto(pc), Still,
         pc \notin {"checkUsdc", "saveUsdc", "saveMint"},
         pc = "createUsdc" => config = None,
         pc \notin Minting => script.usdc = env[Seed!Usdc] /\ script.usdc \in Usable,
         pc \notin Minting \cup Starting => config = script.usdc,
         pc \in Listing => script.left # {},
         pc = "createMint" => env[Seed!First(script.left)] = None,
         pc \in {"fetchMarket", "addMarket", "postPrice"} =>
           script.mint = env[Seed!First(script.left)] /\ script.mint # None,
         pc = "postPrice" => script.mint \in markets,
         pc \in Funding \cup Stocking => script.left = {},
         pc \in Stocking => shop = TRUE,
         pc = "mintTreasury" => script.assets # {} /\ env[Seed!First(script.assets)] # None,
         pc = "writeSecrets" => script.assets = {}
  PROVE  SeedInv'
<1>1. Grows /\ OnFile'
  BY NothingMoves DEF Underway
<1>2. Done(script)'
  BY <1>1, GoesOn DEF Underway, Still
<1> QED BY <1>1, <1>2 DEF SeedInv

LEMMA StartKeeps ==
  ASSUME Seed!SeedAssumption, SeedInv, NEW only \in Selections, Seed!Start(only)
  PROVE  SeedInv'
<1>1. Still
  BY DEF Seed!Start, Seed!chain, Still
<1>2. script' = [at |-> IF env[Seed!Usdc] = None THEN "createUsdc" ELSE "checkUsdc",
                 attempt |-> 0, only |-> only, usdc |-> env[Seed!Usdc], mint |-> None,
                 left |-> Seed!Symbols \cap only, assets |-> CashbackAssets]
  BY DEF Seed!Start
<1>3. only \subseteq Seed!Symbols
  BY DEF Seed!SeedAssumption, Seed!Symbols
<1>4. IsRun(script') /\ script'.left = script'.only /\ script'.assets = CashbackAssets
      /\ script'.usdc = env[Seed!Usdc]
      /\ script'.at = IF env[Seed!Usdc] = None THEN "createUsdc" ELSE "checkUsdc"
  BY <1>2, <1>3 DEF IsRun, Stages, Minting
<1>5. HasUsdc(script)'
  BY <1>1, <1>4 DEF HasUsdc, Still, SeedInv, OnFile, Minting, Starting
<1>6. Lists(script)' /\ Stocks(script)'
  BY <1>4 DEF Lists, Stocks, Listing, Funding, Stocking
<1>7. OnFile'
  BY <1>1, NothingMoves DEF SeedInv
<1> QED BY <1>4, <1>5, <1>6, <1>7 DEF SeedInv, Done, IsRun

LEMMA ChecksUsdc ==
  ASSUME Underway, Seed!checkUsdc
  PROVE  SeedInv'
<1>1. Still
  BY DEF Seed!checkUsdc, Seed!chain, Seed!Refused, Still
<1>2. script.at = "checkUsdc" /\ script.usdc = env[Seed!Usdc]
  BY DEF Seed!checkUsdc, Seed!At, Underway, Done, HasUsdc
<1>3. CASE Seed!Again
  BY <1>1, <1>3, RefusedKeeps
<1>4. CASE Seed!Goto("fetchConfig") /\ script.usdc \in Usable
  BY <1>1, <1>2, <1>4, GoKeeps DEF Stages, Minting, Starting, Listing, Funding, Stocking
<1>5. CASE Seed!Goto("createUsdc") /\ script.usdc \notin Usable
  <2>1. config = None
    BY <1>2, <1>5 DEF Underway, OnFile
  <2> QED BY <1>1, <1>2, <1>5, <2>1, GoKeeps
          DEF Stages, Minting, Starting, Listing, Funding, Stocking
<1> QED BY <1>3, <1>4, <1>5 DEF Seed!checkUsdc, Seed!Refused, Usable

LEMMA CreatesUsdc ==
  ASSUME Underway, Seed!createUsdc
  PROVE  SeedInv'
<1> DEFINE made == Seed!NewMint(Seed!Usdc)
<1>1. UNCHANGED <<env, config, shop, markets, priced, treasury>>
  BY DEF Seed!createUsdc
<1>2. script.at = "createUsdc" /\ config = None
  BY DEF Seed!createUsdc, Seed!At, Underway, Done, HasUsdc
<1>3. CASE coins' = coins \cup {made}
  <2>1. IsFiniteSet(coins') /\ made # Seed!Foreign
    BY <1>3, FS_AddElement, NewMintIsOwn DEF Underway, OnFile
  <2>2. \A m : Seed!Held(m)' = Seed!Held(m)
    BY <1>1 DEF Seed!Held
  <2>3. Grows
    BY <1>1, <1>3, <2>2 DEF Grows
  <2>4. OnFile'
    BY <1>1, <1>3, <2>1, FileGrows DEF Underway, OnFile
  <2>5. CASE Seed!Again
    BY <2>3, <2>4, <2>5, StaysDone DEF SeedInv, Underway
  <2>6. CASE Seed!GoWith([script EXCEPT !.usdc = made], "saveUsdc")
    <3> HIDE DEF made
    <3>1. /\ IsRun(script') /\ script'.at = "saveUsdc" /\ script'.usdc = made
          /\ script'.only = script.only /\ script'.left = script.left
          /\ script'.assets = script.assets
      BY <2>6 DEF Underway, Done, IsRun, Seed!GoWith, Stages, Minting
    <3>2. HasUsdc(script)'
      BY <1>1, <1>2, <1>3, <2>1, <3>1 DEF HasUsdc, Usable, Minting, Starting
    <3>3. Lists(script)'
      BY <2>3, <3>1 DEF Underway, Done, Lists, Grows, Ready, Listing
    <3>4. Stocks(script)'
      BY <2>3, <3>1 DEF Underway, Done, Stocks, Grows, Stocked, Funding, Stocking
    <3> QED BY <2>4, <3>1, <3>2, <3>3, <3>4 DEF SeedInv, Done, IsRun
  <2> QED BY <1>3, <2>5, <2>6 DEF Seed!createUsdc, Seed!Refused
<1>4. CASE coins' = coins /\ Seed!Again
  BY <1>1, <1>4, RefusedKeeps DEF Still
<1> QED BY <1>3, <1>4 DEF Seed!createUsdc, Seed!Refused

LEMMA SavesUsdc ==
  ASSUME Underway, Seed!saveUsdc
  PROVE  SeedInv'
<1>1. UNCHANGED <<config, shop, coins, markets, priced, treasury>>
  BY DEF Seed!saveUsdc, Seed!chain
<1>2. script.at = "saveUsdc" /\ config = None /\ script.usdc \in Usable
  BY DEF Seed!saveUsdc, Seed!At, Underway, Done, HasUsdc
<1>3. env' = [env EXCEPT ![Seed!Usdc] = script.usdc]
  BY DEF Seed!saveUsdc, Seed!upsertEnvFile
<1>4. env'[Seed!Usdc] = script.usdc /\ (\A n \in Seed!Symbols : env'[n] = env[n])
      /\ env' = [n \in Seed!Names |-> env'[n]]
  BY <1>3, ConstantsDiffer DEF Underway, OnFile
<1>5. /\ IsRun(script') /\ script'.at = "fetchConfig" /\ script'.usdc = script.usdc
      /\ script'.only = script.only /\ script'.left = script.left
      /\ script'.assets = script.assets
  <2>1. Seed!Goto("fetchConfig") /\ "fetchConfig" \in Stages
    BY DEF Seed!saveUsdc, Stages, Starting
  <2> QED BY <2>1, GotoMoves DEF Underway
<1>6. OnFile'
  BY <1>1, <1>2, <1>4 DEF Underway, OnFile, Usable
<1>7. HasUsdc(script)'
  BY <1>1, <1>2, <1>4, <1>5 DEF HasUsdc, Usable, Minting, Starting
<1>8. script.only \subseteq Seed!Symbols /\ CashbackAssets \subseteq Seed!Symbols
  BY ConstantsDiffer DEF Underway, Done, IsRun
<1>9. Lists(script)'
  BY <1>1, <1>4, <1>5, <1>8 DEF Underway, Done, Lists, Ready, Listing
<1>10. \A m : Seed!Held(m)' = Seed!Held(m)
  BY <1>1 DEF Seed!Held
<1>11. Stocks(script)'
  BY <1>1, <1>4, <1>5, <1>8, <1>10 DEF Underway, Done, Stocks, Stocked, Funding, Stocking
<1> QED BY <1>5, <1>6, <1>7, <1>9, <1>11 DEF SeedInv, Done, IsRun

LEMMA Configures ==
  ASSUME Underway, Seed!fetchConfig \/ Seed!initConfig
  PROVE  SeedInv'
<1>1. script.usdc = env[Seed!Usdc] /\ script.usdc \in Usable
  BY DEF Seed!fetchConfig, Seed!initConfig, Seed!At, Underway, Done, HasUsdc, Minting
<1>2. CASE Seed!fetchConfig
  <2>1. Still
    BY <1>2 DEF Seed!fetchConfig, Seed!chain, Seed!Refused, Still
  <2>2. CASE Seed!Again
    BY <2>1, <2>2, RefusedKeeps
  <2>3. CASE Seed!Goto("initConfig")
    BY <1>1, <2>1, <2>3, GoKeeps DEF Stages, Minting, Starting, Listing, Funding, Stocking
  <2>4. CASE Seed!Goto("nextMarket") /\ config # None
    <3>1. config = script.usdc
      BY <1>1, <2>4 DEF Underway, OnFile
    <3> QED BY <1>1, <2>1, <2>4, <3>1, GoKeeps
            DEF Stages, Minting, Starting, Listing, Funding, Stocking
  <2> QED BY <1>2, <2>2, <2>3, <2>4 DEF Seed!fetchConfig, Seed!Refused
<1>3. CASE Seed!initConfig
  <2>1. UNCHANGED <<env, shop, coins, markets, priced, treasury>> /\ script.at = "initConfig"
    BY <1>3 DEF Seed!initConfig, Seed!At
  <2>2. CASE config' = config /\ (Seed!Again \/ Seed!Throw)
    BY <2>1, <2>2, RefusedKeeps, StopKeeps DEF Still
  <2>3. CASE config' = script.usdc
    <3>1. \A m : Seed!Held(m)' = Seed!Held(m)
      BY <2>1 DEF Seed!Held
    <3>2. Grows
      BY <2>1, <3>1 DEF Grows
    <3>3. OnFile'
      BY <1>1, <2>1, <2>3, FileGrows DEF Underway, OnFile, Usable
    <3>4. CASE Seed!Again
      BY <3>2, <3>3, <3>4, StaysDone DEF SeedInv, Underway
    <3>5. CASE Seed!Goto("nextMarket")
      <4>1. Done(script)'
        BY <1>1, <2>3, <3>2, <3>5, GoesOn
           DEF Underway, Stages, Minting, Starting, Listing, Funding, Stocking
      <4> QED BY <3>3, <4>1 DEF SeedInv
    <3> QED BY <1>3, <3>4, <3>5, <2>2 DEF Seed!initConfig, Seed!withRetry, Seed!Refused
  <2> QED BY <1>3, <2>2, <2>3 DEF Seed!initConfig, Seed!withRetry, Seed!Refused
<1> QED BY <1>2, <1>3

LEMMA NextMarket ==
  ASSUME Underway, Seed!nextMarket
  PROVE  SeedInv'
<1>1. Still
  BY DEF Seed!nextMarket, Seed!chain, Still
<1>2. /\ script.at = "nextMarket" /\ script.usdc = env[Seed!Usdc] /\ script.usdc \in Usable
      /\ config = script.usdc
  BY DEF Seed!nextMarket, Seed!At, Underway, Done, HasUsdc, Minting, Starting
<1>3. CASE script.left = {} /\ Seed!Goto("readVault")
  BY <1>1, <1>2, <1>3, GoKeeps DEF Stages, Minting, Starting, Listing, Funding, Stocking
<1>4. CASE script.left # {} /\ env[Seed!Symbol] = None /\ Seed!Goto("createMint")
  BY <1>1, <1>2, <1>4, GoKeeps
     DEF Stages, Minting, Starting, Listing, Funding, Stocking, Seed!Symbol
<1>5. CASE /\ script.left # {} /\ env[Seed!Symbol] # None
           /\ Seed!GoWith([script EXCEPT !.mint = env[Seed!Symbol]], "fetchMarket")
  <2>1. /\ IsRun(script') /\ script'.at = "fetchMarket" /\ script'.usdc = script.usdc
        /\ script'.mint = env[Seed!First(script.left)]
        /\ script'.only = script.only /\ script'.left = script.left
        /\ script'.assets = script.assets
    BY <1>5 DEF Underway, Done, IsRun, Seed!GoWith, Seed!Symbol, Stages, Listing
  <2>2. Grows /\ OnFile'
    BY <1>1, NothingMoves DEF Underway
  <2>3. HasUsdc(script)'
    BY <1>1, <1>2, <2>1 DEF Still, HasUsdc, Usable, Minting, Starting
  <2>4. Lists(script)'
    BY <1>1, <1>5, <2>1 DEF Still, Underway, Done, Lists, Ready, Listing, Seed!Symbol
  <2>5. Stocks(script)'
    BY <2>1, <2>2 DEF Underway, Done, Stocks, Grows, Stocked, Funding, Stocking
  <2> QED BY <2>1, <2>2, <2>3, <2>4, <2>5 DEF SeedInv, Done, IsRun
<1> QED BY <1>3, <1>4, <1>5 DEF Seed!nextMarket

LEMMA CreatesMint ==
  ASSUME Underway, Seed!createMockMint
  PROVE  SeedInv'
<1> DEFINE made == Seed!NewMint(Seed!Symbol)
<1>1. UNCHANGED <<env, config, shop, markets, priced, treasury>>
  BY DEF Seed!createMockMint
<1>2. /\ script.at = "createMint" /\ script.usdc = env[Seed!Usdc] /\ script.usdc \in Usable
      /\ config = script.usdc /\ script.left # {} /\ env[Seed!Symbol] = None
  BY DEF Seed!createMockMint, Seed!At, Underway, Done, HasUsdc, Lists, Minting, Starting, Listing,
         Seed!Symbol
<1>3. CASE coins' = coins \cup {made}
  <2>1. IsFiniteSet(coins') /\ made \in MintsOf(Seed!Symbol)
    BY <1>3, FS_AddElement, NewMintIsOwn DEF Underway, OnFile
  <2>2. \A m : Seed!Held(m)' = Seed!Held(m)
    BY <1>1 DEF Seed!Held
  <2>3. Grows
    BY <1>1, <1>3, <2>2 DEF Grows
  <2>4. OnFile'
    BY <1>1, <1>3, <2>1, FileGrows DEF Underway, OnFile
  <2>5. CASE Seed!Again
    BY <2>3, <2>4, <2>5, StaysDone DEF SeedInv, Underway
  <2>6. CASE Seed!GoWith([script EXCEPT !.mint = made], "saveMint")
    <3> HIDE DEF made
    <3>1. /\ IsRun(script') /\ script'.at = "saveMint" /\ script'.usdc = script.usdc
          /\ script'.mint = made /\ script'.only = script.only /\ script'.left = script.left
          /\ script'.assets = script.assets
      BY <2>6 DEF Underway, Done, IsRun, Seed!GoWith, Stages, Listing
    <3>2. HasUsdc(script)'
      BY <1>1, <1>2, <1>3, <3>1 DEF HasUsdc, Usable, Minting, Starting
    <3>3. Lists(script)'
      BY <1>2, <2>1, <2>3, <3>1 DEF Underway, Done, Lists, Grows, Ready, Listing, Seed!Symbol
    <3>4. Stocks(script)'
      BY <2>3, <3>1 DEF Underway, Done, Stocks, Grows, Stocked, Funding, Stocking
    <3> QED BY <2>4, <3>1, <3>2, <3>3, <3>4 DEF SeedInv, Done, IsRun
  <2> QED BY <1>3, <2>5, <2>6 DEF Seed!createMockMint, Seed!Refused
<1>4. CASE coins' = coins /\ Seed!Again
  BY <1>1, <1>4, RefusedKeeps DEF Still
<1> QED BY <1>3, <1>4 DEF Seed!createMockMint, Seed!Refused

LEMMA SavesMint ==
  ASSUME Underway, Seed!saveMint
  PROVE  SeedInv'
<1> DEFINE n0 == Seed!First(script.left)
<1>1. UNCHANGED <<config, shop, coins, markets, priced, treasury>>
  BY DEF Seed!saveMint, Seed!chain
<1>2. /\ script.at = "saveMint" /\ script.usdc = env[Seed!Usdc] /\ script.usdc \in Usable
      /\ config = script.usdc /\ script.left # {} /\ env[n0] = None
      /\ script.mint \in MintsOf(n0)
  BY DEF Seed!saveMint, Seed!At, Underway, Done, HasUsdc, Lists, Minting, Starting, Listing
<1>3. n0 \in script.left /\ n0 \in Seed!Symbols /\ n0 \in Seed!Names /\ n0 # Seed!Usdc
  <2>1. script.left \in SUBSET Seed!Symbols
    BY DEF Underway, Done, IsRun
  <2> QED BY <1>2, <2>1, FirstIsOne, ConstantsDiffer DEF Underway
<1>4. script.mint # None
  BY <1>2, <1>3, ConstantsDiffer DEF Underway
<1> HIDE DEF n0
<1>5. env' = [env EXCEPT ![n0] = script.mint]
  BY DEF n0, Seed!saveMint, Seed!upsertEnvFile, Seed!Symbol
<1>6. env'[n0] = script.mint /\ (\A n \in Seed!Names : n # n0 => env'[n] = env[n])
      /\ env' = [n \in Seed!Names |-> env'[n]]
  BY <1>3, <1>5 DEF Underway, OnFile
<1>7. /\ IsRun(script') /\ script'.at = "fetchMarket" /\ script'.usdc = script.usdc
      /\ script'.mint = script.mint /\ script'.only = script.only
      /\ script'.left = script.left /\ script'.assets = script.assets
  <2>1. Seed!Goto("fetchMarket") /\ "fetchMarket" \in Stages
    BY DEF Seed!saveMint, Stages, Listing
  <2> QED BY <2>1, GotoMoves DEF Underway
<1>8. /\ script.only \subseteq Seed!Names /\ CashbackAssets \subseteq Seed!Names
      /\ Seed!Symbols \subseteq Seed!Names /\ Seed!Usdc \in Seed!Names
  BY ConstantsDiffer DEF Underway, Done, IsRun
<1>9. OnFile'
  <2>1. \A m \in markets : \E n \in Seed!Symbols : m \in MintsOf(n) /\ env'[n] = m
    <3> TAKE m \in markets
    <3>1. PICK n \in Seed!Symbols : m \in MintsOf(n) /\ env[n] = m
      BY DEF Underway, OnFile
    <3>2. m # None
      BY <3>1, ConstantsDiffer DEF Underway
    <3> QED BY <1>2, <1>6, <1>8, <3>1, <3>2
  <2>2. \A n \in Seed!Symbols : env'[n] = None \/ env'[n] \in MintsOf(n)
    BY <1>2, <1>6, <1>8 DEF Underway, OnFile
  <2> QED BY <1>1, <1>3, <1>6, <1>8, <2>1, <2>2 DEF Underway, OnFile, Usable
<1>10. HasUsdc(script)'
  BY <1>1, <1>2, <1>3, <1>6, <1>7, <1>8 DEF HasUsdc, Usable, Minting, Starting
<1>11. Lists(script)'
  <2>1. \A n \in script.only \ script.left : Ready(n)'
    BY <1>1, <1>3, <1>6, <1>8 DEF Underway, Done, Lists, Ready
  <2> QED BY <1>2, <1>4, <1>6, <1>7, <2>1 DEF Lists, Listing, n0
<1>12. \A m : Seed!Held(m)' = Seed!Held(m)
  BY <1>1 DEF Seed!Held
<1>13. Stocks(script)'
  <2>1. \A n \in CashbackAssets \ script.assets : Stocked(n)'
    BY <1>2, <1>6, <1>8, <1>12 DEF Underway, Done, Stocks, Stocked
  <2> QED BY <1>7, <2>1 DEF Stocks, Funding, Stocking
<1> QED BY <1>7, <1>9, <1>10, <1>11, <1>13 DEF SeedInv, Done, IsRun

LEMMA ListsMarket ==
  ASSUME Underway, Seed!fetchMarket \/ Seed!addMarket
  PROVE  SeedInv'
<1>1. /\ script.at \in {"fetchMarket", "addMarket"} /\ script.left # {}
      /\ script.usdc = env[Seed!Usdc] /\ script.usdc \in Usable /\ config = script.usdc
      /\ script.mint = env[Seed!First(script.left)] /\ script.mint # None
  BY DEF Seed!fetchMarket, Seed!addMarket, Seed!At, Underway, Done, HasUsdc, Lists,
         Minting, Starting, Listing
<1>2. CASE Seed!fetchMarket
  <2>1. Still
    BY <1>2 DEF Seed!fetchMarket, Seed!chain, Seed!Refused, Still
  <2>2. CASE Seed!Again
    BY <2>1, <2>2, RefusedKeeps
  <2>3. CASE Seed!Goto("addMarket")
    BY <1>1, <2>1, <2>3, GoKeeps DEF Stages, Minting, Starting, Listing, Funding, Stocking
  <2>4. CASE Seed!Goto("postPrice") /\ script.mint \in markets
    BY <1>1, <2>1, <2>4, GoKeeps DEF Stages, Minting, Starting, Listing, Funding, Stocking
  <2> QED BY <1>2, <2>2, <2>3, <2>4 DEF Seed!fetchMarket, Seed!Refused
<1>3. CASE Seed!addMarket
  <2>1. UNCHANGED <<env, shop, coins, config, priced, treasury>>
    BY <1>3 DEF Seed!addMarket
  <2>2. CASE markets' = markets /\ (Seed!Again \/ Seed!Throw)
    BY <2>1, <2>2, RefusedKeeps, StopKeeps DEF Still
  <2>3. CASE markets' = markets \cup {script.mint}
    <3>1. \A m : Seed!Held(m)' = Seed!Held(m)
      BY <2>1 DEF Seed!Held
    <3>2. Grows
      BY <2>1, <2>3, <3>1 DEF Grows
    <3>3. OnFile'
      <4>1. Seed!First(script.left) \in Seed!Symbols
        <5>1. script.left \in SUBSET Seed!Symbols
          BY DEF Underway, Done, IsRun
        <5> QED BY <1>1, <5>1, FirstIsOne DEF Underway
      <4>2. script.mint \in MintsOf(Seed!First(script.left))
        BY <1>1, <4>1 DEF Underway, OnFile
      <4> QED BY <1>1, <2>1, <2>3, <4>1, <4>2, FileGrows DEF Underway, OnFile
    <3>4. CASE Seed!Again
      BY <3>2, <3>3, <3>4, StaysDone DEF SeedInv, Underway
    <3>5. CASE Seed!Goto("postPrice")
      <4>1. Done(script)'
        BY <1>1, <2>1, <2>3, <3>2, <3>5, GoesOn
           DEF Underway, Stages, Minting, Starting, Listing, Funding, Stocking
      <4> QED BY <3>3, <4>1 DEF SeedInv
    <3> QED BY <1>3, <3>4, <3>5, <2>2 DEF Seed!addMarket, Seed!withRetry, Seed!Refused
  <2> QED BY <1>3, <2>2, <2>3 DEF Seed!addMarket, Seed!withRetry, Seed!Refused
<1> QED BY <1>2, <1>3

LEMMA PostsPrice ==
  ASSUME Underway, Seed!postPrice
  PROVE  SeedInv'
<1>0. PICK n0 : n0 = Seed!First(script.left)
  OBVIOUS
<1>1. UNCHANGED <<env, config, shop, coins, markets, treasury>>
  BY DEF Seed!postPrice
<1>2. /\ script.at = "postPrice" /\ script.usdc = env[Seed!Usdc] /\ script.usdc \in Usable
      /\ config = script.usdc /\ script.mint = env[n0] /\ script.mint \in markets
  BY <1>0 DEF Seed!postPrice, Seed!At, Underway, Done, HasUsdc, Lists, Minting, Starting, Listing
<1>3. CASE priced' = Seed!Posted(script.mint, "seed")
  <2>1. DOMAIN priced' = DOMAIN priced \cup {script.mint}
    BY <1>3 DEF Seed!Posted
  <2>2. \A m : Seed!Held(m)' = Seed!Held(m)
    BY <1>1 DEF Seed!Held
  <2>3. Grows
    BY <1>1, <2>1, <2>2 DEF Grows
  <2>4. OnFile'
    BY <1>1, FileGrows DEF Underway, OnFile
  <2>5. CASE Seed!Again
    BY <2>3, <2>4, <2>5, StaysDone DEF SeedInv, Underway
  <2>6. CASE Seed!GoWith([script EXCEPT !.left = @ \ {Seed!Symbol}], "nextMarket")
    <3>1. /\ IsRun(script') /\ script'.at = "nextMarket" /\ script'.usdc = script.usdc
          /\ script'.only = script.only /\ script'.left = script.left \ {n0}
          /\ script'.assets = script.assets
      BY <1>0, <2>6 DEF Underway, Done, IsRun, Seed!GoWith, Seed!Symbol, Stages
    <3>2. HasUsdc(script)'
      BY <1>1, <1>2, <3>1 DEF HasUsdc, Usable, Minting, Starting
    <3>3. Ready(n0)'
      BY <1>1, <1>2, <2>1 DEF Ready
    <3>4. Lists(script)'
      <4>1. \A n \in script'.only \ script'.left : Ready(n)'
        BY <2>3, <3>1, <3>3 DEF Underway, Done, Lists, Grows, Ready
      <4> QED BY <3>1, <4>1 DEF Lists, Listing
    <3>5. Stocks(script)'
      BY <2>3, <3>1 DEF Underway, Done, Stocks, Grows, Stocked, Funding, Stocking
    <3> QED BY <2>4, <3>1, <3>2, <3>4, <3>5 DEF SeedInv, Done, IsRun
  <2> QED BY <1>3, <2>5, <2>6 DEF Seed!postPrice, Seed!Refused
<1>4. CASE priced' = priced /\ Seed!Again
  BY <1>1, <1>4, RefusedKeeps DEF Still
<1> QED BY <1>3, <1>4 DEF Seed!postPrice, Seed!Refused

LEMMA Funds ==
  ASSUME Underway, Seed!readVault \/ Seed!mintPool \/ Seed!deposit_savings \/ Seed!openShop
  PROVE  SeedInv'
<1>1. /\ script.at \in Funding /\ script.left = {} /\ config = script.usdc
      /\ script.usdc = env[Seed!Usdc] /\ script.usdc \in Usable
  BY DEF Seed!readVault, Seed!mintPool, Seed!deposit_savings, Seed!openShop, Seed!At, Underway,
         Done, HasUsdc, Stocks, Minting, Starting, Funding
<1>2. ASSUME Still, NEW pc \in Funding, Seed!Goto(pc) PROVE SeedInv'
  BY <1>1, <1>2, GoKeeps DEF Stages, Minting, Starting, Listing, Funding, Stocking
<1>3. CASE Seed!readVault \/ Seed!mintPool \/ Seed!deposit_savings
  <2>1. Still
    BY <1>3 DEF Seed!readVault, Seed!mintPool, Seed!deposit_savings, Seed!chain, Still
  <2>2. \/ Seed!Again \/ Seed!Throw
        \/ \E pc \in Funding : Seed!Goto(pc)
    BY <1>3 DEF Seed!readVault, Seed!mintPool, Seed!deposit_savings, Seed!withRetry,
                Seed!Refused, Funding
  <2> QED BY <1>2, <2>1, <2>2, RefusedKeeps, StopKeeps
<1>4. CASE Seed!openShop
  <2>1. UNCHANGED <<env, config, coins, markets, priced, treasury>> /\ (shop' = shop \/ shop' = TRUE)
    BY <1>4 DEF Seed!openShop, Seed!withRetry, Seed!Refused
  <2>2. \A m : Seed!Held(m)' = Seed!Held(m)
    BY <2>1 DEF Seed!Held
  <2>3. Grows
    BY <2>1, <2>2 DEF Grows
  <2>4. OnFile'
    BY <2>1, FileGrows DEF Underway, OnFile
  <2>5. CASE Seed!Again
    BY <2>3, <2>4, <2>5, StaysDone DEF SeedInv, Underway
  <2>6. CASE shop' = TRUE /\ Seed!Goto("readTreasury")
    <3>1. Done(script)'
      BY <1>1, <2>1, <2>3, <2>6, GoesOn
         DEF Underway, Stages, Minting, Starting, Listing, Funding, Stocking
    <3> QED BY <2>4, <3>1 DEF SeedInv
  <2>7. Seed!Again \/ (shop' = TRUE /\ Seed!Goto("readTreasury"))
    BY <1>4 DEF Seed!openShop, Seed!withRetry, Seed!Refused
  <2> QED BY <2>5, <2>6, <2>7
<1> QED BY <1>3, <1>4

(* A treasury that was minted to holds as much as before and one more. *)
LEMMA MintedGrows ==
  ASSUME OnFile, NEW x, treasury' = Seed!MintedTo(x)
  PROVE  /\ \A m \in DOMAIN treasury' : treasury'[m] \in Nat
         /\ \A m : Seed!Held(m) >= 1 => Seed!Held(m)' >= 1
         /\ Seed!Held(x)' >= 1
<1>1. \A m : Seed!Held(m) \in Nat
  BY DEF OnFile, Seed!Held
<1>2. DOMAIN treasury' = DOMAIN treasury \cup {x}
  BY DEF Seed!MintedTo
<1>3. \A m \in DOMAIN treasury' : treasury'[m] = Seed!Held(m) + IF m = x THEN 1 ELSE 0
  BY <1>2 DEF Seed!MintedTo
<1>4. \A m \in DOMAIN treasury' : treasury'[m] \in Nat /\ treasury'[m] >= Seed!Held(m)
  BY <1>1, <1>3
<1>5. \A m : Seed!Held(m)' = IF m \in DOMAIN treasury' THEN treasury'[m] ELSE 0
  BY DEF Seed!Held
<1>6. \A m : m \notin DOMAIN treasury' => Seed!Held(m) = 0
  BY <1>2 DEF Seed!Held
<1>7. treasury'[x] >= 1 /\ x \in DOMAIN treasury'
  BY <1>1, <1>2, <1>3
<1> QED BY <1>1, <1>4, <1>5, <1>6, <1>7

LEMMA StocksAssets ==
  ASSUME Underway, Seed!readTreasury \/ Seed!mintTreasury
  PROVE  SeedInv'
<1>0. PICK n0, x : n0 = Seed!First(script.assets) /\ x = env[n0]
  OBVIOUS
<1>1. /\ script.at \in {"readTreasury", "mintTreasury"} /\ script.left = {}
      /\ config = script.usdc /\ script.usdc = env[Seed!Usdc] /\ script.usdc \in Usable
      /\ shop = TRUE
      /\ script.at = "mintTreasury" => script.assets # {} /\ x # None
  BY <1>0 DEF Seed!readTreasury, Seed!mintTreasury, Seed!At, Underway,
         Done, HasUsdc, Stocks, Minting, Starting, Stocking
<1>2. UNCHANGED <<env, config, shop, coins, markets, priced>>
  BY DEF Seed!readTreasury, Seed!mintTreasury, Seed!chain
<1>3. ASSUME Grows, OnFile', x # None, Seed!Held(x)' >= 1,
             Seed!GoWith([script EXCEPT !.assets = @ \ {Seed!Asset}], "readTreasury")
      PROVE  SeedInv'
  <2>1. /\ IsRun(script') /\ script'.at = "readTreasury" /\ script'.usdc = script.usdc
        /\ script'.only = script.only /\ script'.left = script.left
        /\ script'.assets = script.assets \ {n0}
    BY <1>0, <1>3 DEF Underway, Done, IsRun, Seed!GoWith, Seed!Asset, Stages, Stocking
  <2>2. HasUsdc(script)'
    BY <1>1, <1>2, <2>1 DEF HasUsdc, Usable, Minting, Starting
  <2>3. Lists(script)'
    BY <1>2, <2>1 DEF Underway, Done, Lists, Ready, Listing
  <2>4. Stocked(n0)'
    BY <1>0, <1>2, <1>3 DEF Stocked
  <2>5. Stocks(script)'
    <3>1. \A n \in CashbackAssets \ script'.assets : Stocked(n)'
      BY <1>3, <2>1, <2>4 DEF Underway, Done, Stocks, Grows, Stocked
    <3> QED BY <1>1, <1>2, <2>1, <3>1 DEF Stocks, Funding, Stocking
  <2> QED BY <1>3, <2>1, <2>2, <2>3, <2>5 DEF SeedInv, Done, IsRun
<1>4. CASE Seed!readTreasury
  <2>1. Still
    BY <1>2, <1>4 DEF Still, Seed!readTreasury, Seed!chain
  <2>2. CASE Seed!Throw
    BY <2>1, <2>2, StopKeeps
  <2>3. CASE Seed!Goto("writeSecrets") /\ script.assets = {}
    BY <1>1, <2>1, <2>3, GoKeeps DEF Stages, Minting, Starting, Listing, Funding, Stocking
  <2>4. CASE Seed!Goto("mintTreasury") /\ script.assets # {} /\ Seed!AssetMint # None
    BY <1>1, <2>1, <2>4, GoKeeps
       DEF Stages, Minting, Starting, Listing, Funding, Stocking, Seed!AssetMint, Seed!Asset
  <2>5. CASE /\ Seed!AssetMint # None /\ ~(Seed!Held(Seed!AssetMint) < 1)
             /\ Seed!GoWith([script EXCEPT !.assets = @ \ {Seed!Asset}], "readTreasury")
    <3>1. Seed!Held(x) \in Nat /\ Seed!Held(x)' = Seed!Held(x)
      BY <2>1 DEF Still, Seed!Held, Underway, OnFile
    <3>2. x # None /\ Seed!Held(x)' >= 1
      BY <1>0, <2>5, <3>1 DEF Seed!AssetMint, Seed!Asset
    <3>3. Grows /\ OnFile'
      BY <2>1, NothingMoves DEF Underway
    <3> QED BY <1>3, <2>5, <3>2, <3>3
  <2> QED BY <1>4, <2>2, <2>3, <2>4, <2>5 DEF Seed!readTreasury
<1>5. CASE Seed!mintTreasury /\ treasury' = Seed!MintedTo(Seed!AssetMint)
  <2>1. x = Seed!AssetMint /\ x # None
    BY <1>0, <1>1, <1>5 DEF Seed!mintTreasury, Seed!At, Seed!AssetMint, Seed!Asset
  <2>2. /\ \A m \in DOMAIN treasury' : treasury'[m] \in Nat
        /\ \A m : Seed!Held(m) >= 1 => Seed!Held(m)' >= 1
        /\ Seed!Held(x)' >= 1
    BY <1>2, <1>5, <2>1, MintedGrows DEF Underway
  <2>3. Grows
    BY <1>2, <2>2 DEF Grows
  <2>4. OnFile'
    BY <1>2, <2>2, FileGrows DEF Underway, OnFile
  <2>5. CASE Seed!Again
    BY <2>3, <2>4, <2>5, StaysDone DEF SeedInv, Underway
  <2>6. CASE Seed!GoWith([script EXCEPT !.assets = @ \ {Seed!Asset}], "readTreasury")
    BY <1>3, <2>1, <2>2, <2>3, <2>4, <2>6
  <2> QED BY <1>5, <2>5, <2>6 DEF Seed!mintTreasury, Seed!Refused
<1>6. CASE treasury' = treasury /\ Seed!Again
  BY <1>2, <1>6, RefusedKeeps DEF Still
<1> QED BY <1>4, <1>5, <1>6 DEF Seed!mintTreasury, Seed!Refused

LEMMA OthersKeep ==
  ASSUME Seed!SeedAssumption, SeedInv,
         Seed!Stop \/ Seed!Borrowed \/ Seed!writeSecrets
  PROVE  SeedInv'
<1>1. Still
  BY DEF Seed!Stop, Seed!Borrowed, Seed!writeSecrets, Seed!chain, Still
<1>2. OnFile'
  BY <1>1, NothingMoves DEF SeedInv
<1>3. CASE script' = Seed!Off
  BY <1>2, <1>3 DEF SeedInv
<1>4. CASE script' = script
  BY <1>1, <1>2, <1>4 DEF Still, SeedInv, Done, IsRun, HasUsdc, Lists, Stocks, Usable, Ready,
     Stocked, Seed!Held
<1> QED BY <1>3, <1>4 DEF Seed!Stop, Seed!Borrowed, Seed!writeSecrets

LEMMA LivePriceKeeps ==
  ASSUME SeedInv, NEW m \in DOMAIN priced, Seed!LivePrice(m)
  PROVE  SeedInv'
<1>1. UNCHANGED <<env, config, shop, coins, markets, treasury, script>>
  BY DEF Seed!LivePrice
<1>2. DOMAIN priced' = DOMAIN priced
  BY DEF Seed!LivePrice, Seed!Posted
<1> QED BY <1>1, <1>2 DEF SeedInv, OnFile, Done, IsRun, HasUsdc, Lists, Stocks, Usable, Ready,
     Stocked, Seed!Held

(* What the script has set up the next run finds: a market or a config on chain is one   *)
(* the file names ("Idempotent: skips mints/markets that already exist", seed-devnet.ts:4), *)
(* and a run that ends has listed and priced what it was asked for and stocked the        *)
(* cashback treasuries, whatever runs before it left undone.                       *)
THEOREM SeedIsIdempotent ==
  ASSUME Seed!SeedAssumption
  PROVE  Seed!Spec => [](Seed!ListedIsKnown /\ Seed!ReadyAtEnd)
<1>1. Seed!Init => SeedInv
  <2> SUFFICES ASSUME Seed!Init PROVE SeedInv
    OBVIOUS
  <2>1. env = [n \in Seed!Names |-> env[n]] /\ \A n \in Seed!Symbols : env[n] = None
    BY ConstantsDiffer DEF Seed!Init
  <2>2. IsFiniteSet(coins)
    BY FS_Singleton DEF Seed!Init
  <2>3. DOMAIN treasury = {}
    BY DEF Seed!Init
  <2> QED BY <2>1, <2>2, <2>3 DEF Seed!Init, SeedInv, OnFile
<1>2. SeedInv /\ [Seed!Next]_(Seed!seed_vars) => SeedInv'
  <2> SUFFICES ASSUME SeedInv, [Seed!Next]_(Seed!seed_vars) PROVE SeedInv'
    OBVIOUS
  <2>1. CASE UNCHANGED Seed!seed_vars
    BY <2>1 DEF Seed!seed_vars, Seed!chain, SeedInv, OnFile, Done, IsRun, HasUsdc, Lists, Stocks,
       Usable, Ready, Stocked, Seed!Held
  <2>2. CASE Seed!Step
    <3>1. CASE Seed!writeSecrets
      BY <3>1, OthersKeep
    <3>2. CASE ~Seed!writeSecrets
      <4>1. script # Seed!Off
        BY <2>2, <3>2 DEF Seed!Step, Seed!Off, Seed!At, Seed!checkUsdc, Seed!createUsdc,
           Seed!saveUsdc, Seed!fetchConfig, Seed!initConfig, Seed!nextMarket,
           Seed!createMockMint, Seed!saveMint, Seed!fetchMarket, Seed!addMarket,
           Seed!postPrice, Seed!readVault, Seed!mintPool, Seed!deposit_savings,
           Seed!openShop, Seed!readTreasury, Seed!mintTreasury
      <4>2. Underway
        BY <4>1 DEF Underway, SeedInv
      <4> QED BY <2>2, <3>2, <4>2, ChecksUsdc, CreatesUsdc, SavesUsdc, Configures, NextMarket,
              CreatesMint, SavesMint, ListsMarket, PostsPrice, Funds, StocksAssets DEF Seed!Step
    <3> QED BY <3>1, <3>2
  <2> QED BY <2>1, <2>2, StartKeeps, OthersKeep, LivePriceKeeps DEF Seed!Next, Seed!Others
<1>3. SeedInv => Seed!ListedIsKnown /\ Seed!ReadyAtEnd
  <2> SUFFICES ASSUME SeedInv PROVE Seed!ListedIsKnown /\ Seed!ReadyAtEnd
    OBVIOUS
  <2>1. Seed!ListedIsKnown
    BY DEF SeedInv, OnFile, MintsOf, Seed!ListedIsKnown
  <2>2. ASSUME Seed!At("writeSecrets") PROVE Done(script)
    BY <2>2 DEF SeedInv, Seed!At, Seed!Off
  <2>3. Seed!ReadyAtEnd
    BY <2>2 DEF Done, HasUsdc, Lists, Stocks, Minting, Starting, Funding, Stocking, Ready,
       Stocked, Seed!At, Seed!ReadyAtEnd
  <2> QED BY <2>1, <2>3
<1> QED BY <1>1, <1>2, <1>3, PTL DEF Seed!Spec
=============================================================================
