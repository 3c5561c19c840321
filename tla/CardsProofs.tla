------------------------------ MODULE CardsProofs ------------------------------
(***************************************************************************)
(* Cashback and the feed of purchases.  First, a cashback on record as sent was deposited, *)
(* and none was deposited without a purchase the chain executed: for any number of  *)
(* requests, owners and purchases, over either store, whatever stops, times out or   *)
(* is written over.  A record of a purchase is copied all the time: into a request's *)
(* locals, the commands of a write, a loaded document, and back.  What it says never *)
(* becomes wrong, since deposits and executed settlements only grow: the invariant   *)
(* is that every copy anywhere is of a right record.                             *)
(*                                                                         *)
(* Second, with one request at a time and a server that does not stop in one, the    *)
(* cashback of a purchase is deposited once.  There the store itself is the guard:   *)
(* it holds no payable record of a purchase whose cashback was paid, except while    *)
(* the request that paid it is about to say so.                                  *)
(*                                                                         *)
(* Third, if confirmations are waited for as well, the feed has every purchase the    *)
(* chain executed, once, unless it is full.                                      *)
(***************************************************************************)
EXTENDS Cards, SequenceTheorems, FiniteSetTheorems, WellFoundedInduction, TLAPS

-----------------------------------------------------------------------------
(* Records *)

Txs == [id : TxIds, amount : Amounts, status : {"pending", "declined", "settled"},
        cashback : [status : {"none", "queued", "sent", "failed"}, usd : Nat]]
CardSet == [status : {"active", "frozen"}, tier : Tiers]

Paid    == BagToSet(deposits)
Reached == {x.id : x \in executed}

(* The records that are right when the cashbacks of P have been deposited and    *)
(* the settlements of X executed.                                              *)
RightTxs(P, X) ==
  {tx \in Txs : /\ tx.status = "settled" => tx.id \in X
                /\ tx.cashback.status = "sent" => tx.id \in P}
Right == RightTxs(Paid, Reached)

(* The entries of a store or a document, and what may be written, when S are the  *)
(* right records.                                                             *)
GoodEntries(e, S) ==
  /\ e \in [Keys -> {e[k] : k \in Keys}]
  /\ \A o \in Owners :
       /\ e[card(o)] = NoEntry \/ e[card(o)] \in CardSet
       /\ ListOf(e[txsOf(o)]) \in Seq(S)

FeedCommand(c, o, S) ==
  /\ c.key = txsOf(o)
  /\ \/ c.cmd = "del"
     \/ c.cmd = "lpush" /\ c.element \in S
     \/ c.cmd = "rpush" /\ c.elements \in Seq(S)
     \/ c.cmd = "ltrim" /\ c.keep = MaxList
GoodCommand(c, S) ==
  \E o \in Owners :
    \/ c.cmd = "set" /\ c.key = card(o) /\ c.value \in CardSet
    \/ FeedCommand(c, o, S)

GoodWrite(t, S) ==
  \/ t = <<>>
  \/ \E c : t = <<c>> /\ GoodCommand(c, S)
  \/ \E c, d : t = <<c, d>> /\ GoodCommand(c, S) /\ GoodCommand(d, S)

Buying  == {"checking", "sending", "confirming"}
Paying  == {"pricing", "depositing", "landed", "dropped"}
GoodRequest(q, S, P) ==
  \/ q = IdleReq
  \/ q \in [at : {"creating"}, owner : Owners]
  \/ q \in [at : {"patching"}, owner : Owners, card : CardSet]
  \/ /\ q \in [at : Buying, owner : Owners, tx : S]
     /\ q.tx.status = "pending" /\ q.tx.cashback = NoCashback
  \/ q \in [at : {"settled"}, owner : Owners, tx : S]
  \/ q \in [at : {"rewarding"}, owner : Owners, tx : S, tier : Tiers]
  \/ q \in [at : {"queueing"}, owner : Owners, list : Seq(S)]
  \/ /\ q \in [at : Paying, owner : Owners, tx : S, list : Seq(S)]
     /\ q.tx.status = "settled" /\ (q.at = "landed" => q.tx.id \in P)

-----------------------------------------------------------------------------
(* The inductive invariant *)

Shapes ==
  /\ req = [r \in Requests |-> req[r]] /\ todo = [r \in Requests |-> todo[r]]
  /\ doc = [r \in Requests |-> doc[r]]
GoodRequests == \A r \in Requests : GoodRequest(req[r], Right, Paid)
GoodWrites   == \A r \in Requests : GoodWrite(todo[r], Right)
GoodDocs     == \A r \in Requests : doc[r] # NoDoc => GoodEntries(doc[r], Right)

RightInv ==
  /\ Shapes /\ Paid \subseteq Reached
  /\ GoodEntries(store, Right) /\ GoodRequests /\ GoodWrites /\ GoodDocs

LEMMA RightIsBacked ==
  RightInv => SentMeansDeposited /\ CashbackFollowsPurchase
<1> SUFFICES ASSUME RightInv PROVE SentMeansDeposited /\ CashbackFollowsPurchase
  OBVIOUS
<1>1. CashbackFollowsPurchase
  BY DEF RightInv, CashbackFollowsPurchase, Paid, Reached
<1>2. SentMeansDeposited
  <2> SUFFICES ASSUME NEW o \in Owners, NEW i \in DOMAIN Feed(o),
                      Feed(o)[i].cashback.status = "sent"
               PROVE  BagIn(Feed(o)[i].id, deposits)
    BY DEF SentMeansDeposited
  <2>1. Feed(o) \in Seq(Right)
    BY DEF RightInv, GoodEntries, Feed
  <2>2. Feed(o)[i] \in Right
    BY <2>1, LenProperties, ElementOfSeq
  <2> QED BY <2>2 DEF Right, RightTxs, Paid, BagIn
<1> QED BY <1>1, <1>2

(* The key of a card or a feed is no other key.                               *)
LEMMA KeysDiffer ==
  /\ \A o, p : card(o) # txsOf(p)
  /\ \A o, p : card(o) = card(p) => o = p
  /\ \A o, p : txsOf(o) = txsOf(p) => o = p
  /\ \A o \in Owners : card(o) \in Keys /\ txsOf(o) \in Keys
<1>1. \A o : card(o)[1] = "card" /\ txsOf(o)[1] = "txs" /\ card(o)[2] = o /\ txsOf(o)[2] = o
  BY DEF card, txsOf
<1>2. \A o \in Owners : card(o) \in Keys /\ txsOf(o) \in Keys
  BY CardsAssumption
<1>3. \A o, p : card(o) # txsOf(p)
  <2> SUFFICES ASSUME NEW o, NEW p, card(o) = txsOf(p) PROVE FALSE
    OBVIOUS
  <2> QED BY <1>1
<1> QED BY <1>1, <1>2, <1>3

LEMMA RightInit ==
  ASSUME Init
  PROVE  RightInv
<1>1. Shapes /\ GoodRequests
  BY CardsAssumption DEF Init, KvInit, Shapes, GoodRequests, GoodRequest
<1>2. Paid \subseteq Reached
  BY DEF Init, CardsInit, Paid, EmptyBag, SetToBag, BagToSet
<1>3. GoodEntries(store, Right)
  <2>1. store = [k \in Keys |-> NoEntry]
    BY DEF Init, KvInit
  <2>2. \A o \in Owners : store[card(o)] = NoEntry /\ ListOf(store[txsOf(o)]) = <<>>
    BY <2>1, KeysDiffer DEF ListOf
  <2>3. <<>> \in Seq(Right)
    BY EmptySeq
  <2> QED BY <2>1, <2>2, <2>3 DEF GoodEntries
<1>4. GoodWrites /\ GoodDocs
  BY CardsAssumption DEF Init, KvInit, GoodWrites, GoodWrite, GoodDocs
<1> QED BY <1>1, <1>2, <1>3, <1>4 DEF RightInv

-----------------------------------------------------------------------------
(* Lists *)

LEMMA FirstOfSeq ==
  ASSUME NEW S, NEW list \in Seq(S), NEW n \in Nat
  PROVE  FirstOf(list, n) \in Seq(S)
<1> DEFINE k == IF n < Len(list) THEN n ELSE Len(list)
<1>1. k \in 0 .. Len(list) /\ \A i \in 1 .. k : list[i] \in S
  BY LenProperties, ElementOfSeq
<1>2. SubSeq(list, 1, k) \in Seq(S)
  BY <1>1, SubSeqProperties
<1> QED BY <1>2 DEF FirstOf

LEMMA ReplacedSeq ==
  ASSUME NEW S, NEW T, NEW list \in Seq(S), NEW tx \in T,
         \A x \in S : x.id # tx.id => x \in T
  PROVE  Replaced(list, tx) \in Seq(T)
<1> DEFINE e(i) == IF list[i].id = tx.id THEN tx ELSE list[i]
<1>1. DOMAIN list = 1 .. Len(list) /\ Len(list) \in Nat
  BY LenProperties
<1>2. \A i \in 1 .. Len(list) : e(i) \in T
  BY ElementOfSeq
<1>3. Replaced(list, tx) = [i \in 1 .. Len(list) |-> e(i)]
  BY <1>1 DEF Replaced
<1> HIDE DEF e
<1> QED BY <1>1, <1>2, <1>3, IsASeq

(* A set of indices has a least one: the smallest of the intervals up to them. *)
LEMMA LeastIndex ==
  ASSUME NEW n \in Nat, NEW I \in SUBSET (1 .. n), I # {}
  PROVE  \E i \in I : \A j \in I : i <= j
<1> DEFINE F == {1 .. i : i \in I}
<1>1. IsWellFoundedOn(StrictSubsetOrdering(1 .. n), SUBSET (1 .. n))
  <2>1. IsFiniteSet(1 .. n)
    BY FS_Interval
  <2> QED BY <2>1, FS_StrictSubsetOrderingWellFounded, FS_FiniteSubsetsOfFinite
<1>2. F \subseteq SUBSET (1 .. n) /\ F # {}
  <2>1. ASSUME NEW i \in I PROVE 1 .. i \in SUBSET (1 .. n)
    <3>1. i \in 1 .. n
      OBVIOUS
    <3> QED BY <3>1
  <2> QED BY <2>1
<1>3. PICK A \in F : \A B \in F : ~(<<B, A>> \in StrictSubsetOrdering(1 .. n))
  <2> HIDE DEF F
  <2> QED BY <1>1, <1>2, WFMin
<1>4. PICK i \in I : A = 1 .. i
  BY <1>3
<1>5. ASSUME NEW j \in I, j < i PROVE FALSE
  <2>1. 1 .. j \in F /\ 1 .. j \subseteq 1 .. i /\ 1 .. j # 1 .. i
    BY <1>5
  <2> QED BY <1>2, <1>3, <1>4, <2>1 DEF StrictSubsetOrdering
<1> QED BY <1>4, <1>5

(* The purchase that findIndex finds is one of the list, with the id. *)
LEMMA FoundInList ==
  ASSUME NEW S, NEW list \in Seq(S), NEW t \in IdsOf(list)
  PROVE  FindTx(list, t) \in S /\ FindTx(list, t).id = t
<1> DEFINE I == {i \in DOMAIN list : list[i].id = t}
<1>1. DOMAIN list = 1 .. Len(list) /\ Len(list) \in Nat
  BY LenProperties
<1>2. I \in SUBSET (1 .. Len(list)) /\ I # {}
  BY <1>1 DEF IdsOf
<1>3. PICK i \in I : \A j \in I : i <= j
  <2> HIDE DEF I
  <2> QED BY <1>1, <1>2, LeastIndex
<1>4. i \in DOMAIN list /\ list[i].id = t /\ \A j \in 1 .. i - 1 : list[j].id # t
  BY <1>1, <1>3
<1>5. PICK k \in DOMAIN list : list[k].id = t /\ FindTx(list, t) = list[k]
  BY <1>4 DEF FindTx
<1> QED BY <1>1, <1>5, ElementOfSeq

-----------------------------------------------------------------------------
(* Writes *)

(* A command leaves a good list. *)
LEMMA ChangedList ==
  ASSUME NEW S, NEW o, NEW c, FeedCommand(c, o, S), NEW entry, ListOf(entry) \in Seq(S)
  PROVE  ListOf(Changed(entry, c)) \in Seq(S)
<1> DEFINE new == Changed(entry, c)
           old == ListOf(entry)
<1>1. old \in Seq(S) /\ <<>> \in Seq(S)
  BY EmptySeq
<1>2. ListOf(new) \in Seq(S)
  <2>1. CASE new = NoEntry
    BY <1>1, <2>1 DEF ListOf
  <2>2. CASE new # NoEntry /\ c.cmd = "lpush"
    <3>1. ListOf(new) = <<c.element>> \o old /\ c.element \in S
      BY <2>2 DEF ListOf, Changed, FeedCommand
    <3>2. <<c.element>> \in Seq(S)
      BY <3>1
    <3> HIDE DEF old, new
    <3> QED BY <1>1, <3>1, <3>2, ConcatProperties
  <2>3. CASE new # NoEntry /\ c.cmd = "rpush"
    <3>1. ListOf(new) = old \o c.elements /\ c.elements \in Seq(S)
      BY <2>3 DEF ListOf, Changed, FeedCommand
    <3> HIDE DEF old, new
    <3> QED BY <1>1, <3>1, ConcatProperties
  <2>4. CASE new # NoEntry /\ c.cmd = "ltrim"
    <3>1. ListOf(new) = FirstOf(old, MaxList) /\ MaxList \in Nat
      BY <2>4, CardsAssumption DEF ListOf, Changed, FeedCommand
    <3> HIDE DEF old, new
    <3> QED BY <1>1, <3>1, FirstOfSeq
  <2>5. c.cmd = "del" => new = NoEntry
    BY DEF Changed
  <2> QED BY <2>1, <2>2, <2>3, <2>4, <2>5 DEF FeedCommand
<1> QED BY <1>2

(* A command leaves good entries. *)
LEMMA AppliedGood ==
  ASSUME NEW S, NEW e, NEW c, GoodEntries(e, S), GoodCommand(c, S)
  PROVE  GoodEntries(Applied(e, c), S)
<1> DEFINE f == Applied(e, c)
<1>1. /\ f = [e EXCEPT ![c.key] = Changed(e[c.key], c)]
      /\ e \in [Keys -> {e[k] : k \in Keys}]
  BY DEF GoodEntries, Applied
<1>2. PICK o \in Owners :
        \/ c.cmd = "set" /\ c.key = card(o) /\ c.value \in CardSet
        \/ FeedCommand(c, o, S)
  BY DEF GoodCommand
<1>3. f \in [Keys -> {f[k] : k \in Keys}]
  BY <1>1
<1>4. CASE c.cmd = "set" /\ c.key = card(o) /\ c.value \in CardSet
  <2>1. /\ f[card(o)] = c.value
        /\ \A p \in Owners : p # o => f[card(p)] = e[card(p)]
        /\ \A p \in Owners : f[txsOf(p)] = e[txsOf(p)]
    BY <1>1, <1>4, KeysDiffer DEF Changed
  <2> QED BY <1>3, <1>4, <2>1 DEF GoodEntries
<1>5. CASE FeedCommand(c, o, S)
  <2>1. /\ f[txsOf(o)] = Changed(e[txsOf(o)], c)
        /\ \A p \in Owners : p # o => f[txsOf(p)] = e[txsOf(p)]
        /\ \A p \in Owners : f[card(p)] = e[card(p)]
    BY <1>1, <1>5, KeysDiffer DEF FeedCommand
  <2>2. ListOf(f[txsOf(o)]) \in Seq(S)
    BY <1>5, <2>1, ChangedList DEF GoodEntries
  <2>3. GoodEntries(f, S)
    <3> HIDE DEF f
    <3> QED BY <1>3, <2>1, <2>2 DEF GoodEntries
  <2> QED BY <2>3
<1> QED BY <1>2, <1>4, <1>5

LEMMA ExecutedGood ==
  ASSUME NEW S, NEW e, NEW t,
         GoodEntries(e, S), GoodWrite(t, S), t # <<>>
  PROVE  GoodEntries(Executed(e, t), S)
<1>1. CASE \E c : t = <<c>> /\ GoodCommand(c, S)
  BY <1>1, AppliedGood DEF Executed
<1>2. CASE \E c, d : t = <<c, d>> /\ GoodCommand(c, S) /\ GoodCommand(d, S)
  <2>1. PICK c, d : t = <<c, d>> /\ GoodCommand(c, S) /\ GoodCommand(d, S)
    BY <1>2
  <2>2. Executed(e, t) = Applied(Applied(e, c), d)
    BY <2>1 DEF Executed
  <2> QED BY <2>1, <2>2, AppliedGood
<1> QED BY <1>1, <1>2 DEF GoodWrite

LEMMA WriteParts ==
  ASSUME NEW S, NEW t, GoodWrite(t, S), t # <<>>
  PROVE  GoodCommand(Head(t), S) /\ GoodWrite(Tail(t), S)
<1>1. CASE \E c : t = <<c>> /\ GoodCommand(c, S)
  BY <1>1 DEF GoodWrite
<1>2. CASE \E c, d : t = <<c, d>> /\ GoodCommand(c, S) /\ GoodCommand(d, S)
  BY <1>2 DEF GoodWrite
<1> QED BY <1>1, <1>2 DEF GoodWrite

LEMMA ListWriteIs ==
  ASSUME NEW o \in Owners, NEW list
  PROVE  LET c == [cmd |-> "del", key |-> txsOf(o)]
             d == [cmd |-> "rpush", key |-> txsOf(o), elements |-> list]
         IN  kvListWrite(txsOf(o), list) = IF list = <<>> THEN <<c>> ELSE <<c, d>>
<1> DEFINE c == [cmd |-> "del", key |-> txsOf(o)]
           d == [cmd |-> "rpush", key |-> txsOf(o), elements |-> list]
<1>1. kvListWrite(txsOf(o), list) = <<c>> \o IF list = <<>> THEN <<>> ELSE <<d>>
  BY DEF kvListWrite
<1> HIDE DEF c, d
<1>2. <<c>> \o <<>> = <<c>>
  <2>1. <<c>> \in Seq({c})
    OBVIOUS
  <2> QED BY <2>1, ConcatEmptySeq
<1>3. <<c>> \o <<d>> = <<c, d>>
  <2>1. <<c>> \in Seq({c, d}) /\ <<d>> \in Seq({c, d}) /\ <<c, d>> \in Seq({c, d})
    OBVIOUS
  <2>2. /\ <<c>> \o <<d>> \in Seq({c, d}) /\ Len(<<c>> \o <<d>>) = 2
        /\ (<<c>> \o <<d>>)[1] = c /\ (<<c>> \o <<d>>)[2] = d
    BY <2>1, ConcatProperties
  <2>3. Len(<<c, d>>) = 2 /\ \A i \in 1 .. 2 : (<<c>> \o <<d>>)[i] = <<c, d>>[i]
    BY <2>2
  <2> QED BY <2>1, <2>2, <2>3, SeqEqual
<1>4. kvListWrite(txsOf(o), list) = IF list = <<>> THEN <<c>> ELSE <<c, d>>
  BY <1>1, <1>2, <1>3
<1> QED BY <1>4 DEF c, d

(* The three writes of the routes. *)
LEMMA WritesGood ==
  ASSUME NEW S, NEW o \in Owners
  PROVE  /\ \A v \in CardSet : GoodWrite(kvSet(card(o), v), S)
         /\ \A tx \in S : GoodWrite(kvListPush(txsOf(o), tx, MaxList), S)
         /\ \A list \in Seq(S) : GoodWrite(kvListWrite(txsOf(o), list), S)
<1>1. ASSUME NEW v \in CardSet PROVE GoodWrite(kvSet(card(o), v), S)
  <2> DEFINE c == [cmd |-> "set", key |-> card(o), value |-> v]
  <2>1. GoodCommand(c, S) /\ kvSet(card(o), v) = <<c>>
    BY DEF GoodCommand, kvSet
  <2> HIDE DEF c
  <2> QED BY <2>1 DEF GoodWrite
<1>2. ASSUME NEW tx \in S PROVE GoodWrite(kvListPush(txsOf(o), tx, MaxList), S)
  <2> DEFINE c == [cmd |-> "lpush", key |-> txsOf(o), element |-> tx]
             d == [cmd |-> "ltrim", key |-> txsOf(o), keep |-> MaxList]
  <2>1. /\ GoodCommand(c, S) /\ GoodCommand(d, S)
        /\ kvListPush(txsOf(o), tx, MaxList) = <<c, d>>
    BY DEF GoodCommand, FeedCommand, kvListPush
  <2> HIDE DEF c, d
  <2> QED BY <2>1 DEF GoodWrite
<1>3. ASSUME NEW list \in Seq(S) PROVE GoodWrite(kvListWrite(txsOf(o), list), S)
  <2> DEFINE c == [cmd |-> "del", key |-> txsOf(o)]
             d == [cmd |-> "rpush", key |-> txsOf(o), elements |-> list]
  <2>1. GoodCommand(c, S) /\ GoodCommand(d, S)
    BY DEF GoodCommand, FeedCommand
  <2>2. kvListWrite(txsOf(o), list) = <<c>> \/ kvListWrite(txsOf(o), list) = <<c, d>>
    BY ListWriteIs
  <2> HIDE DEF c, d
  <2> QED BY <2>1, <2>2 DEF GoodWrite
<1> QED BY <1>1, <1>2, <1>3

-----------------------------------------------------------------------------
(* Deposits and executed settlements only grow, and what was right stays right.  *)

Grow == Paid \subseteq Paid' /\ Reached \subseteq Reached'

LEMMA FactsStay ==
  ASSUME NEW S, NEW P, NEW S2, NEW P2, S \subseteq S2, P \subseteq P2
  PROVE  /\ \A e : GoodEntries(e, S) => GoodEntries(e, S2)
         /\ \A t : GoodWrite(t, S) => GoodWrite(t, S2)
         /\ \A q : GoodRequest(q, S, P) => GoodRequest(q, S2, P2)
<1>1. \A list : list \in Seq(S) => list \in Seq(S2)
  BY SeqMonotonic
<1>2. \A e : GoodEntries(e, S) => GoodEntries(e, S2)
  BY <1>1 DEF GoodEntries
<1>3. \A c : GoodCommand(c, S) => GoodCommand(c, S2)
  BY <1>1 DEF GoodCommand, FeedCommand
<1>4. \A t : GoodWrite(t, S) => GoodWrite(t, S2)
  BY <1>3 DEF GoodWrite
<1>5. \A q : GoodRequest(q, S, P) => GoodRequest(q, S2, P2)
  <2> SUFFICES ASSUME NEW q, GoodRequest(q, S, P) PROVE GoodRequest(q, S2, P2)
    OBVIOUS
  <2>1. CASE q \in [at : {"queueing"}, owner : Owners, list : Seq(S)]
    BY <1>1, <2>1 DEF GoodRequest
  <2>2. CASE /\ q \in [at : Paying, owner : Owners, tx : S, list : Seq(S)]
             /\ q.tx.status = "settled" /\ (q.at = "landed" => q.tx.id \in P)
    <3>1. q \in [at : Paying, owner : Owners, tx : S2, list : Seq(S2)]
      BY <1>1, <2>2
    <3> QED BY <2>2, <3>1 DEF GoodRequest
  <2>3. CASE /\ q \in [at : Buying, owner : Owners, tx : S]
             /\ q.tx.status = "pending" /\ q.tx.cashback = NoCashback
    <3>1. q \in [at : Buying, owner : Owners, tx : S2]
      BY <2>3
    <3> QED BY <2>3, <3>1 DEF GoodRequest
  <2> QED BY <2>1, <2>2, <2>3 DEF GoodRequest
<1> QED BY <1>2, <1>4, <1>5

LEMMA RightGrows == Grow => Right \subseteq Right'
BY DEF Grow, Right, RightTxs

-----------------------------------------------------------------------------
(* Steps *)

(* A request goes on: it may have sent a transaction, and starts a write or none. *)
LEMMA RequestGoes ==
  ASSUME RightInv, NEW r \in Requests, NEW q, NEW t, Grow, Paid' \subseteq Reached',
         Goto(r, q), GoodRequest(q, Right', Paid'),
         UNCHANGED kv_vars \/ (Await(r, t) /\ GoodWrite(t, Right'))
  PROVE  RightInv'
<1> USE DEF RightInv
<1>1. Right \subseteq Right' /\ Paid \subseteq Paid'
  BY RightGrows DEF Grow
<1>2. /\ req' = [req EXCEPT ![r] = q]
      /\ \A w \in Requests : req'[w] = IF w = r THEN q ELSE req[w]
  BY DEF Goto, Shapes
<1>3. /\ store' = store /\ doc' = doc
      /\ \/ todo' = todo
         \/ todo' = [todo EXCEPT ![r] = t] /\ GoodWrite(t, Right')
  BY DEF kv_vars, Await
<1>4. Shapes'
  BY <1>2, <1>3 DEF Shapes
<1>5. GoodRequests'
  BY <1>1, <1>2, FactsStay DEF GoodRequests
<1>6. GoodWrites'
  <2>1. \A w \in Requests : GoodWrite(todo[w], Right')
    BY <1>1, FactsStay DEF GoodWrites
  <2> QED BY <1>3, <2>1 DEF GoodWrites, Shapes
<1>7. GoodDocs' /\ GoodEntries(store', Right')
  BY <1>1, <1>3, FactsStay DEF GoodDocs
<1> QED BY <1>4, <1>5, <1>6, <1>7

(* The chain or the wallet moves on, and no request. *)
LEMMA OthersGo ==
  ASSUME RightInv, UNCHANGED <<store, todo, doc, req>>, Grow, Paid' \subseteq Reached'
  PROVE  RightInv'
<1> USE DEF RightInv
<1>1. Right \subseteq Right' /\ Paid \subseteq Paid'
  BY RightGrows DEF Grow
<1>2. Shapes' /\ GoodEntries(store', Right')
  BY <1>1, FactsStay DEF Shapes
<1>3. GoodRequests' /\ GoodWrites' /\ GoodDocs'
  BY <1>1, FactsStay DEF GoodRequests, GoodWrites, GoodDocs
<1> QED BY <1>2, <1>3

(* Steps that send and execute nothing. *)
LEMMA ChainRests ==
  ASSUME RightInv, UNCHANGED <<deposits, executed>>
  PROVE  /\ Paid' = Paid /\ Reached' = Reached /\ Right' = Right
         /\ Grow /\ Paid' \subseteq Reached'
BY DEF RightInv, Grow, Paid, Reached, Right

LEMMA IdleIsGood == ASSUME NEW S, NEW P PROVE GoodRequest(IdleReq, S, P)
BY DEF GoodRequest

(* A request that answers, or only reads before its next await. *)
LEMMA RequestReads ==
  ASSUME RightInv, NEW r \in Requests, NEW q, GotoWith(r, q),
         GoodRequest(q, Right, Paid), UNCHANGED <<deposits, executed>>
  PROVE  RightInv'
BY ChainRests, RequestGoes DEF GotoWith

(* A request that starts a write. *)
LEMMA RequestWrites ==
  ASSUME RightInv, NEW r \in Requests, NEW q, NEW t, Goto(r, q), Await(r, t),
         GoodRequest(q, Right, Paid), GoodWrite(t, Right),
         UNCHANGED <<deposits, executed>>
  PROVE  RightInv'
BY ChainRests, RequestGoes

LEMMA RequestAnswers ==
  ASSUME RightInv, NEW r \in Requests, Answer(r), UNCHANGED <<deposits, executed>>
  PROVE  RightInv'
BY IdleIsGood, RequestReads DEF Answer

(* The commands of a write run, one by one or with the document around them. *)
LEMMA StoreGoes ==
  ASSUME RightInv, NEW r \in Requests, StoreActs(r)
  PROVE  RightInv'
<1> USE DEF RightInv
<1>1. /\ UNCHANGED <<req, deposits, executed>> /\ Paid' = Paid /\ Right' = Right
      /\ Paid' \subseteq Reached'
  BY ChainRests DEF StoreActs, chain_vars
<1>2. GoodWrite(todo[r], Right) /\ GoodRequests'
  BY <1>1 DEF GoodWrites, GoodRequests
<1>3. CASE RedisCommand(r)
  <2>1. /\ todo[r] # <<>> /\ store' = Applied(store, Head(todo[r]))
        /\ todo' = [todo EXCEPT ![r] = Tail(todo[r])] /\ doc' = doc
    BY <1>3 DEF RedisCommand, Settled
  <2>2. GoodCommand(Head(todo[r]), Right) /\ GoodWrite(Tail(todo[r]), Right)
    BY <1>2, <2>1, WriteParts
  <2>3. GoodEntries(store', Right')
    BY <1>1, <2>1, <2>2, AppliedGood
  <2>4. Shapes' /\ GoodWrites' /\ GoodDocs'
    BY <1>1, <2>1, <2>2 DEF Shapes, GoodWrites, GoodDocs
  <2> QED BY <1>1, <1>2, <2>3, <2>4
<1>4. CASE GistLoad(r)
  <2>1. doc' = [doc EXCEPT ![r] = store] /\ store' = store /\ todo' = todo
    BY <1>4 DEF GistLoad
  <2>2. Shapes' /\ GoodWrites' /\ GoodDocs'
    BY <1>1, <2>1 DEF Shapes, GoodWrites, GoodDocs
  <2> QED BY <1>1, <1>2, <2>1, <2>2
<1>5. CASE GistSave(r)
  <2>1. /\ todo[r] # <<>> /\ doc[r] # NoDoc
        /\ store' = Executed(doc[r], todo[r])
        /\ todo' = [todo EXCEPT ![r] = <<>>] /\ doc' = [doc EXCEPT ![r] = NoDoc]
    BY <1>5 DEF GistSave, Settled
  <2>2. GoodEntries(store', Right')
    BY <1>1, <1>2, <2>1, ExecutedGood DEF GoodDocs
  <2>3. GoodWrite(<<>>, Right)
    BY DEF GoodWrite
  <2>4. Shapes' /\ GoodWrites' /\ GoodDocs'
    BY <1>1, <2>1, <2>3 DEF Shapes, GoodWrites, GoodDocs
  <2> QED BY <1>1, <1>2, <2>2, <2>4
<1> QED BY <1>3, <1>4, <1>5 DEF StoreActs, KvStep

LEMMA StopGoes ==
  ASSUME RightInv, NEW r \in Requests, Stop(r)
  PROVE  RightInv'
<1> USE DEF RightInv
<1>1. /\ req' = [req EXCEPT ![r] = IdleReq] /\ store' = store
      /\ todo' = [todo EXCEPT ![r] = <<>>] /\ doc' = [doc EXCEPT ![r] = NoDoc]
      /\ UNCHANGED <<deposits, executed>>
  BY DEF Stop, Goto, Abandon, chain_vars
<1>2. Paid' = Paid /\ Right' = Right /\ Paid' \subseteq Reached'
  BY <1>1, ChainRests
<1>3. Shapes' /\ GoodRequests'
  BY <1>1, <1>2, IdleIsGood DEF Shapes, GoodRequests
<1>4. GoodWrites' /\ GoodDocs'
  BY <1>1, <1>2 DEF Shapes, GoodWrites, GoodWrite, GoodDocs
<1> QED BY <1>1, <1>2, <1>3, <1>4

-----------------------------------------------------------------------------
(* The card routes *)

(* What a request has in its locals, by the place it is at. *)
LEMMA Locals ==
  ASSUME RightInv, NEW r \in Requests
  PROVE  LET q == req[r] IN
         /\ q.at = "creating" => q \in [at : {"creating"}, owner : Owners]
         /\ q.at = "patching" => q \in [at : {"patching"}, owner : Owners, card : CardSet]
         /\ q.at \in Buying => /\ q \in [at : Buying, owner : Owners, tx : Right]
                               /\ q.tx.status = "pending" /\ q.tx.cashback = NoCashback
         /\ q.at = "settled" => q \in [at : {"settled"}, owner : Owners, tx : Right]
         /\ q.at = "rewarding" =>
              q \in [at : {"rewarding"}, owner : Owners, tx : Right, tier : Tiers]
         /\ q.at = "queueing" => q \in [at : {"queueing"}, owner : Owners, list : Seq(Right)]
         /\ q.at \in Paying =>
              /\ q \in [at : Paying, owner : Owners, tx : Right, list : Seq(Right)]
              /\ q.tx.status = "settled" /\ (q.at = "landed" => q.tx.id \in Paid)
<1>1. GoodRequest(req[r], Right, Paid)
  BY DEF RightInv, GoodRequests
<1> QED BY <1>1 DEF GoodRequest, IdleReq, Buying, Paying

(* What a read of the store returns. *)
LEMMA Reads ==
  ASSUME RightInv, NEW o \in Owners
  PROVE  /\ kvGet(card(o)) = NoEntry \/ kvGet(card(o)) \in CardSet
         /\ kvListRead(txsOf(o), MaxList) \in Seq(Right)
<1>1. kvGet(card(o)) = NoEntry \/ kvGet(card(o)) \in CardSet
  BY DEF RightInv, GoodEntries, kvGet
<1>2. ListOf(store[txsOf(o)]) \in Seq(Right) /\ MaxList \in Nat
  BY CardsAssumption DEF RightInv, GoodEntries
<1> QED BY <1>1, <1>2, FirstOfSeq DEF kvListRead

LEMMA CardApiGoes ==
  ASSUME RightInv, NEW r \in Requests, CardApi(r)
  PROVE  RightInv'
<1>1. UNCHANGED <<deposits, executed>>
  BY DEF CardApi, CreateCard, PatchCard, SaveNewCard, SavePatchedCard, chain_vars
<1>2. ASSUME NEW o \in Owners, CreateCard(r, o) PROVE RightInv'
  <2>1. GoodRequest([at |-> "creating", owner |-> o], Right, Paid)
    BY DEF GoodRequest
  <2> QED BY <1>1, <1>2, <2>1, RequestReads DEF CreateCard
<1>3. ASSUME NEW o \in Owners, PatchCard(r, o) PROVE RightInv'
  <2>1. kvGet(card(o)) \in CardSet
    BY <1>3, Reads DEF PatchCard
  <2>2. GoodRequest([at |-> "patching", owner |-> o, card |-> kvGet(card(o))], Right, Paid)
    BY <2>1 DEF GoodRequest
  <2> QED BY <1>1, <1>3, <2>2, RequestReads DEF PatchCard
<1>4. ASSUME NEW v \in CardSet, req[r].at \in {"creating", "patching"},
             Finish(r, kvSet(card(req[r].owner), v))
      PROVE  RightInv'
  <2>1. req[r].owner \in Owners
    BY <1>4, Locals
  <2>2. GoodWrite(kvSet(card(req[r].owner), v), Right)
    BY <2>1, WritesGood
  <2> QED BY <1>1, <1>4, <2>2, IdleIsGood, RequestWrites DEF Finish
<1>5. CASE SaveNewCard(r)
  <2>1. NewCard \in CardSet
    BY CardsAssumption DEF NewCard, CardSet, Tiers
  <2> QED BY <1>4, <1>5, <2>1 DEF SaveNewCard, At
<1>6. CASE SavePatchedCard(r)
  <2>1. req[r].at = "patching" /\ req[r].card \in CardSet
    BY <1>6, Locals DEF SavePatchedCard, At
  <2>2. PICK patch \in Patches :
          \/ Finish(r, kvSet(card(req[r].owner), patch))
          \/ Finish(r, kvSet(card(req[r].owner), [req[r].card EXCEPT !.status = patch.status]))
          \/ Finish(r, kvSet(card(req[r].owner), [req[r].card EXCEPT !.tier = patch.tier]))
    BY <1>6 DEF SavePatchedCard
  <2>3. patch \in CardSet
    BY CardsAssumption DEF CardSet, Tiers
  <2>4. /\ [req[r].card EXCEPT !.status = patch.status] \in CardSet
        /\ [req[r].card EXCEPT !.tier = patch.tier] \in CardSet
    BY <2>1, <2>3 DEF CardSet
  <2> QED BY <1>4, <2>1, <2>2, <2>3, <2>4
<1> QED BY <1>2, <1>3, <1>5, <1>6 DEF CardApi

-----------------------------------------------------------------------------
(* Purchases *)

LEMMA PendingIsRight ==
  ASSUME NEW tx \in Txs, tx.status \in {"pending", "declined"}, tx.cashback = NoCashback
  PROVE  tx \in Right
BY DEF Right, RightTxs, NoCashback

LEMMA RecordedGoes ==
  ASSUME RightInv, NEW r \in Requests, NEW o \in Owners, NEW tx \in Right, NEW q,
         Recorded(r, o, tx, q), GoodRequest(q, Right, Paid),
         UNCHANGED <<deposits, executed>>
  PROVE  RightInv'
<1>1. GoodWrite(kvListPush(txsOf(o), tx, MaxList), Right)
  BY WritesGood
<1> QED BY <1>1, RequestWrites DEF Recorded

LEMMA StartPurchaseGoes ==
  ASSUME RightInv, NEW r \in Requests, NEW o \in Owners, NEW t \in TxIds,
         NEW amount \in Amounts, StartPurchase(r, o, t, amount)
  PROVE  RightInv'
<1>1. UNCHANGED <<deposits, executed>>
  BY DEF StartPurchase, chain_vars
<1>2. /\ TxOf(t, amount, "declined") \in Right
      /\ TxOf(t, amount, "pending") \in Right
      /\ TxOf(t, amount, "pending").status = "pending"
      /\ TxOf(t, amount, "pending").cashback = NoCashback
  BY PendingIsRight DEF TxOf, Txs, NoCashback
<1>3. CASE Recorded(r, o, TxOf(t, amount, "declined"), IdleReq)
  BY <1>1, <1>2, <1>3, IdleIsGood, RecordedGoes
<1>4. CASE GotoWith(r, [at |-> "checking", owner |-> o, tx |-> TxOf(t, amount, "pending")])
  <2>1. GoodRequest([at |-> "checking", owner |-> o, tx |-> TxOf(t, amount, "pending")],
                    Right, Paid)
    BY <1>2 DEF GoodRequest, Buying
  <2> QED BY <1>1, <1>4, <2>1, RequestReads
<1> QED BY <1>3, <1>4 DEF StartPurchase

LEMMA BuyingGoes ==
  ASSUME RightInv, NEW r \in Requests, CheckFunds(r) \/ SendSettlement(r)
  PROVE  RightInv'
<1>1. UNCHANGED <<deposits, executed>> /\ req[r].at \in Buying
  BY DEF CheckFunds, SendSettlement, chain_vars, At, Buying
<1>2. /\ req[r] \in [at : Buying, owner : Owners, tx : Right]
      /\ req[r].tx.status = "pending" /\ req[r].tx.cashback = NoCashback
  BY <1>1, Locals
<1>3. [req[r].tx EXCEPT !.status = "declined"] \in Right
  <2>1. req[r].tx \in Txs
    BY <1>2 DEF Right, RightTxs
  <2> QED BY <1>2, <2>1, PendingIsRight DEF Txs
<1>4. \A place \in Buying : GoodRequest([req[r] EXCEPT !.at = place], Right, Paid)
  BY <1>2 DEF GoodRequest
<1>5. CASE CheckFunds(r)
  BY <1>1, <1>2, <1>3, <1>4, <1>5, IdleIsGood, RecordedGoes, RequestReads DEF CheckFunds, Buying
<1>6. CASE SendSettlement(r)
  BY <1>1, <1>4, <1>6, RequestReads, RequestAnswers DEF SendSettlement, Buying
<1> QED BY <1>5, <1>6

(* A purchase is settled once the chain executed it. *)
LEMMA SettledIsRight ==
  ASSUME RightInv, NEW r \in Requests, RecordPurchase(r)
  PROVE  [req[r].tx EXCEPT !.status = "settled"] \in Right
<1> DEFINE tx == [req[r].tx EXCEPT !.status = "settled"]
<1>1. /\ req[r] \in [at : Buying, owner : Owners, tx : Right]
      /\ req[r].tx.cashback = NoCashback
  BY Locals DEF RecordPurchase, At, Buying
<1>2. req[r].tx \in Txs /\ Confirmed(tx.id)
  BY <1>1 DEF RecordPurchase, Right, RightTxs
<1>3. tx \in Txs /\ tx.status = "settled" /\ tx.cashback = NoCashback
  BY <1>1, <1>2 DEF Txs
<1>4. tx.id \in Reached
  BY <1>2 DEF Confirmed, Reached
<1>5. NoCashback.status # "sent"
  BY DEF NoCashback
<1>6. tx \in Right
  <2> HIDE DEF tx
  <2> QED BY <1>3, <1>4, <1>5 DEF Right, RightTxs
<1> QED BY <1>6

LEMMA RecordPurchaseGoes ==
  ASSUME RightInv, NEW r \in Requests, RecordPurchase(r)
  PROVE  RightInv'
<1> DEFINE tx == [req[r].tx EXCEPT !.status = "settled"]
           q  == [req[r] EXCEPT !.at = "settled", !.tx = tx]
<1>1. UNCHANGED <<deposits, executed>> /\ req[r].at = "confirming"
  BY DEF RecordPurchase, chain_vars, At
<1>2. req[r] \in [at : Buying, owner : Owners, tx : Right]
  BY <1>1, Locals DEF Buying
<1>3. tx \in Right
  BY SettledIsRight
<1>4. GoodRequest(q, Right, Paid)
  BY <1>2, <1>3 DEF GoodRequest
<1>5. Recorded(r, req[r].owner, tx, q)
  BY DEF RecordPurchase
<1> HIDE DEF tx, q
<1> QED BY <1>1, <1>2, <1>3, <1>4, <1>5, RecordedGoes

(* The cashback it earns is queued: nothing is paid or marked yet. *)
LEMMA CashbackQueued ==
  ASSUME NEW tx \in Right, NEW list, NEW month, NEW tier \in Tiers
  PROVE  [tx EXCEPT !.cashback = Cashback(list, month, tx, tier)] \in Right
<1> DEFINE top  == MonthToDate(list, month) <= Rates[tier].cap
           rate == IF top THEN Rates[tier].top ELSE Rates[tier].base
           usd  == (tx.amount * rate) \div RateUnit
           back == Cashback(list, month, tx, tier)
<1>1. tx \in Txs /\ tx.amount \in Nat
  BY CardsAssumption DEF Right, RightTxs, Txs
<1>2. rate \in Nat /\ RateUnit \in Nat \ {0}
  BY CardsAssumption DEF Tiers
<1>3. usd \in Nat
  <2>1. tx.amount * rate \in Nat
    <3> HIDE DEF rate
    <3> QED BY <1>1, <1>2
  <2> HIDE DEF rate
  <2> QED BY <1>2, <2>1
<1>4. back = [status |-> "queued", usd |-> usd]
  BY DEF Cashback
<1>5. back \in [status : {"none", "queued", "sent", "failed"}, usd : Nat]
      /\ back.status = "queued"
  <2> HIDE DEF usd, top, back
  <2> QED BY <1>3, <1>4
<1> HIDE DEF back
<1>7. /\ [tx EXCEPT !.cashback = back] \in Txs
      /\ [tx EXCEPT !.cashback = back].status = tx.status
      /\ [tx EXCEPT !.cashback = back].id = tx.id
      /\ [tx EXCEPT !.cashback = back].cashback = back
  BY <1>1, <1>5 DEF Txs
<1>8. tx.status = "settled" => tx.id \in Reached
  BY DEF Right, RightTxs
<1>9. [tx EXCEPT !.cashback = back] \in Right
  BY <1>5, <1>7, <1>8 DEF Right, RightTxs
<1> QED BY <1>9 DEF back

LEMMA RewardGoes ==
  ASSUME RightInv, NEW r \in Requests,
         ReadTier(r) \/ QueueCashback(r) \/ SaveQueued(r)
  PROVE  RightInv'
<1>1. UNCHANGED <<deposits, executed>>
  BY DEF ReadTier, QueueCashback, SaveQueued, chain_vars
<1>2. CASE ReadTier(r)
  <2> DEFINE o == req[r].owner
             q == [at |-> "rewarding", owner |-> o, tx |-> req[r].tx,
                   tier |-> kvGet(card(o)).tier]
  <2>1. req[r] \in [at : {"settled"}, owner : Owners, tx : Right]
    BY <1>2, Locals DEF ReadTier, At
  <2>2. kvGet(card(o)) # NoEntry => kvGet(card(o)).tier \in Tiers
    BY <2>1, Reads DEF CardSet
  <2>3. kvGet(card(o)) # NoEntry => GoodRequest(q, Right, Paid)
    BY <2>1, <2>2 DEF GoodRequest
  <2>4. Answer(r) \/ (kvGet(card(o)) # NoEntry /\ GotoWith(r, q))
    BY <1>2 DEF ReadTier
  <2> HIDE DEF q
  <2> QED BY <1>1, <2>3, <2>4, RequestReads, RequestAnswers
<1>3. CASE QueueCashback(r)
  <2>0. PICK month :
          LET list == kvListRead(txsOf(req[r].owner), MaxList)
              tx   == [req[r].tx EXCEPT
                         !.cashback = Cashback(list, month, req[r].tx, req[r].tier)]
          IN  \/ Answer(r)
              \/ GotoWith(r, [at |-> "queueing", owner |-> req[r].owner,
                              list |-> Replaced(list, tx)])
    BY <1>3 DEF QueueCashback
  <2> DEFINE o    == req[r].owner
             list == kvListRead(txsOf(o), MaxList)
             tx   == [req[r].tx EXCEPT !.cashback = Cashback(list, month, req[r].tx, req[r].tier)]
             q    == [at |-> "queueing", owner |-> o, list |-> Replaced(list, tx)]
  <2>1. req[r] \in [at : {"rewarding"}, owner : Owners, tx : Right, tier : Tiers]
    BY <1>3, Locals DEF QueueCashback, At
  <2>2. tx \in Right
    BY <2>1, CashbackQueued
  <2>3. list \in Seq(Right)
    BY <2>1, Reads
  <2>4. GoodRequest(q, Right, Paid)
    <3>1. Replaced(list, tx) \in Seq(Right)
      <4> HIDE DEF list, tx
      <4> QED BY <2>2, <2>3, ReplacedSeq
    <3> HIDE DEF list, tx
    <3> QED BY <2>1, <3>1 DEF GoodRequest
  <2>5. Answer(r) \/ GotoWith(r, q)
    BY <2>0
  <2> HIDE DEF q
  <2> QED BY <1>1, <2>4, <2>5, RequestReads, RequestAnswers
<1>4. CASE SaveQueued(r)
  <2>1. req[r] \in [at : {"queueing"}, owner : Owners, list : Seq(Right)]
    BY <1>4, Locals DEF SaveQueued, At
  <2>2. GoodWrite(kvListWrite(txsOf(req[r].owner), req[r].list), Right)
    BY <2>1, WritesGood
  <2> QED BY <1>1, <1>4, <2>2, IdleIsGood, RequestWrites DEF SaveQueued, Finish
<1> QED BY <1>2, <1>3, <1>4

-----------------------------------------------------------------------------
(* Cashback *)

LEMMA MarkedIsRight ==
  ASSUME RightInv, NEW old \in Right, NEW status \in {"sent", "failed"},
         status = "sent" => old.id \in Paid
  PROVE  LET tx == WithStatus(old, status) IN
         /\ tx \in Right /\ tx.id = old.id /\ tx.status = old.status
         /\ tx.cashback.status = status
<1>1. old \in Txs /\ (old.status = "settled" => old.id \in Reached)
  BY DEF Right, RightTxs
<1>2. [old EXCEPT !.cashback.status = status] \in Txs
  BY <1>1 DEF Txs
<1>3. /\ [old EXCEPT !.cashback.status = status].id = old.id
      /\ [old EXCEPT !.cashback.status = status].status = old.status
      /\ [old EXCEPT !.cashback.status = status].cashback.status = status
  BY <1>1 DEF Txs
<1> QED BY <1>1, <1>2, <1>3 DEF Right, RightTxs, WithStatus

(* The record is marked in the list as it was read. *)
LEMMA MarkedGoes ==
  ASSUME RightInv, NEW r \in Requests, NEW status \in {"sent", "failed"},
         req[r].at \in Paying, status = "sent" => req[r].at = "landed",
         Marked(r, status), UNCHANGED <<deposits, executed>>
  PROVE  RightInv'
<1> DEFINE tx   == WithStatus(req[r].tx, status)
           list == Replaced(req[r].list, tx)
<1>1. /\ req[r] \in [at : Paying, owner : Owners, tx : Right, list : Seq(Right)]
      /\ req[r].at = "landed" => req[r].tx.id \in Paid
  BY Locals
<1>2. tx \in Right
  BY <1>1, MarkedIsRight
<1>3. list \in Seq(Right)
  <2> HIDE DEF tx
  <2> QED BY <1>1, <1>2, ReplacedSeq
<1>4. GoodWrite(kvListWrite(txsOf(req[r].owner), list), Right)
  <2> HIDE DEF list
  <2> QED BY <1>1, <1>3, WritesGood
<1>5. Goto(r, IdleReq) /\ Await(r, kvListWrite(txsOf(req[r].owner), list))
  BY DEF Marked, Finish
<1> HIDE DEF list
<1> QED BY <1>4, <1>5, IdleIsGood, RequestWrites

LEMMA StartCashbackGoes ==
  ASSUME RightInv, NEW r \in Requests, NEW o \in Owners, NEW t \in TxIds,
         StartCashback(r, o, t)
  PROVE  RightInv'
<1> DEFINE list == kvListRead(txsOf(o), MaxList)
           tx   == FindTx(list, t)
           q    == [at |-> "pricing", owner |-> o, tx |-> tx, list |-> list]
<1>1. t \in IdsOf(list) /\ tx.status = "settled" /\ GotoWith(r, q)
      /\ UNCHANGED <<deposits, executed>>
  BY DEF StartCashback, chain_vars
<1>2. list \in Seq(Right)
  BY Reads
<1>3. tx \in Right
  <2> HIDE DEF list
  <2> QED BY <1>1, <1>2, FoundInList
<1>4. GoodRequest(q, Right, Paid)
  <2> HIDE DEF list, tx
  <2> QED BY <1>1, <1>2, <1>3 DEF GoodRequest, Paying
<1> HIDE DEF q
<1> QED BY <1>1, <1>4, RequestReads

LEMMA PriceCashbackGoes ==
  ASSUME RightInv, NEW r \in Requests, PriceCashback(r)
  PROVE  RightInv'
<1>1. /\ req[r].at = "pricing" /\ UNCHANGED <<deposits, executed>>
      /\ \/ Answer(r) \/ Marked(r, "failed")
         \/ GotoWith(r, [req[r] EXCEPT !.at = "depositing"])
  BY DEF PriceCashback, At, chain_vars
<1>2. GoodRequest([req[r] EXCEPT !.at = "depositing"], Right, Paid)
  BY <1>1, Locals DEF GoodRequest, Paying
<1> QED BY <1>1, <1>2, MarkedGoes, RequestAnswers, RequestReads DEF Paying

(* The deposit is made for a purchase whose settlement the chain executed.      *)
LEMMA SendDepositGoes ==
  ASSUME RightInv, NEW r \in Requests, SendDeposit(r)
  PROVE  RightInv'
<1>1. req[r].at = "depositing" /\ executed' = executed
  BY DEF SendDeposit, At
<1>2. CASE Marked(r, "failed") /\ UNCHANGED deposits
  BY <1>1, <1>2, MarkedGoes DEF Paying
<1>3. ASSUME NEW lands \in BOOLEAN,
             GotoWith(r, [req[r] EXCEPT !.at = IF lands THEN "landed" ELSE "dropped"]),
             deposits' = IF lands THEN deposits (+) SetToBag({req[r].tx.id}) ELSE deposits
      PROVE  RightInv'
  <2> DEFINE q == [req[r] EXCEPT !.at = IF lands THEN "landed" ELSE "dropped"]
  <2>1. /\ req[r] \in [at : Paying, owner : Owners, tx : Right, list : Seq(Right)]
        /\ req[r].tx.status = "settled"
    BY <1>1, Locals DEF Paying
  <2>2. Paid' = IF lands THEN Paid \cup {req[r].tx.id} ELSE Paid
    BY <1>3 DEF Paid, BagToSet, SetToBag, (+)
  <2>3. Reached' = Reached /\ req[r].tx.id \in Reached
    BY <1>1, <2>1 DEF Reached, Right, RightTxs
  <2>4. Grow /\ Paid' \subseteq Reached'
    BY <2>2, <2>3 DEF Grow, RightInv
  <2>5. GoodRequest(q, Right', Paid')
    <3>1. Right \subseteq Right'
      BY <2>4, RightGrows
    <3>2. Seq(Right) \subseteq Seq(Right')
      BY <3>1, SeqMonotonic
    <3>3. /\ q \in [at : Paying, owner : Owners, tx : Right', list : Seq(Right')]
          /\ q.tx = req[r].tx /\ (q.at = "landed" => lands)
      BY <2>1, <3>1, <3>2 DEF Paying
    <3> HIDE DEF q
    <3> QED BY <2>1, <2>2, <3>3 DEF GoodRequest
  <2>6. Goto(r, q) /\ UNCHANGED kv_vars
    BY <1>3 DEF GotoWith
  <2> HIDE DEF q
  <2> QED BY <2>4, <2>5, <2>6, RequestGoes
<1> QED BY <1>2, <1>3 DEF SendDeposit

LEMMA MarkGoes ==
  ASSUME RightInv, NEW r \in Requests, MarkSent(r) \/ MarkFailed(r)
  PROVE  RightInv'
<1>1. /\ UNCHANGED <<deposits, executed>> /\ req[r].at \in Paying
      /\ \/ req[r].at = "landed" /\ Marked(r, "sent")
         \/ Marked(r, "failed")
  BY DEF MarkSent, MarkFailed, Landed, At, Paying, chain_vars
<1> QED BY <1>1, MarkedGoes

-----------------------------------------------------------------------------
(* The chain and the wallet *)

LEMMA ChainGoes ==
  ASSUME RightInv,
         \/ \E x \in inflight : ExecuteSettlement(x)
         \/ \E o \in Owners : WalletActs(o)
         \/ UNCHANGED vars
  PROVE  RightInv'
<1>1. UNCHANGED <<store, todo, doc, req, deposits>> /\ executed \subseteq executed'
  BY DEF ExecuteSettlement, WalletActs, vars, kv_vars, chain_vars
<1>2. Paid' = Paid /\ Reached \subseteq Reached'
  BY <1>1 DEF Paid, Reached
<1>3. Grow /\ Paid' \subseteq Reached'
  BY <1>2 DEF Grow, RightInv
<1> QED BY <1>1, <1>3, OthersGo

LEMMA RightStep ==
  ASSUME RightInv, [Next]_vars
  PROVE  RightInv'
<1>1. ASSUME NEW r \in Requests, Purchase(r) PROVE RightInv'
  BY <1>1, StartPurchaseGoes, BuyingGoes, RecordPurchaseGoes, RewardGoes DEF Purchase
<1>2. ASSUME NEW r \in Requests, CashbackJob(r) PROVE RightInv'
  BY <1>2, StartCashbackGoes, PriceCashbackGoes, SendDepositGoes, MarkGoes DEF CashbackJob
<1>3. ASSUME NEW r \in Requests, ConfirmationTimesOut(r) PROVE RightInv'
  BY <1>3, RequestAnswers DEF ConfirmationTimesOut, chain_vars
<1> QED BY <1>1, <1>2, <1>3, CardApiGoes, StopGoes, StoreGoes, ChainGoes DEF Next

(* Whatever requests write over each other: a record that says its cashback was   *)
(* sent is right, and no cashback was paid without a purchase the chain executed. *)
THEOREM CashbackAlwaysBacked == Spec => []CashbackBacked
<1>1. Init => RightInv
  BY RightInit
<1>2. RightInv /\ [Next]_vars => RightInv'
  BY RightStep
<1>3. RightInv => CashbackBacked
  BY RightIsBacked DEF CashbackBacked
<1> QED BY <1>1, <1>2, <1>3, PTL DEF Spec

-----------------------------------------------------------------------------
(* One request at a time: the cashback of a purchase is paid once.             *)
(*                                                                         *)
(* Nobody writes between the reads of a request and its own write, so the store   *)
(* as it will be After that write is what counts: no record in it is payable of   *)
(* which the cashback was paid.  Between the deposit and the write that tells of  *)
(* it, the one record of the request is excepted.                              *)

OneAtATime == (\A r, s \in Requests : r = s) /\ ~Stops

After(r) == IF Settled(r) THEN store ELSE Executed(store, todo[r])

(* Who bought what, as far as the chain was told. *)
Bought == {<<x.id, x.owner>> : x \in inflight \cup executed}

(* The records of S that the list of o may hold, when P was paid, the ids of I     *)
(* were given out and B was bought.                                            *)
OwnTxs(o, P, S, I, B) ==
  {tx \in S : /\ tx.id \in I /\ \A b \in B : b[1] = tx.id => b[2] = o
              /\ tx.status = "settled" /\ Payable(tx.cashback.status) => tx.id \notin P}
Own(o, P) == OwnTxs(o, P, Right, issued, Bought)
Told(q) == IF q.at = "landed" THEN Paid \ {q.tx.id} ELSE Paid

ByOwner(t, o) == t \in issued /\ \A b \in Bought : b[1] = t => b[2] = o

(* What a request may rely on between two awaits, e being the store After it. *)
Knows(q, e) ==
  /\ q.at \in Buying \cup Paying \cup {"settled", "rewarding"} => ByOwner(q.tx.id, q.owner)
  /\ q.at \in Buying \cup {"settled", "rewarding", "pricing", "depositing"} =>
       q.tx.id \notin Paid
  /\ q.at \in Buying =>
       \A o \in Owners : q.tx.id \notin IdsOf(ListOf(e[txsOf(o)]))
  /\ q.at \in Paying \cup {"queueing"} => q.list \in Seq(Own(q.owner, Told(q)))

PaidOnce ==
  /\ \A t \in Paid : deposits[t] = 1
  /\ \A b \in Bought : b[1] \in issued

OnceInv ==
  /\ PaidOnce
  /\ \A r \in Requests :
       /\ doc[r] # NoDoc => Backend = "gist" /\ doc[r] = store
       /\ \A o \in Owners : ListOf(After(r)[txsOf(o)]) \in Seq(Own(o, Told(req[r])))
       /\ Knows(req[r], After(r))

LEMMA OncePaid == OnceInv => CashbackOnce
BY DEF OnceInv, PaidOnce, CashbackOnce, Times, Paid, BagIn

LEMMA OnceInit ==
  ASSUME Init
  PROVE  OnceInv
<1>1. Paid = {} /\ Bought = {}
  BY DEF Init, CardsInit, Paid, Bought, EmptyBag, SetToBag, BagToSet
<1>2. ASSUME NEW r \in Requests
      PROVE  doc[r] = NoDoc /\ req[r].at = "idle" /\ After(r) = [k \in Keys |-> NoEntry]
  BY CardsAssumption DEF Init, KvInit, IdleReq, After, Settled
<1>3. ASSUME NEW r \in Requests, NEW o \in Owners
      PROVE  ListOf(After(r)[txsOf(o)]) \in Seq(Own(o, Told(req[r])))
  <2>1. ListOf(After(r)[txsOf(o)]) = <<>>
    BY <1>2, KeysDiffer DEF ListOf
  <2> QED BY <2>1, EmptySeq
<1>4. ASSUME NEW r \in Requests PROVE Knows(req[r], After(r))
  BY <1>2 DEF Knows, Buying, Paying
<1>5. PaidOnce
  BY <1>1 DEF PaidOnce
<1> QED BY <1>2, <1>3, <1>4, <1>5 DEF OnceInv

-----------------------------------------------------------------------------
(* What a write leaves in the lists *)

LEMMA FeedApplied ==
  ASSUME NEW e, e \in [Keys -> {e[k] : k \in Keys}], NEW c, NEW o \in Owners,
         c.key = txsOf(o)
  PROVE  LET f == Applied(e, c) IN
         /\ f \in [Keys -> {f[k] : k \in Keys}]
         /\ f[txsOf(o)] = Changed(e[txsOf(o)], c)
         /\ \A p \in Owners : p # o => f[txsOf(p)] = e[txsOf(p)]
BY KeysDiffer DEF Applied

LEMMA CardWritten ==
  ASSUME NEW e, e \in [Keys -> {e[k] : k \in Keys}], NEW o \in Owners, NEW v
  PROVE  \A p \in Owners : Executed(e, kvSet(card(o), v))[txsOf(p)] = e[txsOf(p)]
<1> DEFINE c == [cmd |-> "set", key |-> card(o), value |-> v]
<1>1. Executed(e, <<c>>) = Applied(e, c) /\ c.key = card(o)
  BY DEF Executed
<1>2. \A p \in Owners : Applied(e, c)[txsOf(p)] = e[txsOf(p)]
  BY <1>1, KeysDiffer DEF Applied
<1> QED BY <1>1, <1>2 DEF kvSet

LEMMA PushWritten ==
  ASSUME NEW e, e \in [Keys -> {e[k] : k \in Keys}], NEW o \in Owners,
         NEW S, NEW tx \in S, ListOf(e[txsOf(o)]) \in Seq(S)
  PROVE  LET f == Executed(e, kvListPush(txsOf(o), tx, MaxList)) IN
         /\ ListOf(f[txsOf(o)]) \in Seq(S)
         /\ \A p \in Owners : p # o => f[txsOf(p)] = e[txsOf(p)]
<1> DEFINE c == [cmd |-> "lpush", key |-> txsOf(o), element |-> tx]
           d == [cmd |-> "ltrim", key |-> txsOf(o), keep |-> MaxList]
           g == Applied(e, c)
           f == Applied(g, d)
<1>1. FeedCommand(c, o, S) /\ FeedCommand(d, o, S)
  BY DEF FeedCommand
<1>2. Executed(e, kvListPush(txsOf(o), tx, MaxList)) = f
  BY DEF Executed, kvListPush
<1> HIDE DEF c, d
<1>3. /\ g \in [Keys -> {g[k] : k \in Keys}]
      /\ g[txsOf(o)] = Changed(e[txsOf(o)], c)
      /\ \A p \in Owners : p # o => g[txsOf(p)] = e[txsOf(p)]
  BY <1>1, FeedApplied DEF FeedCommand
<1>4. ListOf(g[txsOf(o)]) \in Seq(S)
  BY <1>1, <1>3, ChangedList
<1> HIDE DEF g
<1>5. /\ f[txsOf(o)] = Changed(g[txsOf(o)], d)
      /\ \A p \in Owners : p # o => f[txsOf(p)] = g[txsOf(p)]
  BY <1>1, <1>3, FeedApplied DEF FeedCommand
<1>6. ListOf(f[txsOf(o)]) \in Seq(S)
  BY <1>1, <1>4, <1>5, ChangedList
<1> HIDE DEF f
<1> QED BY <1>2, <1>3, <1>5, <1>6

(* A list is written whole: what was there before does not matter. *)
LEMMA ListWritten ==
  ASSUME NEW e, e \in [Keys -> {e[k] : k \in Keys}], NEW o \in Owners,
         NEW S, NEW list \in Seq(S)
  PROVE  LET f == Executed(e, kvListWrite(txsOf(o), list)) IN
         /\ ListOf(f[txsOf(o)]) \in Seq(S)
         /\ \A p \in Owners : p # o => f[txsOf(p)] = e[txsOf(p)]
<1> DEFINE c == [cmd |-> "del", key |-> txsOf(o)]
           d == [cmd |-> "rpush", key |-> txsOf(o), elements |-> list]
           g == Applied(e, c)
           f == Applied(g, d)
<1>1. FeedCommand(d, o, S) /\ c.key = txsOf(o) /\ \A entry : Changed(entry, c) = NoEntry
  BY DEF FeedCommand, Changed
<1>2. \/ kvListWrite(txsOf(o), list) = <<c>>
      \/ kvListWrite(txsOf(o), list) = <<c, d>>
  BY ListWriteIs
<1>3. Executed(e, <<c>>) = g /\ Executed(e, <<c, d>>) = f
  BY DEF Executed
<1> HIDE DEF c, d
<1>4. /\ g \in [Keys -> {g[k] : k \in Keys}]
      /\ g[txsOf(o)] = NoEntry
      /\ \A p \in Owners : p # o => g[txsOf(p)] = e[txsOf(p)]
  BY <1>1, FeedApplied
<1>5. ListOf(g[txsOf(o)]) \in Seq(S)
  BY <1>4, EmptySeq DEF ListOf
<1> HIDE DEF g
<1>6. /\ f[txsOf(o)] = Changed(g[txsOf(o)], d)
      /\ \A p \in Owners : p # o => f[txsOf(p)] = g[txsOf(p)]
  BY <1>1, <1>4, FeedApplied DEF FeedCommand
<1>7. ListOf(f[txsOf(o)]) \in Seq(S)
  BY <1>1, <1>5, <1>6, ChangedList
<1> HIDE DEF f
<1> QED BY <1>2, <1>3, <1>4, <1>5, <1>6, <1>7

-----------------------------------------------------------------------------
(* Steps, one request at a time *)

Rests == UNCHANGED <<issued, chain_vars>>

LEMMA FactsRest ==
  ASSUME RightInv, Rests
  PROVE  /\ Paid' = Paid /\ Right' = Right /\ Bought' = Bought /\ issued' = issued
         /\ deposits' = deposits /\ (PaidOnce => PaidOnce')
<1>1. UNCHANGED <<issued, inflight, executed, deposits>>
  BY DEF Rests, chain_vars
<1>2. Paid' = Paid /\ Right' = Right /\ Bought' = Bought
  BY <1>1, ChainRests DEF Bought
<1> QED BY <1>1, <1>2 DEF PaidOnce

LEMMA OnceGoes ==
  ASSUME OneAtATime, OnceInv, RightInv, NEW r \in Requests, NEW q, NEW e,
         Goto(r, q), store' = store, doc' = doc, After(r)' = e, PaidOnce',
         \A o \in Owners : ListOf(e[txsOf(o)]) \in Seq(Own(o, Told(q)))',
         Knows(q, e)'
  PROVE  OnceInv'
<1>1. \A s \in Requests : s = r
  BY DEF OneAtATime
<1>2. req'[r] = q
  BY DEF Goto, RightInv, Shapes
<1>3. doc'[r] # NoDoc => Backend = "gist" /\ doc'[r] = store'
  BY DEF OnceInv
<1>4. \A o \in Owners : ListOf(After(r)[txsOf(o)])' \in Seq(Own(o, Told(req[r])))'
  BY <1>2 DEF Own, Told
<1>5. Knows(req[r], After(r))'
  BY <1>2 DEF Knows, ByOwner, Own, Told
<1> QED BY <1>1, <1>3, <1>4, <1>5 DEF OnceInv

(* What is known between two awaits. *)
LEMMA AtRest ==
  ASSUME OnceInv, NEW r \in Requests, Settled(r)
  PROVE  /\ After(r) = store /\ Knows(req[r], store)
         /\ \A o \in Owners : ListOf(store[txsOf(o)]) \in Seq(Own(o, Told(req[r])))
BY DEF OnceInv, After

LEMMA ReadsOnce ==
  ASSUME OneAtATime, RightInv, OnceInv, NEW r \in Requests, NEW q, GotoWith(r, q), Rests,
         Settled(r), req[r].at # "landed", q.at # "landed", Knows(q, store)
  PROVE  OnceInv'
<1> SUFFICES ASSUME NEW e, e = store PROVE OnceInv'
  OBVIOUS
<1>1. /\ Paid' = Paid /\ Right' = Right /\ Bought' = Bought /\ issued' = issued
      /\ PaidOnce'
  BY FactsRest DEF OnceInv
<1>2. /\ store' = store /\ todo' = todo /\ doc' = doc /\ Goto(r, q)
      /\ After(r)' = e
  BY DEF GotoWith, kv_vars, After, Settled
<1>3. \A o \in Owners : ListOf(e[txsOf(o)]) \in Seq(Own(o, Told(q)))'
  BY <1>1, AtRest DEF Own, Told
<1>4. Knows(q, e)'
  BY <1>1 DEF Knows, ByOwner, Own, Told
<1> QED BY <1>1, <1>2, <1>3, <1>4, OnceGoes

LEMMA IdleKnows == \A e : Knows(IdleReq, e) /\ IdleReq.at = "idle"
BY DEF Knows, IdleReq, Buying, Paying

LEMMA AnswersOnce ==
  ASSUME OneAtATime, RightInv, OnceInv, NEW r \in Requests, Answer(r), Rests,
         Settled(r), req[r].at # "landed"
  PROVE  OnceInv'
BY IdleKnows, ReadsOnce DEF Answer

LEMMA WritesOnce ==
  ASSUME OneAtATime, RightInv, OnceInv, NEW r \in Requests, NEW q, NEW t,
         Goto(r, q), Await(r, t), t # <<>>, Rests, q.at # "landed",
         \A o \in Owners : ListOf(Executed(store, t)[txsOf(o)]) \in Seq(Own(o, Paid)),
         Knows(q, Executed(store, t))
  PROVE  OnceInv'
<1> SUFFICES ASSUME NEW e, e = Executed(store, t) PROVE OnceInv'
  OBVIOUS
<1>1. /\ Paid' = Paid /\ Right' = Right /\ Bought' = Bought /\ issued' = issued
      /\ PaidOnce'
  BY FactsRest DEF OnceInv
<1>2. /\ store' = store /\ doc' = doc /\ todo'[r] = t
      /\ After(r)' = e
  BY DEF Await, After, Settled, RightInv, Shapes
<1>3. \A o \in Owners : ListOf(e[txsOf(o)]) \in Seq(Own(o, Told(q)))'
  BY <1>1 DEF Own, Told
<1>4. Knows(q, e)'
  BY <1>1 DEF Knows, ByOwner, Own, Told
<1> QED BY <1>1, <1>2, <1>3, <1>4, OnceGoes

(* The commands of the one write under way lead to the store After it. *)
LEMMA AfterStays ==
  ASSUME RightInv, OnceInv, NEW r \in Requests, KvStep(r)
  PROVE  After(r)' = After(r) /\ (doc'[r] # NoDoc => Backend = "gist" /\ doc'[r] = store')
<1>1. GoodWrite(todo[r], Right) /\ Shapes
  BY DEF RightInv, GoodWrites
<1>2. doc[r] # NoDoc => Backend = "gist" /\ doc[r] = store
  BY DEF OnceInv
<1>3. CASE RedisCommand(r)
  <2>1. /\ todo[r] # <<>> /\ store' = Applied(store, Head(todo[r]))
        /\ todo'[r] = Tail(todo[r]) /\ doc' = doc /\ doc[r] = NoDoc
    BY <1>1, <1>2, <1>3 DEF RedisCommand, Settled, Shapes
  <2>2. CASE \E c : todo[r] = <<c>>
    BY <2>1, <2>2 DEF After, Settled, Executed
  <2>3. CASE \E c, d : todo[r] = <<c, d>>
    BY <2>1, <2>3 DEF After, Settled, Executed
  <2> QED BY <1>1, <2>1, <2>2, <2>3 DEF GoodWrite
<1>4. CASE GistLoad(r)
  BY <1>1, <1>4 DEF GistLoad, After, Settled, Shapes
<1>5. CASE GistSave(r)
  BY <1>1, <1>2, <1>5 DEF GistSave, After, Settled, Shapes
<1> QED BY <1>3, <1>4, <1>5 DEF KvStep

LEMMA StoreOnce ==
  ASSUME OneAtATime, RightInv, OnceInv, NEW r \in Requests, StoreActs(r)
  PROVE  OnceInv'
<1>1. Rests /\ req' = req /\ KvStep(r)
  BY DEF StoreActs, Rests
<1>2. /\ Paid' = Paid /\ Right' = Right /\ Bought' = Bought /\ issued' = issued
      /\ PaidOnce'
  BY <1>1, FactsRest DEF OnceInv
<1>3. \A s \in Requests : s = r
  BY DEF OneAtATime
<1>4. After(r)' = After(r) /\ (doc'[r] # NoDoc => Backend = "gist" /\ doc'[r] = store')
  BY <1>1, AfterStays
<1>5. \A o \in Owners : (ListOf(After(r)[txsOf(o)]) \in Seq(Own(o, Told(req[r]))))'
  BY <1>1, <1>2, <1>4 DEF OnceInv, Own, Told
<1>6. Knows(req[r], After(r))'
  <2>1. Knows(req[r], After(r))
    BY DEF OnceInv
  <2> QED BY <1>1, <1>2, <1>4, <2>1 DEF Knows, ByOwner, Own, Told
<1> QED BY <1>2, <1>3, <1>4, <1>5, <1>6 DEF OnceInv

(* Nothing of the server moves, and what was right or bought stays so. *)
LEMMA ChainOnce ==
  ASSUME RightInv, OnceInv,
         \/ \E x \in inflight : ExecuteSettlement(x)
         \/ \E o \in Owners : WalletActs(o)
         \/ UNCHANGED vars
  PROVE  OnceInv'
<1>1. /\ UNCHANGED <<store, todo, doc, req, issued, deposits>> /\ Paid' = Paid
      /\ executed \subseteq executed'
  BY DEF ExecuteSettlement, WalletActs, vars, kv_vars, chain_vars, Paid
<1>2. Bought' = Bought
  <2>1. ASSUME NEW x \in inflight, ExecuteSettlement(x) PROVE Bought' = Bought
    <3>1. PICK y : /\ y.id = x.id /\ y.owner = x.owner
                   /\ inflight' = inflight \ {x} /\ executed' = executed \cup {y}
      BY <2>1 DEF ExecuteSettlement
    <3> QED BY <3>1 DEF Bought
  <2>2. CASE UNCHANGED <<inflight, executed>>
    BY <2>2 DEF Bought
  <2> QED BY <2>1, <2>2 DEF WalletActs, vars, chain_vars
<1>3. Right \subseteq Right'
  BY <1>1, RightGrows DEF Grow, Reached
<1>4. \A o, P : OwnTxs(o, P, Right, issued, Bought) \subseteq OwnTxs(o, P, Right', issued', Bought')
  BY <1>1, <1>2, <1>3 DEF OwnTxs
<1>5. ASSUME NEW o, NEW P, NEW list \in Seq(OwnTxs(o, P, Right, issued, Bought))
      PROVE  list \in Seq(OwnTxs(o, P, Right', issued', Bought'))
  BY <1>4, SeqMonotonic
<1>6. ASSUME NEW r \in Requests
      PROVE  /\ After(r)' = After(r) /\ Told(req[r])' = Told(req[r])
             /\ Knows(req[r], After(r))'
  <2>1. After(r)' = After(r) /\ Told(req[r])' = Told(req[r])
    BY <1>1 DEF After, Settled, Told
  <2>2. Knows(req[r], After(r))
    BY DEF OnceInv
  <2> QED BY <1>1, <1>2, <1>5, <2>1, <2>2 DEF Knows, ByOwner, Own
<1>7. ASSUME NEW r \in Requests, NEW o \in Owners
      PROVE  (ListOf(After(r)[txsOf(o)]) \in Seq(Own(o, Told(req[r]))))'
  BY <1>5, <1>6 DEF OnceInv, Own
<1>8. PaidOnce'
  BY <1>1, <1>2 DEF OnceInv, PaidOnce
<1> QED BY <1>1, <1>6, <1>7, <1>8 DEF OnceInv

-----------------------------------------------------------------------------
(* The card routes, one request at a time *)

LEMMA CardApiOnce ==
  ASSUME OneAtATime, RightInv, OnceInv, NEW r \in Requests, CardApi(r)
  PROVE  OnceInv'
<1>1. Rests /\ Settled(r) /\ req[r].at \in {"idle", "creating", "patching"}
  BY DEF CardApi, CreateCard, PatchCard, SaveNewCard, SavePatchedCard, At, Rests
<1>2. ASSUME NEW q, GotoWith(r, q), q.at \in {"creating", "patching"} PROVE OnceInv'
  <2>1. Knows(q, store)
    BY <1>2 DEF Knows, Buying, Paying
  <2> QED BY <1>1, <1>2, <2>1, ReadsOnce
<1>3. ASSUME NEW o \in Owners, NEW v, Finish(r, kvSet(card(o), v)) PROVE OnceInv'
  <2>1. kvSet(card(o), v) # <<>>
    BY DEF kvSet
  <2>2. \A p \in Owners : Executed(store, kvSet(card(o), v))[txsOf(p)] = store[txsOf(p)]
    BY CardWritten DEF RightInv, GoodEntries
  <2>3. \A p \in Owners : ListOf(store[txsOf(p)]) \in Seq(Own(p, Paid))
    BY <1>1, AtRest DEF Told
  <2> QED BY <1>1, <1>3, <2>1, <2>2, <2>3, IdleKnows, WritesOnce DEF Finish
<1>4. req[r].at # "idle" => req[r].owner \in Owners
  BY <1>1, Locals
<1>5. CASE \E o \in Owners : CreateCard(r, o) \/ PatchCard(r, o)
  BY <1>2, <1>5 DEF CreateCard, PatchCard
<1>6. CASE SaveNewCard(r) \/ SavePatchedCard(r)
  <2>1. req[r].owner \in Owners
    BY <1>4, <1>6 DEF SaveNewCard, SavePatchedCard, At
  <2> QED BY <1>3, <1>6, <2>1 DEF SaveNewCard, SavePatchedCard
<1> QED BY <1>5, <1>6 DEF CardApi

(* A purchase is put on the list of its owner. *)
LEMMA RecordedOnce ==
  ASSUME OneAtATime, RightInv, OnceInv, NEW r \in Requests, NEW o \in Owners,
         NEW tx \in Own(o, Paid), NEW q, Settled(r), req[r].at # "landed",
         Recorded(r, o, tx, q), Rests, q.at \in {"idle", "settled"},
         q.at = "settled" => ByOwner(q.tx.id, q.owner) /\ q.tx.id \notin Paid
  PROVE  OnceInv'
<1> DEFINE t == kvListPush(txsOf(o), tx, MaxList)
<1>1. \A p \in Owners : ListOf(store[txsOf(p)]) \in Seq(Own(p, Paid))
  BY AtRest DEF Told
<1>2. \A p \in Owners : ListOf(Executed(store, t)[txsOf(p)]) \in Seq(Own(p, Paid))
  <2>1. store \in [Keys -> {store[k] : k \in Keys}]
    BY DEF RightInv, GoodEntries
  <2>2. /\ ListOf(Executed(store, t)[txsOf(o)]) \in Seq(Own(o, Paid))
        /\ \A p \in Owners : p # o => Executed(store, t)[txsOf(p)] = store[txsOf(p)]
    BY <1>1, <2>1, PushWritten
  <2> QED BY <1>1, <2>2
<1>3. Goto(r, q) /\ Await(r, t) /\ t # <<>>
  BY DEF Recorded, kvListPush
<1>4. Knows(q, Executed(store, t))
  BY DEF Knows, Buying, Paying
<1> HIDE DEF t
<1> QED BY <1>2, <1>3, <1>4, WritesOnce

(* What a request reads of a list. *)
LEMMA OwnRead ==
  ASSUME OnceInv, NEW r \in Requests, Settled(r), req[r].at # "landed", NEW o \in Owners
  PROVE  kvListRead(txsOf(o), MaxList) \in Seq(Own(o, Paid))
<1>1. ListOf(store[txsOf(o)]) \in Seq(Own(o, Paid))
  BY AtRest DEF Told
<1> QED BY <1>1, CardsAssumption, FirstOfSeq DEF kvListRead

(* A list is written whole. *)
LEMMA ListSavedOnce ==
  ASSUME OneAtATime, RightInv, OnceInv, NEW r \in Requests, NEW o \in Owners,
         NEW list \in Seq(Own(o, Paid)), Finish(r, kvListWrite(txsOf(o), list)), Rests,
         \A p \in Owners : p # o => ListOf(store[txsOf(p)]) \in Seq(Own(p, Paid))
  PROVE  OnceInv'
<1> DEFINE t == kvListWrite(txsOf(o), list)
<1>1. store \in [Keys -> {store[k] : k \in Keys}]
  BY DEF RightInv, GoodEntries
<1>2. \A p \in Owners : ListOf(Executed(store, t)[txsOf(p)]) \in Seq(Own(p, Paid))
  <2>1. /\ ListOf(Executed(store, t)[txsOf(o)]) \in Seq(Own(o, Paid))
        /\ \A p \in Owners : p # o => Executed(store, t)[txsOf(p)] = store[txsOf(p)]
    BY <1>1, ListWritten
  <2> QED BY <2>1
<1>3. t # <<>>
  <2> DEFINE c == [cmd |-> "del", key |-> txsOf(o)]
             d == [cmd |-> "rpush", key |-> txsOf(o), elements |-> list]
  <2>1. t = <<c>> \/ t = <<c, d>>
    BY ListWriteIs
  <2>2. <<c>> # <<>> /\ <<c, d>> # <<>>
    OBVIOUS
  <2> HIDE DEF c, d, t
  <2> QED BY <2>1, <2>2
<1>4. Goto(r, IdleReq) /\ Await(r, t)
  BY DEF Finish
<1> HIDE DEF t
<1> QED BY <1>2, <1>3, <1>4, IdleKnows, WritesOnce

-----------------------------------------------------------------------------
(* Purchases, one request at a time *)

(* An id that is given out was never bought, paid or recorded before. *)
LEMMA NewId ==
  ASSUME RightInv, OnceInv, NEW r \in Requests, Settled(r), req[r].at # "landed",
         NEW t, t \notin issued
  PROVE  /\ t \notin Paid /\ \A b \in Bought : b[1] # t
         /\ \A o \in Owners : t \notin IdsOf(ListOf(store[txsOf(o)]))
<1>1. \A b \in Bought : b[1] \in issued
  BY DEF OnceInv, PaidOnce
<1>2. t \notin Paid
  <2> SUFFICES ASSUME t \in Paid PROVE FALSE
    OBVIOUS
  <2>1. PICK x \in executed : x.id = t
    BY DEF RightInv, Reached
  <2>2. <<x.id, x.owner>> \in Bought
    BY DEF Bought
  <2> QED BY <1>1, <2>1, <2>2
<1>3. ASSUME NEW o \in Owners PROVE t \notin IdsOf(ListOf(store[txsOf(o)]))
  <2> DEFINE list == ListOf(store[txsOf(o)])
  <2>1. list \in Seq(Own(o, Paid))
    BY AtRest DEF Told
  <2>2. \A i \in DOMAIN list : list[i].id \in issued
    <3> HIDE DEF list
    <3>1. \A i \in DOMAIN list : list[i] \in Own(o, Paid)
      BY <2>1, LenProperties, ElementOfSeq
    <3> QED BY <3>1 DEF Own, OwnTxs
  <2> QED BY <2>2 DEF IdsOf
<1> QED BY <1>1, <1>2, <1>3

LEMMA StartPurchaseOnce ==
  ASSUME OneAtATime, RightInv, OnceInv, NEW r \in Requests, NEW o \in Owners,
         NEW t \in TxIds, NEW amount \in Amounts, StartPurchase(r, o, t, amount)
  PROVE  OnceInv'
<1>1. /\ Settled(r) /\ req[r].at = "idle" /\ t \notin issued /\ issued' = issued \cup {t}
      /\ UNCHANGED <<inflight, executed, deposits>>
  BY DEF StartPurchase, At, chain_vars
<1>2. Paid' = Paid /\ Right' = Right /\ Bought' = Bought
  BY <1>1, ChainRests DEF Bought
<1>3. /\ t \notin Paid /\ \A b \in Bought : b[1] # t
      /\ \A p \in Owners : t \notin IdsOf(ListOf(store[txsOf(p)]))
  BY <1>1, NewId
<1>4. PaidOnce'
  BY <1>1, <1>2 DEF OnceInv, PaidOnce
<1>5. \A p \in Owners : ListOf(store[txsOf(p)]) \in Seq(Own(p, Paid))'
  <2> SUFFICES ASSUME NEW p \in Owners, NEW list, list = ListOf(store[txsOf(p)])
               PROVE  list \in Seq(Own(p, Paid))'
    OBVIOUS
  <2>1. list \in Seq(OwnTxs(p, Paid, Right, issued, Bought))
    BY <1>1, AtRest DEF Told, Own
  <2>2. OwnTxs(p, Paid, Right, issued, Bought) \subseteq OwnTxs(p, Paid, Right, issued', Bought)
    BY <1>1 DEF OwnTxs
  <2>3. list \in Seq(OwnTxs(p, Paid, Right, issued', Bought))
    BY <2>1, <2>2, SeqMonotonic
  <2> QED BY <1>2, <2>3 DEF Own
<1>6. CASE Recorded(r, o, TxOf(t, amount, "declined"), IdleReq)
  <2> DEFINE tx == TxOf(t, amount, "declined")
             w  == kvListPush(txsOf(o), tx, MaxList)
  <2>1. tx \in Right /\ tx.id = t /\ tx.status # "settled"
    <3>1. tx \in Txs /\ tx.status = "declined" /\ tx.id = t /\ tx.cashback = NoCashback
      BY DEF TxOf, Txs, NoCashback
    <3> HIDE DEF tx
    <3> QED BY <3>1, PendingIsRight
  <2> HIDE DEF tx
  <2>2. tx \in OwnTxs(o, Paid', Right', issued', Bought')
    BY <1>1, <1>2, <1>3, <2>1 DEF OwnTxs
  <2> SUFFICES ASSUME NEW e, e = Executed(store, w) PROVE OnceInv'
    OBVIOUS
  <2>3. \A p \in Owners : ListOf(e[txsOf(p)]) \in Seq(Own(p, Paid))'
    <3>1. store \in [Keys -> {store[k] : k \in Keys}]
      BY DEF RightInv, GoodEntries
    <3>2. ListOf(store[txsOf(o)]) \in Seq(OwnTxs(o, Paid', Right', issued', Bought'))
      BY <1>5 DEF Own
    <3>3. /\ ListOf(e[txsOf(o)]) \in Seq(OwnTxs(o, Paid', Right', issued', Bought'))
          /\ \A p \in Owners : p # o => e[txsOf(p)] = store[txsOf(p)]
      BY <2>2, <3>1, <3>2, PushWritten
    <3> QED BY <1>5, <3>3 DEF Own
  <2>4. /\ Goto(r, IdleReq) /\ store' = store /\ doc' = doc
        /\ todo' = [todo EXCEPT ![r] = w] /\ w # <<>>
    BY <1>6 DEF Recorded, Await, kvListPush, tx
  <2>5. After(r)' = e
    BY <2>4 DEF After, Settled, RightInv, Shapes
  <2>6. IdleReq.at # "landed" /\ Knows(IdleReq, e)'
    BY DEF Knows, IdleReq, Buying, Paying
  <2> HIDE DEF w
  <2> QED BY <1>4, <2>3, <2>4, <2>5, <2>6, OnceGoes DEF Told
<1>7. CASE GotoWith(r, [at |-> "checking", owner |-> o, tx |-> TxOf(t, amount, "pending")])
  <2> DEFINE q == [at |-> "checking", owner |-> o, tx |-> TxOf(t, amount, "pending")]
  <2> SUFFICES ASSUME NEW e, e = store PROVE OnceInv'
    OBVIOUS
  <2>1. q.at = "checking" /\ q.owner = o /\ q.tx.id = t
    BY DEF TxOf
  <2>2. Goto(r, q) /\ store' = store /\ doc' = doc /\ todo' = todo
    BY <1>7 DEF GotoWith, kv_vars
  <2> HIDE DEF q
  <2>3. After(r)' = e
    BY <1>1, <2>2 DEF After, Settled
  <2>4. Knows(q, e)'
    BY <1>1, <1>2, <1>3, <2>1 DEF Knows, ByOwner, Buying, Paying
  <2>5. Told(q)' = Paid'
    BY <2>1 DEF Told
  <2>6. \A p \in Owners : ListOf(e[txsOf(p)]) \in Seq(Own(p, Told(q)))'
    BY <1>5, <2>5 DEF Own
  <2> QED BY <1>4, <2>2, <2>3, <2>4, <2>6, OnceGoes
<1> QED BY <1>6, <1>7 DEF StartPurchase

LEMMA CheckFundsOnce ==
  ASSUME OneAtATime, RightInv, OnceInv, NEW r \in Requests, CheckFunds(r)
  PROVE  OnceInv'
<1>1. /\ Settled(r) /\ req[r].at = "checking" /\ Rests
  BY DEF CheckFunds, At, Rests
<1>2. /\ req[r] \in [at : Buying, owner : Owners, tx : Right]
      /\ req[r].tx.status = "pending" /\ req[r].tx.cashback = NoCashback
  BY <1>1, Locals DEF Buying
<1>3. Knows(req[r], store)
  BY <1>1, AtRest
<1>4. CASE Recorded(r, req[r].owner, [req[r].tx EXCEPT !.status = "declined"], IdleReq)
  <2> DEFINE tx == [req[r].tx EXCEPT !.status = "declined"]
  <2>1. req[r].tx \in Txs
    BY <1>2 DEF Right, RightTxs
  <2>2. /\ tx \in Txs /\ tx.status = "declined" /\ tx.cashback = NoCashback
        /\ tx.id = req[r].tx.id
    BY <1>2, <2>1 DEF Txs
  <2> HIDE DEF tx
  <2>3. tx \in Own(req[r].owner, Paid)
    BY <1>1, <1>3, <2>2, PendingIsRight DEF Own, OwnTxs, Knows, ByOwner, Buying
  <2>4. IdleReq.at = "idle"
    BY DEF IdleReq
  <2> QED BY <1>1, <1>2, <1>4, <2>3, <2>4, RecordedOnce DEF tx
<1>5. CASE GotoWith(r, [req[r] EXCEPT !.at = "sending"])
  <2> DEFINE q == [req[r] EXCEPT !.at = "sending"]
  <2>1. q.at = "sending" /\ q.owner = req[r].owner /\ q.tx = req[r].tx
    BY <1>2
  <2> HIDE DEF q
  <2>2. Knows(q, store)
    BY <1>1, <1>3, <2>1 DEF Knows, Buying, Paying
  <2> QED BY <1>1, <1>5, <2>1, <2>2, ReadsOnce DEF q
<1> QED BY <1>4, <1>5 DEF CheckFunds

(* The chain is told who buys: nobody's list has the purchase yet. *)
LEMMA SendSettlementOnce ==
  ASSUME OneAtATime, RightInv, OnceInv, NEW r \in Requests, SendSettlement(r)
  PROVE  OnceInv'
<1> SUFFICES ASSUME NEW o, o = req[r].owner, NEW t, t = req[r].tx.id,
                    NEW q, q = [req[r] EXCEPT !.at = "confirming"]
             PROVE  OnceInv'
  OBVIOUS
<1>1. /\ Settled(r) /\ req[r].at = "sending"
      /\ UNCHANGED <<issued, executed, deposits, balance, allowance>>
  BY DEF SendSettlement, At
<1>2. req[r] \in [at : Buying, owner : Owners, tx : Right]
  BY <1>1, Locals DEF Buying
<1>3. Knows(req[r], store)
  BY <1>1, AtRest
<1>4. CASE Answer(r) /\ UNCHANGED inflight
  BY <1>1, <1>4, AnswersOnce DEF Rests, chain_vars
<1>5. CASE /\ inflight' = inflight \cup {[id |-> t, owner |-> o, amount |-> req[r].tx.amount]}
           /\ GotoWith(r, q)
  <2>1. Paid' = Paid /\ Right' = Right /\ issued' = issued /\ deposits' = deposits
    BY <1>1, ChainRests
  <2>2. Bought' = Bought \cup {<<t, o>>}
    <3> DEFINE x == [id |-> t, owner |-> o, amount |-> req[r].tx.amount]
    <3>1. x.id = t /\ x.owner = o /\ inflight' = inflight \cup {x} /\ executed' = executed
      BY <1>1, <1>5
    <3> HIDE DEF x
    <3> QED BY <3>1 DEF Bought
  <2>3. q.at = "confirming" /\ q.owner = o /\ q.tx.id = t
    BY <1>2
  <2>4. t \in issued /\ t \notin Paid /\ (\A b \in Bought : b[1] = t => b[2] = o)
        /\ \A p \in Owners : t \notin IdsOf(ListOf(store[txsOf(p)]))
    BY <1>1, <1>3 DEF Knows, ByOwner, Buying
  <2> SUFFICES ASSUME NEW e, e = store PROVE OnceInv'
    OBVIOUS
  <2>5. PaidOnce'
    BY <2>1, <2>2, <2>4 DEF OnceInv, PaidOnce
  <2>6. Goto(r, q) /\ store' = store /\ doc' = doc /\ todo' = todo /\ After(r)' = e
    BY <1>1, <1>5 DEF GotoWith, kv_vars, After, Settled
  <2>7. Knows(q, e)'
    BY <2>1, <2>2, <2>3, <2>4 DEF Knows, ByOwner, Buying, Paying
  <2>8. ASSUME NEW p \in Owners
        PROVE  ListOf(e[txsOf(p)]) \in Seq(Own(p, Told(q)))'
    <3> DEFINE list == ListOf(e[txsOf(p)])
    <3>1. list \in Seq(Own(p, Paid)) /\ t \notin IdsOf(list)
      BY <1>1, <2>4, AtRest DEF Told
    <3> HIDE DEF list
    <3>2. /\ DOMAIN list = 1 .. Len(list) /\ Len(list) \in Nat
          /\ \A i \in DOMAIN list : list[i] \in Own(p, Paid) /\ list[i].id # t
      BY <3>1, LenProperties, ElementOfSeq DEF IdsOf
    <3>3. \A i \in DOMAIN list : list[i] \in OwnTxs(p, Paid', Right', issued', Bought')
      BY <2>1, <2>2, <3>2 DEF Own, OwnTxs
    <3>4. list = [i \in 1 .. Len(list) |-> list[i]]
      BY <3>1, <3>2
    <3>5. list \in Seq(OwnTxs(p, Paid', Right', issued', Bought'))
      BY <3>2, <3>3, <3>4, IsASeq
    <3> QED BY <2>3, <3>5 DEF Own, Told, list
  <2> QED BY <2>5, <2>6, <2>7, <2>8, OnceGoes
<1> QED BY <1>4, <1>5 DEF SendSettlement

LEMMA RecordPurchaseOnce ==
  ASSUME OneAtATime, RightInv, OnceInv, NEW r \in Requests, RecordPurchase(r)
  PROVE  OnceInv'
<1> DEFINE tx == [req[r].tx EXCEPT !.status = "settled"]
           q  == [req[r] EXCEPT !.at = "settled", !.tx = tx]
<1>1. Settled(r) /\ req[r].at = "confirming" /\ Rests /\ Recorded(r, req[r].owner, tx, q)
  BY DEF RecordPurchase, At, Rests
<1>2. /\ req[r] \in [at : Buying, owner : Owners, tx : Right]
      /\ req[r].tx.cashback = NoCashback
  BY <1>1, Locals DEF Buying
<1>3. Knows(req[r], store)
  BY <1>1, AtRest
<1>4. tx \in Right /\ tx.id = req[r].tx.id /\ tx.cashback = NoCashback
  <2>1. req[r].tx \in Txs
    BY <1>2 DEF Right, RightTxs
  <2> QED BY <1>2, <2>1, SettledIsRight DEF Txs
<1>5. q.at = "settled" /\ q.owner = req[r].owner /\ q.tx = tx
  BY <1>2
<1> HIDE DEF tx, q
<1>6. tx \in Own(req[r].owner, Paid)
  BY <1>1, <1>3, <1>4 DEF Own, OwnTxs, Knows, ByOwner, Buying, Payable, NoCashback
<1>7. ByOwner(q.tx.id, q.owner) /\ q.tx.id \notin Paid
  BY <1>1, <1>3, <1>4, <1>5 DEF Knows, Buying
<1> QED BY <1>1, <1>2, <1>5, <1>6, <1>7, RecordedOnce

(* The record with its cashback queued replaces the one that was pushed. *)
LEMMA RewardOnce ==
  ASSUME OneAtATime, RightInv, OnceInv, NEW r \in Requests,
         ReadTier(r) \/ QueueCashback(r) \/ SaveQueued(r)
  PROVE  OnceInv'
<1>1. /\ Settled(r) /\ Rests /\ req[r].at \in {"settled", "rewarding", "queueing"}
  BY DEF ReadTier, QueueCashback, SaveQueued, At, Rests
<1>2. Knows(req[r], store)
  BY <1>1, AtRest
<1>3. CASE ReadTier(r)
  <2> DEFINE q == [at |-> "rewarding", owner |-> req[r].owner, tx |-> req[r].tx,
                   tier |-> kvGet(card(req[r].owner)).tier]
  <2>1. q.at = "rewarding" /\ q.owner = req[r].owner /\ q.tx = req[r].tx
    OBVIOUS
  <2>2. Answer(r) \/ GotoWith(r, q)
    BY <1>3 DEF ReadTier
  <2>3. req[r].at = "settled"
    BY <1>3 DEF ReadTier, At
  <2> HIDE DEF q
  <2>4. Knows(q, store)
    BY <1>2, <2>1, <2>3 DEF Knows, Buying, Paying
  <2> QED BY <1>1, <2>1, <2>2, <2>3, <2>4, ReadsOnce, AnswersOnce
<1>4. CASE QueueCashback(r)
  <2>0. PICK month :
          LET list == kvListRead(txsOf(req[r].owner), MaxList)
              tx   == [req[r].tx EXCEPT
                         !.cashback = Cashback(list, month, req[r].tx, req[r].tier)]
          IN  \/ Answer(r)
              \/ GotoWith(r, [at |-> "queueing", owner |-> req[r].owner,
                              list |-> Replaced(list, tx)])
    BY <1>4 DEF QueueCashback
  <2> DEFINE o    == req[r].owner
             list == kvListRead(txsOf(o), MaxList)
             tx   == [req[r].tx EXCEPT !.cashback = Cashback(list, month, req[r].tx, req[r].tier)]
             q    == [at |-> "queueing", owner |-> o, list |-> Replaced(list, tx)]
  <2>1. /\ req[r] \in [at : {"rewarding"}, owner : Owners, tx : Right, tier : Tiers]
        /\ req[r].at = "rewarding"
    BY <1>4, Locals DEF QueueCashback, At
  <2>2. tx \in Right /\ tx.id = req[r].tx.id
    <3>1. req[r].tx \in Txs
      BY <2>1 DEF Right, RightTxs
    <3> QED BY <2>1, <3>1, CashbackQueued DEF Txs
  <2>3. list \in Seq(Own(o, Paid))
    BY <1>1, <2>1, OwnRead
  <2>4. Answer(r) \/ GotoWith(r, q)
    BY <2>0
  <2>5. q.at = "queueing" /\ q.owner = o /\ q.list = Replaced(list, tx)
    OBVIOUS
  <2> HIDE DEF q, tx, list
  <2>6. tx \in Own(o, Paid)
    BY <1>2, <2>1, <2>2 DEF Own, OwnTxs, Knows, ByOwner
  <2>7. Replaced(list, tx) \in Seq(Own(o, Paid))
    BY <2>3, <2>6, ReplacedSeq
  <2>8. Knows(q, store)
    BY <2>5, <2>7 DEF Knows, Told, Buying, Paying
  <2> QED BY <1>1, <2>1, <2>4, <2>5, <2>8, ReadsOnce, AnswersOnce
<1>5. CASE SaveQueued(r)
  <2>1. req[r].at = "queueing" /\ req[r].owner \in Owners
    BY <1>5, Locals DEF SaveQueued, At
  <2>2. req[r].list \in Seq(Own(req[r].owner, Paid))
    BY <1>2, <2>1 DEF Knows, Told
  <2>3. \A p \in Owners : ListOf(store[txsOf(p)]) \in Seq(Own(p, Paid))
    BY <1>1, <2>1, AtRest DEF Told
  <2>4. Finish(r, kvListWrite(txsOf(req[r].owner), req[r].list))
    BY <1>5 DEF SaveQueued
  <2> QED BY <1>1, <2>1, <2>2, <2>3, <2>4, ListSavedOnce
<1> QED BY <1>3, <1>4, <1>5

-----------------------------------------------------------------------------
(* Cashback, one request at a time *)

LEMMA StartCashbackOnce ==
  ASSUME OneAtATime, RightInv, OnceInv, NEW r \in Requests, NEW o \in Owners,
         NEW t \in TxIds, StartCashback(r, o, t)
  PROVE  OnceInv'
<1> DEFINE list == kvListRead(txsOf(o), MaxList)
           tx   == FindTx(list, t)
           q    == [at |-> "pricing", owner |-> o, tx |-> tx, list |-> list]
<1>1. /\ Settled(r) /\ req[r].at = "idle" /\ Rests /\ GotoWith(r, q)
      /\ t \in IdsOf(list) /\ tx.status = "settled" /\ Payable(tx.cashback.status)
  BY DEF StartCashback, At, Rests
<1>2. list \in Seq(Own(o, Paid))
  BY <1>1, OwnRead
<1>3. tx \in Own(o, Paid)
  <2> HIDE DEF list
  <2> QED BY <1>1, <1>2, FoundInList
<1>4. q.at = "pricing" /\ q.owner = o /\ q.tx = tx /\ q.list = list
  OBVIOUS
<1> HIDE DEF list, tx, q
<1>5. Knows(q, store)
  BY <1>1, <1>2, <1>3, <1>4 DEF Knows, ByOwner, Told, Own, OwnTxs, Buying, Paying
<1> QED BY <1>1, <1>4, <1>5, ReadsOnce

(* Once the write is done, the record of a paid purchase is no longer payable:    *)
(* not in the list of its owner, and no one else's list has it.                 *)
LEMMA MarkedOnce ==
  ASSUME OneAtATime, RightInv, OnceInv, NEW r \in Requests,
         NEW status \in {"sent", "failed"}, status = "sent" => req[r].at = "landed",
         req[r].at \in Paying, Settled(r), Marked(r, status), Rests
  PROVE  OnceInv'
<1> DEFINE o    == req[r].owner
           t    == req[r].tx.id
           tx   == WithStatus(req[r].tx, status)
           list == Replaced(req[r].list, tx)
<1>1. /\ o \in Owners /\ req[r].tx \in Right /\ req[r].tx.status = "settled"
      /\ req[r].at = "landed" => t \in Paid
  BY Locals
<1>2. Knows(req[r], store)
  BY AtRest
<1>3. tx \in Right /\ tx.id = t /\ ~Payable(tx.cashback.status)
  BY <1>1, MarkedIsRight DEF Payable
<1>4. \A p \in Owners : ListOf(store[txsOf(p)]) \in Seq(Own(p, Told(req[r])))
  BY AtRest
<1>5. ByOwner(t, o) /\ req[r].list \in Seq(Own(o, Told(req[r])))
  BY <1>2 DEF Knows, Paying
<1> HIDE DEF tx
<1>6. list \in Seq(Own(o, Paid))
  <2>1. tx \in Own(o, Paid)
    BY <1>3, <1>5 DEF Own, OwnTxs, ByOwner
  <2>2. \A x \in Own(o, Told(req[r])) : x.id # tx.id => x \in Own(o, Paid)
    BY <1>3 DEF Own, OwnTxs, Told
  <2> QED BY <1>5, <2>1, <2>2, ReplacedSeq
<1>7. ASSUME NEW p \in Owners, p # o
      PROVE  ListOf(store[txsOf(p)]) \in Seq(Own(p, Paid))
  <2>1. ASSUME NEW x \in Own(p, Told(req[r])) PROVE x \in Own(p, Paid)
    <3>1. CASE x.status = "settled" /\ x.id = t
      <4>1. x.id \in Reached /\ \A b \in Bought : b[1] = x.id => b[2] = p
        BY <2>1, <3>1 DEF Own, OwnTxs, Right, RightTxs
      <4>2. PICK y \in executed : y.id = x.id
        BY <4>1 DEF Reached
      <4>3. <<y.id, y.owner>> \in Bought
        BY DEF Bought
      <4>4. y.owner = p /\ y.owner = o
        BY <1>5, <3>1, <4>1, <4>2, <4>3 DEF ByOwner
      <4> QED BY <1>7, <4>4
    <3>2. CASE ~(x.status = "settled" /\ x.id = t)
      BY <2>1, <3>2 DEF Own, OwnTxs, Told
    <3> QED BY <3>1, <3>2
  <2>2. Own(p, Told(req[r])) \subseteq Own(p, Paid)
    BY <2>1
  <2> QED BY <1>4, <2>2, SeqMonotonic
<1>8. Finish(r, kvListWrite(txsOf(o), list))
  BY DEF Marked, tx
<1> HIDE DEF list, o
<1> QED BY <1>1, <1>6, <1>7, <1>8, ListSavedOnce

LEMMA PriceCashbackOnce ==
  ASSUME OneAtATime, RightInv, OnceInv, NEW r \in Requests, PriceCashback(r)
  PROVE  OnceInv'
<1> DEFINE q == [req[r] EXCEPT !.at = "depositing"]
<1>1. /\ Settled(r) /\ req[r].at = "pricing" /\ Rests
      /\ Answer(r) \/ Marked(r, "failed") \/ GotoWith(r, q)
  BY DEF PriceCashback, At, Rests
<1>2. Knows(req[r], store)
  BY <1>1, AtRest
<1>3. req[r] \in [at : Paying, owner : Owners, tx : Right, list : Seq(Right)]
  BY <1>1, Locals DEF Paying
<1>4. /\ q.at = "depositing" /\ q.owner = req[r].owner /\ q.tx = req[r].tx
      /\ q.list = req[r].list
  BY <1>3
<1> HIDE DEF q
<1>5. Knows(q, store)
  BY <1>1, <1>2, <1>4 DEF Knows, Told, Buying, Paying
<1> QED BY <1>1, <1>4, <1>5, AnswersOnce, MarkedOnce, ReadsOnce DEF Paying

(* The deposit is the first for its purchase. *)
LEMMA SendDepositOnce ==
  ASSUME OneAtATime, RightInv, OnceInv, NEW r \in Requests, SendDeposit(r)
  PROVE  OnceInv'
<1>1. /\ Settled(r) /\ req[r].at = "depositing"
      /\ UNCHANGED <<issued, balance, allowance, inflight, executed>>
  BY DEF SendDeposit, At
<1>2. Knows(req[r], store)
  BY <1>1, AtRest
<1>3. req[r] \in [at : Paying, owner : Owners, tx : Right, list : Seq(Right)]
  BY <1>1, Locals DEF Paying
<1>4. CASE Marked(r, "failed") /\ UNCHANGED deposits
  BY <1>1, <1>4, MarkedOnce DEF Rests, chain_vars, Paying
<1>5. CASE GotoWith(r, [req[r] EXCEPT !.at = "dropped"]) /\ deposits' = deposits
  <2> DEFINE q == [req[r] EXCEPT !.at = "dropped"]
  <2>1. /\ q.at = "dropped" /\ q.owner = req[r].owner /\ q.tx = req[r].tx
        /\ q.list = req[r].list
    BY <1>3
  <2> HIDE DEF q
  <2>2. Knows(q, store)
    BY <1>1, <1>2, <2>1 DEF Knows, Told, Buying, Paying
  <2> QED BY <1>1, <1>5, <2>1, <2>2, ReadsOnce DEF Rests, chain_vars, q
<1>6. CASE /\ GotoWith(r, [req[r] EXCEPT !.at = "landed"])
           /\ deposits' = deposits (+) SetToBag({req[r].tx.id})
  <2> SUFFICES ASSUME NEW q, q = [req[r] EXCEPT !.at = "landed"],
                      NEW t, t = req[r].tx.id
               PROVE  OnceInv'
    OBVIOUS
  <2>1. /\ q.at = "landed" /\ q.owner = req[r].owner /\ q.tx = req[r].tx
        /\ q.list = req[r].list
    BY <1>3
  <2>2. /\ t \notin Paid /\ ByOwner(t, q.owner)
        /\ q.list \in Seq(OwnTxs(q.owner, Paid, Right, issued, Bought))
    BY <1>1, <1>2, <2>1 DEF Knows, Told, Own, Paying
  <2>3. Paid' = Paid \cup {t} /\ \A s \in Paid' : deposits'[s] = 1
    <3>1. \A s \in Paid : deposits[s] = 1
      BY DEF OnceInv, PaidOnce
    <3> QED BY <1>6, <2>2, <3>1 DEF Paid, BagToSet, SetToBag, (+)
  <2>4. Bought' = Bought /\ issued' = issued /\ Reached' = Reached
    BY <1>1 DEF Bought, Reached
  <2>5. Right \subseteq Right'
    BY <2>3, <2>4, RightGrows DEF Grow
  <2>6. Told(q)' = Paid
    BY <2>1, <2>2, <2>3 DEF Told
  <2> SUFFICES ASSUME NEW e, e = store PROVE OnceInv'
    OBVIOUS
  <2>7. Goto(r, q) /\ store' = store /\ doc' = doc /\ todo' = todo /\ After(r)' = e
    BY <1>1, <1>6 DEF GotoWith, kv_vars, After, Settled
  <2>8. PaidOnce'
    BY <2>3, <2>4 DEF OnceInv, PaidOnce
  <2>9. ASSUME NEW p, NEW list \in Seq(OwnTxs(p, Paid, Right, issued, Bought))
        PROVE  list \in Seq(OwnTxs(p, Told(q)', Right', issued', Bought'))
    <3>1. OwnTxs(p, Paid, Right, issued, Bought) \subseteq
            OwnTxs(p, Told(q)', Right', issued', Bought')
      BY <2>4, <2>5, <2>6 DEF OwnTxs
    <3> QED BY <3>1, SeqMonotonic
  <2>10. \A p \in Owners : ListOf(e[txsOf(p)]) \in Seq(Own(p, Told(q)))'
    <3>1. \A p \in Owners : ListOf(e[txsOf(p)]) \in Seq(OwnTxs(p, Paid, Right, issued, Bought))
      BY <1>1, AtRest DEF Told, Own
    <3> QED BY <2>9, <3>1 DEF Own
  <2>11. Knows(q, e)'
    BY <2>1, <2>2, <2>4, <2>9 DEF Knows, ByOwner, Own, Buying, Paying
  <2> QED BY <2>7, <2>8, <2>10, <2>11, OnceGoes
<1> QED BY <1>4, <1>5, <1>6 DEF SendDeposit

LEMMA MarkOnce ==
  ASSUME OneAtATime, RightInv, OnceInv, NEW r \in Requests, MarkSent(r) \/ MarkFailed(r)
  PROVE  OnceInv'
<1>1. /\ Settled(r) /\ Rests /\ req[r].at \in Paying
      /\ \/ req[r].at = "landed" /\ Marked(r, "sent")
         \/ Marked(r, "failed")
  BY DEF MarkSent, MarkFailed, Landed, At, Paying, Rests
<1> QED BY <1>1, MarkedOnce

LEMMA OnceStep ==
  ASSUME OneAtATime, RightInv, OnceInv, [Next]_vars
  PROVE  OnceInv'
<1>1. ASSUME NEW r \in Requests, Purchase(r) PROVE OnceInv'
  BY <1>1, StartPurchaseOnce, CheckFundsOnce, SendSettlementOnce, RecordPurchaseOnce,
     RewardOnce DEF Purchase
<1>2. ASSUME NEW r \in Requests, CashbackJob(r) PROVE OnceInv'
  BY <1>2, StartCashbackOnce, PriceCashbackOnce, SendDepositOnce, MarkOnce DEF CashbackJob
<1>3. ASSUME NEW r \in Requests, ConfirmationTimesOut(r) PROVE OnceInv'
  BY <1>3, AnswersOnce DEF ConfirmationTimesOut, At, Rests
<1>4. \A r \in Requests : ~Stop(r)
  BY DEF Stop, OneAtATime
<1> QED BY <1>1, <1>2, <1>3, <1>4, CardApiOnce, StoreOnce, ChainOnce DEF Next

(* "Idempotent by txId ... safe to retry" (process/route.ts:2), for requests       *)
(* handled one at a time by a server that does not stop: the cashback of a        *)
(* purchase is deposited at most once, however often it is asked for, whatever     *)
(* confirmations time out and over either store.                               *)
THEOREM CashbackOnceAlways ==
  ASSUME OneAtATime
  PROVE  Spec => []CashbackOnce
<1>1. Init => RightInv /\ OnceInv
  BY RightInit, OnceInit
<1>2. RightInv /\ OnceInv /\ [Next]_vars => (RightInv /\ OnceInv)'
  BY RightStep, OnceStep
<1>3. OnceInv => CashbackOnce
  BY OncePaid
<1> QED BY <1>1, <1>2, <1>3, PTL DEF Spec

-----------------------------------------------------------------------------
(* One request at a time and every confirmation waited for: the feed has every  *)
(* purchase, once.  A purchase the chain was told of is in the feed of its buyer as it *)
(* will be After the write under way, unless the feed is full or the request is still  *)
(* waiting for the chain to execute it; what a request writes back has the ids it read. *)

OneRequest == (\E r : Requests = {r}) /\ ~Stops /\ ~Timeouts

IdsApart(list) == \A i, j \in DOMAIN list : list[i].id = list[j].id => i = j
SameIds(list, other) ==
  Len(list) = Len(other) /\ \A i \in 1 .. Len(list) : list[i].id = other[i].id

(* The list of o, of the purchases of B, those of T not counted. *)
Complete(list, o, B, T) ==
  /\ IdsApart(list) /\ Len(list) <= MaxList
  /\ \A b \in B : b[2] = o => b[1] \in IdsOf(list) \cup T \/ Len(list) = MaxList

Awaited(q) == IF q.at = "confirming" THEN {q.tx.id} ELSE {}
Keeps(q, e) ==
  q.at \in Paying \cup {"queueing"} => SameIds(q.list, ListOf(e[txsOf(q.owner)]))

FeedInv ==
  \A r \in Requests :
    /\ \A o \in Owners : Complete(ListOf(After(r)[txsOf(o)]), o, Bought, Awaited(req[r]))
    /\ Keeps(req[r], After(r))

-----------------------------------------------------------------------------
(* Lists with all purchases *)

LEMMA CompleteSame ==
  ASSUME NEW S, NEW L \in Seq(S), NEW M \in Seq(S), SameIds(L, M),
         NEW o, NEW B, NEW T, Complete(M, o, B, T)
  PROVE  Complete(L, o, B, T)
<1>1. DOMAIN L = DOMAIN M /\ Len(L) = Len(M) /\ \A i \in DOMAIN L : L[i].id = M[i].id
  BY LenProperties DEF SameIds
<1>2. IdsOf(L) = IdsOf(M)
  BY <1>1 DEF IdsOf
<1> QED BY <1>1, <1>2 DEF Complete, IdsApart

LEMMA SameReplaced ==
  ASSUME NEW S, NEW L \in Seq(S), NEW M, SameIds(L, M), NEW tx
  PROVE  SameIds(Replaced(L, tx), M)
<1>1. PICK n \in Nat : n = Len(L) /\ DOMAIN L = 1 .. n
  BY LenProperties
<1>2. PICK K : K = Replaced(L, tx)
  OBVIOUS
<1>3. /\ K = [i \in 1 .. n |-> IF L[i].id = tx.id THEN tx ELSE L[i]]
      /\ \A i \in 1 .. n : K[i].id = L[i].id
  BY <1>1, <1>2 DEF Replaced
<1>4. Len(K) = n
  BY <1>1, <1>3, LenProperties
<1> QED BY <1>1, <1>2, <1>3, <1>4 DEF SameIds

(* A read of a list that is no longer than a read is all of it. *)
LEMMA WholeRead ==
  ASSUME NEW S, NEW L \in Seq(S), Len(L) <= MaxList
  PROVE  FirstOf(L, MaxList) = L
<1>1. PICK n \in Nat : n = Len(L) /\ DOMAIN L = 1 .. n
  BY LenProperties
<1>2. FirstOf(L, MaxList) = SubSeq(L, 1, n)
  BY <1>1, CardsAssumption DEF FirstOf
<1>3. PICK K : K = SubSeq(L, 1, n)
  OBVIOUS
<1>4. \A i \in 1 .. n : L[i] \in S
  BY <1>1, ElementOfSeq
<1>5. K \in Seq(S) /\ Len(K) = n /\ \A i \in 1 .. n : K[i] = L[i]
  BY <1>3, <1>4, SubSeqProperties
<1>6. K = L
  BY <1>1, <1>5, SeqEqual
<1> QED BY <1>2, <1>3, <1>6

(* A new purchase comes first; a full list loses its last. *)
LEMMA PushedComplete ==
  ASSUME NEW S, NEW M \in Seq(S), NEW tx \in S, tx.id \notin IdsOf(M), NEW o, NEW B, NEW T,
         T \subseteq {tx.id}, Complete(M, o, B, T),
         NEW L, L = FirstOf(<<tx>> \o M, MaxList)
  PROVE  Complete(L, o, B, {})
<1>1. PICK n \in Nat : n = Len(M) /\ DOMAIN M = 1 .. n
  BY LenProperties
<1>2. PICK J : J = <<tx>> \o M
  OBVIOUS
<1>3. /\ J \in Seq(S) /\ Len(J) = n + 1 /\ J[1] = tx /\ DOMAIN J = 1 .. n + 1
      /\ \A i \in 1 .. n : J[i + 1] = M[i]
  <2>1. <<tx>> \in Seq(S) /\ Len(<<tx>>) = 1 /\ <<tx>>[1] = tx
    OBVIOUS
  <2>2. /\ J \in Seq(S) /\ Len(J) = 1 + n
        /\ \A i \in 1 .. 1 + n : J[i] = IF i <= 1 THEN <<tx>>[i] ELSE M[i - 1]
    BY <1>1, <1>2, <2>1, ConcatProperties
  <2>3. DOMAIN J = 1 .. n + 1
    BY <2>2, LenProperties
  <2>4. \A i \in 1 .. n : i + 1 \in 1 .. 1 + n /\ ~(i + 1 <= 1) /\ (i + 1) - 1 = i
    OBVIOUS
  <2>5. \A i \in 1 .. n : J[i + 1] = M[i]
    BY <2>2, <2>4
  <2>6. J[1] = tx
    BY <2>1, <2>2
  <2> QED BY <2>2, <2>3, <2>5, <2>6
<1>4. PICK k \in 0 .. n + 1 : /\ k = Len(L) /\ DOMAIN L = 1 .. k
                              /\ \A i \in 1 .. k : L[i] = J[i]
                              /\ k <= MaxList /\ (k = MaxList \/ k = n + 1)
  <2>1. MaxList \in Nat
    BY CardsAssumption
  <2>2. PICK k \in 0 .. n + 1 : k = IF MaxList < n + 1 THEN MaxList ELSE n + 1
    BY <2>1
  <2>3. L = SubSeq(J, 1, k)
    BY <1>2, <1>3, <2>2 DEF FirstOf
  <2>4. \A i \in 1 .. k : J[i] \in S
    BY <1>3, <2>2, ElementOfSeq
  <2>5. L \in Seq(S) /\ Len(L) = k /\ \A i \in 1 .. k : L[i] = J[i]
    BY <2>2, <2>3, <2>4, SubSeqProperties
  <2>6. DOMAIN L = 1 .. k
    BY <2>5, LenProperties
  <2>7. k <= MaxList /\ (k = MaxList \/ k = n + 1)
    BY <2>1, <2>2
  <2> QED BY <2>5, <2>6, <2>7
<1>5. \A i \in 1 .. n : M[i].id # tx.id
  BY <1>1 DEF IdsOf
<1>6. \A i, j \in 1 .. n : M[i].id = M[j].id => i = j
  BY <1>1 DEF Complete, IdsApart
<1>7. \A i \in 2 .. n + 1 : i - 1 \in 1 .. n /\ J[i] = M[i - 1]
  <2> TAKE i \in 2 .. n + 1
  <2>1. i - 1 \in 1 .. n /\ (i - 1) + 1 = i
    OBVIOUS
  <2> QED BY <1>3, <2>1
<1>8. IdsApart(L)
  <2> SUFFICES ASSUME NEW i \in 1 .. k, NEW j \in 1 .. k, L[i].id = L[j].id, i # j
               PROVE  FALSE
    BY <1>4 DEF IdsApart
  <2>1. J[i].id = J[j].id /\ i \in 1 .. n + 1 /\ j \in 1 .. n + 1
    BY <1>4
  <2>2. CASE i = 1
    <3>1. j \in 2 .. n + 1
      BY <2>1, <2>2
    <3> QED BY <1>3, <1>5, <1>7, <2>1, <2>2, <3>1
  <2>3. CASE j = 1
    <3>1. i \in 2 .. n + 1
      BY <2>1, <2>3
    <3> QED BY <1>3, <1>5, <1>7, <2>1, <2>3, <3>1
  <2>4. CASE i # 1 /\ j # 1
    <3>1. i \in 2 .. n + 1 /\ j \in 2 .. n + 1
      BY <2>1, <2>4
    <3>2. i - 1 = j - 1
      BY <1>6, <1>7, <2>1, <3>1
    <3> QED BY <3>1, <3>2
  <2> QED BY <2>2, <2>3, <2>4
<1>9. ASSUME NEW b \in B, b[2] = o, Len(L) # MaxList PROVE b[1] \in IdsOf(L)
  <2>1. k = n + 1 /\ n # MaxList /\ 1 \in 1 .. k
    BY <1>4, <1>9, CardsAssumption
  <2>2. b[1] \in IdsOf(M) \/ b[1] = tx.id
    BY <1>1, <1>9, <2>1 DEF Complete
  <2>3. CASE b[1] = tx.id
    BY <1>3, <1>4, <2>1, <2>3 DEF IdsOf
  <2>4. CASE b[1] \in IdsOf(M)
    <3>1. PICK i \in 1 .. n : M[i].id = b[1]
      BY <1>1, <2>4 DEF IdsOf
    <3>2. i + 1 \in 1 .. k /\ L[i + 1] = M[i]
      BY <1>3, <1>4, <2>1
    <3> QED BY <1>4, <3>1, <3>2 DEF IdsOf
  <2> QED BY <2>2, <2>3, <2>4
<1> QED BY <1>4, <1>8, <1>9 DEF Complete

-----------------------------------------------------------------------------
(* What a write leaves, exactly *)

LEMMA NoListIsNull ==
  ASSUME NEW list \in Seq(Txs)
  PROVE  ListOf(list) = list
BY CardsAssumption DEF Txs, ListOf

LEMMA PushLeaves ==
  ASSUME NEW e, e \in [Keys -> {e[k] : k \in Keys}], NEW o \in Owners,
         NEW tx \in Txs, ListOf(e[txsOf(o)]) \in Seq(Txs),
         NEW f, f = Executed(e, kvListPush(txsOf(o), tx, MaxList))
  PROVE  /\ ListOf(f[txsOf(o)]) = FirstOf(<<tx>> \o ListOf(e[txsOf(o)]), MaxList)
         /\ \A p \in Owners : p # o => f[txsOf(p)] = e[txsOf(p)]
<1> DEFINE c == [cmd |-> "lpush", key |-> txsOf(o), element |-> tx]
           d == [cmd |-> "ltrim", key |-> txsOf(o), keep |-> MaxList]
           g == Applied(e, c)
<1>1. /\ c.key = txsOf(o) /\ \A entry : Changed(entry, c) = <<tx>> \o ListOf(entry)
      /\ d.key = txsOf(o) /\ \A entry : Changed(entry, d) = FirstOf(ListOf(entry), MaxList)
  BY DEF Changed
<1>2. f = Applied(g, d)
  BY DEF Executed, kvListPush
<1> HIDE DEF c, d
<1>3. /\ g \in [Keys -> {g[k] : k \in Keys}]
      /\ g[txsOf(o)] = <<tx>> \o ListOf(e[txsOf(o)])
      /\ \A p \in Owners : p # o => g[txsOf(p)] = e[txsOf(p)]
  BY <1>1, FeedApplied
<1> HIDE DEF g
<1>4. PICK M \in Seq(Txs) : M = ListOf(e[txsOf(o)])
  OBVIOUS
<1>5. <<tx>> \o M \in Seq(Txs)
  <2>1. <<tx>> \in Seq(Txs)
    OBVIOUS
  <2> QED BY <2>1, ConcatProperties
<1>6. ListOf(g[txsOf(o)]) = <<tx>> \o M
  BY <1>3, <1>4, <1>5, NoListIsNull
<1>7. FirstOf(<<tx>> \o M, MaxList) \in Seq(Txs)
  BY <1>5, CardsAssumption, FirstOfSeq
<1>8. /\ f[txsOf(o)] = FirstOf(<<tx>> \o M, MaxList)
      /\ \A p \in Owners : p # o => f[txsOf(p)] = g[txsOf(p)]
  <2> DEFINE h == Applied(g, d)
  <2>1. /\ h[txsOf(o)] = Changed(g[txsOf(o)], d)
        /\ \A p \in Owners : p # o => h[txsOf(p)] = g[txsOf(p)]
    BY <1>1, <1>3, FeedApplied
  <2>2. f = h
    BY <1>2
  <2> HIDE DEF h
  <2> QED BY <1>1, <1>6, <2>1, <2>2
<1>9. ListOf(f[txsOf(o)]) = FirstOf(<<tx>> \o M, MaxList)
  BY <1>7, <1>8, NoListIsNull
<1> QED BY <1>3, <1>4, <1>8, <1>9

LEMMA WriteLeaves ==
  ASSUME NEW e, e \in [Keys -> {e[k] : k \in Keys}], NEW o \in Owners,
         NEW list \in Seq(Txs), NEW f, f = Executed(e, kvListWrite(txsOf(o), list))
  PROVE  /\ ListOf(f[txsOf(o)]) = list
         /\ \A p \in Owners : p # o => f[txsOf(p)] = e[txsOf(p)]
<1> DEFINE c == [cmd |-> "del", key |-> txsOf(o)]
           d == [cmd |-> "rpush", key |-> txsOf(o), elements |-> list]
           g == Applied(e, c)
           h == Applied(g, d)
<1>1. /\ c.key = txsOf(o) /\ \A entry : Changed(entry, c) = NoEntry
      /\ d.key = txsOf(o) /\ \A entry : Changed(entry, d) = ListOf(entry) \o list
  BY DEF Changed
<1>2. kvListWrite(txsOf(o), list) = IF list = <<>> THEN <<c>> ELSE <<c, d>>
  BY ListWriteIs
<1>3. Executed(e, <<c>>) = g /\ Executed(e, <<c, d>>) = h
  BY DEF Executed
<1> HIDE DEF c, d
<1>4. /\ g \in [Keys -> {g[k] : k \in Keys}] /\ g[txsOf(o)] = NoEntry
      /\ \A p \in Owners : p # o => g[txsOf(p)] = e[txsOf(p)]
  BY <1>1, FeedApplied
<1>5. ListOf(g[txsOf(o)]) = <<>>
  BY <1>4 DEF ListOf
<1> HIDE DEF g
<1>6. /\ h[txsOf(o)] = <<>> \o list
      /\ \A p \in Owners : p # o => h[txsOf(p)] = g[txsOf(p)]
  BY <1>1, <1>4, <1>5, FeedApplied
<1> HIDE DEF h
<1>7. ListOf(h[txsOf(o)]) = list
  <2>1. <<>> \o list = list
    BY ConcatEmptySeq
  <2> QED BY <1>6, <2>1, NoListIsNull
<1>8. CASE list = <<>>
  BY <1>2, <1>3, <1>4, <1>5, <1>8
<1>9. CASE list # <<>>
  BY <1>2, <1>3, <1>4, <1>6, <1>7, <1>9
<1> QED BY <1>8, <1>9
-----------------------------------------------------------------------------
(* Steps, when every confirmation is waited for *)

LEMMA FeedInit ==
  ASSUME Init
  PROVE  FeedInv
<1>1. Bought = {}
  BY DEF Init, CardsInit, Bought
<1>2. ASSUME NEW r \in Requests
      PROVE  req[r].at = "idle" /\ After(r) = [k \in Keys |-> NoEntry]
  BY CardsAssumption DEF Init, KvInit, IdleReq, After, Settled
<1>3. \A list : list = <<>> => DOMAIN list = {} /\ Len(list) = 0
  OBVIOUS
<1>4. ASSUME NEW r \in Requests, NEW o \in Owners, NEW T
      PROVE  Complete(ListOf(After(r)[txsOf(o)]), o, Bought, T)
  <2>1. PICK list : list = ListOf(After(r)[txsOf(o)])
    OBVIOUS
  <2>2. list = <<>>
    BY <1>2, <2>1, KeysDiffer DEF ListOf
  <2> QED BY <1>1, <1>3, <2>1, <2>2, CardsAssumption DEF Complete, IdsApart
<1>5. ASSUME NEW r \in Requests PROVE Keeps(req[r], After(r))
  BY <1>2 DEF Keeps, Paying
<1> QED BY <1>4, <1>5 DEF FeedInv

LEMMA FeedGoes ==
  ASSUME OneAtATime, RightInv, NEW r \in Requests, NEW q, NEW e, NEW B, Goto(r, q),
         After(r)' = e, Bought' = B,
         \A o \in Owners : Complete(ListOf(e[txsOf(o)]), o, B, Awaited(q)),
         Keeps(q, e)
  PROVE  FeedInv'
<1>1. (\A s \in Requests : s = r) /\ req'[r] = q
  BY DEF OneAtATime, Goto, RightInv, Shapes
<1>2. \A o \in Owners :
        Complete(ListOf(After(r)[txsOf(o)]), o, Bought, Awaited(req[r]))'
  BY <1>1 DEF Complete, IdsApart, IdsOf, Awaited, ListOf
<1>3. Keeps(req[r], After(r))'
  BY <1>1 DEF Keeps, SameIds, ListOf
<1> QED BY <1>1, <1>2, <1>3 DEF FeedInv

(* What a request finds. *)
LEMMA FeedNow ==
  ASSUME RightInv, OnceInv, FeedInv, NEW r \in Requests, Settled(r)
  PROVE  /\ \A o \in Owners :
              /\ ListOf(store[txsOf(o)]) \in Seq(Txs)
              /\ Complete(ListOf(store[txsOf(o)]), o, Bought, Awaited(req[r]))
              /\ kvListRead(txsOf(o), MaxList) = ListOf(store[txsOf(o)])
         /\ Keeps(req[r], store)
         /\ store \in [Keys -> {store[k] : k \in Keys}]
<1>1. After(r) = store
  BY AtRest
<1>2. ASSUME NEW o \in Owners, NEW list, list = ListOf(store[txsOf(o)])
      PROVE  /\ list \in Seq(Txs) /\ Complete(list, o, Bought, Awaited(req[r]))
             /\ FirstOf(list, MaxList) = list
  <2>1. list \in Seq(Right) /\ Right \subseteq Txs
    BY <1>2 DEF RightInv, GoodEntries, Right, RightTxs
  <2>2. list \in Seq(Txs)
    BY <2>1, SeqMonotonic
  <2>3. Complete(list, o, Bought, Awaited(req[r]))
    BY <1>1, <1>2 DEF FeedInv
  <2>4. Len(list) <= MaxList
    BY <2>3 DEF Complete
  <2> QED BY <2>2, <2>3, <2>4, WholeRead
<1> QED BY <1>1, <1>2 DEF FeedInv, RightInv, GoodEntries, kvListRead

LEMMA FeedReads ==
  ASSUME OneAtATime, RightInv, OnceInv, FeedInv, NEW r \in Requests, NEW q, GotoWith(r, q),
         Bought' = Bought, Settled(r), Awaited(q) = Awaited(req[r]), Keeps(q, store)
  PROVE  FeedInv'
<1>1. PICK e : e = store
  OBVIOUS
<1>2. PICK B : B = Bought
  OBVIOUS
<1>3. Goto(r, q) /\ After(r)' = e /\ Bought' = B
  BY <1>1, <1>2 DEF GotoWith, kv_vars, After, Settled
<1>4. \A o \in Owners : Complete(ListOf(e[txsOf(o)]), o, B, Awaited(q))
  BY <1>1, <1>2, FeedNow
<1> QED BY <1>1, <1>3, <1>4, FeedGoes

LEMMA IdleKeeps == Awaited(IdleReq) = {} /\ \A e : Keeps(IdleReq, e)
BY DEF Awaited, Keeps, IdleReq, Paying

LEMMA FeedAnswers ==
  ASSUME OneAtATime, RightInv, OnceInv, FeedInv, NEW r \in Requests, Answer(r),
         Bought' = Bought, Settled(r), req[r].at # "confirming"
  PROVE  FeedInv'
<1>1. Awaited(req[r]) = {}
  BY DEF Awaited
<1> QED BY <1>1, IdleKeeps, FeedReads DEF Answer

(* A write is sent. *)
LEMMA FeedWrites ==
  ASSUME OneAtATime, RightInv, NEW r \in Requests, NEW q, NEW t, t # <<>>,
         Goto(r, q), Await(r, t), Bought' = Bought, NEW e, e = Executed(store, t),
         \A o \in Owners : Complete(ListOf(e[txsOf(o)]), o, Bought, Awaited(q)),
         Keeps(q, e)
  PROVE  FeedInv'
<1>1. PICK B : B = Bought
  OBVIOUS
<1>2. After(r)' = e /\ Bought' = B
  BY <1>1 DEF Await, After, Settled, RightInv, Shapes
<1> QED BY <1>1, <1>2, FeedGoes

(* A purchase is put on the list. *)
LEMMA FeedPushes ==
  ASSUME OneAtATime, RightInv, OnceInv, FeedInv, NEW r \in Requests,
         NEW o \in Owners, NEW tx \in Txs, NEW q, Settled(r), Recorded(r, o, tx, q),
         Bought' = Bought, q.at \in {"idle", "settled"},
         tx.id \notin IdsOf(ListOf(store[txsOf(o)])),
         Awaited(req[r]) \subseteq {tx.id},
         Awaited(req[r]) # {} => \A b \in Bought : b[1] = tx.id => b[2] = o
  PROVE  FeedInv'
<1>1. PICK t : t = kvListPush(txsOf(o), tx, MaxList)
  OBVIOUS
<1>2. Goto(r, q) /\ Await(r, t) /\ t # <<>>
  BY <1>1 DEF Recorded, kvListPush
<1>3. PICK e : e = Executed(store, t)
  OBVIOUS
<1>4. PICK M : M = ListOf(store[txsOf(o)])
  OBVIOUS
<1>5. /\ M \in Seq(Txs) /\ Complete(M, o, Bought, Awaited(req[r]))
      /\ \A p \in Owners : Complete(ListOf(store[txsOf(p)]), p, Bought, Awaited(req[r]))
      /\ store \in [Keys -> {store[k] : k \in Keys}]
  BY <1>4, FeedNow
<1>6. /\ ListOf(e[txsOf(o)]) = FirstOf(<<tx>> \o M, MaxList)
      /\ \A p \in Owners : p # o => e[txsOf(p)] = store[txsOf(p)]
  BY <1>1, <1>3, <1>4, <1>5, PushLeaves
<1>7. Complete(ListOf(e[txsOf(o)]), o, Bought, {})
  BY <1>4, <1>5, <1>6, PushedComplete
<1>8. ASSUME NEW p \in Owners, p # o
      PROVE  Complete(ListOf(e[txsOf(p)]), p, Bought, {})
  <2>1. Complete(ListOf(store[txsOf(p)]), p, Bought, Awaited(req[r]))
    BY <1>5
  <2>2. \A b \in Bought : b[2] = p => b[1] \notin Awaited(req[r])
    BY <1>8
  <2> QED BY <1>6, <1>8, <2>1, <2>2 DEF Complete
<1>9. Awaited(q) = {} /\ Keeps(q, e)
  BY DEF Awaited, Keeps, Paying
<1> QED BY <1>2, <1>3, <1>7, <1>8, <1>9, FeedWrites

(* A list is written whole, with the ids that were read. *)
LEMMA FeedSaves ==
  ASSUME OneAtATime, RightInv, OnceInv, FeedInv, NEW r \in Requests,
         NEW o \in Owners, NEW list \in Seq(Txs), Settled(r), req[r].at # "confirming",
         Finish(r, kvListWrite(txsOf(o), list)), Bought' = Bought,
         SameIds(list, ListOf(store[txsOf(o)]))
  PROVE  FeedInv'
<1>1. PICK t : t = kvListWrite(txsOf(o), list)
  OBVIOUS
<1>2. Goto(r, IdleReq) /\ Await(r, t)
  BY <1>1 DEF Finish
<1>3. t # <<>>
  <2> DEFINE c == [cmd |-> "del", key |-> txsOf(o)]
             d == [cmd |-> "rpush", key |-> txsOf(o), elements |-> list]
  <2>1. t = <<c>> \/ t = <<c, d>>
    BY <1>1, ListWriteIs
  <2>2. <<c>> # <<>> /\ <<c, d>> # <<>>
    OBVIOUS
  <2> HIDE DEF c, d
  <2> QED BY <2>1, <2>2
<1>4. PICK e : e = Executed(store, t)
  OBVIOUS
<1>5. /\ ListOf(store[txsOf(o)]) \in Seq(Txs)
      /\ \A p \in Owners : Complete(ListOf(store[txsOf(p)]), p, Bought, {})
      /\ store \in [Keys -> {store[k] : k \in Keys}]
  BY FeedNow DEF Awaited
<1>6. /\ ListOf(e[txsOf(o)]) = list
      /\ \A p \in Owners : p # o => e[txsOf(p)] = store[txsOf(p)]
  BY <1>1, <1>4, <1>5, WriteLeaves
<1>7. Complete(list, o, Bought, {})
  BY <1>5, CompleteSame
<1>8. \A p \in Owners : Complete(ListOf(e[txsOf(p)]), p, Bought, {})
  BY <1>5, <1>6, <1>7
<1> QED BY <1>2, <1>3, <1>4, <1>8, IdleKeeps, FeedWrites

(* The write under way leads where it led. *)
LEMMA FeedStore ==
  ASSUME OneAtATime, RightInv, OnceInv, FeedInv, NEW r \in Requests, StoreActs(r)
  PROVE  FeedInv'
<1>1. After(r)' = After(r) /\ \A s \in Requests : s = r
  BY AfterStays DEF StoreActs, OneAtATime
<1>2. req' = req /\ Bought' = Bought
  BY DEF StoreActs, chain_vars, Bought
<1>3. PICK e : e = After(r)
  OBVIOUS
<1>4. /\ \A o \in Owners : Complete(ListOf(e[txsOf(o)]), o, Bought, Awaited(req[r]))
      /\ Keeps(req[r], e)
  BY <1>3 DEF FeedInv
<1>5. After(r)' = e
  BY <1>1, <1>3
<1>6. /\ \A o \in Owners : Complete(ListOf(After(r)[txsOf(o)]), o, Bought, Awaited(req[r]))'
      /\ Keeps(req[r], After(r))'
  BY <1>2, <1>4, <1>5 DEF Complete, IdsApart, IdsOf, Awaited, ListOf, Keeps, SameIds
<1> QED BY <1>1, <1>6 DEF FeedInv

(* The chain executes what it was told of, and a wallet may do as it likes. *)
LEMMA FeedRests ==
  ASSUME RightInv, FeedInv,
         \/ \E x \in inflight : ExecuteSettlement(x)
         \/ \E o \in Owners : WalletActs(o)
         \/ UNCHANGED vars
  PROVE  FeedInv'
<1>1. UNCHANGED <<store, todo, req>>
  BY DEF ExecuteSettlement, WalletActs, vars, kv_vars
<1>2. Bought' = Bought
  <2>1. ASSUME NEW x \in inflight, ExecuteSettlement(x) PROVE Bought' = Bought
    <3>1. PICK y : /\ y.id = x.id /\ y.owner = x.owner
                   /\ inflight' = inflight \ {x} /\ executed' = executed \cup {y}
      BY <2>1 DEF ExecuteSettlement
    <3> QED BY <3>1 DEF Bought
  <2>2. CASE UNCHANGED <<inflight, executed>>
    BY <2>2 DEF Bought
  <2> QED BY <2>1, <2>2 DEF WalletActs, vars, chain_vars
<1>3. \A r \in Requests : After(r)' = After(r)
  BY <1>1 DEF After, Settled
<1> QED BY <1>1, <1>2, <1>3 DEF FeedInv, Complete, IdsApart, IdsOf, Awaited, ListOf, Keeps, SameIds

LEMMA CardApiFeed ==
  ASSUME OneAtATime, RightInv, OnceInv, FeedInv, NEW r \in Requests, CardApi(r)
  PROVE  FeedInv'
<1>1. /\ Bought' = Bought /\ Settled(r) /\ req[r].at \in {"idle", "creating", "patching"}
      /\ Awaited(req[r]) = {}
  BY DEF CardApi, CreateCard, PatchCard, SaveNewCard, SavePatchedCard, At, chain_vars, Bought,
         Awaited
<1>2. ASSUME NEW q, GotoWith(r, q), q.at \in {"creating", "patching"} PROVE FeedInv'
  <2>1. Awaited(q) = {} /\ Keeps(q, store)
    BY <1>2 DEF Awaited, Keeps, Paying
  <2> QED BY <1>1, <1>2, <2>1, FeedReads
<1>3. ASSUME NEW o \in Owners, NEW v, Finish(r, kvSet(card(o), v)) PROVE FeedInv'
  <2>1. PICK t : t = kvSet(card(o), v)
    OBVIOUS
  <2>2. t # <<>> /\ Goto(r, IdleReq) /\ Await(r, t)
    BY <1>3, <2>1 DEF kvSet, Finish
  <2>3. PICK e : e = Executed(store, t)
    OBVIOUS
  <2>4. \A p \in Owners : e[txsOf(p)] = store[txsOf(p)]
    BY <2>1, <2>3, CardWritten DEF RightInv, GoodEntries
  <2>5. \A p \in Owners : Complete(ListOf(e[txsOf(p)]), p, Bought, Awaited(IdleReq))
    BY <1>1, <2>4, FeedNow, IdleKeeps
  <2> QED BY <1>1, <2>2, <2>3, <2>5, IdleKeeps, FeedWrites
<1>4. req[r].at # "idle" => req[r].owner \in Owners
  BY <1>1, Locals
<1>5. CASE \E o \in Owners : CreateCard(r, o) \/ PatchCard(r, o)
  BY <1>2, <1>5 DEF CreateCard, PatchCard
<1>6. CASE SaveNewCard(r) \/ SavePatchedCard(r)
  <2>1. req[r].owner \in Owners
    BY <1>4, <1>6 DEF SaveNewCard, SavePatchedCard, At
  <2> QED BY <1>3, <1>6, <2>1 DEF SaveNewCard, SavePatchedCard
<1> QED BY <1>5, <1>6 DEF CardApi

LEMMA StartPurchaseFeed ==
  ASSUME OneAtATime, RightInv, OnceInv, FeedInv, NEW r \in Requests,
         NEW o \in Owners, NEW t \in TxIds, NEW amount \in Amounts,
         StartPurchase(r, o, t, amount)
  PROVE  FeedInv'
<1>1. /\ Settled(r) /\ req[r].at = "idle" /\ t \notin issued /\ Bought' = Bought
      /\ Awaited(req[r]) = {}
  BY DEF StartPurchase, At, chain_vars, Bought, Awaited
<1>2. t \notin IdsOf(ListOf(store[txsOf(o)]))
  BY <1>1, NewId
<1>3. CASE Recorded(r, o, TxOf(t, amount, "declined"), IdleReq)
  <2> DEFINE tx == TxOf(t, amount, "declined")
  <2>1. tx \in Txs /\ tx.id = t
    BY DEF TxOf, Txs, NoCashback
  <2>2. IdleReq.at = "idle"
    BY DEF IdleReq
  <2> HIDE DEF tx
  <2> QED BY <1>1, <1>2, <1>3, <2>1, <2>2, FeedPushes DEF tx
<1>4. CASE GotoWith(r, [at |-> "checking", owner |-> o, tx |-> TxOf(t, amount, "pending")])
  <2> DEFINE q == [at |-> "checking", owner |-> o, tx |-> TxOf(t, amount, "pending")]
  <2>1. Awaited(q) = {} /\ Keeps(q, store)
    BY DEF Awaited, Keeps, Paying
  <2> HIDE DEF q
  <2> QED BY <1>1, <1>4, <2>1, FeedReads DEF q
<1> QED BY <1>3, <1>4 DEF StartPurchase

LEMMA BuyingFeed ==
  ASSUME OneAtATime, RightInv, OnceInv, FeedInv, NEW r \in Requests,
         CheckFunds(r) \/ RecordPurchase(r)
  PROVE  FeedInv'
<1>1. /\ Settled(r) /\ req[r].at \in {"checking", "confirming"} /\ Bought' = Bought
      /\ CheckFunds(r) => req[r].at = "checking"
  BY DEF CheckFunds, RecordPurchase, At, chain_vars, Bought
<1>2. req[r] \in [at : Buying, owner : Owners, tx : Right] /\ req[r].tx \in Txs
  BY <1>1, Locals DEF Buying, Right, RightTxs
<1>3. /\ req[r].tx.id \notin IdsOf(ListOf(store[txsOf(req[r].owner)]))
      /\ \A b \in Bought : b[1] = req[r].tx.id => b[2] = req[r].owner
  BY <1>1, <1>2, AtRest DEF Knows, ByOwner, Buying
<1>4. Awaited(req[r]) \subseteq {req[r].tx.id}
  BY DEF Awaited
<1>5. ASSUME NEW s \in {"declined", "settled"}, NEW q, q.at \in {"idle", "settled"},
             Recorded(r, req[r].owner, [req[r].tx EXCEPT !.status = s], q)
      PROVE  FeedInv'
  <2> DEFINE tx == [req[r].tx EXCEPT !.status = s]
  <2>1. tx \in Txs /\ tx.id = req[r].tx.id
    BY <1>2 DEF Txs
  <2>2. Recorded(r, req[r].owner, tx, q)
    BY <1>5
  <2> HIDE DEF tx
  <2>3. PICK o \in Owners : o = req[r].owner
    BY <1>2
  <2>4. /\ tx \in Txs /\ tx.id \notin IdsOf(ListOf(store[txsOf(o)]))
        /\ Awaited(req[r]) \subseteq {tx.id} /\ Recorded(r, o, tx, q)
        /\ \A b \in Bought : b[1] = tx.id => b[2] = o
    BY <1>3, <1>4, <2>1, <2>2, <2>3
  <2> QED BY <1>1, <1>5, <2>4, FeedPushes
<1>6. CASE RecordPurchase(r)
  <2> DEFINE q == [req[r] EXCEPT !.at = "settled", !.tx = [req[r].tx EXCEPT !.status = "settled"]]
  <2>1. q.at = "settled" /\ Recorded(r, req[r].owner, [req[r].tx EXCEPT !.status = "settled"], q)
    BY <1>2, <1>6 DEF RecordPurchase
  <2> HIDE DEF q
  <2> QED BY <1>5, <2>1
<1>7. CASE CheckFunds(r)
  <2>1. IdleReq.at = "idle"
    BY DEF IdleReq
  <2>2. CASE Recorded(r, req[r].owner, [req[r].tx EXCEPT !.status = "declined"], IdleReq)
    BY <1>5, <2>1, <2>2
  <2>3. CASE GotoWith(r, [req[r] EXCEPT !.at = "sending"])
    <3> DEFINE q == [req[r] EXCEPT !.at = "sending"]
    <3>1. q.at = "sending"
      BY <1>2
    <3>2. Awaited(q) = Awaited(req[r]) /\ Keeps(q, store)
      BY <1>1, <1>7, <3>1 DEF Awaited, Keeps, Paying
    <3> HIDE DEF q
    <3> QED BY <1>1, <2>3, <3>2, FeedReads DEF q
  <2> QED BY <1>7, <2>2, <2>3 DEF CheckFunds
<1> QED BY <1>6, <1>7

(* The chain is told of a purchase, and the request waits for it. *)
LEMMA SendSettlementFeed ==
  ASSUME OneAtATime, RightInv, OnceInv, FeedInv, NEW r \in Requests, SendSettlement(r)
  PROVE  FeedInv'
<1>1. Settled(r) /\ req[r].at = "sending" /\ executed' = executed
  BY DEF SendSettlement, At
<1>2. req[r] \in [at : Buying, owner : Owners, tx : Right]
  BY <1>1, Locals DEF Buying
<1>3. CASE Answer(r) /\ UNCHANGED inflight
  <2>1. Bought' = Bought
    BY <1>1, <1>3 DEF Bought
  <2> QED BY <1>1, <1>3, <2>1, FeedAnswers
<1>4. ASSUME NEW o, o = req[r].owner, NEW t, t = req[r].tx.id,
             NEW q, q = [req[r] EXCEPT !.at = "confirming"], GotoWith(r, q),
             inflight' = inflight \cup {[id |-> t, owner |-> o, amount |-> req[r].tx.amount]}
      PROVE  FeedInv'
  <2>1. PICK B : B = Bought \cup {<<t, o>>}
    OBVIOUS
  <2>2. Bought' = B
    <3>1. PICK x : /\ x.id = t /\ x.owner = o
                   /\ inflight' = inflight \cup {x} /\ executed' = executed
      BY <1>1, <1>4
    <3> QED BY <2>1, <3>1 DEF Bought
  <2>3. q.at = "confirming" /\ q.tx.id = t
    BY <1>2, <1>4
  <2>4. PICK e : e = store
    OBVIOUS
  <2>5. Goto(r, q) /\ After(r)' = e
    BY <1>1, <1>4, <2>4 DEF GotoWith, kv_vars, After, Settled
  <2>6. ASSUME NEW p \in Owners PROVE Complete(ListOf(e[txsOf(p)]), p, B, Awaited(q))
    <3>1. Complete(ListOf(e[txsOf(p)]), p, Bought, {})
      BY <1>1, <2>4, FeedNow DEF Awaited
    <3>2. Awaited(q) = {t}
      BY <2>3 DEF Awaited
    <3> QED BY <2>1, <3>1, <3>2 DEF Complete
  <2>7. Keeps(q, e)
    BY <2>3 DEF Keeps, Paying
  <2> QED BY <2>2, <2>5, <2>6, <2>7, FeedGoes
<1> QED BY <1>3, <1>4 DEF SendSettlement

LEMMA RewardFeed ==
  ASSUME OneAtATime, RightInv, OnceInv, FeedInv, NEW r \in Requests,
         ReadTier(r) \/ QueueCashback(r) \/ SaveQueued(r)
  PROVE  FeedInv'
<1>1. /\ Settled(r) /\ Bought' = Bought /\ req[r].at \in {"settled", "rewarding", "queueing"}
      /\ Awaited(req[r]) = {}
  BY DEF ReadTier, QueueCashback, SaveQueued, At, chain_vars, Bought, Awaited
<1>2. CASE ReadTier(r)
  <2> DEFINE q == [at |-> "rewarding", owner |-> req[r].owner, tx |-> req[r].tx,
                   tier |-> kvGet(card(req[r].owner)).tier]
  <2>1. Answer(r) \/ GotoWith(r, q)
    BY <1>2 DEF ReadTier
  <2>2. Awaited(q) = {} /\ Keeps(q, store)
    BY DEF Awaited, Keeps, Paying
  <2> HIDE DEF q
  <2> QED BY <1>1, <2>1, <2>2, FeedReads, FeedAnswers
<1>3. CASE QueueCashback(r)
  <2>0. PICK month :
          LET list == kvListRead(txsOf(req[r].owner), MaxList)
              tx   == [req[r].tx EXCEPT
                         !.cashback = Cashback(list, month, req[r].tx, req[r].tier)]
          IN  \/ Answer(r)
              \/ GotoWith(r, [at |-> "queueing", owner |-> req[r].owner,
                              list |-> Replaced(list, tx)])
    BY <1>3 DEF QueueCashback
  <2> DEFINE o    == req[r].owner
             list == kvListRead(txsOf(o), MaxList)
             tx   == [req[r].tx EXCEPT !.cashback = Cashback(list, month, req[r].tx, req[r].tier)]
             q    == [at |-> "queueing", owner |-> o, list |-> Replaced(list, tx)]
  <2>1. o \in Owners
    BY <1>3, Locals DEF QueueCashback, At
  <2>2. Answer(r) \/ GotoWith(r, q)
    BY <2>0
  <2>3. q.at = "queueing" /\ q.owner = o /\ q.list = Replaced(list, tx)
    OBVIOUS
  <2>4. list = ListOf(store[txsOf(o)]) /\ list \in Seq(Txs)
    BY <1>1, <2>1, FeedNow
  <2> HIDE DEF q, tx, list
  <2>5. SameIds(list, list)
    BY DEF SameIds
  <2>6. SameIds(q.list, list)
    BY <2>3, <2>4, <2>5, SameReplaced
  <2>7. Awaited(q) = {} /\ Keeps(q, store)
    BY <2>3, <2>4, <2>6 DEF Awaited, Keeps
  <2> QED BY <1>1, <2>2, <2>7, FeedReads, FeedAnswers
<1>4. CASE SaveQueued(r)
  <2>1. req[r].at = "queueing" /\ req[r].owner \in Owners
    BY <1>4, Locals DEF SaveQueued, At
  <2>2. req[r].list \in Seq(Own(req[r].owner, Told(req[r])))
    BY <1>1, <2>1, AtRest DEF Knows
  <2>3. req[r].list \in Seq(Txs)
    <3>1. Own(req[r].owner, Told(req[r])) \subseteq Txs
      BY DEF Own, OwnTxs, Right, RightTxs
    <3> QED BY <2>2, <3>1, SeqMonotonic
  <2>4. SameIds(req[r].list, ListOf(store[txsOf(req[r].owner)]))
    BY <1>1, <2>1, FeedNow DEF Keeps
  <2>5. Finish(r, kvListWrite(txsOf(req[r].owner), req[r].list))
    BY <1>4 DEF SaveQueued
  <2> QED BY <1>1, <2>1, <2>3, <2>4, <2>5, FeedSaves
<1> QED BY <1>2, <1>3, <1>4

LEMMA StartCashbackFeed ==
  ASSUME OneAtATime, RightInv, OnceInv, FeedInv, NEW r \in Requests, NEW o \in Owners,
         NEW t \in TxIds, StartCashback(r, o, t)
  PROVE  FeedInv'
<1> DEFINE list == kvListRead(txsOf(o), MaxList)
           q    == [at |-> "pricing", owner |-> o, tx |-> FindTx(list, t), list |-> list]
<1>1. /\ Settled(r) /\ Awaited(req[r]) = {} /\ Bought' = Bought /\ GotoWith(r, q)
  BY DEF StartCashback, At, chain_vars, Bought, Awaited
<1>2. list = ListOf(store[txsOf(o)])
  BY <1>1, FeedNow
<1>3. q.at = "pricing" /\ q.owner = o /\ q.list = list
  OBVIOUS
<1> HIDE DEF list, q
<1>4. Awaited(q) = {} /\ Keeps(q, store)
  BY <1>2, <1>3 DEF Awaited, Keeps, SameIds
<1> QED BY <1>1, <1>4, FeedReads

LEMMA MarkedFeed ==
  ASSUME OneAtATime, RightInv, OnceInv, FeedInv, NEW r \in Requests,
         NEW status \in {"sent", "failed"}, req[r].at \in Paying, Settled(r),
         Marked(r, status), Bought' = Bought
  PROVE  FeedInv'
<1>1. /\ req[r].owner \in Owners /\ req[r].tx \in Txs
      /\ req[r].list \in Seq(Right) /\ req[r].at # "confirming"
  BY Locals DEF Right, RightTxs, Paying
<1>2. req[r].list \in Seq(Txs)
  <2>1. Right \subseteq Txs
    BY DEF Right, RightTxs
  <2> QED BY <1>1, <2>1, SeqMonotonic
<1> DEFINE tx   == WithStatus(req[r].tx, status)
           list == Replaced(req[r].list, tx)
<1>3. tx \in Txs
  BY <1>1 DEF WithStatus, Txs
<1>4. Finish(r, kvListWrite(txsOf(req[r].owner), list))
  BY DEF Marked
<1> HIDE DEF tx
<1>5. list \in Seq(Txs)
  BY <1>2, <1>3, ReplacedSeq
<1>6. SameIds(list, ListOf(store[txsOf(req[r].owner)]))
  <2>1. SameIds(req[r].list, ListOf(store[txsOf(req[r].owner)]))
    BY FeedNow DEF Keeps
  <2> QED BY <1>2, <2>1, SameReplaced
<1> HIDE DEF list
<1> QED BY <1>1, <1>4, <1>5, <1>6, FeedSaves

LEMMA PayingFeed ==
  ASSUME OneAtATime, RightInv, OnceInv, FeedInv, NEW r \in Requests,
         PriceCashback(r) \/ SendDeposit(r) \/ MarkSent(r) \/ MarkFailed(r)
  PROVE  FeedInv'
<1>1. /\ Settled(r) /\ req[r].at \in Paying /\ Bought' = Bought /\ Awaited(req[r]) = {}
      /\ req[r].at # "confirming"
  BY DEF PriceCashback, SendDeposit, MarkSent, MarkFailed, Landed, At, chain_vars, Bought,
         Awaited, Paying
<1>2. req[r] \in [at : Paying, owner : Owners, tx : Right, list : Seq(Right)]
  BY <1>1, Locals
<1>3. ASSUME NEW s \in Paying, GotoWith(r, [req[r] EXCEPT !.at = s]) PROVE FeedInv'
  <2> DEFINE q == [req[r] EXCEPT !.at = s]
  <2>1. q.at = s /\ q.owner = req[r].owner /\ q.list = req[r].list
    BY <1>2
  <2> HIDE DEF q
  <2>2. Keeps(req[r], store)
    BY <1>1, FeedNow
  <2>3. Awaited(q) = {} /\ Keeps(q, store)
    BY <1>1, <1>3, <2>1, <2>2 DEF Awaited, Keeps, Paying
  <2> QED BY <1>1, <1>3, <2>3, FeedReads DEF q
<1>4. \/ Answer(r)
      \/ Marked(r, "sent") \/ Marked(r, "failed")
      \/ \E s \in Paying : GotoWith(r, [req[r] EXCEPT !.at = s])
  BY DEF PriceCashback, SendDeposit, MarkSent, MarkFailed, Paying
<1> QED BY <1>1, <1>3, <1>4, FeedAnswers, MarkedFeed

LEMMA FeedStep ==
  ASSUME OneRequest, RightInv, OnceInv, FeedInv, [Next]_vars
  PROVE  FeedInv'
<1>1. OneAtATime /\ \A r \in Requests : ~Stop(r) /\ ~ConfirmationTimesOut(r)
  BY DEF OneRequest, OneAtATime, Stop, ConfirmationTimesOut
<1>2. ASSUME NEW r \in Requests, Purchase(r) PROVE FeedInv'
  BY <1>1, <1>2, StartPurchaseFeed, BuyingFeed, SendSettlementFeed, RewardFeed DEF Purchase
<1>3. ASSUME NEW r \in Requests, CashbackJob(r) PROVE FeedInv'
  BY <1>1, <1>3, StartCashbackFeed, PayingFeed DEF CashbackJob
<1> QED BY <1>1, <1>2, <1>3, CardApiFeed, FeedStore, FeedRests DEF Next

LEMMA FeedIsComplete ==
  ASSUME OneRequest, RightInv, OnceInv, FeedInv
  PROVE  FeedComplete
<1> SUFFICES ASSUME Quiet, NEW o \in Owners
             PROVE  /\ Cardinality(IdsOf(Feed(o))) = Len(Feed(o))
                    /\ \A x \in executed :
                         x.owner = o => x.id \in IdsOf(Feed(o)) \/ Len(Feed(o)) = MaxList
  BY DEF FeedComplete
<1>1. PICK r \in Requests : req[r].at = "idle" /\ Settled(r)
  BY DEF OneRequest, Quiet, At
<1>2. PICK L \in Seq(Txs) : L = Feed(o) /\ Complete(L, o, Bought, {})
  BY <1>1, FeedNow DEF Feed, Awaited
<1>3. PICK n \in Nat : n = Len(L) /\ DOMAIN L = 1 .. n
  BY LenProperties
<1>4. Cardinality(IdsOf(L)) = n
  <2> DEFINE f == [i \in 1 .. n |-> L[i].id]
  <2>1. \A i, j \in 1 .. n : f[i] = f[j] => i = j
    BY <1>2, <1>3 DEF Complete, IdsApart
  <2>2. IdsOf(L) = {f[i] : i \in 1 .. n}
    BY <1>3 DEF IdsOf
  <2>3. f \in [1 .. n -> IdsOf(L)]
    BY <2>2
  <2> HIDE DEF f
  <2>4. f \in Bijection(1 .. n, IdsOf(L))
    BY <2>1, <2>2, <2>3 DEF Bijection, Injection, Surjection, IsInjective
  <2>5. IsFiniteSet(1 .. n) /\ Cardinality(1 .. n) = n
    BY FS_Interval
  <2>6. f \in Surjection(1 .. n, IdsOf(L)) /\ f \in Injection(1 .. n, IdsOf(L))
    BY <2>4 DEF Bijection
  <2>7. Cardinality(IdsOf(L)) = Cardinality(1 .. n)
    BY <2>5, <2>6, FS_Surjection, FS_Injection
  <2> QED BY <2>5, <2>7
<1>5. ASSUME NEW x \in executed, x.owner = o
      PROVE  x.id \in IdsOf(L) \/ Len(L) = MaxList
  <2>1. PICK b \in Bought : b[1] = x.id /\ b[2] = o
    <3>1. <<x.id, x.owner>> \in Bought
      BY DEF Bought
    <3> QED BY <1>5, <3>1
  <2> QED BY <1>2, <2>1 DEF Complete
<1> QED BY <1>2, <1>3, <1>4, <1>5

(* "USDC moves to the merchant settlement address and the transaction appears in the card *)
(* feed" (spec.md:25): of requests handled one at a time by a server that neither stops   *)
(* nor gives up on a confirmation, at rest the feed has every purchase the chain executed, *)
(* once, unless it is full, over either store and whatever the owner's wallet spends.     *)
THEOREM FeedAlwaysComplete ==
  ASSUME OneRequest
  PROVE  Spec => []FeedComplete
<1>1. Init => RightInv /\ OnceInv /\ FeedInv
  BY RightInit, OnceInit, FeedInit
<1>2. RightInv /\ OnceInv /\ FeedInv /\ [Next]_vars => (RightInv /\ OnceInv /\ FeedInv)'
  <2>1. OneAtATime
    BY DEF OneRequest, OneAtATime
  <2> QED BY <2>1, RightStep, OnceStep, FeedStep
<1>3. RightInv /\ OnceInv /\ FeedInv => FeedComplete
  BY FeedIsComplete
<1> QED BY <1>1, <1>2, <1>3, PTL DEF Spec
=============================================================================
