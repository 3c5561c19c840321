------------------------------- MODULE PythFeeds -------------------------------
(***************************************************************************)
(* resolveFeedIds of app/src/lib/prices/pyth.ts for one symbol: Pyth's feed id *)
(* and trading flag, from two caches that the requests of a server process     *)
(* share, or from Hermes.  Prices of the feed are among PriceDesk's Readings.   *)
(***************************************************************************)
EXTENDS Naturals

CONSTANTS
  Requests,     \* syncs being served at one time
  Ids,          \* the ids Hermes may give the symbol
  Override,     \* the id PYTH_FEED_IDS pins, or None
  None,
  FeedTtl,      \* 24 h
  HoursTtl,     \* 60 s
  MaxTime,      \* bound: how late it may get
  Fails         \* whether Hermes may answer an error or not at all

FeedsAssumption ==
  /\ None \notin Ids /\ FeedTtl \in Nat /\ HoursTtl \in Nat \ {0} /\ MaxTime \in Nat

Times == 0..MaxTime

VARIABLES
  hermes,      \* by time, the id and the flag Hermes has, None for no such feed
  feedCache,   \* [id, at] or None
  hoursCache,  \* [open, at] or None
  req,         \* by request, what it is doing and its local variables
  now

vars == <<hermes, feedCache, hoursCache, req, now>>

IdleReq == [at |-> "idle"]
Goto(r, state) == req' = [req EXCEPT ![r] = state]

cachedId ==
  IF Override # None THEN Override
  ELSE IF feedCache # None THEN feedCache.id ELSE None
cachedIdFresh(r) ==
  Override # None \/ (feedCache # None /\ req[r].since < feedCache.at + FeedTtl)
HoursFresh(r) == hoursCache # None /\ req[r].since < hoursCache.at + HoursTtl

(* What an entry is stamped with: the call's time, however long Hermes took. *)
AnswerTime(r) == now
Stamp(r)      == req[r].since

Resolved(r, id, open) ==
  Goto(r, [at |-> "resolved", id |-> id, open |-> open, since |-> req[r].since])

(* The call reads the clock once; the symbols before this one may take a while. *)
Start(r) ==
  /\ req[r].at = "idle"
  /\ Goto(r, [at |-> "checking", since |-> now])
  /\ UNCHANGED <<hermes, feedCache, hoursCache, now>>

Resolve(r) ==
  /\ req[r].at = "checking"
  /\ IF cachedId # None /\ cachedIdFresh(r) /\ HoursFresh(r)
     THEN Resolved(r, cachedId, hoursCache.open)
     ELSE Goto(r, [at |-> "asking", cached |-> cachedId, since |-> req[r].since])
  /\ UNCHANGED <<hermes, feedCache, hoursCache, now>>

(* Hermes answers with what it has; the answer is read whenever it arrives. *)
HermesAnswers(r) ==
  /\ req[r].at = "asking"
  /\ Goto(r, [at |-> "answered", cached |-> req[r].cached, since |-> req[r].since,
              answer |-> hermes[now]])
  /\ UNCHANGED <<hermes, feedCache, hoursCache, now>>

(* An error status, or an exception before or while the answer is read: the cached *)
(* id, and no flag.                                                                *)
AskFailed(r) ==
  /\ Fails /\ req[r].at \in {"asking", "answered"}
  /\ Resolved(r, req[r].cached, None)
  /\ UNCHANGED <<hermes, feedCache, hoursCache, now>>

NoMatch(r) ==
  /\ req[r].at = "answered" /\ req[r].answer.id = None
  /\ Resolved(r, None, None)
  /\ UNCHANGED <<hermes, feedCache, hoursCache, now>>

Match(r) ==
  /\ req[r].at = "answered" /\ req[r].answer.id # None
  /\ feedCache' = [id |-> req[r].answer.id, at |-> Stamp(r)]
  /\ hoursCache' = [open |-> req[r].answer.open, at |-> Stamp(r)]
  /\ Resolved(r, req[r].answer.id, req[r].answer.open)
  /\ UNCHANGED <<hermes, now>>

Answer(r) ==
  /\ req[r].at = "resolved"
  /\ Goto(r, IdleReq)
  /\ UNCHANGED <<hermes, feedCache, hoursCache, now>>

(* Another process starts serving: its caches are empty. *)
Restart ==
  /\ feedCache' = None /\ hoursCache' = None
  /\ req' = [r \in Requests |-> IdleReq]
  /\ UNCHANGED <<hermes, now>>

Tick == now < MaxTime /\ now' = now + 1 /\ UNCHANGED <<hermes, feedCache, hoursCache, req>>

Init ==
  /\ hermes \in [Times -> [id : Ids \cup {None}, open : BOOLEAN]]
  /\ feedCache = None /\ hoursCache = None
  /\ req = [r \in Requests |-> IdleReq]
  /\ now = 0

Next ==
  \/ \E r \in Requests :
       \/ Start(r) \/ Resolve(r) \/ HermesAnswers(r) \/ AskFailed(r)
       \/ NoMatch(r) \/ Match(r) \/ Answer(r)
  \/ Restart \/ Tick

Spec == Init /\ [][Next]_vars

-----------------------------------------------------------------------------
(* Properties *)

Answered == {r \in Requests : req[r].at = "resolved" /\ req[r].id # None}
Since(r, ttl) == {t \in Times : t <= now /\ t + ttl > req[r].since}

(* "re-reads it every 60 s" (parameters.md:107): a flag that gates the signer is *)
(* one that Hermes had within HoursTtl of the call that is given it, whichever    *)
(* request read it and however late its answer came.  What the call itself takes   *)
(* comes on top: a flag may be that much older when it is used.                 *)
FlagFresh ==
  \A r \in Answered : req[r].open # None =>
    \E t \in Since(r, HoursTtl) : hermes[t].open = req[r].open
=============================================================================
