-------------------------------- MODULE Alerts ---------------------------------
(***************************************************************************)
(* Liquidation alerts over KvStore: POST /api/alerts/check, the list of an     *)
(* owner's devices (lib/push.ts, /api/push/subscribe, /api/push/test) and the  *)
(* card that turns alerts on (components/alerts-card.tsx).                     *)
(*                                                                         *)
(* One owner, one market.  The position moves between alert bands, ranked      *)
(* 0 healthy, 1 watch, 2 warning, 3 urgent, 4 liquidatable (lib/risk.ts), or   *)
(* has no loan.  An endpoint is one push subscription of one browser.  A check *)
(* with dryRun writes and sends nothing and is left out.                       *)
(***************************************************************************)
EXTENDS KvStore, FiniteSets

CONSTANTS
  Requests,     \* the requests being served at one time
  Endpoints,
  Registered,   \* the endpoints already in the list at the start
  Bands,        \* the bands the position visits
  NoLoan,       \* nothing borrowed or nothing locked: the check skips it
  MAX_DEVICES,
  MaxMoves,     \* bound: how often the position changes band
  MaxStops,     \* bound: how often a request stops or its store fails
  Fails         \* whether the push service may fail to deliver

pushKey  == <<"push">>
alertKey == <<"alert">>

AlertsAssumption ==
  /\ Clients = Requests /\ {pushKey, alertKey} \subseteq Keys
  /\ Bands \subseteq 0..4 /\ NoLoan \notin 0..4
  /\ NoEntry \notin 0..4 /\ NoEntry \notin Seq(Endpoints)   \* null is neither
  /\ Registered \subseteq Endpoints /\ IsFiniteSet(Endpoints)
  /\ MAX_DEVICES \in Nat \ {0} /\ MaxMoves \in Nat /\ MaxStops \in Nat
  /\ Fails \in BOOLEAN

VARIABLES
  req,       \* by request, what it is doing and its local variables
  bands,     \* the bands the position has been in, the last one now
  endpoint,  \* by endpoint, "unused", "live" or "gone"
  card,      \* by endpoint, what its browser shows: "off", "busy" or "on"
  removed,   \* endpoints whose removal was answered and not turned on since
  pushed,    \* by endpoint, the alerts shown on it, each with the place in
             \* bands of the band it was computed from
  stops

device_vars == <<endpoint, card, removed>>
vars == <<kv_vars, req, bands, device_vars, pushed, stops>>

IdleReq == [at |-> "idle"]
At(r, place) == req[r].at = place /\ Settled(r)
Goto(r, state) == req' = [req EXCEPT ![r] = state]
GotoWith(r, state) == Goto(r, state) /\ UNCHANGED kv_vars
Moved(r, place) == [req[r] EXCEPT !.at = place]
AllIdle == \A r \in Requests : At(r, "idle")

Band == bands[Len(bands)]
Notifying(b) == b >= 2
Devices == ListOf(kvGet(pushKey))
Without(list, gone) == Only(list, Endpoints \ gone)

-----------------------------------------------------------------------------
(* The check. *)

ReadPosition(r) ==
  /\ At(r, "idle") /\ Band # NoLoan
  /\ GotoWith(r, [at |-> "comparing", band |-> Band, seen |-> Len(bands)])
  /\ UNCHANGED <<bands, device_vars, pushed, stops>>

NotTheFirst(band, last) == Notifying(band) /\ last # NoEntry /\ band > last
shouldNotify(band, last) == Notifying(band) /\ (last = NoEntry \/ band > last)

TrackImprovement(r, band) ==
  IF band # kvGet(alertKey) THEN Await(r, kvSet(alertKey, band)) ELSE UNCHANGED kv_vars

CompareBand(r) ==
  /\ At(r, "comparing")
  /\ IF shouldNotify(req[r].band, kvGet(alertKey))
     THEN GotoWith(r, Moved(r, "listing"))
     ELSE TrackImprovement(r, req[r].band) /\ Goto(r, IdleReq)
  /\ UNCHANGED <<bands, device_vars, pushed, stops>>

TestPush(r) ==
  /\ At(r, "idle")
  /\ GotoWith(r, [at |-> "listing"])
  /\ UNCHANGED <<bands, device_vars, pushed, stops>>

IsAlert(r) == "band" \in DOMAIN req[r]

ToAll(x, list) ==
  IF "band" \in DOMAIN x
  THEN [at |-> "sending", band |-> x.band, seen |-> x.seen,
        subs |-> list, pending |-> ToSet(list), dead |-> {}]
  ELSE [at |-> "sending", subs |-> list, pending |-> ToSet(list), dead |-> {}]

listSubscriptions(r) ==
  /\ At(r, "listing")
  /\ GotoWith(r, ToAll(req[r], Devices))
  /\ UNCHANGED <<bands, device_vars, pushed, stops>>

sendNotification(r, e) ==
  /\ At(r, "sending") /\ e \in req[r].pending
  /\ GotoWith(r, [req[r] EXCEPT !.pending = @ \ {e},
                                !.dead = IF endpoint[e] = "gone" THEN @ \union {e} ELSE @])
  /\ \/ /\ endpoint[e] = "live" /\ IsAlert(r)
        /\ pushed' = [pushed EXCEPT
                        ![e] = Append(@, [band |-> req[r].band, seen |-> req[r].seen])]
     \/ /\ endpoint[e] = "gone" \/ Fails \/ ~IsAlert(r)
        /\ UNCHANGED pushed
  /\ UNCHANGED <<bands, device_vars, stops>>

DropDead(r) ==
  /\ At(r, "sending") /\ req[r].pending = {}
  /\ IF req[r].dead = {} THEN UNCHANGED kv_vars
     ELSE Await(r, kvSet(pushKey, Without(req[r].subs, req[r].dead)))
  /\ Goto(r, IF IsAlert(r) THEN Moved(r, "recording") ELSE IdleReq)
  /\ UNCHANGED <<bands, device_vars, pushed, stops>>

writeLastBand(r) ==
  /\ At(r, "recording")
  /\ Await(r, kvSet(alertKey, req[r].band)) /\ Goto(r, IdleReq)
  /\ UNCHANGED <<bands, device_vars, pushed, stops>>

-----------------------------------------------------------------------------
(* Devices. *)

turnOn(r, e) ==
  /\ At(r, "idle") /\ card[e] = "off" /\ endpoint[e] # "gone"
  /\ endpoint' = [endpoint EXCEPT ![e] = "live"]
  /\ card' = [card EXCEPT ![e] = "busy"]
  /\ removed' = removed \ {e}
  /\ GotoWith(r, [at |-> "adding", device |-> e])
  /\ UNCHANGED <<bands, pushed, stops>>

Latest(list, n) == SubSeq(list, IF Len(list) > n THEN Len(list) - n + 1 ELSE 1, Len(list))
Registering(list, e, n) == Latest(Append(Without(list, {e}), e), n)

addSubscription(r) ==
  /\ At(r, "adding")
  /\ Await(r, kvSet(pushKey, Registering(Devices, req[r].device, MAX_DEVICES)))
  /\ Goto(r, Moved(r, "added"))
  /\ UNCHANGED <<bands, device_vars, pushed, stops>>

AnswerAdded(r) ==
  /\ At(r, "added")
  /\ card' = [card EXCEPT ![req[r].device] = "on"]
  /\ GotoWith(r, IdleReq)
  /\ UNCHANGED <<bands, endpoint, removed, pushed, stops>>

(* DELETE /api/push/subscribe: no page of the app sends it.                     *)
removeSubscription(r, e) ==
  /\ At(r, "idle") /\ endpoint[e] # "unused"
  /\ Await(r, kvSet(pushKey, Without(Devices, {e})))
  /\ Goto(r, [at |-> "removed", device |-> e])
  /\ UNCHANGED <<bands, device_vars, pushed, stops>>

AnswerRemoved(r) ==
  /\ At(r, "removed")
  /\ removed' = removed \union {req[r].device}
  /\ GotoWith(r, IdleReq)
  /\ UNCHANGED <<bands, endpoint, card, pushed, stops>>

(* The card asks the browser, not the server, whether there is a subscription. *)
Reload(e) ==
  /\ card' = [card EXCEPT ![e] = IF endpoint[e] = "live" THEN "on" ELSE "off"]
  /\ UNCHANGED <<kv_vars, req, bands, endpoint, removed, pushed, stops>>

Expire(e) ==
  /\ endpoint[e] = "live"
  /\ endpoint' = [endpoint EXCEPT ![e] = "gone"]
  /\ UNCHANGED <<kv_vars, req, bands, card, removed, pushed, stops>>

-----------------------------------------------------------------------------
(* The market and the borrower, and what may happen to a request. *)

Move(b) ==
  /\ Len(bands) <= MaxMoves /\ b # Band
  /\ bands' = Append(bands, b)
  /\ UNCHANGED <<kv_vars, req, device_vars, pushed, stops>>

Stop(r) ==
  /\ stops < MaxStops /\ (req[r] # IdleReq \/ ~Settled(r))
  /\ stops' = stops + 1
  /\ Abandon(r) /\ Goto(r, IdleReq)
  /\ card' = IF req[r].at \in {"adding", "added"}
             THEN [card EXCEPT ![req[r].device] = IF @ = "busy" THEN "off" ELSE @]
             ELSE card
  /\ UNCHANGED <<bands, endpoint, removed, pushed>>

StoreActs(r) == KvStep(r) /\ UNCHANGED <<req, bands, device_vars, pushed, stops>>

-----------------------------------------------------------------------------
(* The Registered endpoints were turned on before the first step. *)
Registry == [k \in Keys |-> IF k = pushKey /\ Registered # {}
                            THEN SetToSeq(Registered) ELSE NoEntry]

AlertsInit ==
  /\ bands = <<0>>
  /\ endpoint = [e \in Endpoints |-> IF e \in Registered THEN "live" ELSE "unused"]
  /\ card = [e \in Endpoints |-> IF e \in Registered THEN "on" ELSE "off"]
  /\ removed = {}
  /\ pushed = [e \in Endpoints |-> <<>>]
  /\ stops = 0

Init ==
  /\ store = Registry
  /\ todo = [r \in Clients |-> <<>>] /\ doc = [r \in Clients |-> NoDoc]
  /\ req = [r \in Requests |-> IdleReq]
  /\ AlertsInit

CheckSteps(r) ==
  \/ ReadPosition(r) \/ CompareBand(r) \/ listSubscriptions(r)
  \/ \E e \in Endpoints : sendNotification(r, e)
  \/ DropDead(r) \/ writeLastBand(r) \/ StoreActs(r)

DeviceSteps(r) ==
  \/ TestPush(r)
  \/ \E e \in Endpoints : turnOn(r, e) \/ removeSubscription(r, e)
  \/ addSubscription(r) \/ AnswerAdded(r) \/ AnswerRemoved(r)

Next ==
  \/ \E r \in Requests : CheckSteps(r) \/ DeviceSteps(r) \/ Stop(r)
  \/ \E e \in Endpoints : Reload(e) \/ Expire(e)
  \/ \E b \in Bands \union {NoLoan} : Move(b)

Spec == Init /\ [][Next]_vars

(* The schedule calls the check every five minutes and a request that is       *)
(* served goes on: checks alone, with the devices registered before.           *)
CheckNext ==
  \/ \E r \in Requests : CheckSteps(r) \/ Stop(r)
  \/ \E b \in Bands \union {NoLoan} : Move(b)

-----------------------------------------------------------------------------
(* Properties *)

BandsBetween(first, second) == {bands[m] : m \in first.seen .. second.seen}

(* "no duplicate push is sent; a new push is sent only when the position enters *)
(* a worse band" (spec.md:60): between two alerts on one device the position    *)
(* was in a better band than the one the second alert tells of.                *)
EntersWorse ==
  \A e \in Endpoints : \A i, j \in DOMAIN pushed[e] : i < j =>
    \E b \in BandsBetween(pushed[e][i], pushed[e][j]) :
      b = NoLoan \/ b < pushed[e][j].band

(* "Alerts are on for this device. We'll warn you before your position can be   *)
(* liquidated" (alerts-card.tsx:136): a device that shows it is one the server  *)
(* sends to.                                                                   *)
CardTrue ==
  AllIdle => \A e \in Endpoints :
    card[e] = "on" /\ endpoint[e] = "live" /\ e \notin removed => e \in ToSet(Devices)

(* "Push subscriptions MUST be ... removable by the user" (FR-045, spec.md:208): *)
(* a device whose removal was answered is not in the list again.               *)
RemovedStaysOut == removed \intersect ToSet(Devices) = {}

(* The band on record is in the end the position's, so that the next worse band *)
(* is one the check tells of.                                                  *)
RecordFollows == <>[](Band = NoLoan \/ kvGet(alertKey) = Band)

(* An owner whose position stays in a band that notifies has been told of that  *)
(* band, or of a worse one before, on every registered device.                 *)
Warned ==
  <>[](Band # NoLoan /\ Notifying(Band) =>
         \A e \in Registered : \E i \in DOMAIN pushed[e] : pushed[e][i].band >= Band)
=============================================================================
