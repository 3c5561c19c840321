------------------------------- MODULE Waitlist --------------------------------
(***************************************************************************)
(* The waiting list on Redis (landing/src/lib/waitlist.ts with Upstash) and    *)
(* the form that calls it (landing/src/components/WaitlistForm.tsx).  Every    *)
(* step of a request is one Redis command and the code up to the next one;     *)
(* requests run in between.                                                    *)
(*                                                                         *)
(* Joining is stamped with Date.now(): `clock` counts the stamps, the code of   *)
(* a sign-up is its stamp's number, and 0 stands for none.                      *)
(***************************************************************************)
EXTENDS Naturals, FiniteSets

CONSTANTS
  Emails, Nobody, NoRecord, MaxSignups, SPOTS,   \* as in WaitlistMemory
  Requests,             \* forms being submitted at one time, from one network
  RATE_LIMIT_PER_HOUR,  \* 5
  Stops                 \* whether a request may break off

Codes == 1..MaxSignups

VARIABLES
  records,   \* waitlist:{email}
  refs,      \* ref:{code}
  queue,     \* by address, its score, 0 if it is not a member
  rl,        \* rl:waitlist:{ip}: the count, and whether it expires
  req,       \* by request, what it is about to do and its local variables
  clock,     \* stamps taken
  told       \* by address, the last answer it was given

vars == <<records, refs, queue, rl, req, clock, told>>

Idle == [at |-> "idle"]
At(r, place) == req[r].at = place
Goto(r, state) == req' = [req EXCEPT ![r] = state]
Moved(r, place) == [req[r] EXCEPT !.at = place]

NewRecord(code, ref) == [code |-> code, ref |-> ref, count |-> 0, reward |-> FALSE]
Answer(code, position) == [code |-> code, position |-> position]

effectivePosition(base, referrals) ==
  IF base > SPOTS * referrals THEN base - SPOTS * referrals ELSE 1
(* zrank is null for an address that is not queued, and `rank ?? 0` is 0. *)
Zrank(e) == IF queue[e] = 0 THEN 0
            ELSE Cardinality({f \in Emails : queue[f] # 0 /\ queue[f] < queue[e]})

-----------------------------------------------------------------------------
(* A link holds a code that was shown to somebody. *)
Shown == {told[e].code : e \in {f \in Emails : told[f] # NoRecord}}

onSubmit(r, e, ref) ==
  /\ At(r, "idle") /\ ref \in Shown \union {0}
  /\ Goto(r, [at |-> "incr", email |-> e, ref |-> ref])
  /\ UNCHANGED <<records, refs, queue, rl, clock, told>>

(* rateLimited; above the limit the count no longer matters. *)
Counted == IF rl.count > RATE_LIMIT_PER_HOUR THEN rl.count ELSE rl.count + 1
Incr(r) ==
  /\ At(r, "incr")
  /\ rl' = [rl EXCEPT !.count = Counted]
  /\ Goto(r, IF Counted = 1 THEN Moved(r, "expire")
             ELSE IF Counted > RATE_LIMIT_PER_HOUR THEN Idle
             ELSE Moved(r, "hgetall"))
  /\ UNCHANGED <<records, refs, queue, clock, told>>

Expire(r) ==
  /\ At(r, "expire")
  /\ rl' = IF rl.count = 0 THEN rl ELSE [rl EXCEPT !.expires = TRUE]
  /\ Goto(r, Moved(r, "hgetall"))
  /\ UNCHANGED <<records, refs, queue, clock, told>>

(* addToWaitlist *)
Hgetall(r) ==
  LET e == req[r].email
      found == records[e]
  IN  /\ At(r, "hgetall")
      /\ IF found # NoRecord
         THEN /\ Goto(r, [at |-> "known", email |-> e, found |-> found])
              /\ UNCHANGED clock
         ELSE /\ clock < MaxSignups /\ clock' = clock + 1
              /\ Goto(r, [at |-> "hset", email |-> e, ref |-> req[r].ref, code |-> clock'])
      /\ UNCHANGED <<records, refs, queue, rl, told>>

AnswerKnown(r) ==
  LET found == req[r].found
      e == req[r].email
  IN  /\ At(r, "known")
      /\ told' = [told EXCEPT ![e] =
                    Answer(found.code, effectivePosition(Zrank(e) + 1, found.count))]
      /\ Goto(r, Idle)
      /\ UNCHANGED <<records, refs, queue, rl, clock>>

Hset(r) ==
  /\ At(r, "hset")
  /\ records' = [records EXCEPT ![req[r].email] = NewRecord(req[r].code, req[r].ref)]
  /\ Goto(r, Moved(r, "set"))
  /\ UNCHANGED <<refs, queue, rl, clock, told>>

SetRef(r) ==
  /\ At(r, "set")
  /\ refs' = [refs EXCEPT ![req[r].code] = req[r].email]
  /\ Goto(r, Moved(r, "zadd"))
  /\ UNCHANGED <<records, queue, rl, clock, told>>

Zadd(r) ==
  /\ At(r, "zadd")
  /\ queue' = [queue EXCEPT ![req[r].email] = req[r].code]
  /\ Goto(r, Moved(r, IF req[r].ref = 0 THEN "zrank" ELSE "get"))
  /\ UNCHANGED <<records, refs, rl, clock, told>>

GetReferrer(r) ==
  LET referrer == refs[req[r].ref]
  IN  /\ At(r, "get")
      /\ Goto(r, IF referrer \in {Nobody, req[r].email} THEN Moved(r, "zrank")
                 ELSE [at |-> "hincrby", email |-> req[r].email, ref |-> req[r].ref,
                       code |-> req[r].code, referrer |-> referrer])
      /\ UNCHANGED <<records, refs, queue, rl, clock, told>>

Hincrby(r) ==
  /\ At(r, "hincrby")
  /\ records' = [records EXCEPT ![req[r].referrer].count = @ + 1]
  /\ Goto(r, Moved(r, "reward"))
  /\ UNCHANGED <<refs, queue, rl, clock, told>>

HsetReward(r) ==
  /\ At(r, "reward")
  /\ records' = [records EXCEPT ![req[r].referrer].reward = TRUE]
  /\ Goto(r, Moved(r, "zrank"))
  /\ UNCHANGED <<refs, queue, rl, clock, told>>

AnswersRank(r) ==
  LET e == req[r].email
  IN  /\ At(r, "zrank")
      /\ told' = [told EXCEPT ![e] = Answer(req[r].code, Zrank(e))]
      /\ Goto(r, Idle)
      /\ UNCHANGED <<records, refs, queue, rl, clock>>
AnswerJoined(r) ==
  LET e == req[r].email
  IN  /\ At(r, "zrank")
      /\ told' = [told EXCEPT ![e] = Answer(req[r].code, Zrank(e) + 1)]
      /\ Goto(r, Idle)
      /\ UNCHANGED <<records, refs, queue, rl, clock>>

(* The server stops, or a command fails and throws: "Network error. Try again." *)
Stop(r) ==
  /\ Stops /\ req[r] # Idle /\ Goto(r, Idle)
  /\ UNCHANGED <<records, refs, queue, rl, clock, told>>

(* An hour later. *)
KeyExpires ==
  /\ rl.expires /\ rl' = [count |-> 0, expires |-> FALSE]
  /\ UNCHANGED <<records, refs, queue, req, clock, told>>

-----------------------------------------------------------------------------
ListInit ==
  /\ records = [e \in Emails |-> NoRecord]
  /\ refs = [c \in Codes |-> Nobody]
  /\ queue = [e \in Emails |-> 0]
  /\ rl = [count |-> 0, expires |-> FALSE]
  /\ clock = 0
  /\ told = [e \in Emails |-> NoRecord]

Init == ListInit /\ req = [r \in Requests |-> Idle]

Serves(r) ==
  \/ Incr(r) \/ Expire(r) \/ Hgetall(r) \/ AnswerKnown(r)
  \/ Hset(r) \/ SetRef(r) \/ Zadd(r) \/ GetReferrer(r)
  \/ Hincrby(r) \/ HsetReward(r) \/ AnswerJoined(r)

Next ==
  \/ \E r \in Requests :
       \/ \E e \in Emails, ref \in Codes \union {0} : onSubmit(r, e, ref)
       \/ Serves(r) \/ Stop(r)
  \/ KeyExpires

Spec == Init /\ [][Next]_vars

-----------------------------------------------------------------------------
(* GET /api/waitlist/[code].  It reads three keys none of which is ever taken   *)
(* away, so that reading them at once shows what it could.                      *)
getWaitlistStatus(code) ==
  LET e == refs[code]
  IN  IF e = Nobody THEN NoRecord
      ELSE IF records[e] = NoRecord \/ queue[e] = 0 THEN NoRecord
      ELSE [position |-> effectivePosition(Zrank(e) + 1, records[e].count),
            referralCount |-> records[e].count]

ListAssumption == NoRecord \notin [position : Nat, referralCount : Nat]

-----------------------------------------------------------------------------
(* Properties *)

AtRest == \A r \in Requests : req[r] = Idle
Friends(e) == {f \in Emails \ {e} : records[f] # NoRecord /\ records[f].ref # 0
                                     /\ refs[records[f].ref] = e}

(* "Move up 10 spots per friend who joins" (WaitlistForm.tsx:158): when no       *)
(* request is running, an address has been credited once for every friend.     *)
CreditedPerFriend ==
  AtRest => \A e \in Emails :
    records[e] # NoRecord =>
      /\ records[e].count = Cardinality(Friends(e))
      /\ records[e].reward <=> Friends(e) # {}

(* A code that was given out leads to a place in the queue (README.md:36).       *)
GivenCodeWorks == \A c \in Shown : getWaitlistStatus(c) # NoRecord

(* One request at a time, the list is that of the memory back end: a sign-up    *)
(* takes place when it is answered.                                            *)
Joining(e) == \E r \in Requests : req[r].at \in {"set", "zadd", "get", "hincrby", "reward", "zrank"}
                                   /\ req[r].email = e
Joined(e) == records[e] # NoRecord /\ ~Joining(e)
Early(e) == \E r \in Requests : req[r].at = "reward" /\ req[r].referrer = e
Later(e) == \E r \in Requests : req[r].at = "zrank" /\ "referrer" \in DOMAIN req[r]
                                 /\ req[r].referrer = e
CountSoFar(e) == records[e].count - (IF Early(e) \/ Later(e) THEN 1 ELSE 0)
SettledRecord(e) ==
  IF ~Joined(e) THEN NoRecord
  ELSE [records[e] EXCEPT !.count = CountSoFar(e), !.reward = CountSoFar(e) > 0]
SettledCodes == [c \in Codes |-> IF refs[c] # Nobody /\ Joined(refs[c]) THEN refs[c] ELSE Nobody]
InOrder == LET members == {e \in Emails : Joined(e)}
           IN  [i \in 1..Cardinality(members) |->
                  CHOOSE e \in members :
                    Cardinality({f \in members : records[f].code <= records[e].code}) = i]
Memory == INSTANCE WaitlistMemory
  WITH records <- [e \in Emails |-> SettledRecord(e)], codes <- SettledCodes,
       queue <- InOrder, signups <- Cardinality({e \in Emails : Joined(e)}),
       told <- told, file <- 0, timer <- 0
ImplementsMemory == Memory!Core
=============================================================================
