---------------------------- MODULE WaitlistMemory -----------------------------
(***************************************************************************)
(* The waiting list in the server's memory (landing/src/lib/waitlist.ts,       *)
(* without Upstash): a sign-up runs to its end before the next one, and a      *)
(* timer writes everything to WAITLIST_FILE.  Core is the list alone, which    *)
(* the Redis back end (Waitlist) implements one request at a time.             *)
(*                                                                         *)
(* A code, random in the program, is the number of the sign-up it was made     *)
(* for: no two are equal, and 0 stands for none.                               *)
(***************************************************************************)
EXTENDS Naturals, Sequences, FiniteSets

CONSTANTS
  Emails,      \* addresses that pass validateInput
  Nobody,      \* no address
  NoRecord,    \* no record of an address
  MaxSignups,  \* bound: new sign-ups
  SPOTS        \* REFERRAL_SPOTS_PER_FRIEND, 10

Codes == 1..MaxSignups
Entry == [code : Codes, ref : 0..MaxSignups, count : Nat, reward : BOOLEAN]

WaitlistAssumption ==
  /\ Nobody \notin Emails /\ NoRecord \notin Entry
  /\ MaxSignups \in Nat \ {0} /\ SPOTS \in Nat \ {0}

VARIABLES
  records,   \* by address, its code, referral count and whether it has the reward
  codes,     \* by code, its address
  queue,     \* the addresses in the order they joined
  signups,   \* how many joined
  told       \* by address, the last answer it was given

core_vars == <<records, codes, queue, signups, told>>

NewRecord(code, ref) == [code |-> code, ref |-> ref, count |-> 0, reward |-> FALSE]
Credited(record) == [record EXCEPT !.count = @ + 1, !.reward = TRUE]
effectivePosition(base, referrals) ==
  IF base > SPOTS * referrals THEN base - SPOTS * referrals ELSE 1
Answer(code, position) == [code |-> code, position |-> position]
Place(list, e) == CHOOSE i \in 1..Len(list) : list[i] = e

(* An address that joined before is told where it stands. *)
AlreadyJoined(e) ==
  /\ records[e] # NoRecord
  /\ told' = [told EXCEPT ![e] =
                Answer(records[e].code,
                       effectivePosition(Place(queue, e), records[e].count))]
  /\ UNCHANGED <<records, codes, queue, signups>>

Join(e, ref) ==
  LET code == signups + 1
      added == [records EXCEPT ![e] = NewRecord(code, ref)]
      referrer == IF ref = 0 THEN Nobody ELSE codes[ref]
  IN  /\ records[e] = NoRecord /\ code \in Codes
      /\ signups' = code
      /\ codes' = [codes EXCEPT ![code] = e]
      /\ queue' = Append(queue, e)
      /\ records' = IF referrer \in {Nobody, e} THEN added
                    ELSE [added EXCEPT ![referrer] = Credited(@)]
      /\ told' = [told EXCEPT ![e] = Answer(code, Len(queue'))]

CoreInit ==
  /\ records = [e \in Emails |-> NoRecord]
  /\ codes = [c \in Codes |-> Nobody]
  /\ queue = <<>>
  /\ signups = 0
  /\ told = [e \in Emails |-> NoRecord]

addToWaitlist(e, ref) == AlreadyJoined(e) \/ Join(e, ref)
CoreNext == \E e \in Emails, ref \in Codes \union {0} : addToWaitlist(e, ref)
Core == CoreInit /\ [][CoreNext]_core_vars

-----------------------------------------------------------------------------
(* WAITLIST_FILE. *)
VARIABLES
  file,    \* what it holds
  timer    \* a persist is due

vars == <<core_vars, file, timer>>

Contents == [records |-> records, codes |-> codes, queue |-> queue]
Empty == [records |-> [e \in Emails |-> NoRecord], codes |-> [c \in Codes |-> Nobody],
          queue |-> <<>>]

SignUp(e, ref) ==
  /\ addToWaitlist(e, ref)
  /\ timer' = (timer \/ records' # records)
  /\ UNCHANGED file

persistMem ==
  /\ timer /\ timer' = FALSE
  /\ file' = Contents
  /\ UNCHANGED core_vars

loadMem ==
  /\ records' = file.records /\ codes' = file.codes /\ queue' = file.queue
  /\ timer' = FALSE
  /\ UNCHANGED <<signups, told, file>>

Init == CoreInit /\ file = Empty /\ timer = FALSE
(* A link holds the code of an answer, from this run of the server or another. *)
Next ==
  \/ \E e \in Emails, ref \in 0..signups : SignUp(e, ref)
  \/ persistMem
  \/ loadMem
Spec == Init /\ [][Next]_vars

-----------------------------------------------------------------------------
(* Properties *)

(* Whenever the server starts again it finds a whole list: each record queued   *)
(* once and under its code, each referral counted in it made by a friend in it. *)
Friends(e) == {f \in Emails \ {e} : records[f] # NoRecord /\ records[f].ref # 0
                                     /\ codes[records[f].ref] = e}
Whole ==
  /\ Cardinality({queue[i] : i \in 1..Len(queue)}) = Len(queue)
  /\ \A e \in Emails :
       /\ records[e] # NoRecord <=> \E i \in 1..Len(queue) : queue[i] = e
       /\ records[e] # NoRecord =>
            /\ codes[records[e].code] = e
            /\ records[e].count = Cardinality(Friends(e))

(* Once nobody joins any more the file has everything, unless the server stops  *)
(* before the timer fires.                                                     *)
Saved == (signups = MaxSignups /\ timer) ~> (file = Contents)
=============================================================================
