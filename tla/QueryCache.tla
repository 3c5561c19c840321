------------------------------ MODULE QueryCache ------------------------------
(***************************************************************************)
(* The query cache of a page (TanStack Query, as components/providers.tsx      *)
(* configures it): what each query last answered, shared by every page of the  *)
(* app that uses the same key.                                                 *)
(*                                                                         *)
(* A query is asked, the server answers with what it has at that moment, and   *)
(* the answer arrives later.  One question of a key is under way at a time.    *)
(***************************************************************************)
EXTENDS Naturals

CONSTANTS
  QueryKeys,
  NoData       \* never answered

VARIABLES
  data,        \* by key, the last answer that arrived
  fresh,       \* by key, whether that is less than staleTime ago
  flight       \* by key, the question under way and its answer

query_vars == <<data, fresh, flight>>

NoFlight == [at |-> "none"]
Asked(question) == [at |-> "asked", question |-> question]
Asking(k) == flight[k].at = "asked"

(* A question already under way serves whoever asks again. *)
Fetch(k, question) ==
  /\ flight[k] = NoFlight
  /\ flight' = [flight EXCEPT ![k] = Asked(question)]
  /\ UNCHANGED <<data, fresh>>

Serve(k, answer) ==
  /\ Asking(k)
  /\ flight' = [flight EXCEPT ![k] = [at |-> "answered", answer |-> answer]]
  /\ UNCHANGED <<data, fresh>>

Arrive(k) ==
  /\ flight[k].at = "answered"
  /\ data' = [data EXCEPT ![k] = flight[k].answer]
  /\ fresh' = [fresh EXCEPT ![k] = TRUE]
  /\ flight' = [flight EXCEPT ![k] = NoFlight]

(* The request fails, its retries too: what was shown stays. *)
Fail(k) ==
  /\ flight[k] # NoFlight
  /\ flight' = [flight EXCEPT ![k] = NoFlight]
  /\ UNCHANGED <<data, fresh>>

GoStale(k) ==
  /\ fresh[k]
  /\ fresh' = [fresh EXCEPT ![k] = FALSE]
  /\ UNCHANGED <<data, flight>>

(* invalidateQueries: what is on the screen is asked for anew, and an answer    *)
(* under way is dropped; what is not will be when it appears.                  *)
Invalidate(k, keys, question) ==
  /\ fresh' = [fresh EXCEPT ![k] = FALSE]
  /\ flight' = IF k \in keys THEN [flight EXCEPT ![k] = Asked(question)] ELSE flight
  /\ UNCHANGED data

QueryInit ==
  /\ data = [k \in QueryKeys |-> NoData]
  /\ fresh = [k \in QueryKeys |-> FALSE]
  /\ flight = [k \in QueryKeys |-> NoFlight]
=============================================================================
