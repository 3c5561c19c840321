----------------------------- MODULE BankAccounts -----------------------------
(***************************************************************************)
(* The bank accounts of a wallet (addBankAccount, listBankAccounts and        *)
(* removeBankAccount of app/src/lib/payout/mock.ts) over KvStore: a list of    *)
(* ids and, for each id, a row with the encrypted IBAN.                        *)
(*                                                                         *)
(* A request runs from one await to the next.                                  *)
(***************************************************************************)
EXTENDS KvStore, FiniteSets

CONSTANTS
  Requests,     \* requests being served at one time
  Ids,          \* the ids randomUUID will give
  MaxAccounts,  \* 3
  Stops         \* whether a server process may stop

bank   == <<"bank">>
row(i) == <<"row", i>>

BankAccountsAssumption ==
  /\ Clients = Requests
  /\ {bank} \cup {row(i) : i \in Ids} \subseteq Keys
  /\ MaxAccounts \in Nat \ {0}
  /\ NoEntry \notin Seq(Ids) /\ NoEntry \notin {[id |-> i] : i \in Ids}   \* null is neither

VARIABLES
  req,      \* by request, what it is doing and its local variables
  issued,   \* the ids given so far
  added,    \* the ids whose request answered with the account
  removed   \* the ids whose removal answered { removed: true }

vars == <<kv_vars, req, issued, added, removed>>

IdleReq == [at |-> "idle"]
At(r, place) == req[r].at = place /\ Settled(r)
Goto(r, state) == req' = [req EXCEPT ![r] = state]
GotoWith(r, state) == Goto(r, state) /\ UNCHANGED kv_vars
Answer(r) == GotoWith(r, IdleReq)
Saved(i) == [id |-> i]

-----------------------------------------------------------------------------
(* listBankAccounts: the ids, then every row, at any time and in any order. *)

AddAccount(r, i) ==
  /\ At(r, "idle")
  /\ i \notin issued /\ issued' = issued \cup {i}
  /\ GotoWith(r, [at |-> "reading", id |-> i, ids |-> ListOf(kvGet(bank)),
                  unread |-> ToSet(ListOf(kvGet(bank))), live |-> {}])
  /\ UNCHANGED <<added, removed>>

ReadRow(r, j) ==
  /\ At(r, "reading") /\ j \in req[r].unread
  /\ GotoWith(r, [req[r] EXCEPT !.unread = @ \ {j},
                                !.live = IF kvGet(row(j)) = NoEntry THEN @ ELSE @ \cup {j}])
  /\ UNCHANGED <<issued, added, removed>>

Full(n)       == n >= MaxAccounts

(* The rows are in: refuse, or save the row of the new account. *)
SaveRow(r) ==
  /\ At(r, "reading") /\ req[r].unread = {}
  /\ IF Full(Cardinality(req[r].live))
     THEN Answer(r)
     ELSE /\ Goto(r, [req[r] EXCEPT !.at = "listing"])
          /\ Await(r, kvSet(row(req[r].id), Saved(req[r].id)))
  /\ UNCHANGED <<issued, added, removed>>

SaveIds(r) ==
  LET kept == Only(req[r].ids, req[r].live)
  IN  /\ At(r, "listing")
      /\ Goto(r, [at |-> "added", id |-> req[r].id])
      /\ Await(r, kvSet(bank, Append(kept, req[r].id)))
      /\ UNCHANGED <<issued, added, removed>>

AnswerAdded(r) ==
  /\ At(r, "added")
  /\ Answer(r)
  /\ added' = added \cup {req[r].id}
  /\ UNCHANGED <<issued, removed>>

-----------------------------------------------------------------------------
(* removeBankAccount *)

Unlisted(i) == kvGet(bank) = NoEntry \/ ~Contains(kvGet(bank), i)

(* A refused removal changes nothing. *)
RemoveAccount(r, i) ==
  /\ At(r, "idle")
  /\ ~Unlisted(i)
  /\ Goto(r, [at |-> "forgetting", id |-> i])
  /\ Await(r, kvSet(bank, Only(kvGet(bank), Ids \ {i})))
  /\ UNCHANGED <<issued, added, removed>>

ForgetIdOnly(r) ==
  /\ At(r, "forgetting")
  /\ GotoWith(r, [at |-> "removed", id |-> req[r].id])
  /\ UNCHANGED <<issued, added, removed>>

ForgetRow(r) ==
  /\ At(r, "forgetting")
  /\ Goto(r, [at |-> "removed", id |-> req[r].id])
  /\ Await(r, kvSet(row(req[r].id), NoEntry))
  /\ UNCHANGED <<issued, added, removed>>

AnswerRemoved(r) ==
  /\ At(r, "removed")
  /\ Answer(r)
  /\ removed' = removed \cup {req[r].id}
  /\ UNCHANGED <<issued, added>>

-----------------------------------------------------------------------------
Stop(r) ==
  /\ Stops /\ (req[r] # IdleReq \/ ~Settled(r))
  /\ Abandon(r) /\ Goto(r, IdleReq)
  /\ UNCHANGED <<issued, added, removed>>

StoreActs(r) == KvStep(r) /\ UNCHANGED <<req, issued, added, removed>>

AccountsInit == issued = {} /\ added = {} /\ removed = {}

Init == KvInit /\ req = [r \in Requests |-> IdleReq] /\ AccountsInit

Add(r) ==
  \/ \E i \in Ids : AddAccount(r, i) \/ ReadRow(r, i)
  \/ SaveRow(r) \/ SaveIds(r) \/ AnswerAdded(r)

Forget(r) ==
  \/ \E i \in Ids : RemoveAccount(r, i)
  \/ ForgetRow(r) \/ AnswerRemoved(r)

Next == \E r \in Requests : Add(r) \/ Forget(r) \/ Stop(r) \/ StoreActs(r)

Spec == Init /\ [][Next]_vars

-----------------------------------------------------------------------------
(* Properties *)

Quiet == \A r \in Requests : At(r, "idle")
Listed == ToSet(ListOf(store[bank]))
Rows == {i \in Ids : store[row(i)] # NoEntry}

(* "Users MUST be able to save up to 3 EUR bank accounts" (spec.md:220): the     *)
(* wallet never sees more, however its requests cross.                          *)
AtMostMax == Cardinality(Listed \cap Rows) <= MaxAccounts

(* A forgotten IBAN stays forgotten, whatever other requests write back.        *)
ForgottenForGood == \A i \in removed : i \notin Rows

(* An account the wallet was told is saved is listed until it is removed        *)
(* (data-model.md:104: max 3; spec.md:220), and no row is left that nobody can   *)
(* remove any more.                                                             *)
NothingLost ==
  Quiet => /\ added \ removed \subseteq Listed \cap Rows
           /\ Rows \subseteq Listed
=============================================================================
