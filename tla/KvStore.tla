------------------------------- MODULE KvStore -------------------------------
(***************************************************************************)
(* The store of off-chain records (app/src/lib/kv.ts) as the requests of    *)
(* the server share it.  A read is one HTTP request.  A write is a sequence *)
(* of Redis commands, each atomic, or a load of the whole Gist document     *)
(* followed by a save of it; other requests run in between.                 *)
(*                                                                         *)
(* The in-memory Map that replaces both in local development is left out.   *)
(***************************************************************************)
EXTENDS Naturals, SequencesExt

CONSTANTS Backend,   \* "redis" or "gist": which environment variables are set
          Keys,      \* the keys in use
          Clients,   \* the requests being served
          NoEntry,   \* kvGet's null
          NoDoc      \* no Gist document loaded

ASSUME BackendAssumption == Backend \in {"redis", "gist"}

VARIABLES store,     \* entry by key
          todo,      \* by client, the commands of its write not yet executed
          doc        \* by client, the Gist document it has loaded

kv_vars == <<store, todo, doc>>

ListOf(entry) == IF entry = NoEntry THEN <<>> ELSE entry
FirstOf(list, n) == SubSeq(list, 1, IF n < Len(list) THEN n ELSE Len(list))

(* The elements of a list that are in S, in their order. *)
Only(list, S) ==
  LET kept[n \in 0 .. Len(list)] ==
        IF n = 0 THEN <<>>
        ELSE IF list[n] \in S THEN Append(kept[n - 1], list[n]) ELSE kept[n - 1]
  IN  kept[Len(list)]

kvGet(key) == store[key]
kvListRead(key, limit) == FirstOf(ListOf(store[key]), limit)

-----------------------------------------------------------------------------
(* Writes, as the Redis commands they send. *)

kvSet(key, value) == <<[cmd |-> "set", key |-> key, value |-> value]>>

kvListPush(key, value, maxLen) ==
  <<[cmd |-> "lpush", key |-> key, element |-> value],
    [cmd |-> "ltrim", key |-> key, keep |-> maxLen]>>

kvListWrite(key, values) ==
  <<[cmd |-> "del", key |-> key]>>
    \o IF values = <<>> THEN <<>>
       ELSE <<[cmd |-> "rpush", key |-> key, elements |-> values]>>

Changed(entry, c) ==
  CASE c.cmd = "set"   -> c.value
    [] c.cmd = "del"   -> NoEntry
    [] c.cmd = "lpush" -> <<c.element>> \o ListOf(entry)
    [] c.cmd = "rpush" -> ListOf(entry) \o c.elements
    [] c.cmd = "ltrim" -> FirstOf(ListOf(entry), c.keep)

Applied(entries, c) == [entries EXCEPT ![c.key] = Changed(@, c)]

(* A write is one command or two. *)
Executed(entries, commands) ==
  LET first == Applied(entries, commands[1])
  IN  IF Len(commands) = 1 THEN first ELSE Applied(first, commands[2])

-----------------------------------------------------------------------------
(* A client awaits its write: it goes on once Settled. *)
Settled(r) == todo[r] = <<>>

Await(r, commands) ==
  /\ todo' = [todo EXCEPT ![r] = commands]
  /\ UNCHANGED <<store, doc>>

RedisCommand(r) ==
  /\ Backend = "redis" /\ ~Settled(r)
  /\ store' = Applied(store, Head(todo[r]))
  /\ todo' = [todo EXCEPT ![r] = Tail(@)]
  /\ UNCHANGED doc

GistLoad(r) ==
  /\ Backend = "gist" /\ ~Settled(r) /\ doc[r] = NoDoc
  /\ doc' = [doc EXCEPT ![r] = store]
  /\ UNCHANGED <<store, todo>>

GistSave(r) ==
  /\ ~Settled(r) /\ doc[r] # NoDoc
  /\ store' = Executed(doc[r], todo[r])
  /\ todo' = [todo EXCEPT ![r] = <<>>]
  /\ doc' = [doc EXCEPT ![r] = NoDoc]

(* The client stops, or an HTTP request of its write fails and throws. *)
Abandon(r) ==
  /\ todo' = [todo EXCEPT ![r] = <<>>]
  /\ doc' = [doc EXCEPT ![r] = NoDoc]
  /\ UNCHANGED store

KvInit ==
  /\ store = [k \in Keys |-> NoEntry]
  /\ todo = [r \in Clients |-> <<>>]
  /\ doc = [r \in Clients |-> NoDoc]

KvStep(r) == RedisCommand(r) \/ GistLoad(r) \/ GistSave(r)
=============================================================================
