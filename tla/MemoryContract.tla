--------------------------- MODULE MemoryContract ---------------------------
(***************************************************************************)
(* What MemoryStore promises its consumers, with every call one            *)
(* indivisible step: entries in the order they were first added, one per   *)
(* id, an overwrite in place.  InMemoryStore, a dict, is this with Keeps   *)
(* the identity; Memory only forwards to a store.                          *)
(***************************************************************************)
EXTENDS Naturals, Sequences

CONSTANTS Clients,  \* who holds a store on the same entries
          Ids,      \* MemoryEntry.id
          Values,   \* everything else of a MemoryEntry
          Queries,  \* a MemoryQuery: the values it matches
          Keeps,    \* what the backend makes of a value; None if it refuses
          None

VARIABLES entries,  \* [id, value] in insertion order
          answer    \* the last call that ended: whose, which, and its result

contractVars == <<entries, answer>>

Entry(id, value) == [id |-> id, value |-> value]

(* With values: what was added, or what was searched for.                  *)
Told(c, call, id, values, result, found) ==
  answer' = [client |-> c, call |-> call, id |-> id, values |-> values,
             result |-> result, found |-> found]

Has(id) == \E i \in DOMAIN entries : entries[i].id = id

(* The entries at these positions, in their order.                         *)
Those(positions) ==
  LET those[i \in 0..Len(entries)] ==
        IF i = 0 THEN <<>>
        ELSE IF i \in positions THEN Append(those[i - 1], entries[i])
             ELSE those[i - 1]
  IN  those[Len(entries)]

ContractInit == entries = <<>> /\ answer = None

Add(c, id, value) ==
  /\ Keeps[value] # None
  /\ entries' =
       IF Has(id)
       THEN [i \in DOMAIN entries |->
               IF entries[i].id = id THEN Entry(id, Keeps[value]) ELSE entries[i]]
       ELSE Append(entries, Entry(id, Keeps[value]))
  /\ Told(c, "add", id, {value}, "stored", <<>>)

Delete(c, id) ==
  /\ entries' = Those({i \in DOMAIN entries : entries[i].id # id})
  /\ Told(c, "delete", id, {}, IF Has(id) THEN "deleted" ELSE "absent", <<>>)

Clear(c) ==
  /\ entries' = <<>>
  /\ Told(c, "clear", None, {}, "cleared", <<>>)

Get(c, id) ==
  /\ Told(c, "get", id, {}, "found", Those({i \in DOMAIN entries : entries[i].id = id}))
  /\ UNCHANGED entries

Search(c, query) ==
  /\ Told(c, "search", None, query, "found",
          Those({i \in DOMAIN entries : entries[i].value \in query}))
  /\ UNCHANGED entries

(* MemoryError, which leaves the entries as they were.                     *)
Fail(c) ==
  /\ Told(c, "any", None, {}, "error", <<>>)
  /\ UNCHANGED entries

ContractNext ==
  \E c \in Clients :
    \/ \E id \in Ids :
         \/ \E value \in Values : Add(c, id, value)
         \/ Delete(c, id)
         \/ Get(c, id)
    \/ \E query \in Queries : Search(c, query)
    \/ Clear(c)
    \/ Fail(c)

ContractSpec == ContractInit /\ [][ContractNext]_contractVars
=============================================================================
