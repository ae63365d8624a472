------------------------- MODULE SQLiteMemoryStore -------------------------
(***************************************************************************)
(* SQLiteMemoryStore on one database file that several processes open,     *)
(* each with a store of its own: transactions of one statement under       *)
(* SQLite's write lock, rows ordered by rowid, readers that see what is    *)
(* committed, processes that die at any point, and calls that fail because *)
(* the lock is held for too long or the file cannot be read or written.    *)
(* SQLite itself is modelled by its documented semantics in WAL mode; a    *)
(* loss of power, which may undo the last commits, is left out.            *)
(*                                                                         *)
(* MutX is a wrong version of the X below it; no definition uses it.       *)
(***************************************************************************)
EXTENDS Naturals, Sequences, FiniteSets

CONSTANTS Processes,
          Ids,       \* MemoryEntry.id
          Values,    \* everything else of a MemoryEntry
          Queries,   \* a MemoryQuery: the values it matches
          JSON,      \* a value after json.dumps and json.loads; None if dumps raises
          MaxRowid,  \* bound: rowids given out
          None

ASSUME JSONAssumption ==
  /\ JSON \in [Values -> Values \cup {None}]
  /\ \A v \in Values : JSON[v] # None => JSON[JSON[v]] = JSON[v]
ASSUME NoneAssumption == None \notin Values
ASSUME QueriesAssumption == Queries \subseteq SUBSET Values
ASSUME RowidAssumption == MaxRowid \in Nat

VARIABLES rows,    \* the committed table memory_entries: rowid to row
          opened,  \* processes with an open connection
          work,    \* the uncommitted transaction of each process that has one
          answer   \* the last call that ended: whose, which, and its result

vars == <<rows, opened, work, answer>>

Row(id, value) == [id |-> id, value |-> value]

Rowids == 1..MaxRowid

RowsOf(table, id) == {r \in DOMAIN table : table[r].id = id}

(* SQLite gives a new row a rowid one above the largest in the table.      *)
NextRowid(table) ==
  CHOOSE r \in 1..(MaxRowid + 1) :
    \A s \in 1..(MaxRowid + 1) : s >= r <=> \A t \in DOMAIN table : t < s

Where(table, rowids) == [r \in rowids |-> table[r]]

Without(table, rowids) == Where(table, DOMAIN table \ rowids)

With(table, rowid, row) ==
  [r \in DOMAIN table \cup {rowid} |-> IF r = rowid THEN row ELSE table[r]]

(* _UPSERT: the row keeps its rowid when the id is taken.                  *)
Upserted(table, row) ==
  IF RowsOf(table, row.id) = {} THEN With(table, NextRowid(table), row)
  ELSE [r \in DOMAIN table |-> IF table[r].id = row.id THEN row ELSE table[r]]

(* ORDER BY rowid                                                          *)
InOrder(table) ==
  [i \in 1..Cardinality(DOMAIN table) |->
     table[CHOOSE r \in DOMAIN table :
             Cardinality({s \in DOMAIN table : s < r}) = i - 1]]

---------------------------------------------------------------------------
Init ==
  /\ rows = <<>> /\ opened = {}
  /\ work = <<>>
  /\ answer = None

Told(p, call, id, values, result, found) ==
  [client |-> p, call |-> call, id |-> id, values |-> values,
   result |-> result, found |-> found]

Idle(p) == p \in opened /\ p \notin DOMAIN work

(* One writer at a time, whichever process it is in.                       *)
Unlocked == DOMAIN work = {}

(* connect, the pragmas, and CREATE TABLE IF NOT EXISTS.                   *)
Open(p) ==
  /\ p \notin opened
  /\ opened' = opened \cup {p}
  /\ UNCHANGED <<rows, work, answer>>

(* The statement of a transaction: it takes the lock and changes the table *)
(* for this connection only.                                               *)
Execute(p, table, told) ==
  /\ Idle(p) /\ Unlocked
  /\ work' = With(work, p, [table |-> table, told |-> told])
  /\ UNCHANGED <<rows, opened, answer>>

Add(p, id, value) ==
  /\ JSON[value] # None
  /\ RowsOf(rows, id) = {} => NextRowid(rows) \in Rowids
  /\ Execute(p, Upserted(rows, Row(id, JSON[value])),
             Told(p, "add", id, {value}, "stored", <<>>))

Delete(p, id) ==
  Execute(p, Without(rows, RowsOf(rows, id)),
          Told(p, "delete", id, {},
               IF RowsOf(rows, id) = {} THEN "absent" ELSE "deleted", <<>>))

Clear(p) == Execute(p, <<>>, Told(p, "clear", None, {}, "cleared", <<>>))

(* The end of the with block.                                              *)
Commit(p) ==
  /\ p \in DOMAIN work
  /\ rows' = work[p].table
  /\ work' = Without(work, {p})
  /\ answer' = work[p].told
  /\ UNCHANGED opened

(* Any call may raise MemoryError: not opened or closed already, locked    *)
(* for too long, out of space, not committed, or metadata that JSON cannot *)
(* carry.  The transaction is rolled back.                                 *)
Fail(p) ==
  /\ work' = Without(work, {p})
  /\ answer' = Told(p, "any", None, {}, "error", <<>>)
  /\ UNCHANGED <<rows, opened>>

Read(p, told) ==
  /\ Idle(p)
  /\ answer' = told
  /\ UNCHANGED <<rows, opened, work>>

Get(p, id) ==
  Read(p, Told(p, "get", id, {}, "found",
               InOrder(Where(rows, RowsOf(rows, id)))))

(* _matches looks at the values that came back through JSON.               *)
Search(p, query) ==
  Read(p, Told(p, "search", None, query, "found",
               InOrder(Where(rows, {r \in DOMAIN rows : rows[r].value \in query}))))

MutLeft(p) == IF p \in DOMAIN work THEN work[p].table ELSE rows

(* What a dead process leaves: its transaction never happened.             *)
Left(p) == rows

(* The process dies at any point, or closes its store between two calls.   *)
Crash(p) ==
  /\ p \in opened
  /\ rows' = Left(p)
  /\ opened' = opened \ {p}
  /\ work' = Without(work, {p})
  /\ UNCHANGED answer

Next ==
  \E p \in Processes :
    \/ Open(p)
    \/ \E id \in Ids :
         \/ \E value \in Values : Add(p, id, value)
         \/ Delete(p, id)
         \/ Get(p, id)
    \/ \E query \in Queries : Search(p, query)
    \/ Clear(p)
    \/ Commit(p)
    \/ Fail(p)
    \/ Crash(p)

Spec == Init /\ [][Next]_vars

---------------------------------------------------------------------------
(* The store implements MemoryContract, with a commit or a read the moment *)
(* a call takes effect: no update of another process is lost, nothing      *)
(* uncommitted is read, a crash undoes nothing a call has confirmed, and   *)
(* an overwrite (sqlite_store.py:158) preserves the position.              *)
Contract == INSTANCE MemoryContract WITH
  Clients <- Processes, Keeps <- JSON, entries <- InOrder(rows)

RefinesContract == Contract!ContractSpec
=============================================================================
