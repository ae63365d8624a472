------------------------------ MODULE MCMemory ------------------------------
(* A text and a list that JSON carries as they are, a tuple that comes     *)
(* back as the list, and an object it cannot carry.                        *)
EXTENDS SQLiteMemoryStore

CONSTANTS text, list, tuple, object

MCValues == {text, list, tuple, object}
MCQueries == {{list}, {tuple}, MCValues}
MCJSON == [v \in MCValues |-> CASE v = object -> None
                                [] v = tuple -> list
                                [] OTHER -> v]
=============================================================================
