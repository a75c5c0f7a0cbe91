----------------------------- MODULE Databases -----------------------------
(***************************************************************************)
(* The contents of an environment and what the operations on one database  *)
(* of it do, when the database is given by its name.                       *)
(*                                                                         *)
(* Keys and database names are byte strings of one set: a named database   *)
(* is a record of the main one, under its name, that libmdbx marks as a    *)
(* tree. The contents of a database that does not exist are Empty.         *)
(***************************************************************************)
CONSTANTS
  Bytes,   \* byte strings, used as keys and as names of databases
  Vals,    \* values
  Null,    \* no record; no name
  Tree,    \* the record of a named database in the main one
  Main     \* the unnamed database

ASSUME DatabasesAssumption ==
  /\ Null \notin Bytes \cup Vals
  /\ Tree \notin Bytes \cup Vals \cup {Null}
  /\ Main \notin Bytes \cup {Null}

DBs == Bytes \cup {Main}

Empty == [k \in Bytes |-> Null]
EmptyStore == [d \in DBs |-> Empty]

Exists(s, d) == d = Main \/ s[Main][d] = Tree

\* Contents: trees are recorded in the main database only, and what does not
\* exist is empty.
Stores ==
  {s \in [DBs -> [Bytes -> Vals \cup {Null, Tree}]] :
     \A n \in Bytes : /\ s[n] \in [Bytes -> Vals \cup {Null}]
                      /\ s[Main][n] # Tree => s[n] = Empty}

Present(s, d, k) == s[d][k] # Null

-----------------------------------------------------------------------------
(* Answers, and the contents they leave. An operation that libmdbx refuses *)
(* leaves the contents alone.                                              *)

\* mdbx_get_(): the value, Null for an absent key; for the record of a named
\* database, bytes of libmdbx's own.
GetAnswer(s, d, k) == s[d][k]

Puts(s, d, k, overwrite) ==
  IF overwrite THEN s[d][k] # Tree ELSE ~Present(s, d, k)

PutAnswer(s, d, k, overwrite) ==
  IF Puts(s, d, k, overwrite) THEN "true"
  ELSE IF overwrite THEN "incompatible" ELSE "false"

\* Mutant: a record of the main database is overwritten whatever it is.
PutOver(s, d, k, v, overwrite) ==
  IF overwrite \/ ~Present(s, d, k) THEN [s EXCEPT ![d][k] = v] ELSE s

PutStore(s, d, k, v, overwrite) ==
  IF Puts(s, d, k, overwrite) THEN [s EXCEPT ![d][k] = v] ELSE s

DelAnswer(s, d, k) ==
  IF s[d][k] = Tree THEN "incompatible"
  ELSE IF Present(s, d, k) THEN "true" ELSE "false"

DelStore(s, d, k) ==
  IF s[d][k] = Tree THEN s ELSE [s EXCEPT ![d][k] = Null]

\* A record of the main database becomes an empty named database.
Created(s, n) == [s EXCEPT ![Main][n] = Tree, ![n] = Empty]

Named(s) == {n \in Bytes : s[Main][n] = Tree}

\* mdbx_drop(): a purge of the main database takes the named ones with it.
Purged(s, d) ==
  IF d = Main THEN EmptyStore ELSE [s EXCEPT ![d] = Empty]

Dropped(s, d, del) ==
  IF del /\ d # Main THEN [Purged(s, d) EXCEPT ![Main][d] = Null]
                     ELSE Purged(s, d)

\* Mutant: the main database is emptied whatever it records.
DropRefusedDelete(s, d, del) == d = Main /\ del

\* mdbx_dbi_drop_() refuses to delete the main database, and to empty it
\* while there are named ones.
DropRefused(s, d, del) == d = Main /\ (del \/ Named(s) # {})
=============================================================================
