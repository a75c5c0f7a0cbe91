------------------------------ MODULE Sequence ------------------------------
(***************************************************************************)
(* The sequence counter of one database (mdbx_dbi_sequence()): 64 bits in  *)
(* libmdbx, a double in R, part of the transaction's view like any record. *)
(*                                                                         *)
(* A reservation of i values at counter c hands out c, c + 1, ... as R     *)
(* computes them. What has been handed out since the counter last stood at *)
(* zero is kept in the ghosts `issued' and `taken'.                        *)
(***************************************************************************)
EXTENDS Integers, FiniteSets

CONSTANTS
  Procs,      \* processes
  Nobody,     \* no process
  MaxExact,   \* 2^53: the largest integer R holds exactly
  Width       \* 2^64: the counter is an integer below it

\* The distances between neighbouring doubles up to 2^64: it doubles with every
\* bit an integer has more than 53.
Spacings == {1, 2, 4, 8, 16, 32, 64, 128, 256, 512, 1024, 2048}

ASSUME SequenceAssumption ==
  /\ Nobody \notin Procs
  /\ MaxExact \in Nat \ {0} /\ MaxExact % 2 = 0
  /\ Width \in Nat /\ MaxExact < Width /\ Width <= 2048 * MaxExact

VARIABLES
  committed,   \* the counter the next transaction sees
  filled,      \* does that database hold records?
  issued,      \* values handed out by what was committed
  writer,      \* the process that holds the writer lock, or Nobody
  txn          \* per process: its transaction

vars == <<committed, filled, issued, writer, txn>>

Counters == 0 .. Width - 1

Transaction == [mode : {"none", "read", "write"}, counter : Counters,
                filled : BOOLEAN, taken : SUBSET Nat]

NoTransaction == [mode |-> "none", counter |-> 0, filled |-> FALSE, taken |-> {}]

-----------------------------------------------------------------------------
(* Conversions and the range check.                                        *)

\* The distance between the doubles around n.
Spacing(n) ==
  CHOOSE u \in Spacings : n <= u * MaxExact /\ (u = 1 \/ 2 * n > u * MaxExact)

\* static_cast<double>(uint64_t): the nearest double, ties to even.
AsDouble(n) ==
  LET u == Spacing(n)
      q == n \div u
      r == n % u
  IN IF 2 * r < u \/ (2 * r = u /\ q % 2 = 0) THEN u * q ELSE u * (q + 1)

\* The values R counts off from a reservation of i that starts at `first'.
Reserved(first, i) == {AsDouble(AsDouble(first) + j) : j \in 0 .. i - 1}

\* What mdbx_dbi_sequence() in R lets through, zero aside.
Increments == 1 .. MaxExact

\* Mutant: one more than fits.
AcceptsOneMore(counter, i) ==
  i <= MaxExact /\ AsDouble(counter) <= MaxExact - i + 1

\* Mutant: the counter is not looked at.
AcceptsAnything(counter, i) == i <= MaxExact

\* mdbx_dbi_sequence_() goes on to increment.
Accepts(counter, i) == i <= MaxExact /\ AsDouble(counter) <= MaxExact - i

\* libmdbx reports an overflow of the 64 bits instead of incrementing.
Overflows(counter, i) == counter + i >= Width

-----------------------------------------------------------------------------
(* Actions.                                                                *)

Init ==
  /\ committed = 0 /\ filled = FALSE /\ issued = {}
  /\ writer = Nobody
  /\ txn = [p \in Procs |-> NoTransaction]

Begin(p, mode) ==
  /\ txn[p].mode = "none"
  /\ mode = "write" => writer = Nobody
  /\ writer' = IF mode = "write" THEN p ELSE writer
  /\ txn' = [txn EXCEPT ![p] = [mode |-> mode, counter |-> committed,
                                filled |-> filled, taken |-> issued]]
  /\ UNCHANGED <<committed, filled, issued>>

\* mdbx_dbi_sequence_() with a positive increment, past its checks.
Reserve(p, i) ==
  /\ txn[p].mode = "write" /\ Accepts(txn[p].counter, i)
  /\ ~Overflows(txn[p].counter, i)
  /\ txn' = [txn EXCEPT ![p].counter = @ + i,
                        ![p].taken = @ \cup Reserved(txn[p].counter, i)]
  /\ UNCHANGED <<committed, filled, issued, writer>>

\* A put or a del changes whether there are records.
Fill(p) ==
  /\ txn[p].mode = "write"
  /\ txn' = [txn EXCEPT ![p].filled = ~@]
  /\ UNCHANGED <<committed, filled, issued, writer>>

\* mdbx_dbi_drop_(): emptying resets the counter only of a database that holds
\* records; deleting the database and creating it again resets it anyway.
Drop(p, delete) ==
  /\ txn[p].mode = "write"
  /\ delete \/ txn[p].filled
  /\ txn' = [txn EXCEPT ![p].counter = 0, ![p].filled = FALSE, ![p].taken = {}]
  /\ UNCHANGED <<committed, filled, issued, writer>>

Release(p) ==
  /\ writer' = IF writer = p THEN Nobody ELSE writer
  /\ txn' = [txn EXCEPT ![p] = NoTransaction]

\* Mutant: the counter is not part of the transaction.
CommitNumbersOnly(p) ==
  /\ txn[p].mode = "write"
  /\ filled' = txn[p].filled /\ issued' = txn[p].taken
  /\ Release(p)
  /\ UNCHANGED committed

Commit(p) ==
  /\ txn[p].mode = "write"
  /\ committed' = txn[p].counter
  /\ filled' = txn[p].filled
  /\ issued' = txn[p].taken
  /\ Release(p)

\* An abort, a failed commit, the end of a read transaction or of the process.
Discard(p) ==
  /\ txn[p].mode # "none"
  /\ Release(p)
  /\ UNCHANGED <<committed, filled, issued>>

\* A program that is not this package advances the counter, as far as it likes.
Foreign(c) ==
  /\ writer = Nobody /\ c > committed
  /\ committed' = c
  /\ UNCHANGED <<filled, issued, writer, txn>>

Next ==
  \/ \E p \in Procs :
       \/ Begin(p, "read") \/ Begin(p, "write")
       \/ \E i \in Increments : Reserve(p, i)
       \/ Fill(p) \/ Drop(p, TRUE) \/ Drop(p, FALSE)
       \/ Commit(p) \/ Discard(p)
  \/ \E c \in Counters : Foreign(c)

Spec == Init /\ [][Next]_vars

-----------------------------------------------------------------------------
(* Properties.                                                             *)

TypeOK ==
  /\ committed \in Counters
  /\ filled \in BOOLEAN
  /\ issued \subseteq Nat
  /\ writer \in Procs \cup {Nobody}
  /\ txn \in [Procs -> Transaction]

\* A reservation that is accepted hands out as many values as were asked for,
\* none of which was handed out since the counter stood at zero, in this
\* transaction or in a committed one: "two callers in separate transactions can
\* never be handed the same number" (mdbx_dbi_sequence()).
NeverTwice ==
  \A p \in Procs, i \in Increments :
    txn[p].mode = "write" /\ Accepts(txn[p].counter, i) =>
      /\ Reserved(txn[p].counter, i) \cap txn[p].taken = {}
      /\ \A j, k \in 0 .. i - 1 :
           AsDouble(AsDouble(txn[p].counter) + j) =
             AsDouble(AsDouble(txn[p].counter) + k) => j = k

\* The range check leaves libmdbx's own overflow unreachable.
NoOverflow ==
  \A p \in Procs, i \in Increments :
    txn[p].mode = "write" /\ Accepts(txn[p].counter, i) =>
      ~Overflows(txn[p].counter, i)

\* What has been handed out lies below the counter, and is exact.
Below(taken, counter) == \A n \in taken : n < counter /\ n < MaxExact

\* The invariant behind NeverTwice: one writer at a time, and its view of what
\* was handed out agrees with its view of the counter.
IInv ==
  /\ TypeOK
  /\ Below(issued, committed)
  /\ \A p \in Procs : Below(txn[p].taken, txn[p].counter)
  /\ \A p \in Procs : txn[p].mode = "write" <=> writer = p
=============================================================================
