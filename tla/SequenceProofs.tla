--------------------------- MODULE SequenceProofs ---------------------------
(* The sequence counter never hands out a number twice.                    *)
EXTENDS Sequence, TLAPS

\* An integer up to MaxExact is a double.
LEMMA ExactDouble ==
  ASSUME NEW n \in Nat, n <= MaxExact
  PROVE  AsDouble(n) = n
<1>1. MaxExact \in Nat \ {0}
  BY SequenceAssumption
<1>2. \A u \in Spacings : u \in Nat /\ (u = 1 \/ u >= 2)
  BY DEF Spacings
<1>3. \A u \in Spacings : u # 1 => ~(2 * n > u * MaxExact)
  <2> SUFFICES ASSUME NEW u \in Spacings, u # 1 PROVE 2 * n <= u * MaxExact
    BY <1>1, <1>2
  <2> QED BY <1>1 DEF Spacings
<1>4. 1 \in Spacings /\ n <= 1 * MaxExact
  BY <1>1 DEF Spacings
<1>5. Spacing(n) = 1
  BY <1>3, <1>4 DEF Spacing
<1> QED BY <1>5 DEF AsDouble

\* One above MaxExact does not round to less.
LEMMA RoundsAbove ==
  ASSUME NEW n \in Counters, n > MaxExact
  PROVE  AsDouble(n) \in Int /\ AsDouble(n) >= MaxExact
<1>1. /\ MaxExact \in Nat \ {0} /\ MaxExact % 2 = 0
      /\ n \in Nat /\ n <= 2048 * MaxExact
  BY SequenceAssumption DEF Counters
<1>2. \E u \in Spacings : n <= u * MaxExact /\ (u = 1 \/ 2 * n > u * MaxExact)
  BY <1>1 DEF Spacings
<1> DEFINE u == Spacing(n)
<1>3. u \in Spacings /\ n <= u * MaxExact /\ (u = 1 \/ 2 * n > u * MaxExact)
  BY <1>2 DEF Spacing
<1>4. /\ n % u \in Int /\ n \div u \in Int /\ n = u * (n \div u) + (n % u)
      /\ 0 <= n % u /\ n % u < u
  <2> HIDE DEF u
  <2>1. u \in Nat \ {0}
    BY <1>3 DEF Spacings
  <2> QED BY <1>1, <2>1
<1>5. u * (n \div u) >= MaxExact /\ u * (n \div u) \in Int /\ u * (n \div u + 1) \in Int
  <2> HIDE DEF u
  <2>1. PICK h \in Nat : MaxExact = 2 * h
    BY <1>1
  <2> QED BY <1>1, <1>3, <1>4, <2>1 DEF Spacings
<1>6. u * (n \div u + 1) >= MaxExact
  <2> HIDE DEF u
  <2> QED BY <1>1, <1>3, <1>4, <1>5 DEF Spacings
<1>7. AsDouble(n) \in {u * (n \div u), u * (n \div u + 1)}
  BY DEF AsDouble
<1> QED BY <1>1, <1>5, <1>6, <1>7

\* A reservation that is accepted stays within the integers R holds exactly.
LEMMA AcceptedFits ==
  ASSUME NEW c \in Counters, NEW i \in Increments, Accepts(c, i)
  PROVE  c + i <= MaxExact /\ AsDouble(c) = c
<1>1. /\ c \in Nat /\ i \in Nat /\ i >= 1 /\ MaxExact \in Nat
      /\ i <= MaxExact /\ AsDouble(c) <= MaxExact - i
  BY SequenceAssumption DEF Counters, Increments, Accepts
<1>2. c <= MaxExact
  <2> SUFFICES ASSUME c > MaxExact PROVE FALSE
    BY <1>1
  <2>1. AsDouble(c) \in Int /\ AsDouble(c) >= MaxExact
    BY RoundsAbove
  <2> QED BY <1>1, <2>1
<1>3. AsDouble(c) = c
  BY <1>1, <1>2, ExactDouble
<1> QED BY <1>1, <1>3

\* The values of an accepted reservation are the integers from the counter on.
LEMMA ReservedExact ==
  ASSUME NEW c \in Counters, NEW i \in Increments, Accepts(c, i),
         NEW j \in 0 .. i - 1
  PROVE  AsDouble(AsDouble(c) + j) = c + j /\ c + j < c + i /\ c + j < MaxExact
<1>1. c \in Nat /\ i \in Nat /\ j \in Nat /\ MaxExact \in Nat /\ j < i
  BY SequenceAssumption DEF Counters, Increments
<1>2. c + i <= MaxExact /\ AsDouble(c) = c
  BY AcceptedFits
<1>3. c + j <= MaxExact
  BY <1>1, <1>2
<1>4. AsDouble(c + j) = c + j
  BY <1>1, <1>3, ExactDouble
<1> QED BY <1>1, <1>2, <1>4

\* The initial state.
LEMMA InitIInv == Init => IInv
<1> SUFFICES ASSUME Init PROVE IInv
  OBVIOUS
<1>1. 0 \in Counters
  BY SequenceAssumption DEF Counters
<1>2. TypeOK
  BY <1>1 DEF Init, TypeOK, Transaction, NoTransaction
<1> QED BY <1>2, SequenceAssumption DEF Init, IInv, Below, NoTransaction

\* One step.
LEMMA StepIInv == IInv /\ [Next]_vars => IInv'
<1> SUFFICES ASSUME IInv, [Next]_vars PROVE IInv'
  OBVIOUS
<1> USE DEF Transaction, NoTransaction
<1>1. ASSUME NEW p \in Procs, NEW m \in {"read", "write"}, Begin(p, m) PROVE IInv'
  <2>1. TypeOK'
    BY <1>1 DEF IInv, TypeOK, Begin
  <2>2. \A q \in Procs : Below(txn'[q].taken, txn'[q].counter)
    BY <1>1 DEF IInv, TypeOK, Begin, Below
  <2>3. \A q \in Procs : txn'[q].mode = "write" <=> writer' = q
    BY <1>1, SequenceAssumption DEF IInv, TypeOK, Begin
  <2> QED BY <1>1, <2>1, <2>2, <2>3 DEF IInv, Begin, Below
<1>2. ASSUME NEW p \in Procs, NEW i \in Increments, Reserve(p, i) PROVE IInv'
  <2> DEFINE c == txn[p].counter
  <2>1. c \in Counters /\ Accepts(c, i)
    BY <1>2 DEF IInv, TypeOK, Reserve
  <2>2. c + i \in Counters
    BY <1>2, <2>1, SequenceAssumption DEF Reserve, Overflows, Counters, Increments
  <2>3. \A n \in Reserved(c, i) : n \in Nat /\ n < c + i /\ n < MaxExact
    <3> SUFFICES ASSUME NEW j \in 0 .. i - 1
                 PROVE  /\ AsDouble(AsDouble(c) + j) \in Nat
                        /\ AsDouble(AsDouble(c) + j) < c + i
                        /\ AsDouble(AsDouble(c) + j) < MaxExact
      BY DEF Reserved
    <3>1. c + j \in Nat
      BY <2>1 DEF Counters
    <3> QED BY <2>1, <3>1, ReservedExact
  <2>4. txn' = [txn EXCEPT ![p].counter = c + i,
                           ![p].taken = txn[p].taken \cup Reserved(c, i)]
    BY <1>2 DEF Reserve
  <2>5. TypeOK'
    <3>1. txn[p].taken \cup Reserved(c, i) \in SUBSET Nat
      BY <2>3 DEF IInv, TypeOK
    <3>2. txn' \in [Procs -> Transaction]
      BY <2>2, <2>4, <3>1 DEF IInv, TypeOK
    <3> QED BY <1>2, <3>2 DEF IInv, TypeOK, Reserve
  <2>6. Below(txn[p].taken \cup Reserved(c, i), c + i)
    <3>1. \A n \in txn[p].taken : n \in Nat /\ n < c /\ n < MaxExact
      BY DEF IInv, TypeOK, Below
    <3>2. \A n \in Nat : n < c => n < c + i
      BY <2>1 DEF Counters, Increments
    <3> QED BY <2>3, <3>1, <3>2 DEF Below
  <2>7. \A q \in Procs : Below(txn'[q].taken, txn'[q].counter)
    BY <2>4, <2>6 DEF IInv, TypeOK
  <2>8. \A q \in Procs : txn'[q].mode = txn[q].mode
    BY <2>4 DEF IInv, TypeOK
  <2> QED BY <1>2, <2>5, <2>7, <2>8 DEF IInv, Reserve
<1>3. ASSUME NEW p \in Procs, Fill(p) PROVE IInv'
  BY <1>3 DEF IInv, TypeOK, Fill, Below
<1>4. ASSUME NEW p \in Procs, NEW d \in BOOLEAN, Drop(p, d) PROVE IInv'
  <2>1. 0 \in Counters
    BY SequenceAssumption DEF Counters
  <2> QED BY <1>4, <2>1 DEF IInv, TypeOK, Drop, Below
<1>5. ASSUME NEW p \in Procs, Release(p) PROVE
        /\ writer' \in Procs \cup {Nobody}
        /\ txn' \in [Procs -> Transaction]
        /\ \A q \in Procs : Below(txn'[q].taken, txn'[q].counter)
        /\ \A q \in Procs : txn'[q].mode = "write" <=> writer' = q
  <2>1. 0 \in Counters
    BY SequenceAssumption DEF Counters
  <2> QED BY <1>5, <2>1, SequenceAssumption DEF IInv, TypeOK, Release, Below
<1>6. ASSUME NEW p \in Procs, Commit(p) PROVE IInv'
  <2>1. committed' \in Counters /\ filled' \in BOOLEAN /\ issued' \subseteq Nat
    BY <1>6 DEF IInv, TypeOK, Commit
  <2>2. Below(issued', committed')
    BY <1>6 DEF IInv, Commit, Below
  <2> QED BY <1>5, <1>6, <2>1, <2>2 DEF IInv, TypeOK, Commit
<1>7. ASSUME NEW p \in Procs, Discard(p) PROVE IInv'
  BY <1>5, <1>7 DEF IInv, TypeOK, Discard, Below
<1>8. ASSUME NEW c \in Counters, Foreign(c) PROVE IInv'
  <2>1. committed \in Nat /\ c \in Nat /\ c > committed /\ committed' = c
    BY <1>8 DEF IInv, TypeOK, Foreign, Counters
  <2>2. \A n \in issued : n \in Nat
    BY DEF IInv, TypeOK
  <2>3. Below(issued', committed')
    BY <1>8, <2>1, <2>2 DEF IInv, Foreign, Below
  <2> QED BY <1>8, <2>3 DEF IInv, TypeOK, Foreign, Below
<1>9. CASE UNCHANGED vars
  BY <1>9 DEF vars, IInv, TypeOK, Below
<1> QED BY <1>1, <1>2, <1>3, <1>4, <1>6, <1>7, <1>8, <1>9 DEF Next

\* One writer at a time, and everything handed out lies below the counter, for
\* any number of processes and whatever other programs do to the counter.
THEOREM Inductive == Spec => []IInv
<1>1. Init => IInv
  BY InitIInv
<1>2. IInv /\ [Next]_vars => IInv'
  BY StepIInv
<1> QED BY <1>1, <1>2, PTL DEF Spec

\* A reservation never hands out a number that was handed out before, and never
\* the same number twice (mdbx_dbi_sequence_()).
THEOREM HandsOutOnce == Spec => []NeverTwice
<1>1. IInv => NeverTwice
  <2> SUFFICES ASSUME IInv, NEW p \in Procs, NEW i \in Increments,
                      Accepts(txn[p].counter, i)
               PROVE  /\ Reserved(txn[p].counter, i) \cap txn[p].taken = {}
                      /\ \A j, k \in 0 .. i - 1 :
                           AsDouble(AsDouble(txn[p].counter) + j) =
                             AsDouble(AsDouble(txn[p].counter) + k) => j = k
    BY DEF NeverTwice
  <2> DEFINE c == txn[p].counter
  <2>1. c \in Counters /\ c \in Nat /\ i \in Nat
    BY DEF IInv, TypeOK, Transaction, Counters, Increments
  <2>2. \A j \in 0 .. i - 1 : AsDouble(AsDouble(c) + j) = c + j
    BY <2>1, ReservedExact
  <2>3. \A n \in txn[p].taken : n < c
    BY DEF IInv, Below
  <2>4. \A j \in 0 .. i - 1 : c + j \notin txn[p].taken
    BY <2>1, <2>3
  <2> QED BY <2>1, <2>2, <2>4 DEF Reserved
<1> QED BY <1>1, Inductive, PTL

\* The range check keeps libmdbx's counter from overflowing.
THEOREM NeverOverflows == Spec => []NoOverflow
<1>1. IInv => NoOverflow
  <2> SUFFICES ASSUME IInv, NEW p \in Procs, NEW i \in Increments,
                      Accepts(txn[p].counter, i)
               PROVE  ~Overflows(txn[p].counter, i)
    BY DEF NoOverflow
  <2>1. txn[p].counter \in Counters /\ txn[p].counter \in Nat /\ i \in Nat
    BY DEF IInv, TypeOK, Transaction, Counters, Increments
  <2>2. txn[p].counter + i <= MaxExact
    BY <2>1, AcceptedFits
  <2> QED BY <2>1, <2>2, SequenceAssumption DEF Overflows
<1> QED BY <1>1, Inductive, PTL
=============================================================================
