--------------------------- MODULE SessionsProofs ---------------------------
(***************************************************************************)
(* Proofs about Sessions: its type invariant, the inductive invariant IInv *)
(* and the safety properties that follow from it, for any finite number of *)
(* processes and any size of the reader table.                             *)
(***************************************************************************)
EXTENDS Sessions, FiniteSetTheorems, TLAPS

-----------------------------------------------------------------------------
(* The reader table.                                                       *)

Slots == [Procs -> {"free", "idle", "pinned"}]

\* Whoever keeps a slot in a table with room keeps room in the table.
LEMMA FewerSlots ==
  ASSUME NEW S, NEW T \in SUBSET S, S \subseteq Procs, Cardinality(S) <= MaxReaders
  PROVE Cardinality(T) \in Nat /\ Cardinality(T) <= MaxReaders
<1>1. IsFiniteSet(S)
  BY FS_Subset, SessionsAssumption DEF SessionsAssumption
<1>2. IsFiniteSet(T) /\ Cardinality(T) <= Cardinality(S)
  BY <1>1, FS_Subset
<1>3. Cardinality(S) \in Nat /\ Cardinality(T) \in Nat
  BY <1>1, <1>2, FS_CardinalityType
<1> QED BY <1>2, <1>3, SessionsAssumption DEF SessionsAssumption

\* mvcc_cleanup_dead() only frees slots.
LEMMA SweptType ==
  ASSUME slot \in Slots
  PROVE Swept \in Slots /\ Occupied(Swept) \subseteq Occupied(slot)
BY DEF Swept, Slots, Occupied

\* libmdbx ends a transaction: the reader keeps its slot.
LEMMA NativeEndType ==
  ASSUME slot \in Slots, ntxn \in [Procs -> NativeTxns], lock \in Procs \cup {Null},
         NEW p \in Procs, NativeEnd(p)
  PROVE /\ slot' \in Slots /\ lock' \in Procs \cup {Null}
        /\ ntxn' \in [Procs -> NativeTxns]
        /\ slot[p] = "pinned" \/ ntxn[p] # "read" => Occupied(slot') \subseteq Occupied(slot)
BY DEF NativeEnd, Slots, Occupied, NativeTxns

-----------------------------------------------------------------------------
(* A step of one process, seen from the process and from the others.       *)

\* What IInv says of one process.
ProcInv(p) == GoneInv(p) /\ NativeInv(p) /\ PlaceInv(p) /\ FateInv(p)

Types ==
  /\ pc \in [Procs -> Places]
  /\ helper \in [Procs -> {"read", "write"}]
  /\ env \in [Procs -> EnvStates]
  /\ state \in [Procs -> {"none", "active", "committed", "aborted"}]
  /\ ntxn \in [Procs -> NativeTxns]
  /\ lock \in Procs \cup {Null}
  /\ slot \in Slots
  /\ result \in [Procs -> {"none", "value", "error"}]
  /\ fate \in [Procs -> {"none", "file", "unknown"}]

\* What a step of p may do to q: sweep its slot out, or take over its lock,
\* if it is dead.
Untouched(q) ==
  /\ pc'[q] = pc[q] /\ helper'[q] = helper[q] /\ env'[q] = env[q]
  /\ state'[q] = state[q] /\ ntxn'[q] = ntxn[q]
  /\ result'[q] = result[q] /\ fate'[q] = fate[q]
  /\ slot'[q] = slot[q] \/ (pc[q] = "dead" /\ slot'[q] = "free")
  /\ lock' = q => lock = q
  /\ Live(q) /\ lock = q => lock' = q

\* Which leaves IInv true of q.
LEMMA UntouchedStep ==
  ASSUME NEW q \in Procs, ProcInv(q), Untouched(q)
  PROVE ProcInv(q)'
BY DEF ProcInv, Untouched, GoneInv, NativeInv, PlaceInv, FateInv, Live

\* The table has room for everyone in it.
Room == Occupied(slot') \subseteq Occupied(slot)

\* A step that leaves everything but its process alone, and the table with
\* those who were in it.
Good(p) == Types' /\ ProcInv(p)' /\ (\A q \in Procs \ {p} : Untouched(q))

\* Steps that only move the process.
LEMMA MoveStep ==
  ASSUME IInv, NEW p \in Procs,
         Armed(p) \/ Interrupted(p) \/ FunReturns(p) \/ FunThrows(p)
           \/ Start(p) \/ Forgotten(p) \/ CallWrite(p)
  PROVE Good(p) /\ Room
<1>1. Types /\ ProcInv(p)
  BY DEF IInv, TypeOK, Types, ProcInv, Slots
<1>2. Types' /\ Room
  BY <1>1 DEF Types, Slots, Places, Room, Occupied, Armed, Interrupted,
    FunReturns, FunThrows, Start, Forgotten, CallWrite, Moves, Returns
<1>3. \A q \in Procs \ {p} : Untouched(q)
  BY <1>1 DEF Types, Slots, Untouched, Armed, Interrupted, FunReturns,
    FunThrows, Start, Forgotten, CallWrite, Moves, Returns
<1>4. ProcInv(p)'
  BY <1>1 DEF Types, Slots, ProcInv, GoneInv, NativeInv, PlaceInv, FateInv,
    Live, Armed, Interrupted, FunReturns, FunThrows, Start, Forgotten,
    CallWrite, Moves, Returns
<1> QED BY <1>2, <1>3, <1>4 DEF Good


\* The writer lock is taken, or not.
LEMMA LockedStep ==
  ASSUME IInv, NEW p \in Procs, Locked(p) \/ LockedInVain(p)
  PROVE Good(p) /\ Room
<1>1. Types /\ ProcInv(p)
  BY DEF IInv, TypeOK, Types, ProcInv, Slots
<1>2. Types' /\ Room
  BY <1>1 DEF Types, Slots, Places, EnvStates, NativeTxns, ProcInv, NativeInv,
    Live, Room, Occupied, Locked, LockedInVain, Moves, Returns, LockFree, Swept
<1>3. \A q \in Procs \ {p} : Untouched(q)
  BY <1>1, SessionsAssumption DEF SessionsAssumption, Types, Slots, ProcInv,
    NativeInv, Live, Untouched, Locked, LockedInVain, Moves, Returns, LockFree,
    Swept
<1>4. ProcInv(p)'
  BY <1>1, SessionsAssumption DEF SessionsAssumption, Types, Slots, ProcInv,
    GoneInv, NativeInv, PlaceInv, FateInv, Live, Locked, LockedInVain, Moves,
    Returns, LockFree, Swept
<1> QED BY <1>2, <1>3, <1>4 DEF Good

\* mdbx_txn_commit().
LEMMA CommitStep ==
  ASSUME IInv, NEW p \in Procs, Commit(p)
  PROVE Good(p) /\ Room
<1>1. Types /\ ProcInv(p)
  BY DEF IInv, TypeOK, Types, ProcInv, Slots
<1>2. Types' /\ Room
  BY <1>1 DEF Types, Slots, Places, EnvStates, NativeTxns, ProcInv, NativeInv,
    Live, Room, Occupied, Commit, Callable, CommitRaises, CommitRollsBack,
    CommitSyncFails, EndedInName, Panics, Ended, NativeEnd, CommitSucceeds,
    Moves, Returns
<1>3. \A q \in Procs \ {p} : Untouched(q)
  BY <1>1, SessionsAssumption DEF SessionsAssumption, Types, Slots, ProcInv,
    NativeInv, Live, Untouched, Commit, Callable, CommitRaises,
    CommitRollsBack, CommitSyncFails, EndedInName, Panics, Ended, NativeEnd,
    CommitSucceeds, Moves, Returns
<1>4. ProcInv(p)'
  BY <1>1, SessionsAssumption DEF SessionsAssumption, Types, Slots, ProcInv,
    GoneInv, NativeInv, PlaceInv, FateInv, Live, Commit, Callable,
    CommitRaises, CommitRollsBack, CommitSyncFails, EndedInName, Panics, Ended,
    NativeEnd, CommitSucceeds, Moves, Returns
<1> QED BY <1>2, <1>3, <1>4 DEF Good

\* on.exit(), or the finalizer.
LEMMA LeavesStep ==
  ASSUME IInv, NEW p \in Procs, Leaves(p) \/ Collected(p)
  PROVE Good(p) /\ Room
<1>1. Types /\ ProcInv(p)
  BY DEF IInv, TypeOK, Types, ProcInv, Slots
<1>2. Types' /\ Room
  BY <1>1 DEF Types, Slots, Places, EnvStates, NativeTxns, ProcInv, NativeInv,
    Live, Room, Occupied, Leaves, Collected, AbortSucceeds, AbortsLocally,
    EndedInName, Panics, Ended, NativeEnd, Moves, Returns
<1>3. \A q \in Procs \ {p} : Untouched(q)
  BY <1>1, SessionsAssumption DEF SessionsAssumption, Types, Slots, ProcInv,
    NativeInv, Live, Untouched, Leaves, Collected, AbortSucceeds,
    AbortsLocally, EndedInName, Panics, Ended, NativeEnd, Moves, Returns
<1>4. ProcInv(p)'
  BY <1>1, SessionsAssumption DEF SessionsAssumption, Types, Slots, ProcInv,
    GoneInv, NativeInv, PlaceInv, FateInv, Live, Leaves, Collected,
    AbortSucceeds, AbortsLocally, EndedInName, Panics, Ended, NativeEnd, Moves,
    Returns
<1> QED BY <1>2, <1>3, <1>4 DEF Good

\* What the user's function does.
LEMMA FunStep ==
  ASSUME IInv, NEW p \in Procs, PutFails(p) \/ FunPanics(p) \/ FunEnds(p)
  PROVE Good(p) /\ Room
<1>1. Types /\ ProcInv(p)
  BY DEF IInv, TypeOK, Types, ProcInv, Slots
<1>2. Types' /\ Room
  BY <1>1 DEF Types, Slots, Places, EnvStates, NativeTxns, ProcInv, NativeInv,
    Live, Room, Occupied, PutFails, FunPanics, FunEnds, AbortSucceeds,
    AbortsLocally, CommitRaises, CommitRollsBack, CommitSyncFails, EndedInName,
    Panics, Ended, NativeEnd, CommitSucceeds, Moves, Returns
<1>3. \A q \in Procs \ {p} : Untouched(q)
  BY <1>1, SessionsAssumption DEF SessionsAssumption, Types, Slots, ProcInv,
    NativeInv, Live, Untouched, PutFails, FunPanics, FunEnds, AbortSucceeds,
    AbortsLocally, CommitRaises, CommitRollsBack, CommitSyncFails, EndedInName,
    Panics, Ended, NativeEnd, CommitSucceeds, Moves, Returns
<1>4. ProcInv(p)'
  BY <1>1, SessionsAssumption DEF SessionsAssumption, Types, Slots, ProcInv,
    GoneInv, NativeInv, PlaceInv, FateInv, Live, PutFails, FunPanics, FunEnds,
    AbortSucceeds, AbortsLocally, CommitRaises, CommitRollsBack,
    CommitSyncFails, EndedInName, Panics, Ended, NativeEnd, CommitSucceeds,
    Moves, Returns
<1> QED BY <1>2, <1>3, <1>4 DEF Good

\* mdbx_env_open(): the lock file is emptied only when nobody holds it.
LEMMA OpenStep ==
  ASSUME IInv, NEW p \in Procs, Open(p)
  PROVE Good(p) /\ Room
<1>1. Types /\ \A q \in Procs : ProcInv(q)
  BY DEF IInv, TypeOK, Types, ProcInv, Slots
<1>2. Types' /\ Room
  BY <1>1 DEF Types, Slots, EnvStates, Room, Occupied, Open, Swept
<1>3. \A q \in Procs \ {p} : Untouched(q)
  <2> SUFFICES ASSUME NEW q \in Procs \ {p} PROVE Untouched(q)
    OBVIOUS
  <2>1. Live(q) /\ lock = q => HoldsFile(q)
    BY <1>1 DEF ProcInv, NativeInv, HoldsFile
  <2>2. lock' = q => lock = q
    BY SessionsAssumption DEF SessionsAssumption, Open
  <2> QED BY <1>1, <2>1, <2>2 DEF Open, Untouched, Types, Slots, Swept
<1>4. ProcInv(p)'
  <2>1. ~(lock = p) /\ lock' # p
    BY <1>1, SessionsAssumption DEF SessionsAssumption, Open, ProcInv, NativeInv, Live
  <2> QED BY <1>1, <2>1 DEF Open, Types, Slots, Swept, Live, ProcInv, GoneInv, NativeInv, PlaceInv, FateInv
<1> QED BY <1>2, <1>3, <1>4 DEF Good

\* mdbx_env_close(), mdbx_env_reader_check(), and the death of the process.
LEMMA EnvStep ==
  ASSUME IInv, NEW p \in Procs, Close(p) \/ ReaderCheck(p) \/ Dies(p)
  PROVE Good(p) /\ Room
<1>1. Types /\ ProcInv(p)
  BY DEF IInv, TypeOK, Types, ProcInv, Slots
<1>2. Types' /\ Room
  BY <1>1 DEF Types, Slots, Places, EnvStates, NativeTxns, Room, Occupied,
    Close, ReaderCheck, Dies, Moves, Swept
<1>3. \A q \in Procs \ {p} : Untouched(q)
  BY <1>1, SessionsAssumption DEF SessionsAssumption, Types, Slots, Untouched,
    Close, ReaderCheck, Dies, Moves, Swept, Live
<1>4. ProcInv(p)'
  BY <1>1, SessionsAssumption DEF SessionsAssumption, Types, Slots, ProcInv,
    GoneInv, NativeInv, PlaceInv, FateInv, Live, Close, ReaderCheck, Dies,
    Moves, RCode, Callable, Swept
<1> QED BY <1>2, <1>3, <1>4 DEF Good

\* mdbx_with_read() takes a slot only if there is one, or its own.
LEMMA CallReadStep ==
  ASSUME IInv, NEW p \in Procs, CallRead(p)
  PROVE Good(p) /\ Cardinality(Occupied(slot')) <= MaxReaders
<1>1. Types /\ ProcInv(p) /\ Cardinality(Occupied(slot)) <= MaxReaders
  BY DEF IInv, TypeOK, Types, ProcInv, Slots
<1>2. Bound(p) \in Slots /\ Occupied(Bound(p)) \subseteq Occupied(slot)
  BY <1>1, SweptType DEF Bound, Types
<1>3. slot' = [Bound(p) EXCEPT ![p] = "pinned"]
  BY DEF CallRead
<1>4. Types'
  BY <1>1, <1>2, <1>3 DEF Types, Slots, Places, NativeTxns, CallRead, Moves
<1>5. \A q \in Procs \ {p} : Untouched(q)
  BY <1>1, <1>2, <1>3 DEF Types, Slots, Untouched, CallRead, Moves, Bound, Swept
<1>6. ProcInv(p)'
  <2>1. slot'[p] = "pinned" /\ lock # p
    BY <1>1, <1>2, <1>3 DEF Slots, CallRead, ProcInv, NativeInv, Live
  <2> QED BY <1>1, <2>1 DEF Types, CallRead, Moves, Live, ProcInv, GoneInv, NativeInv, PlaceInv, FateInv
<1>7. Cardinality(Occupied(slot')) <= MaxReaders
  <2>1. Occupied(slot') = Occupied(Bound(p)) \cup {p}
    BY <1>2, <1>3 DEF Occupied, Slots
  <2>2. CASE slot[p] # "free"
    <3>1. Occupied(slot') \subseteq Occupied(slot)
      BY <1>2, <2>1, <2>2 DEF Occupied
    <3> QED BY <1>1, <3>1, FewerSlots DEF Occupied
  <2>3. CASE Cardinality(Occupied(Bound(p))) < MaxReaders
    <3>1. IsFiniteSet(Occupied(Bound(p)))
      BY FS_Subset, SessionsAssumption DEF SessionsAssumption, Occupied
    <3>2. Cardinality(Occupied(Bound(p))) \in Nat
      BY <3>1, FS_CardinalityType
    <3>3. Cardinality(Occupied(slot')) <= Cardinality(Occupied(Bound(p))) + 1
      <4> DEFINE S == Occupied(Bound(p))
      <4>1. Cardinality(S \cup {p}) = IF p \in S THEN Cardinality(S) ELSE Cardinality(S) + 1
        BY <3>1, FS_AddElement
      <4>2. Cardinality(S) \in Nat
        BY <3>2
      <4> HIDE DEF S
      <4>3. Cardinality(S \cup {p}) <= Cardinality(S) + 1
        BY <4>1, <4>2
      <4> QED BY <2>1, <4>3 DEF S
    <3>4. IsFiniteSet(Occupied(slot'))
      BY <2>1, <3>1, FS_AddElement
    <3>5. Cardinality(Occupied(slot')) \in Nat
      BY <3>4, FS_CardinalityType
    <3> QED BY <2>3, <3>2, <3>3, <3>5, SessionsAssumption DEF SessionsAssumption
  <2> QED BY <2>2, <2>3 DEF CallRead, HasSlot
<1> QED BY <1>4, <1>5, <1>6, <1>7 DEF Good

-----------------------------------------------------------------------------
(* The invariant.                                                          *)

\* At first there are no processes.
LEMMA InitIInv == Init => IInv
<1> SUFFICES ASSUME Init PROVE IInv
  OBVIOUS
<1>1. Occupied(slot) = {}
  BY DEF Init, Occupied
<1>2. Cardinality(Occupied(slot)) <= MaxReaders
  BY <1>1, FS_EmptySet, SessionsAssumption DEF SessionsAssumption
<1>3. TypeOK
  BY <1>2 DEF Init, TypeOK, Places, EnvStates, NativeTxns
<1>4. ASSUME NEW p \in Procs
      PROVE GoneInv(p) /\ NativeInv(p) /\ PlaceInv(p) /\ FateInv(p)
  BY SessionsAssumption DEF SessionsAssumption, Init, Live, GoneInv, NativeInv,
    PlaceInv, FateInv
<1> QED BY <1>3, <1>4 DEF IInv

\* Every step keeps the invariant: the process's own part by the lemma of its
\* action, everyone else's by UntouchedStep.
LEMMA NextIInv == IInv /\ [Next]_vars => IInv'
<1> SUFFICES ASSUME IInv, [Next]_vars PROVE IInv'
  OBVIOUS
<1>1. CASE UNCHANGED vars
  <2>1. TypeOK'
    BY <1>1 DEF vars, IInv, TypeOK, Occupied
  <2>2. \A p \in Procs : (GoneInv(p) /\ NativeInv(p) /\ PlaceInv(p) /\ FateInv(p))'
    BY <1>1 DEF vars, IInv, Live, GoneInv, NativeInv, PlaceInv, FateInv
  <2> QED BY <2>1, <2>2 DEF IInv
<1>2. CASE Next
  <2>1. PICK p \in Procs : Good(p) /\ (Room \/ CallRead(p))
    <3>1. ASSUME NEW p \in Procs,
                 Armed(p) \/ Interrupted(p) \/ FunReturns(p) \/ FunThrows(p)
                   \/ Start(p) \/ Forgotten(p) \/ CallWrite(p)
          PROVE Good(p) /\ Room
      BY <3>1, MoveStep
    <3>2. ASSUME NEW p \in Procs, Locked(p) \/ LockedInVain(p) PROVE Good(p) /\ Room
      BY <3>2, LockedStep
    <3>3. ASSUME NEW p \in Procs, CallRead(p) PROVE Good(p)
      BY <3>3, CallReadStep
    <3>4. ASSUME NEW p \in Procs, Commit(p) PROVE Good(p) /\ Room
      BY <3>4, CommitStep
    <3>5. ASSUME NEW p \in Procs, Leaves(p) \/ Collected(p) PROVE Good(p) /\ Room
      BY <3>5, LeavesStep
    <3>6. ASSUME NEW p \in Procs, PutFails(p) \/ FunPanics(p) \/ FunEnds(p)
          PROVE Good(p) /\ Room
      BY <3>6, FunStep
    <3>7. ASSUME NEW p \in Procs, Open(p) PROVE Good(p) /\ Room
      BY <3>7, OpenStep
    <3>8. ASSUME NEW p \in Procs, Close(p) \/ ReaderCheck(p) \/ Dies(p)
          PROVE Good(p) /\ Room
      BY <3>8, EnvStep
    <3> QED BY <1>2, <3>1, <3>2, <3>3, <3>4, <3>5, <3>6, <3>7, <3>8 DEF Next
  <2>2. \A q \in Procs : ProcInv(q)'
    <3> SUFFICES ASSUME NEW q \in Procs PROVE ProcInv(q)'
      OBVIOUS
    <3>1. ProcInv(q)
      BY DEF IInv, ProcInv
    <3> QED BY <2>1, <3>1, UntouchedStep DEF Good
  <2>3. Cardinality(Occupied(slot')) <= MaxReaders
    <3>1. CASE Room
      BY <3>1, FewerSlots DEF Room, IInv, TypeOK, Occupied
    <3>2. CASE CallRead(p)
      BY <3>2, CallReadStep
    <3> QED BY <2>1, <3>1, <3>2
  <2>4. TypeOK'
    BY <2>1, <2>3 DEF Good, Types, TypeOK, Slots, Occupied
  <2> QED BY <2>2, <2>4 DEF IInv, ProcInv
<1> QED BY <1>1, <1>2

\* What the lock file says of every process, what the handle of its helper
\* says, and what its caller was told, agree: in any number of processes, with
\* any size of the reader table (mdbx_with_read(), mdbx_with_write(),
\* finish_txn(), and the deaths of processes in between).
THEOREM Inductive == Spec => []IInv
<1>1. Init => IInv
  BY InitIInv
<1>2. IInv /\ [Next]_vars => IInv'
  BY NextIInv
<1> QED BY <1>1, <1>2, PTL DEF Spec

\* The variables keep their types, and the reader table is never overfull.
THEOREM TypeCorrect == Spec => []TypeOK
<1>1. IInv => TypeOK
  BY DEF IInv
<1> QED BY <1>1, Inductive, PTL

\* mdbx_with_write() gives a value only for writes that are in the file.
THEOREM OutcomeCorrect == Spec => []OutcomeTold
<1>1. IInv => OutcomeTold
  BY DEF IInv, FateInv, OutcomeTold
<1> QED BY <1>1, Inductive, PTL

\* The writer lock belongs to the live process with a write transaction, and
\* pinned slots to live readers or the dead.
THEOREM LockFileCorrect == Spec => []NativeAccounted
<1>1. IInv => NativeAccounted
  BY DEF IInv, TypeOK, NativeInv, NativeAccounted
<1> QED BY <1>1, Inductive, PTL

\* A helper that has come back keeps neither lock nor snapshot, as long as
\* libmdbx did not break and nothing interrupted it at the wrong moment.
THEOREM HelpersKeepNothing == Spec => []NothingKept
<1>1. IInv => NothingKept
  <2> SUFFICES ASSUME IInv, NEW p \in Procs,
                      pc[p] = "idle", env[p] \in {"open", "closed"},
                      result[p] = "value" \/ state[p] # "active"
               PROVE ntxn[p] = "none" /\ lock # p /\ slot[p] # "pinned"
    BY DEF NothingKept
  <2>1. state[p] # "active"
    BY DEF IInv, PlaceInv
  <2>2. ntxn[p] = "none"
    BY <2>1 DEF IInv, NativeInv
  <2>3. Live(p)
    BY DEF Live
  <2> QED BY <2>2, <2>3 DEF IInv, NativeInv
<1> QED BY <1>1, Inductive, PTL

=============================================================================
