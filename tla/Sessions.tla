------------------------------- MODULE Sessions -------------------------------
(***************************************************************************)
(* mdbx_with_write() and mdbx_with_read() (R/txn.R) in the processes that  *)
(* share one environment file: begin, on.exit(abort), the user's function, *)
(* commit; around them the writer lock and the reader table of libmdbx,    *)
(* panics, environments that are fatally broken, interrupts, and the death *)
(* of processes.                                                           *)
(*                                                                         *)
(* Every process has one environment object and the transaction object of  *)
(* its latest helper call. An identifier stands for a process and what it  *)
(* leaves behind in the lock file; it is used again once nothing is left.  *)
(***************************************************************************)
EXTENDS Naturals, FiniteSets

CONSTANTS
  Procs,       \* processes
  MaxReaders,  \* slots of the reader table
  Null         \* nobody

ASSUME SessionsAssumption ==
  /\ Null \notin Procs
  /\ IsFiniteSet(Procs)
  /\ MaxReaders \in Nat \ {0}

VARIABLES
  pc,      \* where the process is
  helper,  \* the helper called last: mdbx_with_read() or mdbx_with_write()
  env,     \* the environment of the process
  state,   \* txn_handle::state of the helper's transaction
  ntxn,    \* libmdbx: the native transaction of the process
  lock,    \* libmdbx: the owner of the writer lock, alive or dead
  slot,    \* libmdbx: the process's slot in the reader table
  result,  \* what the caller of the helper gets, or is about to get
  fate     \* ghost: what became of the writes of the latest write helper

vars == <<pc, helper, env, state, ntxn, lock, slot, result, fate>>

\* none: no such process. idle: no helper runs. waiting: in mdbx_txn_begin().
\* begun: on.exit() is not registered yet. fun: the user's function runs.
\* commit: it has returned. leaving: on.exit() runs.
Places == {"none", "idle", "waiting", "begun", "fun", "commit", "leaving", "dead"}

\* fatal: ENV_FATAL_ERROR. poisoned: after a panic. abandoned: poisoned and closed.
EnvStates == {"closed", "open", "fatal", "poisoned", "abandoned"}

\* failed: a write transaction with MDBX_TXN_ERROR.
NativeTxns == {"none", "read", "write", "failed"}

Live(p) == pc[p] \notin {"none", "dead"}

\* The environment can still be called, if only to be told MDBX_PANIC.
Callable(p) == env[p] \in {"open", "fatal"}

\* What the user's function, or the top level, may do with the environment.
RCode(p) == pc[p] \in {"idle", "fun"}

-----------------------------------------------------------------------------
(* libmdbx: the writer lock and the reader table.                          *)

\* Mutant: a mutex that is not robust.
LockUnowned == lock = Null

\* pthread_mutex_lock() succeeds: nobody has the lock, or its owner died.
LockFree == lock \in {Null} \cup {q \in Procs : pc[q] = "dead"}

\* mvcc_cleanup_dead(): the slots of dead processes are freed.
Swept == [p \in Procs |-> IF pc[p] = "dead" THEN "free" ELSE slot[p]]

Occupied(slots) == {p \in Procs : slots[p] # "free"}

\* Mutant: the lock stays with the transaction that has ended.
NativeEndLocked(p) ==
  /\ ntxn' = [ntxn EXCEPT ![p] = "none"]
  /\ slot' = IF ntxn[p] = "read" THEN [slot EXCEPT ![p] = "idle"] ELSE slot
  /\ UNCHANGED lock

\* libmdbx ends the native transaction. A slot stays bound to its thread.
NativeEnd(p) ==
  /\ ntxn' = [ntxn EXCEPT ![p] = "none"]
  /\ slot' = IF ntxn[p] = "read" THEN [slot EXCEPT ![p] = "idle"] ELSE slot
  /\ lock' = IF ntxn[p] \in {"write", "failed"} THEN Null ELSE lock

-----------------------------------------------------------------------------
(* finish_txn(): the outcomes of mdbx_txn_commit() and mdbx_txn_abort().   *)

\* The native transaction ends, the handle is marked.
Ended(p, s) == /\ NativeEnd(p)
               /\ state' = [state EXCEPT ![p] = s]

\* Mutant: MDBX_RESULT_TRUE taken for success.
CommitSucceedsAnyway(p) ==
  /\ env[p] = "open"
  /\ Ended(p, "committed")
  /\ fate' = IF ntxn[p] = "write" THEN [fate EXCEPT ![p] = "file"] ELSE fate
  /\ UNCHANGED env

CommitSucceeds(p) ==
  /\ env[p] = "open"
  /\ ntxn[p] # "failed"
  /\ Ended(p, "committed")
  /\ fate' = IF ntxn[p] = "write" THEN [fate EXCEPT ![p] = "file"] ELSE fate
  /\ UNCHANGED env

\* Rolled back: MDBX_RESULT_TRUE for a transaction marked erroneous, or an
\* error before anything of it was written.
CommitRollsBack(p) ==
  /\ env[p] = "open"
  /\ ntxn[p] \in {"write", "failed"}
  /\ Ended(p, "aborted")
  /\ UNCHANGED <<env, fate>>

\* The disk fails while the commit is synced: the transaction ends, libmdbx
\* does not always take the new meta page back, and the environment is broken.
CommitSyncFails(p) ==
  /\ env[p] = "open"
  /\ ntxn[p] = "write"
  /\ Ended(p, "aborted")
  /\ env' = [env EXCEPT ![p] = "fatal"]
  /\ fate' = [fate EXCEPT ![p] = "unknown"]

\* check_env() answers MDBX_PANIC: the handle is marked, libmdbx did nothing.
EndedInName(p) ==
  /\ env[p] = "fatal"
  /\ state' = [state EXCEPT ![p] = "aborted"]
  /\ UNCHANGED <<env, ntxn, lock, slot, fate>>

\* libmdbx panics: poison_txn(), and an R error.
Panics(p, maybe) ==
  /\ env[p] = "open"
  /\ env' = [env EXCEPT ![p] = "poisoned"]
  /\ fate' = IF maybe /\ ntxn[p] = "write" THEN [fate EXCEPT ![p] = "unknown"] ELSE fate
  /\ UNCHANGED <<state, ntxn, lock, slot>>

\* A commit that raises an error.
CommitRaises(p) == \/ CommitRollsBack(p)
                   \/ CommitSyncFails(p)
                   \/ EndedInName(p)
                   \/ Panics(p, TRUE)

AbortSucceeds(p) == /\ env[p] = "open"
                    /\ Ended(p, "aborted")
                    /\ UNCHANGED <<env, fate>>

\* mdbx_txn_abort_() on a poisoned environment: ended without libmdbx.
AbortsLocally(p) ==
  /\ env[p] = "poisoned"
  /\ state' = [state EXCEPT ![p] = "aborted"]
  /\ UNCHANGED <<env, ntxn, lock, slot, fate>>

Moves(p, to) == pc' = [pc EXCEPT ![p] = to]

Returns(p, to, r) == /\ Moves(p, to)
                     /\ result' = [result EXCEPT ![p] = r]

-----------------------------------------------------------------------------
(* The helpers.                                                            *)

\* mdbx_with_write() up to the writer lock. With an unfinished transaction
\* mdbx_txn_begin_() refuses, and with a broken environment too.
CallWrite(p) ==
  /\ pc[p] = "idle" /\ env[p] = "open" /\ state[p] # "active"
  /\ Moves(p, "waiting")
  /\ helper' = [helper EXCEPT ![p] = "write"]
  /\ result' = [result EXCEPT ![p] = "none"]
  /\ fate' = [fate EXCEPT ![p] = "none"]
  /\ state' = [state EXCEPT ![p] = "none"]
  /\ UNCHANGED <<env, ntxn, lock, slot>>

\* The lock is taken; from a dead owner, with its recovery.
Locked(p) ==
  /\ pc[p] = "waiting" /\ LockFree
  /\ Moves(p, "begun")
  /\ lock' = p
  /\ slot' = IF lock = Null THEN slot ELSE Swept
  /\ ntxn' = [ntxn EXCEPT ![p] = "write"]
  /\ state' = [state EXCEPT ![p] = "active"]
  /\ UNCHANGED <<helper, env, result, fate>>

\* The begin fails, or panics before or after it has the lock.
LockedInVain(p) ==
  /\ pc[p] = "waiting"
  /\ Returns(p, "idle", "error")
  /\ \/ UNCHANGED <<env, ntxn, lock, slot>>
     \/ /\ env' = [env EXCEPT ![p] = "poisoned"]
        /\ UNCHANGED <<ntxn, lock, slot>>
     \/ /\ LockFree
        /\ env' = [env EXCEPT ![p] = "poisoned"]
        /\ lock' = p
        /\ slot' = IF lock = Null THEN slot ELSE Swept
        /\ ntxn' = [ntxn EXCEPT ![p] = "write"]
  /\ UNCHANGED <<helper, state, fate>>

\* The reader table after mvcc_bind_slot() has looked for a slot for p: dead
\* processes are only swept out when there is no room.
Bound(p) ==
  IF slot[p] # "free" \/ Cardinality(Occupied(slot)) < MaxReaders
  THEN slot ELSE Swept

\* Mutant: a full table is found too late.
HasSlotAnyway(p) == p \in Procs

\* MDBX_READERS_FULL otherwise.
HasSlot(p) == \/ slot[p] # "free"
              \/ Cardinality(Occupied(Bound(p))) < MaxReaders

\* mdbx_with_read() up to the snapshot.
CallRead(p) ==
  /\ pc[p] = "idle" /\ env[p] = "open" /\ state[p] # "active"
  /\ HasSlot(p)
  /\ Moves(p, "begun")
  /\ helper' = [helper EXCEPT ![p] = "read"]
  /\ result' = [result EXCEPT ![p] = "none"]
  /\ fate' = [fate EXCEPT ![p] = "none"]
  /\ slot' = [Bound(p) EXCEPT ![p] = "pinned"]
  /\ ntxn' = [ntxn EXCEPT ![p] = "read"]
  /\ state' = [state EXCEPT ![p] = "active"]
  /\ UNCHANGED <<env, lock>>

\* on.exit(mdbx_txn_abort(txn)), and the call of the user's function.
Armed(p) ==
  /\ pc[p] = "begun"
  /\ Moves(p, "fun")
  /\ UNCHANGED <<helper, env, state, ntxn, lock, slot, result, fate>>

\* An interrupt that R delivers before on.exit() is registered, or while it
\* runs: the transaction is garbage that libmdbx still considers live.
Interrupted(p) ==
  /\ pc[p] \in {"begun", "leaving"} /\ state[p] = "active"
  /\ Returns(p, "idle", "error")
  /\ UNCHANGED <<helper, env, state, ntxn, lock, slot, fate>>

\* The user's function returns, or throws or is interrupted. mdbx_with_read()
\* has nothing to commit.
FunReturns(p) ==
  /\ pc[p] = "fun"
  /\ \/ helper[p] = "write" /\ Moves(p, "commit") /\ UNCHANGED result
     \/ helper[p] = "read" /\ Returns(p, "leaving", "value")
  /\ UNCHANGED <<helper, env, state, ntxn, lock, slot, fate>>

FunThrows(p) ==
  /\ pc[p] = "fun"
  /\ Returns(p, "leaving", "error")
  /\ UNCHANGED <<helper, env, state, ntxn, lock, slot, fate>>

\* mdbx_txn_commit() of mdbx_with_write(): an error if the transaction has
\* been ended, or its environment poisoned or closed.
Commit(p) ==
  /\ pc[p] = "commit"
  /\ \/ /\ state[p] = "active" /\ CommitSucceeds(p)
        /\ Returns(p, "leaving", "value")
     \/ /\ state[p] = "active" /\ CommitRaises(p)
        /\ Returns(p, "leaving", "error")
     \/ /\ state[p] # "active" \/ ~Callable(p)
        /\ Returns(p, "leaving", "error")
        /\ UNCHANGED <<env, state, ntxn, lock, slot, fate>>
  /\ UNCHANGED helper

\* Mutant: a helper that commits or returns without on.exit().
LeavesOnly(p) ==
  /\ pc[p] = "leaving"
  /\ Moves(p, "idle")
  /\ UNCHANGED <<helper, env, state, ntxn, lock, slot, result, fate>>

\* on.exit(): mdbx_txn_abort(), a no-op on a transaction that has ended. An
\* error it raises replaces the value.
Leaves(p) ==
  /\ pc[p] = "leaving"
  /\ \/ /\ state[p] = "active" /\ (AbortSucceeds(p) \/ AbortsLocally(p))
        /\ Moves(p, "idle") /\ UNCHANGED result
     \/ /\ state[p] = "active" /\ (EndedInName(p) \/ Panics(p, FALSE))
        /\ Returns(p, "idle", "error")
     \/ /\ state[p] # "active"
        /\ Moves(p, "idle")
        /\ UNCHANGED <<env, state, ntxn, lock, slot, result, fate>>
  /\ UNCHANGED helper

\* finalize_txn() on the transaction of an interrupted helper.
Collected(p) ==
  /\ pc[p] = "idle" /\ state[p] = "active"
  /\ \/ AbortSucceeds(p) \/ AbortsLocally(p) \/ EndedInName(p)
     \/ /\ env[p] = "open"
        /\ env' = [env EXCEPT ![p] = "poisoned"]
        /\ state' = [state EXCEPT ![p] = "aborted"]
        /\ UNCHANGED <<ntxn, lock, slot, fate>>
  /\ UNCHANGED <<pc, helper, result>>

-----------------------------------------------------------------------------
(* What the user's function may do, besides reading and writing.           *)

\* A write fails and marks the transaction (MDBX_MAP_FULL); the function may
\* handle the error and go on. A failed remap takes the environment with it.
PutFails(p) ==
  /\ pc[p] = "fun" /\ env[p] = "open" /\ state[p] = "active"
  /\ ntxn[p] \in {"write", "failed"}
  /\ ntxn' = [ntxn EXCEPT ![p] = "failed"]
  /\ env' \in {env, [env EXCEPT ![p] = "fatal"]}
  /\ UNCHANGED <<pc, helper, state, lock, slot, result, fate>>

\* Any call on the transaction panics; the function may handle that as well.
FunPanics(p) ==
  /\ pc[p] = "fun" /\ state[p] = "active"
  /\ Panics(p, FALSE)
  /\ UNCHANGED <<pc, helper, result>>

\* The function ends the transaction itself.
FunEnds(p) ==
  /\ pc[p] = "fun" /\ state[p] = "active"
  /\ \/ CommitSucceeds(p) \/ CommitRaises(p)
     \/ AbortSucceeds(p) \/ AbortsLocally(p)
  /\ UNCHANGED <<pc, helper, result>>

-----------------------------------------------------------------------------
(* Environments and processes.                                             *)

HoldsFile(p) == Live(p) /\ env[p] # "closed"

\* mdbx_env_open(): the first process to open the file starts from an empty
\* lock file, every other one sweeps out the dead readers.
Open(p) ==
  /\ pc[p] = "idle" /\ env[p] = "closed"
  /\ env' = [env EXCEPT ![p] = "open"]
  /\ slot' = Swept
  /\ lock' = IF \E q \in Procs : HoldsFile(q) THEN lock ELSE Null
  /\ UNCHANGED <<pc, helper, state, ntxn, result, fate>>

\* mdbx_env_close(): refused while a transaction is registered, unless the
\* environment is poisoned and only given up. libmdbx unlocks what is its own.
Close(p) ==
  /\ RCode(p)
  /\ \/ /\ Callable(p) /\ state[p] # "active"
        /\ env' = [env EXCEPT ![p] = "closed"]
        /\ ntxn' = [ntxn EXCEPT ![p] = "none"]
        /\ slot' = [slot EXCEPT ![p] = "free"]
        /\ lock' = IF lock = p THEN Null ELSE lock
        /\ UNCHANGED state
     \/ /\ env[p] = "poisoned"
        /\ env' = [env EXCEPT ![p] = "abandoned"]
        /\ state' = [state EXCEPT ![p] = IF @ = "active" THEN "aborted" ELSE @]
        /\ UNCHANGED <<ntxn, slot, lock>>
  /\ UNCHANGED <<pc, helper, result, fate>>

\* mdbx_env_reader_check().
ReaderCheck(p) ==
  /\ RCode(p) /\ env[p] = "open"
  /\ slot' = Swept
  /\ UNCHANGED <<pc, helper, env, state, ntxn, lock, result, fate>>

Start(p) ==
  /\ pc[p] = "none"
  /\ Moves(p, "idle")
  /\ UNCHANGED <<helper, env, state, ntxn, lock, slot, result, fate>>

\* The process is killed: its memory is gone, its traces in the lock file are not.
Dies(p) ==
  /\ Live(p)
  /\ Moves(p, "dead")
  /\ env' = [env EXCEPT ![p] = "closed"]
  /\ ntxn' = [ntxn EXCEPT ![p] = "none"]
  /\ state' = [state EXCEPT ![p] = "none"]
  /\ result' = [result EXCEPT ![p] = "none"]
  /\ fate' = [fate EXCEPT ![p] = "none"]
  /\ UNCHANGED <<helper, lock, slot>>

\* Nothing of it is left: the identifier may stand for another process.
Forgotten(p) ==
  /\ pc[p] = "dead" /\ slot[p] = "free" /\ lock # p
  /\ Moves(p, "none")
  /\ UNCHANGED <<helper, env, state, ntxn, lock, slot, result, fate>>

Init ==
  /\ pc = [p \in Procs |-> "none"]
  /\ helper = [p \in Procs |-> "read"]
  /\ env = [p \in Procs |-> "closed"]
  /\ state = [p \in Procs |-> "none"]
  /\ ntxn = [p \in Procs |-> "none"]
  /\ lock = Null
  /\ slot = [p \in Procs |-> "free"]
  /\ result = [p \in Procs |-> "none"]
  /\ fate = [p \in Procs |-> "none"]

Next ==
  \E p \in Procs :
    \/ CallWrite(p) \/ Locked(p) \/ LockedInVain(p) \/ CallRead(p)
    \/ Armed(p) \/ Interrupted(p) \/ FunReturns(p) \/ FunThrows(p)
    \/ Commit(p) \/ Leaves(p) \/ Collected(p)
    \/ PutFails(p) \/ FunPanics(p) \/ FunEnds(p)
    \/ Open(p) \/ Close(p) \/ ReaderCheck(p)
    \/ Start(p) \/ Dies(p) \/ Forgotten(p)

\* The user's function comes to an end, R evaluates the rest of the helper,
\* garbage is collected, and a mutex that is released again and again reaches
\* everyone who waits for it.
Fairness ==
  \A p \in Procs : /\ WF_vars(Armed(p))
                   /\ WF_vars(FunReturns(p) \/ FunThrows(p))
                   /\ WF_vars(Commit(p))
                   /\ WF_vars(Leaves(p))
                   /\ WF_vars(Collected(p))
                   /\ SF_vars(Locked(p))

Spec == Init /\ [][Next]_vars /\ Fairness

-----------------------------------------------------------------------------

\* The types of the variables (txn_handle::state and the native objects).
TypeOK ==
  /\ pc \in [Procs -> Places]
  /\ helper \in [Procs -> {"read", "write"}]
  /\ env \in [Procs -> EnvStates]
  /\ state \in [Procs -> {"none", "active", "committed", "aborted"}]
  /\ ntxn \in [Procs -> NativeTxns]
  /\ lock \in Procs \cup {Null}
  /\ slot \in [Procs -> {"free", "idle", "pinned"}]
  /\ result \in [Procs -> {"none", "value", "error"}]
  /\ fate \in [Procs -> {"none", "file", "unknown"}]
  /\ Cardinality(Occupied(slot)) <= MaxReaders

\* mdbx_with_write() gives its value only when the writes are in the file, and
\* mdbx_txn_state() says "committed" of exactly the transactions whose writes
\* are, unless libmdbx broke while it committed: then nothing but an error is
\* reported. (R/txn.R:82-93, 185-189; finish_txn() on MDBX_RESULT_TRUE.)
OutcomeTold ==
  \A p \in Procs :
    helper[p] = "write" =>
      /\ result[p] = "value" => fate[p] = "file"
      /\ state[p] = "committed" <=> fate[p] = "file"
      /\ fate[p] = "unknown" /\ pc[p] = "idle" => result[p] = "error"

\* A helper that has given its value keeps neither the writer lock nor a
\* snapshot, and one that was left in any other way keeps them at most until
\* the garbage is collected (an interrupt between the begin and on.exit()), as
\* long as libmdbx did not break the environment. ("makes the 'abandoned a
\* write transaction and kept the writer lock' mistake unreachable",
\* R/txn.R:191-192.)
NothingKept ==
  \A p \in Procs :
    /\ pc[p] = "idle" /\ env[p] \in {"open", "closed"}
    /\ result[p] = "value" \/ state[p] # "active"
    => /\ ntxn[p] = "none"
       /\ lock # p
       /\ slot[p] # "pinned"

\* Across processes: the writer lock belongs to the one live process with a
\* native write transaction, and pinned slots to live readers or the dead.
NativeAccounted ==
  \A p \in Procs :
    Live(p) => /\ lock = p <=> ntxn[p] \in {"write", "failed"}
               /\ slot[p] = "pinned" <=> ntxn[p] = "read"
               /\ state[p] = "active" => ntxn[p] # "none"

\* What finish_txn() assumes of libmdbx (r_mdbx.cpp:1209-1214): a result other
\* than MDBX_THREAD_MISMATCH terminates the transaction, so that a handle of a
\* healthy environment that has ended has no native transaction.
EndedMeansTerminated ==
  \A p \in Procs :
    state[p] \in {"committed", "aborted"} /\ env[p] \notin {"poisoned", "abandoned"}
      => ntxn[p] = "none"

\* A process that waits in mdbx_with_write() gets the lock, or an error, or is
\* kept waiting by a live process whose environment libmdbx has broken.
WriterGetsIn ==
  \A p \in Procs :
    pc[p] = "waiting" ~>
      \/ pc[p] # "waiting"
      \/ \E q \in Procs : lock = q /\ Live(q) /\ env[q] \notin {"open", "closed"}

-----------------------------------------------------------------------------
(* The inductive invariant behind the safety properties.                   *)

\* A process that is gone has nothing but its traces in the lock file, one
\* that never was not even those.
GoneInv(p) ==
  /\ ~Live(p) => /\ env[p] = "closed" /\ ntxn[p] = "none" /\ state[p] = "none"
                 /\ result[p] = "none" /\ fate[p] = "none"
  /\ pc[p] = "none" => slot[p] = "free" /\ lock # p

\* The lock file agrees with the native transaction, and that with what the
\* helper's handle says as long as the environment is healthy.
NativeInv(p) ==
  /\ Live(p) => /\ lock = p <=> ntxn[p] \in {"write", "failed"}
                /\ slot[p] = "pinned" <=> ntxn[p] = "read"
  /\ state[p] = "active" => IF helper[p] = "read" THEN ntxn[p] = "read"
                                                  ELSE ntxn[p] \in {"write", "failed"}
  /\ env[p] = "closed" => ntxn[p] = "none" /\ state[p] # "active"
  /\ env[p] = "open" /\ state[p] # "active" => ntxn[p] = "none"

\* What is decided where the helper is.
PlaceInv(p) ==
  /\ pc[p] = "waiting" => env[p] = "open" /\ state[p] = "none"
  /\ pc[p] = "begun" => env[p] = "open" /\ state[p] = "active"
  /\ pc[p] \in {"waiting", "begun", "fun", "commit"} => result[p] = "none"
  /\ pc[p] \in {"waiting", "begun"} => fate[p] = "none"
  /\ pc[p] \in {"waiting", "commit"} => helper[p] = "write"
  /\ pc[p] = "leaving" => result[p] # "none"
  /\ pc[p] = "idle" /\ result[p] = "value" => state[p] # "active"

\* What became of the writes agrees with the handle and with the answer.
FateInv(p) ==
  helper[p] = "write" =>
    /\ result[p] = "value" => fate[p] = "file"
    /\ state[p] = "committed" <=> fate[p] = "file"
    /\ fate[p] = "unknown" => /\ pc[p] = "idle" => result[p] = "error"
                              /\ state[p] = "active" => env[p] # "open"

IInv ==
  /\ TypeOK
  /\ \A p \in Procs : GoneInv(p) /\ NativeInv(p) /\ PlaceInv(p) /\ FateInv(p)

=============================================================================
