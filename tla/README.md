# A formal model of mdbx

`mdbx` is an R package over libmdbx, an embedded transactional key-value store.
This directory holds TLA+ modules translated from its source, TLC
configurations that check them on small instances, and proofs checked by TLAPS.
Paths below are relative to the repository's root; `r_mdbx.cpp` is
`src/r_mdbx.cpp`, `mdbx.c` is `src/vendor/libmdbx/mdbx.c`.

## 1. The system

| component | where | state it keeps | operations |
|---|---|---|---|
| Handle lifecycle | `r_mdbx.cpp`, `r_mdbx.h`, `R/env.R`, `R/txn.R` | `env_handle`, `txn_handle`, the registries `open_envs`, `live_txns`, `abandoned`, R's external pointers | open, close, begin, commit, abort, the state queries, the two finalizers |
| Named databases and data | `r_mdbx.cpp`, `R/dbi.R`, `R/data.R` | `txn_handle::named` and `main_dbi`; in libmdbx the handle table of the environment and the transaction's view | get, put, del, dbi open / drop / list |
| Sequence counters | `r_mdbx.cpp:1832-1899`, `R/dbi.R` | one 64-bit counter per database, in libmdbx | `mdbx_dbi_sequence()` |
| Scans | `r_mdbx.cpp:519-614`, `R/scan.R` | a cursor, for the length of one call | `mdbx_keys()`, `mdbx_items()` |
| Panic guard | `r_mdbx_hooks.cpp` | a chain of guard frames per thread | run guarded, panic, log |
| Transaction helpers | `R/txn.R` | none of their own: a frame of R with its `on.exit()` | `mdbx_with_read()`, `mdbx_with_write()` |
| Reader table | libmdbx, `r_mdbx.cpp:1137-1153` | one slot per process in the lock file | bound by the first snapshot; `mdbx_reader_check()` |
| Flags and sync | `r_flags.cpp`, `R/flags.R` | the flag word of the native environment; in the lock file the mode of the first process and what is unsynced | get, set, sync |
| Environment key | `R/env.R:124-158` | none | `env_key()` |
| libmdbx | vendored | everything on disk, locks, reader table | called by all of the above |
| Errors, statistics, conversion, glue, test hooks | `r_mdbx.cpp`, `R/*.R`, `cpp11.*` | none | reports and conversions |

**How they interact.** R code holds external pointers. An entry point takes one,
asks `env_from_sexp()` or `txn_from_sexp()` whether it may be used (right tag,
this process, not closed, not poisoned), calls libmdbx through
`mdbx_r_run_guarded()`, and turns the status into an R error. A transaction's
external pointer keeps its environment's alive (the protected field); its handle
points to the owner, and the owner's `live_txns` points back. `open_envs` is
what a second open of the same file is refused by. libmdbx reports a broken
invariant by calling the panic hook, which jumps back to the guard: the entry
point marks (poisons) the handles involved and libmdbx is not entered on them
again.

**What is hard.** R runs finalizers inside any allocation, in any order, and at
exit on objects that are still reachable. `fork()` duplicates handles that
belong to the parent. A panic leaves a native object that may be neither used
nor closed. The name cache of a transaction, the handle table of the
environment and the contents of the snapshot are three views of "which
databases exist", changed at different times and by different processes. A
counter of 64 bits is shown as a double. A scan in chunks is assembled by its
caller. The helpers promise an outcome around a function that may do anything to
the transaction. Processes share a writer lock and a reader table and may die
with either. Each process chooses a durability mode of its own, for commits that
rest on each other's.

**What makes each part correct.**

* Handles: libmdbx is called within its contract, whatever the order of calls,
  finalizers, panics, fork and exit; the registries say what libmdbx holds; the
  reports (`mdbx_txn_state()`, `mdbx_env_is_open()`) say what the entry points
  accept; every native object is ended, or kept reachable.
* Databases: every operation acts on the database it names; snapshots, one
  writer, commits as a whole.
* Sequences: a number is handed out once, and exactly.
* Scans: in order, without a gap, from the start on, up to the limit; the cursor
  is closed; chunks put together list every record once.
* Helpers: a value means that the writes are in the file, and nothing stays
  locked; the lock file says who reads and writes; a waiting writer gets in.
* Flags and sync: what was committed durably survives a power failure whatever
  the other processes do, a sync and the last close make the rest safe, a flag
  changes what it names.

## 2. The modules

| module | models | how it corresponds to the code |
|---|---|---|
| `Handles` | the handle lifecycle | one action per entry point and finalizer; `env`, `txn` are the two structs field by field; `nenv`, `ntxn` are what libmdbx holds; the ghost `misuse` collects calls outside libmdbx's contract |
| `HandlesProofs` | the theorems about every session, re-entrant finalizers and memory exhaustion included | |
| `HandlesQuietProofs` | the theorems about sessions whose finalizers do not call the package | |
| `Databases` | contents of an environment and what an operation does to a database given by name | operators, shared by the next two |
| `AtomicStore` | the abstract specification | snapshots, a writer lock, commits |
| `Store` | transactions over the name cache and libmdbx's handle table, several processes | each entry point is a function of one process's context (`get`, `put`, ...) and an action that applies it; `AtomicStore` is its refinement target (`Implements`) |
| `StoreProofs` | the theorems about `Store` | |
| `Sequence`, `SequenceProofs` | sequence counters | `Reserve` is `mdbx_dbi_sequence_()`; the counter is part of a transaction's view |
| `Scan`, `ScanProofs` | `scan_call()` and the chunked walk | `Turn` is one turn of its loop; `NextChunk` is what the documentation of `mdbx_keys()` tells R code to do |
| `Sessions`, `SessionsProofs` | the helpers in several processes | one action per place of `mdbx_with_write()` where something else can happen; the outcomes of `finish_txn()` are operators (`CommitSucceeds`, `CommitRollsBack`, ...) shared by the helper, the user's function and the finalizer |
| `Durability`, `DurabilityProofs` | flags, sync, commits in modes | `word` is the flag word; names and bits are translated by `bits_from` and `names_from`; `Commit`, `Sync`, `Close` are what libmdbx does to the meta pages under it |
| `Extremes` | lemmas: a finite set of integers has a least and a greatest member | used by `ScanProofs` and `StoreProofs` |
| `MC...` | instances for TLC | model values and symmetry |

**Handles.** An identifier stands for a handle, its external pointer and its
native object. `Open` and `Begin` are split where R allocates: the first half
ends with the native object open, `stack` holds the handle whose external
pointer is being built, and finalizers may run before `OpenDone` / `BeginDone`.
`Reentrant` lets R code itself run there (a finalizer written in R);
`AllocFails` lets the allocation fail, which jumps over the C++ clean-up.
`Fork` follows the child; the parent is the behaviour without that step. A
panic is a disjunct of every guarded call.

libmdbx has a second way to break, by result code. After a failed write,
remapping or lock it may declare the environment broken (`ENV_FATAL_ERROR`;
`nenv` is `fatal`, `Declared`): any call may be the one that does. No handle is
poisoned then, and from there on `check_env()` turns down begin, commit and abort
with `MDBX_PANIC` (`Refused`, `BeginFails`). `finish_txn()`, `finalize_txn()` and
`detach_txns()` all take that for an end: the handle is marked finished and
leaves `live_txns`, nothing is abandoned, and the native transaction stays live
(`EndNatively`) until `mdbx_env_close()` frees it with its environment
(`EndedInName`). An abort may also be the one on whose way out the environment
is declared broken, so that those after it in `detach_txns()` are refused
(`DetachOutcome`).

Simplifications: a transaction libmdbx marked erroneous reads as "active" here
(that is `Store`'s matter); a call the package refuses, which changes nothing, is
no action; read and write transactions are not told apart, and each is taken for
the one that asks more of libmdbx (`HeapRootsMisuse`).

**Store.** `ctx[p]` is what one process has: the mode of its transaction, its
view, the handle table (`slots`), how the transaction stands to each slot
(`st`: libmdbx's `DBI_LINDO`, `DBI_STALE`, `DBI_FRESH`, `DBI_CREAT` as far as
they matter), the cache `named`, and the `max_dbs` the environment was opened
with. Names of databases and keys of the main database are one set, because
libmdbx records a named database in the main one. Values are model values; the
empty key, sizes and the conversion of arguments are left out. Nested
transactions do not occur: `mdbx_txn_begin_()` refuses them.

**Sequence.** `AsDouble` is the conversion of `uint64_t` to `double`, to the
nearest and of two to the even one, for any counter up to 2048 times the limit of
exactness (`SequenceAssumption`); 2^53 and 2^64, the constants of the code, are
such a pair. `Foreign` is another program that
advances the counter past it, the case the range check is there for.

**Scan.** Keys are integers. A chunked walk uses chunks of at least two
records: with one, a chunk would be the repeated record alone.

**Sessions.** An identifier is a process together with what it leaves in the lock
file: it may be reused once that is gone. `pc` is the place in the helper:
waiting for the lock, begun but without `on.exit()`, in the user's function,
before the commit, in `on.exit()`. `env` tells a healthy environment from one
libmdbx has declared broken (`fatal`: `check_env()` answers `MDBX_PANIC` and does
nothing) and from a poisoned one (the panic guard). `fate` is a ghost: whether
the writes are in the file, or nobody knows because libmdbx broke while it
committed. The user's function may fail, be interrupted, end the transaction,
have a write fail, panic, check the readers, and close the environment.

**Durability.** A commit is a number. `head`, `steady` and `disk` are the last
commit, the last one with a steady meta page in the page cache, and the last one
with a steady meta page on the disk; a kill keeps the cache, a power failure
falls back to `disk`. `unsynced` and `metaSync` are the two fields of the lock
file by which `mdbx_env_sync()` decides that nothing is pending. `fd` is which
writes go through the `O_DSYNC` descriptor, chosen when the environment is
opened and not when its flags change. The choices libmdbx makes by size are
nondeterministic: large transactions avoid that descriptor, a commit or a sync
may shrink the file and is steady then (`MayShrink`), and a commit of a single
page is taken for a meta page under `NOMETASYNC` and stays weak (`CommitWeak`).

Mutants: an operator commented "Mutant:" is the definition after it with a
plausible bug; no behaviour of the model uses it. Replacing the definition by it
makes the property listed in `PROJECT.json` fail.

## 3. What TLC checks

| run | instance | question |
|---|---|---|
| `MCHandles` | 2 environments, 2 transactions, 2 keys, 1 fork; 434,549 states | is libmdbx used within its contract, do registries, reports and pointers agree with it, does a handle end once |
| `MCHandlesAny` | 1 environment, 2 transactions, 1 fork, memory exhaustion, re-entrant finalizers; 24,533 states | what of that holds in every session; does a garbage environment free its key |
| `MCStore` | 1 process, 2 names, `max_dbs` 0 to 2, deletions; 24,385 states | do operations act on the database they name; refinement of `AtomicStore` |
| `MCStoreShared` | 3 processes, no deletions; 26,590 states | the same across processes; one writer, snapshots |
| `MCSequence` | 2 processes, doubles exact to 4, counter below 11; 1,144,544 states | are numbers handed out once and exactly |
| `MCScan` | all sets of keys in 1..5, all starts, limits 0..4 and none; 23,398 states | scans and chunked walks |
| `MCSessions` | 2 processes, 1 reader slot; 26,445 states | is the caller told what became of the writes, does anything stay locked, is the lock file right, does a waiting writer get in |
| `MCDurability` | 2 processes, 2 commits, every set of flags; 633,577 states | does a promised commit survive, do a sync and the last close make everything safe, does a change of flags lose none and set no other by accident |
| `MCHandlesReentrant` | finds a violation | a finalizer written in R closes the environment between the native begin and the registration |
| `MCHandlesReopen` | finds a violation | the key of a closed, panicked environment is free for the package and taken for libmdbx |
| `MCStoreAlias` | finds a violation | another process deletes a database: a put to its name may land in another one |
| `MCSessionsBroken` | finds a violation | after a failed remap a transaction that `finish_txn()` takes for ended is live in libmdbx |

**Bounds.** Two environments and two transactions are enough for every pair the
handle code distinguishes (two handles of one path, a transaction and another
one's owner, two finalizers in either order); a third behaves as one of them. One
fork gives two processes, and a handle's `pid` is only compared for equality.
Two names over 0, 1 and 2 slots give the full table, reuse of a slot by another
name, and the two in different slots. Three processes give a writer, a waiting
writer and a reader. A counter of 11 values over doubles exact to 4 has the exact
range, its edge, the range where odd numbers round, the next one where only
multiples of four are exact, and the overflow. Five keys
leave room for a start before, between, on and after keys, for two full chunks
and a remainder. Two processes and one reader slot give every contention of two:
a writer that waits for the other, alive or dead, and a table that is full of
the living, of the dead, and of one that does not read any more. Two commits
give a commit that rests on one of another mode and of another process; what is
lost or kept depends on `head`, `steady` and `disk` only through which of them
are equal, and the proofs cover any number of both.

**Deadlock** is not checked where the system may stop: R exits, a scan is done,
every process of `Sessions` is dead and nobody is left to sweep out its slot.
`Durability` never stops, as the power may always fail.

**Fairness.** `GarbageFreesKey` assumes that the garbage collector finalizes an
unreachable environment sooner or later (`Collected`), which is what
`R_RegisterCFinalizerEx()` is for. `Terminates` assumes that the loop of
`scan_call()` goes on (`WF` of `Full \/ Turn`): it is one native call.
`WriterGetsIn` assumes weak fairness of what R evaluates without the user's help
(`Armed`, `Commit`, `Leaves`), that the user's function comes to an end
(`FunReturns \/ FunThrows`: a function that never returns keeps the lock, and
should), and that garbage is collected (`Collected`, for the transaction of a
helper interrupted before its `on.exit()`). It assumes strong fairness of
`Locked`: others may take the lock again and again while a process waits, and a
robust process-shared mutex reaches it only because the system's scheduler does
not starve it. That a live process whose environment libmdbx broke may keep
others waiting is part of the property, because it is so.

**What the violations show.** They are recorded in `PROJECT.json` with the
comment or documentation they contradict. Three more disagreements were met and
are kept in the model as exceptions to its properties: a panic inside
`mdbx_env_close()` leaves a native environment that neither its handle nor
`abandoned` points to (`OnlyBrokenLose` sets it apart); memory exhaustion
in `new_txn_sexp()` leaves a live native transaction in no registry (hence
`RegistryExact` is checked without `AllocFails`); and after another process
deleted a database, `mdbx_dbi_open()` of it may succeed in a process that has a
handle for it (hence `AnswersByName` is checked with one process or without
deletions).

What `MCSessionsBroken` shows has its mark on the properties of `Handles` as well.
`mark_finished()` is said to keep `live_txns` "exactly the transactions libmdbx
still considers live" (`r_mdbx.cpp:686-688`); in an environment libmdbx has declared broken it does not,
so that `RegistryExact` asks for the whole equality only elsewhere, and there
that the registry holds nothing else. A transaction finished in name only is in
no handle and not in `abandoned` (`OnlyBrokenLose` sets it apart too), and
`mdbx_env_close()`, which finds `live_txns` empty, closes the environment under
it; `NoCloseUnderTxn` is about the transactions libmdbx was not asked to end.

Other places where documentation and code part, met while translating. None is
a run of its own; the models follow the code.

* `R/env.R:54-57` counts a reader slot "per process holding a read transaction".
  A slot stays with its process until it closes the environment, reading or not.
* `R/env.R:340-343` says that slots of dead processes make new readers fail with
  `MDBX_READERS_FULL`. A full table is swept before that error is given, so only
  live processes fill it.
* `R/txn.R:82-84` says of a commit that raises that the writes are gone. If the
  disk fails while a commit is synced, they may be in the file (`fate` is
  "unknown"), and the environment is broken.
* `R/txn.R:191-192` says that the helpers make keeping the writer lock
  unreachable. An interrupt between the begin and `on.exit()` keeps it until the
  garbage collector runs, and a panic until the process ends.
* `r_flags.cpp` offers `LIFORECLAIM` as changeable at run time; libmdbx refuses
  every such call with `EPERM`.
* Clearing `SAFE_NOSYNC` of an environment in `UTTERLY_NOSYNC` leaves a bit that
  is not reported and that, under `WRITEMAP`, turns `SAFE_NOSYNC` on again with
  the next flag that is set (the exception in `SetAsAsked`). Clearing
  `UTTERLY_NOSYNC` clears `SAFE_NOSYNC` too.
* The bulk-load recipe of `R/flags.R:132-140` sets `SAFE_NOSYNC` and clears it
  again: `NOMETASYNC`, which came with it, stays. And the environment was opened
  with an `O_DSYNC` descriptor, so that its commits may be synced all the same.
* `R/concurrency.R:61-68` speaks of flags per environment that other processes
  inherit. The flag word is per process; a process that opens with another mode
  is refused with `MDBX_INCOMPATIBLE` unless it gives `ACCEDE`, and a change at
  run time reaches nobody else.
* `mdbx_env_sync(force = FALSE)` under `SAFE_NOSYNC` returns `TRUE` when it has
  flushed a meta page, although the last commit stays weak.
* If every process is killed after a commit whose meta page was written lazily,
  the next one to open the file takes that page for synced (`mdbx.c:21890`):
  `mdbx_env_sync()` says that nothing is pending, and a power failure takes the
  commit. The ghost `forgotten` sets it apart in `PromisesKept` and `SyncKeeps`.

## 4. What is proved

All proofs hold for every value of the constants.

* `HandlesProofs!AlwaysHandleInv`: `HandleInv`, with no assumption: finalizers
  written in R may call the package wherever R allocates, and any allocation may
  fail. It says that a handle has its external pointer, or a call that builds
  one, as long as memory lasts; that what it says of its native object (open,
  poisoned, process, key) is true, and an environment libmdbx holds without a
  handle is in `abandoned` or was left by a panic in its close (`EnvInv`); that a transaction handle has the native
  transaction of its owner, whose registry lists it once its external pointer
  exists, and one that libmdbx holds without a handle was abandoned, or is in an
  environment declared broken, or left by such a panic, and never in one this
  process can use and libmdbx has not declared broken (`TxnInv`); that no two environments share a key or a transaction
  (`PairInv`). None of the safety properties is inductive alone: that a call is
  within the contract follows only if the flags it tested tell the truth about
  libmdbx. From it follow `TypeCorrect`, `InheritedUntouched` (a child never
  uses what its parent opened), `HandlesAccounted`, and `EndsForGood`, because
  only a handle with a native transaction is ever ended. `RegistryCorrect` and
  `OpenRegistryCorrect` need `~AllocFails`: after a failed allocation a native
  transaction is in no registry (section 3). All of them cover environments
  libmdbx declares broken at any time.
  There is one lemma per action, and lemmas for the shapes of step most actions
  share: a transaction ends, an environment is poisoned, an external pointer is
  built or lost.
* `HandlesQuietProofs!Inductive`: `IInv`, which adds `QuietInv` to `HandleInv`,
  assuming `~Reentrant`. `MCHandlesReentrant` shows this assumption to be
  necessary: a finalizer that calls the package between the two halves of a
  begin closes the owner. Without it, `QuietInv` says, a transaction finds its
  owner open, of its process, and poisoned if it is poisoned itself; two
  transactions never share an owner; and the only call outside libmdbx's
  contract is the close of an environment under a transaction lost by a failed
  allocation, those libmdbx has refused to end set apart. `NeverUsedAfterPanic`, `EndedUntouched` and `ReportsCorrect` follow
  with memory or without; `ClosedAlone` and `PointersValid` with `~AllocFails`.
* `StoreProofs!Inductive`: `IInv` of `Store`, assuming `SoleDeleter`: named
  databases are not deleted, or there is one process. `MCStoreAlias` shows the
  assumption to be necessary. `CacheHome` is not inductive, since libmdbx hands
  out a slot known from before the transaction without a look at the record:
  `IInv` adds that a name has one slot, that a slot the transaction has not seen
  deleted leads to a database of its view (`ViewInv`), and that between
  transactions, and under a writer, every slot it did not create leads to a
  published database (`PublishedInv`), which a commit of another process keeps
  true because it only adds databases. One lemma says what each entry point does
  to such a context and to the database it names (`Getting`, `Putting`,
  `Adding`, `Dropping`, ...); they rest on what a look-up finds and a creation
  leaves in the handle table (`Looking`, `Creating`). From these follow
  `ActsByName` and `CacheCorrect`, for any number of processes, names, values
  and slots.
* `StoreProofs!AlwaysShared`: `SharedInv`, without that assumption. Where several
  processes delete databases a handle may outlive its database, so that a name
  may lead to another one. What stays true is that a name has one slot of the
  table (`TableInv`), that a slot libmdbx takes for usable leads to a database of
  the view (`LiveInv`), and that the writer holds the lock (`WriterInv`). Hence
  every call, whatever it reaches, is a put, a deletion, a creation or a drop in
  a database of the view, or leaves the view alone (`TouchPut`, `TouchDrop`,
  ...), and `Refines` follows step by step: `Store` implements `AtomicStore`
  for any number of processes, deleting or not. Snapshots, the single writer and
  whole commits do not depend on the handle table; only the name a call goes by
  does. `TypeCorrect` follows too.
* `StoreProofs!NeverAliased`: when a name can lead to another database at all. If
  every handle of a process leads to a published database when its transaction
  begins (`NothingStale`), the context of that transaction stays good for the
  contents it began with until it ends, whatever other processes delete
  meanwhile; and in a good context every call acts on the database it names
  (`UnaliasedActs`). So the violation of `MCStoreAlias` takes a deletion between
  two transactions of the process, and a handle from before it.
* `SequenceProofs!Inductive`, `HandsOutOnce`, `NeverOverflows`: for every
  `MaxExact` and `Width` that `SequenceAssumption` allows, which the 2^53 and the
  2^64 of the code meet. What was handed out in a transaction lies below its
  counter and below `MaxExact`, and the only transaction that can publish a
  counter is the one that holds the lock. That the range check, which looks at
  the rounded number, is enough rests on two facts about `AsDouble`: it is exact
  up to `MaxExact` (`ExactDouble`) and never rounds a larger number down below it
  (`RoundsAbove`).
* `SessionsProofs!Inductive`: `IInv` ties together, for each process, the place
  in the helper, the answer it is about to give, the handle's state, the native
  transaction, the lock file and the ghost. `OutcomeTold` is not inductive: that
  a value is given only for writes in the file rests on what was decided at the
  commit (`FateInv`) and on `on.exit()` not changing it (`PlaceInv`).
  `OutcomeCorrect`, `HelpersKeepNothing`, `LockFileCorrect` and `TypeCorrect`
  follow, for any number of processes and slots. That the reader table does not
  overflow needs lemmas about the cardinality of the occupied slots.
* `DurabilityProofs!Inductive`: one writer at a time, on an environment that is
  open; once the steady commits were wiped the disk has none, and the page cache
  none older than a promise. `NothingPromisedIsLost` follows, and
  `SyncMakesSafe` step by step; `FlagsSetAsAsked` is about the flag word alone,
  for every word, by the laws of `Combined` and `names_from`: setting loses no
  flag that was in effect or asked for and adds only `NOMETASYNC`, or the
  `SAFE_NOSYNC` of section 3 (`SetKeeps`), clearing clears what it names and
  takes along at most the flag that shares its bit (`ClearKeeps`).
* `ScanProofs!Inductive`: what a scan has collected is the part of the keys from
  its start up to its cursor, and what the chunks have put together the part of
  the walk up to the key the next chunk starts from. `ScansCorrect`,
  `CursorsClosed`, `WalksComplete` follow, for every finite set of integers. The
  least and the greatest element of a finite set exist because the strict subset
  ordering on its subsets is well-founded (`FS_StrictSubsetOrderingWellFounded`):
  of the sets of all members below some member, take a minimal one (`Extremes`).

Only model-checked: `GarbageFreesKey`, `Terminates` and `WriterGetsIn`. They rest
on fairness, and `ENABLED`, by which fairness is defined, is outside what TLAPS
supports here. Every safety invariant and action property of the runs is a
theorem, with the assumptions named above.

## 5. What is not modelled

* Error texts and condition classes, statistics and limits, conversion of R
  objects to bytes, the generated glue, the test hooks, package load: no state,
  or one that is set once.
* The chain of guard frames: a guarded call runs nothing but libmdbx, so the
  chain has one frame; its effect, a panic that ends the call and poisons the
  handles, is in `Handles` and `Sessions`.
* `env_key()`: its result depends on the file system alone.
* In `Sessions`: helpers called inside a helper's function after it has ended
  the transaction, `mdbx_txn_begin()` outside the helpers, `fork()` (in
  `Handles`), a process that exits in an orderly way with a helper running, the
  death of a process that holds the lock of the reader table.
* In `Durability`: read-only and exclusive openers, the flags that are not about
  durability, which pages a commit overwrites, disk errors (in `Sessions`), file
  systems in memory, Windows, the thresholds of automatic syncs (the package
  never sets one), commits without a change.
* In libmdbx everything the package does not depend on: the B-tree, page
  allocation, geometry, the tools.

## 6. Plan

1. `Handles` with its proofs: done; every safety property is proved, some under
   assumptions named in section 4.
2. `Databases`, `AtomicStore`, `Store` with its proofs: done.
3. `Sequence` with its proofs: done.
4. `Scan` with its proofs: done.
5. `Sessions` with its proofs: done. Left: `mdbx_txn_begin()` with `TRY`, and
   nested helpers.
6. `Durability` with its proofs: done. Left: read-only openers, and which pages
   a commit may overwrite.
