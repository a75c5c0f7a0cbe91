----------------------------- MODULE Durability -----------------------------
(***************************************************************************)
(* Flags and mdbx_env_sync() (src/r_flags.cpp, R/flags.R): how names become *)
(* the bits of an environment's flag word, what the word is reported as,   *)
(* and what it does to the commits of several processes when one of them is *)
(* killed or the power fails.                                              *)
(*                                                                         *)
(* A commit is known by its number. What the page cache holds and what the *)
(* disk holds are kept apart; which pages a commit overwrites is not       *)
(* modelled, except that MDBX_UTTERLY_NOSYNC may wipe steady commits.      *)
(***************************************************************************)
EXTENDS Naturals

CONSTANTS
  Procs,       \* processes, each with at most one environment
  MaxCommits   \* bound on the number of commits

ASSUME DurabilityAssumption == MaxCommits \in Nat \ {0}

VARIABLES
  word,      \* env->flags of each process; {} and fd "closed" without one
  fd,        \* what goes through the O_DSYNC descriptor: "none", "data", "all"
  txn,       \* the flags of the write transaction of each process, or NoTxn
  envmode,   \* lck->envmode: the mode flags of the process that came first
  unsynced,  \* lck->unsynced_pages # 0
  metaSync,  \* lck->meta_sync_txnid: the head's meta page is synced, or was
             \* written lazily through the file or through the map
  head,      \* the last commit
  steady,    \* the last commit with a steady meta page, in the page cache
  disk,      \* the last commit with a steady meta page on the disk
  wiped,     \* there is none on the disk; nor in the cache while steady = 0
  promised,  \* ghost: the last commit that was made with full durability
  forgotten  \* ghost: the lock file was initialised over a lazy meta page

file == <<head, steady, disk, wiped>>
shared == <<envmode, unsynced, metaSync>>
ghosts == <<promised, forgotten>>
vars == <<word, fd, txn, shared, file, ghosts>>

-----------------------------------------------------------------------------
(* Names and bits.                                                         *)

\* env_flags, as far as it is about durability. MDBX_UTTERLY_NOSYNC is
\* MDBX_SAFE_NOSYNC and a bit that was MDBX_MAPASYNC once.
Bit == [UTTERLY_NOSYNC |-> {"safe", "mapasync"}, SAFE_NOSYNC |-> {"safe"},
        NOMETASYNC |-> {"nometa"}, WRITEMAP |-> {"writemap"}]

Names == DOMAIN Bit
Runtime == {"UTTERLY_NOSYNC", "SAFE_NOSYNC", "NOMETASYNC"}
Utterly == Bit.UTTERLY_NOSYNC
Bits == UNION {Bit[n] : n \in Names}

bits_from(names) == UNION {Bit[n] : n \in names}

names_from(bits) ==
  {n \in Names : /\ Bit[n] \subseteq bits
                 /\ ~(n = "SAFE_NOSYNC" /\ Utterly \subseteq bits)}

\* txn_flags: MDBX_TXN_NOSYNC and MDBX_TXN_NOMETASYNC are the same bits.
TxnFlags == SUBSET {"safe", "nometa"}

\* Mutant: the second word is not added to the first.
CombinedLosing(a, b) ==
  IF a \cap Utterly # {} THEN a \cup {"nometa"} ELSE a

\* libmdbx: combine_durability_flags().
Combined(a, b) ==
  LET both == a \cup b
      falsely == /\ Utterly \subseteq both
                 /\ ~(Utterly \subseteq a) /\ ~(Utterly \subseteq b)
      real == IF falsely THEN both \ {"mapasync"} ELSE both
      legacy == /\ {"writemap", "mapasync"} \subseteq real
                /\ ~(Utterly \subseteq real)
      modern == IF legacy THEN (real \ {"mapasync"}) \cup {"safe"} ELSE real
  IN  IF modern \cap Utterly # {} THEN modern \cup {"nometa"} ELSE modern

-----------------------------------------------------------------------------

NoTxn == {"none"}
Opened(p) == fd[p] # "closed"
Lazy == {"safe", "mapasync", "nometa"}

\* Nobody holds the writer lock.
Unlocked == \A p \in Procs : txn[p] = NoTxn

\* Mutant: everything is taken for steady.
SyncedToHead(n) == /\ disk' = IF n > 0 THEN head ELSE n
                   /\ wiped' = (wiped /\ n = 0)
                   /\ forgotten' = FALSE

\* The file is synced: so is the steady meta page in the page cache, and with
\* it all that it refers to.
SyncedTo(n) == /\ disk' = n
               /\ wiped' = (wiped /\ n = 0)
               /\ forgotten' = FALSE

NotSynced == UNCHANGED <<disk, wiped, forgotten>>

\* Mutant: MDBX_NOMETASYNC is not looked at.
NothingUnsynced == ~unsynced /\ steady = head

\* env_sync(): nothing to do, as far as the lock file tells.
NothingPending == ~unsynced /\ metaSync = "synced" /\ steady = head

\* The file may be found too long, and become shorter: a steady commit must be
\* left for that.
MayShrink == ~(wiped /\ steady = 0)

\* A head that is not steady becomes so with force; without it not under
\* MDBX_SAFE_NOSYNC, as no threshold is ever set, unless the file becomes
\* shorter; but a lazy meta page is flushed all the same.
SyncDone(p, force) ==
  \/ /\ NothingPending
     /\ UNCHANGED <<unsynced, metaSync, steady>> /\ NotSynced
  \/ /\ ~NothingPending
     /\ \/ force \/ "safe" \notin word[p]
        \/ MayShrink /\ steady # head /\ txn[p] = NoTxn
     /\ unsynced' = FALSE /\ metaSync' = "synced" /\ steady' = head
     /\ SyncedTo(head)
  \/ /\ ~NothingPending
     /\ ~force /\ "safe" \in word[p]
     /\ metaSync' = "synced" /\ UNCHANGED <<unsynced, steady>>
     /\ IF metaSync = "synced" THEN NotSynced ELSE SyncedTo(steady)

\* Another process has the writer lock: a large amount of pages is synced
\* before that is noticed.
SyncRefused == /\ UNCHANGED <<unsynced, metaSync, steady>>
               /\ NotSynced \/ (unsynced /\ SyncedTo(steady))

-----------------------------------------------------------------------------
(* mdbx_env_open().                                                        *)

First == \A q \in Procs : ~Opened(q)

\* MDBX_ACCEDE takes over the mode of the others: not MDBX_WRITEMAP, though,
\* as long as that is not lazy. Its own bit has no other effect.
Acceded(w) ==
  LET taken == IF envmode \cap Lazy # {} THEN Lazy \cup {"writemap"} ELSE Lazy
  IN  (w \ taken) \cup (envmode \cap taken)

\* Any other difference in these is refused with MDBX_INCOMPATIBLE.
Compatible(w) ==
  LET rigorous == IF envmode \cap Lazy # {} THEN Utterly \cup {"writemap"} ELSE Utterly
  IN  w \cap rigorous = envmode \cap rigorous

\* The descriptor is opened before the mode of the others is taken over.
DsyncFd(w) == CASE w \cap Utterly # {} -> "none"
                [] w \cap Utterly = {} /\ "nometa" \in w -> "data"
                [] OTHER -> "all"

\* The first process starts from an empty lock file. A weak head is noticed,
\* a lazy meta page is not.
Open(p, names, accede) ==
  LET w == Combined(bits_from(names), {})
      shares == IF accede THEN Acceded(w) ELSE w
  IN  /\ ~Opened(p)
      /\ fd' = [fd EXCEPT ![p] = DsyncFd(w)]
      /\ \/ /\ First
            /\ word' = [word EXCEPT ![p] = w]
            /\ envmode' = w \cap (Lazy \cup {"writemap"})
            /\ unsynced' = (steady # head)
            /\ metaSync' = "synced"
            /\ forgotten' = (forgotten \/ (steady = head /\ disk # head))
         \/ /\ ~First
            /\ Compatible(shares)
            /\ word' = [word EXCEPT ![p] = shares]
            /\ UNCHANGED <<shared, forgotten>>
      /\ UNCHANGED <<txn, file, promised>>

Changed(bits, names, on) ==
  IF on THEN Combined(bits, bits_from(names)) ELSE bits \ bits_from(names)

\* mdbx_env_set_flags(), which waits for the writer lock.
SetFlags(p, names, on) ==
  /\ Opened(p) /\ Unlocked
  /\ names \in SUBSET Runtime \ {{}}
  /\ word' = [word EXCEPT ![p] = Changed(@, names, on)]
  /\ UNCHANGED <<fd, txn, shared, file, ghosts>>

-----------------------------------------------------------------------------
(* Transactions.                                                           *)

Begin(p, flags) ==
  /\ Opened(p) /\ Unlocked
  /\ head < MaxCommits
  /\ txn' = [txn EXCEPT ![p] = flags]
  /\ UNCHANGED <<word, fd, shared, file, ghosts>>

Abort(p) ==
  /\ txn[p] # NoTxn
  /\ txn' = [txn EXCEPT ![p] = NoTxn]
  /\ UNCHANGED <<word, fd, shared, file, ghosts>>

\* How a process writes a meta page lazily.
Way(bits) == IF "writemap" \in bits THEN "map" ELSE "file"

\* The head has a lazy meta page. The sync of this commit takes it along if it
\* was written the same way; otherwise it is synced first.
LazyHead == metaSync # "synced" /\ steady = head
SyncsHead(p) == LazyHead /\ metaSync # Way(word[p])

\* Data pages go through the page cache, and not through the O_DSYNC
\* descriptor, when that would not be enough; large transactions always do.
Cached(p) == \/ "writemap" \in word[p] \/ fd[p] = "none" \/ unsynced
             \/ LazyHead /\ ~SyncsHead(p)

\* Nothing lazy in what mdbx_env_get_flags() reports, nor in the flags given
\* to mdbx_txn_begin().
Durable(p) == /\ names_from(word[p]) \cap Runtime = {}
              /\ txn[p] = {}

\* The commit stays weak: its pages are in the cache and must not be synced, or
\* it is a single page, which NOMETASYNC takes for a meta page. Its meta page is,
\* without NOMETASYNC, and what else is in the file with it.
CommitWeak(p, flags) ==
  /\ flags \cap {"safe", "nometa"} # {}
  /\ steady' = steady
  /\ unsynced' = TRUE
  /\ IF SyncsHead(p) \/ ("nometa" \notin flags /\ (Way(flags) = "map" \/ fd[p] # "all"))
     THEN SyncedTo(steady) ELSE NotSynced

\* The commit is steady, its pages are on the disk. Its meta page is synced
\* with NOMETASYNC only if it goes through the O_DSYNC descriptor.
CommitSteady(p, cached, flags) ==
  /\ cached => "safe" \notin flags
  /\ steady' = head'
  /\ IF "nometa" \notin flags \/ (Way(flags) = "file" /\ fd[p] = "all")
     THEN /\ unsynced' = FALSE
          /\ SyncedTo(head')
     ELSE /\ unsynced' = (Way(flags) = "file")
          /\ IF cached \/ SyncsHead(p) THEN SyncedTo(steady) ELSE NotSynced

\* mdbx_txn_commit(). A commit that makes the file shorter is a steady one
\* whatever the flags say.
Commit(p) ==
  /\ txn[p] # NoTxn
  /\ txn' = [txn EXCEPT ![p] = NoTxn]
  /\ head' = head + 1
  /\ promised' = IF Durable(p) THEN head' ELSE promised
  /\ \E cached \in {TRUE, Cached(p)}, shrinks \in BOOLEAN :
       LET flags == IF shrinks THEN word[p] \cap {"writemap"} ELSE word[p] \cup txn[p]
       IN  /\ shrinks => MayShrink
           /\ metaSync' = IF "nometa" \in flags THEN Way(flags) ELSE "synced"
           /\ \/ cached /\ CommitWeak(p, flags)
              \/ CommitSteady(p, cached, flags)
  /\ UNCHANGED <<word, fd, envmode>>

\* A transaction of an environment in MDBX_UTTERLY_NOSYNC that runs out of
\* pages wipes the steady commits behind the weak head, to reuse theirs.
Wipe(p) ==
  /\ txn[p] # NoTxn
  /\ Utterly \subseteq word[p]
  /\ steady # head
  /\ wiped' = TRUE /\ steady' = 0 /\ disk' = 0
  /\ UNCHANGED <<word, fd, txn, shared, head, ghosts>>

-----------------------------------------------------------------------------

\* The writer lock is free or the process's own.
MayLock(p) == \A q \in Procs \ {p} : txn[q] = NoTxn

\* mdbx_env_sync(), which waits for the writer lock, and with nonblock in vain.
Sync(p, force) ==
  /\ Opened(p) /\ MayLock(p)
  /\ SyncDone(p, force)
  /\ UNCHANGED <<word, fd, txn, envmode, head, promised>>

SyncInVain(p) ==
  /\ Opened(p) /\ ~MayLock(p)
  /\ SyncRefused
  /\ UNCHANGED <<word, fd, txn, envmode, head, promised>>

Gone(p) == /\ word' = [word EXCEPT ![p] = {}]
           /\ fd' = [fd EXCEPT ![p] = "closed"]
           /\ txn' = [txn EXCEPT ![p] = NoTxn]

\* Mutant: closes without a sync.
CloseUnsynced(p) ==
  /\ Opened(p) /\ txn[p] = NoTxn
  /\ Gone(p)
  /\ UNCHANGED <<shared, file, promised, forgotten>>

\* mdbx_env_close(), which syncs unless somebody else is writing.
Close(p) ==
  /\ Opened(p) /\ txn[p] = NoTxn
  /\ Gone(p)
  /\ IF MayLock(p) THEN SyncDone(p, TRUE) ELSE SyncRefused
  /\ UNCHANGED <<envmode, head, promised>>

\* The process is killed; the page cache survives.
Killed(p) ==
  /\ Opened(p)
  /\ Gone(p)
  /\ UNCHANGED <<shared, file, promised, forgotten>>

\* The power fails; the next process to open the file rolls it back to the
\* last steady commit on the disk. A lazy meta page may or may not be there.
PowerFails ==
  /\ word' = [p \in Procs |-> {}]
  /\ fd' = [p \in Procs |-> "closed"]
  /\ txn' = [p \in Procs |-> NoTxn]
  /\ head' \in IF wiped THEN 0..head ELSE {disk, steady}
  /\ steady' = head' /\ disk' = head' /\ wiped' = FALSE
  /\ promised' = IF wiped THEN 0 ELSE promised
  /\ forgotten' = FALSE
  /\ UNCHANGED shared

Init ==
  /\ word = [p \in Procs |-> {}]
  /\ fd = [p \in Procs |-> "closed"]
  /\ txn = [p \in Procs |-> NoTxn]
  /\ envmode = {} /\ unsynced = FALSE /\ metaSync = "synced"
  /\ head = 0 /\ steady = 0 /\ disk = 0 /\ wiped = FALSE
  /\ promised = 0 /\ forgotten = FALSE

Next ==
  \/ \E p \in Procs :
       \/ \E names \in SUBSET Names, accede \in BOOLEAN : Open(p, names, accede)
       \/ \E names \in SUBSET Runtime, on \in BOOLEAN : SetFlags(p, names, on)
       \/ \E flags \in TxnFlags : Begin(p, flags)
       \/ Abort(p) \/ Commit(p) \/ Wipe(p)
       \/ \E force \in BOOLEAN : Sync(p, force)
       \/ SyncInVain(p) \/ Close(p) \/ Killed(p)
  \/ PowerFails

Spec == Init /\ [][Next]_vars

-----------------------------------------------------------------------------

\* The types of the variables; what is on the disk is in the page cache, and
\* that is no newer than the head.
TypeOK ==
  /\ word \in [Procs -> SUBSET Bits]
  /\ fd \in [Procs -> {"closed", "none", "data", "all"}]
  /\ txn \in [Procs -> TxnFlags \cup {NoTxn}]
  /\ envmode \in SUBSET Bits
  /\ unsynced \in BOOLEAN /\ metaSync \in {"synced", "file", "map"}
  /\ head \in 0..MaxCommits /\ steady \in 0..head /\ disk \in 0..steady
  /\ promised \in 0..head
  /\ wiped \in BOOLEAN /\ forgotten \in BOOLEAN

\* A power failure takes no commit that was made while mdbx_env_get_flags()
\* and mdbx_txn_begin() named no lazy mode ("by default every commit is fully
\* durable", R/flags.R:19), whatever modes the other processes use; unless an
\* environment that reports UTTERLY_NOSYNC wiped it. And when mdbx_env_sync()
\* would say that nothing is pending, there is nothing to lose; unless every
\* process was killed over a lazy meta page.
PromisesKept ==
  /\ wiped \/ promised <= disk
  /\ NothingPending => forgotten \/ (disk = head /\ ~wiped)

\* A forced mdbx_env_sync() that writes, and the close of the last process
\* that has the file open ("data written without syncing still survives an
\* orderly close", tests/testthat/test-flags.R:111), make every commit safe,
\* of this process or another, in whatever mode.
SyncKeeps ==
  [][fd' # fd \/ (word' = word /\ txn' = txn) =>
       \/ disk' = head' /\ ~wiped'
       \/ forgotten
       \/ \A p \in Procs :
            /\ ~Sync(p, TRUE)
            /\ Close(p) => \E q \in Procs : fd'[q] # "closed"]_vars

\* What mdbx_env_set_flags(on = TRUE) leaves reported: all that was and all that
\* it is asked for, except that SAFE_NOSYNC may be part of UTTERLY_NOSYNC; and
\* nothing else but NOMETASYNC, and SAFE_NOSYNC where WRITEMAP finds the bit that
\* a cleared SAFE_NOSYNC has left of UTTERLY_NOSYNC.
TurnedOn(bits, names) ==
  LET asked == names_from(bits) \cup names
      set == names_from(Changed(bits, names, TRUE))
      left == {"mapasync", "writemap"} \subseteq bits
  IN  /\ asked \ {"SAFE_NOSYNC"} \subseteq set
      /\ "SAFE_NOSYNC" \in asked => set \cap {"SAFE_NOSYNC", "UTTERLY_NOSYNC"} # {}
      /\ set \ asked \subseteq {"NOMETASYNC"} \cup (IF left THEN {"SAFE_NOSYNC"} ELSE {})

\* What mdbx_env_set_flags(on = FALSE) leaves reported: what was, without what
\* it is asked to clear; UTTERLY_NOSYNC and SAFE_NOSYNC share a bit, so that
\* clearing one may take along the other.
TurnedOff(bits, names) ==
  LET kept == names_from(bits) \ names
      left == names_from(Changed(bits, names, FALSE))
      alike == {"UTTERLY_NOSYNC", "SAFE_NOSYNC"}
  IN  /\ left \subseteq kept
      /\ kept \ left \subseteq alike
      /\ names \cap alike = {} => left = kept

\* mdbx_env_set_flags() sets what it is asked to set and clears what it is asked
\* to clear, as far as mdbx_env_get_flags() can tell ("Reports every flag in
\* effect", R/flags.R:78): no flag that was asked for or in effect is lost,
\* UTTERLY_NOSYNC does not come about by accident, and what is cleared is not
\* reported any more.
SetAsAsked ==
  \A p \in Procs, names \in SUBSET Runtime :
    Opened(p) => TurnedOn(word[p], names) /\ TurnedOff(word[p], names)

-----------------------------------------------------------------------------
(* The inductive invariant behind PromisesKept and SyncKeeps.              *)

\* One process writes at a time, with an environment.
WriterInv ==
  /\ \A p, q \in Procs : txn[p] # NoTxn /\ txn[q] # NoTxn => p = q
  /\ \A p \in Procs : txn[p] # NoTxn => Opened(p) /\ head < MaxCommits

\* Once wiped, the disk has nothing, and the page cache nothing or something
\* newer than any promise.
WipeInv ==
  /\ wiped => disk = 0 /\ head > 0
  /\ promised <= steady \/ (wiped /\ steady = 0)

IInv == TypeOK /\ WriterInv /\ WipeInv /\ PromisesKept

=============================================================================
