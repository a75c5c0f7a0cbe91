-------------------------- MODULE DurabilityProofs --------------------------
(***************************************************************************)
(* Proofs about Durability: its type invariant, and that no commit promised *)
(* to be durable is lost, for any number of processes and commits.         *)
(***************************************************************************)
EXTENDS Durability, TLAPS

-----------------------------------------------------------------------------
(* The flag word.                                                          *)

\* Bits and names, one by one.
LEMMA BitsAre ==
  /\ Bits = {"safe", "mapasync", "nometa", "writemap"}
  /\ \A names \in SUBSET Names : bits_from(names) \subseteq Bits
  /\ Utterly = {"safe", "mapasync"}
<1>1. Names = {"UTTERLY_NOSYNC", "SAFE_NOSYNC", "NOMETASYNC", "WRITEMAP"}
  BY DEF Names, Bit
<1>2. /\ Bit["UTTERLY_NOSYNC"] = {"safe", "mapasync"} /\ Bit["SAFE_NOSYNC"] = {"safe"}
      /\ Bit["NOMETASYNC"] = {"nometa"} /\ Bit["WRITEMAP"] = {"writemap"}
  BY DEF Bit
<1>3. Bits = {"safe", "mapasync", "nometa", "writemap"}
  BY <1>1, <1>2 DEF Bits
<1>4. \A names \in SUBSET Names : bits_from(names) \subseteq Bits
  BY DEF Bits, bits_from
<1> QED BY <1>2, <1>3, <1>4 DEF Utterly

\* combine_durability_flags() invents no bits.
LEMMA CombinedType ==
  ASSUME NEW a \in SUBSET Bits, NEW b \in SUBSET Bits
  PROVE Combined(a, b) \in SUBSET Bits
BY BitsAre DEF Combined

\* MDBX_ACCEDE takes bits of the lock file's mode.
LEMMA AccededType ==
  ASSUME NEW w \in SUBSET Bits, envmode \in SUBSET Bits
  PROVE Acceded(w) \in SUBSET Bits
BY DEF Acceded

\* A process whose flags report no lazy mode has no lazy bit but, perhaps, what
\* is left of MDBX_UTTERLY_NOSYNC.
LEMMA DurableWord ==
  ASSUME NEW p \in Procs, word[p] \in SUBSET Bits, Durable(p)
  PROVE "safe" \notin word[p] \cup txn[p] /\ "nometa" \notin word[p] \cup txn[p]
<1>1. /\ Bit["UTTERLY_NOSYNC"] = {"safe", "mapasync"} /\ Bit["SAFE_NOSYNC"] = {"safe"}
      /\ Bit["NOMETASYNC"] = {"nometa"}
      /\ {"UTTERLY_NOSYNC", "SAFE_NOSYNC", "NOMETASYNC"} \subseteq Names
  BY DEF Bit, Names
<1>2. \A n \in Runtime : n \notin names_from(word[p])
  BY DEF Durable
<1>3. "nometa" \notin word[p]
  <2>1. "NOMETASYNC" \notin names_from(word[p])
    BY <1>2 DEF Runtime
  <2> QED BY <1>1, <2>1 DEF names_from
<1>4. "safe" \notin word[p]
  <2>1. "SAFE_NOSYNC" \notin names_from(word[p]) /\ "UTTERLY_NOSYNC" \notin names_from(word[p])
    BY <1>2 DEF Runtime
  <2>2. ~(Utterly \subseteq word[p])
    BY <1>1, <2>1 DEF names_from, Utterly
  <2> QED BY <1>1, <2>1, <2>2 DEF names_from
<1> QED BY <1>3, <1>4 DEF Durable

\* The bits an environment has after it was opened or its flags were set.
LEMMA WordType ==
  ASSUME TypeOK, NEW p \in Procs
  PROVE /\ \A names \in SUBSET Names, accede \in BOOLEAN :
             Open(p, names, accede) => word' \in [Procs -> SUBSET Bits] /\ envmode' \in SUBSET Bits
        /\ \A names \in SUBSET Runtime, on \in BOOLEAN :
             SetFlags(p, names, on) => word' \in [Procs -> SUBSET Bits]
<1>1. Runtime \subseteq Names
  BY DEF Runtime, Names, Bit
<1>2. \A names \in SUBSET Names : Combined(bits_from(names), {}) \in SUBSET Bits
  BY CombinedType, BitsAre
<1>3. \A names \in SUBSET Names :
        Acceded(Combined(bits_from(names), {})) \in SUBSET Bits
  BY <1>2, AccededType DEF TypeOK
<1>4. \A names \in SUBSET Runtime, on \in BOOLEAN : Changed(word[p], names, on) \in SUBSET Bits
  <2> SUFFICES ASSUME NEW names \in SUBSET Runtime, NEW on \in BOOLEAN
               PROVE Changed(word[p], names, on) \in SUBSET Bits
    OBVIOUS
  <2>1. word[p] \in SUBSET Bits /\ bits_from(names) \in SUBSET Bits
    BY <1>1, BitsAre DEF TypeOK
  <2> QED BY <2>1, CombinedType DEF Changed
<1>5. ASSUME NEW names \in SUBSET Names, NEW accede \in BOOLEAN, Open(p, names, accede)
      PROVE word' \in [Procs -> SUBSET Bits] /\ envmode' \in SUBSET Bits
  BY <1>2, <1>3, <1>5 DEF Open, TypeOK, shared
<1>6. ASSUME NEW names \in SUBSET Runtime, NEW on \in BOOLEAN, SetFlags(p, names, on)
      PROVE word' \in [Procs -> SUBSET Bits]
  BY <1>4, <1>6 DEF SetFlags, TypeOK
<1> QED BY <1>5, <1>6

-----------------------------------------------------------------------------
(* What is on the disk.                                                    *)

\* The parts of IInv: what is true or false, what counts commits, and what is
\* about processes.
BoolInv == unsynced \in BOOLEAN /\ wiped \in BOOLEAN /\ forgotten \in BOOLEAN

FileInv ==
  /\ metaSync \in {"synced", "file", "map"}
  /\ head \in 0..MaxCommits /\ steady \in 0..head /\ disk \in 0..steady
  /\ promised \in 0..head
  /\ WipeInv
  /\ PromisesKept

ProcsInv ==
  /\ word \in [Procs -> SUBSET Bits]
  /\ fd \in [Procs -> {"closed", "none", "data", "all"}]
  /\ txn \in [Procs -> TxnFlags \cup {NoTxn}]
  /\ envmode \in SUBSET Bits
  /\ WriterInv

LEMMA Parts == IInv <=> BoolInv /\ FileInv /\ ProcsInv
BY DEF IInv, BoolInv, FileInv, ProcsInv, TypeOK

LEMMA PartsNext == BoolInv' /\ FileInv' /\ ProcsInv' => IInv'
BY DEF IInv, BoolInv, FileInv, ProcsInv, TypeOK

\* A synced file, as equivalences.
LEMMA SyncedIs ==
  ASSUME NEW n, SyncedTo(n)
  PROVE /\ disk' = n /\ ~forgotten'
        /\ wiped' <=> wiped /\ n = 0
        /\ wiped' \in BOOLEAN /\ forgotten' \in BOOLEAN
<1>1. wiped' = (wiped /\ n = 0) /\ forgotten' = FALSE /\ disk' = n
  BY DEF SyncedTo
<1> QED BY <1>1, Zenon

LEMMA NotSyncedIs ==
  ASSUME NotSynced
  PROVE /\ disk' = disk
        /\ wiped' <=> wiped
        /\ forgotten' <=> forgotten
        /\ wiped \in BOOLEAN => wiped' \in BOOLEAN
        /\ forgotten \in BOOLEAN => forgotten' \in BOOLEAN
BY DEF NotSynced

\* A sync keeps what the file promises, and with force leaves nothing to lose.
LEMMA SyncStep ==
  ASSUME BoolInv, FileInv, NEW p \in Procs, NEW force \in BOOLEAN, SyncDone(p, force),
         UNCHANGED <<head, promised>>
  PROVE BoolInv' /\ FileInv' /\ (force => forgotten \/ (disk' = head' /\ ~wiped'))
<1>1. MaxCommits \in Nat
  BY DurabilityAssumption DEF DurabilityAssumption
<1>2. CASE NothingPending /\ UNCHANGED <<unsynced, metaSync, steady>> /\ NotSynced
  BY <1>2 DEF BoolInv, FileInv, WipeInv, PromisesKept, NothingPending, NotSynced
<1>3. CASE ~unsynced' /\ unsynced' \in BOOLEAN /\ metaSync' = "synced" /\ steady' = head
           /\ SyncedTo(head)
  <2>1. BoolInv'
    BY <1>3, SyncedIs DEF BoolInv
  <2>2. disk' = head /\ (wiped' <=> wiped /\ head = 0)
    BY <1>3, SyncedIs
  <2> QED BY <1>1, <1>3, <2>1, <2>2 DEF FileInv, WipeInv, PromisesKept, NothingPending
<1>4. CASE /\ ~NothingPending /\ ~force
           /\ metaSync' = "synced" /\ UNCHANGED <<unsynced, steady>>
           /\ IF metaSync = "synced" THEN NotSynced ELSE SyncedTo(steady)
  <2>1. CASE NotSynced /\ metaSync = "synced"
    BY <1>4, <2>1, NotSyncedIs DEF BoolInv, FileInv, WipeInv, PromisesKept, NothingPending
  <2>2. CASE SyncedTo(steady)
    <3>1. BoolInv'
      BY <1>4, <2>2, SyncedIs DEF BoolInv
    <3>2. disk' = steady /\ (wiped' <=> wiped /\ steady = 0)
      BY <2>2, SyncedIs
    <3> QED BY <1>1, <1>4, <3>1, <3>2 DEF FileInv, WipeInv, PromisesKept, NothingPending
  <2> QED BY <1>4, <2>1, <2>2
<1> QED BY <1>2, <1>3, <1>4 DEF SyncDone

\* So does a sync that finds another process writing.
LEMMA RefusedStep ==
  ASSUME BoolInv, FileInv, SyncRefused, UNCHANGED <<head, promised>>
  PROVE BoolInv' /\ FileInv'
<1>1. MaxCommits \in Nat
  BY DurabilityAssumption DEF DurabilityAssumption
<1>2. UNCHANGED <<unsynced, metaSync, steady>>
  BY DEF SyncRefused
<1>3. CASE NotSynced
  BY <1>2, <1>3, NotSyncedIs DEF BoolInv, FileInv, WipeInv, PromisesKept, NothingPending
<1>4. CASE unsynced /\ SyncedTo(steady)
  <2>1. BoolInv'
    BY <1>2, <1>4, SyncedIs DEF BoolInv
  <2>2. disk' = steady /\ (wiped' <=> wiped /\ steady = 0)
    BY <1>4, SyncedIs
  <2> QED BY <1>1, <1>2, <1>4, <2>1, <2>2 DEF FileInv, WipeInv, PromisesKept, NothingPending
<1> QED BY <1>3, <1>4 DEF SyncRefused

\* A commit that promises to be durable is on the disk, and any other one takes
\* nothing from those that were.
LEMMA CommitStep ==
  ASSUME IInv, NEW p \in Procs, Commit(p)
  PROVE BoolInv' /\ FileInv'
<1>1. MaxCommits \in Nat /\ head < MaxCommits /\ head' = head + 1 /\ BoolInv /\ FileInv
  BY Parts, DurabilityAssumption DEF DurabilityAssumption, Commit, IInv, WriterInv
<1>2. PICK cached \in {TRUE, Cached(p)}, shrinks \in BOOLEAN :
        LET flags == IF shrinks THEN word[p] \cap {"writemap"} ELSE word[p] \cup txn[p]
        IN  /\ shrinks => MayShrink
            /\ metaSync' = IF "nometa" \in flags THEN Way(flags) ELSE "synced"
            /\ \/ cached /\ CommitWeak(p, flags)
               \/ CommitSteady(p, cached, flags)
  BY DEF Commit
<1> DEFINE flags == IF shrinks THEN word[p] \cap {"writemap"} ELSE word[p] \cup txn[p]
<1>3. Durable(p) => "safe" \notin flags /\ "nometa" \notin flags
  BY DurableWord DEF IInv, TypeOK
<1>4. promised' = IF Durable(p) THEN head' ELSE promised
  BY DEF Commit
<1>5. metaSync' = IF "nometa" \in flags THEN Way(flags) ELSE "synced"
  BY <1>2
<1>6. Way(flags) \in {"file", "map"}
  BY DEF Way
<1>7. CommitWeak(p, flags) \/ CommitSteady(p, cached, flags)
  BY <1>2
<1> HIDE DEF flags
<1>s. ASSUME NEW n, SyncedTo(n)
      PROVE disk' = n /\ (wiped' <=> wiped /\ n = 0) /\ wiped' \in BOOLEAN /\ forgotten' \in BOOLEAN
  BY <1>s, SyncedIs
<1>n. ASSUME NotSynced
      PROVE disk' = disk /\ (wiped' <=> wiped) /\ wiped' \in BOOLEAN /\ forgotten' \in BOOLEAN
  BY <1>n, <1>1, NotSyncedIs DEF BoolInv
<1>8. CASE CommitWeak(p, flags)
  <2>1. ~Durable(p) /\ steady' = steady /\ unsynced' = TRUE
    BY <1>3, <1>8 DEF CommitWeak
  <2>2. promised' = promised /\ unsynced' /\ metaSync' \in {"synced", "file", "map"}
    BY <1>4, <1>5, <1>6, <2>1
  <2>3. SyncedTo(steady) \/ NotSynced
    BY <1>8 DEF CommitWeak
  <2>4. BoolInv'
    BY <1>s, <1>n, <2>1, <2>3 DEF BoolInv
  <2>5. \/ disk' = steady /\ (wiped' <=> wiped /\ steady = 0)
        \/ disk' = disk /\ (wiped' <=> wiped)
    BY <1>s, <1>n, <2>3
  <2> QED BY <1>1, <2>1, <2>2, <2>4, <2>5 DEF FileInv, WipeInv, PromisesKept, NothingPending
<1>9. CASE CommitSteady(p, cached, flags)
  <2>1. steady' = head'
    BY <1>9 DEF CommitSteady
  <2>2. metaSync' \in {"synced", "file", "map"} /\ promised' \in {head', promised}
    BY <1>4, <1>5, <1>6
  <2>3. CASE unsynced' = FALSE /\ SyncedTo(head')
    <3>1. BoolInv'
      BY <1>s, <2>3 DEF BoolInv
    <3>2. disk' = head' /\ (wiped' <=> wiped /\ head' = 0)
      BY <1>s, <2>3
    <3>3. head' \in Nat \ {0} /\ ~wiped'
      BY <1>1, <3>2 DEF FileInv
    <3> QED BY <1>1, <2>1, <2>2, <3>1, <3>2, <3>3 DEF FileInv, WipeInv, PromisesKept, NothingPending
  <2>4. CASE /\ "nometa" \in flags
             /\ unsynced' = (Way(flags) = "file")
             /\ SyncedTo(steady) \/ NotSynced
    <3>1. promised' = promised /\ metaSync' \in {"file", "map"}
      BY <1>3, <1>4, <1>5, <1>6, <2>4
    <3>2. BoolInv'
      <4>1. unsynced' \in BOOLEAN
        BY <2>4, Zenon
      <4> QED BY <1>s, <1>n, <2>4, <4>1 DEF BoolInv
    <3>3. \/ disk' = steady /\ (wiped' <=> wiped /\ steady = 0)
          \/ disk' = disk /\ (wiped' <=> wiped)
      BY <1>s, <1>n, <2>4
    <3> QED BY <1>1, <2>1, <3>1, <3>2, <3>3 DEF FileInv, WipeInv, PromisesKept, NothingPending
  <2>5. \/ unsynced' = FALSE /\ SyncedTo(head')
        \/ /\ "nometa" \in flags
           /\ unsynced' = (Way(flags) = "file")
           /\ SyncedTo(steady) \/ NotSynced
    BY <1>9 DEF CommitSteady
  <2> QED BY <2>3, <2>4, <2>5
<1> QED BY <1>7, <1>8, <1>9

\* The first process to come takes a weak head for unsynced and a lazy meta
\* page for synced; the latter is remembered.
LEMMA OpenStep ==
  ASSUME IInv, NEW p \in Procs, NEW names \in SUBSET Names, NEW accede \in BOOLEAN,
         Open(p, names, accede)
  PROVE BoolInv' /\ FileInv'
<1>1. BoolInv /\ FileInv
  BY Parts
<1>2. UNCHANGED <<head, steady, disk, wiped, promised>>
  BY DEF Open, file
<1>3. CASE UNCHANGED <<unsynced, metaSync, forgotten>>
  BY <1>1, <1>2, <1>3 DEF BoolInv, FileInv, WipeInv, PromisesKept, NothingPending
<1>4. CASE /\ unsynced' = (steady # head) /\ metaSync' = "synced"
           /\ forgotten' = (forgotten \/ (steady = head /\ disk # head))
  <2>1. unsynced' \in BOOLEAN /\ forgotten' \in BOOLEAN
    BY <1>4, Zenon
  <2>2. BoolInv'
    BY <1>1, <1>2, <2>1 DEF BoolInv
  <2>3. /\ unsynced' <=> steady # head
        /\ forgotten' <=> forgotten \/ (steady = head /\ disk # head)
    BY <1>4, Zenon
  <2> QED BY <1>1, <1>2, <1>4, <2>2, <2>3, DurabilityAssumption
          DEF DurabilityAssumption, FileInv, WipeInv, PromisesKept, NothingPending
<1> QED BY <1>3, <1>4 DEF Open, shared

\* MDBX_UTTERLY_NOSYNC wipes, and a power failure rolls back.
LEMMA LossStep ==
  ASSUME IInv, PowerFails \/ \E p \in Procs : Wipe(p)
  PROVE BoolInv' /\ FileInv'
<1>1. BoolInv /\ FileInv /\ MaxCommits \in Nat
  BY Parts, DurabilityAssumption DEF DurabilityAssumption
<1>2. ASSUME NEW p \in Procs, Wipe(p) PROVE BoolInv' /\ FileInv'
  <2>1. /\ UNCHANGED <<unsynced, metaSync, head, promised, forgotten>>
        /\ steady # head /\ wiped' = TRUE /\ steady' = 0 /\ disk' = 0
    BY <1>2 DEF Wipe, shared, ghosts
  <2> QED BY <1>1, <2>1 DEF BoolInv, FileInv, WipeInv, PromisesKept, NothingPending
<1>3. CASE PowerFails
  <2>1. /\ UNCHANGED <<unsynced, metaSync>>
        /\ wiped' = FALSE /\ forgotten' = FALSE
        /\ steady' = head' /\ disk' = head'
        /\ head' \in IF wiped THEN 0..head ELSE {disk, steady}
        /\ promised' = IF wiped THEN 0 ELSE promised
    BY <1>3 DEF PowerFails, shared
  <2>2. BoolInv'
    BY <1>1, <2>1 DEF BoolInv
  <2>3. /\ head' \in 0..MaxCommits /\ promised' \in 0..head'
    BY <1>1, <2>1 DEF FileInv, WipeInv, PromisesKept
  <2> QED BY <1>1, <2>1, <2>2, <2>3 DEF FileInv, WipeInv, PromisesKept
<1> QED BY <1>2, <1>3

-----------------------------------------------------------------------------
(* The invariant.                                                          *)

\* At first there is nothing.
LEMMA InitIInv == Init => IInv
<1> SUFFICES ASSUME Init PROVE IInv
  OBVIOUS
<1>1. BoolInv /\ ~wiped /\ disk = 0 /\ head = 0 /\ promised = 0 /\ steady = 0
      /\ metaSync = "synced"
  BY DEF Init, BoolInv
<1>3. FileInv
  BY <1>1, DurabilityAssumption
     DEF DurabilityAssumption, FileInv, WipeInv, PromisesKept
<1>2. ProcsInv
  BY DEF Init, ProcsInv, WriterInv
<1> QED BY <1>1, <1>2, <1>3, Parts

\* Steps that leave the file alone.
LEMMA FileQuiet ==
  ASSUME IInv, UNCHANGED <<unsynced, metaSync, file, ghosts>>
  PROVE BoolInv' /\ FileInv'
BY Parts DEF BoolInv, FileInv, WipeInv, PromisesKept, NothingPending, file, ghosts

\* Steps that leave the processes alone, or end one.
LEMMA ProcsQuiet ==
  ASSUME IInv, UNCHANGED head, UNCHANGED envmode
  PROVE /\ UNCHANGED <<word, fd, txn>> => ProcsInv'
        /\ \A p \in Procs : Gone(p) => ProcsInv'
<1>1. ProcsInv
  BY Parts
<1>2. UNCHANGED <<word, fd, txn>> => ProcsInv'
  BY <1>1 DEF ProcsInv, WriterInv, Opened
<1>3. ASSUME NEW p \in Procs, Gone(p) PROVE ProcsInv'
  BY <1>1, <1>3 DEF ProcsInv, WriterInv, Opened, Gone
<1> QED BY <1>2, <1>3

\* Every step keeps the invariant.
LEMMA NextIInv == IInv /\ [Next]_vars => IInv'
<1> SUFFICES ASSUME IInv, [Next]_vars PROVE IInv'
  OBVIOUS
<1>1. TypeOK /\ BoolInv /\ FileInv /\ ProcsInv
  BY Parts DEF IInv
<1>2. ASSUME NEW p \in Procs, NEW names \in SUBSET Names, NEW accede \in BOOLEAN,
             Open(p, names, accede)
      PROVE IInv'
  <2>1. word' \in [Procs -> SUBSET Bits] /\ envmode' \in SUBSET Bits
    BY <1>1, <1>2, WordType
  <2>2. /\ ~Opened(p) /\ txn' = txn /\ head' = head
        /\ fd' = [fd EXCEPT ![p] = DsyncFd(Combined(bits_from(names), {}))]
    BY <1>2 DEF Open, file
  <2>3. DsyncFd(Combined(bits_from(names), {})) \in {"none", "data", "all"}
    BY DEF DsyncFd
  <2>4. ProcsInv'
    BY <1>1, <2>1, <2>2, <2>3 DEF ProcsInv, WriterInv, Opened
  <2> QED BY <1>2, <2>4, OpenStep, PartsNext
<1>3. ASSUME NEW p \in Procs, NEW names \in SUBSET Runtime, NEW on \in BOOLEAN,
             SetFlags(p, names, on)
      PROVE IInv'
  <2>1. word' \in [Procs -> SUBSET Bits]
    BY <1>1, <1>3, WordType
  <2>2. UNCHANGED <<fd, txn, envmode, unsynced, metaSync, file, ghosts>> /\ head' = head
    BY <1>3 DEF SetFlags, shared, file
  <2>3. ProcsInv'
    BY <1>1, <2>1, <2>2 DEF ProcsInv, WriterInv, Opened
  <2> QED BY <2>2, <2>3, FileQuiet, PartsNext
<1>4. ASSUME NEW p \in Procs, NEW flags \in TxnFlags, Begin(p, flags) PROVE IInv'
  <2>1. /\ Opened(p) /\ Unlocked /\ head < MaxCommits
        /\ txn' = [txn EXCEPT ![p] = flags]
        /\ UNCHANGED <<word, fd, envmode, unsynced, metaSync, file, ghosts>>
        /\ head' = head
    BY <1>4 DEF Begin, shared, file
  <2>2. txn' \in [Procs -> TxnFlags \cup {NoTxn}]
    BY <1>1, <2>1 DEF ProcsInv
  <2>3. \A q \in Procs : txn'[q] # NoTxn => q = p
    BY <1>1, <2>1 DEF ProcsInv, Unlocked
  <2>4. ProcsInv'
    BY <1>1, <2>1, <2>2, <2>3 DEF ProcsInv, WriterInv, Opened
  <2> QED BY <2>1, <2>4, FileQuiet, PartsNext
<1>5. ASSUME NEW p \in Procs, Abort(p) PROVE IInv'
  <2>1. /\ txn' = [txn EXCEPT ![p] = NoTxn] /\ head' = head
        /\ UNCHANGED <<word, fd, envmode, unsynced, metaSync, file, ghosts>>
    BY <1>5 DEF Abort, shared, file
  <2>2. ProcsInv'
    BY <1>1, <2>1 DEF ProcsInv, WriterInv, Opened
  <2> QED BY <2>1, <2>2, FileQuiet, PartsNext
<1>6. ASSUME NEW p \in Procs, Commit(p) PROVE IInv'
  <2>1. txn[p] # NoTxn /\ txn' = [txn EXCEPT ![p] = NoTxn] /\ UNCHANGED <<word, fd, envmode>>
    BY <1>6 DEF Commit
  <2>2. \A q \in Procs : txn'[q] = NoTxn
    BY <1>1, <2>1 DEF ProcsInv, WriterInv
  <2>3. ProcsInv'
    BY <1>1, <2>1, <2>2 DEF ProcsInv, WriterInv
  <2> QED BY <1>6, <2>3, CommitStep, PartsNext
<1>7. ASSUME NEW p \in Procs, Wipe(p) PROVE IInv'
  <2>1. UNCHANGED <<word, fd, txn, envmode, head>>
    BY <1>7 DEF Wipe, shared
  <2> QED BY <1>7, <2>1, ProcsQuiet, LossStep, PartsNext
<1>8. ASSUME NEW p \in Procs, NEW force \in BOOLEAN, Sync(p, force) PROVE IInv'
  <2>1. SyncDone(p, force) /\ UNCHANGED <<word, fd, txn, envmode, head, promised>>
    BY <1>8 DEF Sync
  <2> QED BY <1>1, <2>1, ProcsQuiet, SyncStep, PartsNext
<1>9. ASSUME NEW p \in Procs, SyncInVain(p) PROVE IInv'
  <2>1. SyncRefused /\ UNCHANGED <<word, fd, txn, envmode, head, promised>>
    BY <1>9 DEF SyncInVain
  <2> QED BY <1>1, <2>1, ProcsQuiet, RefusedStep, PartsNext
<1>10. ASSUME NEW p \in Procs, Close(p) PROVE IInv'
  <2>1. /\ Gone(p) /\ UNCHANGED <<envmode, head, promised>>
        /\ SyncDone(p, TRUE) \/ SyncRefused
    BY <1>10 DEF Close
  <2> QED BY <1>1, <2>1, ProcsQuiet, SyncStep, RefusedStep, PartsNext
<1>11. ASSUME NEW p \in Procs, Killed(p) PROVE IInv'
  <2>1. Gone(p) /\ UNCHANGED <<envmode, head, unsynced, metaSync, file, ghosts>>
    BY <1>11 DEF Killed, shared, file, ghosts
  <2> QED BY <2>1, ProcsQuiet, FileQuiet, PartsNext
<1>12. CASE PowerFails
  <2>1. /\ word' = [p \in Procs |-> {}] /\ fd' = [p \in Procs |-> "closed"]
        /\ txn' = [p \in Procs |-> NoTxn] /\ UNCHANGED envmode
    BY <1>12 DEF PowerFails, shared
  <2>2. ProcsInv'
    BY <1>1, <2>1 DEF ProcsInv, WriterInv
  <2> QED BY <1>12, <2>2, LossStep, PartsNext
<1>13. CASE UNCHANGED vars
  <2>1. UNCHANGED <<word, fd, txn, envmode, head, unsynced, metaSync, file, ghosts>>
    BY <1>13 DEF vars, shared, file
  <2> QED BY <2>1, ProcsQuiet, FileQuiet, PartsNext
<1> QED BY <1>2, <1>3, <1>4, <1>5, <1>6, <1>7, <1>8, <1>9, <1>10, <1>11, <1>12, <1>13
       DEF Next

\* One writer at a time; what is wiped, promised and on the disk agrees, for any
\* number of processes, in whatever modes, and any number of commits.
THEOREM Inductive == Spec => []IInv
<1>1. Init => IInv
  BY InitIInv
<1>2. IInv /\ [Next]_vars => IInv'
  BY NextIInv
<1> QED BY <1>1, <1>2, PTL DEF Spec

\* The variables keep their types; the disk is no newer than the page cache, and
\* that is no newer than the head.
THEOREM TypeCorrect == Spec => []TypeOK
<1>1. IInv => TypeOK
  BY DEF IInv
<1> QED BY <1>1, Inductive, PTL

\* A power failure takes no commit made while mdbx_env_get_flags() and
\* mdbx_txn_begin() named no lazy mode, and mdbx_env_sync() says that nothing is
\* pending only when nothing is.
THEOREM NothingPromisedIsLost == Spec => []PromisesKept
<1>1. IInv => PromisesKept
  BY DEF IInv
<1> QED BY <1>1, Inductive, PTL

\* A forced mdbx_env_sync(), and the close of the last process, make every
\* commit safe, whoever made it.
THEOREM SyncMakesSafe == Spec => SyncKeeps
<1> DEFINE A == fd' # fd \/ (word' = word /\ txn' = txn) =>
                  \/ disk' = head' /\ ~wiped'
                  \/ forgotten
                  \/ \A p \in Procs :
                       /\ ~Sync(p, TRUE)
                       /\ Close(p) => \E q \in Procs : fd'[q] # "closed"
<1>1. IInv => A
  <2> SUFFICES ASSUME IInv, ~(disk' = head' /\ ~wiped'), ~forgotten, NEW p \in Procs
               PROVE /\ ~Sync(p, TRUE)
                     /\ Close(p) => \E q \in Procs : fd'[q] # "closed"
    OBVIOUS
  <2>1. BoolInv /\ FileInv /\ ProcsInv
    BY Parts
  <2>2. ~(SyncDone(p, TRUE) /\ UNCHANGED <<head, promised>>)
    BY <2>1, SyncStep
  <2>3. ~Sync(p, TRUE)
    BY <2>2 DEF Sync
  <2>4. ASSUME Close(p), \A q \in Procs : fd'[q] = "closed" PROVE FALSE
    <3>1. \A q \in Procs \ {p} : fd[q] = "closed"
      BY <2>1, <2>4 DEF Close, Gone, ProcsInv
    <3>2. MayLock(p)
      BY <2>1, <3>1 DEF ProcsInv, WriterInv, Opened, MayLock
    <3> QED BY <2>2, <2>4, <3>2 DEF Close
  <2> QED BY <2>3, <2>4
<1>2. IInv /\ [Next]_vars => [A]_vars
  BY <1>1
<1> QED BY <1>2, Inductive, PTL DEF Spec, SyncKeeps

-----------------------------------------------------------------------------
(* Names and bits: mdbx_env_set_flags().                                   *)

\* Which names the bits are reported as.
LEMMA NamesAre ==
  ASSUME NEW w
  PROVE /\ names_from(w) \subseteq {"UTTERLY_NOSYNC", "SAFE_NOSYNC", "NOMETASYNC", "WRITEMAP"}
        /\ "UTTERLY_NOSYNC" \in names_from(w) <=> "safe" \in w /\ "mapasync" \in w
        /\ "SAFE_NOSYNC" \in names_from(w) <=> "safe" \in w /\ "mapasync" \notin w
        /\ "NOMETASYNC" \in names_from(w) <=> "nometa" \in w
        /\ "WRITEMAP" \in names_from(w) <=> "writemap" \in w
<1>1. Names = {"UTTERLY_NOSYNC", "SAFE_NOSYNC", "NOMETASYNC", "WRITEMAP"}
  BY DEF Names, Bit
<1>2. /\ Bit["UTTERLY_NOSYNC"] = {"safe", "mapasync"} /\ Bit["SAFE_NOSYNC"] = {"safe"}
      /\ Bit["NOMETASYNC"] = {"nometa"} /\ Bit["WRITEMAP"] = {"writemap"}
  BY DEF Bit
<1>3. Utterly \subseteq w <=> "safe" \in w /\ "mapasync" \in w
  BY BitsAre
<1> QED BY <1>1, <1>2, <1>3 DEF names_from

\* Which bits the names turn on.
LEMMA NamedBits ==
  ASSUME NEW names \in SUBSET Runtime
  PROVE /\ "safe" \in bits_from(names) <=>
             "UTTERLY_NOSYNC" \in names \/ "SAFE_NOSYNC" \in names
        /\ "mapasync" \in bits_from(names) <=> "UTTERLY_NOSYNC" \in names
        /\ "nometa" \in bits_from(names) <=> "NOMETASYNC" \in names
        /\ "writemap" \notin bits_from(names)
<1>1. /\ Bit["UTTERLY_NOSYNC"] = {"safe", "mapasync"} /\ Bit["SAFE_NOSYNC"] = {"safe"}
      /\ Bit["NOMETASYNC"] = {"nometa"}
  BY DEF Bit
<1>2. \A n \in names : n \in {"UTTERLY_NOSYNC", "SAFE_NOSYNC", "NOMETASYNC"}
  BY DEF Runtime
<1> QED BY <1>1, <1>2 DEF bits_from

\* Which bits combine_durability_flags() makes of two words: the two bits of
\* MDBX_UTTERLY_NOSYNC only if one of them had both, and the old meaning of the
\* second one only under MDBX_WRITEMAP.
LEMMA CombinedBits ==
  ASSUME NEW a, NEW b
  PROVE LET safe == "safe" \in a \/ "safe" \in b
            utterly == \/ "safe" \in a /\ "mapasync" \in a
                       \/ "safe" \in b /\ "mapasync" \in b
            left == /\ "mapasync" \in a \/ "mapasync" \in b
                    /\ ~safe
            old == left /\ ("writemap" \in a \/ "writemap" \in b)
            c == Combined(a, b)
        IN  /\ "safe" \in c <=> safe \/ old
            /\ "mapasync" \in c <=> utterly \/ (left /\ ~old)
            /\ "writemap" \in c <=> "writemap" \in a \/ "writemap" \in b
            /\ "nometa" \in c <=> \/ "nometa" \in a \/ "nometa" \in b
                                  \/ safe \/ left
BY BitsAre DEF Combined

\* Setting flags: what was reported, or asked for, is reported.
LEMMA SetKeeps ==
  ASSUME NEW w, NEW names \in SUBSET Runtime
  PROVE TurnedOn(w, names)
<1> DEFINE c == Combined(w, bits_from(names))
           asked == names_from(w) \cup names
           left == {"mapasync", "writemap"} \subseteq w
<1>1. /\ "safe" \in c <=> \/ "safe" \in w \/ "UTTERLY_NOSYNC" \in names
                             \/ "SAFE_NOSYNC" \in names \/ left
      /\ "mapasync" \in c /\ "safe" \in c <=>
           "UTTERLY_NOSYNC" \in names \/ ("safe" \in w /\ "mapasync" \in w)
      /\ "writemap" \in c <=> "writemap" \in w
      /\ "nometa" \in w \/ "NOMETASYNC" \in names => "nometa" \in c
  BY NamedBits, CombinedBits
<1> HIDE DEF c
<1>2. /\ names_from(c) \subseteq {"UTTERLY_NOSYNC", "SAFE_NOSYNC", "NOMETASYNC", "WRITEMAP"}
      /\ "UTTERLY_NOSYNC" \in names_from(c) <=> "safe" \in c /\ "mapasync" \in c
      /\ "SAFE_NOSYNC" \in names_from(c) <=> "safe" \in c /\ "mapasync" \notin c
      /\ "NOMETASYNC" \in names_from(c) <=> "nometa" \in c
      /\ "WRITEMAP" \in names_from(c) <=> "writemap" \in c
  BY NamesAre
<1>3. /\ names_from(w) \subseteq {"UTTERLY_NOSYNC", "SAFE_NOSYNC", "NOMETASYNC", "WRITEMAP"}
      /\ "UTTERLY_NOSYNC" \in names_from(w) <=> "safe" \in w /\ "mapasync" \in w
      /\ "SAFE_NOSYNC" \in names_from(w) <=> "safe" \in w /\ "mapasync" \notin w
      /\ "NOMETASYNC" \in names_from(w) <=> "nometa" \in w
      /\ "WRITEMAP" \in names_from(w) <=> "writemap" \in w
  BY NamesAre
<1>4. names \subseteq {"UTTERLY_NOSYNC", "SAFE_NOSYNC", "NOMETASYNC"}
  BY DEF Runtime
<1>5. /\ "UTTERLY_NOSYNC" \in names_from(c) <=> "UTTERLY_NOSYNC" \in asked
      /\ "SAFE_NOSYNC" \in asked =>
           "SAFE_NOSYNC" \in names_from(c) \/ "UTTERLY_NOSYNC" \in names_from(c)
      /\ "SAFE_NOSYNC" \in names_from(c) => "SAFE_NOSYNC" \in asked \/ left
      /\ "NOMETASYNC" \in asked => "NOMETASYNC" \in names_from(c)
      /\ "WRITEMAP" \in asked <=> "WRITEMAP" \in names_from(c)
  BY <1>1, <1>2, <1>3, <1>4
<1>6. Changed(w, names, TRUE) = c
  BY DEF Changed, c
<1> HIDE DEF left
<1>7. names_from(c) \ asked \subseteq
        {"NOMETASYNC"} \cup (IF left THEN {"SAFE_NOSYNC"} ELSE {})
  BY <1>2, <1>5
<1>8. asked \ {"SAFE_NOSYNC"} \subseteq names_from(c)
  BY <1>3, <1>4, <1>5
<1> QED BY <1>5, <1>6, <1>7, <1>8 DEF TurnedOn, left

\* Clearing flags: what was reported and not cleared is reported.
LEMMA ClearKeeps ==
  ASSUME NEW w, NEW names \in SUBSET Runtime
  PROVE TurnedOff(w, names)
<1> DEFINE c == w \ bits_from(names)
           kept == names_from(w) \ names
<1>1. /\ "safe" \in c <=> /\ "safe" \in w /\ "UTTERLY_NOSYNC" \notin names
                          /\ "SAFE_NOSYNC" \notin names
      /\ "mapasync" \in c <=> "mapasync" \in w /\ "UTTERLY_NOSYNC" \notin names
      /\ "nometa" \in c <=> "nometa" \in w /\ "NOMETASYNC" \notin names
      /\ "writemap" \in c <=> "writemap" \in w
  BY NamedBits
<1> HIDE DEF c
<1>2. /\ names_from(c) \subseteq {"UTTERLY_NOSYNC", "SAFE_NOSYNC", "NOMETASYNC", "WRITEMAP"}
      /\ "UTTERLY_NOSYNC" \in names_from(c) <=> "safe" \in c /\ "mapasync" \in c
      /\ "SAFE_NOSYNC" \in names_from(c) <=> "safe" \in c /\ "mapasync" \notin c
      /\ "NOMETASYNC" \in names_from(c) <=> "nometa" \in c
      /\ "WRITEMAP" \in names_from(c) <=> "writemap" \in c
  BY NamesAre
<1>3. /\ names_from(w) \subseteq {"UTTERLY_NOSYNC", "SAFE_NOSYNC", "NOMETASYNC", "WRITEMAP"}
      /\ "UTTERLY_NOSYNC" \in names_from(w) <=> "safe" \in w /\ "mapasync" \in w
      /\ "SAFE_NOSYNC" \in names_from(w) <=> "safe" \in w /\ "mapasync" \notin w
      /\ "NOMETASYNC" \in names_from(w) <=> "nometa" \in w
      /\ "WRITEMAP" \in names_from(w) <=> "writemap" \in w
  BY NamesAre
<1>4. "WRITEMAP" \notin names
  BY DEF Runtime
<1>5. /\ "NOMETASYNC" \in names_from(c) <=> "NOMETASYNC" \in kept
      /\ "WRITEMAP" \in names_from(c) <=> "WRITEMAP" \in kept
      /\ "UTTERLY_NOSYNC" \in names_from(c) =>  "UTTERLY_NOSYNC" \in kept
      /\ "SAFE_NOSYNC" \in names_from(c) => "SAFE_NOSYNC" \in kept
  BY <1>1, <1>2, <1>3, <1>4
<1>6. "UTTERLY_NOSYNC" \notin names /\ "SAFE_NOSYNC" \notin names =>
        /\ "UTTERLY_NOSYNC" \in kept => "UTTERLY_NOSYNC" \in names_from(c)
        /\ "SAFE_NOSYNC" \in kept => "SAFE_NOSYNC" \in names_from(c)
  BY <1>1, <1>2, <1>3
<1>7. kept \subseteq {"UTTERLY_NOSYNC", "SAFE_NOSYNC", "NOMETASYNC", "WRITEMAP"}
  BY <1>3
<1>8. Changed(w, names, FALSE) = c
  BY DEF Changed, c
<1> HIDE DEF kept
<1>9. names_from(c) \subseteq kept
  BY <1>2, <1>5
<1>10. kept \ names_from(c) \subseteq {"UTTERLY_NOSYNC", "SAFE_NOSYNC"}
  BY <1>5, <1>7
<1>11. names \cap {"UTTERLY_NOSYNC", "SAFE_NOSYNC"} = {} => kept \subseteq names_from(c)
  BY <1>5, <1>6, <1>7
<1> QED BY <1>8, <1>9, <1>10, <1>11 DEF TurnedOff, kept

\* mdbx_env_set_flags() loses no flag that was asked for or in effect, turns on
\* nothing else but NOMETASYNC, and at most SAFE_NOSYNC again where
\* UTTERLY_NOSYNC left its second bit; what it clears is not reported any more,
\* and nothing else is cleared but the other of two flags that share a bit: for
\* every flag word, not only the reachable ones.
THEOREM FlagsSetAsAsked == Spec => []SetAsAsked
<1>1. SetAsAsked
  BY SetKeeps, ClearKeeps DEF SetAsAsked
<1> QED BY <1>1, PTL
=============================================================================
