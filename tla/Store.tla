------------------------------- MODULE Store -------------------------------
(***************************************************************************)
(* Transactions and named databases as the package performs them: the      *)
(* per-transaction cache of resolved names (txn_handle::named), libmdbx's  *)
(* table of database handles behind it, which outlives transactions, and   *)
(* the operations that go through both.                                    *)
(*                                                                         *)
(* A process has one environment open and, as mdbx_txn_begin_() insists,   *)
(* at most one transaction in it. Everything a process holds is one        *)
(* record, ctx[p]; an operation is a function of that record.              *)
(***************************************************************************)
EXTENDS Databases, Naturals

CONSTANTS
  Procs,     \* processes that use the environment
  MaxDbs,    \* values of max_dbs given to mdbx_env_open()
  Deletes    \* do they delete named databases?

ASSUME StoreAssumption ==
  /\ Null \notin Procs
  /\ MaxDbs \subseteq Nat /\ MaxDbs # {}
  /\ Deletes \in BOOLEAN

VARIABLES
  committed,   \* the last published contents
  writer,      \* holder of libmdbx's writer lock, or Null
  ctx          \* per process: environment and transaction

vars == <<committed, writer, ctx>>

Slots == UNION {1 .. m : m \in MaxDbs}

\* How a transaction stands to a slot of the handle table: not looked at yet
\* (or found stale), usable since before it, opened by it, created by it,
\* deleted by it, found to lead nowhere.
SlotState == {"unused", "open", "fresh", "new", "slain", "gone"}
Usable == {"open", "fresh", "new"}

Context == [mode : {"none", "read", "write", "failed", "stuck"},
            view : Stores,
            max_dbs : MaxDbs,
            slots : [Slots -> Bytes \cup {Null}],
            st : [Slots -> SlotState],
            named : [Bytes -> Slots \cup {0}]]   \* 0: not resolved

NoSlots == [i \in Slots |-> Null]
Untouched == [i \in Slots |-> "unused"]
Unresolved == [n \in Bytes |-> 0]

\* A process between transactions, with its handle table.
Idle(max, slots) ==
  [mode |-> "none", view |-> EmptyStore, max_dbs |-> max, slots |-> slots,
   st |-> Untouched, named |-> Unresolved]

\* An environment just opened.
Reopened(max) == Idle(max, NoSlots)

-----------------------------------------------------------------------------
(* libmdbx's handle table, seen from a transaction.                        *)

SlotsOf(c, n) == {i \in 1 .. c.max_dbs : c.slots[i] = n}
Least(S) == CHOOSE i \in S : \A j \in S : i <= j

\* dbi_close_locked().
Closed(c, i) == [c EXCEPT !.slots[i] = Null, !.st[i] = "unused"]

\* Slot i now belongs to n, in state s.
Bound(c, i, n, s) == [c EXCEPT !.slots[i] = n, !.st[i] = s]

Opened(c, rc, i) == [c |-> c, rc |-> rc, dbi |-> i]

CreatedIn(c, i, n, s) == [Bound(c, i, n, s) EXCEPT !.view = Created(c.view, n)]

\* mdbx_dbi_open() of a name that has slot i. A handle known from before the
\* transaction is handed out without a look at the record; one that was found
\* to lead nowhere is looked up, and closed when the database is not there.
ReopenSlot(c, i, n, create) ==
  IF c.st[i] \in Usable THEN Opened(c, "ok", i)
  ELSE IF c.st[i] = "slain" /\ ~create THEN Opened(c, "missing", 0)
  ELSE IF c.view[Main][n] = Tree THEN Opened(Bound(c, i, n, "open"), "ok", i)
  ELSE IF create /\ ~Present(c.view, Main, n)
       THEN Opened(CreatedIn(c, i, n, "open"), "ok", i)
  ELSE IF c.st[i] = "unused" /\ ~create THEN Opened(c, "ok", i)
  ELSE Opened(Closed(c, i),
              IF Present(c.view, Main, n) THEN "incompatible" ELSE "missing", 0)

\* mdbx_dbi_open() of a name without a slot: the lowest free one, if any.
OpenSlot(c, n, create) ==
  LET free == SlotsOf(c, Null) IN
  IF free = {} THEN Opened(c, "full", 0)
  ELSE IF c.view[Main][n] = Tree
       THEN Opened(Bound(c, Least(free), n, "fresh"), "ok", Least(free))
  ELSE IF Present(c.view, Main, n) THEN Opened(c, "incompatible", 0)
  ELSE IF create THEN Opened(CreatedIn(c, Least(free), n, "new"), "ok", Least(free))
  ELSE Opened(c, "missing", 0)

NativeOpen(c, n, create) ==
  IF SlotsOf(c, n) = {} THEN OpenSlot(c, n, create)
                        ELSE ReopenSlot(c, Least(SlotsOf(c, n)), n, create)

\* The database a call with handle i reaches: dbi_check() and tbl_refresh().
\* Handle 0 is the main database.
Reached(c, rc, d) == [c |-> c, rc |-> rc, db |-> d]

NativeUse(c, i) ==
  IF i = 0 THEN Reached(c, "ok", Main)
  ELSE IF c.slots[i] = Null \/ c.st[i] \in {"slain", "gone"}
       THEN Reached(c, "bad_dbi", Null)
  ELSE IF c.st[i] \in Usable THEN Reached(c, "ok", c.slots[i])
  ELSE IF c.view[Main][c.slots[i]] = Tree
       THEN Reached(Bound(c, i, c.slots[i], "open"), "ok", c.slots[i])
  ELSE Reached(Bound(c, i, c.slots[i], "gone"),
               IF Present(c.view, Main, c.slots[i]) THEN "incompatible"
                                                    ELSE "bad_dbi", Null)

-----------------------------------------------------------------------------
(* Resolving a name: ensure_dbi().                                         *)

Cached(o, n) ==
  IF o.rc = "ok" THEN [o EXCEPT !.c.named[n] = o.dbi] ELSE o

ensure_dbi(c, d) ==
  IF d = Main THEN Opened(c, "ok", 0)
  ELSE IF c.named[d] # 0 THEN Opened(c, "ok", c.named[d])
  ELSE Cached(NativeOpen(c, d, FALSE), d)

\* The name resolved, and the database the call that follows reaches.
Resolved(c, d) ==
  LET o == ensure_dbi(c, d) IN
  IF o.rc = "ok" THEN NativeUse(o.c, o.dbi) ELSE Reached(o.c, o.rc, Null)

Answer(c, res) == [c |-> c, res |-> res]
InView(c, s) == [c EXCEPT !.view = s]

-----------------------------------------------------------------------------
(* The entry points, as functions of the context. A transaction libmdbx    *)
(* has marked failed answers nothing.                                      *)

get(c, d, k) ==
  LET r == Resolved(c, d) IN
  IF c.mode = "failed" THEN Answer(c, "bad_txn")
  ELSE IF r.rc # "ok" THEN Answer(r.c, r.rc)
  ELSE Answer(r.c, GetAnswer(r.c.view, r.db, k))

\* writable_txn() and what follows it in put, del and drop.
Writable(c) == c.mode # "read"

put(c, d, k, v, overwrite) ==
  LET r == Resolved(c, d) IN
  IF ~Writable(c) THEN Answer(c, "readonly")
  ELSE IF c.mode = "failed" THEN Answer(c, "bad_txn")
  ELSE IF r.rc # "ok" THEN Answer(r.c, r.rc)
  ELSE Answer(InView(r.c, PutStore(r.c.view, r.db, k, v, overwrite)),
              PutAnswer(r.c.view, r.db, k, overwrite))

del(c, d, k) ==
  LET r == Resolved(c, d) IN
  IF ~Writable(c) THEN Answer(c, "readonly")
  ELSE IF c.mode = "failed" THEN Answer(c, "bad_txn")
  ELSE IF r.rc # "ok" THEN Answer(r.c, r.rc)
  ELSE Answer(InView(r.c, DelStore(r.c.view, r.db, k)),
              DelAnswer(r.c.view, r.db, k))

\* mdbx_dbi_open_(): past the cache, which it updates.
dbi_open(c, n, create) ==
  LET o == Cached(NativeOpen(c, n, create), n) IN
  IF create /\ ~Writable(c) THEN Answer(c, "readonly")
  ELSE IF c.mode = "failed" THEN Answer(c, "bad_txn")
  ELSE Answer(o.c, o.rc)

\* mdbx_drop() with del of the database in the slot dbi of c: a handle the
\* transaction opened is closed at once, an older one when it commits.
Slain(c, i) ==
  IF c.st[i] \in {"fresh", "new"} THEN Closed(c, i)
                                 ELSE [c EXCEPT !.st[i] = "slain"]

\* Mutant: the deleted database's handle stays in the cache.
Remembered(c, d) == c

\* The cache forgets d.
Forgotten(c, d) == [c EXCEPT !.named[d] = 0]

dbi_drop(c, d, delete) ==
  LET r == Resolved(c, d)
      i == Least(SlotsOf(r.c, r.db))
      s == Dropped(r.c.view, r.db, delete)
  IN IF ~Writable(c) THEN Answer(c, "readonly")
     ELSE IF c.mode = "failed" /\ ~(d = Main /\ delete) THEN Answer(c, "bad_txn")
     ELSE IF DropRefused(c.view, d, delete) THEN Answer(c, "refused")
     ELSE IF r.rc # "ok" THEN Answer(r.c, r.rc)
     ELSE Answer(IF delete THEN Forgotten(Slain(InView(r.c, s), i), d)
                           ELSE InView(r.c, s), "ok")

-----------------------------------------------------------------------------
(* Actions.                                                                *)

Init ==
  /\ committed = EmptyStore
  /\ writer = Null
  /\ ctx \in [Procs -> {Reopened(max) : max \in MaxDbs}]

Active(p) == ctx[p].mode \in {"read", "write", "failed"}

\* An operation leaves process p with context c.
Becomes(p, c) ==
  /\ Active(p)
  /\ ctx' = [ctx EXCEPT ![p] = c]
  /\ UNCHANGED <<committed, writer>>

\* Mutant: a write transaction does not wait.
BeginAnyway(p, m) ==
  /\ ctx[p].mode = "none"
  /\ writer' = IF m = "write" THEN p ELSE writer
  /\ ctx' = [ctx EXCEPT ![p].mode = m, ![p].view = committed]
  /\ UNCHANGED committed

\* mdbx_txn_begin_(): a snapshot; a write transaction waits for the lock, or
\* with the try flag gives up.
Begin(p, m) ==
  /\ ctx[p].mode = "none"
  /\ m = "write" => writer = Null
  /\ writer' = IF m = "write" THEN p ELSE writer
  /\ ctx' = [ctx EXCEPT ![p].mode = m, ![p].view = committed]
  /\ UNCHANGED committed

Get(p) == \E d \in DBs, k \in Bytes : Becomes(p, get(ctx[p], d, k).c)

Put(p) == \E d \in DBs, k \in Bytes, v \in Vals, overwrite \in BOOLEAN :
            Becomes(p, put(ctx[p], d, k, v, overwrite).c)

Del(p) == \E d \in DBs, k \in Bytes : Becomes(p, del(ctx[p], d, k).c)

DbiOpen(p) == \E n \in Bytes, create \in BOOLEAN :
                Becomes(p, dbi_open(ctx[p], n, create).c)

DbiDrop(p) == \E d \in DBs, delete \in BOOLEAN :
                /\ delete /\ d # Main => Deletes
                /\ Becomes(p, dbi_drop(ctx[p], d, delete).c)

\* A put, del or drop that reaches libmdbx and fails there (MDBX_MAP_FULL):
\* libmdbx marks the transaction.
WriteFails(p) == \E d \in DBs :
  /\ ctx[p].mode = "write" /\ Resolved(ctx[p], d).rc = "ok"
  /\ Becomes(p, [Resolved(ctx[p], d).c EXCEPT !.mode = "failed"])

\* A creation that fails there; the slot of a name it knew is closed.
CreateFails(p) == \E n \in Bytes :
  LET c == ctx[p] IN
  /\ c.mode = "write" /\ NativeOpen(c, n, TRUE).c.view # c.view
  /\ Becomes(p, [(IF SlotsOf(c, n) = {} THEN c ELSE Closed(c, Least(SlotsOf(c, n))))
                   EXCEPT !.mode = "failed"])

\* The handle table after dbi_update(): slots in one of the states st go.
SlotsWithout(c, st) ==
  [i \in Slots |-> IF c.st[i] \in st THEN Null ELSE c.slots[i]]

\* Mutant: the cache outlives the transaction.
EndsCached(p, s, slots) ==
  /\ committed' = s
  /\ writer' = IF writer = p THEN Null ELSE writer
  /\ ctx' = [ctx EXCEPT ![p] = [Idle(ctx[p].max_dbs, slots) EXCEPT !.named = ctx[p].named]]

\* The transaction of p ends, s is published, and slots is its handle table.
Ends(p, s, slots) ==
  /\ committed' = s
  /\ writer' = IF writer = p THEN Null ELSE writer
  /\ ctx' = [ctx EXCEPT ![p] = Idle(ctx[p].max_dbs, slots)]

\* mdbx_txn_abort_(), or a commit libmdbx could not complete.
Rollback(p) == Active(p) /\ Ends(p, committed, SlotsWithout(ctx[p], {"new"}))

Abort(p) == Rollback(p)

\* Mutant: a failed transaction is published too.
CommitFailed(p) ==
  /\ ctx[p].mode \in {"write", "failed"}
  /\ Ends(p, ctx[p].view, SlotsWithout(ctx[p], {"slain"}))

\* mdbx_txn_commit_(); libmdbx rolls back a transaction it marked failed.
Commit(p) ==
  \/ /\ ctx[p].mode = "write"
     /\ Ends(p, ctx[p].view, SlotsWithout(ctx[p], {"slain"}))
  \/ /\ ctx[p].mode = "read"
     /\ Ends(p, committed, ctx[p].slots)
  \/ ctx[p].mode \in {"write", "failed"} /\ Rollback(p)

\* libmdbx panics in a call of p: the transaction and its environment are
\* poisoned, and what p holds stays held (Handles.tla).
Panic(p) ==
  /\ Active(p)
  /\ ctx' = [ctx EXCEPT ![p].mode = "stuck"]
  /\ UNCHANGED <<committed, writer>>

\* The process ends and may come back; or the environment becomes garbage,
\* which aborts what is live unless it is stuck.
Die(p) == \E max \in MaxDbs :
  /\ ctx[p] # Reopened(max)
  /\ ctx' = [ctx EXCEPT ![p] = Reopened(max)]
  /\ writer' = IF writer = p THEN Null ELSE writer
  /\ UNCHANGED committed

Step(p) ==
  \/ Begin(p, "read") \/ Begin(p, "write")
  \/ Get(p) \/ Put(p) \/ Del(p) \/ DbiOpen(p) \/ DbiDrop(p)
  \/ WriteFails(p) \/ CreateFails(p)
  \/ Commit(p) \/ Abort(p) \/ Panic(p) \/ Die(p)

Next == \E p \in Procs : Step(p)

Spec == Init /\ [][Next]_vars

-----------------------------------------------------------------------------
(* Properties.                                                             *)

TypeOK ==
  /\ committed \in Stores
  /\ writer \in Procs \cup {Null}
  /\ ctx \in [Procs -> Context]

\* What an operation on d may answer when d does not exist in the view: a
\* record of the main database that is not a tree is told apart by libmdbx,
\* except of a database deleted in this transaction.
AbsentAnswers(c, d) ==
  {"missing"} \cup
    IF d # Main /\ Present(c.view, Main, d) THEN {"incompatible"} ELSE {}

\* "named databases are limited by max_dbs": the answer when the handle table
\* is full of other names.
FullAnswers(c, d) ==
  IF d # Main /\ SlotsOf(c, Null) \cup SlotsOf(c, d) = {} THEN {"full"} ELSE {}

\* An operation on d gave answer and context a: it did what the name says.
\* `right' is the answer for an existing d, and s the view it leaves.
ByName(c, d, a, right, s) ==
  \/ Exists(c.view, d) /\ a.res = right /\ a.c.view = s
  \/ ~Exists(c.view, d) /\ a.res \in AbsentAnswers(c, d) /\ a.c.view = c.view
  \/ a.res \in FullAnswers(c, d) /\ a.c.view = c.view

\* A creation succeeds unless the name is taken by an ordinary record or the
\* handle table is full of other names.
CreatedByName(c, n, a) ==
  \/ /\ a.res = "ok"
     /\ a.c.view = IF Exists(c.view, n) THEN c.view ELSE Created(c.view, n)
  \/ /\ a.res = "incompatible" /\ a.c.view = c.view
     /\ ~Exists(c.view, n) /\ Present(c.view, Main, n)
  \/ a.res \in FullAnswers(c, n) /\ a.c.view = c.view

\* Each operation of a transaction with context c acts on the database it names,
\* and reports an absent one as absent.
ActsAsNamed(c) ==
  /\ \A d \in DBs, k \in Bytes :
       /\ ByName(c, d, get(c, d, k), GetAnswer(c.view, d, k), c.view)
       /\ c.mode = "write" =>
            /\ ByName(c, d, del(c, d, k), DelAnswer(c.view, d, k),
                      DelStore(c.view, d, k))
            /\ \A v \in Vals, overwrite \in BOOLEAN :
                 ByName(c, d, put(c, d, k, v, overwrite),
                        PutAnswer(c.view, d, k, overwrite),
                        PutStore(c.view, d, k, v, overwrite))
  /\ \A n \in Bytes :
       /\ ByName(c, n, dbi_open(c, n, FALSE), "ok", c.view)
       /\ c.mode = "write" => CreatedByName(c, n, dbi_open(c, n, TRUE))
  /\ c.mode = "write" => \A d \in DBs, delete \in BOOLEAN :
       ~DropRefused(c.view, d, delete) =>
          ByName(c, d, dbi_drop(c, d, delete), "ok", Dropped(c.view, d, delete))

\* Whatever a transaction has opened, created, dropped and recreated so far,
\* and whatever earlier ones left in the handle table, each operation acts on
\* the database it names, and reports an absent one as absent (ensure_dbi(),
\* txn_handle::named).
AnswersByName ==
  \A p \in Procs : ctx[p].mode \in {"read", "write"} => ActsAsNamed(ctx[p])

\* A name in the cache leads to its own, existing database: "the cache cannot
\* outlive its own validity" (txn_handle::named).
CacheHome ==
  \A p \in Procs, n \in Bytes : LET c == ctx[p] IN
    c.named[n] # 0 => /\ c.slots[c.named[n]] = n
                      /\ c.st[c.named[n]] \in Usable
                      /\ Exists(c.view, n)

\* "Named databases are independent key spaces": a put to one leaves the
\* others alone, whatever other processes did before.
NamesIndependent ==
  \A p \in Procs, d \in DBs, k \in Bytes, v \in Vals :
    ctx[p].mode = "write" => \A e \in DBs \ {d} :
      put(ctx[p], d, k, v, TRUE).c.view[e] = ctx[p].view[e]

\* The package's transactions and databases are those of AtomicStore.
Atomic == INSTANCE AtomicStore
            WITH mode <- [p \in Procs |-> ctx[p].mode],
                 view <- [p \in Procs |-> ctx[p].view]
Implements == Atomic!Spec

-----------------------------------------------------------------------------
(* The inductive invariants behind these. SharedInv holds for any number   *)
(* of processes that delete named databases; IInv for processes that do    *)
(* not, or for one that is alone.                                          *)

\* A name has one slot, among those the environment was opened for, and what
\* is known of a free slot is nothing.
TableInv(c) ==
  /\ \A i, j \in Slots : c.slots[i] = c.slots[j] /\ c.slots[i] # Null => i = j
  /\ \A i \in Slots : c.slots[i] # Null => i <= c.max_dbs
  /\ \A i \in Slots : c.slots[i] = Null => c.st[i] = "unused"

\* Between transactions there is only the table; within one, a slot libmdbx
\* takes for usable leads to a database of the view.
LiveInv(c) ==
  /\ c.mode = "none" => c = Idle(c.max_dbs, c.slots)
  /\ c.mode # "none" =>
       \A i \in Slots : c.st[i] \in Usable => c.slots[i] \in Named(c.view)

\* The lock is held by the process that writes, or by one that is stuck.
WriterInv ==
  \A p \in Procs :
    /\ ctx[p].mode \in {"write", "failed"} => writer = p
    /\ writer = p => ctx[p].mode \in {"write", "failed", "stuck"}

\* However many processes delete: the least that snapshots, the single writer
\* and whole commits rest on.
SharedInv == /\ TypeOK
             /\ WriterInv
             /\ \A p \in Procs : TableInv(ctx[p]) /\ LiveInv(ctx[p])

\* A context agrees with itself: the cache leads to the slot of the name, and
\* what is known of a slot in a transaction is so in its view.
SlotsInv(c) ==
  /\ TableInv(c)
  /\ \A n \in Bytes : c.named[n] # 0 => /\ c.slots[c.named[n]] = n
                                        /\ c.st[c.named[n]] \in Usable

ViewInv(c) ==
  /\ c.mode = "none" => c = Idle(c.max_dbs, c.slots)
  /\ c.mode # "none" =>
       \A i \in Slots : c.slots[i] # Null =>
         /\ c.st[i] # "gone"
         /\ c.st[i] = "slain" <=> c.slots[i] \notin Named(c.view)

\* And with the published contents s: what the transaction has not created is
\* there, with or without a slot; it is not deleted unless Deletes.
PublishedInv(c, s) ==
  c.mode # "stuck" =>
    /\ \A i \in Slots :
         c.slots[i] # Null => IF c.st[i] = "new" THEN c.mode # "read"
                                                 ELSE c.slots[i] \in Named(s)
    /\ \A n \in Named(c.view) :
         n \in Named(s) \/ \E i \in Slots : c.slots[i] = n /\ c.st[i] = "new"
    /\ c.mode = "write" => Deletes \/ Named(s) \subseteq Named(c.view)

IInv == /\ TypeOK
        /\ WriterInv
        /\ \A p \in Procs : /\ SlotsInv(ctx[p]) /\ ViewInv(ctx[p])
                            /\ PublishedInv(ctx[p], committed)
=============================================================================
