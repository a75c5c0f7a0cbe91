----------------------------- MODULE StoreProofs -----------------------------
(***************************************************************************)
(* Theorems about Store: its two inductive invariants, what an operation   *)
(* does to the database it names, and the refinement of AtomicStore.       *)
(***************************************************************************)
EXTENDS Store, Extremes, FiniteSetTheorems, TLAPS

-----------------------------------------------------------------------------
(* Contents.                                                               *)

LEMMA Constants ==
  /\ Null \notin Bytes /\ Null \notin Vals /\ Tree \notin Bytes /\ Tree \notin Vals
  /\ Tree # Null /\ Main \notin Bytes /\ Main # Null
BY DatabasesAssumption

\* Contents by their parts.
LEMMA StoreIs ==
  \A s : s \in Stores <=>
    /\ s \in [DBs -> [Bytes -> Vals \cup {Null, Tree}]]
    /\ \A n \in Bytes : /\ s[n] \in [Bytes -> Vals \cup {Null}]
                        /\ s[Main][n] # Tree => s[n] = Empty
BY DEF Stores

LEMMA EmptyIs ==
  Empty \in [Bytes -> Vals \cup {Null}] /\ Empty \in [Bytes -> Vals \cup {Null, Tree}]
BY DEF Empty

LEMMA EmptyStoreIs == EmptyStore \in Stores /\ Named(EmptyStore) = {}
<1>1. \A n \in Bytes : EmptyStore[n] = Empty /\ EmptyStore[Main][n] # Tree
  BY Constants DEF EmptyStore, Empty, DBs
<1>2. EmptyStore \in [DBs -> [Bytes -> Vals \cup {Null, Tree}]]
  BY EmptyIs DEF EmptyStore
<1>3. EmptyStore \in Stores
  BY <1>1, <1>2, EmptyIs, StoreIs
<1> QED BY <1>1, <1>3 DEF Named

\* One record of an existing database is replaced.
LEMMA RecordKeeps ==
  ASSUME NEW s \in Stores, NEW d \in DBs, NEW k \in Bytes, Exists(s, d),
         s[d][k] # Tree, NEW v \in Vals \cup {Null}
  PROVE  /\ [s EXCEPT ![d][k] = v] \in Stores
         /\ Named([s EXCEPT ![d][k] = v]) = Named(s)
<1> DEFINE t == [s EXCEPT ![d][k] = v]
<1>1. t \in [DBs -> [Bytes -> Vals \cup {Null, Tree}]]
  BY StoreIs DEF DBs
<1>2. \A n \in Bytes : t[Main][n] = Tree <=> s[Main][n] = Tree
  BY StoreIs, Constants DEF DBs
<1>3. \A n \in Bytes : t[n] \in [Bytes -> Vals \cup {Null}]
  BY StoreIs, Constants DEF DBs
<1>4. \A n \in Bytes : t[Main][n] # Tree => t[n] = Empty
  BY <1>2, StoreIs, Constants DEF DBs, Exists
<1>5. t \in Stores
  BY <1>1, <1>3, <1>4, StoreIs
<1> QED BY <1>2, <1>5 DEF Named

LEMMA PutKeeps ==
  ASSUME NEW s \in Stores, NEW d \in DBs, NEW k \in Bytes, NEW v \in Vals,
         NEW overwrite \in BOOLEAN, Exists(s, d)
  PROVE  PutStore(s, d, k, v, overwrite) \in Stores
         /\ Named(PutStore(s, d, k, v, overwrite)) = Named(s)
<1>1. CASE Puts(s, d, k, overwrite)
  <2>1. s[d][k] # Tree
    BY <1>1, Constants DEF Puts, Present
  <2> QED BY <1>1, <2>1, RecordKeeps DEF PutStore
<1> QED BY <1>1 DEF PutStore

LEMMA DelKeeps ==
  ASSUME NEW s \in Stores, NEW d \in DBs, NEW k \in Bytes, Exists(s, d)
  PROVE  DelStore(s, d, k) \in Stores /\ Named(DelStore(s, d, k)) = Named(s)
BY RecordKeeps DEF DelStore

\* A database is created where the main one has no record.
LEMMA CreatedAdds ==
  ASSUME NEW s \in Stores, NEW n \in Bytes
  PROVE  Created(s, n) \in Stores /\ Named(Created(s, n)) = Named(s) \cup {n}
<1> DEFINE t == Created(s, n)
<1>1. t \in [DBs -> [Bytes -> Vals \cup {Null, Tree}]]
  BY StoreIs, Constants DEF DBs, Created, Empty
<1>2. \A m \in Bytes : t[Main][m] = IF m = n THEN Tree ELSE s[Main][m]
  BY StoreIs, Constants DEF DBs, Created
<1>3. \A m \in Bytes : t[m] = IF m = n THEN Empty ELSE s[m]
  BY StoreIs, Constants DEF DBs, Created
<1>4. t \in Stores
  BY <1>1, <1>2, <1>3, StoreIs DEF Empty
<1> QED BY <1>2, <1>4 DEF Named

\* A database is emptied, or deleted.
LEMMA DroppedKeeps ==
  ASSUME NEW s \in Stores, NEW d \in DBs, NEW delete \in BOOLEAN, Exists(s, d),
         ~DropRefused(s, d, delete)
  PROVE  /\ Dropped(s, d, delete) \in Stores
         /\ Named(Dropped(s, d, delete)) = IF delete THEN Named(s) \ {d} ELSE Named(s)
<1>1. CASE d = Main
  BY <1>1, EmptyStoreIs DEF DropRefused, Dropped, Purged
<1>2. CASE d # Main
  <2> DEFINE t == [s EXCEPT ![d] = Empty]
             u == [t EXCEPT ![Main][d] = Null]
  <2>0. d \in Bytes /\ d \in DBs /\ Main \in DBs /\ s[Main][d] = Tree
    BY <1>2 DEF DBs, Exists
  <2>1. t \in [DBs -> [Bytes -> Vals \cup {Null, Tree}]] /\ t[Main] = s[Main]
    BY <2>0, <1>2, StoreIs, EmptyIs
  <2>2. \A m \in Bytes : t[m] = IF m = d THEN Empty ELSE s[m]
    BY <2>0, StoreIs DEF DBs
  <2>3. t \in Stores /\ Named(t) = Named(s)
    <3> HIDE DEF t
    <3>1. t \in Stores
      BY <2>1, <2>2, StoreIs, EmptyIs
    <3> QED BY <2>1, <3>1 DEF Named
  <2>4. u \in [DBs -> [Bytes -> Vals \cup {Null, Tree}]]
        /\ \A m \in DBs : m # Main => u[m] = t[m]
    <3> HIDE DEF t
    <3> QED BY <2>0, <2>1
  <2>5. \A m \in Bytes : u[Main][m] = IF m = d THEN Null ELSE s[Main][m]
    <3> HIDE DEF t
    <3> QED BY <2>0, <2>1
  <2>6. \A m \in Bytes : u[m] = IF m = d THEN Empty ELSE s[m]
    BY <2>2, <2>4, Constants DEF DBs
  <2>7. u \in Stores /\ Named(u) = Named(s) \ {d}
    <3> HIDE DEF u
    <3>1. u \in Stores
      BY <2>4, <2>5, <2>6, StoreIs, EmptyIs
    <3> QED BY <2>5, <3>1, Constants DEF Named
  <2> QED BY <1>2, <2>3, <2>7 DEF Dropped, Purged
<1> QED BY <1>1, <1>2

-----------------------------------------------------------------------------
(* Contexts and their slots.                                               *)

\* A context with a transaction that IInv allows, where s is published.
Good(c, s) ==
  /\ c \in Context /\ c.mode # "none"
  /\ SlotsInv(c) /\ ViewInv(c) /\ PublishedInv(c, s)

\* c differs from b in its slots and its cache at most.
SameView(b, c) == b.mode = c.mode /\ b.view = c.view /\ b.max_dbs = c.max_dbs

LEMMA ContextIs ==
  ASSUME NEW c \in Context
  PROVE  /\ c.view \in Stores /\ c.max_dbs \in MaxDbs /\ c.max_dbs \in Nat
         /\ c.mode \in {"none", "read", "write", "failed", "stuck"}
         /\ c.slots \in [Slots -> Bytes \cup {Null}]
         /\ c.st \in [Slots -> SlotState]
         /\ c.named \in [Bytes -> Slots \cup {0}]
BY StoreAssumption DEF Context

LEMMA SlotsAre ==
  /\ Slots \subseteq Nat \ {0}
  /\ \A m \in MaxDbs : 1 .. m \subseteq Slots
BY StoreAssumption DEF Slots

\* The lowest slot of a name, and the lowest free one.
LEMMA SlotOf ==
  ASSUME NEW c \in Context, NEW n, SlotsOf(c, n) # {}
  PROVE  LET i == Least(SlotsOf(c, n))
         IN  i \in Slots /\ i <= c.max_dbs /\ c.slots[i] = n
<1>1. SlotsOf(c, n) \subseteq 1 .. c.max_dbs
  BY DEF SlotsOf
<1>2. IsFiniteSet(1 .. c.max_dbs)
  BY FS_Interval, ContextIs
<1>3. IsFiniteSet(SlotsOf(c, n))
  BY <1>1, <1>2, FS_Subset, Zenon
<1>4. SlotsOf(c, n) \subseteq Int
  BY <1>1, ContextIs
<1>5. \E i \in SlotsOf(c, n) : \A j \in SlotsOf(c, n) : i <= j
  BY <1>3, <1>4, HasLeast
<1>6. Least(SlotsOf(c, n)) \in SlotsOf(c, n)
  BY <1>5 DEF Least
<1> QED BY <1>6, ContextIs, SlotsAre DEF SlotsOf

\* A name without a slot has none in the whole table.
LEMMA NoSlot ==
  ASSUME NEW c \in Context, SlotsInv(c), NEW n \in Bytes, SlotsOf(c, n) = {}
  PROVE  \A i \in Slots : c.slots[i] # n
BY ContextIs, SlotsAre, Constants DEF SlotsInv, TableInv, SlotsOf

LEMMA BoundIs ==
  ASSUME NEW c \in Context, NEW i \in Slots, NEW n \in Bytes \cup {Null},
         NEW s \in SlotState
  PROVE  LET b == Bound(c, i, n, s)
         IN  /\ b \in Context /\ SameView(b, c) /\ b.named = c.named
             /\ \A j \in Slots : /\ b.slots[j] = IF j = i THEN n ELSE c.slots[j]
                                 /\ b.st[j] = IF j = i THEN s ELSE c.st[j]
<1> DEFINE slots == [c.slots EXCEPT ![i] = n]
           st == [c.st EXCEPT ![i] = s]
           b == [c EXCEPT !.slots = slots, !.st = st]
<1>1. /\ slots \in [Slots -> Bytes \cup {Null}] /\ st \in [Slots -> SlotState]
      /\ \A j \in Slots : /\ slots[j] = IF j = i THEN n ELSE c.slots[j]
                          /\ st[j] = IF j = i THEN s ELSE c.st[j]
  BY ContextIs
<1>2. b = Bound(c, i, n, s)
  BY DEF Bound, Context
<1>3. /\ b \in Context /\ b.slots = slots /\ b.st = st
      /\ b.mode = c.mode /\ b.view = c.view /\ b.max_dbs = c.max_dbs
      /\ b.named = c.named
  <2> HIDE DEF slots, st
  <2> QED BY <1>1 DEF Context
<1> HIDE DEF slots, st, b
<1> QED BY <1>1, <1>2, <1>3 DEF SameView

LEMMA CreatedInIs ==
  ASSUME NEW c \in Context, NEW i \in Slots, NEW n \in Bytes, NEW s \in SlotState
  PROVE  LET b == CreatedIn(c, i, n, s)
         IN  /\ b \in Context /\ b.view = Created(c.view, n)
             /\ b.mode = c.mode /\ b.max_dbs = c.max_dbs /\ b.named = c.named
             /\ \A j \in Slots : /\ b.slots[j] = IF j = i THEN n ELSE c.slots[j]
                                 /\ b.st[j] = IF j = i THEN s ELSE c.st[j]
<1> DEFINE a == Bound(c, i, n, s)
           b == [a EXCEPT !.view = Created(c.view, n)]
<1>1. /\ a \in Context /\ SameView(a, c) /\ a.named = c.named
      /\ \A j \in Slots : /\ a.slots[j] = IF j = i THEN n ELSE c.slots[j]
                          /\ a.st[j] = IF j = i THEN s ELSE c.st[j]
  BY BoundIs
<1>2. Created(c.view, n) \in Stores
  BY CreatedAdds, ContextIs
<1>3. /\ b \in Context /\ b.view = Created(c.view, n)
      /\ b.mode = a.mode /\ b.max_dbs = a.max_dbs /\ b.named = a.named
      /\ b.slots = a.slots /\ b.st = a.st
  <2> HIDE DEF a
  <2> QED BY <1>1, <1>2 DEF Context
<1>4. b = CreatedIn(c, i, n, s)
  BY DEF CreatedIn
<1> HIDE DEF a, b
<1> QED BY <1>1, <1>3, <1>4 DEF SameView

-----------------------------------------------------------------------------
(* What the steps of an operation do to a context.                         *)

\* What Good says of a slot.
LEMMA GoodSlot ==
  ASSUME NEW c, NEW s, Good(c, s), NEW i \in Slots, c.slots[i] # Null
  PROVE  /\ c.slots[i] \in Bytes /\ i <= c.max_dbs
         /\ \A j \in Slots : c.slots[j] = c.slots[i] => j = i
         /\ c.st[i] \in Usable \cup {"unused", "slain"}
         /\ c.st[i] # "slain" => c.slots[i] \in Named(c.view)
         /\ c.st[i] = "slain" => c.slots[i] \notin Named(c.view)
<1> USE DEF Good
<1>1. c.st[i] \in SlotState /\ c.slots[i] \in Bytes \cup {Null}
  BY ContextIs
<1> QED BY <1>1 DEF SlotsInv, TableInv, ViewInv, SlotState, Usable

\* A slot is bound to a database that exists: it was the name's, or free and
\* the name had none.
LEMMA Rebinding ==
  ASSUME NEW c, NEW s, Good(c, s), NEW i \in Slots, i <= c.max_dbs,
         NEW n \in Named(c.view), NEW t \in {"open", "fresh"},
         \/ c.slots[i] = n /\ c.st[i] = "unused"
         \/ c.slots[i] = Null /\ \A j \in Slots : c.slots[j] # n
  PROVE  /\ Good(Bound(c, i, n, t), s) /\ SameView(Bound(c, i, n, t), c)
         /\ Bound(c, i, n, t).slots[i] = n /\ Bound(c, i, n, t).st[i] \in Usable
         /\ Bound(c, i, n, t).named = c.named
<1> DEFINE b == Bound(c, i, n, t)
<1>0. c \in Context /\ n \in Bytes /\ t \in SlotState /\ t \in Usable /\ t # "new"
      /\ t # "slain" /\ t # "gone" /\ t # "unused"
  BY DEF Good, Named, SlotState, Usable
<1>1. /\ b \in Context /\ SameView(b, c) /\ b.named = c.named
      /\ \A j \in Slots : /\ b.slots[j] = IF j = i THEN n ELSE c.slots[j]
                          /\ b.st[j] = IF j = i THEN t ELSE c.st[j]
  BY <1>0, BoundIs
<1> HIDE DEF b
<1>2. \A j \in Slots : c.slots[j] = n => j = i
  BY <1>0, Constants DEF Good, SlotsInv, TableInv
<1>3. SlotsInv(b)
  <2>1. \A j, k \in Slots : b.slots[j] = b.slots[k] /\ b.slots[j] # Null => j = k
    BY <1>1, <1>2 DEF Good, SlotsInv, TableInv
  <2>2. \A j \in Slots : /\ b.slots[j] # Null => j <= b.max_dbs
                         /\ b.slots[j] = Null => b.st[j] = "unused"
    BY <1>0, <1>1, Constants DEF Good, SlotsInv, TableInv, SameView
  <2>3. ASSUME NEW m \in Bytes, b.named[m] # 0
        PROVE  b.slots[b.named[m]] = m /\ b.st[b.named[m]] \in Usable
    <3>1. c.named[m] \in Slots /\ c.slots[c.named[m]] = m /\ c.st[c.named[m]] \in Usable
      BY <1>0, <1>1, <2>3, ContextIs DEF Good, SlotsInv, TableInv
    <3>2. c.named[m] = i => m = n
      BY <3>1, Constants
    <3> QED BY <1>0, <1>1, <3>1, <3>2
  <2> QED BY <2>1, <2>2, <2>3 DEF SlotsInv, TableInv
<1>4. ViewInv(b)
  BY <1>0, <1>1 DEF Good, ViewInv, SameView
<1>5. c.mode # "stuck" => n \in Named(s)
  <2>1. CASE c.slots[i] = n /\ c.st[i] = "unused"
    BY <1>0, <2>1, Constants DEF Good, PublishedInv
  <2>2. CASE c.slots[i] = Null /\ \A j \in Slots : c.slots[j] # n
    BY <2>2 DEF Good, PublishedInv
  <2> QED BY <2>1, <2>2
<1>6. PublishedInv(b, s)
  <2>1. c.st[i] = "unused"
    BY DEF Good, SlotsInv, TableInv
  <2>2. ASSUME b.mode # "stuck", NEW j \in Slots, b.slots[j] # Null
        PROVE  IF b.st[j] = "new" THEN b.mode # "read" ELSE b.slots[j] \in Named(s)
    BY <1>0, <1>1, <1>5, <2>2 DEF Good, PublishedInv, SameView
  <2>3. ASSUME b.mode # "stuck", NEW m \in Named(b.view)
        PROVE  m \in Named(s) \/ \E j \in Slots : b.slots[j] = m /\ b.st[j] = "new"
    BY <1>1, <2>1, <2>3 DEF Good, PublishedInv, SameView
  <2>4. b.mode = "write" => Deletes \/ Named(s) \subseteq Named(b.view)
    BY <1>1 DEF Good, PublishedInv, SameView
  <2> QED BY <2>2, <2>3, <2>4 DEF PublishedInv
<1>7. Good(b, s) /\ SameView(b, c) /\ b.slots[i] = n /\ b.st[i] \in Usable /\ b.named = c.named
  BY <1>0, <1>1, <1>3, <1>4, <1>6 DEF Good, SameView
<1> QED BY <1>7 DEF b

LEMMA ClosedIs ==
  ASSUME NEW c \in Context, NEW i \in Slots
  PROVE  LET b == Closed(c, i)
         IN  /\ b \in Context /\ SameView(b, c) /\ b.named = c.named
             /\ \A j \in Slots : /\ b.slots[j] = IF j = i THEN Null ELSE c.slots[j]
                                 /\ b.st[j] = IF j = i THEN "unused" ELSE c.st[j]
<1>1. Closed(c, i) = Bound(c, i, Null, "unused")
  BY DEF Closed, Bound
<1>2. "unused" \in SlotState
  BY DEF SlotState
<1> HIDE DEF Closed
<1> QED BY <1>1, <1>2, BoundIs

\* A slot whose database was deleted is closed.
LEMMA Closing ==
  ASSUME NEW c, NEW s, Good(c, s), NEW i \in Slots, c.st[i] = "slain"
  PROVE  Good(Closed(c, i), s) /\ SameView(Closed(c, i), c)
<1> DEFINE b == Closed(c, i)
<1>0. c \in Context /\ c.slots[i] # Null
  BY DEF Good, SlotsInv, TableInv
<1>1. /\ b \in Context /\ SameView(b, c) /\ b.named = c.named
      /\ \A j \in Slots : /\ b.slots[j] = IF j = i THEN Null ELSE c.slots[j]
                          /\ b.st[j] = IF j = i THEN "unused" ELSE c.st[j]
  BY <1>0, ClosedIs
<1> HIDE DEF b
<1>2. SlotsInv(b)
  <2>1. ASSUME NEW m \in Bytes, b.named[m] # 0
        PROVE  b.slots[b.named[m]] = m /\ b.st[b.named[m]] \in Usable
    <3>1. c.named[m] \in Slots /\ c.slots[c.named[m]] = m /\ c.st[c.named[m]] \in Usable
      BY <1>0, <1>1, <2>1, ContextIs DEF Good, SlotsInv, TableInv
    <3>2. c.named[m] # i
      BY <3>1 DEF Usable
    <3> QED BY <1>1, <3>1, <3>2
  <2> QED BY <1>1, <2>1 DEF Good, SlotsInv, TableInv, SameView
<1>3. ViewInv(b)
  BY <1>1 DEF Good, ViewInv, SameView
<1>4. PublishedInv(b, s)
  <2>1. ASSUME b.mode # "stuck", NEW m \in Named(b.view)
        PROVE  m \in Named(s) \/ \E j \in Slots : b.slots[j] = m /\ b.st[j] = "new"
    BY <1>1, <2>1 DEF Good, PublishedInv, SameView
  <2> QED BY <1>1, <2>1 DEF Good, PublishedInv, SameView
<1>5. Good(b, s) /\ SameView(b, c)
  BY <1>1, <1>2, <1>3, <1>4 DEF Good, SameView
<1> QED BY <1>5 DEF b

\* A database is created, in the slot of its deleted namesake or in a free one.
LEMMA CreatingIn ==
  ASSUME NEW c, NEW s, Good(c, s), c.mode = "write", NEW i \in Slots, i <= c.max_dbs,
         NEW n \in Bytes, n \notin Named(c.view), NEW t \in {"open", "new"},
         \/ c.slots[i] = n /\ c.st[i] = "slain" /\ t = "open"
         \/ c.slots[i] = Null /\ (\A j \in Slots : c.slots[j] # n) /\ t = "new"
  PROVE  LET b == CreatedIn(c, i, n, t)
         IN  /\ Good(b, s) /\ b.view = Created(c.view, n) /\ b.mode = c.mode
             /\ b.max_dbs = c.max_dbs /\ b.named = c.named
             /\ b.slots[i] = n /\ b.st[i] \in Usable
<1> DEFINE b == CreatedIn(c, i, n, t)
<1>0. c \in Context /\ t \in SlotState /\ t \in Usable
      /\ t # "slain" /\ t # "gone" /\ t # "unused"
  BY DEF Good, SlotState, Usable
<1>1. /\ b \in Context /\ b.view = Created(c.view, n)
      /\ b.mode = c.mode /\ b.max_dbs = c.max_dbs /\ b.named = c.named
      /\ \A j \in Slots : /\ b.slots[j] = IF j = i THEN n ELSE c.slots[j]
                          /\ b.st[j] = IF j = i THEN t ELSE c.st[j]
  BY <1>0, CreatedInIs
<1>v. Named(b.view) = Named(c.view) \cup {n}
  BY <1>0, <1>1, CreatedAdds, ContextIs
<1> HIDE DEF b
<1>2. \A j \in Slots : c.slots[j] = n => j = i
  BY DEF Good, SlotsInv, TableInv
<1>3. SlotsInv(b)
  <2>1. \A j, k \in Slots : b.slots[j] = b.slots[k] /\ b.slots[j] # Null => j = k
    BY <1>1, <1>2 DEF Good, SlotsInv, TableInv
  <2>2. \A j \in Slots : /\ b.slots[j] # Null => j <= b.max_dbs
                         /\ b.slots[j] = Null => b.st[j] = "unused"
    BY <1>0, <1>1, Constants DEF Good, SlotsInv, TableInv
  <2>3. ASSUME NEW m \in Bytes, b.named[m] # 0
        PROVE  b.slots[b.named[m]] = m /\ b.st[b.named[m]] \in Usable
    <3>1. c.named[m] \in Slots /\ c.slots[c.named[m]] = m /\ c.st[c.named[m]] \in Usable
      BY <1>0, <1>1, <2>3, ContextIs DEF Good, SlotsInv, TableInv
    <3>2. c.named[m] = i => m = n
      BY <3>1, Constants
    <3> QED BY <1>0, <1>1, <3>1, <3>2
  <2> QED BY <2>1, <2>2, <2>3 DEF SlotsInv, TableInv
<1>4. ViewInv(b)
  BY <1>0, <1>1, <1>v, <1>2 DEF Good, ViewInv
<1>5. PublishedInv(b, s)
  <2>1. c.st[i] # "new"
    BY DEF Good, SlotsInv, TableInv
  <2>2. t = "open" => n \in Named(s)
    BY <2>1, Constants DEF Good, PublishedInv
  <2>3. ASSUME NEW j \in Slots, b.slots[j] # Null
        PROVE  IF b.st[j] = "new" THEN b.mode # "read" ELSE b.slots[j] \in Named(s)
    BY <1>1, <2>2, <2>3 DEF Good, PublishedInv
  <2>4. ASSUME NEW m \in Named(b.view)
        PROVE  m \in Named(s) \/ \E j \in Slots : b.slots[j] = m /\ b.st[j] = "new"
    <3>1. CASE m = n
      BY <1>1, <2>2, <3>1
    <3>2. CASE m \in Named(c.view)
      BY <1>1, <2>1, <3>2 DEF Good, PublishedInv
    <3> QED BY <1>v, <3>1, <3>2
  <2>5. Deletes \/ Named(s) \subseteq Named(b.view)
    BY <1>v DEF Good, PublishedInv
  <2> QED BY <2>3, <2>4, <2>5 DEF PublishedInv
<1>6. Good(b, s) /\ b.slots[i] = n /\ b.st[i] \in Usable
  BY <1>0, <1>1, <1>3, <1>4, <1>5 DEF Good
<1> QED BY <1>1, <1>6 DEF b

-----------------------------------------------------------------------------
(* Names.                                                                  *)

\* o opens n, or not, and leaves a good context.
Opens(o, c, s, n) ==
  /\ Good(o.c, s) /\ o.c.mode = c.mode /\ o.c.max_dbs = c.max_dbs
  /\ o.c.named = c.named
  /\ o.rc = "ok" => /\ o.dbi \in Slots /\ o.c.slots[o.dbi] = n
                    /\ o.c.st[o.dbi] \in Usable

\* What may be said of a name that is not found.
NotFound(rc, c, d) ==
  \/ rc \in FullAnswers(c, d)
  \/ ~Exists(c.view, d) /\ rc \in AbsentAnswers(c, d)

\* a is what a look-up of n should come to, and a creation.
Finds(a, c, s, n) ==
  /\ Opens(a, c, s, n) /\ a.c.view = c.view
  /\ a.rc = "ok" => n \in Named(c.view)
  /\ a.rc # "ok" => NotFound(a.rc, c, n)

Creates(a, c, s, n) ==
  /\ Opens(a, c, s, n)
  /\ a.rc = "ok" => a.c.view = IF Exists(c.view, n) THEN c.view ELSE Created(c.view, n)
  /\ a.rc # "ok" => /\ a.c.view = c.view
                    /\ \/ a.rc \in FullAnswers(c, n)
                       \/ /\ a.rc = "incompatible"
                          /\ ~Exists(c.view, n) /\ Present(c.view, Main, n)
  /\ a.c.view # c.view =>
       /\ ~Present(c.view, Main, n)
       /\ SlotsOf(c, n) # {} => c.st[Least(SlotsOf(c, n))] = "slain"

LEMMA NamedIs ==
  ASSUME NEW s, NEW n \in Bytes
  PROVE  /\ n \in Named(s) <=> s[Main][n] = Tree
         /\ n \in Named(s) <=> Exists(s, n)
         /\ ~Present(s, Main, n) => n \notin Named(s)
BY Constants DEF Named, Exists, Present

LEMMA AnswersAre ==
  ASSUME NEW c, NEW n \in Bytes
  PROVE  /\ "missing" \in AbsentAnswers(c, n)
         /\ Present(c.view, Main, n) => "incompatible" \in AbsentAnswers(c, n)
         /\ SlotsOf(c, Null) = {} /\ SlotsOf(c, n) = {} => "full" \in FullAnswers(c, n)
BY Constants DEF AbsentAnswers, FullAnswers

\* A name is looked up.
LEMMA Looking ==
  ASSUME NEW c, NEW s, Good(c, s), NEW n \in Bytes
  PROVE  Finds(NativeOpen(c, n, FALSE), c, s, n)
<1> DEFINE o == NativeOpen(c, n, FALSE)
<1>0. c \in Context /\ SlotsInv(c)
  BY DEF Good
<1>a. ASSUME NEW b, Good(b, s), SameView(b, c), b.named = c.named, n \in Named(c.view),
             NEW i \in Slots, b.slots[i] = n, b.st[i] \in Usable
      PROVE  Finds(Opened(b, "ok", i), c, s, n)
  BY <1>a DEF Finds, Opened, Opens, SameView
<1>r. ASSUME NEW i \in Slots, i <= c.max_dbs, n \in Named(c.view), NEW t \in {"open", "fresh"},
             \/ c.slots[i] = n /\ c.st[i] = "unused"
             \/ c.slots[i] = Null /\ \A j \in Slots : c.slots[j] # n
      PROVE  Finds(Opened(Bound(c, i, n, t), "ok", i), c, s, n)
  <2> DEFINE b == Bound(c, i, n, t)
  <2>1. Good(b, s) /\ SameView(b, c) /\ b.slots[i] = n /\ b.st[i] \in Usable
        /\ b.named = c.named
    BY <1>r, Rebinding
  <2> HIDE DEF b
  <2>2. Finds(Opened(b, "ok", i), c, s, n)
    BY <1>a, <1>r, <2>1
  <2> QED BY <2>2 DEF b
<1>b. ASSUME NEW rc, rc # "ok", NotFound(rc, c, n)
      PROVE  Finds(Opened(c, rc, 0), c, s, n)
  BY <1>b DEF Finds, Opened, Opens
<1>1. CASE SlotsOf(c, n) = {}
  <2>0. o = OpenSlot(c, n, FALSE)
    BY <1>1 DEF NativeOpen
  <2>1. CASE SlotsOf(c, Null) = {}
    BY <1>1, <1>b, <2>0, <2>1, AnswersAre DEF OpenSlot, NotFound
  <2> DEFINE i == Least(SlotsOf(c, Null))
  <2>2. CASE SlotsOf(c, Null) # {} /\ c.view[Main][n] = Tree
    <3>1. i \in Slots /\ i <= c.max_dbs /\ c.slots[i] = Null
      BY <1>0, <2>2, SlotOf
    <3>2. \A j \in Slots : c.slots[j] # n
      BY <1>0, <1>1, NoSlot
    <3>3. n \in Named(c.view)
      BY <2>2, NamedIs
    <3>4. o = Opened(Bound(c, i, n, "fresh"), "ok", i)
      BY <2>0, <2>2 DEF OpenSlot
    <3> HIDE DEF i
    <3> QED BY <1>r, <3>1, <3>2, <3>3, <3>4
  <2>3. CASE SlotsOf(c, Null) # {} /\ c.view[Main][n] # Tree
    <3>1. o = Opened(c, IF Present(c.view, Main, n) THEN "incompatible" ELSE "missing", 0)
      BY <2>0, <2>3 DEF OpenSlot
    <3> QED BY <1>b, <2>3, <3>1, AnswersAre, NamedIs DEF NotFound
  <2> QED BY <2>1, <2>2, <2>3
<1>2. CASE SlotsOf(c, n) # {}
  <2> DEFINE i == Least(SlotsOf(c, n))
  <2>0. o = ReopenSlot(c, i, n, FALSE)
    BY <1>2 DEF NativeOpen
  <2>1. i \in Slots /\ i <= c.max_dbs /\ c.slots[i] = n
    BY <1>0, <1>2, SlotOf
  <2> HIDE DEF i
  <2>2. /\ c.st[i] \in Usable \cup {"unused", "slain"}
        /\ c.st[i] # "slain" => n \in Named(c.view)
        /\ c.st[i] = "slain" => n \notin Named(c.view)
    BY <2>1, GoodSlot, Constants
  <2>3. CASE c.st[i] \in Usable
    <3>1. o = Opened(c, "ok", i)
      BY <2>0, <2>3 DEF ReopenSlot
    <3>2. n \in Named(c.view)
      BY <2>2, <2>3 DEF Usable
    <3> QED BY <1>a, <2>1, <2>3, <3>1, <3>2 DEF SameView
  <2>4. CASE c.st[i] = "slain"
    <3>1. o = Opened(c, "missing", 0)
      BY <2>0, <2>4 DEF ReopenSlot, Usable
    <3> QED BY <1>b, <2>2, <2>4, <3>1, AnswersAre, NamedIs DEF NotFound
  <2>5. CASE c.st[i] = "unused"
    <3>1. o = Opened(Bound(c, i, n, "open"), "ok", i)
      BY <2>0, <2>2, <2>5, NamedIs DEF ReopenSlot, Usable
    <3>2. n \in Named(c.view)
      BY <2>2, <2>5
    <3> QED BY <1>r, <2>1, <2>5, <3>1, <3>2
  <2> QED BY <2>2, <2>3, <2>4, <2>5
<1> QED BY <1>1, <1>2

\* A name is created, or found.
LEMMA Creating ==
  ASSUME NEW c, NEW s, Good(c, s), c.mode = "write", NEW n \in Bytes
  PROVE  Creates(NativeOpen(c, n, TRUE), c, s, n)
<1> DEFINE o == NativeOpen(c, n, TRUE)
<1>0. c \in Context /\ SlotsInv(c)
  BY DEF Good
<1>a. ASSUME NEW b, Good(b, s), SameView(b, c), b.named = c.named, n \in Named(c.view),
             NEW i \in Slots, b.slots[i] = n, b.st[i] \in Usable
      PROVE  Creates(Opened(b, "ok", i), c, s, n)
  BY <1>a, NamedIs DEF Creates, Opened, Opens, SameView
<1>r. ASSUME NEW i \in Slots, i <= c.max_dbs, n \in Named(c.view), NEW t \in {"open", "fresh"},
             \/ c.slots[i] = n /\ c.st[i] = "unused"
             \/ c.slots[i] = Null /\ \A j \in Slots : c.slots[j] # n
      PROVE  Creates(Opened(Bound(c, i, n, t), "ok", i), c, s, n)
  <2> DEFINE b == Bound(c, i, n, t)
  <2>1. Good(b, s) /\ SameView(b, c) /\ b.slots[i] = n /\ b.st[i] \in Usable
        /\ b.named = c.named
    BY <1>r, Rebinding
  <2> HIDE DEF b
  <2>2. Creates(Opened(b, "ok", i), c, s, n)
    BY <1>a, <1>r, <2>1
  <2> QED BY <2>2 DEF b
<1>b. ASSUME NEW b, Good(b, s), SameView(b, c), b.named = c.named, NEW rc, rc # "ok",
             \/ rc \in FullAnswers(c, n)
             \/ rc = "incompatible" /\ ~Exists(c.view, n) /\ Present(c.view, Main, n)
      PROVE  Creates(Opened(b, rc, 0), c, s, n)
  BY <1>b DEF Creates, Opened, Opens, SameView
<1>c. ASSUME NEW i \in Slots, i <= c.max_dbs, ~Present(c.view, Main, n),
             NEW t \in {"open", "new"},
             \/ /\ c.slots[i] = n /\ c.st[i] = "slain" /\ t = "open"
                /\ i = Least(SlotsOf(c, n))
             \/ c.slots[i] = Null /\ SlotsOf(c, n) = {} /\ t = "new"
      PROVE  Creates(Opened(CreatedIn(c, i, n, t), "ok", i), c, s, n)
  <2>1. n \notin Named(c.view) /\ ~Exists(c.view, n)
    BY <1>c, NamedIs
  <2>2. SlotsOf(c, n) = {} => \A j \in Slots : c.slots[j] # n
    BY <1>0, NoSlot
  <2> DEFINE b == CreatedIn(c, i, n, t)
  <2>3. /\ Good(b, s) /\ b.view = Created(c.view, n) /\ b.mode = c.mode
        /\ b.max_dbs = c.max_dbs /\ b.named = c.named
        /\ b.slots[i] = n /\ b.st[i] \in Usable
    BY <1>c, <2>1, <2>2, CreatingIn
  <2> HIDE DEF b
  <2>4. Creates(Opened(b, "ok", i), c, s, n)
    BY <1>c, <2>1, <2>3 DEF Creates, Opened, Opens
  <2> QED BY <2>4 DEF b
<1>1. CASE SlotsOf(c, n) = {}
  <2>0. o = OpenSlot(c, n, TRUE)
    BY <1>1 DEF NativeOpen
  <2>1. CASE SlotsOf(c, Null) = {}
    BY <1>1, <1>b, <2>0, <2>1, AnswersAre DEF OpenSlot, SameView
  <2> DEFINE i == Least(SlotsOf(c, Null))
  <2>2. CASE SlotsOf(c, Null) # {}
    <3>1. i \in Slots /\ i <= c.max_dbs /\ c.slots[i] = Null
      BY <1>0, <2>2, SlotOf
    <3>2. \A j \in Slots : c.slots[j] # n
      BY <1>0, <1>1, NoSlot
    <3>3. CASE c.view[Main][n] = Tree
      <4>1. o = Opened(Bound(c, i, n, "fresh"), "ok", i)
        BY <2>0, <2>2, <3>3 DEF OpenSlot
      <4>2. n \in Named(c.view)
        BY <3>3, NamedIs
      <4> HIDE DEF i
      <4> QED BY <1>r, <3>1, <3>2, <4>1, <4>2
    <3>4. CASE c.view[Main][n] # Tree /\ Present(c.view, Main, n)
      <4>1. o = Opened(c, "incompatible", 0)
        BY <2>0, <2>2, <3>4 DEF OpenSlot
      <4> QED BY <1>b, <3>4, <4>1, NamedIs DEF SameView
    <3>5. CASE ~Present(c.view, Main, n)
      <4>1. o = Opened(CreatedIn(c, i, n, "new"), "ok", i)
        BY <2>0, <2>2, <3>5, NamedIs DEF OpenSlot
      <4> HIDE DEF i
      <4> QED BY <1>1, <1>c, <3>1, <3>5, <4>1
    <3> QED BY <3>3, <3>4, <3>5
  <2> QED BY <2>1, <2>2
<1>2. CASE SlotsOf(c, n) # {}
  <2> DEFINE i == Least(SlotsOf(c, n))
  <2>0. o = ReopenSlot(c, i, n, TRUE)
    BY <1>2 DEF NativeOpen
  <2>1. i \in Slots /\ i <= c.max_dbs /\ c.slots[i] = n /\ i = Least(SlotsOf(c, n))
    BY <1>0, <1>2, SlotOf
  <2> HIDE DEF i
  <2>2. /\ c.st[i] \in Usable \cup {"unused", "slain"}
        /\ c.st[i] # "slain" => n \in Named(c.view)
        /\ c.st[i] = "slain" => n \notin Named(c.view)
    BY <2>1, GoodSlot, Constants
  <2>3. CASE c.st[i] \in Usable
    <3>1. o = Opened(c, "ok", i)
      BY <2>0, <2>3 DEF ReopenSlot
    <3>2. n \in Named(c.view)
      BY <2>2, <2>3 DEF Usable
    <3> QED BY <1>a, <2>1, <2>3, <3>1, <3>2 DEF SameView
  <2>4. CASE c.st[i] = "slain" /\ ~Present(c.view, Main, n)
    <3>1. o = Opened(CreatedIn(c, i, n, "open"), "ok", i)
      BY <2>0, <2>2, <2>4, NamedIs DEF ReopenSlot, Usable
    <3> QED BY <1>c, <2>1, <2>4, <3>1
  <2>5. CASE c.st[i] = "slain" /\ Present(c.view, Main, n)
    <3>1. o = Opened(Closed(c, i), "incompatible", 0)
      BY <2>0, <2>2, <2>5, NamedIs DEF ReopenSlot, Usable
    <3>2. ~Exists(c.view, n)
      BY <2>2, <2>5, NamedIs
    <3>3. Good(Closed(c, i), s) /\ SameView(Closed(c, i), c) /\ Closed(c, i).named = c.named
      BY <1>0, <2>1, <2>5, Closing, ClosedIs
    <3> QED BY <1>b, <2>5, <3>1, <3>2, <3>3
  <2>6. CASE c.st[i] = "unused"
    <3>1. o = Opened(Bound(c, i, n, "open"), "ok", i)
      BY <2>0, <2>2, <2>6, NamedIs DEF ReopenSlot, Usable
    <3>2. n \in Named(c.view)
      BY <2>2, <2>6
    <3> QED BY <1>r, <2>1, <2>6, <3>1, <3>2
  <2> QED BY <2>2, <2>3, <2>4, <2>5, <2>6
<1> QED BY <1>1, <1>2

-----------------------------------------------------------------------------
(* The cache: ensure_dbi().                                                *)

LEMMA Caching ==
  ASSUME NEW c, NEW s, Good(c, s), NEW n \in Bytes, NEW i \in Slots,
         c.slots[i] = n, c.st[i] \in Usable
  PROVE  LET b == [c EXCEPT !.named[n] = i]
         IN  /\ Good(b, s) /\ SameView(b, c) /\ b.named[n] = i
             /\ b.slots = c.slots /\ b.st = c.st
<1> DEFINE named == [c.named EXCEPT ![n] = i]
           b == [c EXCEPT !.named = named]
<1>0. c \in Context
  BY DEF Good
<1>1. /\ named \in [Bytes -> Slots \cup {0}]
      /\ \A m \in Bytes : named[m] = IF m = n THEN i ELSE c.named[m]
  BY <1>0, ContextIs
<1>2. b = [c EXCEPT !.named[n] = i]
  BY <1>0 DEF Context
<1>3. /\ b \in Context /\ SameView(b, c) /\ b.named = named
      /\ b.slots = c.slots /\ b.st = c.st
  <2> HIDE DEF named
  <2> QED BY <1>0, <1>1 DEF Context, SameView
<1> HIDE DEF named, b
<1>4. SlotsInv(b)
  BY <1>1, <1>3 DEF Good, SlotsInv, TableInv, SameView
<1>5. ViewInv(b) /\ PublishedInv(b, s) /\ b.mode # "none"
  BY <1>3 DEF Good, ViewInv, PublishedInv, SameView
<1>6. Good(b, s)
  BY <1>3, <1>4, <1>5 DEF Good
<1> QED BY <1>1, <1>2, <1>3, <1>6

LEMMA OpenedIs ==
  ASSUME NEW c, NEW n, NEW create
  PROVE  LET o == NativeOpen(c, n, create) IN o = Opened(o.c, o.rc, o.dbi)
<1>1. \A b, rc, i : LET o == Opened(b, rc, i) IN o = Opened(o.c, o.rc, o.dbi)
  BY DEF Opened
<1>2. \E b, rc, i : NativeOpen(c, n, create) = Opened(b, rc, i)
  BY DEF NativeOpen, OpenSlot, ReopenSlot
<1> QED BY <1>1, <1>2

LEMMA Remembering ==
  ASSUME NEW c, NEW s, NEW n \in Bytes, NEW o, o = Opened(o.c, o.rc, o.dbi),
         Opens(o, c, s, n)
  PROVE  LET q == Cached(o, n)
         IN  /\ Good(q.c, s) /\ q.c.view = o.c.view
             /\ q.c.mode = c.mode /\ q.c.max_dbs = c.max_dbs
             /\ q.rc = o.rc /\ q.dbi = o.dbi
             /\ q.rc = "ok" => /\ q.c.named[n] = q.dbi /\ q.dbi \in Slots
                               /\ q.c.slots[q.dbi] = n /\ q.c.st[q.dbi] \in Usable
<1>1. CASE o.rc = "ok"
  <2> DEFINE b == [o.c EXCEPT !.named[n] = o.dbi]
  <2>1. /\ Good(b, s) /\ SameView(b, o.c) /\ b.named[n] = o.dbi
        /\ b.slots = o.c.slots /\ b.st = o.c.st
    BY <1>1, Caching DEF Opens
  <2>2. Cached(o, n) = Opened(b, o.rc, o.dbi)
    BY <1>1 DEF Cached, Opened
  <2> HIDE DEF b
  <2> QED BY <1>1, <2>1, <2>2 DEF Opened, Opens, SameView
<1>2. CASE o.rc # "ok"
  BY <1>2 DEF Cached, Opens
<1> QED BY <1>1, <1>2

\* r is what resolving d in c should come to.
Resolves(r, c, s, d) ==
  /\ Good(r.c, s) /\ SameView(r.c, c)
  /\ r.rc = "ok" => /\ r.db = d /\ Exists(c.view, d)
                    /\ d # Main => r.c.named[d] # 0
  /\ r.rc # "ok" => NotFound(r.rc, c, d)

LEMMA Using ==
  ASSUME NEW c, NEW s, Good(c, s), NEW n \in Bytes, c.named[n] # 0
  PROVE  NativeUse(c, c.named[n]) = Reached(c, "ok", n) /\ Exists(c.view, n)
<1> DEFINE i == c.named[n]
<1>1. i \in Slots /\ i # 0 /\ c.slots[i] = n /\ c.st[i] \in Usable
  BY ContextIs, SlotsAre DEF Good, SlotsInv, TableInv
<1> HIDE DEF i
<1>2. c.slots[i] # Null /\ c.st[i] \notin {"slain", "gone"}
  BY <1>1, Constants DEF Usable
<1>3. NativeUse(c, i) = Reached(c, "ok", n)
  BY <1>1, <1>2 DEF NativeUse
<1>4. n \in Named(c.view)
  BY <1>1, <1>2, GoodSlot
<1> QED BY <1>3, <1>4, NamedIs DEF i

LEMMA Resolving ==
  ASSUME NEW c, NEW s, Good(c, s), NEW d \in DBs
  PROVE  Resolves(Resolved(c, d), c, s, d)
<1>1. CASE d = Main
  <2>1. Resolved(c, d) = Reached(c, "ok", Main)
    BY <1>1 DEF Resolved, ensure_dbi, NativeUse, Opened
  <2> QED BY <1>1, <2>1 DEF Resolves, Reached, Exists, SameView
<1>2. CASE d # Main /\ c.named[d] # 0
  <2>1. ensure_dbi(c, d) = Opened(c, "ok", c.named[d])
    BY <1>2 DEF ensure_dbi
  <2>2. Resolved(c, d) = NativeUse(c, c.named[d])
    BY <2>1 DEF Resolved, Opened
  <2>3. d \in Bytes
    BY <1>2 DEF DBs
  <2>4. Resolved(c, d) = Reached(c, "ok", d) /\ Exists(c.view, d)
    BY <1>2, <2>2, <2>3, Using
  <2> QED BY <1>2, <2>4 DEF Resolves, Reached, SameView
<1>3. CASE d # Main /\ c.named[d] = 0
  <2> DEFINE o == NativeOpen(c, d, FALSE)
             q == Cached(o, d)
  <2>1. d \in Bytes
    BY <1>3 DEF DBs
  <2>2. Finds(o, c, s, d) /\ o = Opened(o.c, o.rc, o.dbi)
    BY <2>1, Looking, OpenedIs
  <2>3. /\ Good(q.c, s) /\ SameView(q.c, c) /\ q.rc = o.rc
        /\ q.rc = "ok" => q.c.named[d] = q.dbi /\ q.dbi \in Slots
    <3> HIDE DEF o
    <3> QED BY <2>1, <2>2, Remembering DEF Finds, SameView
  <2>4. ensure_dbi(c, d) = q
    BY <1>3 DEF ensure_dbi
  <2>5. Resolved(c, d) = IF q.rc = "ok" THEN NativeUse(q.c, q.dbi) ELSE Reached(q.c, q.rc, Null)
    BY <2>4 DEF Resolved
  <2> HIDE DEF o, q
  <2>6. CASE q.rc = "ok"
    <3>1. q.c.named[d] # 0
      BY <2>3, <2>6, SlotsAre
    <3>2. Resolved(c, d) = Reached(q.c, "ok", d) /\ Exists(q.c.view, d)
      BY <2>1, <2>3, <2>5, <2>6, <3>1, Using
    <3> QED BY <2>3, <3>1, <3>2 DEF Resolves, Reached, SameView
  <2>7. CASE q.rc # "ok"
    <3>1. Resolved(c, d) = Reached(q.c, q.rc, Null)
      BY <2>5, <2>7
    <3>2. NotFound(q.rc, c, d)
      BY <2>2, <2>3, <2>7 DEF Finds
    <3> QED BY <2>3, <2>7, <3>1, <3>2 DEF Resolves, Reached
  <2> QED BY <2>6, <2>7
<1> QED BY <1>1, <1>2, <1>3

-----------------------------------------------------------------------------
(* The entry points.                                                       *)

\* The view is changed without a database coming or going.
LEMMA Viewing ==
  ASSUME NEW c, NEW s, Good(c, s), NEW t \in Stores, Named(t) = Named(c.view)
  PROVE  LET b == InView(c, t)
         IN  /\ Good(b, s) /\ b.view = t /\ b.mode = c.mode /\ b.max_dbs = c.max_dbs
             /\ b.slots = c.slots /\ b.st = c.st /\ b.named = c.named
<1> DEFINE b == InView(c, t)
<1>1. /\ b \in Context /\ b.view = t /\ b.mode = c.mode /\ b.max_dbs = c.max_dbs
      /\ b.slots = c.slots /\ b.st = c.st /\ b.named = c.named
  BY DEF Good, InView, Context
<1> HIDE DEF b
<1>2. SlotsInv(b) /\ ViewInv(b) /\ PublishedInv(b, s) /\ b.mode # "none"
  BY <1>1 DEF Good, SlotsInv, TableInv, ViewInv, PublishedInv
<1> QED BY <1>1, <1>2 DEF Good, b

\* An operation leaves a good context, and only a writer's view changes.
Acts(a, c, s) ==
  /\ Good(a.c, s) /\ a.c.mode = c.mode
  /\ c.mode # "write" => a.c.view = c.view

LEMMA Refusing ==
  ASSUME NEW c, NEW s, Good(c, s), NEW res
  PROVE  Acts(Answer(c, res), c, s) /\ Answer(c, res).c.view = c.view
BY DEF Acts, Answer

\* An operation on a database that is not found.
LEMMA Missing ==
  ASSUME NEW c, NEW s, NEW d \in DBs, NEW r, Resolves(r, c, s, d), r.rc # "ok",
         NEW right, NEW t
  PROVE  Acts(Answer(r.c, r.rc), c, s) /\ ByName(c, d, Answer(r.c, r.rc), right, t)
BY DEF Resolves, NotFound, Acts, Answer, ByName, SameView

LEMMA Getting ==
  ASSUME NEW c, NEW s, Good(c, s), NEW d \in DBs, NEW k \in Bytes
  PROVE  LET a == get(c, d, k)
         IN  /\ Acts(a, c, s) /\ a.c.view = c.view
             /\ c.mode # "failed" => ByName(c, d, a, GetAnswer(c.view, d, k), c.view)
<1> DEFINE r == Resolved(c, d)
<1>0. Resolves(r, c, s, d)
  BY Resolving
<1> HIDE DEF r
<1>1. CASE c.mode = "failed"
  BY <1>1, Refusing DEF get, r
<1>2. CASE c.mode # "failed" /\ r.rc # "ok"
  <2>1. get(c, d, k) = Answer(r.c, r.rc)
    BY <1>2 DEF get, r
  <2>2. Answer(r.c, r.rc).c.view = c.view
    BY <1>0 DEF Resolves, SameView, Answer
  <2> QED BY <1>0, <1>2, <2>1, <2>2, Missing
<1>3. CASE c.mode # "failed" /\ r.rc = "ok"
  <2>1. get(c, d, k) = Answer(r.c, GetAnswer(r.c.view, r.db, k))
    BY <1>3 DEF get, r
  <2> QED BY <1>0, <1>3, <2>1 DEF Resolves, SameView, Acts, Answer, ByName
<1> QED BY <1>1, <1>2, <1>3

\* What put and del have in common: t is the view they leave, res the answer.
LEMMA Writing ==
  ASSUME NEW c, NEW s, Good(c, s), c.mode = "write", NEW d \in DBs,
         NEW r, Resolves(r, c, s, d), r.rc = "ok",
         NEW t, Exists(c.view, d) => t \in Stores /\ Named(t) = Named(c.view),
         NEW res
  PROVE  /\ Acts(Answer(InView(r.c, t), res), c, s)
         /\ ByName(c, d, Answer(InView(r.c, t), res), res, t)
<1>1. Good(r.c, s) /\ Exists(c.view, d) /\ r.c.view = c.view /\ r.c.mode = c.mode
  BY DEF Resolves, SameView
<1> DEFINE b == InView(r.c, t)
<1>2. Good(b, s) /\ b.view = t /\ b.mode = c.mode
  BY <1>1, Viewing
<1> HIDE DEF b
<1>3. Acts(Answer(b, res), c, s) /\ ByName(c, d, Answer(b, res), res, t)
  BY <1>1, <1>2 DEF Acts, Answer, ByName
<1> QED BY <1>3 DEF b

LEMMA Putting ==
  ASSUME NEW c, NEW s, Good(c, s), NEW d \in DBs, NEW k \in Bytes, NEW v \in Vals,
         NEW overwrite \in BOOLEAN, c.mode \in {"read", "write", "failed"}
  PROVE  LET a == put(c, d, k, v, overwrite)
         IN  /\ Acts(a, c, s)
             /\ c.mode = "write" => ByName(c, d, a, PutAnswer(c.view, d, k, overwrite),
                                           PutStore(c.view, d, k, v, overwrite))
<1> DEFINE r == Resolved(c, d)
<1>0. Resolves(r, c, s, d)
  BY Resolving
<1> HIDE DEF r
<1>1. CASE c.mode # "write"
  BY <1>1, Refusing DEF put, Writable
<1>2. CASE c.mode = "write" /\ r.rc # "ok"
  <2>1. put(c, d, k, v, overwrite) = Answer(r.c, r.rc)
    BY <1>2 DEF put, r, Writable
  <2> QED BY <1>0, <1>2, <2>1, Missing
<1>3. CASE c.mode = "write" /\ r.rc = "ok"
  <2>1. r.c.view = c.view /\ r.db = d
    BY <1>0, <1>3 DEF Resolves, SameView
  <2>2. put(c, d, k, v, overwrite) =
          Answer(InView(r.c, PutStore(c.view, d, k, v, overwrite)),
                 PutAnswer(c.view, d, k, overwrite))
    BY <1>3, <2>1 DEF put, r, Writable
  <2>3. c.view \in Stores
    BY ContextIs DEF Good
  <2>4. Exists(c.view, d) =>
          /\ PutStore(c.view, d, k, v, overwrite) \in Stores
          /\ Named(PutStore(c.view, d, k, v, overwrite)) = Named(c.view)
    BY <2>3, PutKeeps
  <2> QED BY <1>0, <1>3, <2>2, <2>4, Writing
<1> QED BY <1>1, <1>2, <1>3

LEMMA Deleting ==
  ASSUME NEW c, NEW s, Good(c, s), NEW d \in DBs, NEW k \in Bytes,
         c.mode \in {"read", "write", "failed"}
  PROVE  LET a == del(c, d, k)
         IN  /\ Acts(a, c, s)
             /\ c.mode = "write" => ByName(c, d, a, DelAnswer(c.view, d, k),
                                           DelStore(c.view, d, k))
<1> DEFINE r == Resolved(c, d)
<1>0. Resolves(r, c, s, d)
  BY Resolving
<1> HIDE DEF r
<1>1. CASE c.mode # "write"
  BY <1>1, Refusing DEF del, Writable
<1>2. CASE c.mode = "write" /\ r.rc # "ok"
  <2>1. del(c, d, k) = Answer(r.c, r.rc)
    BY <1>2 DEF del, r, Writable
  <2> QED BY <1>0, <1>2, <2>1, Missing
<1>3. CASE c.mode = "write" /\ r.rc = "ok"
  <2>1. r.c.view = c.view /\ r.db = d
    BY <1>0, <1>3 DEF Resolves, SameView
  <2>2. del(c, d, k) =
          Answer(InView(r.c, DelStore(c.view, d, k)), DelAnswer(c.view, d, k))
    BY <1>3, <2>1 DEF del, r, Writable
  <2>3. c.view \in Stores
    BY ContextIs DEF Good
  <2>4. Exists(c.view, d) =>
          DelStore(c.view, d, k) \in Stores /\ Named(DelStore(c.view, d, k)) = Named(c.view)
    BY <2>3, DelKeeps
  <2> QED BY <1>0, <1>3, <2>2, <2>4, Writing
<1> QED BY <1>1, <1>2, <1>3

\* mdbx_dbi_open_() without create, and with.
LEMMA Finding ==
  ASSUME NEW c, NEW s, Good(c, s), NEW n \in Bytes
  PROVE  LET a == dbi_open(c, n, FALSE)
         IN  /\ Acts(a, c, s) /\ a.c.view = c.view
             /\ c.mode # "failed" => ByName(c, n, a, "ok", c.view)
<1> DEFINE o == NativeOpen(c, n, FALSE)
           q == Cached(o, n)
<1>1. Finds(o, c, s, n) /\ o = Opened(o.c, o.rc, o.dbi)
  BY Looking, OpenedIs
<1>2. Good(q.c, s) /\ q.c.view = c.view /\ q.c.mode = c.mode /\ q.rc = o.rc
  <2> HIDE DEF o
  <2> QED BY <1>1, Remembering DEF Finds
<1> HIDE DEF o, q
<1>3. CASE c.mode = "failed"
  BY <1>3, Refusing DEF dbi_open
<1>4. CASE c.mode # "failed"
  <2>1. dbi_open(c, n, FALSE) = Answer(q.c, q.rc)
    BY <1>4 DEF dbi_open, q, o
  <2>2. q.rc = "ok" => Exists(c.view, n)
    BY <1>1, <1>2, NamedIs DEF Finds
  <2>3. q.rc # "ok" => NotFound(q.rc, c, n)
    BY <1>1, <1>2 DEF Finds
  <2> DEFINE a == Answer(q.c, q.rc)
  <2>4. a.c = q.c /\ a.res = q.rc
    BY DEF Answer
  <2> HIDE DEF a
  <2>5. Acts(a, c, s) /\ a.c.view = c.view
    BY <1>2, <2>4 DEF Acts
  <2>6. ByName(c, n, a, "ok", c.view)
    BY <1>2, <2>2, <2>3, <2>4 DEF ByName, NotFound
  <2> QED BY <2>1, <2>5, <2>6 DEF a
<1> QED BY <1>3, <1>4

LEMMA Adding ==
  ASSUME NEW c, NEW s, Good(c, s), NEW n \in Bytes, c.mode \in {"read", "write", "failed"}
  PROVE  LET a == dbi_open(c, n, TRUE)
         IN  /\ Acts(a, c, s)
             /\ c.mode = "write" => CreatedByName(c, n, a)
             /\ a.c.view # c.view => /\ ~Present(c.view, Main, n)
                                     /\ a.c.view = Created(c.view, n)
<1> DEFINE o == NativeOpen(c, n, TRUE)
           q == Cached(o, n)
<1>1. CASE c.mode # "write"
  BY <1>1, Refusing DEF dbi_open, Writable
<1>2. CASE c.mode = "write"
  <2>1. Creates(o, c, s, n) /\ o = Opened(o.c, o.rc, o.dbi)
    BY <1>2, Creating, OpenedIs
  <2>2. Good(q.c, s) /\ q.c.view = o.c.view /\ q.c.mode = c.mode /\ q.rc = o.rc
    <3> HIDE DEF o
    <3> QED BY <2>1, Remembering DEF Creates
  <2> HIDE DEF o, q
  <2>3. dbi_open(c, n, TRUE) = Answer(q.c, q.rc)
    BY <1>2 DEF dbi_open, q, o, Writable
  <2>4. q.c.view # c.view => ~Present(c.view, Main, n) /\ q.c.view = Created(c.view, n)
    BY <2>1, <2>2 DEF Creates
  <2> DEFINE a == Answer(q.c, q.rc)
  <2>5. a.c = q.c /\ a.res = q.rc
    BY DEF Answer
  <2> HIDE DEF a
  <2>6. CreatedByName(c, n, a)
    BY <2>1, <2>2, <2>5 DEF Creates, CreatedByName
  <2>7. Acts(a, c, s)
    BY <1>2, <2>2, <2>5 DEF Acts
  <2> QED BY <2>3, <2>4, <2>5, <2>6, <2>7 DEF a
<1> QED BY <1>1, <1>2

\* A resolved database is deleted: t is the view that is left.
LEMMA Slaying ==
  ASSUME NEW c, NEW s, Good(c, s), c.mode = "write", NEW d \in Bytes, c.named[d] # 0,
         NEW t \in Stores, Named(t) = Named(c.view) \ {d}
  PROVE  LET b == Forgotten(Slain(InView(c, t), Least(SlotsOf(c, d))), d)
         IN  /\ b.view = t /\ b.mode = c.mode
             /\ Deletes => Good(b, s)
<1> DEFINE i == Least(SlotsOf(c, d))
<1>0. c \in Context
  BY DEF Good
<1>1. i \in Slots /\ c.slots[i] = d /\ c.st[i] \in Usable
  <2>0. c.named[d] \in Slots /\ c.max_dbs \in Nat
    BY <1>0, ContextIs, Zenon
  <2>1. /\ c.named[d] \in Slots /\ c.slots[c.named[d]] = d /\ c.st[c.named[d]] \in Usable
        /\ c.named[d] <= c.max_dbs
    BY <2>0, Constants DEF Good, SlotsInv, TableInv
  <2>2. c.named[d] \in SlotsOf(c, d)
    <3>1. c.named[d] \in Nat \ {0}
      BY <2>0, SlotsAre
    <3>2. c.named[d] \in 1 .. c.max_dbs
      BY <2>0, <2>1, <3>1
    <3> QED BY <2>1, <3>2 DEF SlotsOf
  <2>3. i \in Slots /\ c.slots[i] = d
    BY <1>0, <2>2, SlotOf
  <2>4. i = c.named[d]
    BY <2>1, <2>3, Constants DEF Good, SlotsInv, TableInv
  <2> QED BY <2>1, <2>3, <2>4
<1> HIDE DEF i
<1> DEFINE v == InView(c, t)
           w == Slain(v, i)
           b == Forgotten(w, d)
<1>2. /\ v \in Context /\ v.view = t /\ v.mode = c.mode /\ v.max_dbs = c.max_dbs
      /\ v.slots = c.slots /\ v.st = c.st /\ v.named = c.named
  BY <1>0 DEF InView, Context
<1> HIDE DEF v
<1>3. /\ w \in Context /\ SameView(w, v) /\ w.named = v.named
      /\ \A j \in Slots : j # i => w.slots[j] = c.slots[j] /\ w.st[j] = c.st[j]
      /\ \/ w.slots[i] = Null /\ w.st[i] = "unused"
         \/ w.slots[i] = d /\ w.st[i] = "slain" /\ c.st[i] = "open"
  <2>1. CASE c.st[i] \in {"fresh", "new"}
    <3>1. w = Closed(v, i)
      BY <1>2, <2>1 DEF Slain
    <3> HIDE DEF w
    <3> QED BY <1>1, <1>2, <3>1, ClosedIs
  <2>2. CASE c.st[i] = "open"
    <3> DEFINE st == [v.st EXCEPT ![i] = "slain"]
               x == [v EXCEPT !.st = st]
    <3>1. w = x
      BY <1>2, <2>2 DEF Slain, Context
    <3>2. /\ st \in [Slots -> SlotState]
          /\ \A j \in Slots : st[j] = IF j = i THEN "slain" ELSE c.st[j]
      BY <1>1, <1>2, ContextIs DEF SlotState
    <3>3. x \in Context /\ SameView(x, v) /\ x.named = v.named /\ x.st = st /\ x.slots = v.slots
      <4> HIDE DEF st
      <4> QED BY <1>2, <3>2 DEF Context, SameView
    <3> HIDE DEF w, x, st
    <3> QED BY <1>1, <1>2, <2>2, <3>1, <3>2, <3>3
  <2> QED BY <1>1, <2>1, <2>2 DEF Usable
<1> HIDE DEF w
<1>4. /\ b \in Context /\ SameView(b, w) /\ b.slots = w.slots /\ b.st = w.st
      /\ \A m \in Bytes : b.named[m] = IF m = d THEN 0 ELSE w.named[m]
  <2> DEFINE named == [w.named EXCEPT ![d] = 0]
             x == [w EXCEPT !.named = named]
  <2>1. b = x
    BY <1>3 DEF Forgotten, Context
  <2>2. /\ named \in [Bytes -> Slots \cup {0}]
        /\ \A m \in Bytes : named[m] = IF m = d THEN 0 ELSE w.named[m]
    BY <1>3, ContextIs
  <2>3. x \in Context /\ SameView(x, w) /\ x.slots = w.slots /\ x.st = w.st /\ x.named = named
    <3> HIDE DEF named
    <3> QED BY <1>3, <2>2 DEF Context, SameView
  <2> HIDE DEF b, x, named
  <2> QED BY <2>1, <2>2, <2>3
<1> HIDE DEF b
<1>5. /\ b.view = t /\ b.mode = "write" /\ b.max_dbs = c.max_dbs
      /\ \A j \in Slots : j # i => b.slots[j] = c.slots[j] /\ b.st[j] = c.st[j]
      /\ \/ b.slots[i] = Null /\ b.st[i] = "unused"
         \/ b.slots[i] = d /\ b.st[i] = "slain" /\ c.st[i] = "open"
      /\ \A m \in Bytes : b.named[m] = IF m = d THEN 0 ELSE c.named[m]
  BY <1>2, <1>3, <1>4 DEF SameView
<1>6. \A j \in Slots : c.slots[j] = d => j = i
  BY <1>1, Constants DEF Good, SlotsInv, TableInv
<1>7. SlotsInv(b)
  <2>1. \A j, k \in Slots : b.slots[j] = b.slots[k] /\ b.slots[j] # Null => j = k
    BY <1>5, <1>6 DEF Good, SlotsInv, TableInv
  <2>2. \A j \in Slots : /\ b.slots[j] # Null => j <= b.max_dbs
                         /\ b.slots[j] = Null => b.st[j] = "unused"
    BY <1>1, <1>5, Constants DEF Good, SlotsInv, TableInv
  <2>3. ASSUME NEW m \in Bytes, b.named[m] # 0
        PROVE  b.slots[b.named[m]] = m /\ b.st[b.named[m]] \in Usable
    <3>1. /\ m # d /\ b.named[m] = c.named[m] /\ c.named[m] \in Slots
          /\ c.slots[c.named[m]] = m /\ c.st[c.named[m]] \in Usable
      BY <1>0, <1>5, <2>3, ContextIs DEF Good, SlotsInv, TableInv
    <3> QED BY <1>1, <1>5, <3>1
  <2> QED BY <2>1, <2>2, <2>3 DEF SlotsInv, TableInv
<1>8. ViewInv(b)
  <2>1. ASSUME NEW j \in Slots, b.slots[j] # Null
        PROVE  b.st[j] # "gone" /\ (b.st[j] = "slain" <=> b.slots[j] \notin Named(b.view))
    <3>1. CASE j = i
      BY <1>5, <2>1, <3>1
    <3>2. CASE j # i
      BY <1>5, <1>6, <2>1, <3>2 DEF Good, ViewInv
    <3> QED BY <3>1, <3>2
  <2> QED BY <1>5, <2>1 DEF ViewInv
<1>9. ASSUME Deletes PROVE PublishedInv(b, s)
  <2>1. ASSUME NEW j \in Slots, b.slots[j] # Null
        PROVE  IF b.st[j] = "new" THEN b.mode # "read" ELSE b.slots[j] \in Named(s)
    <3>1. CASE j = i
      BY <1>1, <1>5, <2>1, <3>1, Constants DEF Good, PublishedInv
    <3>2. CASE j # i
      BY <1>5, <2>1, <3>2 DEF Good, PublishedInv
    <3> QED BY <3>1, <3>2
  <2>2. ASSUME NEW m \in Named(b.view)
        PROVE  m \in Named(s) \/ \E j \in Slots : b.slots[j] = m /\ b.st[j] = "new"
    <3>1. m \in Named(c.view) /\ m # d
      BY <1>5, <2>2
    <3>2. m \in Named(s) \/ \E j \in Slots : c.slots[j] = m /\ c.st[j] = "new"
      BY <3>1 DEF Good, PublishedInv
    <3> QED BY <1>1, <1>5, <3>1, <3>2
  <2> QED BY <1>9, <2>1, <2>2 DEF PublishedInv
<1>10. /\ b.view = t /\ b.mode = c.mode
       /\ Deletes => Good(b, s)
  BY <1>4, <1>5, <1>7, <1>8, <1>9 DEF Good
<1> QED BY <1>10 DEF b, w, v, i

LEMMA Dropping ==
  ASSUME NEW c, NEW s, Good(c, s), NEW d \in DBs, NEW delete \in BOOLEAN,
         c.mode \in {"read", "write", "failed"}
  PROVE  LET a == dbi_drop(c, d, delete)
         IN  /\ (delete /\ d # Main => Deletes) => Acts(a, c, s)
             /\ DropRefused(c.view, d, delete) => a.c.view = c.view
             /\ c.mode = "write" /\ ~DropRefused(c.view, d, delete) =>
                  ByName(c, d, a, "ok", Dropped(c.view, d, delete))
<1> DEFINE r == Resolved(c, d)
           t == Dropped(c.view, d, delete)
<1>0. Resolves(r, c, s, d)
  BY Resolving
<1> HIDE DEF r
<1>1. CASE c.mode # "write" \/ DropRefused(c.view, d, delete)
  <2>1. \E res : dbi_drop(c, d, delete) = Answer(c, res)
    BY <1>1 DEF dbi_drop, Writable, DropRefused
  <2> QED BY <1>1, <2>1, Refusing
<1>2. CASE c.mode = "write" /\ ~DropRefused(c.view, d, delete) /\ r.rc # "ok"
  <2>1. dbi_drop(c, d, delete) = Answer(r.c, r.rc)
    BY <1>2 DEF dbi_drop, r, Writable
  <2> QED BY <1>0, <1>2, <2>1, Missing
<1>3. CASE c.mode = "write" /\ ~DropRefused(c.view, d, delete) /\ r.rc = "ok"
  <2>1. /\ r.c.view = c.view /\ r.db = d /\ Exists(c.view, d) /\ r.c.mode = "write"
        /\ Good(r.c, s)
        /\ d # Main => r.c.named[d] # 0
    BY <1>0, <1>3 DEF Resolves, SameView
  <2>2. /\ t \in Stores
        /\ Named(t) = IF delete THEN Named(c.view) \ {d} ELSE Named(c.view)
    <3>1. c.view \in Stores
      BY ContextIs DEF Good
    <3> QED BY <1>3, <2>1, <3>1, DroppedKeeps
  <2>3. CASE ~delete
    <3>1. dbi_drop(c, d, delete) = Answer(InView(r.c, t), "ok")
      BY <1>3, <2>1, <2>3 DEF dbi_drop, r, Writable
    <3> HIDE DEF t
    <3> QED BY <1>0, <1>3, <2>2, <2>3, <3>1, Writing DEF t
  <2>4. CASE delete
    <3> DEFINE b == Forgotten(Slain(InView(r.c, t), Least(SlotsOf(r.c, d))), d)
    <3>1. dbi_drop(c, d, delete) = Answer(b, "ok")
      BY <1>3, <2>1, <2>4 DEF dbi_drop, r, Writable
    <3>2. d \in Bytes /\ d # Main
      BY <1>3, <2>4 DEF DropRefused, DBs
    <3>3. b.view = t /\ b.mode = "write" /\ (Deletes => Good(b, s))
      <4>1. r.c.mode = "write" /\ r.c.named[d] # 0 /\ Good(r.c, s)
        BY <2>1, <3>2
      <4>2. t \in Stores /\ Named(t) = Named(r.c.view) \ {d}
        BY <2>1, <2>2, <2>4
      <4> HIDE DEF t
      <4> QED BY <3>2, <4>1, <4>2, Slaying
    <3> HIDE DEF b
    <3>4. Deletes => Acts(Answer(b, "ok"), c, s)
      BY <1>3, <3>3 DEF Acts, Answer
    <3>5. ByName(c, d, Answer(b, "ok"), "ok", t)
      BY <2>1, <3>3 DEF ByName, Answer
    <3> QED BY <1>3, <2>4, <3>1, <3>2, <3>4, <3>5
  <2> QED BY <2>3, <2>4
<1> QED BY <1>1, <1>2, <1>3

-----------------------------------------------------------------------------
(* A transaction's beginning, its marks, its end.                          *)

\* libmdbx marks the transaction failed, or panics.
LEMMA Marking ==
  ASSUME NEW c, NEW s, Good(c, s), NEW m \in {"failed", "stuck"},
         m = "failed" => c.mode = "write"
  PROVE  LET b == [c EXCEPT !.mode = m]
         IN  Good(b, s) /\ b.mode = m /\ b.view = c.view
<1> DEFINE b == [c EXCEPT !.mode = m]
<1>1. /\ b \in Context /\ b.mode = m /\ b.view = c.view /\ b.max_dbs = c.max_dbs
      /\ b.slots = c.slots /\ b.st = c.st /\ b.named = c.named
  BY DEF Good, Context
<1> HIDE DEF b
<1>2. SlotsInv(b) /\ ViewInv(b) /\ b.mode # "none"
  BY <1>1 DEF Good, SlotsInv, TableInv, ViewInv
<1>3. PublishedInv(b, s)
  BY <1>1 DEF Good, PublishedInv
<1> QED BY <1>1, <1>2, <1>3 DEF Good, b

\* What IInv says of the context of a process.
Fine(c, s) == c \in Context /\ SlotsInv(c) /\ ViewInv(c) /\ PublishedInv(c, s)

\* A process between transactions.
LEMMA IdleIs ==
  ASSUME NEW max \in MaxDbs, NEW slots \in [Slots -> Bytes \cup {Null}],
         \A i, j \in Slots : slots[i] = slots[j] /\ slots[i] # Null => i = j,
         \A i \in Slots : slots[i] # Null => i <= max
  PROVE  LET b == Idle(max, slots)
         IN  /\ b \in Context /\ TableInv(b) /\ LiveInv(b)
             /\ b.mode = "none" /\ b.view = EmptyStore
             /\ b.max_dbs = max /\ b.slots = slots
             /\ \A i \in Slots : b.st[i] = "unused"
             /\ \A n \in Bytes : b.named[n] = 0
<1> DEFINE b == Idle(max, slots)
<1>1. /\ b.mode = "none" /\ b.view = EmptyStore /\ b.max_dbs = max /\ b.slots = slots
      /\ b.st = Untouched /\ b.named = Unresolved
  BY DEF Idle
<1>2. /\ Untouched \in [Slots -> SlotState] /\ \A i \in Slots : Untouched[i] = "unused"
      /\ Unresolved \in [Bytes -> Slots \cup {0}] /\ \A n \in Bytes : Unresolved[n] = 0
  BY DEF Untouched, Unresolved, SlotState
<1>3. b \in Context
  <2>1. EmptyStore \in Stores
    BY EmptyStoreIs
  <2> HIDE DEF b
  <2>2. Idle(max, slots) \in Context
    BY <1>2, <2>1 DEF Idle, Context
  <2> QED BY <2>2 DEF b
<1>4. b = Idle(b.max_dbs, b.slots)
  BY <1>1
<1> HIDE DEF b
<1>5. TableInv(b)
  BY <1>1, <1>2 DEF TableInv
<1>6. LiveInv(b)
  BY <1>1, <1>4 DEF LiveInv
<1>7. /\ b \in Context /\ TableInv(b) /\ LiveInv(b)
      /\ b.mode = "none" /\ b.view = EmptyStore /\ b.max_dbs = max /\ b.slots = slots
      /\ \A i \in Slots : b.st[i] = "unused"
      /\ \A n \in Bytes : b.named[n] = 0
  BY <1>1, <1>2, <1>3, <1>5, <1>6
<1> QED BY <1>7 DEF b

\* Its slots lead to databases that exist.
LEMMA Resting ==
  ASSUME NEW max \in MaxDbs, NEW slots \in [Slots -> Bytes \cup {Null}], NEW s,
         \A i, j \in Slots : slots[i] = slots[j] /\ slots[i] # Null => i = j,
         \A i \in Slots : slots[i] # Null => i <= max /\ slots[i] \in Named(s)
  PROVE  LET b == Idle(max, slots)
         IN  Fine(b, s) /\ b.mode = "none" /\ b.view = EmptyStore
<1> DEFINE b == Idle(max, slots)
<1>1. /\ b \in Context /\ TableInv(b) /\ LiveInv(b)
      /\ b.mode = "none" /\ b.view = EmptyStore /\ b.slots = slots
      /\ \A i \in Slots : b.st[i] = "unused"
      /\ \A n \in Bytes : b.named[n] = 0
  BY IdleIs
<1> HIDE DEF b
<1>2. SlotsInv(b) /\ ViewInv(b)
  BY <1>1 DEF SlotsInv, ViewInv, LiveInv
<1>3. PublishedInv(b, s)
  BY <1>1, EmptyStoreIs DEF PublishedInv
<1> QED BY <1>1, <1>2, <1>3 DEF Fine, b

LEMMA Reopening ==
  ASSUME NEW max \in MaxDbs, NEW s
  PROVE  /\ Fine(Reopened(max), s) /\ Reopened(max).mode = "none"
         /\ Reopened(max).view = EmptyStore
<1>1. NoSlots \in [Slots -> Bytes \cup {Null}] /\ \A i \in Slots : NoSlots[i] = Null
  BY DEF NoSlots
<1> QED BY <1>1, Resting DEF Reopened

\* The end of a transaction: slots is what remains of its handle table.
LEMMA Ending ==
  ASSUME NEW c \in Context, SlotsInv(c), NEW s,
         NEW slots \in [Slots -> Bytes \cup {Null}],
         \A i \in Slots : slots[i] # Null => /\ slots[i] = c.slots[i]
                                             /\ slots[i] \in Named(s)
  PROVE  LET b == Idle(c.max_dbs, slots)
         IN  Fine(b, s) /\ b.mode = "none" /\ b.view = EmptyStore
<1>1. c.max_dbs \in MaxDbs
  BY ContextIs
<1>2. \A i, j \in Slots : slots[i] = slots[j] /\ slots[i] # Null => i = j
  BY DEF SlotsInv, TableInv
<1>3. \A i \in Slots : slots[i] # Null => i <= c.max_dbs /\ slots[i] \in Named(s)
  BY DEF SlotsInv, TableInv
<1> QED BY <1>1, <1>2, <1>3, Resting

\* What a rollback leaves of the handle table, and a commit.
LEMMA RolledBack ==
  ASSUME NEW c, NEW s, Good(c, s), c.mode # "stuck"
  PROVE  LET slots == SlotsWithout(c, {"new"})
         IN  /\ slots \in [Slots -> Bytes \cup {Null}]
             /\ \A i \in Slots : slots[i] # Null => /\ slots[i] = c.slots[i]
                                                    /\ slots[i] \in Named(s)
<1>1. c.slots \in [Slots -> Bytes \cup {Null}]
  BY ContextIs DEF Good
<1>2. \A i \in Slots : c.slots[i] # Null /\ c.st[i] # "new" => c.slots[i] \in Named(s)
  BY DEF Good, PublishedInv
<1> QED BY <1>1, <1>2 DEF SlotsWithout

LEMMA Committed ==
  ASSUME NEW c, NEW s, Good(c, s)
  PROVE  LET slots == SlotsWithout(c, {"slain"})
         IN  /\ slots \in [Slots -> Bytes \cup {Null}]
             /\ \A i \in Slots : slots[i] # Null => /\ slots[i] = c.slots[i]
                                                    /\ slots[i] \in Named(c.view)
<1>1. c.slots \in [Slots -> Bytes \cup {Null}]
  BY ContextIs DEF Good
<1>2. \A i \in Slots : c.slots[i] # Null /\ c.st[i] # "slain" => c.slots[i] \in Named(c.view)
  BY DEF Good, ViewInv
<1> QED BY <1>1, <1>2 DEF SlotsWithout

LEMMA ReadOver ==
  ASSUME NEW c, NEW s, Good(c, s), c.mode = "read"
  PROVE  /\ c.slots \in [Slots -> Bytes \cup {Null}]
         /\ \A i \in Slots : c.slots[i] # Null => c.slots[i] \in Named(s)
BY ContextIs DEF Good, PublishedInv

\* A transaction begins.
Started(c, m, s) == [c EXCEPT !.mode = m, !.view = s]

LEMMA Starting ==
  ASSUME NEW c, NEW s \in Stores, Fine(c, s), c.mode = "none", NEW m \in {"read", "write"}
  PROVE  LET b == Started(c, m, s)
         IN  Good(b, s) /\ b.mode = m /\ b.view = s
<1> DEFINE b == Started(c, m, s)
<1>1. /\ b \in Context /\ b.mode = m /\ b.view = s /\ b.max_dbs = c.max_dbs
      /\ b.slots = c.slots /\ b.st = c.st /\ b.named = c.named
  BY DEF Fine, Context, Started
<1>2. \A i \in Slots : c.st[i] = "unused"
  <2>1. c = Idle(c.max_dbs, c.slots)
    BY DEF Fine, ViewInv
  <2>2. c.st = Untouched
    BY <2>1 DEF Idle
  <2> QED BY <2>2 DEF Untouched
<1> HIDE DEF b
<1>3. SlotsInv(b) /\ b.mode # "none"
  BY <1>1 DEF Fine, SlotsInv, TableInv
<1>4. \A i \in Slots : c.slots[i] # Null => c.slots[i] \in Named(s)
  BY <1>2 DEF Fine, PublishedInv
<1>5. ViewInv(b)
  BY <1>1, <1>2, <1>4 DEF ViewInv
<1>6. PublishedInv(b, s)
  BY <1>1, <1>2, <1>4 DEF PublishedInv
<1> QED BY <1>1, <1>3, <1>5, <1>6 DEF Good, b

\* A call that fails in libmdbx, once the name is resolved, and a creation.
LEMMA FailingWrite ==
  ASSUME NEW c, NEW s, Good(c, s), c.mode = "write", NEW d \in DBs
  PROVE  LET b == [Resolved(c, d).c EXCEPT !.mode = "failed"]
         IN  Good(b, s) /\ b.mode = "failed" /\ b.view = c.view
<1> DEFINE a == Resolved(c, d).c
<1>1. Good(a, s) /\ a.mode = "write" /\ a.view = c.view
  BY Resolving DEF Resolves, SameView
<1> HIDE DEF a
<1>2. LET b == [a EXCEPT !.mode = "failed"]
      IN  Good(b, s) /\ b.mode = "failed" /\ b.view = c.view
  BY <1>1, Marking
<1> QED BY <1>2 DEF a

LEMMA FailingCreate ==
  ASSUME NEW c, NEW s, Good(c, s), c.mode = "write", NEW n \in Bytes,
         NativeOpen(c, n, TRUE).c.view # c.view
  PROVE  LET b == [(IF SlotsOf(c, n) = {} THEN c ELSE Closed(c, Least(SlotsOf(c, n))))
                     EXCEPT !.mode = "failed"]
         IN  Good(b, s) /\ b.mode = "failed" /\ b.view = c.view
<1> DEFINE a == IF SlotsOf(c, n) = {} THEN c ELSE Closed(c, Least(SlotsOf(c, n)))
<1>1. SlotsOf(c, n) # {} => c.st[Least(SlotsOf(c, n))] = "slain"
  BY Creating DEF Creates
<1>2. Good(a, s) /\ a.mode = "write" /\ a.view = c.view
  <2>1. CASE SlotsOf(c, n) = {}
    BY <2>1
  <2>2. CASE SlotsOf(c, n) # {}
    <3>1. c \in Context
      BY DEF Good
    <3>2. Least(SlotsOf(c, n)) \in Slots
      BY <2>2, <3>1, SlotOf
    <3>3. Good(Closed(c, Least(SlotsOf(c, n))), s) /\ SameView(Closed(c, Least(SlotsOf(c, n))), c)
      BY <1>1, <2>2, <3>2, Closing
    <3> QED BY <2>2, <3>3 DEF SameView
  <2> QED BY <2>1, <2>2
<1> HIDE DEF a
<1>3. LET b == [a EXCEPT !.mode = "failed"]
      IN  Good(b, s) /\ b.mode = "failed" /\ b.view = c.view
  BY <1>2, Marking
<1> QED BY <1>3 DEF a

-----------------------------------------------------------------------------
(* The invariant and the actions.                                          *)

\* Nobody deletes a database another process may have a handle of.
SoleDeleter == ~Deletes \/ \A p, q \in Procs : p = q

LEMMA ContextsAre ==
  ASSUME IInv, NEW p \in Procs
  PROVE  /\ Fine(ctx[p], committed) /\ committed \in Stores
         /\ ctx[p].mode # "none" => Good(ctx[p], committed)
BY DEF IInv, TypeOK, Fine, Good

\* A call of p leaves it a good context.
LEMMA BecomesKeeps ==
  ASSUME IInv, NEW p \in Procs, NEW c, Good(c, committed),
         \/ c.mode = ctx[p].mode
         \/ ctx[p].mode = "write" /\ c.mode = "failed"
         \/ c.mode = "stuck",
         ctx' = [ctx EXCEPT ![p] = c], UNCHANGED <<committed, writer>>
  PROVE  IInv'
<1>1. \A q \in Procs : ctx'[q] = IF q = p THEN c ELSE ctx[q]
  BY DEF IInv, TypeOK
<1>2. TypeOK'
  BY DEF IInv, TypeOK, Good
<1>3. WriterInv'
  BY <1>1 DEF IInv, WriterInv
<1>4. ASSUME NEW q \in Procs
      PROVE  SlotsInv(ctx'[q]) /\ ViewInv(ctx'[q]) /\ PublishedInv(ctx'[q], committed')
  BY <1>1 DEF IInv, Good
<1> QED BY <1>2, <1>3, <1>4 DEF IInv

\* A transaction begins.
LEMMA BeginKeeps ==
  ASSUME IInv, NEW p \in Procs, NEW m \in {"read", "write"}, Begin(p, m)
  PROVE  IInv'
<1> DEFINE c == Started(ctx[p], m, committed)
<1>1. Good(c, committed) /\ c.mode = m
  <2>1. Fine(ctx[p], committed) /\ committed \in Stores /\ ctx[p].mode = "none"
    BY ContextsAre DEF Begin
  <2> QED BY <2>1, Starting
<1>2. ctx' = [ctx EXCEPT ![p] = c]
  BY DEF Begin, IInv, TypeOK, Started
<1> HIDE DEF c
<1>3. \A q \in Procs : ctx'[q] = IF q = p THEN c ELSE ctx[q]
  BY <1>2 DEF IInv, TypeOK
<1>4. TypeOK'
  BY <1>1, <1>2 DEF Begin, IInv, TypeOK, Good
<1>5. WriterInv'
  <2>1. CASE m = "write"
    BY <1>1, <1>3, <2>1, StoreAssumption DEF Begin, IInv, WriterInv
  <2>2. CASE m = "read"
    BY <1>1, <1>3, <2>2 DEF Begin, IInv, WriterInv
  <2> QED BY <2>1, <2>2
<1>6. ASSUME NEW q \in Procs
      PROVE  SlotsInv(ctx'[q]) /\ ViewInv(ctx'[q]) /\ PublishedInv(ctx'[q], committed')
  BY <1>1, <1>3 DEF Begin, IInv, Good
<1> QED BY <1>4, <1>5, <1>6 DEF IInv

\* A transaction of p ends, and s is what is published: as before, or the view
\* of the writer, which has all that was there when nobody else deletes.
LEMMA EndKeeps ==
  ASSUME IInv, SoleDeleter, NEW p \in Procs, NEW c, NEW s \in Stores,
         Fine(c, s), c.mode = "none",
         s = committed \/ (ctx[p].mode = "write" /\ s = ctx[p].view),
         committed' = s, writer' = (IF writer = p THEN Null ELSE writer),
         ctx' = [ctx EXCEPT ![p] = c]
  PROVE  IInv'
<1>1. \A q \in Procs : ctx'[q] = IF q = p THEN c ELSE ctx[q]
  BY DEF IInv, TypeOK
<1>2. TypeOK'
  BY DEF IInv, TypeOK, Fine
<1>3. WriterInv'
  BY <1>1, StoreAssumption DEF IInv, WriterInv
<1>4. ASSUME NEW q \in Procs
      PROVE  SlotsInv(ctx'[q]) /\ ViewInv(ctx'[q]) /\ PublishedInv(ctx'[q], committed')
  <2>1. CASE q = p
    BY <1>1, <2>1 DEF Fine
  <2>2. CASE q # p /\ s = committed
    BY <1>1, <2>2 DEF IInv
  <2>3. CASE q # p /\ ctx[p].mode = "write" /\ s = ctx[p].view
    <3>1. Named(committed) \subseteq Named(s)
      BY <2>3 DEF SoleDeleter, IInv, PublishedInv
    <3>2. ctx[q].mode # "write"
      BY <2>3 DEF IInv, WriterInv
    <3>3. PublishedInv(ctx[q], s)
      BY <3>1, <3>2 DEF IInv, PublishedInv
    <3> QED BY <1>1, <2>3, <3>3 DEF IInv
  <2> QED BY <2>1, <2>2, <2>3
<1> QED BY <1>2, <1>3, <1>4 DEF IInv

LEMMA RollbackKeeps ==
  ASSUME IInv, SoleDeleter, NEW p \in Procs, Rollback(p)
  PROVE  IInv'
<1> DEFINE slots == SlotsWithout(ctx[p], {"new"})
           c == Idle(ctx[p].max_dbs, slots)
<1>1. Good(ctx[p], committed) /\ ctx[p].mode # "stuck" /\ committed \in Stores
  BY ContextsAre DEF Rollback, Active
<1>2. ctx[p] \in Context /\ SlotsInv(ctx[p])
  BY <1>1 DEF Good
<1>3. /\ slots \in [Slots -> Bytes \cup {Null}]
      /\ \A i \in Slots : slots[i] # Null => /\ slots[i] = ctx[p].slots[i]
                                             /\ slots[i] \in Named(committed)
  BY <1>1, RolledBack
<1>4. Fine(c, committed) /\ c.mode = "none"
  <2> HIDE DEF slots
  <2> QED BY <1>2, <1>3, Ending
<1>5. /\ committed' = committed /\ ctx' = [ctx EXCEPT ![p] = c]
      /\ writer' = IF writer = p THEN Null ELSE writer
  BY DEF Rollback, Ends
<1> DEFINE s == committed
<1>6. /\ s \in Stores /\ s = committed /\ Fine(c, s) /\ c.mode = "none"
      /\ committed' = s /\ ctx' = [ctx EXCEPT ![p] = c]
  BY <1>1, <1>4, <1>5
<1> HIDE DEF c, s
<1> QED BY <1>5, <1>6, EndKeeps

LEMMA CommitKeeps ==
  ASSUME IInv, SoleDeleter, NEW p \in Procs, Commit(p)
  PROVE  IInv'
<1>1. CASE ctx[p].mode = "write" /\ Ends(p, ctx[p].view, SlotsWithout(ctx[p], {"slain"}))
  <2> DEFINE slots == SlotsWithout(ctx[p], {"slain"})
             c == Idle(ctx[p].max_dbs, slots)
             s == ctx[p].view
  <2>1. Good(ctx[p], committed)
    BY <1>1, ContextsAre
  <2>2. ctx[p] \in Context /\ SlotsInv(ctx[p]) /\ s \in Stores
    BY <2>1, ContextIs DEF Good
  <2>3. /\ slots \in [Slots -> Bytes \cup {Null}]
        /\ \A i \in Slots : slots[i] # Null => /\ slots[i] = ctx[p].slots[i]
                                               /\ slots[i] \in Named(s)
    BY <2>1, Committed
  <2>4. Fine(c, s) /\ c.mode = "none"
    <3> HIDE DEF slots
    <3> QED BY <2>2, <2>3, Ending
  <2>5. /\ committed' = s /\ ctx' = [ctx EXCEPT ![p] = c]
        /\ writer' = IF writer = p THEN Null ELSE writer
    BY <1>1 DEF Ends
  <2> HIDE DEF c
  <2> QED BY <1>1, <2>2, <2>4, <2>5, EndKeeps
<1>2. CASE ctx[p].mode = "read" /\ Ends(p, committed, ctx[p].slots)
  <2> DEFINE slots == ctx[p].slots
             c == Idle(ctx[p].max_dbs, slots)
  <2>1. Good(ctx[p], committed) /\ committed \in Stores
    BY <1>2, ContextsAre
  <2>2. ctx[p] \in Context /\ SlotsInv(ctx[p])
    BY <2>1 DEF Good
  <2>3. /\ slots \in [Slots -> Bytes \cup {Null}]
        /\ \A i \in Slots : slots[i] # Null => /\ slots[i] = ctx[p].slots[i]
                                               /\ slots[i] \in Named(committed)
    BY <1>2, <2>1, ReadOver
  <2>4. Fine(c, committed) /\ c.mode = "none"
    BY <2>2, <2>3, Ending
  <2>5. /\ committed' = committed /\ ctx' = [ctx EXCEPT ![p] = c]
        /\ writer' = IF writer = p THEN Null ELSE writer
    BY <1>2 DEF Ends
  <2> DEFINE s == committed
  <2>6. /\ s \in Stores /\ s = committed /\ Fine(c, s) /\ c.mode = "none"
        /\ committed' = s /\ ctx' = [ctx EXCEPT ![p] = c]
    BY <2>1, <2>4, <2>5
  <2> HIDE DEF c, s
  <2> QED BY <2>5, <2>6, EndKeeps
<1>3. CASE Rollback(p)
  BY <1>3, RollbackKeeps
<1> QED BY <1>1, <1>2, <1>3 DEF Commit

LEMMA DieKeeps ==
  ASSUME IInv, SoleDeleter, NEW p \in Procs, Die(p)
  PROVE  IInv'
<1>1. PICK max \in MaxDbs : /\ ctx' = [ctx EXCEPT ![p] = Reopened(max)]
                            /\ writer' = IF writer = p THEN Null ELSE writer
                            /\ committed' = committed
  BY DEF Die
<1> DEFINE s == committed
           c == Reopened(max)
<1>2. /\ s \in Stores /\ s = committed /\ Fine(c, s) /\ c.mode = "none"
      /\ committed' = s /\ ctx' = [ctx EXCEPT ![p] = c]
  BY <1>1, Reopening, ContextsAre
<1> HIDE DEF c, s
<1> QED BY <1>1, <1>2, EndKeeps

\* A call of p whose answer is a, or which fails.
LEMMA ActKeeps ==
  ASSUME IInv, NEW p \in Procs, NEW a, Acts(a, ctx[p], committed), Becomes(p, a.c)
  PROVE  IInv'
BY BecomesKeeps DEF Acts, Becomes

\* What a call of p does to a context in which s is published.
LEMMA CallActs ==
  ASSUME NEW p \in Procs, NEW s, Good(ctx[p], s),
         Get(p) \/ Put(p) \/ Del(p) \/ DbiOpen(p) \/ DbiDrop(p)
  PROVE  \E a : Becomes(p, a.c) /\ Acts(a, ctx[p], s)
<1> DEFINE c == ctx[p]
<1>0. c.mode \in {"read", "write", "failed"} /\ Good(c, s)
  BY DEF Get, Put, Del, DbiOpen, DbiDrop, Becomes, Active
<1>1. CASE Get(p)
  <2>1. PICK d \in DBs, k \in Bytes : Becomes(p, get(c, d, k).c)
    BY <1>1 DEF Get
  <2>2. Acts(get(c, d, k), c, s)
    BY <1>0, Getting
  <2> QED BY <2>1, <2>2
<1>2. CASE Put(p)
  <2>1. PICK d \in DBs, k \in Bytes, v \in Vals, overwrite \in BOOLEAN :
          Becomes(p, put(c, d, k, v, overwrite).c)
    BY <1>2 DEF Put
  <2>2. Acts(put(c, d, k, v, overwrite), c, s)
    BY <1>0, Putting
  <2> QED BY <2>1, <2>2
<1>3. CASE Del(p)
  <2>1. PICK d \in DBs, k \in Bytes : Becomes(p, del(c, d, k).c)
    BY <1>3 DEF Del
  <2>2. Acts(del(c, d, k), c, s)
    BY <1>0, Deleting
  <2> QED BY <2>1, <2>2
<1>4. CASE DbiOpen(p)
  <2>1. PICK n \in Bytes, create \in BOOLEAN : Becomes(p, dbi_open(c, n, create).c)
    BY <1>4 DEF DbiOpen
  <2>2. Acts(dbi_open(c, n, create), c, s)
    <3>1. CASE create = TRUE
      BY <1>0, <3>1, Adding
    <3>2. CASE create = FALSE
      BY <1>0, <3>2, Finding
    <3> QED BY <3>1, <3>2
  <2> QED BY <2>1, <2>2
<1>5. CASE DbiDrop(p)
  <2>1. PICK d \in DBs, delete \in BOOLEAN :
          (delete /\ d # Main => Deletes) /\ Becomes(p, dbi_drop(c, d, delete).c)
    BY <1>5 DEF DbiDrop
  <2>2. Acts(dbi_drop(c, d, delete), c, s)
    BY <1>0, <2>1, Dropping
  <2> QED BY <2>1, <2>2
<1> QED BY <1>1, <1>2, <1>3, <1>4, <1>5

LEMMA CallKeeps ==
  ASSUME IInv, NEW p \in Procs,
         Get(p) \/ Put(p) \/ Del(p) \/ DbiOpen(p) \/ DbiDrop(p)
  PROVE  IInv'
<1>1. Active(p)
  BY DEF Get, Put, Del, DbiOpen, DbiDrop, Becomes
<1>2. Good(ctx[p], committed)
  BY <1>1, ContextsAre DEF Active
<1> QED BY <1>2, CallActs, ActKeeps

\* And a failure in one.
LEMMA FailureGood ==
  ASSUME ctx \in [Procs -> Context], NEW p \in Procs, NEW s, Good(ctx[p], s),
         WriteFails(p) \/ CreateFails(p) \/ Panic(p)
  PROVE  \E c : /\ Becomes(p, c) /\ Good(c, s)
                /\ \/ ctx[p].mode = "write" /\ c.mode = "failed"
                   \/ c.mode = "stuck"
<1>1. CASE WriteFails(p)
  <2>1. PICK d \in DBs : /\ ctx[p].mode = "write"
                         /\ Becomes(p, [Resolved(ctx[p], d).c EXCEPT !.mode = "failed"])
    BY <1>1 DEF WriteFails
  <2> DEFINE b == [Resolved(ctx[p], d).c EXCEPT !.mode = "failed"]
  <2>2. Good(b, s) /\ b.mode = "failed"
    BY <2>1, FailingWrite
  <2>3. Becomes(p, b)
    BY <2>1
  <2> HIDE DEF b
  <2> QED BY <2>1, <2>2, <2>3
<1>2. CASE CreateFails(p)
  <2>1. PICK n \in Bytes : LET c == ctx[p] IN
          /\ c.mode = "write" /\ NativeOpen(c, n, TRUE).c.view # c.view
          /\ Becomes(p, [(IF SlotsOf(c, n) = {} THEN c ELSE Closed(c, Least(SlotsOf(c, n))))
                           EXCEPT !.mode = "failed"])
    BY <1>2 DEF CreateFails
  <2> DEFINE c == ctx[p]
             b == [(IF SlotsOf(c, n) = {} THEN c ELSE Closed(c, Least(SlotsOf(c, n))))
                     EXCEPT !.mode = "failed"]
  <2>2. Good(b, s) /\ b.mode = "failed"
    BY <2>1, FailingCreate
  <2>3. Becomes(p, b) /\ c.mode = "write"
    BY <2>1
  <2> HIDE DEF b
  <2> QED BY <2>2, <2>3
<1>3. CASE Panic(p)
  <2> DEFINE b == [ctx[p] EXCEPT !.mode = "stuck"]
  <2>1. Good(b, s) /\ b.mode = "stuck"
    BY Marking
  <2>2. Becomes(p, b)
    BY <1>3 DEF Panic, Becomes
  <2> HIDE DEF b
  <2> QED BY <2>1, <2>2
<1> QED BY <1>1, <1>2, <1>3

LEMMA FailKeeps ==
  ASSUME IInv, NEW p \in Procs, WriteFails(p) \/ CreateFails(p) \/ Panic(p)
  PROVE  IInv'
<1>1. Active(p)
  BY DEF WriteFails, CreateFails, Panic, Becomes
<1>2. Good(ctx[p], committed) /\ ctx \in [Procs -> Context]
  BY <1>1, ContextsAre DEF Active, IInv, TypeOK
<1>3. PICK c : /\ Becomes(p, c) /\ Good(c, committed)
               /\ \/ ctx[p].mode = "write" /\ c.mode = "failed"
                  \/ c.mode = "stuck"
  BY <1>2, FailureGood
<1> QED BY <1>3, BecomesKeeps DEF Becomes

LEMMA InitGood ==
  ASSUME Init
  PROVE  IInv
<1>1. \A p \in Procs : Fine(ctx[p], committed) /\ ctx[p].mode = "none"
  BY Reopening DEF Init
<1>2. TypeOK
  <2>1. ctx \in [Procs -> Context]
    BY <1>1 DEF Init, Fine
  <2> QED BY <2>1, EmptyStoreIs DEF Init, TypeOK
<1>3. WriterInv
  BY <1>1, StoreAssumption DEF Init, WriterInv
<1> QED BY <1>1, <1>2, <1>3 DEF IInv, Fine

LEMMA StepKeeps ==
  ASSUME IInv, SoleDeleter, [Next]_vars
  PROVE  IInv'
<1>1. ASSUME NEW p \in Procs, Step(p) PROVE IInv'
  <2>1. CASE Begin(p, "read") \/ Begin(p, "write")
    BY <2>1, BeginKeeps
  <2>2. CASE Get(p) \/ Put(p) \/ Del(p) \/ DbiOpen(p) \/ DbiDrop(p)
    BY <2>2, CallKeeps
  <2>3. CASE WriteFails(p) \/ CreateFails(p) \/ Panic(p)
    BY <2>3, FailKeeps
  <2>4. CASE Commit(p)
    BY <2>4, CommitKeeps
  <2>5. CASE Abort(p)
    BY <2>5, RollbackKeeps DEF Abort
  <2>6. CASE Die(p)
    BY <2>6, DieKeeps
  <2> QED BY <1>1, <2>1, <2>2, <2>3, <2>4, <2>5, <2>6 DEF Step
<1>2. CASE UNCHANGED vars
  BY <1>2 DEF vars, IInv, TypeOK, WriterInv, SlotsInv, TableInv, ViewInv, PublishedInv
<1> QED BY <1>1, <1>2 DEF Next

\* The invariant holds as long as nobody deletes a database that another
\* process may have a handle of: the slots of a process lead to databases that
\* exist, its cache to its slots (txn_handle::named, and the handle table of
\* the vendored libmdbx behind it).
THEOREM Inductive ==
  ASSUME SoleDeleter
  PROVE  Spec => []IInv
<1>1. Init => IInv
  BY InitGood
<1>2. IInv /\ [Next]_vars => IInv'
  BY StepKeeps
<1> QED BY <1>1, <1>2, PTL DEF Spec

\* In a good context every call does what the name says.
LEMMA GoodActs ==
  ASSUME NEW c, NEW s, Good(c, s), c.mode \in {"read", "write"}
  PROVE  ActsAsNamed(c)
<1>0. c.mode \in {"read", "write", "failed"} /\ c.mode # "failed"
  OBVIOUS
<1>1. ASSUME NEW d \in DBs, NEW k \in Bytes
      PROVE  ByName(c, d, get(c, d, k), GetAnswer(c.view, d, k), c.view)
  BY <1>0, Getting
<1>2. ASSUME c.mode = "write", NEW d \in DBs, NEW k \in Bytes
      PROVE  ByName(c, d, del(c, d, k), DelAnswer(c.view, d, k), DelStore(c.view, d, k))
  BY <1>0, <1>2, Deleting
<1>3. ASSUME c.mode = "write", NEW d \in DBs, NEW k \in Bytes, NEW v \in Vals,
             NEW overwrite \in BOOLEAN
      PROVE  ByName(c, d, put(c, d, k, v, overwrite), PutAnswer(c.view, d, k, overwrite),
                    PutStore(c.view, d, k, v, overwrite))
  BY <1>0, <1>3, Putting
<1>4. ASSUME NEW n \in Bytes
      PROVE  ByName(c, n, dbi_open(c, n, FALSE), "ok", c.view)
  BY <1>0, Finding
<1>5. ASSUME c.mode = "write", NEW n \in Bytes
      PROVE  CreatedByName(c, n, dbi_open(c, n, TRUE))
  BY <1>0, <1>5, Adding
<1>6. ASSUME c.mode = "write", NEW d \in DBs, NEW delete \in BOOLEAN,
             ~DropRefused(c.view, d, delete)
      PROVE  ByName(c, d, dbi_drop(c, d, delete), "ok", Dropped(c.view, d, delete))
  BY <1>0, <1>6, Dropping
<1> QED BY <1>1, <1>2, <1>3, <1>4, <1>5, <1>6 DEF ActsAsNamed

\* Each operation acts on the database it names, whatever the transaction, and
\* the ones before it, have opened, created, dropped and recreated
\* (ensure_dbi(), mdbx_dbi_drop_()).
THEOREM ActsByName ==
  ASSUME SoleDeleter
  PROVE  Spec => []AnswersByName
<1>1. IInv => AnswersByName
  BY ContextsAre, GoodActs DEF AnswersByName
<1> QED BY <1>1, Inductive, PTL

\* "The cache cannot outlive its own validity" (txn_handle::named): a name in
\* it leads to an existing database of that name.
THEOREM CacheCorrect ==
  ASSUME SoleDeleter
  PROVE  Spec => []CacheHome
<1>1. ASSUME IInv PROVE CacheHome
  <2> SUFFICES ASSUME NEW p \in Procs, NEW n \in Bytes, ctx[p].named[n] # 0
               PROVE  /\ ctx[p].slots[ctx[p].named[n]] = n
                      /\ ctx[p].st[ctx[p].named[n]] \in Usable
                      /\ Exists(ctx[p].view, n)
    BY DEF CacheHome
  <2> DEFINE c == ctx[p]
  <2>1. Fine(c, committed)
    BY <1>1, ContextsAre
  <2> HIDE DEF c
  <2>2. c.mode # "none"
    <3>1. SUFFICES ASSUME c.mode = "none" PROVE FALSE
      OBVIOUS
    <3>2. c = Idle(c.max_dbs, c.slots)
      BY <2>1, <3>1 DEF Fine, ViewInv
    <3>3. c.named = Unresolved
      BY <3>2 DEF Idle
    <3> QED BY <3>3 DEF c, Unresolved
  <2>3. Good(c, committed) /\ c.named[n] # 0
    BY <2>1, <2>2 DEF Fine, Good, c
  <2>4. Exists(c.view, n)
    BY <2>3, Using
  <2> QED BY <2>3, <2>4 DEF Good, SlotsInv, TableInv, c
<1> QED BY <1>1, Inductive, PTL

-----------------------------------------------------------------------------
(* Any number of processes that delete. The cache and the handle table may *)
(* then lead a call to another database than it names, but only to one     *)
(* that exists in the view.                                                *)

\* A context with a transaction that SharedInv allows.
Sound(c) ==
  c \in Context /\ c.mode # "none" /\ TableInv(c) /\ LiveInv(c)

\* A slot is bound to a name that has no other; if it becomes usable, the
\* database is there.
LEMMA SoundBound ==
  ASSUME NEW c, Sound(c), NEW i \in Slots, i <= c.max_dbs, NEW n \in Bytes,
         NEW t \in SlotState, t \in Usable => n \in Named(c.view),
         c.slots[i] = n \/ \A j \in Slots : c.slots[j] # n
  PROVE  LET b == Bound(c, i, n, t)
         IN  Sound(b) /\ SameView(b, c) /\ b.slots[i] = n /\ b.st[i] = t
<1> DEFINE b == Bound(c, i, n, t)
<1>0. c \in Context /\ n # Null
  BY Constants DEF Sound
<1>1. /\ b \in Context /\ SameView(b, c)
      /\ \A j \in Slots : /\ b.slots[j] = IF j = i THEN n ELSE c.slots[j]
                          /\ b.st[j] = IF j = i THEN t ELSE c.st[j]
  BY <1>0, BoundIs
<1> HIDE DEF b
<1>2. \A j \in Slots : c.slots[j] = n => j = i
  BY <1>0 DEF Sound, TableInv
<1>3. TableInv(b)
  <2>1. \A j, k \in Slots : b.slots[j] = b.slots[k] /\ b.slots[j] # Null => j = k
    BY <1>1, <1>2 DEF Sound, TableInv
  <2>2. \A j \in Slots : /\ b.slots[j] # Null => j <= b.max_dbs
                         /\ b.slots[j] = Null => b.st[j] = "unused"
    BY <1>0, <1>1 DEF Sound, TableInv, SameView
  <2> QED BY <2>1, <2>2 DEF TableInv
<1>4. LiveInv(b)
  BY <1>1 DEF Sound, LiveInv, SameView
<1>5. Sound(b) /\ SameView(b, c) /\ b.slots[i] = n /\ b.st[i] = t
  BY <1>1, <1>3, <1>4 DEF Sound, SameView
<1> QED BY <1>5 DEF b

LEMMA SoundClosed ==
  ASSUME NEW c, Sound(c), NEW i \in Slots
  PROVE  Sound(Closed(c, i)) /\ SameView(Closed(c, i), c)
<1> DEFINE b == Closed(c, i)
<1>1. /\ b \in Context /\ SameView(b, c)
      /\ \A j \in Slots : /\ b.slots[j] = IF j = i THEN Null ELSE c.slots[j]
                          /\ b.st[j] = IF j = i THEN "unused" ELSE c.st[j]
  BY ClosedIs DEF Sound
<1> HIDE DEF b
<1>2. TableInv(b)
  BY <1>1 DEF Sound, TableInv, SameView
<1>3. LiveInv(b)
  BY <1>1 DEF Sound, LiveInv, SameView, Usable
<1>4. Sound(b) /\ SameView(b, c)
  BY <1>1, <1>2, <1>3 DEF Sound, SameView
<1> QED BY <1>4 DEF b

\* A database is created in a slot that was its own, or free.
LEMMA SoundCreatedIn ==
  ASSUME NEW c, Sound(c), NEW i \in Slots, i <= c.max_dbs, NEW n \in Bytes,
         NEW t \in SlotState, c.slots[i] = n \/ \A j \in Slots : c.slots[j] # n
  PROVE  LET b == CreatedIn(c, i, n, t)
         IN  /\ Sound(b) /\ b.view = Created(c.view, n)
             /\ b.mode = c.mode /\ b.max_dbs = c.max_dbs
<1> DEFINE b == CreatedIn(c, i, n, t)
<1>0. c \in Context /\ n # Null
  BY Constants DEF Sound
<1>1. /\ b \in Context /\ b.view = Created(c.view, n)
      /\ b.mode = c.mode /\ b.max_dbs = c.max_dbs
      /\ \A j \in Slots : /\ b.slots[j] = IF j = i THEN n ELSE c.slots[j]
                          /\ b.st[j] = IF j = i THEN t ELSE c.st[j]
  BY <1>0, CreatedInIs
<1> HIDE DEF b
<1>2. \A j \in Slots : c.slots[j] = n => j = i
  BY <1>0 DEF Sound, TableInv
<1>3. TableInv(b)
  <2>1. \A j, k \in Slots : b.slots[j] = b.slots[k] /\ b.slots[j] # Null => j = k
    BY <1>1, <1>2 DEF Sound, TableInv
  <2>2. \A j \in Slots : /\ b.slots[j] # Null => j <= b.max_dbs
                         /\ b.slots[j] = Null => b.st[j] = "unused"
    BY <1>0, <1>1 DEF Sound, TableInv
  <2> QED BY <2>1, <2>2 DEF TableInv
<1>4. Named(b.view) = Named(c.view) \cup {n}
  BY <1>0, <1>1, CreatedAdds, ContextIs
<1>5. LiveInv(b)
  BY <1>1, <1>4 DEF Sound, LiveInv
<1>6. /\ Sound(b) /\ b.view = Created(c.view, n)
      /\ b.mode = c.mode /\ b.max_dbs = c.max_dbs
  BY <1>1, <1>3, <1>5 DEF Sound
<1> QED BY <1>6 DEF b

\* What a look-up or a creation of n may come to.
Tries(o, c, n, create) ==
  /\ Sound(o.c) /\ o.c.mode = c.mode /\ o.c.max_dbs = c.max_dbs
  /\ o.rc = "ok" => o.dbi \in Slots
  /\ \/ o.c.view = c.view
     \/ create /\ ~Present(c.view, Main, n) /\ o.c.view = Created(c.view, n)

LEMMA SoundOpen ==
  ASSUME NEW c, Sound(c), NEW n \in Bytes, NEW create \in BOOLEAN
  PROVE  Tries(NativeOpen(c, n, create), c, n, create)
<1> DEFINE o == NativeOpen(c, n, create)
<1>0. c \in Context
  BY DEF Sound
<1>s. {"open", "fresh", "new"} \subseteq SlotState
  BY DEF SlotState
<1>n. n \in Named(c.view) <=> c.view[Main][n] = Tree
  BY NamedIs
<1>a. ASSUME NEW b, Sound(b), SameView(b, c), NEW rc, NEW j, rc = "ok" => j \in Slots
      PROVE  Tries(Opened(b, rc, j), c, n, create)
  BY <1>a DEF Tries, Opened, SameView
<1>b. ASSUME NEW i \in Slots, i <= c.max_dbs, c.view[Main][n] = Tree,
             NEW t \in {"open", "fresh"},
             c.slots[i] = n \/ \A j \in Slots : c.slots[j] # n
      PROVE  Tries(Opened(Bound(c, i, n, t), "ok", i), c, n, create)
  <2>1. Sound(Bound(c, i, n, t)) /\ SameView(Bound(c, i, n, t), c)
    BY <1>b, <1>s, <1>n, SoundBound
  <2> QED BY <1>a, <2>1
<1>c. ASSUME NEW i \in Slots, i <= c.max_dbs, create, ~Present(c.view, Main, n),
             NEW t \in {"open", "new"},
             c.slots[i] = n \/ \A j \in Slots : c.slots[j] # n
      PROVE  Tries(Opened(CreatedIn(c, i, n, t), "ok", i), c, n, create)
  <2> DEFINE b == CreatedIn(c, i, n, t)
  <2>1. /\ Sound(b) /\ b.view = Created(c.view, n)
        /\ b.mode = c.mode /\ b.max_dbs = c.max_dbs
    BY <1>c, <1>s, SoundCreatedIn
  <2> HIDE DEF b
  <2>2. Tries(Opened(b, "ok", i), c, n, create)
    BY <1>c, <2>1 DEF Tries, Opened
  <2> QED BY <2>2 DEF b
<1>d. ASSUME NEW rc, rc # "ok" PROVE Tries(Opened(c, rc, 0), c, n, create)
  BY <1>a, <1>d DEF SameView
<1>1. CASE SlotsOf(c, n) = {}
  <2>0. o = OpenSlot(c, n, create)
    BY <1>1 DEF NativeOpen
  <2>1. \A j \in Slots : c.slots[j] # n
    BY <1>0, <1>1, ContextIs, SlotsAre, Constants DEF Sound, TableInv, SlotsOf
  <2>2. CASE SlotsOf(c, Null) = {}
    BY <1>d, <2>0, <2>2 DEF OpenSlot
  <2>3. CASE SlotsOf(c, Null) # {}
    <3> DEFINE i == Least(SlotsOf(c, Null))
    <3>1. i \in Slots /\ i <= c.max_dbs
      BY <1>0, <2>3, SlotOf
    <3>2. o = IF c.view[Main][n] = Tree THEN Opened(Bound(c, i, n, "fresh"), "ok", i)
              ELSE IF Present(c.view, Main, n) THEN Opened(c, "incompatible", 0)
              ELSE IF create THEN Opened(CreatedIn(c, i, n, "new"), "ok", i)
              ELSE Opened(c, "missing", 0)
      BY <2>0, <2>3 DEF OpenSlot
    <3> HIDE DEF i
    <3>3. CASE c.view[Main][n] = Tree
      BY <1>b, <2>1, <3>1, <3>2, <3>3
    <3>4. CASE c.view[Main][n] # Tree /\ Present(c.view, Main, n)
      BY <1>d, <3>2, <3>4
    <3>5. CASE c.view[Main][n] # Tree /\ ~Present(c.view, Main, n) /\ create
      BY <1>c, <2>1, <3>1, <3>2, <3>5
    <3>6. CASE c.view[Main][n] # Tree /\ ~Present(c.view, Main, n) /\ ~create
      BY <1>d, <3>2, <3>6
    <3> QED BY <3>3, <3>4, <3>5, <3>6
  <2> QED BY <2>2, <2>3
<1>2. CASE SlotsOf(c, n) # {}
  <2> DEFINE i == Least(SlotsOf(c, n))
  <2>0. o = ReopenSlot(c, i, n, create)
    BY <1>2 DEF NativeOpen
  <2>1. i \in Slots /\ i <= c.max_dbs /\ c.slots[i] = n
    BY <1>0, <1>2, SlotOf
  <2> HIDE DEF i
  <2>2. Sound(Closed(c, i)) /\ SameView(Closed(c, i), c) /\ SameView(c, c)
    BY <2>1, SoundClosed DEF SameView
  <2>3. CASE c.st[i] \in Usable \/ (c.st[i] = "unused" /\ ~create /\ c.view[Main][n] # Tree)
    <3>1. o = Opened(c, "ok", i)
      BY <2>0, <2>3 DEF ReopenSlot, Usable
    <3> QED BY <1>a, <2>1, <2>2, <3>1
  <2>4. CASE c.st[i] = "slain" /\ ~create
    <3>1. o = Opened(c, "missing", 0)
      BY <2>0, <2>4 DEF ReopenSlot, Usable
    <3> QED BY <1>d, <3>1
  <2>5. CASE /\ c.st[i] \notin Usable /\ ~(c.st[i] = "slain" /\ ~create)
             /\ c.view[Main][n] = Tree
    <3>1. o = Opened(Bound(c, i, n, "open"), "ok", i)
      BY <2>0, <2>5 DEF ReopenSlot
    <3> QED BY <1>b, <2>1, <2>5, <3>1
  <2>6. CASE /\ c.st[i] \notin Usable /\ create /\ c.view[Main][n] # Tree
             /\ ~Present(c.view, Main, n)
    <3>1. o = Opened(CreatedIn(c, i, n, "open"), "ok", i)
      BY <2>0, <2>6 DEF ReopenSlot
    <3> QED BY <1>c, <2>1, <2>6, <3>1
  <2>7. CASE /\ c.st[i] \notin Usable /\ ~(c.st[i] = "slain" /\ ~create)
             /\ c.view[Main][n] # Tree /\ ~(create /\ ~Present(c.view, Main, n))
             /\ ~(c.st[i] = "unused" /\ ~create)
    <3> DEFINE rc == IF Present(c.view, Main, n) THEN "incompatible" ELSE "missing"
    <3>1. o = Opened(Closed(c, i), rc, 0) /\ rc # "ok"
      BY <2>0, <2>7 DEF ReopenSlot
    <3> QED BY <1>a, <2>2, <3>1
  <2> QED BY <2>3, <2>4, <2>5, <2>6, <2>7
<1> QED BY <1>1, <1>2

LEMMA SoundCached ==
  ASSUME NEW c, NEW n \in Bytes, NEW create \in BOOLEAN,
         NEW o, o = Opened(o.c, o.rc, o.dbi), Tries(o, c, n, create)
  PROVE  Tries(Cached(o, n), c, n, create)
<1>1. CASE o.rc = "ok"
  <2> DEFINE named == [o.c.named EXCEPT ![n] = o.dbi]
             b == [o.c EXCEPT !.named = named]
  <2>0. o.c \in Context
    BY DEF Tries, Sound
  <2>1. named \in [Bytes -> Slots \cup {0}]
    BY <1>1, <2>0, ContextIs DEF Tries
  <2>2. b = [o.c EXCEPT !.named[n] = o.dbi]
    BY <2>0 DEF Context
  <2>3. /\ b \in Context /\ b.mode = o.c.mode /\ b.view = o.c.view
        /\ b.max_dbs = o.c.max_dbs /\ b.slots = o.c.slots /\ b.st = o.c.st
    <3> HIDE DEF named
    <3> QED BY <2>0, <2>1 DEF Context
  <2>4. Cached(o, n) = Opened(b, o.rc, o.dbi)
    BY <1>1, <2>2 DEF Cached, Opened
  <2> HIDE DEF b, named
  <2>5. Sound(b)
    BY <2>3 DEF Tries, Sound, TableInv, LiveInv
  <2> QED BY <2>3, <2>4, <2>5 DEF Tries, Opened
<1>2. CASE o.rc # "ok"
  BY <1>2 DEF Cached
<1> QED BY <1>1, <1>2

\* r is what resolving d may come to: another name's database perhaps, if d is
\* not the main one, but one of the view that has a slot.
Reaches(r, c, d) ==
  /\ Sound(r.c) /\ SameView(r.c, c)
  /\ r.rc = "ok" => /\ r.db \in DBs /\ Exists(c.view, r.db)
                    /\ r.db = Main <=> d = Main
                    /\ r.db # Main => \E i \in Slots : r.c.slots[i] = r.db

LEMMA SoundUse ==
  ASSUME NEW c, Sound(c), NEW i \in Slots, NEW d \in Bytes
  PROVE  Reaches(NativeUse(c, i), c, d)
<1> DEFINE n == c.slots[i]
<1>0. c \in Context /\ i # 0 /\ n \in Bytes \cup {Null} /\ SameView(c, c)
  BY ContextIs, SlotsAre DEF Sound, SameView
<1>1. CASE n = Null \/ c.st[i] \in {"slain", "gone"}
  <2>1. NativeUse(c, i) = Reached(c, "bad_dbi", Null)
    BY <1>0, <1>1 DEF NativeUse
  <2> QED BY <1>0, <2>1 DEF Reaches, Reached
<1> DEFINE known == n # Null /\ c.st[i] \notin {"slain", "gone"}
<1>2. CASE known /\ c.st[i] \in Usable
  <2>1. NativeUse(c, i) = Reached(c, "ok", n)
    BY <1>0, <1>2 DEF NativeUse
  <2>2. n \in Bytes /\ n \in Named(c.view)
    BY <1>0, <1>2 DEF Sound, LiveInv
  <2>3. Exists(c.view, n) /\ n # Main /\ d # Main /\ n \in DBs
    BY <2>2, NamedIs, Constants DEF DBs
  <2> QED BY <1>0, <2>1, <2>3 DEF Reaches, Reached
<1>3. CASE known /\ c.st[i] \notin Usable /\ c.view[Main][n] = Tree
  <2> DEFINE b == Bound(c, i, n, "open")
  <2>1. NativeUse(c, i) = Reached(b, "ok", n)
    BY <1>0, <1>3 DEF NativeUse
  <2>2. n \in Bytes /\ n \in Named(c.view) /\ i <= c.max_dbs /\ "open" \in SlotState
    BY <1>0, <1>3, NamedIs DEF Sound, TableInv, SlotState
  <2>3. Sound(b) /\ SameView(b, c) /\ b.slots[i] = n
    BY <2>2, SoundBound
  <2>4. Exists(c.view, n) /\ n # Main /\ d # Main /\ n \in DBs
    BY <2>2, NamedIs, Constants DEF DBs
  <2> HIDE DEF b
  <2> QED BY <2>1, <2>3, <2>4 DEF Reaches, Reached
<1>4. CASE known /\ c.st[i] \notin Usable /\ c.view[Main][n] # Tree
  <2> DEFINE b == Bound(c, i, n, "gone")
             rc == IF Present(c.view, Main, n) THEN "incompatible" ELSE "bad_dbi"
  <2>1. NativeUse(c, i) = Reached(b, rc, Null) /\ rc # "ok"
    BY <1>0, <1>4 DEF NativeUse
  <2>2. n \in Bytes /\ i <= c.max_dbs /\ "gone" \in SlotState /\ "gone" \notin Usable
    BY <1>0, <1>4 DEF Sound, TableInv, SlotState, Usable
  <2>3. Sound(b) /\ SameView(b, c)
    BY <2>2, SoundBound
  <2> HIDE DEF b, rc
  <2> QED BY <2>1, <2>3 DEF Reaches, Reached
<1> QED BY <1>1, <1>2, <1>3, <1>4

LEMMA SoundResolved ==
  ASSUME NEW c, Sound(c), NEW d \in DBs
  PROVE  Reaches(Resolved(c, d), c, d)
<1>0. c \in Context
  BY DEF Sound
<1>1. CASE d = Main
  <2>1. Resolved(c, d) = Reached(c, "ok", Main)
    BY <1>1 DEF Resolved, ensure_dbi, NativeUse, Opened
  <2> QED BY <1>1, <2>1 DEF Reaches, Reached, Exists, SameView
<1>2. CASE d # Main /\ c.named[d] # 0
  <2>1. ensure_dbi(c, d) = Opened(c, "ok", c.named[d])
    BY <1>2 DEF ensure_dbi
  <2>2. Resolved(c, d) = NativeUse(c, c.named[d])
    BY <2>1 DEF Resolved, Opened
  <2>3. d \in Bytes /\ c.named[d] \in Slots
    BY <1>0, <1>2, ContextIs DEF DBs
  <2> QED BY <2>2, <2>3, SoundUse
<1>3. CASE d # Main /\ c.named[d] = 0
  <2> DEFINE o == NativeOpen(c, d, FALSE)
             q == Cached(o, d)
  <2>1. d \in Bytes
    BY <1>3 DEF DBs
  <2>2. Tries(o, c, d, FALSE) /\ o = Opened(o.c, o.rc, o.dbi)
    BY <2>1, SoundOpen, OpenedIs
  <2>3. Tries(q, c, d, FALSE)
    <3> HIDE DEF o
    <3> QED BY <2>1, <2>2, SoundCached
  <2>4. ensure_dbi(c, d) = q
    BY <1>3 DEF ensure_dbi
  <2>5. Resolved(c, d) = IF q.rc = "ok" THEN NativeUse(q.c, q.dbi) ELSE Reached(q.c, q.rc, Null)
    BY <2>4 DEF Resolved
  <2> HIDE DEF o, q
  <2>6. Sound(q.c) /\ SameView(q.c, c) /\ (q.rc = "ok" => q.dbi \in Slots)
    BY <2>3 DEF Tries, SameView
  <2>7. CASE q.rc = "ok"
    <3>1. Reaches(NativeUse(q.c, q.dbi), q.c, d)
      BY <2>1, <2>6, <2>7, SoundUse
    <3> QED BY <2>5, <2>6, <2>7, <3>1 DEF Reaches, SameView
  <2>8. CASE q.rc # "ok"
    BY <2>5, <2>6, <2>8 DEF Reaches, Reached
  <2> QED BY <2>7, <2>8
<1> QED BY <1>1, <1>2, <1>3

\* What AtomicStore lets a write do to contents.
Updated(s, t) ==
  \/ \E d \in DBs, k \in Bytes, v \in Vals, overwrite \in BOOLEAN :
       Exists(s, d) /\ t = PutStore(s, d, k, v, overwrite)
  \/ \E d \in DBs, k \in Bytes : Exists(s, d) /\ t = DelStore(s, d, k)
  \/ \E n \in Bytes : ~Present(s, Main, n) /\ t = Created(s, n)
  \/ \E d \in DBs, delete \in BOOLEAN :
       /\ Exists(s, d) /\ ~DropRefused(s, d, delete)
       /\ t = Dropped(s, d, delete)

\* What an operation may do in c, by whatever name.
Touches(b, c) ==
  /\ Sound(b) /\ b.mode = c.mode
  /\ b.view = c.view \/ (c.mode = "write" /\ Updated(c.view, b.view))

LEMMA SoundViewed ==
  ASSUME NEW c, Sound(c), NEW t \in Stores, Named(t) = Named(c.view)
  PROVE  LET b == InView(c, t) IN Sound(b) /\ b.mode = c.mode /\ b.view = t
<1> DEFINE b == InView(c, t)
<1>1. /\ b \in Context /\ b.view = t /\ b.mode = c.mode /\ b.max_dbs = c.max_dbs
      /\ b.slots = c.slots /\ b.st = c.st
  BY DEF Sound, InView, Context
<1> HIDE DEF b
<1>2. Sound(b) /\ b.mode = c.mode /\ b.view = t
  BY <1>1 DEF Sound, TableInv, LiveInv
<1> QED BY <1>2 DEF b

\* Calls that leave the contents alone.
LEMMA TouchesNothing ==
  ASSUME NEW c, Sound(c), NEW res
  PROVE  Touches(Answer(c, res).c, c)
BY DEF Touches, Answer

LEMMA TouchesView ==
  ASSUME NEW c, NEW d, NEW r, Reaches(r, c, d), NEW res
  PROVE  Touches(Answer(r.c, res).c, c)
BY DEF Touches, Answer, Reaches, SameView

LEMMA TouchGet ==
  ASSUME NEW c, Sound(c), NEW d \in DBs, NEW k \in Bytes
  PROVE  Touches(get(c, d, k).c, c)
<1> DEFINE r == Resolved(c, d)
           a == get(c, d, k)
<1>1. Reaches(r, c, d)
  BY SoundResolved
<1>2. \/ \E res : a = Answer(c, res)
      \/ \E res : a = Answer(r.c, res)
  BY DEF get
<1> HIDE DEF r, a
<1>3. CASE \E res : a = Answer(c, res)
  BY <1>3, TouchesNothing DEF a
<1>4. CASE \E res : a = Answer(r.c, res)
  BY <1>1, <1>4, TouchesView DEF a
<1> QED BY <1>2, <1>3, <1>4

\* A write into the database that was reached.
LEMMA TouchesReached ==
  ASSUME NEW c, Sound(c), c.mode = "write", NEW d \in DBs, NEW r, Reaches(r, c, d),
         r.rc = "ok", NEW t \in Stores, Named(t) = Named(c.view),
         Updated(c.view, t), NEW res
  PROVE  Touches(Answer(InView(r.c, t), res).c, c)
<1>1. Sound(r.c) /\ r.c.mode = c.mode /\ r.c.view = c.view
  BY DEF Reaches, SameView
<1> DEFINE b == InView(r.c, t)
<1>2. Sound(b) /\ b.mode = r.c.mode /\ b.view = t
  BY <1>1, SoundViewed
<1> HIDE DEF b
<1>3. Touches(b, c)
  BY <1>1, <1>2 DEF Touches
<1>4. Answer(b, res).c = b
  BY DEF Answer
<1> QED BY <1>3, <1>4 DEF b

LEMMA TouchPut ==
  ASSUME NEW c, Sound(c), NEW d \in DBs, NEW k \in Bytes, NEW v \in Vals,
         NEW overwrite \in BOOLEAN, c.mode \in {"read", "write", "failed"}
  PROVE  Touches(put(c, d, k, v, overwrite).c, c)
<1> DEFINE r == Resolved(c, d)
           t == PutStore(r.c.view, r.db, k, v, overwrite)
<1>1. Reaches(r, c, d)
  BY SoundResolved
<1>2. CASE c.mode # "write"
  <2>1. \E res : put(c, d, k, v, overwrite) = Answer(c, res)
    BY <1>2 DEF put, Writable
  <2> QED BY <2>1, TouchesNothing
<1>3. CASE c.mode = "write" /\ r.rc # "ok"
  <2>1. put(c, d, k, v, overwrite) = Answer(r.c, r.rc)
    BY <1>3 DEF put, Writable
  <2> HIDE DEF r
  <2> QED BY <1>1, <2>1, TouchesView
<1>4. CASE c.mode = "write" /\ r.rc = "ok"
  <2>1. put(c, d, k, v, overwrite) =
          Answer(InView(r.c, t), PutAnswer(r.c.view, r.db, k, overwrite))
    BY <1>4 DEF put, Writable
  <2> HIDE DEF r
  <2>2. c.view \in Stores /\ r.c.view = c.view /\ r.db \in DBs /\ Exists(c.view, r.db)
    BY <1>1, <1>4, ContextIs DEF Reaches, SameView, Sound
  <2>3. t \in Stores /\ Named(t) = Named(c.view)
    BY <2>2, PutKeeps
  <2>4. Updated(c.view, t)
    BY <2>2 DEF Updated
  <2> HIDE DEF t
  <2> QED BY <1>1, <1>4, <2>1, <2>3, <2>4, TouchesReached
<1> QED BY <1>2, <1>3, <1>4

LEMMA TouchDel ==
  ASSUME NEW c, Sound(c), NEW d \in DBs, NEW k \in Bytes,
         c.mode \in {"read", "write", "failed"}
  PROVE  Touches(del(c, d, k).c, c)
<1> DEFINE r == Resolved(c, d)
           t == DelStore(r.c.view, r.db, k)
<1>1. Reaches(r, c, d)
  BY SoundResolved
<1>2. CASE c.mode # "write"
  <2>1. \E res : del(c, d, k) = Answer(c, res)
    BY <1>2 DEF del, Writable
  <2> QED BY <2>1, TouchesNothing
<1>3. CASE c.mode = "write" /\ r.rc # "ok"
  <2>1. del(c, d, k) = Answer(r.c, r.rc)
    BY <1>3 DEF del, Writable
  <2> HIDE DEF r
  <2> QED BY <1>1, <2>1, TouchesView
<1>4. CASE c.mode = "write" /\ r.rc = "ok"
  <2>1. del(c, d, k) = Answer(InView(r.c, t), DelAnswer(r.c.view, r.db, k))
    BY <1>4 DEF del, Writable
  <2> HIDE DEF r
  <2>2. c.view \in Stores /\ r.c.view = c.view /\ r.db \in DBs /\ Exists(c.view, r.db)
    BY <1>1, <1>4, ContextIs DEF Reaches, SameView, Sound
  <2>3. t \in Stores /\ Named(t) = Named(c.view)
    BY <2>2, DelKeeps
  <2>4. Updated(c.view, t)
    BY <2>2 DEF Updated
  <2> HIDE DEF t
  <2> QED BY <1>1, <1>4, <2>1, <2>3, <2>4, TouchesReached
<1> QED BY <1>2, <1>3, <1>4

LEMMA TouchOpen ==
  ASSUME NEW c, Sound(c), NEW n \in Bytes, NEW create \in BOOLEAN,
         c.mode \in {"read", "write", "failed"}
  PROVE  Touches(dbi_open(c, n, create).c, c)
<1> DEFINE o == NativeOpen(c, n, create)
           q == Cached(o, n)
<1>1. Tries(o, c, n, create) /\ o = Opened(o.c, o.rc, o.dbi)
  BY SoundOpen, OpenedIs
<1>2. Tries(q, c, n, create)
  <2> HIDE DEF o
  <2> QED BY <1>1, SoundCached
<1>3. \/ dbi_open(c, n, create) = Answer(q.c, q.rc) /\ (create => c.mode = "write")
      \/ \E res : dbi_open(c, n, create) = Answer(c, res)
  BY DEF dbi_open, Writable
<1> HIDE DEF o, q
<1>4. CASE dbi_open(c, n, create) = Answer(q.c, q.rc) /\ (create => c.mode = "write")
  <2>1. q.c.view = c.view \/ (c.mode = "write" /\ Updated(c.view, q.c.view))
    BY <1>2, <1>4 DEF Tries, Updated
  <2> QED BY <1>2, <1>4, <2>1 DEF Touches, Tries, Answer
<1> QED BY <1>3, <1>4, TouchesNothing

\* A database goes, and the slot it has: no other slot was its own.
LEMMA SoundSlain ==
  ASSUME NEW c, Sound(c), c.mode = "write", NEW n \in Bytes,
         \E i \in Slots : c.slots[i] = n, NEW t \in Stores,
         Named(t) = Named(c.view) \ {n}, NEW d \in Bytes
  PROVE  LET b == Forgotten(Slain(InView(c, t), Least(SlotsOf(c, n))), d)
         IN  Sound(b) /\ b.mode = c.mode /\ b.view = t
<1> DEFINE i == Least(SlotsOf(c, n))
           v == InView(c, t)
           w == Slain(v, i)
           b == Forgotten(w, d)
<1>0. c \in Context /\ n # Null
  BY Constants DEF Sound
<1>1. i \in Slots /\ c.slots[i] = n
  <2>1. SlotsOf(c, n) # {}
    BY <1>0, ContextIs, SlotsAre DEF Sound, TableInv, SlotsOf
  <2> QED BY <1>0, <2>1, SlotOf
<1>2. \A j \in Slots : c.slots[j] = n => j = i
  BY <1>0, <1>1 DEF Sound, TableInv
<1> HIDE DEF i
<1>3. /\ v \in Context /\ v.view = t /\ v.mode = c.mode /\ v.max_dbs = c.max_dbs
      /\ v.slots = c.slots /\ v.st = c.st
  BY <1>0 DEF InView, Context
<1> HIDE DEF v
<1>4. /\ w \in Context /\ SameView(w, v)
      /\ \A j \in Slots :
           \/ j # i /\ w.slots[j] = v.slots[j] /\ w.st[j] = v.st[j]
           \/ j = i /\ w.slots[j] = Null /\ w.st[j] = "unused"
           \/ j = i /\ w.slots[j] = n /\ w.st[j] = "slain"
  <2>1. CASE v.st[i] \in {"fresh", "new"}
    <3>1. w = Closed(v, i)
      BY <2>1 DEF Slain
    <3> QED BY <1>1, <1>3, <3>1, ClosedIs
  <2>2. CASE v.st[i] \notin {"fresh", "new"}
    <3>1. w = [v EXCEPT !.st[i] = "slain"]
      BY <2>2 DEF Slain
    <3>2. w = Bound(v, i, n, "slain")
      <4>1. [v.slots EXCEPT ![i] = n] = v.slots
        BY <1>1, <1>3, ContextIs
      <4> QED BY <1>3, <3>1, <4>1 DEF Bound, Context
    <3>3. "slain" \in SlotState
      BY DEF SlotState
    <3> QED BY <1>1, <1>3, <3>2, <3>3, BoundIs
  <2> QED BY <2>1, <2>2
<1> HIDE DEF w
<1>5. /\ b \in Context /\ b.view = w.view /\ b.mode = w.mode /\ b.max_dbs = w.max_dbs
      /\ b.slots = w.slots /\ b.st = w.st
  <2> DEFINE named == [w.named EXCEPT ![d] = 0]
  <2>1. named \in [Bytes -> Slots \cup {0}]
    BY <1>4, ContextIs
  <2>2. b = [w EXCEPT !.named = named]
    BY <1>4 DEF Forgotten, Context
  <2> HIDE DEF named, b
  <2> QED BY <1>4, <2>1, <2>2 DEF Context
<1> HIDE DEF b
<1>6. b.mode = c.mode /\ b.view = t /\ b.max_dbs = c.max_dbs
  BY <1>3, <1>4, <1>5 DEF SameView
<1>7. \A j \in Slots :
        \/ j # i /\ b.slots[j] = c.slots[j] /\ b.st[j] = c.st[j]
        \/ j = i /\ b.slots[j] = Null /\ b.st[j] = "unused"
        \/ j = i /\ b.slots[j] = n /\ b.st[j] = "slain"
  BY <1>3, <1>4, <1>5
<1>8. TableInv(b)
  <2>1. \A j, k \in Slots : b.slots[j] = b.slots[k] /\ b.slots[j] # Null => j = k
    BY <1>1, <1>2, <1>7 DEF Sound, TableInv
  <2>2. \A j \in Slots : /\ b.slots[j] # Null => j <= b.max_dbs
                         /\ b.slots[j] = Null => b.st[j] = "unused"
    BY <1>0, <1>1, <1>6, <1>7 DEF Sound, TableInv
  <2> QED BY <2>1, <2>2 DEF TableInv
<1>9. LiveInv(b)
  <2>1. ASSUME NEW j \in Slots, b.st[j] \in Usable
        PROVE  b.slots[j] \in Named(t)
    <3>1. j # i /\ b.slots[j] = c.slots[j] /\ b.st[j] = c.st[j]
      BY <1>7, <2>1 DEF Usable
    <3>2. c.slots[j] \in Named(c.view) /\ c.slots[j] # n
      BY <1>2, <2>1, <3>1 DEF Sound, LiveInv
    <3> QED BY <3>1, <3>2
  <2> QED BY <1>6, <2>1 DEF LiveInv
<1>10. Sound(b) /\ b.mode = c.mode /\ b.view = t
  BY <1>5, <1>6, <1>8, <1>9 DEF Sound
<1> QED BY <1>10 DEF b, w, v, i

LEMMA TouchDrop ==
  ASSUME NEW c, Sound(c), NEW d \in DBs, NEW delete \in BOOLEAN,
         c.mode \in {"read", "write", "failed"}
  PROVE  Touches(dbi_drop(c, d, delete).c, c)
<1> DEFINE r == Resolved(c, d)
           i == Least(SlotsOf(r.c, r.db))
           t == Dropped(r.c.view, r.db, delete)
           a == dbi_drop(c, d, delete)
<1>1. Reaches(r, c, d)
  BY SoundResolved
<1>2. CASE c.mode # "write" \/ DropRefused(c.view, d, delete)
  <2>1. \E res : a = Answer(c, res)
    BY <1>2 DEF dbi_drop, Writable, DropRefused
  <2> HIDE DEF a
  <2>2. PICK res : a = Answer(c, res)
    BY <2>1
  <2> QED BY <2>2, TouchesNothing DEF a
<1>3. CASE c.mode = "write" /\ ~DropRefused(c.view, d, delete) /\ r.rc # "ok"
  <2>1. dbi_drop(c, d, delete) = Answer(r.c, r.rc)
    BY <1>3 DEF dbi_drop, Writable
  <2> HIDE DEF r
  <2> QED BY <1>1, <2>1, TouchesView
<1>4. CASE c.mode = "write" /\ ~DropRefused(c.view, d, delete) /\ r.rc = "ok"
  <2>1. a = Answer(IF delete THEN Forgotten(Slain(InView(r.c, t), i), d)
                             ELSE InView(r.c, t), "ok")
    BY <1>4 DEF dbi_drop, Writable
  <2> HIDE DEF a, r
  <2>2. /\ c.view \in Stores /\ r.c.view = c.view /\ r.db \in DBs /\ Exists(c.view, r.db)
        /\ Sound(r.c) /\ r.c.mode = "write" /\ (r.db = Main <=> d = Main)
    BY <1>1, <1>4, ContextIs DEF Reaches, SameView, Sound
  <2>3. ~DropRefused(c.view, r.db, delete)
    BY <1>4, <2>2 DEF DropRefused
  <2>4. /\ t \in Stores
        /\ Named(t) = IF delete THEN Named(c.view) \ {r.db} ELSE Named(c.view)
    BY <2>2, <2>3, DroppedKeeps
  <2>5. Updated(c.view, t)
    BY <2>2, <2>3 DEF Updated
  <2> HIDE DEF t
  <2>6. CASE ~delete
    <3>1. a = Answer(InView(r.c, t), "ok")
      BY <2>1, <2>6
    <3> QED BY <1>1, <1>4, <2>4, <2>5, <2>6, <3>1, TouchesReached DEF a
  <2>7. CASE delete
    <3>1. d # Main /\ d \in Bytes /\ r.db # Main /\ r.db \in Bytes
      BY <1>4, <2>2, <2>7 DEF DropRefused, DBs
    <3>2. \E j \in Slots : r.c.slots[j] = r.db
      BY <1>1, <1>4, <3>1 DEF Reaches
    <3> DEFINE b == Forgotten(Slain(InView(r.c, t), i), d)
    <3>3. Sound(b) /\ b.mode = r.c.mode /\ b.view = t
      BY <2>2, <2>4, <2>7, <3>1, <3>2, SoundSlain
    <3>4. a.c = b
      BY <2>1, <2>7 DEF Answer
    <3> HIDE DEF b
    <3>5. Touches(a.c, c)
      BY <1>4, <2>2, <2>5, <3>3, <3>4 DEF Touches
    <3> QED BY <3>5 DEF a
  <2> QED BY <2>6, <2>7
<1> QED BY <1>2, <1>3, <1>4

\* libmdbx marks the transaction failed, or panics.
LEMMA SoundMarked ==
  ASSUME NEW c, Sound(c), NEW m \in {"failed", "stuck"}
  PROVE  LET b == [c EXCEPT !.mode = m]
         IN  Sound(b) /\ b.mode = m /\ b.view = c.view
<1> DEFINE b == [c EXCEPT !.mode = m]
<1>1. /\ b \in Context /\ b.mode = m /\ b.view = c.view /\ b.max_dbs = c.max_dbs
      /\ b.slots = c.slots /\ b.st = c.st
  BY DEF Sound, Context
<1> HIDE DEF b
<1>2. Sound(b)
  BY <1>1 DEF Sound, TableInv, LiveInv
<1> QED BY <1>1, <1>2 DEF b

LEMMA SoundFailingWrite ==
  ASSUME NEW c, Sound(c), NEW d \in DBs
  PROVE  LET b == [Resolved(c, d).c EXCEPT !.mode = "failed"]
         IN  Sound(b) /\ b.mode = "failed" /\ b.view = c.view
<1> DEFINE a == Resolved(c, d).c
<1>1. Sound(a) /\ a.view = c.view
  BY SoundResolved DEF Reaches, SameView
<1> HIDE DEF a
<1>2. LET b == [a EXCEPT !.mode = "failed"]
      IN  Sound(b) /\ b.mode = "failed" /\ b.view = c.view
  BY <1>1, SoundMarked
<1> QED BY <1>2 DEF a

LEMMA SoundFailingCreate ==
  ASSUME NEW c, Sound(c), NEW n \in Bytes
  PROVE  LET b == [(IF SlotsOf(c, n) = {} THEN c ELSE Closed(c, Least(SlotsOf(c, n))))
                     EXCEPT !.mode = "failed"]
         IN  Sound(b) /\ b.mode = "failed" /\ b.view = c.view
<1> DEFINE a == IF SlotsOf(c, n) = {} THEN c ELSE Closed(c, Least(SlotsOf(c, n)))
<1>1. Sound(a) /\ a.view = c.view
  <2>1. CASE SlotsOf(c, n) = {}
    BY <2>1
  <2>2. CASE SlotsOf(c, n) # {}
    <3>1. Least(SlotsOf(c, n)) \in Slots
      BY <2>2, SlotOf DEF Sound
    <3> QED BY <2>2, <3>1, SoundClosed DEF SameView
  <2> QED BY <2>1, <2>2
<1> HIDE DEF a
<1>2. LET b == [a EXCEPT !.mode = "failed"]
      IN  Sound(b) /\ b.mode = "failed" /\ b.view = c.view
  BY <1>1, SoundMarked
<1> QED BY <1>2 DEF a

LEMMA SoundStarted ==
  ASSUME NEW c \in Context, TableInv(c), LiveInv(c), c.mode = "none",
         NEW m \in {"read", "write"}, NEW s \in Stores
  PROVE  LET b == Started(c, m, s)
         IN  Sound(b) /\ b.mode = m /\ b.view = s
<1> DEFINE b == Started(c, m, s)
<1>1. /\ b \in Context /\ b.mode = m /\ b.view = s /\ b.max_dbs = c.max_dbs
      /\ b.slots = c.slots /\ b.st = c.st
  BY DEF Context, Started
<1>2. \A i \in Slots : c.st[i] \notin Usable
  <2>1. c = Idle(c.max_dbs, c.slots)
    BY DEF LiveInv
  <2>2. c.st = Untouched
    BY <2>1 DEF Idle
  <2> QED BY <2>2 DEF Untouched, Usable
<1> HIDE DEF b
<1>3. Sound(b)
  BY <1>1, <1>2 DEF Sound, TableInv, LiveInv
<1> QED BY <1>1, <1>3 DEF b

-----------------------------------------------------------------------------
(* The shared invariant and the actions.                                   *)

LEMMA SharedContexts ==
  ASSUME SharedInv, NEW p \in Procs
  PROVE  /\ ctx[p] \in Context /\ TableInv(ctx[p]) /\ LiveInv(ctx[p])
         /\ committed \in Stores /\ ctx[p].view \in Stores
         /\ ctx[p].mode # "none" => Sound(ctx[p])
BY ContextIs DEF SharedInv, TypeOK, Sound

\* A call of p leaves it a sound context.
LEMMA SharedBecomes ==
  ASSUME SharedInv, NEW p \in Procs, NEW c, Sound(c),
         \/ c.mode = ctx[p].mode
         \/ ctx[p].mode = "write" /\ c.mode = "failed"
         \/ c.mode = "stuck",
         ctx' = [ctx EXCEPT ![p] = c], UNCHANGED <<committed, writer>>
  PROVE  SharedInv'
<1>1. \A q \in Procs : ctx'[q] = IF q = p THEN c ELSE ctx[q]
  BY DEF SharedInv, TypeOK
<1>2. TypeOK'
  BY DEF SharedInv, TypeOK, Sound
<1>3. WriterInv'
  BY <1>1 DEF SharedInv, WriterInv
<1>4. ASSUME NEW q \in Procs PROVE TableInv(ctx'[q]) /\ LiveInv(ctx'[q])
  BY <1>1 DEF SharedInv, Sound
<1> QED BY <1>2, <1>3, <1>4 DEF SharedInv

\* A transaction begins.
LEMMA SharedBegin ==
  ASSUME SharedInv, NEW p \in Procs, NEW m \in {"read", "write"}, Begin(p, m)
  PROVE  SharedInv'
<1> DEFINE c == Started(ctx[p], m, committed)
<1>1. Sound(c) /\ c.mode = m
  BY SharedContexts, SoundStarted DEF Begin
<1>2. ctx' = [ctx EXCEPT ![p] = c]
  BY DEF Begin, SharedInv, TypeOK, Started
<1> HIDE DEF c
<1>3. \A q \in Procs : ctx'[q] = IF q = p THEN c ELSE ctx[q]
  BY <1>2 DEF SharedInv, TypeOK
<1>4. TypeOK'
  BY <1>1, <1>2 DEF Begin, SharedInv, TypeOK, Sound
<1>5. WriterInv'
  <2>1. CASE m = "write"
    BY <1>1, <1>3, <2>1, StoreAssumption DEF Begin, SharedInv, WriterInv
  <2>2. CASE m = "read"
    BY <1>1, <1>3, <2>2 DEF Begin, SharedInv, WriterInv
  <2> QED BY <2>1, <2>2
<1>6. ASSUME NEW q \in Procs PROVE TableInv(ctx'[q]) /\ LiveInv(ctx'[q])
  BY <1>1, <1>3 DEF SharedInv, Sound
<1> QED BY <1>4, <1>5, <1>6 DEF SharedInv

\* A transaction of p ends, or its process; s is published.
LEMMA SharedOver ==
  ASSUME SharedInv, NEW p \in Procs, NEW max \in MaxDbs,
         NEW slots \in [Slots -> Bytes \cup {Null}],
         \A i, j \in Slots : slots[i] = slots[j] /\ slots[i] # Null => i = j,
         \A i \in Slots : slots[i] # Null => i <= max,
         committed' \in Stores, writer' = (IF writer = p THEN Null ELSE writer),
         ctx' = [ctx EXCEPT ![p] = Idle(max, slots)]
  PROVE  SharedInv'
<1> DEFINE c == Idle(max, slots)
<1>1. c \in Context /\ c.mode = "none" /\ TableInv(c) /\ LiveInv(c)
  BY IdleIs
<1> HIDE DEF c
<1>2. \A q \in Procs : ctx'[q] = IF q = p THEN c ELSE ctx[q]
  BY DEF SharedInv, TypeOK, c
<1>3. TypeOK'
  BY <1>1 DEF SharedInv, TypeOK, c
<1>4. WriterInv'
  BY <1>1, <1>2, StoreAssumption DEF SharedInv, WriterInv
<1>5. ASSUME NEW q \in Procs PROVE TableInv(ctx'[q]) /\ LiveInv(ctx'[q])
  BY <1>1, <1>2 DEF SharedInv
<1> QED BY <1>3, <1>4, <1>5 DEF SharedInv

LEMMA SharedEnds ==
  ASSUME SharedInv, NEW p \in Procs, NEW s \in Stores, NEW st, Ends(p, s, SlotsWithout(ctx[p], st))
  PROVE  SharedInv'
<1> DEFINE slots == SlotsWithout(ctx[p], st)
<1>1. ctx[p] \in Context /\ TableInv(ctx[p])
  BY SharedContexts
<1>2. /\ slots \in [Slots -> Bytes \cup {Null}] /\ ctx[p].max_dbs \in MaxDbs
      /\ \A i \in Slots : slots[i] # Null => slots[i] = ctx[p].slots[i]
  BY <1>1, ContextIs DEF SlotsWithout
<1>3. /\ committed' = s /\ writer' = (IF writer = p THEN Null ELSE writer)
      /\ ctx' = [ctx EXCEPT ![p] = Idle(ctx[p].max_dbs, slots)]
  BY DEF Ends
<1> HIDE DEF slots
<1>4. /\ \A i, j \in Slots : slots[i] = slots[j] /\ slots[i] # Null => i = j
      /\ \A i \in Slots : slots[i] # Null => i <= ctx[p].max_dbs
  BY <1>1, <1>2 DEF TableInv
<1> QED BY <1>2, <1>3, <1>4, SharedOver

LEMMA SharedEnd ==
  ASSUME SharedInv, NEW p \in Procs, Commit(p) \/ Abort(p) \/ Die(p)
  PROVE  SharedInv'
<1>1. committed \in Stores /\ ctx[p].view \in Stores
  BY SharedContexts
<1>2. CASE ctx[p].mode = "write" /\ Ends(p, ctx[p].view, SlotsWithout(ctx[p], {"slain"}))
  BY <1>1, <1>2, SharedEnds
<1>3. CASE ctx[p].mode = "read" /\ Ends(p, committed, ctx[p].slots)
  <2>1. SlotsWithout(ctx[p], {}) = ctx[p].slots
    BY SharedContexts, ContextIs DEF SlotsWithout
  <2> QED BY <1>1, <1>3, <2>1, SharedEnds
<1>4. CASE Rollback(p)
  BY <1>1, <1>4, SharedEnds DEF Rollback
<1>5. CASE Die(p)
  <2>1. PICK max \in MaxDbs : /\ ctx' = [ctx EXCEPT ![p] = Reopened(max)]
                              /\ writer' = IF writer = p THEN Null ELSE writer
                              /\ committed' = committed
    BY <1>5 DEF Die
  <2>2. NoSlots \in [Slots -> Bytes \cup {Null}] /\ \A i \in Slots : NoSlots[i] = Null
    BY DEF NoSlots
  <2> QED BY <1>1, <2>1, <2>2, SharedOver DEF Reopened
<1> QED BY <1>2, <1>3, <1>4, <1>5 DEF Commit, Abort

\* What a call of p comes to.
LEMMA CallTouches ==
  ASSUME SharedInv, NEW p \in Procs,
         Get(p) \/ Put(p) \/ Del(p) \/ DbiOpen(p) \/ DbiDrop(p)
  PROVE  \E c : Becomes(p, c) /\ Touches(c, ctx[p])
<1> DEFINE b == ctx[p]
<1>0. b.mode \in {"read", "write", "failed"} /\ Sound(b)
  <2>1. Active(p)
    BY DEF Get, Put, Del, DbiOpen, DbiDrop, Becomes
  <2> QED BY <2>1, SharedContexts DEF Active
<1>1. CASE Get(p)
  BY <1>0, <1>1, TouchGet DEF Get
<1>2. CASE Put(p)
  BY <1>0, <1>2, TouchPut DEF Put
<1>3. CASE Del(p)
  BY <1>0, <1>3, TouchDel DEF Del
<1>4. CASE DbiOpen(p)
  BY <1>0, <1>4, TouchOpen DEF DbiOpen
<1>5. CASE DbiDrop(p)
  BY <1>0, <1>5, TouchDrop DEF DbiDrop
<1> QED BY <1>1, <1>2, <1>3, <1>4, <1>5

\* What a failure in a call of p comes to.
LEMMA FailureMarks ==
  ASSUME SharedInv, NEW p \in Procs, WriteFails(p) \/ CreateFails(p) \/ Panic(p)
  PROVE  \E c : /\ Becomes(p, c) /\ Sound(c) /\ c.view = ctx[p].view
                /\ \/ ctx[p].mode = "write" /\ c.mode = "failed"
                   \/ c.mode = "stuck"
<1>1. CASE WriteFails(p)
  <2>1. PICK d \in DBs : /\ ctx[p].mode = "write"
                         /\ Becomes(p, [Resolved(ctx[p], d).c EXCEPT !.mode = "failed"])
    BY <1>1 DEF WriteFails
  <2> DEFINE c == [Resolved(ctx[p], d).c EXCEPT !.mode = "failed"]
  <2>2. Sound(c) /\ c.mode = "failed" /\ c.view = ctx[p].view
    BY <2>1, SharedContexts, SoundFailingWrite
  <2>3. Becomes(p, c)
    BY <2>1
  <2> HIDE DEF c
  <2> QED BY <2>1, <2>2, <2>3
<1>2. CASE CreateFails(p)
  <2>1. PICK n \in Bytes : LET c == ctx[p] IN
          /\ c.mode = "write" /\ NativeOpen(c, n, TRUE).c.view # c.view
          /\ Becomes(p, [(IF SlotsOf(c, n) = {} THEN c ELSE Closed(c, Least(SlotsOf(c, n))))
                           EXCEPT !.mode = "failed"])
    BY <1>2 DEF CreateFails
  <2> DEFINE b == ctx[p]
             c == [(IF SlotsOf(b, n) = {} THEN b ELSE Closed(b, Least(SlotsOf(b, n))))
                     EXCEPT !.mode = "failed"]
  <2>2. Sound(c) /\ c.mode = "failed" /\ c.view = b.view
    BY <2>1, SharedContexts, SoundFailingCreate
  <2>3. Becomes(p, c) /\ b.mode = "write"
    BY <2>1
  <2> HIDE DEF c
  <2> QED BY <2>2, <2>3
<1>3. CASE Panic(p)
  <2> DEFINE c == [ctx[p] EXCEPT !.mode = "stuck"]
  <2>1. Sound(c) /\ c.mode = "stuck" /\ c.view = ctx[p].view
    BY <1>3, SharedContexts, SoundMarked DEF Panic, Active
  <2>2. Becomes(p, c)
    BY <1>3 DEF Panic, SharedInv, TypeOK, Becomes
  <2> HIDE DEF c
  <2> QED BY <2>1, <2>2
<1> QED BY <1>1, <1>2, <1>3

\* It is the weaker of the two invariants.
LEMMA SharedWeaker ==
  ASSUME IInv
  PROVE  SharedInv
<1>1. ASSUME NEW c, SlotsInv(c), ViewInv(c) PROVE TableInv(c) /\ LiveInv(c)
  <2>1. \A i \in Slots : c.st[i] \in Usable => c.slots[i] # Null /\ c.st[i] # "slain"
    BY <1>1 DEF SlotsInv, TableInv, Usable
  <2> QED BY <1>1, <2>1 DEF SlotsInv, ViewInv, LiveInv
<1> QED BY <1>1 DEF IInv, SharedInv

LEMMA SharedInit ==
  ASSUME Init
  PROVE  SharedInv
BY InitGood, SharedWeaker

LEMMA SharedStep ==
  ASSUME SharedInv, [Next]_vars
  PROVE  SharedInv'
<1>1. ASSUME NEW p \in Procs, Step(p) PROVE SharedInv'
  <2>1. CASE Begin(p, "read") \/ Begin(p, "write")
    BY <2>1, SharedBegin
  <2>2. CASE Get(p) \/ Put(p) \/ Del(p) \/ DbiOpen(p) \/ DbiDrop(p)
    BY <2>2, CallTouches, SharedBecomes DEF Touches, Becomes
  <2>3. CASE WriteFails(p) \/ CreateFails(p) \/ Panic(p)
    BY <2>3, FailureMarks, SharedBecomes DEF Becomes
  <2>4. CASE Commit(p) \/ Abort(p) \/ Die(p)
    BY <2>4, SharedEnd
  <2> QED BY <1>1, <2>1, <2>2, <2>3, <2>4 DEF Step
<1>2. CASE UNCHANGED vars
  BY <1>2 DEF vars, SharedInv, TypeOK, WriterInv, TableInv, LiveInv
<1> QED BY <1>1, <1>2 DEF Next

\* However many processes delete named databases: the handle table of each
\* keeps one slot for a name, a slot libmdbx takes for usable leads to a
\* database of the view, and the writer lock is the writer's.
THEOREM AlwaysShared == Spec => []SharedInv
<1>1. Init => SharedInv
  BY SharedInit
<1>2. SharedInv /\ [Next]_vars => SharedInv'
  BY SharedStep
<1> QED BY <1>1, <1>2, PTL DEF Spec

\* The package's record of its handles, names and transactions has its type.
THEOREM TypeCorrect == Spec => []TypeOK
<1>1. SharedInv => TypeOK
  BY DEF SharedInv
<1> QED BY <1>1, AlwaysShared, PTL

-----------------------------------------------------------------------------
(* When a name may lead to another database: only in a transaction that    *)
(* began with a stale handle.                                              *)

\* Every handle of p leads to a published database.
NothingStale(p) ==
  \A i \in Slots : ctx[p].slots[i] # Null => ctx[p].slots[i] \in Named(committed)

\* The transaction of p has a good context, for the contents it began with.
Unaliased(p) == \E s \in Stores : Good(ctx[p], s)

LEMMA BeginsUnaliased ==
  ASSUME SharedInv, NEW p \in Procs, NothingStale(p),
         NEW m \in {"read", "write"}, Begin(p, m)
  PROVE  Unaliased(p)'
<1> DEFINE c == ctx[p]
           s == committed
<1>1. /\ c \in Context /\ TableInv(c) /\ LiveInv(c) /\ c.mode = "none"
      /\ s \in Stores
  BY SharedContexts DEF Begin
<1>2. c = Idle(c.max_dbs, c.slots) /\ c.max_dbs \in MaxDbs
      /\ c.slots \in [Slots -> Bytes \cup {Null}]
  BY <1>1, ContextIs DEF LiveInv
<1>3. Fine(c, s)
  <2>1. /\ \A i, j \in Slots : c.slots[i] = c.slots[j] /\ c.slots[i] # Null => i = j
        /\ \A i \in Slots : c.slots[i] # Null =>
             i <= c.max_dbs /\ c.slots[i] \in Named(s)
    BY <1>1 DEF TableInv, NothingStale
  <2> HIDE DEF c, s
  <2>2. Fine(Idle(c.max_dbs, c.slots), s)
    BY <1>2, <2>1, Resting
  <2> QED BY <1>2, <2>2
<1> DEFINE b == Started(c, m, s)
<1>4. Good(b, s)
  BY <1>1, <1>3, Starting
<1>5. ctx'[p] = b
  BY DEF Begin, SharedInv, TypeOK, Started
<1> HIDE DEF b, c
<1> QED BY <1>1, <1>4, <1>5 DEF Unaliased

LEMMA StaysUnaliased ==
  ASSUME SharedInv, NEW p \in Procs, Unaliased(p),
         \/ Get(p) \/ Put(p) \/ Del(p) \/ DbiOpen(p) \/ DbiDrop(p)
         \/ WriteFails(p) \/ CreateFails(p) \/ Panic(p)
  PROVE  Unaliased(p)'
<1>1. PICK s \in Stores : Good(ctx[p], s)
  BY DEF Unaliased
<1>2. ctx \in [Procs -> Context]
  BY DEF SharedInv, TypeOK
<1>3. \E c : Becomes(p, c) /\ Good(c, s)
  <2>1. CASE Get(p) \/ Put(p) \/ Del(p) \/ DbiOpen(p) \/ DbiDrop(p)
    BY <1>1, <2>1, CallActs DEF Acts
  <2>2. CASE WriteFails(p) \/ CreateFails(p) \/ Panic(p)
    BY <1>1, <1>2, <2>2, FailureGood
  <2> QED BY <2>1, <2>2
<1>4. PICK c : Becomes(p, c) /\ Good(c, s)
  BY <1>3
<1>5. ctx'[p] = c
  BY <1>2, <1>4 DEF Becomes
<1> QED BY <1>4, <1>5 DEF Unaliased

\* A process is alone with what it holds.
LEMMA OthersKeep ==
  ASSUME SharedInv, NEW p \in Procs, NEW q \in Procs, Step(q), p # q
  PROVE  ctx'[p] = ctx[p]
<1>1. ctx \in [Procs -> Context]
  BY DEF SharedInv, TypeOK
<1>2. ASSUME NEW c, Becomes(q, c) PROVE ctx'[p] = ctx[p]
  BY <1>1, <1>2 DEF Becomes
<1>3. ASSUME NEW s, NEW slots, Ends(q, s, slots) PROVE ctx'[p] = ctx[p]
  BY <1>1, <1>3 DEF Ends
<1>4. CASE Get(q) \/ Put(q) \/ Del(q) \/ DbiOpen(q) \/ DbiDrop(q)
  BY <1>2, <1>4 DEF Get, Put, Del, DbiOpen, DbiDrop
<1>5. CASE WriteFails(q) \/ CreateFails(q)
  BY <1>2, <1>5 DEF WriteFails, CreateFails
<1>6. CASE Commit(q) \/ Abort(q)
  BY <1>3, <1>6 DEF Commit, Abort, Rollback
<1>7. CASE Begin(q, "read") \/ Begin(q, "write")
  BY <1>1, <1>7 DEF Begin
<1>8. CASE Panic(q) \/ Die(q)
  BY <1>1, <1>8 DEF Panic, Die
<1> QED BY <1>4, <1>5, <1>6, <1>7, <1>8 DEF Step

\* A transaction that begins when every handle of its process leads to a
\* published database never meets another one's under a name, whatever other
\* processes delete and create meanwhile: its context stays one in which
\* (GoodActs) each call acts on the database it names.
THEOREM NeverAliased ==
  Spec => [][\A p \in Procs :
               (IF ctx[p].mode = "none" THEN NothingStale(p) ELSE Unaliased(p))
                 => (ctx[p].mode # "none" => Unaliased(p))']_vars
<1> DEFINE Kept == \A p \in Procs :
               (IF ctx[p].mode = "none" THEN NothingStale(p) ELSE Unaliased(p))
                 => (ctx[p].mode # "none" => Unaliased(p))'
<1>1. ASSUME SharedInv, Next PROVE Kept
  <2> SUFFICES ASSUME NEW p \in Procs,
                      IF ctx[p].mode = "none" THEN NothingStale(p) ELSE Unaliased(p),
                      ctx'[p].mode # "none"
               PROVE  Unaliased(p)'
    OBVIOUS
  <2>1. PICK q \in Procs : Step(q)
    BY <1>1 DEF Next
  <2>2. CASE q # p
    BY <1>1, <2>1, <2>2, OthersKeep DEF Unaliased
  <2>3. CASE q = p
    <3>1. CASE Begin(p, "read") \/ Begin(p, "write")
      BY <1>1, <3>1, BeginsUnaliased DEF Begin
    <3>2. CASE \/ Get(p) \/ Put(p) \/ Del(p) \/ DbiOpen(p) \/ DbiDrop(p)
               \/ WriteFails(p) \/ CreateFails(p) \/ Panic(p)
      <4>1. ctx[p].mode # "none"
        BY <3>2 DEF Get, Put, Del, DbiOpen, DbiDrop, WriteFails, CreateFails,
                    Panic, Becomes, Active
      <4> QED BY <1>1, <3>2, <4>1, StaysUnaliased
    <3>3. ASSUME NEW max, NEW slots, ctx' = [ctx EXCEPT ![p] = Idle(max, slots)]
          PROVE  FALSE
      BY <1>1, <3>3 DEF SharedInv, TypeOK, Idle
    <3>4. CASE Commit(p) \/ Abort(p)
      BY <3>3, <3>4 DEF Commit, Abort, Rollback, Ends
    <3>5. CASE Die(p)
      BY <3>3, <3>5 DEF Die, Reopened
    <3> QED BY <2>1, <2>3, <3>1, <3>2, <3>4, <3>5 DEF Step
  <2> QED BY <2>2, <2>3
<1>2. SharedInv /\ [Next]_vars => [Kept]_vars
  BY <1>1
<1> QED BY <1>2, AlwaysShared, PTL DEF Spec

\* As long as that is so, every call of the transaction acts on the database
\* it names, or reports that there is none (ensure_dbi(), txn_handle::named).
THEOREM UnaliasedActs ==
  ASSUME NEW p \in Procs, Unaliased(p), ctx[p].mode \in {"read", "write"}
  PROVE  ActsAsNamed(ctx[p])
BY GoodActs DEF Unaliased

-----------------------------------------------------------------------------
(* The refinement.                                                         *)

Modes == [p \in Procs |-> ctx[p].mode]
Views == [p \in Procs |-> ctx[p].view]

\* The abstract contents are the same.
LEMMA SameContents ==
  /\ Atomic!DBs = DBs /\ Atomic!EmptyStore = EmptyStore
  /\ \A s, d : Atomic!Exists(s, d) = Exists(s, d)
  /\ \A s, d, k : Atomic!Present(s, d, k) = Present(s, d, k)
  /\ \A s, d, k, v, overwrite :
       Atomic!PutStore(s, d, k, v, overwrite) = PutStore(s, d, k, v, overwrite)
  /\ \A s, d, k : Atomic!DelStore(s, d, k) = DelStore(s, d, k)
  /\ \A s, n : Atomic!Created(s, n) = Created(s, n)
  /\ \A s, d, delete : /\ Atomic!DropRefused(s, d, delete) = DropRefused(s, d, delete)
                       /\ Atomic!Dropped(s, d, delete) = Dropped(s, d, delete)
<1>1. Atomic!DBs = DBs
  BY DEF Atomic!DBs, DBs
<1>2. Atomic!Empty = Empty
  BY DEF Atomic!Empty, Empty
<1>3. Atomic!EmptyStore = EmptyStore
  BY <1>1, <1>2 DEF Atomic!EmptyStore, EmptyStore
<1>4. \A s, d : Atomic!Exists(s, d) = Exists(s, d)
  BY DEF Atomic!Exists, Exists
<1>5. \A s, d, k : Atomic!Present(s, d, k) = Present(s, d, k)
  BY DEF Atomic!Present, Present
<1>6. \A s, d, k, v, overwrite :
        Atomic!PutStore(s, d, k, v, overwrite) = PutStore(s, d, k, v, overwrite)
  BY DEF Atomic!PutStore, PutStore, Atomic!Puts, Puts, Atomic!Present, Present
<1>7. \A s, d, k : Atomic!DelStore(s, d, k) = DelStore(s, d, k)
  BY DEF Atomic!DelStore, DelStore
<1>8. \A s, n : Atomic!Created(s, n) = Created(s, n)
  BY <1>2 DEF Atomic!Created, Created
<1>9. \A s : Atomic!Named(s) = Named(s)
  BY DEF Atomic!Named, Named
<1>10. \A s, d, delete : Atomic!DropRefused(s, d, delete) = DropRefused(s, d, delete)
  BY <1>9 DEF Atomic!DropRefused, DropRefused
<1>11. \A s, d : Atomic!Purged(s, d) = Purged(s, d)
  BY <1>2, <1>3 DEF Atomic!Purged, Purged
<1>12. \A s, d, delete : Atomic!Dropped(s, d, delete) = Dropped(s, d, delete)
  BY <1>11 DEF Atomic!Dropped, Dropped
<1> QED BY <1>1, <1>3, <1>4, <1>5, <1>6, <1>7, <1>8, <1>10, <1>12

AtomicStep == Atomic!Next \/ UNCHANGED <<committed, writer, Modes, Views>>

\* A call that does nothing that can be seen.
LEMMA SeenSame ==
  ASSUME SharedInv, NEW p \in Procs, NEW c, Becomes(p, c), c.mode = ctx[p].mode,
         c.view = ctx[p].view
  PROVE  AtomicStep
<1>1. \A q \in Procs : ctx'[q].mode = ctx[q].mode /\ ctx'[q].view = ctx[q].view
  BY DEF SharedInv, TypeOK, Becomes
<1>2. Modes' = Modes /\ Views' = Views
  BY <1>1 DEF Modes, Views
<1> QED BY <1>2 DEF AtomicStep, Becomes

LEMMA SeenWrite ==
  ASSUME SharedInv, NEW p \in Procs, NEW c, Becomes(p, c), c.mode = "write",
         ctx[p].mode = "write"
  PROVE  /\ Modes' = Modes /\ Modes[p] = "write"
         /\ Views' = [Views EXCEPT ![p] = c.view]
<1>1. ctx \in [Procs -> Context] /\ ctx' = [ctx EXCEPT ![p] = c]
  BY DEF SharedInv, TypeOK, Becomes
<1>2. Modes' = Modes /\ Modes[p] = "write"
  BY <1>1 DEF Modes
<1>3. Views' = [Views EXCEPT ![p] = c.view]
  BY <1>1 DEF Views
<1> QED BY <1>2, <1>3

LEMMA SeenFail ==
  ASSUME SharedInv, NEW p \in Procs, NEW c, Becomes(p, c), c.view = ctx[p].view,
         \/ ctx[p].mode = "write" /\ c.mode = "failed"
         \/ c.mode = "stuck"
  PROVE  Atomic!Fail(p)
<1>1. ctx \in [Procs -> Context] /\ ctx' = [ctx EXCEPT ![p] = c]
  BY DEF SharedInv, TypeOK, Becomes
<1>2. /\ Modes' = [Modes EXCEPT ![p] = c.mode]
      /\ Modes[p] = ctx[p].mode /\ Modes[p] \in {"read", "write", "failed"}
  BY <1>1 DEF Modes, Becomes, Active
<1>3. Views' = Views
  BY <1>1 DEF Views
<1>4. c.mode \in {"failed", "stuck"} /\ (c.mode = "failed" => Modes[p] = "write")
  BY <1>2
<1> QED BY <1>2, <1>3, <1>4 DEF Atomic!Fail, Modes, Views, Becomes

LEMMA SeenEnd ==
  ASSUME SharedInv, NEW p \in Procs, NEW c, c.mode = "none", c.view = EmptyStore,
         ctx' = [ctx EXCEPT ![p] = c]
  PROVE  /\ Modes' = [Modes EXCEPT ![p] = "none"]
         /\ Views' = [Views EXCEPT ![p] = Atomic!EmptyStore]
<1>1. ctx \in [Procs -> Context]
  BY DEF SharedInv, TypeOK
<1>2. Modes' = [Modes EXCEPT ![p] = "none"]
  BY <1>1 DEF Modes
<1>3. Views' = [Views EXCEPT ![p] = Atomic!EmptyStore]
  BY <1>1, SameContents DEF Views
<1> QED BY <1>2, <1>3

\* A call that writes.
LEMMA SeenUpdate ==
  ASSUME SharedInv, NEW p \in Procs, NEW c, Becomes(p, c), c.mode = "write",
         ctx[p].mode = "write", Updated(ctx[p].view, c.view)
  PROVE  AtomicStep
<1>1. /\ Modes' = Modes /\ Modes[p] = "write" /\ Views' = [Views EXCEPT ![p] = c.view]
      /\ committed' = committed /\ writer' = writer
  BY SeenWrite DEF Becomes
<1>2. Views[p] = ctx[p].view
  BY DEF Views
<1>3. Atomic!Update(p)
  <2>1. CASE \E d \in DBs, k \in Bytes, v \in Vals, overwrite \in BOOLEAN :
               /\ Exists(ctx[p].view, d)
               /\ c.view = PutStore(ctx[p].view, d, k, v, overwrite)
    <3>1. PICK d \in DBs, k \in Bytes, v \in Vals, overwrite \in BOOLEAN :
            /\ Exists(ctx[p].view, d)
            /\ c.view = PutStore(ctx[p].view, d, k, v, overwrite)
      BY <2>1
    <3>2. /\ d \in Atomic!DBs /\ Atomic!Exists(Views[p], d)
          /\ c.view = Atomic!PutStore(Views[p], d, k, v, overwrite)
      BY <1>2, <3>1, SameContents, Zenon
    <3>3. /\ Modes[p] = "write" /\ UNCHANGED <<committed, writer, Modes>>
          /\ Views' = [Views EXCEPT ![p] = Atomic!PutStore(Views[p], d, k, v, overwrite)]
      BY <1>1, <3>2
    <3> QED BY <3>2, <3>3, Zenon DEF Atomic!Update, Atomic!Write, Modes, Views
  <2>2. CASE \E d \in DBs, k \in Bytes :
               Exists(ctx[p].view, d) /\ c.view = DelStore(ctx[p].view, d, k)
    <3>1. PICK d \in DBs, k \in Bytes :
            Exists(ctx[p].view, d) /\ c.view = DelStore(ctx[p].view, d, k)
      BY <2>2
    <3>2. /\ d \in Atomic!DBs /\ Atomic!Exists(Views[p], d)
          /\ c.view = Atomic!DelStore(Views[p], d, k)
      BY <1>2, <3>1, SameContents, Zenon
    <3> QED BY <1>1, <3>2 DEF Atomic!Update, Atomic!Write, Modes, Views
  <2>3. CASE \E n \in Bytes :
               ~Present(ctx[p].view, Main, n) /\ c.view = Created(ctx[p].view, n)
    <3>1. PICK n \in Bytes :
            ~Present(ctx[p].view, Main, n) /\ c.view = Created(ctx[p].view, n)
      BY <2>3
    <3>2. /\ ~Atomic!Present(Views[p], Main, n)
          /\ c.view = Atomic!Created(Views[p], n)
      BY <1>2, <3>1, SameContents, Zenon
    <3> QED BY <1>1, <3>2 DEF Atomic!Update, Atomic!Write, Modes, Views
  <2>4. CASE \E d \in DBs, delete \in BOOLEAN :
               /\ Exists(ctx[p].view, d) /\ ~DropRefused(ctx[p].view, d, delete)
               /\ c.view = Dropped(ctx[p].view, d, delete)
    <3>1. PICK d \in DBs, delete \in BOOLEAN :
            /\ Exists(ctx[p].view, d) /\ ~DropRefused(ctx[p].view, d, delete)
            /\ c.view = Dropped(ctx[p].view, d, delete)
      BY <2>4
    <3>2. /\ d \in Atomic!DBs /\ Atomic!Exists(Views[p], d)
          /\ ~Atomic!DropRefused(Views[p], d, delete)
          /\ c.view = Atomic!Dropped(Views[p], d, delete)
      BY <1>2, <3>1, SameContents, Zenon
    <3> QED BY <1>1, <3>2 DEF Atomic!Update, Atomic!Write, Modes, Views
  <2> QED BY <2>1, <2>2, <2>3, <2>4 DEF Updated
<1> QED BY <1>3 DEF AtomicStep, Atomic!Next

\* A call is an update of AtomicStore, or leaves the view.
LEMMA SeenCall ==
  ASSUME SharedInv, NEW p \in Procs,
         Get(p) \/ Put(p) \/ Del(p) \/ DbiOpen(p) \/ DbiDrop(p)
  PROVE  AtomicStep
<1>1. PICK c : Becomes(p, c) /\ Touches(c, ctx[p])
  BY CallTouches
<1> QED BY <1>1, SeenSame, SeenUpdate DEF Touches

LEMMA SeenBegin ==
  ASSUME SharedInv, NEW p \in Procs, NEW m \in {"read", "write"}, Begin(p, m)
  PROVE  AtomicStep
<1>1. ctx \in [Procs -> Context]
  BY DEF SharedInv, TypeOK
<1> DEFINE c == Started(ctx[p], m, committed)
<1>2. ctx' = [ctx EXCEPT ![p] = c]
  BY <1>1 DEF Begin, Started
<1>3. c.mode = m /\ c.view = committed
  BY <1>1 DEF Started, Context
<1> HIDE DEF c
<1>4. Modes' = [Modes EXCEPT ![p] = m] /\ Modes[p] = "none"
  BY <1>1, <1>2, <1>3 DEF Modes, Begin
<1>5. Views' = [Views EXCEPT ![p] = committed]
  BY <1>1, <1>2, <1>3 DEF Views
<1>6. Atomic!Begin(p, m)
  BY <1>4, <1>5 DEF Atomic!Begin, Begin, Modes, Views
<1> QED BY <1>6 DEF AtomicStep, Atomic!Next

LEMMA SeenFailing ==
  ASSUME SharedInv, NEW p \in Procs, WriteFails(p) \/ CreateFails(p) \/ Panic(p)
  PROVE  AtomicStep
<1>1. Atomic!Fail(p)
  BY FailureMarks, SeenFail
<1> QED BY <1>1 DEF AtomicStep, Atomic!Next

\* A transaction of p ends: in the abstract it commits, or is discarded.
LEMMA SeenEnds ==
  ASSUME SharedInv, NEW p \in Procs, NEW s, NEW slots, Ends(p, s, slots),
         \/ ctx[p].mode = "write" /\ s = ctx[p].view
         \/ ctx[p].mode # "none" /\ s = committed
  PROVE  AtomicStep
<1> DEFINE c == Idle(ctx[p].max_dbs, slots)
<1>1. c.mode = "none" /\ c.view = EmptyStore
  BY DEF Idle
<1>2. /\ committed' = s /\ ctx' = [ctx EXCEPT ![p] = c]
      /\ writer' = IF writer = p THEN Null ELSE writer
  BY DEF Ends
<1> HIDE DEF c
<1>3. /\ Modes' = [Modes EXCEPT ![p] = "none"]
      /\ Views' = [Views EXCEPT ![p] = Atomic!EmptyStore]
  BY <1>1, <1>2, SeenEnd
<1>4. Views[p] = ctx[p].view /\ Modes[p] = ctx[p].mode
  BY DEF Views, Modes
<1>5. Atomic!Commit(p) \/ Atomic!Discard(p)
  <2>1. CASE ctx[p].mode = "write" /\ s = ctx[p].view
    BY <1>2, <1>3, <1>4, <2>1 DEF Atomic!Commit, Atomic!End, Modes, Views
  <2>2. CASE ctx[p].mode # "none" /\ s = committed
    BY <1>2, <1>3, <1>4, <2>2 DEF Atomic!Discard, Atomic!End, Modes, Views
  <2> QED BY <2>1, <2>2
<1> QED BY <1>5 DEF AtomicStep, Atomic!Next

LEMMA SeenDie ==
  ASSUME SharedInv, NEW p \in Procs, Die(p)
  PROVE  AtomicStep
<1>1. PICK max \in MaxDbs : /\ ctx' = [ctx EXCEPT ![p] = Reopened(max)]
                            /\ writer' = IF writer = p THEN Null ELSE writer
                            /\ committed' = committed
  BY DEF Die
<1> DEFINE c == Reopened(max)
<1>2. c.mode = "none" /\ c.view = EmptyStore
  BY Reopening
<1> HIDE DEF c
<1>3. ctx \in [Procs -> Context] /\ ctx' = [ctx EXCEPT ![p] = c]
  BY <1>1 DEF SharedInv, TypeOK, c
<1>4. CASE ctx[p].mode = "none"
  <2>1. ctx[p].view = EmptyStore /\ writer # p
    <3>1. ctx[p] = Idle(ctx[p].max_dbs, ctx[p].slots)
      BY <1>4 DEF SharedInv, LiveInv
    <3>2. ctx[p].view = EmptyStore
      BY <3>1 DEF Idle
    <3> QED BY <1>4, <3>2 DEF SharedInv, WriterInv
  <2>2. \A q \in Procs : ctx'[q].mode = ctx[q].mode /\ ctx'[q].view = ctx[q].view
    BY <1>2, <1>3, <1>4, <2>1
  <2>3. Modes' = Modes /\ Views' = Views
    BY <2>2 DEF Modes, Views
  <2> QED BY <1>1, <2>1, <2>3 DEF AtomicStep
<1>5. CASE ctx[p].mode # "none"
  <2>1. /\ Modes' = [Modes EXCEPT ![p] = "none"]
        /\ Views' = [Views EXCEPT ![p] = Atomic!EmptyStore]
    BY <1>2, <1>3, SeenEnd
  <2>2. Modes[p] # "none"
    BY <1>5 DEF Modes
  <2>3. Atomic!Discard(p)
    BY <1>1, <2>1, <2>2 DEF Atomic!Discard, Atomic!End, Modes, Views
  <2> QED BY <2>3 DEF AtomicStep, Atomic!Next
<1> QED BY <1>4, <1>5

LEMMA SeenStep ==
  ASSUME SharedInv, [Next]_vars
  PROVE  [Atomic!Next]_(Atomic!vars)
<1>1. ASSUME NEW p \in Procs, Step(p) PROVE AtomicStep
  <2>1. CASE Begin(p, "read") \/ Begin(p, "write")
    BY <2>1, SeenBegin
  <2>2. CASE Get(p) \/ Put(p) \/ Del(p) \/ DbiOpen(p) \/ DbiDrop(p)
    BY <2>2, SeenCall
  <2>3. CASE WriteFails(p) \/ CreateFails(p) \/ Panic(p)
    BY <2>3, SeenFailing
  <2>4. CASE Commit(p) \/ Abort(p)
    <3>1. \/ ctx[p].mode = "write" /\ Ends(p, ctx[p].view, SlotsWithout(ctx[p], {"slain"}))
          \/ ctx[p].mode = "read" /\ Ends(p, committed, ctx[p].slots)
          \/ ctx[p].mode # "none" /\ Ends(p, committed, SlotsWithout(ctx[p], {"new"}))
      BY <2>4 DEF Commit, Abort, Rollback, Active
    <3> QED BY <3>1, SeenEnds
  <2>5. CASE Die(p)
    BY <2>5, SeenDie
  <2> QED BY <1>1, <2>1, <2>2, <2>3, <2>4, <2>5 DEF Step
<1>2. ASSUME UNCHANGED vars PROVE AtomicStep
  <2>1. committed' = committed /\ writer' = writer /\ ctx' = ctx
    BY <1>2 DEF vars
  <2>2. Modes' = Modes /\ Views' = Views
    BY <2>1 DEF Modes, Views
  <2> QED BY <2>1, <2>2 DEF AtomicStep
<1>3. AtomicStep
  BY <1>1, <1>2 DEF Next
<1> QED BY <1>3 DEF AtomicStep, Atomic!vars, Modes, Views

LEMMA SeenInit ==
  ASSUME Init
  PROVE  Atomic!Init
<1>1. \A p \in Procs : ctx[p].mode = "none" /\ ctx[p].view = EmptyStore
  BY Reopening DEF Init
<1>2. /\ [p \in Procs |-> ctx[p].mode] = [p \in Procs |-> "none"]
      /\ [p \in Procs |-> ctx[p].view] = [p \in Procs |-> EmptyStore]
  BY <1>1
<1> QED BY <1>2, SameContents DEF Init, Atomic!Init

\* The package's transactions and named databases are those of AtomicStore:
\* snapshots, one writer, whole commits, and no write but a put, a deletion,
\* a creation or a drop in one database of the view; however many processes
\* delete databases.
THEOREM Refines == Spec => Implements
<1>1. Init => Atomic!Init
  BY SeenInit
<1>2. SharedInv /\ [Next]_vars => [Atomic!Next]_(Atomic!vars)
  BY SeenStep
<1> QED BY <1>1, <1>2, AlwaysShared, PTL DEF Spec, Implements, Atomic!Spec

=============================================================================
