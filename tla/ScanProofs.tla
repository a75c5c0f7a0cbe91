------------------------------ MODULE ScanProofs ------------------------------
(***************************************************************************)
(* Proofs about scan_call(): whatever the keys, the bounds and the limit,  *)
(* a scan collects what it should, in order and without a gap, and so does *)
(* a walk in chunks.                                                       *)
(***************************************************************************)
EXTENDS Scan, Extremes, FiniteSetTheorems, FunctionTheorems, SequenceTheorems, TLAPS

-----------------------------------------------------------------------------
(* The cursor.                                                             *)

\* Least(S) and Greatest(S) are what their names say.
LEMMA Ends ==
  ASSUME NEW S, S \subseteq Int, IsFiniteSet(S), S # {}
  PROVE  /\ Least(S) \in S /\ \A y \in S : Least(S) <= y
         /\ Greatest(S) \in S /\ \A y \in S : Greatest(S) >= y
BY HasLeast, HasGreatest DEF Least, Greatest

\* What TypeOK says of the records and of the arguments.
ArgsOK ==
  /\ records \subseteq 1 .. MaxKey
  /\ start \in Starts /\ reverse \in BOOLEAN

\* A cursor call that looks upwards finds the next record, or the end.
LEMMA Upwards ==
  ASSUME ArgsOK, NEW k \in Int
  PROVE  \/ FirstAfter(k) = EOF /\ \A r \in records : r <= k
         \/ /\ FirstAfter(k) \in records /\ FirstAfter(k) > k
            /\ \A r \in records : r > k => FirstAfter(k) <= r
<1>1. Above(k) \subseteq Int /\ IsFiniteSet(Above(k))
  <2>1. Above(k) \subseteq 1 .. MaxKey
    BY DEF ArgsOK, Above
  <2>2. IsFiniteSet(1 .. MaxKey)
    BY FS_Interval, ScanAssumption
  <2>3. IsFiniteSet(Above(k))
    BY <2>1, <2>2, FS_Subset, Zenon
  <2> QED BY <2>1, <2>3
<1>2. records \subseteq Int
  BY DEF ArgsOK
<1>3. CASE Above(k) = {}
  BY <1>2, <1>3 DEF FirstAfter, Above
<1>4. CASE Above(k) # {}
  <2>1. PICK m \in Above(k) : FirstAfter(k) = m /\ \A y \in Above(k) : m <= y
    BY <1>1, <1>4, Ends DEF FirstAfter
  <2> QED BY <2>1, <1>2 DEF Above
<1> QED BY <1>3, <1>4

\* A cursor call that looks downwards likewise.
LEMMA Downwards ==
  ASSUME ArgsOK, NEW k \in Int
  PROVE  \/ LastBefore(k) = BOF /\ \A r \in records : r >= k
         \/ /\ LastBefore(k) \in records /\ LastBefore(k) < k
            /\ \A r \in records : r < k => LastBefore(k) >= r
<1> DEFINE Below == {r \in records : r < k}
<1>1. Below \subseteq Int /\ IsFiniteSet(Below)
  <2>1. Below \subseteq 1 .. MaxKey
    BY DEF ArgsOK
  <2>2. IsFiniteSet(1 .. MaxKey)
    BY FS_Interval, ScanAssumption
  <2> HIDE DEF Below
  <2>3. IsFiniteSet(Below)
    BY <2>1, <2>2, FS_Subset, Zenon
  <2> QED BY <2>1, <2>3
<1>2. records \subseteq Int
  BY DEF ArgsOK
<1>3. CASE Below = {}
  BY <1>2, <1>3 DEF LastBefore
<1>4. CASE Below # {}
  <2>1. PICK m \in Below : LastBefore(k) = m /\ \A y \in Below : m >= y
    BY <1>1, <1>4, Ends DEF LastBefore
  <2> QED BY <2>1, <1>2
<1> QED BY <1>3, <1>4

\* Where the cursor comes to rest in a turn of the loop.
Landed == IF positioning THEN Positioned(Moved(op, at)) ELSE Moved(op, at)

\* The records still ahead of the cursor before that turn.
Rest == IF positioning THEN Wanted(start) ELSE {r \in records : Ahead(at, r)}

\* A turn finds the nearest record ahead, and an end only if there is none.
LEMMA Lands ==
  ASSUME TypeOK, PlaceInv, pc = "walk"
  PROVE  \/ Landed \in {BOF, EOF} /\ Rest = {}
         \/ /\ Landed \in Rest /\ Landed \in records /\ Landed \notin {BOF, EOF}
            /\ \A r \in Rest : r = Landed \/ Ahead(Landed, r)
<1> USE ScanAssumption DEF BOF, EOF, NoStart
<1>1. /\ ArgsOK /\ MaxKey + 1 \in Int /\ start \in Int
      /\ \A r \in records : r \in Int /\ 0 < r /\ r < MaxKey + 1
      /\ start # -1 => start \in 0 .. MaxKey + 1
      /\ Rest \subseteq records
  BY DEF TypeOK, ArgsOK, Starts, Rest, Wanted
\* It is enough that the cursor goes where the records lie.
<1> DEFINE Up(k) == /\ Landed = FirstAfter(k) /\ k \in Int
                    /\ \A r \in Int : r \in Rest <=> r \in records /\ r > k
           Down(k) == /\ Landed = LastBefore(k) /\ k \in Int
                      /\ \A r \in Int : r \in Rest <=> r \in records /\ r < k
<1>2. ASSUME ~reverse, NEW k \in Int, Up(k)
      PROVE  \/ Landed \in {BOF, EOF} /\ Rest = {}
             \/ /\ Landed \in Rest /\ Landed \in records /\ Landed \notin {BOF, EOF}
                /\ \A r \in Rest : r = Landed \/ Ahead(Landed, r)
  <2>1. \/ Landed = EOF /\ \A r \in records : r <= k
        \/ /\ Landed \in records /\ Landed > k
           /\ \A r \in records : r > k => Landed <= r
    BY <1>1, <1>2, Upwards
  <2> QED BY <1>1, <1>2, <2>1 DEF Ahead
<1>3. ASSUME reverse, NEW k \in Int, Down(k)
      PROVE  \/ Landed \in {BOF, EOF} /\ Rest = {}
             \/ /\ Landed \in Rest /\ Landed \in records /\ Landed \notin {BOF, EOF}
                /\ \A r \in Rest : r = Landed \/ Ahead(Landed, r)
  <2>1. \/ Landed = BOF /\ \A r \in records : r >= k
        \/ /\ Landed \in records /\ Landed < k
           /\ \A r \in records : r < k => Landed >= r
    BY <1>1, <1>3, Downwards
  <2> QED BY <1>1, <1>3, <2>1 DEF Ahead
<1>4. CASE ~positioning
  <2>1. at \in Int /\ Landed = IF reverse THEN LastBefore(at) ELSE FirstAfter(at)
    BY <1>1, <1>4 DEF PlaceInv, TypeOK, Landed, Moved
  <2>2. \A r : r \in Rest <=> r \in records /\ Ahead(at, r)
    BY <1>4 DEF Rest
  <2>3. CASE ~reverse
    <3>1. Up(at)
      BY <1>1, <2>1, <2>2, <2>3 DEF Ahead
    <3> QED BY <1>2, <2>1, <2>3, <3>1
  <2>4. CASE reverse
    <3>1. Down(at)
      BY <1>1, <2>1, <2>2, <2>4 DEF Ahead
    <3> QED BY <1>3, <2>1, <2>4, <3>1
  <2> QED BY <2>3, <2>4
<1>5. CASE positioning /\ start = NoStart
  <2>1. Landed = IF reverse THEN LastBefore(EOF) ELSE FirstAfter(BOF)
    BY <1>1, <1>5 DEF PlaceInv, FirstOp, Landed, Moved, Positioned
  <2>2. Rest = records
    BY <1>1, <1>5 DEF Rest, Wanted
  <2>3. CASE ~reverse
    <3>1. Up(BOF)
      BY <1>1, <2>1, <2>2, <2>3
    <3> QED BY <1>1, <1>2, <2>3, <3>1
  <2>4. CASE reverse
    <3>1. Down(EOF)
      BY <1>1, <2>1, <2>2, <2>4
    <3> QED BY <1>1, <1>3, <2>4, <3>1
  <2> QED BY <2>3, <2>4
<1>6. CASE positioning /\ start # NoStart
  <2>1. Moved(op, at) = FirstAfter(start - 1) /\ start - 1 \in Int
    BY <1>1, <1>6 DEF PlaceInv, FirstOp, Moved
  <2>2. \A r : r \in Rest <=> r \in records /\ (r = start \/ Ahead(start, r))
    BY <1>6 DEF Rest, Wanted
  <2>3. CASE ~reverse
    <3>1. Landed = FirstAfter(start - 1)
      BY <1>6, <2>1, <2>3 DEF Landed, Positioned
    <3>2. Up(start - 1)
      BY <1>1, <2>1, <2>2, <2>3, <3>1 DEF Ahead
    <3> QED BY <1>2, <2>1, <2>3, <3>2
  <2>4. CASE reverse
    <3> DEFINE f == FirstAfter(start - 1)
    <3>1. Landed = IF f = EOF THEN LastBefore(EOF)
                   ELSE IF f > start THEN LastBefore(f) ELSE f
      BY <1>6, <2>1, <2>4 DEF Landed, Positioned
    <3>2. \A r \in Int : r \in Rest <=> r \in records /\ r <= start
      BY <1>1, <2>2, <2>4 DEF Ahead
    <3>3. \/ f = EOF /\ \A r \in records : r <= start - 1
          \/ /\ f \in records /\ f > start - 1
             /\ \A r \in records : r > start - 1 => f <= r
      BY <1>1, <2>1, Upwards
    <3> HIDE DEF f
    <3>4. CASE f = EOF
      <4>1. Down(EOF)
        BY <1>1, <3>1, <3>2, <3>3, <3>4
      <4> QED BY <1>1, <1>3, <2>4, <4>1
    <3>5. CASE f # EOF /\ f > start
      <4>1. Down(f)
        BY <1>1, <3>1, <3>2, <3>3, <3>5
      <4> QED BY <1>1, <1>3, <2>4, <3>3, <3>5, <4>1
    <3>6. CASE f # EOF /\ ~(f > start)
      <4>1. Landed = start /\ start \in records
        BY <1>1, <3>1, <3>3, <3>6
      <4> QED BY <1>1, <2>4, <3>2, <4>1 DEF Ahead
    <3> QED BY <3>4, <3>5, <3>6
  <2> QED BY <2>3, <2>4
<1> QED BY <1>4, <1>5, <1>6

-----------------------------------------------------------------------------
(* Sequences of keys.                                                      *)

\* Ahead is a strict total order on the keys.
LEMMA Order ==
  ASSUME ArgsOK, NEW a \in Int, NEW b \in Int
  PROVE  /\ ~Ahead(a, a)
         /\ a = b \/ Ahead(a, b) \/ Ahead(b, a)
         /\ \A c \in Int : Ahead(a, b) /\ Ahead(b, c) => Ahead(a, c)
BY DEF Ahead, ArgsOK

\* One more record, the nearest after those collected, keeps a front a front.
LEMMA Collects ==
  ASSUME ArgsOK, NEW W, W \subseteq records,
         NEW seq \in Seq(1 .. MaxKey), FrontOf(seq, W), NEW k \in W,
         \A i \in 1 .. Len(seq) : Ahead(seq[i], k),
         \A r \in W : Ahead(r, k) => \E j \in 1 .. Len(seq) : seq[j] = r
  PROVE  Append(seq, k) \in Seq(1 .. MaxKey) /\ FrontOf(Append(seq, k), W)
<1>1. k \in 1 .. MaxKey
  BY DEF ArgsOK
<1> DEFINE s == Append(seq, k)
<1>2. /\ s \in Seq(1 .. MaxKey) /\ Len(s) = Len(seq) + 1 /\ Len(seq) \in Nat
      /\ \A i \in 1 .. Len(seq) : s[i] = seq[i]
      /\ s[Len(seq) + 1] = k
  BY <1>1, AppendProperties
<1> HIDE DEF s
<1>3. ASSUME NEW i \in 1 .. Len(s), NEW j \in 1 .. Len(s), i < j
      PROVE  Ahead(s[i], s[j])
  <2>1. CASE j = Len(seq) + 1
    BY <1>2, <1>3, <2>1
  <2>2. CASE j # Len(seq) + 1
    BY <1>2, <1>3, <2>2 DEF FrontOf
  <2> QED BY <2>1, <2>2
<1>4. ASSUME NEW i \in 1 .. Len(s)
      PROVE  /\ s[i] \in W
             /\ \A r \in W : Ahead(r, s[i]) => \E j \in 1 .. i : s[j] = r
  <2>1. CASE i = Len(seq) + 1
    BY <1>2, <1>4, <2>1
  <2>2. CASE i # Len(seq) + 1
    <3>1. i \in 1 .. Len(seq) /\ s[i] = seq[i]
      BY <1>2, <1>4, <2>2
    <3>2. \A j \in 1 .. i : s[j] = seq[j]
      BY <1>2, <3>1
    <3> QED BY <3>1, <3>2 DEF FrontOf
  <2> QED BY <2>1, <2>2
<1> QED BY <1>2, <1>3, <1>4 DEF FrontOf, s

\* A front that holds every record of W has as many places as W has records.
LEMMA Counts ==
  ASSUME ArgsOK, NEW W, W \subseteq records,
         NEW seq \in Seq(1 .. MaxKey), FrontOf(seq, W)
  PROVE  /\ IsFiniteSet(W) /\ Cardinality(W) \in Nat
         /\ Len(seq) = Cardinality(W)
              <=> \A r \in W : \E j \in 1 .. Len(seq) : seq[j] = r
         /\ Len(seq) <= Cardinality(W)
<1> DEFINE n == Len(seq)
           Held == {seq[i] : i \in 1 .. n}
<1>0. n \in Nat /\ \A i \in 1 .. n : seq[i] \in 1 .. MaxKey
  BY LenProperties, ElementOfSeq
<1>1. IsFiniteSet(W) /\ Cardinality(W) \in Nat
  <2>1. IsFiniteSet(1 .. MaxKey) /\ W \subseteq 1 .. MaxKey
    BY FS_Interval, ScanAssumption DEF ArgsOK
  <2>2. IsFiniteSet(W)
    BY <2>1, FS_Subset, Zenon
  <2> QED BY <2>2, FS_CardinalityType
<1>2. \A i \in 1 .. n : seq[i] \in W
  BY DEF FrontOf
<1>3. Held \subseteq W
  BY <1>2
<1>4. IsFiniteSet(Held) /\ Cardinality(Held) = n
  <2>1. PICK f : f = [i \in 1 .. n |-> seq[i]]
    OBVIOUS
  <2>2. ASSUME NEW i \in 1 .. n, NEW j \in 1 .. n, i # j
        PROVE  seq[i] # seq[j]
    <3>1. Ahead(seq[i], seq[j]) \/ Ahead(seq[j], seq[i])
      BY <1>0, <2>2 DEF FrontOf
    <3> QED BY <1>0, <3>1, Order
  <2>3. f \in Bijection(1 .. n, Held)
    BY <2>1, <2>2 DEF Bijection, Injection, Surjection, IsInjective
  <2>4. ExistsBijection(1 .. n, Held)
    BY <2>3 DEF ExistsBijection
  <2>5. IsFiniteSet(1 .. n) /\ Cardinality(1 .. n) = n
    BY <1>0, FS_Interval
  <2> HIDE DEF Held
  <2> QED BY <2>4, <2>5, FS_Bijection
<1>5. Cardinality(Held) <= Cardinality(W) /\ (Cardinality(Held) = Cardinality(W) => Held = W)
  <2> HIDE DEF Held
  <2>1. /\ Cardinality(Held) <= Cardinality(W)
        /\ Cardinality(Held) = Cardinality(W) => Held = W
    BY <1>1, <1>3, FS_Subset
  <2> QED BY <2>1
<1>6. Held = W <=> \A r \in W : \E j \in 1 .. n : seq[j] = r
  BY <1>3
<1> HIDE DEF Held, n
<1>7. n = Cardinality(W) <=> \A r \in W : \E j \in 1 .. n : seq[j] = r
  BY <1>4, <1>5, <1>6
<1>8. n <= Cardinality(W)
  BY <1>4, <1>5
<1> QED BY <1>1, <1>7, <1>8 DEF n

-----------------------------------------------------------------------------
(* Steps.                                                                  *)

LEMMA Arguments == TypeOK => ArgsOK
BY DEF TypeOK, ArgsOK

\* What the records wanted are.
LEMMA WantedRecords ==
  ASSUME ArgsOK
  PROVE  Wanted(start) \subseteq records
BY DEF Wanted

\* A step that leaves the arguments alone keeps ScansInOrder if the keys it
\* leaves are in order and its end is a proper one.
LEMMA InOrder ==
  ASSUME UNCHANGED args, FrontOf(keys', Wanted(start)),
         limit # NoLimit => Len(keys') <= limit,
         pc' = "done" => \/ Len(keys') = Cardinality(Wanted(start))
                         \/ Len(keys') = limit
  PROVE  ScansInOrder'
BY DEF ScansInOrder, FrontOf, Wanted, Ahead, args

\* A step of the scan leaves the walk alone.
LEMMA WalkKept ==
  ASSUME ChunkInv, UNCHANGED <<args, walked>>
  PROVE  ChunkInv'
BY DEF ChunkInv, FrontOf, Ahead, args

\* The loop stops at its limit.
LEMMA FullKeeps ==
  ASSUME IInv, Full
  PROVE  IInv'
<1>1. /\ UNCHANGED <<args, walked>> /\ UNCHANGED <<op, positioning, at, keys>>
      /\ pc' = "done" /\ cursor' = FALSE
  BY DEF Full, Finish
<1>2. TypeOK'
  BY <1>1 DEF IInv, TypeOK, args
<1>3. ScansInOrder'
  <2>1. Len(keys) = limit
    <3>1. limit # NoLimit /\ ~(Len(keys) < limit) /\ Len(keys) <= limit
      BY DEF IInv, ScansInOrder, Full, Collecting
    <3>2. Len(keys) \in Nat /\ limit \in Int
      BY LenProperties, ScanAssumption DEF IInv, TypeOK, Limits, NoLimit
    <3> QED BY <3>1, <3>2
  <2> QED BY <1>1, <2>1, InOrder DEF IInv, ScansInOrder
<1>4. ChunkInv'
  BY <1>1, WalkKept DEF IInv
<1> QED BY <1>1, <1>2, <1>3, <1>4 DEF IInv, CursorInv, PlaceInv

\* A turn finds the next record or the end.
LEMMA TurnKeeps ==
  ASSUME IInv, Turn
  PROVE  IInv'
<1>0. /\ TypeOK /\ PlaceInv /\ ArgsOK /\ pc = "walk" /\ Collecting
      /\ FrontOf(keys, Wanted(start)) /\ Wanted(start) \subseteq records
      /\ keys \in Seq(1 .. MaxKey) /\ Len(keys) \in Nat
      /\ records \subseteq 1 .. MaxKey
  BY Arguments, WantedRecords, LenProperties DEF IInv, ScansInOrder, Turn, TypeOK
<1>7. (\A r \in Wanted(start) : r \in Int) /\ (\A i \in 1 .. Len(keys) : keys[i] \in Int)
  <2>1. \A i \in 1 .. Len(keys) : keys[i] \in 1 .. MaxKey
    BY <1>0, ElementOfSeq
  <2>2. \A k \in 1 .. MaxKey : k \in Int
    OBVIOUS
  <2>3. \A r \in Wanted(start) : r \in 1 .. MaxKey
    BY <1>0
  <2> QED BY <2>1, <2>2, <2>3
<1>1. /\ UNCHANGED <<args, walked>> /\ positioning' = FALSE /\ at' = Landed
      /\ \/ /\ Landed \in {BOF, EOF}
            /\ pc' = "done" /\ cursor' = FALSE /\ UNCHANGED <<op, keys>>
         \/ /\ Landed \notin {BOF, EOF}
            /\ keys' = Append(keys, Landed)
            /\ op' = IF reverse THEN "PREV" ELSE "NEXT"
            /\ UNCHANGED <<pc, cursor>>
  BY DEF Turn, Landed, Finish
<1>2. ChunkInv'
  BY <1>1, WalkKept DEF IInv
<1>3. ~positioning => /\ keys # <<>> /\ at = keys[Len(keys)]
                      /\ Len(keys) \in 1 .. Len(keys) /\ at \in Wanted(start)
  BY <1>0, EmptySeq DEF PlaceInv, FrontOf
<1>4. positioning => keys = <<>> /\ Len(keys) = 0
  BY <1>0 DEF PlaceInv
<1>5. CASE Landed \in {BOF, EOF}
  <2>1. Rest = {}
    BY <1>0, <1>5, Lands
  <2>2. ASSUME NEW r \in Wanted(start)
        PROVE  \E j \in 1 .. Len(keys) : keys[j] = r
    <3>1. ~positioning
      BY <2>1 DEF Rest
    <3>2. ~Ahead(at, r)
      BY <1>0, <2>1, <3>1 DEF Rest
    <3>3. r = at \/ Ahead(r, at)
      BY <1>0, <1>3, <1>7, <3>1, <3>2, Order
    <3> QED BY <1>0, <1>3, <3>1, <3>3 DEF FrontOf
  <2>3. Len(keys) = Cardinality(Wanted(start))
    BY <1>0, <2>2, Counts
  <2>4. ScansInOrder'
    BY <1>1, <1>5, <2>3, InOrder DEF IInv, ScansInOrder
  <2>5. TypeOK'
    <3>1. at' \in BOF .. EOF
      BY <1>1, <1>5, ScanAssumption DEF BOF, EOF
    <3> QED BY <1>0, <1>1, <1>5, <3>1 DEF TypeOK, args
  <2> QED BY <1>1, <1>2, <1>5, <2>4, <2>5 DEF IInv, CursorInv, PlaceInv
<1>6. CASE Landed \notin {BOF, EOF}
  <2>1. /\ Landed \in Rest /\ Landed \in records
        /\ \A r \in Rest : r = Landed \/ Ahead(Landed, r)
    BY <1>0, <1>6, Lands
  <2>2. Landed \in Wanted(start)
    <3>1. CASE positioning
      BY <2>1, <3>1 DEF Rest
    <3>2. CASE ~positioning
      <4>1. Ahead(at, Landed)
        BY <2>1, <3>2 DEF Rest
      <4>2. start = NoStart \/ at = start \/ Ahead(start, at)
        BY <1>3, <3>2 DEF Wanted
      <4>3. start \in Int /\ at \in Int /\ Landed \in Int
        BY <1>0, <2>1, ScanAssumption DEF TypeOK, Starts, NoStart, BOF, EOF
      <4>4. start = NoStart \/ Ahead(start, Landed)
        BY <1>0, <4>1, <4>2, <4>3, Order
      <4> QED BY <2>1, <4>4 DEF Wanted
    <3> QED BY <3>1, <3>2
  <2>3. ASSUME NEW i \in 1 .. Len(keys) PROVE Ahead(keys[i], Landed)
    <3>1. ~positioning
      BY <1>4
    <3>2. Ahead(at, Landed)
      BY <2>1, <3>1 DEF Rest
    <3>3. keys[i] = at \/ Ahead(keys[i], at)
      BY <1>0, <1>3, <3>1 DEF FrontOf
    <3>4. keys[i] \in Int /\ at \in Int /\ Landed \in Int
      BY <1>3, <1>7, <2>2, <3>1
    <3> QED BY <1>0, <3>2, <3>3, <3>4, Order
  <2>4. ASSUME NEW r \in Wanted(start), Ahead(r, Landed)
        PROVE  \E j \in 1 .. Len(keys) : keys[j] = r
    <3>0. r \in Int /\ Landed \in Int
      BY <1>7, <2>2
    <3>1. r \notin Rest
      BY <1>0, <2>1, <2>4, <3>0, Order
    <3>2. ~positioning
      BY <3>1 DEF Rest
    <3>3. ~Ahead(at, r)
      BY <1>0, <3>1, <3>2 DEF Rest
    <3>4. r = at \/ Ahead(r, at)
      BY <1>0, <1>3, <1>7, <3>2, <3>3, Order
    <3> QED BY <1>0, <1>3, <3>2, <3>4 DEF FrontOf
  <2>5. keys' \in Seq(1 .. MaxKey) /\ FrontOf(keys', Wanted(start))
    <3>1. PICK W : W = Wanted(start)
      OBVIOUS
    <3>2. Append(keys, Landed) \in Seq(1 .. MaxKey) /\ FrontOf(Append(keys, Landed), W)
      BY <1>0, <2>2, <2>3, <2>4, <3>1, Collects
    <3> QED BY <1>1, <1>6, <3>1, <3>2
  <2>6. keys' # <<>> /\ Len(keys') = Len(keys) + 1 /\ keys'[Len(keys')] = Landed
    BY <1>0, <1>1, <1>6, <2>1, AppendProperties
  <2>7. limit # NoLimit => Len(keys') <= limit
    <3>1. limit \in Int
      BY <1>0, ScanAssumption DEF TypeOK, Limits, NoLimit
    <3> QED BY <1>0, <2>6, <3>1 DEF Collecting
  <2>8. ScansInOrder'
    BY <1>0, <1>1, <1>6, <2>5, <2>7, InOrder
  <2>9. TypeOK'
    <3>1. at' \in BOF .. EOF
      BY <1>0, <1>1, <2>1, ScanAssumption DEF BOF, EOF
    <3>2. op' \in Ops
      BY <1>1, <1>6 DEF Ops
    <3> QED BY <1>0, <1>1, <1>6, <2>5, <3>1, <3>2 DEF TypeOK, args
  <2>10. PlaceInv'
    BY <1>1, <1>6, <2>6 DEF PlaceInv, args
  <2> QED BY <1>0, <1>1, <1>2, <1>6, <2>8, <2>9, <2>10 DEF IInv, CursorInv
<1> QED BY <1>5, <1>6

\* A failure or a panic leaves what was collected alone.
LEMMA StopsKeep ==
  ASSUME IInv, Fails \/ Panics \/ UNCHANGED vars
  PROVE  IInv'
<1>1. /\ UNCHANGED <<args, walked, op, positioning, at, keys>>
      /\ \/ pc' = "error" /\ cursor' = FALSE
         \/ pc' = "panic" /\ cursor' = cursor
         \/ pc' = pc /\ cursor' = cursor
  BY DEF Fails, Panics, Finish, vars
<1>2. TypeOK'
  BY <1>1 DEF IInv, TypeOK, args
<1>3. ScansInOrder'
  BY <1>1, InOrder DEF IInv, ScansInOrder
<1>4. ChunkInv'
  BY <1>1, WalkKept DEF IInv
<1>5. CursorInv' /\ PlaceInv'
  BY <1>1 DEF IInv, CursorInv, PlaceInv, args
<1> QED BY <1>2, <1>3, <1>4, <1>5 DEF IInv

\* A later chunk starts with the record it repeats.
LEMMA Repeats ==
  ASSUME IInv, chunked, walked # <<>>, keys # <<>>
  PROVE  /\ Len(keys) \in Nat /\ Len(keys) >= 1 /\ keys[1] = start
         /\ Len(walked) \in Nat /\ Len(walked) >= 1 /\ start = walked[Len(walked)]
         /\ start \in records /\ start # NoStart
<1>1. /\ keys \in Seq(1 .. MaxKey) /\ walked \in Seq(1 .. MaxKey) /\ ArgsOK
      /\ FrontOf(walked, records) /\ FrontOf(keys, Wanted(start))
      /\ start = walked[Len(walked)] /\ records \subseteq 1 .. MaxKey
  BY Arguments DEF IInv, TypeOK, ScansInOrder, ChunkInv
<1>2. /\ Len(keys) \in Nat /\ Len(keys) >= 1
      /\ Len(walked) \in Nat /\ Len(walked) >= 1
  BY <1>1, EmptySeq
<1>3. start \in records /\ start # NoStart /\ start \in Int
  <2>1. start \in records
    BY <1>1, <1>2 DEF FrontOf
  <2> QED BY <1>1, <2>1, ScanAssumption DEF NoStart
<1>4. keys[1] = start
  <2>1. keys[1] \in Wanted(start) /\ start \in Wanted(start)
    BY <1>1, <1>2, <1>3 DEF FrontOf, Wanted
  <2>2. Ahead(start, keys[1]) => keys[1] = start
    BY <1>1, <1>2, <2>1 DEF FrontOf
  <2> QED BY <1>3, <2>1, <2>2 DEF Wanted
<1> QED BY <1>1, <1>2, <1>3, <1>4

\* What the walk holds after another chunk, place by place.
LEMMA Joined ==
  ASSUME IInv, chunked, walked # <<>>, keys # <<>>
  PROVE  LET w == walked \o Tail(keys) IN
         /\ w \in Seq(1 .. MaxKey) /\ Len(w) = Len(walked) + Len(keys) - 1
         /\ \A i \in 1 .. Len(walked) : w[i] = walked[i]
         /\ \A i \in 1 .. Len(keys) : w[Len(walked) + i - 1] = keys[i]
<1> DEFINE w == walked \o Tail(keys)
<1>1. keys \in Seq(1 .. MaxKey) /\ walked \in Seq(1 .. MaxKey)
  BY DEF IInv, TypeOK
<1>2. /\ Len(keys) \in Nat /\ Len(keys) >= 1 /\ keys[1] = start
      /\ Len(walked) \in Nat /\ Len(walked) >= 1 /\ start = walked[Len(walked)]
  BY Repeats
<1>3. /\ Tail(keys) \in Seq(1 .. MaxKey) /\ Len(Tail(keys)) = Len(keys) - 1
      /\ \A i \in 1 .. Len(keys) - 1 : Tail(keys)[i] = keys[i + 1]
  BY <1>1, HeadTailProperties
<1>4. /\ w \in Seq(1 .. MaxKey) /\ Len(w) = Len(walked) + (Len(keys) - 1)
      /\ \A i \in 1 .. Len(walked) + (Len(keys) - 1) :
           w[i] = IF i <= Len(walked) THEN walked[i] ELSE Tail(keys)[i - Len(walked)]
  BY <1>1, <1>3, ConcatProperties
<1> HIDE DEF w
<1>5. \A i \in 1 .. Len(walked) : w[i] = walked[i]
  BY <1>2, <1>4
<1>6. ASSUME NEW i \in 1 .. Len(keys)
      PROVE  w[Len(walked) + i - 1] = keys[i]
  <2>1. CASE i = 1
    BY <1>2, <1>5, <2>1
  <2>2. CASE i # 1
    <3>1. /\ i - 1 \in 1 .. Len(keys) - 1 /\ (i - 1) + 1 = i
          /\ Len(walked) + i - 1 \in 1 .. Len(walked) + (Len(keys) - 1)
          /\ ~(Len(walked) + i - 1 <= Len(walked))
          /\ (Len(walked) + i - 1) - Len(walked) = i - 1
      BY <1>2, <2>2
    <3>2. Tail(keys)[i - 1] = keys[i]
      BY <1>3, <3>1
    <3> QED BY <1>4, <3>1, <3>2
  <2> QED BY <2>1, <2>2
<1>7. Len(w) = Len(walked) + Len(keys) - 1
  BY <1>2, <1>4
<1> QED BY <1>4, <1>5, <1>6, <1>7 DEF w

\* A walk and the chunk that goes on from its last record make a walk.
LEMMA WalkGoesOn ==
  ASSUME IInv, chunked, walked # <<>>, keys # <<>>
  PROVE  FrontOf(walked \o Tail(keys), records)
<1>1. PICK w : w = walked \o Tail(keys)
  OBVIOUS
<1> DEFINE n == Len(walked)
           m == Len(keys)
<1>2. /\ w \in Seq(1 .. MaxKey) /\ Len(w) = n + m - 1
      /\ \A i \in 1 .. n : w[i] = walked[i]
      /\ \A i \in 1 .. m : w[n + i - 1] = keys[i]
  BY <1>1, Joined
<1>3. /\ n \in Nat /\ n >= 1 /\ m \in Nat /\ m >= 1
      /\ walked[n] = start /\ keys[1] = start /\ start \in records /\ start # NoStart
  BY Repeats
<1>4. /\ ArgsOK /\ FrontOf(walked, records) /\ FrontOf(keys, Wanted(start))
      /\ records \subseteq Int
  BY Arguments DEF IInv, TypeOK, ScansInOrder, ChunkInv
<1> HIDE DEF n, m
<1>5. \A i \in 1 .. Len(w) : \/ i \in 1 .. n
                             \/ i - n + 1 \in 1 .. m /\ n + (i - n + 1) - 1 = i
  BY <1>2, <1>3
\* What the walk held lies up to `start', what the chunk adds from it on.
<1>6. /\ \A i \in 1 .. n : walked[i] \in records
                          /\ (walked[i] = start \/ Ahead(walked[i], start))
      /\ \A i \in 1 .. m : keys[i] \in records /\ (keys[i] = start \/ Ahead(start, keys[i]))
      /\ \A i \in 2 .. m : Ahead(start, keys[i])
  <2>1. \A i \in 1 .. n : walked[i] \in records
                        /\ (walked[i] = start \/ Ahead(walked[i], start))
    BY <1>3, <1>4 DEF FrontOf, n
  <2>2. \A i \in 1 .. m : keys[i] \in Wanted(start)
    BY <1>4 DEF FrontOf, m
  <2>3. \A i \in 2 .. m : Ahead(start, keys[i])
    BY <1>3, <1>4 DEF FrontOf, m
  <2> QED BY <1>3, <2>1, <2>2, <2>3 DEF Wanted
<1>7. ASSUME NEW i \in 1 .. Len(w), NEW j \in 1 .. Len(w), i < j
      PROVE  Ahead(w[i], w[j])
  <2>1. CASE j \in 1 .. n
    <3>1. i \in 1 .. n
      BY <1>3, <1>7, <2>1
    <3> QED BY <1>2, <1>4, <1>7, <2>1, <3>1 DEF FrontOf, n
  <2>2. CASE i \in 1 .. n /\ j \notin 1 .. n
    <3>1. j - n + 1 \in 2 .. m /\ w[j] = keys[j - n + 1]
      BY <1>2, <1>3, <1>5, <2>2
    <3>2. Ahead(start, w[j]) /\ (w[i] = start \/ Ahead(w[i], start))
      BY <1>2, <1>6, <2>2, <3>1
    <3>3. w[i] \in records /\ w[j] \in records
      BY <1>2, <1>6, <2>2, <3>1
    <3>4. w[i] \in Int /\ w[j] \in Int /\ start \in Int
      BY <1>3, <1>4, <3>3
    <3> QED BY <1>4, <3>2, <3>4, Order
  <2>3. CASE i \notin 1 .. n /\ j \notin 1 .. n
    <3>1. /\ j - n + 1 \in 1 .. m /\ w[j] = keys[j - n + 1]
          /\ i - n + 1 \in 1 .. m /\ w[i] = keys[i - n + 1]
          /\ i - n + 1 < j - n + 1
      BY <1>2, <1>3, <1>5, <1>7, <2>3
    <3> QED BY <1>4, <3>1 DEF FrontOf, m
  <2> QED BY <1>3, <1>7, <2>1, <2>2, <2>3
<1>8. ASSUME NEW i \in 1 .. Len(w)
      PROVE  /\ w[i] \in records
             /\ \A r \in records : Ahead(r, w[i]) => \E j \in 1 .. i : w[j] = r
  <2>1. CASE i \in 1 .. n
    <3>1. \A j \in 1 .. i : w[j] = walked[j]
      BY <1>2, <1>3, <2>1
    <3> QED BY <1>2, <1>4, <2>1, <3>1 DEF FrontOf, n
  <2>2. CASE i \notin 1 .. n
    <3>1. i - n + 1 \in 1 .. m /\ w[i] = keys[i - n + 1]
      BY <1>2, <1>5, <2>2
    <3>2. ASSUME NEW r \in records, Ahead(r, w[i])
          PROVE  \E j \in 1 .. i : w[j] = r
      <4>1. CASE r = start
        BY <1>2, <1>3, <2>2, <4>1
      <4>2. CASE Ahead(r, start)
        <5>1. PICK j \in 1 .. n : walked[j] = r
          BY <1>3, <1>4, <4>2 DEF FrontOf, n
        <5> QED BY <1>2, <1>3, <2>2, <5>1
      <4>3. CASE Ahead(start, r)
        <5>1. r \in Wanted(start)
          BY <4>3 DEF Wanted
        <5>2. PICK j \in 1 .. i - n + 1 : keys[j] = r
          BY <1>4, <3>1, <3>2, <5>1 DEF FrontOf, m
        <5>3. n + j - 1 \in 1 .. i /\ j \in 1 .. m
          BY <1>3, <2>2, <3>1, <5>2
        <5> QED BY <1>2, <5>2, <5>3
      <4> QED BY <1>3, <1>4, <4>1, <4>2, <4>3, Order
    <3> QED BY <1>6, <3>1, <3>2
  <2> QED BY <2>1, <2>2
<1> QED BY <1>1, <1>7, <1>8 DEF FrontOf

\* The next chunk goes on from the last record of this one.
LEMMA NextChunkKeeps ==
  ASSUME IInv, NextChunk
  PROVE  IInv'
<1>0. /\ TypeOK /\ ArgsOK /\ chunked /\ limit >= 2 /\ keys # <<>>
      /\ keys \in Seq(1 .. MaxKey) /\ walked \in Seq(1 .. MaxKey)
      /\ FrontOf(walked, records) /\ FrontOf(keys, Wanted(start))
  BY Arguments DEF IInv, TypeOK, ScansInOrder, ChunkInv, NextChunk
<1>1. /\ walked' = walked \o Fresh /\ start' = keys[Len(keys)]
      /\ pc' = "walk" /\ positioning' = TRUE /\ at' = BOF
      /\ keys' = <<>> /\ cursor' = TRUE /\ op' = FirstOp(start', reverse)
      /\ UNCHANGED <<records, reverse, limit, chunked>>
  BY DEF NextChunk
<1>2. Len(keys) \in Nat /\ Len(keys) >= 1 /\ keys[Len(keys)] \in 1 .. MaxKey
  <2>1. Len(keys) \in Nat /\ Len(keys) >= 1
    BY <1>0, EmptySeq
  <2>2. Len(keys) \in 1 .. Len(keys)
    BY <2>1
  <2>3. keys[Len(keys)] \in 1 .. MaxKey
    BY <1>0, <2>2, ElementOfSeq
  <2> QED BY <2>1, <2>3
<1>3. /\ walked' \in Seq(1 .. MaxKey) /\ walked' # <<>>
      /\ walked'[Len(walked')] = keys[Len(keys)]
      /\ FrontOf(walked', records)
  <2>1. CASE walked = <<>>
    <3>1. walked' = keys
      BY <1>0, <1>1, <2>1, ConcatEmptySeq DEF Fresh
    <3>2. Wanted(start) = records
      BY <1>0, <2>1 DEF IInv, ChunkInv, Wanted
    <3> QED BY <1>0, <3>1, <3>2
  <2>2. CASE walked # <<>>
    <3>1. walked' = walked \o Tail(keys)
      BY <1>1, <2>2 DEF Fresh
    <3>2. /\ walked' \in Seq(1 .. MaxKey) /\ Len(walked') = Len(walked) + Len(keys) - 1
          /\ walked'[Len(walked) + Len(keys) - 1] = keys[Len(keys)]
      BY <1>0, <1>2, <2>2, <3>1, Joined
    <3>3. Len(walked) \in Nat /\ Len(walked) >= 1
      BY <1>0, <2>2, EmptySeq
    <3>4. walked' # <<>>
      BY <1>2, <3>2, <3>3
    <3>5. FrontOf(walked', records)
      BY <1>0, <2>2, <3>1, WalkGoesOn
    <3> QED BY <3>2, <3>4, <3>5
  <2> QED BY <2>1, <2>2
<1>4. TypeOK'
  <2>1. start' \in Starts /\ at' \in BOF .. EOF
    BY <1>1, <1>2, ScanAssumption DEF Starts, BOF, EOF
  <2>2. op' \in Ops
    BY <1>1 DEF FirstOp, Ops
  <2>3. keys' \in Seq(1 .. MaxKey)
    BY <1>1
  <2> QED BY <1>0, <1>1, <1>3, <2>1, <2>2, <2>3 DEF TypeOK
<1>5. CursorInv' /\ PlaceInv'
  BY <1>1 DEF CursorInv, PlaceInv, FirstOp
<1>6. ScansInOrder'
  <2>1. Len(keys') = 0
    BY <1>1
  <2>2. FrontOf(keys, Wanted(start))'
    BY <2>1 DEF FrontOf
  <2>3. limit' # NoLimit => 0 <= limit'
    BY <1>0, <1>1, ScanAssumption DEF TypeOK, Limits
  <2> QED BY <1>1, <2>1, <2>2, <2>3 DEF ScansInOrder
<1>7. ChunkInv'
  BY <1>0, <1>1, <1>3 DEF ChunkInv, FrontOf, Ahead
<1> QED BY <1>4, <1>5, <1>6, <1>7 DEF IInv

-----------------------------------------------------------------------------
(* Theorems.                                                               *)

LEMMA Starting == Init => IInv
<1> SUFFICES ASSUME Init PROVE IInv
  OBVIOUS
<1>1. TypeOK
  BY ScanAssumption, EmptySeq DEF Init, Begun, TypeOK, FirstOp, Ops, BOF, EOF
<1>2. CursorInv /\ PlaceInv
  BY DEF Init, Begun, CursorInv, PlaceInv
<1>3. Len(keys) = 0 /\ Len(walked) = 0 /\ walked = <<>> /\ pc = "walk"
  BY DEF Init, Begun
<1>4. ScansInOrder
  <2>1. limit # NoLimit => 0 <= limit
    BY ScanAssumption DEF Init, Limits
  <2> QED BY <1>3, <2>1 DEF ScansInOrder, FrontOf
<1>5. ChunkInv
  BY <1>3 DEF Init, ChunkInv, FrontOf
<1> QED BY <1>1, <1>2, <1>4, <1>5 DEF IInv

LEMMA Stepping == IInv /\ [Next]_vars => IInv'
BY FullKeeps, TurnKeeps, StopsKeep, NextChunkKeeps DEF Next

\* Between two cursor calls the cursor stands on the last key collected, what
\* is collected is a gapless front of what was asked for, and what a walk has
\* put together ends where the next chunk starts (scan_call(), mdbx_keys()).
THEOREM Inductive == Spec => []IInv
BY Starting, Stepping, PTL DEF Spec

\* The variables keep their types, the cursor its place among the records.
THEOREM TypeCorrect == Spec => []TypeOK
<1>1. IInv => TypeOK
  BY DEF IInv
<1> QED BY <1>1, Inductive, PTL

\* Whatever the records, the start, the direction and the limit: a scan
\* collects the keys from its start on, in order and without a gap, and ends
\* at the limit or at the end only (scan_call()).
THEOREM ScansCorrect == Spec => []ScansInOrder
<1>1. IInv => ScansInOrder
  BY DEF IInv
<1> QED BY <1>1, Inductive, PTL

\* The cursor is closed on every path out of the loop but a panic's.
THEOREM CursorsClosed == Spec => []CursorClosed
<1>1. IInv => CursorClosed
  BY DEF IInv, CursorInv, TypeOK, CursorClosed
<1> QED BY <1>1, Inductive, PTL

\* The chunks of a walk, put together as mdbx_keys() documents, list every
\* record once and in order, whatever the size of the chunks.
THEOREM WalksComplete == Spec => []ChunksCover
<1>1. ASSUME IInv, chunked, pc = "done", keys = <<>> \/ Fresh = <<>>
      PROVE  Len(walked) = Cardinality(records)
  <2>0. /\ ArgsOK /\ limit >= 2 /\ records \subseteq Int /\ records \subseteq records
        /\ FrontOf(walked, records) /\ FrontOf(keys, Wanted(start))
        /\ walked \in Seq(1 .. MaxKey) /\ keys \in Seq(1 .. MaxKey)
        /\ Wanted(start) \subseteq records
        /\ Len(keys) = Cardinality(Wanted(start)) \/ Len(keys) = limit
    BY <1>1, Arguments, WantedRecords DEF IInv, TypeOK, ScansInOrder, ChunkInv
  <2>1. CASE walked = <<>>
    <3>1. Len(walked) = 0 /\ Len(keys) = 0
      BY <1>1, <2>0, <2>1 DEF Fresh
    <3>2. Wanted(start) = records
      BY <1>1, <2>1 DEF IInv, ChunkInv, Wanted
    <3> QED BY <2>0, <3>1, <3>2
  <2>2. CASE walked # <<>>
    <3>1. start \in records /\ start = walked[Len(walked)] /\ Len(walked) \in 1 .. Len(walked)
      <4>1. Len(walked) \in Nat /\ Len(walked) >= 1 /\ start = walked[Len(walked)]
        BY <1>1, <2>0, <2>2, EmptySeq DEF IInv, ChunkInv
      <4> QED BY <2>0, <4>1 DEF FrontOf
    <3>2. start \in Wanted(start)
      BY <3>1 DEF Wanted
    <3>3. Len(keys) = Cardinality(Wanted(start)) /\ Len(keys) <= 1 /\ Len(keys) \in Nat
      <4>1. Len(keys) \in Nat /\ Len(keys) <= 1
        <5>1. CASE keys = <<>>
          BY <5>1
        <5>2. CASE keys # <<>>
          <6>1. Tail(keys) = <<>>
            BY <1>1, <2>2, <5>2 DEF Fresh
          <6>2. Len(Tail(keys)) = Len(keys) - 1 /\ Len(keys) \in Nat
            BY <2>0, <5>2, HeadTailProperties, LenProperties
          <6> QED BY <6>1, <6>2
        <5> QED BY <5>1, <5>2
      <4> QED BY <2>0, <4>1
    <3>4. \E j \in 1 .. Len(keys) : keys[j] = start
      BY <2>0, <3>2, <3>3, Counts
    <3>5. Len(keys) = 1 /\ keys[1] = start
      BY <3>3, <3>4
    <3>6. \A r \in Wanted(start) : r = start
      <4>1. \A r \in Wanted(start) : \E j \in 1 .. Len(keys) : keys[j] = r
        BY <2>0, <3>3, Counts
      <4> QED BY <3>5, <4>1
    <3>7. ASSUME NEW r \in records
          PROVE  \E j \in 1 .. Len(walked) : walked[j] = r
      <4>1. ~Ahead(start, r) \/ r = start
        BY <3>6 DEF Wanted
      <4>2. r = start \/ Ahead(r, start)
        BY <2>0, <3>1, <4>1, Order
      <4> QED BY <2>0, <3>1, <4>2 DEF FrontOf
    <3> QED BY <2>0, <3>7, Counts
  <2> QED BY <2>1, <2>2
<1>2. IInv => ChunksCover
  <2> SUFFICES ASSUME IInv, chunked
               PROVE  /\ FrontOf(walked, records)
                      /\ pc = "done" /\ (keys = <<>> \/ Fresh = <<>>)
                           => Len(walked) = Cardinality(records)
    BY DEF ChunksCover
  <2>1. FrontOf(walked, records)
    BY DEF IInv, ChunkInv
  <2> QED BY <1>1, <2>1
<1> QED BY <1>2, Inductive, PTL
=============================================================================
