-------------------------------- MODULE Scan --------------------------------
(***************************************************************************)
(* scan_call(): the walk over one database behind mdbx_keys() and          *)
(* mdbx_items(), one cursor call a step, and the walk in chunks that       *)
(* mdbx_keys() describes.                                                  *)
(*                                                                         *)
(* Keys are integers: only their order matters. The records do not change  *)
(* during a scan (it is one call) nor between the scans of a chunked walk  *)
(* (they are in one transaction).                                          *)
(***************************************************************************)
EXTENDS Integers, Sequences, FiniteSets

CONSTANTS
  MaxKey,     \* bound: records have keys in 1 .. MaxKey
  MaxLimit    \* bound: limits in 0 .. MaxLimit, beside no limit at all

ASSUME ScanAssumption == MaxKey \in Nat /\ MaxLimit \in Nat

NoStart == -1   \* start = NULL
NoLimit == -1   \* limit = NULL or Inf: (size_t)-1 records
EOF == MaxKey + 1   \* a cursor behind the last record
BOF == 0            \* a cursor before the first

VARIABLES
  records,     \* keys of the database
  start, reverse, limit,     \* arguments of the scan
  chunked,     \* is the scan a step of a chunked walk?
  walked,      \* what the chunked walk has collected
  pc,          \* "walk", "done", "error" (libmdbx failed, or memory ran out),
               \* "panic" (the rest of scan_call() never ran)
  op,          \* the next cursor operation
  positioning, \* is the next cursor call the first?
  at,          \* the cursor: a key, BOF or EOF
  keys,        \* collected so far
  cursor       \* is a native cursor open?

args == <<records, start, reverse, limit, chunked>>
vars == <<args, walked, pc, op, positioning, at, keys, cursor>>

\* Bounds beyond both ends are legal starts.
Starts == {NoStart} \cup 0 .. MaxKey + 1
Limits == {NoLimit} \cup 0 .. MaxLimit
Ops == {"FIRST", "LAST", "SET_RANGE", "NEXT", "PREV"}

Above(k) == {r \in records : r > k}
Least(S) == CHOOSE x \in S : \A y \in S : x <= y
Greatest(S) == CHOOSE x \in S : \A y \in S : x >= y

\* Where mdbx_cursor_get() leaves the cursor; EOF and BOF are MDBX_NOTFOUND.
FirstAfter(k) == IF Above(k) = {} THEN EOF ELSE Least(Above(k))
LastBefore(k) ==
  LET below == {r \in records : r < k} IN
  IF below = {} THEN BOF ELSE Greatest(below)

\* Mutant: a start is exclusive.
MovedPast(o, from) ==
  CASE o = "FIRST" -> FirstAfter(BOF)
    [] o = "LAST" -> LastBefore(EOF)
    [] o = "SET_RANGE" -> FirstAfter(start)
    [] o = "NEXT" -> FirstAfter(from)
    [] o = "PREV" -> LastBefore(from)

Moved(o, from) ==
  CASE o = "FIRST" -> FirstAfter(BOF)
    [] o = "LAST" -> LastBefore(EOF)
    [] o = "SET_RANGE" -> FirstAfter(start - 1)
    [] o = "NEXT" -> FirstAfter(from)
    [] o = "PREV" -> LastBefore(from)

\* Mutant: a backward scan that overshoots does not step back.
PositionedAbove(k) ==
  IF reverse /\ start # NoStart /\ k = EOF THEN LastBefore(EOF) ELSE k

\* The first call of a backward scan with a start, corrected: from the end
\* when `start' lies past every key, one back when it overshot.
Positioned(k) ==
  IF ~(reverse /\ start # NoStart) THEN k
  ELSE IF k = EOF THEN LastBefore(EOF)
  ELSE IF k > start THEN LastBefore(k) ELSE k

FirstOp(s, r) == IF s # NoStart THEN "SET_RANGE" ELSE IF r THEN "LAST" ELSE "FIRST"

Collecting == limit = NoLimit \/ Len(keys) < limit

-----------------------------------------------------------------------------
Begun ==
  /\ pc = "walk" /\ positioning = TRUE /\ at = BOF
  /\ keys = <<>> /\ cursor = TRUE
  /\ op = FirstOp(start, reverse)

\* A scan of its own, or the first chunk of a walk, which needs chunks of two
\* at least: one record a chunk would be the repeated one.
Init ==
  /\ records \in SUBSET (1 .. MaxKey)
  /\ start \in Starts /\ reverse \in BOOLEAN /\ limit \in Limits
  /\ chunked \in BOOLEAN
  /\ chunked => start = NoStart /\ limit >= 2
  /\ walked = <<>>
  /\ Begun

\* Mutant: an error leaves without closing.
FinishOpen(how) == pc' = how /\ cursor' = (how = "error")

\* The loop is over: the cursor is closed on every path but the panic's.
Finish(how) == pc' = how /\ cursor' = FALSE

\* The loop condition.
Full ==
  /\ pc = "walk" /\ ~Collecting
  /\ Finish("done")
  /\ UNCHANGED <<args, walked, op, positioning, at, keys>>

\* Mutant: MDBX_NOTFOUND ends the loop in its first turn only.
TurnOn ==
  LET k == IF positioning THEN Positioned(Moved(op, at)) ELSE Moved(op, at) IN
  /\ pc = "walk" /\ Collecting
  /\ positioning' = FALSE
  /\ at' = k
  /\ \/ /\ k \in {BOF, EOF}
        /\ IF positioning THEN Finish("done") ELSE UNCHANGED <<pc, cursor>>
        /\ UNCHANGED <<op, keys>>
     \/ /\ k \notin {BOF, EOF}
        /\ keys' = Append(keys, k)
        /\ op' = IF reverse THEN "PREV" ELSE "NEXT"
        /\ UNCHANGED <<pc, cursor>>
  /\ UNCHANGED <<args, walked>>

\* Mutant: MDBX_NOTFOUND is not looked at.
TurnAnyway ==
  LET k == IF positioning THEN Positioned(Moved(op, at)) ELSE Moved(op, at) IN
  /\ pc = "walk" /\ Collecting
  /\ positioning' = FALSE
  /\ at' = k
  /\ keys' = Append(keys, k)
  /\ op' = IF reverse THEN "PREV" ELSE "NEXT"
  /\ UNCHANGED <<args, walked, pc, cursor>>

\* One turn of the loop.
Turn ==
  LET k == IF positioning THEN Positioned(Moved(op, at)) ELSE Moved(op, at) IN
  /\ pc = "walk" /\ Collecting
  /\ positioning' = FALSE
  /\ at' = k
  /\ \/ /\ k \in {BOF, EOF}
        /\ Finish("done")
        /\ UNCHANGED <<op, keys>>
     \/ /\ k \notin {BOF, EOF}
        /\ keys' = Append(keys, k)
        /\ op' = IF reverse THEN "PREV" ELSE "NEXT"
        /\ UNCHANGED <<pc, cursor>>
  /\ UNCHANGED <<args, walked>>

\* A cursor call fails, or collecting the record does.
Fails ==
  /\ pc = "walk" /\ Collecting
  /\ Finish("error")
  /\ UNCHANGED <<args, walked, op, positioning, at, keys>>

\* libmdbx panics: the jump passes over mdbx_cursor_close().
Panics ==
  /\ pc = "walk" /\ Collecting
  /\ pc' = "panic"
  /\ UNCHANGED <<args, walked, op, positioning, at, keys, cursor>>

\* "pass the last key of one call as the start of the next and drop the first
\* record of the result" (mdbx_keys()).
Fresh == IF walked = <<>> THEN keys ELSE Tail(keys)

NextChunk ==
  /\ chunked /\ pc = "done" /\ keys # <<>> /\ Fresh # <<>>
  /\ walked' = walked \o Fresh
  /\ start' = keys[Len(keys)]
  /\ pc' = "walk" /\ positioning' = TRUE /\ at' = BOF
  /\ keys' = <<>> /\ cursor' = TRUE
  /\ op' = FirstOp(start', reverse)
  /\ UNCHANGED <<records, reverse, limit, chunked>>

Next == Full \/ Turn \/ Fails \/ Panics \/ NextChunk

Spec == Init /\ [][Next]_vars

\* The loop runs on its own; whether another chunk is asked for is up to R code.
FairSpec == Spec /\ WF_vars(Full \/ Turn)

-----------------------------------------------------------------------------
(* Properties.                                                             *)

TypeOK ==
  /\ records \subseteq 1 .. MaxKey
  /\ start \in Starts /\ reverse \in BOOLEAN /\ limit \in Limits
  /\ chunked \in BOOLEAN
  /\ walked \in Seq(1 .. MaxKey) /\ keys \in Seq(1 .. MaxKey)
  /\ pc \in {"walk", "done", "error", "panic"}
  /\ op \in Ops /\ positioning \in BOOLEAN
  /\ at \in BOF .. EOF /\ cursor \in BOOLEAN

Ahead(a, b) == IF reverse THEN a > b ELSE a < b

\* The records a scan with start s is about: from s on, s included.
Wanted(s) == {r \in records : s = NoStart \/ r = s \/ Ahead(s, r)}

\* seq lists some of the keys in S, in the order of the walk and without a gap.
FrontOf(seq, S) ==
  /\ \A i, j \in 1 .. Len(seq) : i < j => Ahead(seq[i], seq[j])
  /\ \A i \in 1 .. Len(seq) :
       seq[i] \in S /\ \A r \in S : Ahead(r, seq[i]) => \E j \in 1 .. i : seq[j] = r

\* Whatever the start, the direction and the limit, a scan collects the keys
\* from its start on, in order and without a gap, never more than the limit;
\* and stops only at the limit or at the end (scan_call()).
ScansInOrder ==
  /\ FrontOf(keys, Wanted(start))
  /\ limit # NoLimit => Len(keys) <= limit
  /\ pc = "done" => \/ Len(keys) = Cardinality(Wanted(start))
                    \/ Len(keys) = limit

\* The chunks of a walk, put together as mdbx_keys() says, list every record
\* once and in order.
ChunksCover ==
  chunked =>
    /\ FrontOf(walked, records)
    /\ pc = "done" /\ (keys = <<>> \/ Fresh = <<>>) => Len(walked) = Cardinality(records)

\* Every scan comes to an end, and so does a walk in chunks: it is not caught
\* on the record it repeats.
Terminates == <>[](pc # "walk")

\* No native cursor outlives its scan, unless libmdbx panicked.
CursorClosed == cursor => pc \in {"walk", "panic"}

-----------------------------------------------------------------------------
(* What the properties follow from: where a scan stands between two turns, *)
(* and a walk between two chunks.                                          *)

CursorInv == /\ pc = "walk" => cursor
             /\ pc \in {"done", "error"} => ~cursor

PlaceInv ==
  pc = "walk" =>
    IF positioning THEN keys = <<>> /\ at = BOF /\ op = FirstOp(start, reverse)
    ELSE /\ keys # <<>> /\ at = keys[Len(keys)]
         /\ op = IF reverse THEN "PREV" ELSE "NEXT"

ChunkInv ==
  chunked =>
    /\ limit >= 2
    /\ FrontOf(walked, records)
    /\ IF walked = <<>> THEN start = NoStart ELSE start = walked[Len(walked)]

IInv == TypeOK /\ CursorInv /\ PlaceInv /\ ScansInOrder /\ ChunkInv
=============================================================================
