---------------------------- MODULE AtomicStore ----------------------------
(***************************************************************************)
(* What the package promises about data: a transaction works on a snapshot *)
(* of the environment, one process writes at a time, a write is one put,   *)
(* deletion, creation or drop in one database of the writer's view, a      *)
(* commit publishes that view as a whole, and nothing else publishes       *)
(* anything. Which database a call may write to is left open here.         *)
(***************************************************************************)
EXTENDS Databases

CONSTANTS Procs    \* processes that use the environment

VARIABLES
  committed,   \* what the next transaction will see
  writer,      \* the process that holds the writer lock, or Null
  mode,        \* what transaction each process has
  view         \* what that transaction sees

vars == <<committed, writer, mode, view>>

Init ==
  /\ committed = EmptyStore
  /\ writer = Null
  /\ mode = [p \in Procs |-> "none"]
  /\ view = [p \in Procs |-> EmptyStore]

Begin(p, m) ==
  /\ mode[p] = "none"
  /\ m = "write" => writer = Null
  /\ writer' = IF m = "write" THEN p ELSE writer
  /\ mode' = [mode EXCEPT ![p] = m]
  /\ view' = [view EXCEPT ![p] = committed]
  /\ UNCHANGED committed

\* A write turns the view into s.
Write(p, s) ==
  /\ mode[p] = "write"
  /\ view' = [view EXCEPT ![p] = s]
  /\ UNCHANGED <<committed, writer, mode>>

Update(p) ==
  \/ \E d \in DBs, k \in Bytes, v \in Vals, overwrite \in BOOLEAN :
       Exists(view[p], d) /\ Write(p, PutStore(view[p], d, k, v, overwrite))
  \/ \E d \in DBs, k \in Bytes :
       Exists(view[p], d) /\ Write(p, DelStore(view[p], d, k))
  \/ \E n \in Bytes :
       ~Present(view[p], Main, n) /\ Write(p, Created(view[p], n))
  \/ \E d \in DBs, del \in BOOLEAN :
       /\ Exists(view[p], d) /\ ~DropRefused(view[p], d, del)
       /\ Write(p, Dropped(view[p], d, del))

\* The transaction of p is over, and s is what the next one sees.
End(p, s) ==
  /\ committed' = s
  /\ writer' = IF writer = p THEN Null ELSE writer
  /\ mode' = [mode EXCEPT ![p] = "none"]
  /\ view' = [view EXCEPT ![p] = EmptyStore]

Commit(p) == mode[p] = "write" /\ End(p, view[p])

\* Abort, a commit that fails, the death of the process.
Discard(p) == mode[p] # "none" /\ End(p, committed)

\* The transaction can only be ended ("failed"), or not even that ("stuck").
Fail(p) ==
  /\ mode[p] \in {"read", "write", "failed"}
  /\ \E m \in {"failed", "stuck"} :
       /\ m = "failed" => mode[p] = "write"
       /\ mode' = [mode EXCEPT ![p] = m]
  /\ UNCHANGED <<committed, writer, view>>

Next == \E p \in Procs : \/ Begin(p, "read") \/ Begin(p, "write")
                         \/ Update(p) \/ Commit(p) \/ Discard(p) \/ Fail(p)

Spec == Init /\ [][Next]_vars
=============================================================================
