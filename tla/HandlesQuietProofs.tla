------------------------ MODULE HandlesQuietProofs ------------------------
(***************************************************************************)
(* Proofs about Handles for sessions in which no finalizer written in R    *)
(* calls the package from inside one of its allocations: nothing comes     *)
(* between the two halves of an open or a begin. R may run out of memory   *)
(* there; where that matters the theorem says so.                          *)
(***************************************************************************)
EXTENDS HandlesProofs

\* The only misuse a session may have committed: closing an environment under
\* a transaction that a failed allocation has lost.
Tolerated == IF AllocFails THEN {"livetxn"} ELSE {}

\* A tracked transaction of this process, in an environment that is not
\* poisoned, may be handed to libmdbx, and so may the environment afterwards.
LEMMA HealthyTxn ==
  ASSUME IInv, NEW t \in Txns, Tracked(t), txn[t].txn, txn[t].pid = self,
         ~env[txn[t].owner].poisoned
  PROVE TxnMisuse(t) = {} /\ HeapRootsMisuse(t) = {}
<1>1. TypeOK /\ HandleInv /\ QuietInv
  BY DEF IInv, HandleInv
<1>2. txn[t].owner \in Envs /\ txn[t].owner # Null /\ ntxn[t] = txn[t].owner
  BY <1>1, Fields DEF HandleInv, TxnInv
<1>3. env[txn[t].owner].env /\ env[txn[t].owner].pid = self
  BY <1>1 DEF QuietInv, QuietTxn
<1>4. nenv[txn[t].owner].st \in Callable /\ nenv[txn[t].owner].pid = self
  BY <1>1, <1>2, <1>3 DEF HandleInv, EnvInv
<1>5. EnvMisuse(txn[t].owner) = {}
  BY <1>4 DEF EnvMisuse, Callable
<1> QED BY <1>2, <1>5 DEF TxnMisuse, HeapRootsMisuse

\* The same for an environment handle.
LEMMA HealthyEnv ==
  ASSUME IInv, NEW e \in Envs, env[e].env, ~env[e].poisoned, env[e].pid = self
  PROVE /\ nenv[e].st \in Callable /\ nenv[e].pid = self
        /\ EnvMisuse(e) = {}
<1>1. nenv[e].st \in Callable /\ nenv[e].pid = self
  BY DEF IInv, HandleInv, EnvInv
<1> QED BY <1>1 DEF EnvMisuse, Callable

\* What the registry of a healthy environment of this process names may be
\* aborted, and is a single transaction.
LEMMA HealthyRegistry ==
  ASSUME IInv, NEW e \in Envs, env[e].env, ~env[e].poisoned, env[e].pid = self
  PROVE /\ DetachAborts(e) = env[e].live_txns
        /\ \A t \in env[e].live_txns : /\ t \in Txns /\ txn[t].txn /\ t \in sexp
                                       /\ txn[t].owner = e
                                       /\ TxnMisuse(t) = {}
        /\ \A t, u \in env[e].live_txns : t = u
<1>1. TypeOK /\ HandleInv /\ QuietInv
  BY DEF IInv, HandleInv
<1>2. \A t \in env[e].live_txns :
        t \in Txns /\ txn[t].txn /\ txn[t].owner = e /\ t \in sexp
  BY <1>1, Fields DEF HandleInv, PairInv
<1>3. nenv[e].st \in Callable
  BY HealthyEnv
<1>4. \A t \in env[e].live_txns : ~txn[t].poisoned /\ txn[t].pid = self
  BY <1>1, <1>2, <1>3 DEF HandleInv, TxnInv, QuietInv, QuietTxn, Tracked
<1>5. \A t \in env[e].live_txns : TxnMisuse(t) = {}
  BY <1>2, <1>4, HealthyTxn DEF Tracked
<1>6. \A t, u \in env[e].live_txns : t = u
  BY <1>1, <1>2 DEF QuietInv, Tracked
<1>7. DetachAborts(e) = env[e].live_txns
  BY <1>2, <1>4 DEF DetachAborts
<1> QED BY <1>2, <1>5, <1>6, <1>7

\* detach_txns() and close_handle() keep libmdbx's contract, unless memory ran
\* out in a begin.
LEMMA DetachTolerated ==
  ASSUME IInv, NEW e \in Envs, NEW P \in SUBSET DetachAborts(e),
         NEW R \in SUBSET (DetachAborts(e) \ P),
         \A t \in Txns : OnStack(t) => txn[t].owner # e,
         DetachAndClose(e, P, R)
  PROVE misuse' \subseteq Tolerated
<1>1. HandleInv /\ TypeOK /\ misuse \subseteq Tolerated
  BY DEF IInv, HandleInv, QuietInv, Tolerated
<1>2. CASE env[e].env /\ ~env[e].poisoned /\ env[e].pid = self
  <2>1. /\ DetachAborts(e) = env[e].live_txns
        /\ \A t \in env[e].live_txns : t \in Txns /\ TxnMisuse(t) = {}
        /\ \A t, u \in env[e].live_txns : t = u
    BY <1>2, HealthyRegistry
  <2>2. nenv[e].st \in Callable /\ nenv[e].pid = self /\ EnvMisuse(e) = {}
    BY <1>2, HealthyEnv
  <2>3. \A t \in P : DetachAborts(e) = {t}
    BY <2>1
  <2>4. DetachMisuse(e, P) = {}
    BY <2>1, <2>3 DEF DetachMisuse
  <2> DEFINE gone == ((DetachAborts(e) \ (P \cup R)) \cup R) \cup EndedInName(e)
  <2>5. ASSUME ~AllocFails, NEW t \in Txns, ntxn[t] = e
        PROVE t \in env[e].live_txns \/ t \in EndedInName(e)
    <3>1. CASE ~txn[t].txn
      <4>1. e # Null
        BY ConstantsAssumption DEF ConstantsAssumption
      <4>2. nenv[e].st # "open"
        BY <1>1, <2>2, <2>5, <3>1, <4>1 DEF HandleInv, TxnInv
      <4> QED BY <2>2, <2>5, <3>1, <4>2 DEF Callable, EndedInName
    <3>2. CASE txn[t].txn
      <4>1. txn[t].owner = e
        BY <1>1, <2>5, <3>2 DEF HandleInv, TxnInv
      <4>2. t \in sexp
        BY <1>1, <2>5, <3>2, <4>1 DEF HandleInv, TxnInv, Tracked
      <4> QED BY <1>1, <3>2, <4>1, <4>2 DEF HandleInv, TxnInv
    <3> QED BY <3>1, <3>2
  <2>6. P = {} => CloseMisuse(e, gone) \subseteq Tolerated
    BY <2>1, <2>2, <2>5 DEF CloseMisuse, Tolerated
  <2>7. CASE P = {}
    BY <1>1, <1>2, <2>4, <2>6, <2>7 DEF DetachAndClose
  <2>8. CASE P # {}
    BY <1>1, <1>2, <2>4, <2>8 DEF DetachAndClose
  <2> QED BY <2>7, <2>8
<1>3. CASE ~(env[e].env /\ ~env[e].poisoned /\ env[e].pid = self)
  <2>1. DetachAborts(e) = {} /\ P = {}
    BY <1>3 DEF DetachAborts
  <2>2. DetachMisuse(e, P) = {}
    BY <2>1 DEF DetachMisuse
  <2> QED BY <1>1, <1>3, <2>1, <2>2 DEF DetachAndClose
<1> QED BY <1>2, <1>3

\* A step after which every live transaction was live before, with its owner
\* as it was, apart from panics.
LEMMA QuietStep ==
  ASSUME IInv, misuse' \subseteq Tolerated, self' = self, Len(stack') <= 1,
         \A x : OnStack(x)' => OnStack(x),
         \A f \in Envs : /\ OnStack(f)' => env'[f].pid = env[f].pid
                         /\ ~env'[f].env => env'[f].live_txns = {},
         \A t \in Txns : OnStack(t)' => txn'[t].pid = txn[t].pid,
         \A t \in Txns : txn'[t].txn /\ Tracked(t)' =>
           /\ txn[t].txn /\ Tracked(t)
           /\ txn'[t].owner = txn[t].owner /\ txn'[t].pid = txn[t].pid
           /\ env'[txn[t].owner].env = env[txn[t].owner].env
           /\ env'[txn[t].owner].pid = env[txn[t].owner].pid
           /\ txn'[t].poisoned => txn[t].poisoned \/ env'[txn[t].owner].poisoned
           /\ env[txn[t].owner].poisoned => env'[txn[t].owner].poisoned
  PROVE QuietInv'
<1>1. QuietInv
  BY DEF IInv
<1>2. \A f \in Envs : QuietEnv(f)'
  BY <1>1 DEF QuietInv, QuietEnv
<1>3. \A t \in Txns : QuietTxn(t)'
  BY <1>1 DEF QuietInv, QuietTxn
<1>4. \A t, u \in Txns :
        txn'[t].txn /\ txn'[u].txn /\ Tracked(t)' /\ Tracked(u)'
          /\ txn'[t].owner = txn'[u].owner => t = u
  BY <1>1 DEF QuietInv
<1>5. Tolerated' = Tolerated
  BY DEF Tolerated
<1> QED BY <1>2, <1>3, <1>4 DEF QuietInv, Tolerated

\* Steps that leave the handles, the stack and the external pointers alone.
LEMMA QuietIdle ==
  ASSUME IInv, misuse' \subseteq Tolerated, UNCHANGED <<self, env, txn, stack, sexp>>
  PROVE QuietInv'
<1>1. \A x : (OnStack(x)' <=> OnStack(x)) /\ (Tracked(x)' <=> Tracked(x))
  BY DEF OnStack, Tracked
<1>2. \A f \in Envs : ~env[f].env => env[f].live_txns = {}
  BY DEF IInv, QuietInv, QuietEnv
<1>3. Len(stack') <= 1
  BY DEF IInv, QuietInv
<1> QED BY <1>1, <1>2, <1>3, QuietStep

-----------------------------------------------------------------------------
(* One lemma per action.                                                   *)

\* Without re-entry R code runs only when no external pointer is being built.
LEMMA NothingBuilt ==
  ASSUME RCode, ~Reentrant
  PROVE stack = <<>> /\ \A x : ~OnStack(x)
BY DEF RCode, OnStack

LEMMA PushFirst ==
  ASSUME TypeOK, RCode, ~Reentrant, NEW x, Push(x)
  PROVE Len(stack') = 1 /\ \A y : OnStack(y)' <=> y = x
<1>1. stack = <<>>
  BY NothingBuilt
<1>2. stack' = <<x>>
  BY <1>1 DEF Push
<1> QED BY <1>2 DEF OnStack

\* mdbx_env_open_() up to the external pointer.
LEMMA OpenQuiet ==
  ASSUME IInv, ~Reentrant, NEW e \in Envs, NEW k \in Keys, Open(e, k)
  PROVE QuietInv'
<1>1. TypeOK /\ HandleInv /\ QuietInv
  BY DEF IInv, HandleInv
<1>2. Len(stack') = 1 /\ \A y : (OnStack(y)' <=> y = e) /\ ~OnStack(y)
  BY <1>1, PushFirst, NothingBuilt DEF Open
<1>3. /\ env'[e].env /\ env'[e].pid = self
      /\ \A f \in Envs \ {e} : env'[f] = env[f]
  BY <1>1 DEF Open, TypeOK, NoEnv
<1>4. UNCHANGED <<self, txn, sexp, misuse>>
  BY DEF Open
<1>5. \A t \in Txns : t # e /\ ntxn[t] # e
  BY ConstantsAssumption DEF Open, FreshEnv, ConstantsAssumption
<1>6. \A t \in Txns : txn[t].txn => txn[t].owner \in Envs \ {e}
  BY <1>1, <1>5, Fields DEF HandleInv, TxnInv
<1>7. ASSUME NEW f \in Envs PROVE QuietEnv(f)'
  BY <1>1, <1>2, <1>3, <1>4 DEF QuietInv, QuietEnv
<1>8. ASSUME NEW t \in Txns PROVE QuietTxn(t)' /\ (Tracked(t)' <=> Tracked(t))
  <2>1. ~OnStack(t)' /\ ~OnStack(t)
    BY <1>2, <1>5
  <2>2. Tracked(t)' <=> Tracked(t)
    BY <1>4, <2>1 DEF Tracked
  <2>3. QuietTxn(t)
    BY <1>1 DEF QuietInv
  <2> QED BY <1>3, <1>4, <1>6, <2>1, <2>2, <2>3 DEF QuietTxn
<1>9. \A t, u \in Txns :
        txn'[t].txn /\ txn'[u].txn /\ Tracked(t)' /\ Tracked(u)'
          /\ txn'[t].owner = txn'[u].owner => t = u
  BY <1>1, <1>4, <1>8 DEF QuietInv
<1> QED BY <1>1, <1>2, <1>4, <1>7, <1>8, <1>9 DEF QuietInv

\* The registration of an environment, and the failures before one.
LEMMA BuiltQuiet ==
  ASSUME IInv, NEW x, OpenDone(x) \/ OpenAllocFails(x) \/ BeginAllocFails(x)
  PROVE QuietInv'
<1>1. TypeOK /\ HandleInv /\ QuietInv /\ StackInv
  BY DEF IInv, HandleInv
<1>2. Building(x) /\ stack' = Tail(stack) /\ UNCHANGED <<self, env, txn, misuse>>
  BY DEF OpenDone, OpenAllocFails, BeginAllocFails, handles, native
<1>3. OnStack(x) /\ \A y : OnStack(y)' <=> (y # x /\ OnStack(y))
  BY <1>1, <1>2, PopStack
<1>4. Len(stack') <= 1
  <2>1. stack # <<>> /\ stack \in Seq(Envs \cup Txns) /\ Len(stack) <= 1
    BY <1>1, <1>2 DEF Building, TypeOK, QuietInv
  <2> QED BY <1>2, <2>1
<1>5. sexp' \subseteq sexp \cup {x}
  BY DEF OpenDone, OpenAllocFails, BeginAllocFails
<1>6. \A y : Tracked(y)' => Tracked(y)
  BY <1>3, <1>5 DEF Tracked
<1>7. misuse' \subseteq Tolerated
  BY <1>1, <1>2 DEF QuietInv, Tolerated
<1>8. \A f \in Envs : ~env[f].env => env[f].live_txns = {}
  BY <1>1 DEF QuietInv, QuietEnv
<1> QED BY <1>2, <1>3, <1>4, <1>6, <1>7, <1>8, QuietStep

\* The registration of a transaction: its owner is still open.
LEMMA BeginDoneQuiet ==
  ASSUME IInv, NEW t \in Txns, BeginDone(t)
  PROVE QuietInv'
<1>1. TypeOK /\ HandleInv /\ QuietInv /\ StackInv
  BY DEF IInv, HandleInv
<1>2. Building(t) /\ stack' = Tail(stack) /\ UNCHANGED <<self, txn, misuse>>
  BY DEF BeginDone, native
<1>3. OnStack(t) /\ \A y : OnStack(y)' <=> (y # t /\ OnStack(y))
  BY <1>1, <1>2, PopStack
<1>4. Len(stack') <= 1
  <2>1. stack # <<>> /\ stack \in Seq(Envs \cup Txns) /\ Len(stack) <= 1
    BY <1>1, <1>2 DEF Building, TypeOK, QuietInv
  <2> QED BY <1>2, <2>1
<1>5. \A y : Tracked(y)' => Tracked(y)
  BY <1>3 DEF Tracked, BeginDone
<1>6. txn[t].txn /\ txn[t].owner \in Envs /\ env[txn[t].owner].env
  BY <1>1, <1>3, Fields DEF HandleInv, TxnInv, QuietInv, QuietTxn, Tracked
<1>7. \A f \in Envs : /\ env'[f].env = env[f].env /\ env'[f].pid = env[f].pid
                      /\ env'[f].poisoned = env[f].poisoned
                      /\ f # txn[t].owner => env'[f].live_txns = env[f].live_txns
  <2>1. env' = [env EXCEPT ![txn[t].owner].live_txns = @ \cup {t}]
    BY DEF BeginDone
  <2> QED BY <1>1, <1>6, <2>1 DEF TypeOK, EnvHandle
<1>8. \A f \in Envs : ~env'[f].env => env'[f].live_txns = {}
  BY <1>1, <1>6, <1>7 DEF QuietInv, QuietEnv
<1>9. misuse' \subseteq Tolerated
  BY <1>1, <1>2 DEF QuietInv, Tolerated
<1>10. \A u \in Txns : txn[u].txn => txn[u].owner \in Envs
  BY <1>1, Fields DEF HandleInv, TxnInv
<1> QED BY <1>2, <1>3, <1>4, <1>5, <1>7, <1>8, <1>9, <1>10, QuietStep

\* mdbx_txn_begin_() up to the external pointer: nothing that is tracked is in
\* the environment yet.
LEMMA BeginQuiet ==
  ASSUME IInv, ~Reentrant, NEW e \in Envs, NEW t \in Txns, Begin(e, t)
  PROVE QuietInv'
<1>1. TypeOK /\ HandleInv /\ QuietInv
  BY DEF IInv, HandleInv
<1>2. Len(stack') = 1 /\ \A y : (OnStack(y)' <=> y = t) /\ ~OnStack(y)
  BY <1>1, PushFirst, NothingBuilt DEF Begin
<1>3. /\ env[e].env /\ ~env[e].poisoned /\ env[e].pid = self /\ env[e].live_txns = {}
      /\ ~txn[t].alloc
  BY DEF Begin, BeginAllowed, env_from_sexp, FreshTxn
<1>4. EnvMisuse(e) = {}
  BY <1>3, HealthyEnv
<1>5. UNCHANGED <<self, env, sexp, misuse>>
  BY <1>4 DEF Begin
<1>6. /\ txn'[t].txn /\ ~txn'[t].poisoned /\ txn'[t].owner = e /\ txn'[t].pid = self
      /\ \A u \in Txns \ {t} : txn'[u] = txn[u]
  BY <1>1 DEF Begin, TypeOK, NoTxn
<1>7. \A u \in Txns : u # t => (Tracked(u)' <=> Tracked(u))
  BY <1>2, <1>5 DEF Tracked
<1>8. \A u \in Txns : txn[u].txn /\ Tracked(u) => txn[u].owner # e
  BY <1>1, <1>2, <1>3 DEF HandleInv, TxnInv, Tracked
<1>9. ASSUME NEW f \in Envs PROVE QuietEnv(f)'
  <2>1. f # t
    BY ConstantsAssumption DEF ConstantsAssumption
  <2> QED BY <1>1, <1>2, <1>5, <2>1 DEF QuietInv, QuietEnv
<1>10. QuietTxn(t)'
  BY <1>3, <1>5, <1>6 DEF QuietTxn
<1>11. ASSUME NEW u \in Txns \ {t} PROVE QuietTxn(u)'
  BY <1>1, <1>2, <1>5, <1>6, <1>7 DEF QuietInv, QuietTxn
<1>12. \A u, v \in Txns :
        txn'[u].txn /\ txn'[v].txn /\ Tracked(u)' /\ Tracked(v)'
          /\ txn'[u].owner = txn'[v].owner => u = v
  <2> SUFFICES ASSUME NEW u \in Txns, NEW v \in Txns,
                      txn'[u].txn, txn'[v].txn, Tracked(u)', Tracked(v)',
                      txn'[u].owner = txn'[v].owner
               PROVE u = v
    OBVIOUS
  <2>1. CASE u = t \/ v = t
    BY <1>6, <1>7, <1>8, <2>1
  <2>2. CASE u # t /\ v # t
    BY <1>1, <1>6, <1>7, <2>2 DEF QuietInv
  <2> QED BY <2>1, <2>2
<1> QED BY <1>1, <1>2, <1>5, <1>9, <1>10, <1>11, <1>12 DEF QuietInv

\* fork() between two calls.
LEMMA ForkQuiet ==
  ASSUME IInv, ~Reentrant, Fork
  PROVE QuietInv'
<1>1. QuietInv
  BY DEF IInv
<1>2. UNCHANGED <<env, txn, stack, sexp, misuse>>
  BY DEF Fork, handles, rside, native
<1>3. \A x : ~OnStack(x) /\ ~OnStack(x)' /\ (Tracked(x)' <=> Tracked(x))
  BY <1>2, NothingBuilt DEF Fork, OnStack, Tracked
<1> QED BY <1>1, <1>2, <1>3 DEF QuietInv, QuietEnv, QuietTxn

\* What detach_txns() and close_handle() leave.
LEMMA CloseQuiet ==
  ASSUME IInv, NEW e \in Envs, NEW P \in SUBSET DetachAborts(e),
         NEW R \in SUBSET (DetachAborts(e) \ P),
         \A t \in Txns : OnStack(t) => txn[t].owner # e,
         ~OnStack(e), DetachAndClose(e, P, R),
         \A f \in Envs \ {e} : env'[f] = env[f],
         ~env'[e].env, env'[e].live_txns = {},
         sexp' \in {sexp, sexp \ {e}},
         UNCHANGED <<self, stack>>
  PROVE QuietInv'
<1>1. TypeOK /\ HandleInv /\ QuietInv
  BY DEF IInv, HandleInv
<1>2. misuse' \subseteq Tolerated
  BY DetachTolerated
<1>3. \A x : OnStack(x)' <=> OnStack(x)
  BY DEF OnStack
<1>4. /\ \A t \in Txns : t \notin env[e].live_txns => txn'[t] = txn[t]
      /\ \A t \in env[e].live_txns : txn'[t].pid = txn[t].pid /\ ~txn'[t].txn
      /\ env[e].live_txns \subseteq Txns
  <2>1. txn \in [Txns -> TxnHandle] /\ env[e].live_txns \subseteq Txns
    BY <1>1, Fields DEF TypeOK
  <2>2. txn' = Detached(e, P)
    BY DEF DetachAndClose
  <2>3. \A t \in Txns : t \notin env[e].live_txns => txn'[t] = txn[t]
    BY <2>2 DEF Detached
  <2>4. ASSUME NEW t \in env[e].live_txns
        PROVE txn'[t].pid = txn[t].pid /\ ~txn'[t].txn
    <3> DEFINE F == Finished(t, "aborted")
    <3>1. F \in TxnHandle
      BY <2>1, FinishedType
    <3>2. F.pid = txn[t].pid /\ ~F.txn
      BY <2>1 DEF Finished, TxnHandle
    <3>3. txn'[t] = [F EXCEPT !.poisoned = @ \/ t \in P]
      BY <2>1, <2>2 DEF Detached
    <3> HIDE DEF F
    <3> QED BY <3>1, <3>2, <3>3 DEF TxnHandle
  <2> QED BY <2>1, <2>3, <2>4
<1>5. \A t \in Txns : Tracked(t)' <=> Tracked(t)
  BY <1>3, ConstantsAssumption DEF Tracked, ConstantsAssumption
<1>6. ASSUME NEW t \in Txns, txn'[t].txn, Tracked(t)'
      PROVE txn[t].txn /\ Tracked(t) /\ txn'[t] = txn[t] /\ txn[t].owner \in Envs \ {e}
  <2>1. txn'[t] = txn[t] /\ t \notin env[e].live_txns
    BY <1>4, <1>6
  <2>2. Tracked(t) /\ txn[t].txn
    BY <1>5, <1>6, <2>1
  <2>3. t \in sexp => txn[t].owner # e
    BY <1>1, <2>1, <2>2 DEF HandleInv, TxnInv
  <2>4. txn[t].owner # e
    BY <2>2, <2>3 DEF Tracked
  <2>5. txn[t].owner \in Envs
    BY <1>1, <2>2, Fields DEF HandleInv, TxnInv
  <2> QED BY <2>1, <2>2, <2>4, <2>5
<1>7. \A f \in Envs : /\ OnStack(f)' => env'[f].pid = env[f].pid
                      /\ ~env'[f].env => env'[f].live_txns = {}
  BY <1>1, <1>3 DEF QuietInv, QuietEnv
<1>8. \A t \in Txns : txn'[t].pid = txn[t].pid
  BY <1>4
<1>9. Len(stack') <= 1
  BY <1>1 DEF QuietInv
<1> QED BY <1>2, <1>3, <1>6, <1>7, <1>8, <1>9, QuietStep

\* mdbx_env_close_() and finalize_env() are instances.
LEMMA CloseHandleQuiet ==
  ASSUME IInv, ~Reentrant, NEW e \in Envs, Close(e)
  PROVE QuietInv'
<1>1. TypeOK
  BY DEF IInv, HandleInv
<1>2. \A x : ~OnStack(x)
  BY NothingBuilt DEF Close
<1>3. DetachAndClose(e, {}, {}) /\ UNCHANGED <<self, stack, sexp>>
  BY DEF Close, rside
<1>4. /\ ~env'[e].env /\ env'[e].live_txns = {}
      /\ \A f \in Envs \ {e} : env'[f] = env[f]
  <2>1. env \in [Envs -> EnvHandle]
    BY <1>1 DEF TypeOK
  <2>2. env' = [env EXCEPT ![e].env = FALSE, ![e].live_txns = {},
                           ![e].poisoned = @ \/ nenv'[e].st = "halfclosed"]
    BY DEF Close
  <2> QED BY <2>1, <2>2 DEF EnvHandle
<1> QED BY <1>2, <1>3, <1>4, CloseQuiet

LEMMA FinalizeEnvQuiet ==
  ASSUME IInv, ~Reentrant, NEW e \in Envs, FinalizeEnv(e)
  PROVE QuietInv'
<1>1. TypeOK /\ EnvInv(e)
  BY DEF IInv, HandleInv
<1>2. PICK P \in SUBSET DetachAborts(e) :
        \E R \in SUBSET (DetachAborts(e) \ P) : DetachAndClose(e, P, R)
  BY DEF FinalizeEnv
<1>3. /\ e \in sexp /\ sexp' = sexp \ {e} /\ UNCHANGED <<self, stack>>
      /\ env' = [env EXCEPT ![e] = NoEnv]
  BY DEF FinalizeEnv, Finalizable
<1>4. ~OnStack(e)
  BY <1>1, <1>3 DEF EnvInv
<1>5. \A t \in Txns : OnStack(t) => txn[t].owner # e
  BY NothingBuilt DEF FinalizeEnv, Finalizable, Reachable
<1>6. /\ ~env'[e].env /\ env'[e].live_txns = {}
      /\ \A f \in Envs \ {e} : env'[f] = env[f]
  BY <1>1, <1>3 DEF TypeOK, NoEnv
<1> QED BY <1>2, <1>3, <1>4, <1>5, <1>6, CloseQuiet

\* Ending a live transaction: it is not live afterwards, and the others and
\* their owners are as they were, apart from a panic of its owner.
LEMMA EndsQuiet ==
  ASSUME IInv, NEW t \in Txns, txn[t].txn, t \in sexp, NEW panic \in BOOLEAN,
         \A f \in Envs : EndsInEnv(t, panic, f),
         \A u \in Txns \ {t} : txn'[u] = txn[u],
         ~txn'[t].txn, sexp' \in {sexp, sexp \ {t}},
         misuse' \subseteq Tolerated, UNCHANGED <<self, stack>>
  PROVE QuietInv'
<1>1. TypeOK /\ HandleInv /\ QuietInv /\ ~OnStack(t)
  BY DEF IInv, HandleInv, TxnInv
<1>2. \A x : (OnStack(x)' <=> OnStack(x)) /\ (Tracked(x)' => Tracked(x))
  BY DEF OnStack, Tracked
<1>3. \A f \in Envs :
        /\ env'[f].env = env[f].env /\ env'[f].pid = env[f].pid
        /\ env'[f].live_txns \subseteq env[f].live_txns
        /\ env[f].poisoned => env'[f].poisoned
  BY DEF EndsInEnv
<1>4. \A f \in Envs : ~env'[f].env => env'[f].live_txns = {}
  BY <1>1, <1>3 DEF QuietInv, QuietEnv
<1>5. \A u \in Txns : txn[u].txn => txn[u].owner \in Envs
  BY <1>1, Fields DEF HandleInv, TxnInv
<1>6. \A u \in Txns : OnStack(u)' => txn'[u] = txn[u]
  BY <1>1, <1>2
<1>7. \A u \in Txns : txn'[u].txn => txn'[u] = txn[u]
  OBVIOUS
<1>8. Len(stack') <= 1
  BY <1>1 DEF QuietInv
<1> QED BY <1>2, <1>3, <1>4, <1>5, <1>6, <1>7, <1>8, QuietStep

\* A panic in an open environment, with some of its transactions.
LEMMA PanicQuiet ==
  ASSUME IInv, NEW e \in Envs,
         env' = [env EXCEPT ![e].poisoned = TRUE],
         NEW T \in SUBSET Txns, \A t \in T : txn[t].txn /\ txn[t].owner = e,
         \A t \in Txns : txn'[t] = IF t \in T THEN [txn[t] EXCEPT !.poisoned = TRUE] ELSE txn[t],
         misuse' \subseteq Tolerated, UNCHANGED <<self, stack, sexp>>
  PROVE QuietInv'
<1>1. TypeOK /\ HandleInv /\ QuietInv
  BY DEF IInv, HandleInv
<1>2. \A x : (OnStack(x)' <=> OnStack(x)) /\ (Tracked(x)' <=> Tracked(x))
  BY DEF OnStack, Tracked
<1>3. \A f \in Envs :
        /\ env'[f].env = env[f].env /\ env'[f].pid = env[f].pid
        /\ env'[f].live_txns = env[f].live_txns
        /\ env'[f].poisoned <=> (f = e \/ env[f].poisoned)
  BY <1>1 DEF TypeOK, EnvHandle
<1>4. \A t \in Txns :
        /\ txn'[t].txn = txn[t].txn /\ txn'[t].owner = txn[t].owner
        /\ txn'[t].pid = txn[t].pid
        /\ txn'[t].poisoned <=> (t \in T \/ txn[t].poisoned)
  BY <1>1 DEF TypeOK, TxnHandle
<1>5. \A f \in Envs : ~env'[f].env => env'[f].live_txns = {}
  BY <1>1, <1>3 DEF QuietInv, QuietEnv
<1>6. \A u \in Txns : txn[u].txn => txn[u].owner \in Envs
  BY <1>1, Fields DEF HandleInv, TxnInv
<1>8. Len(stack') <= 1
  BY <1>1 DEF QuietInv
<1> QED BY <1>2, <1>3, <1>4, <1>5, <1>6, <1>8, QuietStep

\* Guarded calls on an environment, and a begin that panics.
LEMMA EnvCallQuiet ==
  ASSUME IInv, NEW e \in Envs, EnvCall(e) \/ BeginFails(e)
  PROVE QuietInv'
<1>0. TypeOK /\ QuietInv
  BY DEF IInv, HandleInv
<1>1. env[e].env /\ ~env[e].poisoned /\ env[e].pid = self
  BY DEF EnvCall, BeginFails, BeginAllowed, env_from_sexp
<1>2. misuse' \subseteq Tolerated
  <2>1. EnvMisuse(e) = {} /\ misuse \subseteq Tolerated
    BY <1>0, <1>1, HealthyEnv DEF QuietInv, Tolerated
  <2>2. CASE EnvCall(e)
    <3>1. PICK T \in current_txn(e) :
            misuse' = misuse \cup EnvMisuse(e)
                        \cup {m \in Misuses : \E t \in T : m \in TxnMisuse(t)}
      BY <2>2 DEF EnvCall
    <3>2. \A t \in T : TxnMisuse(t) = {}
      BY <1>1, HealthyRegistry DEF current_txn
    <3> QED BY <2>1, <3>1, <3>2
  <2>3. CASE BeginFails(e)
    BY <2>1, <2>3 DEF BeginFails
  <2> QED BY <2>2, <2>3
<1>3. UNCHANGED <<self, txn, sexp, stack>>
  BY DEF EnvCall, BeginFails, rside
<1>4. CASE UNCHANGED env
  BY <1>2, <1>3, <1>4, QuietIdle
<1>5. CASE env' = [env EXCEPT ![e].poisoned = TRUE]
  <2>1. {} \in SUBSET Txns /\ \A t \in {} : txn[t].txn /\ txn[t].owner = e
    OBVIOUS
  <2>2. \A t \in Txns : txn'[t] = IF t \in {} THEN [txn[t] EXCEPT !.poisoned = TRUE]
                                   ELSE txn[t]
    BY <1>3
  <2> QED BY <1>2, <1>3, <1>5, <2>1, <2>2, PanicQuiet
<1> QED BY <1>4, <1>5 DEF EnvCall, BeginFails, GuardedOnEnv

\* What libmdbx may be asked of an authentic transaction.
LEMMA AuthenticQuiet ==
  ASSUME IInv, NEW t \in Txns, txn_from_sexp(t)
  PROVE /\ TxnMisuse(t) = {} /\ HeapRootsMisuse(t) = {}
        /\ t \in sexp /\ txn[t].txn /\ txn[t].owner \in Envs /\ txn[t].owner # Null
        /\ misuse \subseteq Tolerated /\ TypeOK
<1>1. HandleInv /\ QuietInv /\ TypeOK
  BY DEF IInv, HandleInv
<1>2. /\ t \in sexp /\ txn[t].txn /\ txn[t].pid = self
      /\ txn[t].owner \in Envs /\ txn[t].owner # Null
  BY <1>1, Authentic
<1>3. ~env[txn[t].owner].poisoned
  BY DEF txn_from_sexp
<1> QED BY <1>1, <1>2, <1>3, HealthyTxn DEF QuietInv, Tolerated, Tracked

\* finish_txn(), and calls that panic.
LEMMA TxnPanicsQuiet ==
  ASSUME IInv, NEW t \in Txns, txn_from_sexp(t), TxnPanics(t) \/ OwnerPanics(t),
         UNCHANGED <<self, sexp, stack>>
  PROVE QuietInv'
<1>1. /\ TxnMisuse(t) = {} /\ txn[t].txn /\ txn[t].owner \in Envs /\ txn[t].owner # Null
      /\ misuse \subseteq Tolerated /\ TypeOK
  BY AuthenticQuiet
<1>2. env' = [env EXCEPT ![txn[t].owner].poisoned = TRUE] /\ misuse' \subseteq Tolerated
  BY <1>1 DEF TxnPanics, PoisonTxn, OwnerPanics
<1>3. CASE TxnPanics(t)
  <2>1. \A u \in Txns : txn'[u] = IF u \in {t} THEN [txn[u] EXCEPT !.poisoned = TRUE] ELSE txn[u]
    BY <1>1, <1>3 DEF TxnPanics, PoisonTxn, TypeOK
  <2>2. {t} \in SUBSET Txns /\ \A u \in {t} : txn[u].txn /\ txn[u].owner = txn[t].owner
    BY <1>1
  <2> QED BY <1>1, <1>2, <2>1, <2>2, PanicQuiet
<1>4. CASE OwnerPanics(t)
  <2>1. \A u \in Txns : txn'[u] = IF u \in {} THEN [txn[u] EXCEPT !.poisoned = TRUE] ELSE txn[u]
    BY <1>4 DEF OwnerPanics
  <2>2. {} \in SUBSET Txns /\ \A u \in {} : txn[u].txn /\ txn[u].owner = txn[t].owner
    OBVIOUS
  <2> QED BY <1>1, <1>2, <2>1, <2>2, PanicQuiet
<1> QED BY <1>3, <1>4

LEMMA FinishTxnQuiet ==
  ASSUME IInv, NEW t \in Txns, NEW c \in BOOLEAN, txn_from_sexp(t),
         FinishTxn(t, c), UNCHANGED <<self, sexp, stack>>
  PROVE QuietInv'
<1>1. /\ TxnMisuse(t) = {} /\ HeapRootsMisuse(t) = {} /\ t \in sexp
      /\ txn[t].txn /\ txn[t].owner \in Envs /\ txn[t].owner # Null
      /\ misuse \subseteq Tolerated /\ TypeOK
  BY AuthenticQuiet
<1>2. ASSUME NEW s \in {"committed", "aborted"}, EndTxn(t, s) PROVE QuietInv'
  <2>1. /\ ~txn'[t].txn /\ \A u \in Txns \ {t} : txn'[u] = txn[u]
        /\ env' = Unregister(env, t) /\ misuse' \subseteq Tolerated
    <3>1. txn \in [Txns -> TxnHandle]
      BY <1>1 DEF TypeOK
    <3> QED BY <1>1, <1>2, <3>1 DEF EndTxn, Finished, TxnHandle
  <2>2. \A f \in Envs : EndsInEnv(t, FALSE, f)
    BY <1>1, <2>1, UnregisterEnds
  <2> QED BY <1>1, <2>1, <2>2, EndsQuiet
<1>3. CASE TxnPanics(t)
  BY <1>3, TxnPanicsQuiet
<1>4. CASE misuse' = misuse \cup TxnMisuse(t) /\ UNCHANGED <<env, txn, nenv, ntxn, prot>>
  BY <1>1, <1>4, QuietIdle
<1> QED BY <1>2, <1>3, <1>4 DEF FinishTxn

\* mdbx_txn_abort_(), with or without libmdbx.
LEMMA AbortQuiet ==
  ASSUME IInv, NEW t \in Txns, Abort(t)
  PROVE QuietInv'
<1>1. UNCHANGED <<self, sexp, stack>> /\ t \in sexp /\ txn[t].txn
  BY DEF Abort
<1>2. CASE ~AbortHere(t)
  BY <1>1, <1>2, FinishTxnQuiet DEF Abort
<1>3. CASE AbortHere(t)
  <2>1. HandleInv /\ QuietInv /\ TypeOK
    BY DEF IInv, HandleInv
  <2>2. txn[t].owner \in Envs /\ txn[t].owner # Null
    BY <1>1, <2>1, Fields DEF HandleInv, TxnInv
  <2>3. env[txn[t].owner].poisoned
    BY <1>1, <1>3, <2>1, <2>2 DEF AbortHere, QuietInv, QuietTxn, Tracked
  <2>4. misuse' \subseteq Tolerated
    BY <1>3, <2>1, <2>3 DEF Abort, HeapRootsMisuse, QuietInv, Tolerated
  <2>5. /\ ~txn'[t].txn /\ \A u \in Txns \ {t} : txn'[u] = txn[u]
        /\ env' = Unregister(env, t)
    <3>1. txn \in [Txns -> TxnHandle] /\ txn' = [txn EXCEPT ![t] = Finished(t, "aborted")]
      BY <1>3, <2>1 DEF Abort, TypeOK
    <3> QED BY <1>3, <3>1 DEF Abort, Finished, TxnHandle
  <2>6. \A f \in Envs : EndsInEnv(t, FALSE, f)
    BY <2>1, <2>2, <2>5, UnregisterEnds
  <2> QED BY <1>1, <2>4, <2>5, <2>6, EndsQuiet
<1> QED BY <1>2, <1>3

\* finalize_txn(), with or without libmdbx.
LEMMA FinalizeTxnQuiet ==
  ASSUME IInv, NEW t \in Txns, FinalizeTxn(t)
  PROVE QuietInv'
<1>1. TypeOK /\ HandleInv /\ QuietInv /\ misuse \subseteq Tolerated
  BY DEF IInv, HandleInv, QuietInv, Tolerated
<1>2. UNCHANGED <<self, stack>> /\ t \in sexp /\ sexp' = sexp \ {t}
  BY DEF FinalizeTxn, Finalizable
<1>3. ~txn'[t].txn /\ \A u \in Txns \ {t} : txn'[u] = txn[u]
  BY <1>1 DEF FinalizeTxn, TypeOK, NoTxn
<1>4. CASE txn[t].txn
  <2>1. txn[t].owner \in Envs /\ txn[t].owner # Null
    BY <1>1, <1>4, Fields DEF HandleInv, TxnInv
  <2>2. /\ env[txn[t].owner].env /\ env[txn[t].owner].pid = txn[t].pid
        /\ txn[t].poisoned => env[txn[t].owner].poisoned
    BY <1>1, <1>2, <1>4 DEF QuietInv, QuietTxn, Tracked
  <2>3. misuse' \subseteq Tolerated
    <3>1. CASE FinalizerAborts(t)
      <4>1. TxnMisuse(t) = {} /\ HeapRootsMisuse(t) = {}
        BY <1>2, <1>4, <3>1, HealthyTxn DEF FinalizerAborts, Tracked
      <4> QED BY <1>1, <3>1, <4>1 DEF FinalizeTxn
    <3>2. CASE ~FinalizerAborts(t)
      <4>1. env[txn[t].owner].poisoned \/ env[txn[t].owner].pid # self
        BY <1>4, <2>1, <2>2, <3>2 DEF FinalizerAborts
      <4>2. HeapRootsMisuse(t) = {}
        BY <4>1 DEF HeapRootsMisuse
      <4> QED BY <1>1, <3>2, <4>2 DEF FinalizeTxn
    <3> QED BY <3>1, <3>2
  <2>4. CASE env' = Unregister(env, t)
    <3>1. \A f \in Envs : EndsInEnv(t, FALSE, f)
      BY <1>1, <2>1, <2>4, UnregisterEnds
    <3> QED BY <1>2, <1>3, <1>4, <2>3, <3>1, EndsQuiet
  <2>5. CASE env' = Unregister([env EXCEPT ![txn[t].owner].poisoned = TRUE], t)
    <3>1. \A f \in Envs : EndsInEnv(t, TRUE, f)
      BY <1>1, <2>1, <2>5, UnregisterEndsPanicking
    <3> QED BY <1>2, <1>3, <1>4, <2>3, <3>1, EndsQuiet
  <2> QED BY <2>4, <2>5 DEF FinalizeTxn
<1>5. CASE ~txn[t].txn
  <2>1. txn[t].owner = Null /\ ~FinalizerAborts(t) /\ ~OnStack(t)
    BY <1>1, <1>2, <1>5 DEF HandleInv, TxnInv, FinalizerAborts
  <2>2. env' = env /\ misuse' \subseteq Tolerated
    BY <1>1, <1>5, <2>1 DEF FinalizeTxn, Unregister
  <2>3. \A x : (OnStack(x)' <=> OnStack(x)) /\ (Tracked(x)' => Tracked(x))
    BY <1>2 DEF OnStack, Tracked
  <2>4. \A f \in Envs : ~env'[f].env => env'[f].live_txns = {}
    BY <1>1, <2>2 DEF QuietInv, QuietEnv
  <2>5. /\ \A u \in Txns : txn'[u].txn => txn'[u] = txn[u]
        /\ \A u \in Txns : OnStack(u)' => txn'[u] = txn[u]
    BY <1>3, <2>1, <2>3
  <2>6. Len(stack') <= 1
    BY <1>1, <1>2 DEF QuietInv
  <2> QED BY <1>2, <2>2, <2>3, <2>4, <2>5, <2>6, QuietStep
<1> QED BY <1>4, <1>5

\* Guarded calls on a transaction, and the unguarded read of its flags by
\* mdbx_txn_state_().
LEMMA TxnCallQuiet ==
  ASSUME IInv, NEW t \in Txns, TxnCall(t) \/ QueryState(t)
  PROVE QuietInv'
<1>1. CASE TxnCall(t)
  <2>1. txn_from_sexp(t) /\ UNCHANGED <<self, sexp, stack>>
    BY <1>1 DEF TxnCall
  <2>2. CASE TxnPanics(t) \/ OwnerPanics(t)
    BY <2>1, <2>2, TxnPanicsQuiet
  <2>3. CASE misuse' = misuse \cup TxnMisuse(t) /\ UNCHANGED <<env, txn, ntxn, prot>>
    <3>1. misuse' \subseteq Tolerated
      BY <2>1, <2>3, AuthenticQuiet
    <3> QED BY <2>1, <2>3, <3>1, QuietIdle
  <2> QED BY <1>1, <2>2, <2>3 DEF TxnCall
<1>2. CASE QueryState(t)
  <2>1. /\ t \in sexp /\ txn[t].txn /\ txn_state(t) = "active"
        /\ UNCHANGED <<self, env, txn, sexp, stack>>
    BY <1>2 DEF QueryState, txn_state, handles, rside
  <2>2. HandleInv /\ misuse \subseteq Tolerated
    BY DEF IInv, QuietInv, Tolerated
  <2>3. txn[t].owner # Null
    BY <2>1, <2>2 DEF HandleInv, TxnInv
  <2>4. txn[t].pid = self /\ ~env[txn[t].owner].poisoned
    BY <2>1, <2>2, <2>3 DEF txn_state, HandleInv, TxnInv, Tracked
  <2>5. TxnMisuse(t) = {}
    BY <2>1, <2>4, HealthyTxn DEF Tracked
  <2> QED BY <1>2, <2>1, <2>2, <2>5, QuietIdle DEF QueryState
<1> QED BY <1>1, <1>2

-----------------------------------------------------------------------------
(* The invariant is inductive, and what follows from it.                   *)

\* Every step preserves the invariant.
LEMMA NextIInv ==
  ASSUME ~Reentrant, IInv, [Next]_vars
  PROVE IInv'
<1>0. HandleInv'
  BY NextHandleInv DEF IInv
<1>1. QuietInv'
  <2>1. ASSUME NEW e \in Envs, EnvStep(e) PROVE QuietInv'
    <3>1. CASE \E k \in Keys : Open(e, k)
      BY <3>1, OpenQuiet
    <3>2. CASE OpenDone(e) \/ OpenAllocFails(e)
      BY <3>2, BuiltQuiet
    <3>3. CASE EnvCall(e) \/ BeginFails(e)
      BY <3>3, EnvCallQuiet
    <3>4. CASE Close(e)
      BY <3>4, CloseHandleQuiet
    <3>5. CASE FinalizeEnv(e)
      BY <3>5, FinalizeEnvQuiet
    <3>6. CASE \E k \in Keys : OpenPanics(e, k)
      <4>1. misuse' \subseteq Tolerated /\ UNCHANGED <<self, env, txn, stack, sexp>>
        BY <3>6 DEF OpenPanics, rside, IInv, QuietInv, Tolerated
      <4> QED BY <4>1, QuietIdle
    <3> QED BY <2>1, <3>1, <3>2, <3>3, <3>4, <3>5, <3>6 DEF EnvStep
  <2>2. ASSUME NEW t \in Txns, TxnStep(t) PROVE QuietInv'
    <3>1. CASE \E e \in Envs : Begin(e, t)
      BY <3>1, BeginQuiet
    <3>2. CASE BeginDone(t)
      BY <3>2, BeginDoneQuiet
    <3>3. CASE BeginAllocFails(t)
      BY <3>3, BuiltQuiet
    <3>4. CASE TxnCall(t) \/ QueryState(t)
      BY <3>4, TxnCallQuiet
    <3>5. CASE Commit(t)
      BY <3>5, FinishTxnQuiet DEF Commit
    <3>6. CASE Abort(t)
      BY <3>6, AbortQuiet
    <3>7. CASE FinalizeTxn(t)
      BY <3>7, FinalizeTxnQuiet
    <3> QED BY <2>2, <3>1, <3>2, <3>3, <3>4, <3>5, <3>6, <3>7 DEF TxnStep
  <2>3. CASE Fork
    BY <2>3, ForkQuiet
  <2>4. CASE (\E x \in held : Drop(x)) \/ Exit \/ UNCHANGED vars
    <3>1. misuse' \subseteq Tolerated /\ UNCHANGED <<self, env, txn, stack, sexp>>
      BY <2>4 DEF Drop, Exit, vars, handles, rside, native, IInv, QuietInv, Tolerated
    <3> QED BY <3>1, QuietIdle
  <2> QED BY <2>1, <2>2, <2>3, <2>4 DEF Next, Session
<1> QED BY <1>0, <1>1 DEF IInv

\* IInv holds throughout every session in which no finalizer written in R
\* calls the package from inside an allocation of the package.
THEOREM Inductive ==
  ASSUME ~Reentrant
  PROVE Spec => []IInv
<1>1. Init => IInv
  <2> SUFFICES ASSUME Init PROVE QuietInv
    BY InitHandleInv DEF IInv
  <2>1. \A x : ~OnStack(x)
    BY DEF Init, OnStack
  <2> QED BY <2>1 DEF Init, QuietInv, QuietEnv, QuietTxn, NoEnv, NoTxn
<1>2. IInv /\ [Next]_vars => IInv'
  BY NextIInv
<1> QED BY <1>1, <1>2, PTL DEF Spec

\* libmdbx is not entered on anything that has panicked (poison_txn(),
\* close_handle(), detach_txns(), the finalizers), for any number of handles,
\* and even when R runs out of memory inside an open or a begin.
THEOREM NeverUsedAfterPanic ==
  ASSUME ~Reentrant
  PROVE Spec => []NoUseAfterPanic
<1>1. IInv => NoUseAfterPanic
  BY DEF IInv, QuietInv, NoUseAfterPanic
<1> QED BY <1>1, Inductive, PTL

\* libmdbx is not handed what has ended, in whatever order finalizers run
\* (mark_finished(), finalize_env(), finalize_txn()), and even when R runs out
\* of memory inside an open or a begin.
THEOREM EndedUntouched ==
  ASSUME ~Reentrant
  PROVE Spec => []NoUseAfterEnd
<1>1. IInv => NoUseAfterEnd
  BY DEF IInv, QuietInv, NoUseAfterEnd
<1> QED BY <1>1, Inductive, PTL

\* The reports R code can ask for agree with what the entry points accept
\* (mdbx_txn_state_(), mdbx_env_is_open_()), and even when R runs out of memory
\* inside an open or a begin.
THEOREM ReportsCorrect ==
  ASSUME ~Reentrant
  PROVE Spec => []ReportsUsability
<1>1. IInv => ReportsUsability
  <2> SUFFICES ASSUME IInv PROVE ReportsUsability
    OBVIOUS
  <2>1. ASSUME NEW t \in Txns PROVE txn_state(t) = "active" <=> txn_from_sexp(t)
    <3>1. TxnInv(t) /\ QuietTxn(t)
      BY DEF IInv, HandleInv, QuietInv
    <3>2. t \in sexp => (txn[t].txn <=> txn[t].state = "active")
      BY <3>1 DEF TxnInv, Tracked
    <3>3. t \in sexp /\ txn[t].txn => txn[t].owner # Null /\ env[txn[t].owner].env
      BY <3>1 DEF TxnInv, QuietTxn, Tracked
    <3> QED BY <3>2, <3>3 DEF txn_state, txn_from_sexp
  <2> QED BY <2>1 DEF ReportsUsability, is_open, env_from_sexp
<1> QED BY <1>1, Inductive, PTL

\* No environment is closed under a live transaction that libmdbx was not asked
\* to end (mdbx_env_close_(), detach_txns()), unless a failed allocation has lost
\* one. One that check_env() refused to end, in an environment libmdbx had
\* declared broken, is not counted.
THEOREM ClosedAlone ==
  ASSUME ~AllocFails, ~Reentrant
  PROVE Spec => []NoCloseUnderTxn
<1>1. IInv => NoCloseUnderTxn
  BY DEF IInv, QuietInv, NoCloseUnderTxn
<1> QED BY <1>1, Inductive, PTL

\* No handle and no registry points at a freed handle (unregister_txn(),
\* mark_finished(), detach_txns()), unless a failed allocation has lost one.
THEOREM PointersValid ==
  ASSUME ~AllocFails, ~Reentrant
  PROVE Spec => []NoDanglingHandle
<1>1. IInv => NoDanglingHandle
  <2> SUFFICES ASSUME IInv PROVE NoDanglingHandle
    OBVIOUS
  <2>0. TypeOK /\ HandleInv /\ QuietInv
    BY DEF IInv, HandleInv
  <2>1. ASSUME NEW t \in Txns, txn[t].alloc, txn[t].owner # Null
        PROVE env[txn[t].owner].alloc
    <3>1. txn[t].txn /\ Tracked(t) /\ txn[t].owner \in Envs
      BY <2>0, <2>1, Fields DEF HandleInv, TxnInv
    <3>2. env[txn[t].owner].env
      BY <2>0, <3>1 DEF QuietInv, QuietTxn
    <3> QED BY <2>0, <3>1, <3>2 DEF HandleInv, EnvInv
  <2>2. \A e \in Envs : \A t \in env[e].live_txns : txn[t].alloc /\ txn[t].owner = e
    BY <2>0, Fields DEF HandleInv, TxnInv, PairInv
  <2>3. \A e \in open_envs : env[e].alloc
    BY <2>0 DEF HandleInv, EnvInv, TypeOK
  <2> QED BY <2>1, <2>2, <2>3 DEF NoDanglingHandle
<1> QED BY <1>1, Inductive, PTL

=============================================================================
