------------------------------- MODULE Handles -------------------------------
(***************************************************************************)
(* The handle lifecycle of r_mdbx.cpp: env_handle and txn_handle objects,  *)
(* the registries over them (open_envs, live_txns, abandoned), the R       *)
(* external pointers that own them, their finalizers, and what each entry  *)
(* point asks of libmdbx.                                                  *)
(*                                                                         *)
(* An identifier e \in Envs (t \in Txns) stands for one handle, the        *)
(* external pointer that owns it and the native object it was opened for.  *)
(* It is used again once all three are gone.                               *)
(*                                                                         *)
(* fork() copies memory, so a behaviour follows one line of descent: Fork  *)
(* changes `self' and nothing else, and the parent goes on as a behaviour  *)
(* without that Fork.                                                      *)
(***************************************************************************)
EXTENDS Naturals, Sequences, FiniteSets

CONSTANTS
  Envs,        \* environment handles
  Txns,        \* transaction handles
  Keys,        \* canonical environment names (env_key() in R/env.R)
  Null,        \* a null pointer
  MaxForks,    \* bound: how often the followed process may fork
  AllocFails,  \* may R run out of memory while building an external pointer?
  Reentrant    \* may an R-level finalizer call the package from inside an
               \* allocation made by the package?

ASSUME ConstantsAssumption ==
  /\ Null \notin Envs \cup Txns \cup Keys
  /\ Envs \cap Txns = {}
  /\ MaxForks \in Nat
  /\ AllocFails \in BOOLEAN
  /\ Reentrant \in BOOLEAN

VARIABLES
  self,       \* current_pid()
  env,        \* env_handle objects, NoEnv where there is none
  txn,        \* txn_handle objects, NoTxn where there is none
  open_envs,  \* the registry of open environments
  abandoned,  \* native objects given up on, kept reachable
  sexp,       \* external pointers with a finalizer and an address
  held,       \* external pointers R code can still reach
  prot,       \* the protected field of a transaction's external pointer
  stack,      \* handles whose external pointer is being built, newest first
  exiting,    \* R is running its exit finalizers
  nenv,       \* libmdbx: state of the native environments
  ntxn,       \* libmdbx: the native environment a live transaction is in
  misuse      \* ghost: how libmdbx's contract has been broken so far

handles == <<env, txn, open_envs, abandoned>>
rside   == <<sexp, held, prot, stack, exiting>>
native  == <<nenv, ntxn, misuse>>
vars    == <<self, handles, rside, native>>

NoEnv == [alloc |-> FALSE, env |-> FALSE, poisoned |-> FALSE, pid |-> 0,
          key |-> Null, live_txns |-> {}]
NoTxn == [alloc |-> FALSE, txn |-> FALSE, owner |-> Null, state |-> "active",
          poisoned |-> FALSE, pid |-> 0]

\* Native environments: absent, usable, declared broken by libmdbx itself
\* (ENV_FATAL_ERROR), left by a panic, left by a panic that happened inside
\* mdbx_env_close().
NoNative == [st |-> "none", pid |-> 0, key |-> Null]

EnvHandle == [alloc : BOOLEAN, env : BOOLEAN, poisoned : BOOLEAN,
              pid : 0 .. MaxForks, key : Keys \cup {Null},
              live_txns : SUBSET Txns]
TxnHandle == [alloc : BOOLEAN, txn : BOOLEAN, owner : Envs \cup {Null},
              state : {"active", "committed", "aborted"},
              poisoned : BOOLEAN, pid : 0 .. MaxForks]
NativeEnv == [st : {"none", "open", "fatal", "broken", "halfclosed"},
              pid : 0 .. MaxForks, key : Keys \cup {Null}]
Misuses == {"ended", "foreign", "panicked", "livetxn"}

-----------------------------------------------------------------------------
(* libmdbx's contract, as far as this package relies on it.                *)

\* libmdbx may be called on an environment it has declared broken: check_env()
\* answers MDBX_PANIC, a result code, and nothing jumps.
Callable == {"open", "fatal"}

\* What a call on native environment e would break.
EnvMisuse(e) ==
  IF nenv[e].st = "none" THEN {"ended"}
  ELSE IF nenv[e].pid # self THEN {"foreign"}
  ELSE IF nenv[e].st \notin Callable THEN {"panicked"} ELSE {}

\* What a call on native transaction t would break.
TxnMisuse(t) == IF ntxn[t] = Null THEN {"ended"} ELSE EnvMisuse(ntxn[t])

\* What mdbx_env_close() on e would break; `gone' are the transactions libmdbx
\* has just ended, or has refused to end.
CloseMisuse(e, gone) ==
  EnvMisuse(e) \cup
    IF \E t \in Txns \ gone : ntxn[t] = e THEN {"livetxn"} ELSE {}

\* check_env() turns down the commit or the abort of t, which stays live.
Refused(t) == ntxn[t] # Null /\ nenv[ntxn[t]].st = "fatal"

\* libmdbx refuses a second open of a file this process still has open.
Occupied(k) == \E e \in Envs : /\ nenv[e].st # "none"
                               /\ nenv[e].pid = self
                               /\ nenv[e].key = k

\* libmdbx refuses a second transaction of the same thread.
Busy(e) == \E t \in Txns : ntxn[t] = e

Panicked(e) == [nenv EXCEPT ![e].st = "broken"]
PanickedUnder(t) == IF ntxn[t] = Null THEN nenv ELSE Panicked(ntxn[t])

\* A failed write, remapping or lock may make libmdbx declare the environment
\* broken on the way out of a call: that call and later ones fail by result
\* code, so no handle is poisoned.
Declared(e) == IF nenv[e].st = "open" THEN [nenv EXCEPT ![e].st = "fatal"] ELSE nenv
Returned(e) == nenv' \in {nenv, Declared(e)}
ReturnedUnder(t) == IF ntxn[t] = Null THEN nenv' = nenv ELSE Returned(ntxn[t])

-----------------------------------------------------------------------------
(* R: reachability, fresh objects, who may run.                            *)

OnStack(x) == \E i \in 1 .. Len(stack) : stack[i] = x

\* R code runs when no entry point of the package is in the middle of an
\* allocation, and from finalizers written in R if one is.
RCode == stack = <<>> \/ Reentrant

\* Reachable from an R variable, through a reachable transaction's protected
\* field, or as the argument of a mdbx_txn_begin() in progress.
Reachable(x) ==
  \/ x \in held
  \/ x \in Envs /\ \E t \in Txns :
       \/ t \in held /\ prot[t] = x
       \/ OnStack(t) /\ txn[t].owner = x

\* Finalizers run in any order: on garbage whenever R allocates, and at exit
\* on everything. An exit finalizer inside an allocation of the package means
\* that another finalizer, written in R, called the package.
Finalizable(x) == /\ x \in sexp
                  /\ ~Reachable(x) \/ (exiting /\ RCode)

FreshEnv(e) == /\ ~env[e].alloc
               /\ e \notin held \cup abandoned
               /\ nenv[e].st = "none"
               /\ \A t \in Txns : ntxn[t] # e /\ prot[t] # e
FreshTxn(t) == /\ ~txn[t].alloc
               /\ t \notin held \cup abandoned
               /\ ntxn[t] = Null

Push(x) == stack' = <<x>> \o stack
Building(x) == stack # <<>> /\ Head(stack) = x

-----------------------------------------------------------------------------
(* Authentication and reports.                                             *)

\* Mutant: the process is not compared.
env_from_any_process(e) == e \in sexp /\ env[e].env /\ ~env[e].poisoned

\* env_from_sexp() lets the call through.
env_from_sexp(e) == /\ e \in sexp
                    /\ env[e].pid = self
                    /\ env[e].env
                    /\ ~env[e].poisoned

\* Mutant: the process is not compared.
txn_from_any_process(t) == /\ t \in sexp /\ ~txn[t].poisoned /\ txn[t].txn
                           /\ txn[t].owner # Null
                           /\ env[txn[t].owner].env
                           /\ ~env[txn[t].owner].poisoned

\* txn_from_sexp() lets the call through.
txn_from_sexp(t) == /\ t \in sexp
                    /\ txn[t].pid = self
                    /\ ~txn[t].poisoned
                    /\ txn[t].txn
                    /\ txn[t].owner # Null
                    /\ env[txn[t].owner].env
                    /\ ~env[txn[t].owner].poisoned

is_open(e) == /\ e \in sexp
              /\ env[e].env
              /\ ~env[e].poisoned
              /\ env[e].pid = self

\* Mutant: the owner's poison is not consulted.
txn_state_alone(t) ==
  IF t \notin sexp \/ txn[t].pid # self THEN "invalid"
  ELSE IF txn[t].state = "active" /\ txn[t].poisoned THEN "poisoned"
       ELSE txn[t].state

\* mdbx_txn_state(), with "failed" read as "active": whether libmdbx marked
\* the transaction erroneous is the store's concern.
txn_state(t) ==
  IF t \notin sexp \/ txn[t].pid # self THEN "invalid"
  ELSE IF /\ txn[t].state = "active"
          /\ \/ txn[t].poisoned
             \/ txn[t].owner # Null /\ env[txn[t].owner].poisoned
       THEN "poisoned"
       ELSE txn[t].state

find_open_env(k) == {e \in open_envs : env[e].key = k /\ env[e].pid = self}

-----------------------------------------------------------------------------
(* Steps shared by the entry points and the finalizers.                    *)

\* Mutant: the owner stays healthy.
PoisonTxnOnly(t) == txn' = [txn EXCEPT ![t].poisoned = TRUE] /\ UNCHANGED env

\* Mutant: a panic is a state of the transaction, not a mark beside it.
PoisonAsState(t) ==
  /\ txn' = [txn EXCEPT ![t].state = "poisoned"]
  /\ env' = [env EXCEPT ![txn[t].owner].poisoned = TRUE]

\* poison_txn(): the transaction and the environment that owns it.
PoisonTxn(t) ==
  /\ txn' = [txn EXCEPT ![t].poisoned = TRUE]
  /\ env' = IF txn[t].owner = Null THEN env
            ELSE [env EXCEPT ![txn[t].owner].poisoned = TRUE]

\* Mutant: the registry keeps the transaction.
UnregisterNothing(E, t) == E

\* unregister_txn() applied to the environments E.
Unregister(E, t) ==
  IF txn[t].owner = Null THEN E
  ELSE [E EXCEPT ![txn[t].owner].live_txns = @ \ {t}]

\* Mutant: mark_finished() records the outcome only.
FinishedInName(t, s) == [txn[t] EXCEPT !.state = s]

\* Mutant: mark_finished() keeps the owner.
FinishedOwned(t, s) == [txn[t] EXCEPT !.txn = FALSE, !.state = s]

\* What mark_finished() leaves of the handle.
Finished(t, s) ==
  [txn[t] EXCEPT !.txn = FALSE, !.state = s, !.owner = Null]

\* record_heap_roots() reads the native environment of a transaction that is
\* marked finished, when the handle says it is healthy and of this process. Only
\* a write transaction calls it; every one is taken for such here, and so asks
\* no less of libmdbx than it does in the code.
HeapRootsMisuse(t) ==
  LET o == txn[t].owner IN
  IF o # Null /\ env[o].env /\ ~env[o].poisoned /\ env[o].pid = self
  THEN EnvMisuse(o) ELSE {}

\* The registered transactions detach_txns(e) asks libmdbx to abort.
DetachAborts(e) ==
  IF env[e].env /\ ~env[e].poisoned /\ env[e].pid = self
  THEN {t \in env[e].live_txns : txn[t].txn /\ ~txn[t].poisoned}
  ELSE {}

\* The aborts of detach_txns(e) that libmdbx may refuse when those in `panics'
\* panic: all of them in an environment declared broken before, and otherwise
\* some that follow the one on whose way out it is declared broken.
DetachOutcome(e, panics, refused) ==
  IF nenv[e].st = "fatal" THEN refused = DetachAborts(e)
  ELSE refused # {} => panics \cup refused # DetachAborts(e)

\* The handle of a transaction detach_txns(e) has gone over; `panics' is the
\* set of aborts that panicked.
Detached(e, panics) ==
  [t \in Txns |->
     IF t \in env[e].live_txns
     THEN [Finished(t, "aborted") EXCEPT !.poisoned = @ \/ t \in panics]
     ELSE txn[t]]

\* Mutant: only what panicked is kept, not what was skipped.
DetachGivesUpPanics(e, panics) == panics

\* What detach_txns(e) gives up: every native transaction it did not ask
\* libmdbx to end, or that panicked. An abort that returned counts as an end,
\* whatever it returned.
DetachGivesUp(e, panics) ==
  {t \in env[e].live_txns : txn[t].txn /\ t \notin DetachAborts(e) \ panics}

\* detach_txns() decides whether the environment is usable once, before its
\* loop: a panic in one abort does not stop the next.
DetachMisuse(e, panics) ==
  {m \in Misuses : \E t \in DetachAborts(e) : m \in TxnMisuse(t)} \cup
    IF \E t \in panics : DetachAborts(e) # {t} THEN {"panicked"} ELSE {}

-----------------------------------------------------------------------------
(* Opening and closing an environment.                                     *)

\* mdbx_env_open_() up to the external pointer.
Open(e, k) ==
  /\ RCode /\ FreshEnv(e) /\ find_open_env(k) = {} /\ ~Occupied(k)
  /\ env' = [env EXCEPT ![e] = [NoEnv EXCEPT !.alloc = TRUE, !.env = TRUE,
                                             !.pid = self, !.key = k]]
  /\ nenv' = [nenv EXCEPT ![e] = [st |-> "open", pid |-> self, key |-> k]]
  /\ Push(e)
  /\ UNCHANGED <<self, txn, open_envs, abandoned, sexp, held, prot, exiting,
                 ntxn, misuse>>

\* libmdbx panics while opening, or while closing what it could not open.
\* Only the first is handed to abandon_env(); the handle is freed in both.
OpenPanics(e, k) ==
  /\ RCode /\ FreshEnv(e) /\ find_open_env(k) = {}
  /\ \/ /\ nenv' = [nenv EXCEPT ![e] = [st |-> "broken", pid |-> self, key |-> k]]
        /\ abandoned' = abandoned \cup {e}
     \/ /\ nenv' = [nenv EXCEPT ![e] = [st |-> "halfclosed", pid |-> self, key |-> k]]
        /\ UNCHANGED abandoned
  /\ UNCHANGED <<self, env, txn, open_envs, rside, ntxn, misuse>>

\* The external pointer exists: register_env(), and R gets the object.
OpenDone(e) ==
  /\ Building(e)
  /\ stack' = Tail(stack)
  /\ open_envs' = open_envs \cup {e}
  /\ sexp' = sexp \cup {e}
  /\ held' = held \cup {e}
  /\ UNCHANGED <<self, env, txn, abandoned, prot, exiting, native>>

\* R runs out of memory: before the finalizer is registered, which leaks the
\* handle, or after, which leaves garbage that is not in open_envs.
OpenAllocFails(e) ==
  /\ AllocFails /\ Building(e)
  /\ stack' = Tail(stack)
  /\ sexp' \in {sexp, sexp \cup {e}}
  /\ UNCHANGED <<self, handles, held, prot, exiting, native>>

\* Mutant: unregister_env() skipped when the environment is poisoned.
UnregisteredIfHealthy(e) ==
  IF env[e].env /\ ~env[e].poisoned THEN open_envs \ {e} ELSE open_envs

\* unregister_env(), which close_handle() calls on every path once it knows
\* the handle is open.
Unregistered(e) == IF env[e].env THEN open_envs \ {e} ELSE open_envs

\* Transactions libmdbx has refused to end in an environment it had declared
\* broken, and that finish_txn() took for ended.
EndedInName(e) ==
  {t \in Txns : ntxn[t] = e /\ ~txn[t].txn /\ nenv[e].st = "fatal"}

\* The native transactions left when those in `gone' are not there any more.
NativeWithout(gone) == [t \in Txns |-> IF t \in gone THEN Null ELSE ntxn[t]]

\* detach_txns(e) and then close_handle(e): only a healthy environment of this
\* process is closed natively. A panic in that close leaves the handle without
\* the pointer just as a success does; a success takes along the transactions
\* libmdbx has refused to end.
DetachAndClose(e, panics, refused) ==
  LET ended   == DetachAborts(e) \ (panics \cup refused)
      gone    == ended \cup refused \cup EndedInName(e)
      healthy == env[e].pid = self /\ ~env[e].poisoned /\ panics = {}
  IN /\ txn' = Detached(e, panics)
     /\ open_envs' = Unregistered(e)
     /\ \/ /\ env[e].env /\ healthy
           /\ \/ /\ nenv' = [nenv EXCEPT ![e] = NoNative]
                 /\ ntxn' = NativeWithout(gone)
              \/ /\ nenv' = [nenv EXCEPT ![e].st = "halfclosed"]
                 /\ ntxn' = NativeWithout(ended)
           /\ abandoned' = abandoned \cup DetachGivesUp(e, panics)
           /\ misuse' = misuse \cup DetachMisuse(e, panics)
                               \cup CloseMisuse(e, gone)
        \/ /\ ~(env[e].env /\ healthy)
           /\ nenv' = IF panics = {} THEN nenv ELSE Panicked(e)
           /\ ntxn' = NativeWithout(ended)
           /\ abandoned' = abandoned \cup DetachGivesUp(e, panics)
                             \cup (IF env[e].env THEN {e} ELSE {})
           /\ misuse' = misuse \cup DetachMisuse(e, panics)

\* mdbx_env_close_() refuses while transactions are registered, unless the
\* environment is poisoned: then it detaches them, without libmdbx.
CloseAllowed(e) == env[e].poisoned \/ env[e].live_txns = {}

\* mdbx_env_close_().
Close(e) ==
  /\ RCode /\ e \in held /\ e \in sexp /\ CloseAllowed(e)
  /\ DetachAndClose(e, {}, {})
  /\ env' = [env EXCEPT ![e].env = FALSE, ![e].live_txns = {},
                        ![e].poisoned = @ \/ nenv'[e].st = "halfclosed"]
  /\ UNCHANGED <<self, rside>>

\* finalize_env().
FinalizeEnv(e) ==
  /\ Finalizable(e)
  /\ \E panics \in SUBSET DetachAborts(e) :
       \E refused \in SUBSET (DetachAborts(e) \ panics) :
         /\ DetachOutcome(e, panics, refused)
         /\ DetachAndClose(e, panics, refused)
  /\ env' = [env EXCEPT ![e] = NoEnv]
  /\ sexp' = sexp \ {e}
  /\ UNCHANGED <<self, held, prot, stack, exiting>>

\* current_txn(): the transaction stat and info hand to libmdbx along with the
\* environment; the other calls hand over none.
current_txn(e) == {{}, {t \in env[e].live_txns : txn[t].txn}}

\* A guarded call on environment e returns, or panics, which poisons the handle;
\* nothing panics past check_env().
GuardedOnEnv(e) ==
  \/ Returned(e) /\ UNCHANGED env
  \/ /\ nenv[e].st # "fatal"
     /\ env' = [env EXCEPT ![e].poisoned = TRUE]
     /\ nenv' = Panicked(e)

\* stat, info, path, reader check, flags, sync.
EnvCall(e) ==
  /\ RCode /\ e \in held /\ env_from_sexp(e)
  /\ \E T \in current_txn(e) :
       misuse' = misuse \cup EnvMisuse(e)
                   \cup {m \in Misuses : \E t \in T : m \in TxnMisuse(t)}
  /\ GuardedOnEnv(e)
  /\ UNCHANGED <<self, txn, open_envs, abandoned, rside, ntxn>>

-----------------------------------------------------------------------------
(* Transactions.                                                           *)

\* mdbx_txn_begin_() refuses a second transaction in an environment.
BeginAllowed(e) == env_from_sexp(e) /\ env[e].live_txns = {}

\* mdbx_txn_begin_() up to the external pointer. libmdbx fails the call when
\* the thread has a transaction there already, or the environment is declared
\* broken.
Begin(e, t) ==
  /\ RCode /\ e \in held /\ BeginAllowed(e) /\ FreshTxn(t)
  /\ ~Busy(e) /\ nenv[e].st # "fatal"
  /\ misuse' = misuse \cup EnvMisuse(e)
  /\ txn' = [txn EXCEPT ![t] = [NoTxn EXCEPT !.alloc = TRUE, !.txn = TRUE,
                 !.owner = e, !.pid = self]]
  /\ ntxn' = [ntxn EXCEPT ![t] = e]
  /\ Push(t)
  /\ UNCHANGED <<self, env, open_envs, abandoned, sexp, held, prot, exiting, nenv>>

\* mdbx_txn_begin_() when libmdbx fails the call or panics in it
\* (poison_begin()): the handle never gets a transaction.
BeginFails(e) ==
  /\ RCode /\ e \in held /\ BeginAllowed(e)
  /\ misuse' = misuse \cup EnvMisuse(e)
  /\ GuardedOnEnv(e)
  /\ UNCHANGED <<self, txn, open_envs, abandoned, rside, ntxn>>

\* Mutant: the transaction never enters live_txns.
BeginUnregistered(t) ==
  /\ Building(t)
  /\ stack' = Tail(stack)
  /\ sexp' = sexp \cup {t}
  /\ held' = held \cup {t}
  /\ prot' = [prot EXCEPT ![t] = txn[t].owner]
  /\ UNCHANGED <<self, env, txn, open_envs, abandoned, exiting, native>>

\* new_txn_sexp(): the external pointer exists, retains the environment, and
\* the handle enters live_txns.
BeginDone(t) ==
  /\ Building(t)
  /\ stack' = Tail(stack)
  /\ env' = [env EXCEPT ![txn[t].owner].live_txns = @ \cup {t}]
  /\ sexp' = sexp \cup {t}
  /\ held' = held \cup {t}
  /\ prot' = [prot EXCEPT ![t] = txn[t].owner]
  /\ UNCHANGED <<self, txn, open_envs, abandoned, exiting, native>>

\* R runs out of memory in R_MakeExternalPtr() or R_RegisterCFinalizerEx():
\* the jump skips the unique_ptr, and the handle never enters live_txns.
BeginAllocFails(t) ==
  /\ AllocFails /\ Building(t)
  /\ stack' = Tail(stack)
  /\ UNCHANGED <<self, handles, sexp, held, prot, exiting, native>>

\* What libmdbx does when it is asked to end t and returns.
EndNatively(t) ==
  /\ ntxn' = IF Refused(t) THEN ntxn ELSE [ntxn EXCEPT ![t] = Null]
  /\ ReturnedUnder(t)

\* finish_txn() takes the transaction for ended, as any result but
\* MDBX_THREAD_MISMATCH is documented to mean: mark_finished(), and the external
\* pointer lets go of the environment.
EndTxn(t, s) ==
  /\ txn' = [txn EXCEPT ![t] = Finished(t, s)]
  /\ env' = Unregister(env, t)
  /\ prot' = [prot EXCEPT ![t] = Null]
  /\ misuse' = misuse \cup TxnMisuse(t) \cup HeapRootsMisuse(t)
  /\ EndNatively(t)

\* A guarded call on the transaction that panics.
TxnPanics(t) ==
  /\ PoisonTxn(t)
  /\ nenv' = PanickedUnder(t)
  /\ misuse' = misuse \cup TxnMisuse(t)
  /\ UNCHANGED <<ntxn, prot>>

\* finish_txn(). A commit libmdbx could not complete aborts; MDBX_THREAD_MISMATCH
\* leaves the transaction as it was. check_env() comes before all three, and
\* then the transaction is aborted in name only.
FinishTxn(t, commit) ==
  \/ EndTxn(t, "aborted")
  \/ /\ ~Refused(t)
     /\ \/ commit /\ EndTxn(t, "committed")
        \/ TxnPanics(t)
        \/ /\ misuse' = misuse \cup TxnMisuse(t)
           /\ UNCHANGED <<env, txn, nenv, ntxn, prot>>

\* mdbx_txn_commit_().
Commit(t) ==
  /\ RCode /\ t \in held /\ txn_from_sexp(t)
  /\ FinishTxn(t, TRUE)
  /\ UNCHANGED <<self, open_envs, abandoned, sexp, held, stack, exiting>>

\* mdbx_txn_abort_() ends a transaction of a poisoned or closed environment
\* itself, without libmdbx.
AbortHere(t) == /\ txn[t].pid = self
                /\ \/ txn[t].poisoned
                   \/ txn[t].owner = Null
                   \/ ~env[txn[t].owner].env
                   \/ env[txn[t].owner].poisoned

\* mdbx_txn_abort_().
Abort(t) ==
  /\ RCode /\ t \in held /\ t \in sexp /\ txn[t].txn
  /\ \/ /\ AbortHere(t)
        /\ abandoned' = abandoned \cup {t}
        /\ misuse' = misuse \cup HeapRootsMisuse(t)
        /\ txn' = [txn EXCEPT ![t] = Finished(t, "aborted")]
        /\ env' = Unregister(env, t)
        /\ prot' = [prot EXCEPT ![t] = Null]
        /\ UNCHANGED <<nenv, ntxn>>
     \/ /\ ~AbortHere(t) /\ txn_from_sexp(t)
        /\ FinishTxn(t, FALSE)
        /\ UNCHANGED abandoned
  /\ UNCHANGED <<self, open_envs, sexp, held, stack, exiting>>

\* poison_stat(), poison_info(): only the owner is marked.
OwnerPanics(t) ==
  /\ env' = [env EXCEPT ![txn[t].owner].poisoned = TRUE]
  /\ nenv' = PanickedUnder(t)
  /\ misuse' = misuse \cup TxnMisuse(t)
  /\ UNCHANGED <<txn, ntxn, prot>>

\* A guarded call on a transaction: get, put, del, scan, dbi, sequence, stat,
\* info.
TxnCall(t) ==
  /\ RCode /\ t \in held /\ txn_from_sexp(t)
  /\ \/ /\ misuse' = misuse \cup TxnMisuse(t)
        /\ ReturnedUnder(t)
        /\ UNCHANGED <<env, txn, ntxn, prot>>
     \/ TxnPanics(t)
     \/ OwnerPanics(t)
  /\ UNCHANGED <<self, open_envs, abandoned, sexp, held, stack, exiting>>

\* mdbx_txn_state_() reads the native flags of a transaction it takes for
\* active, without going through txn_from_sexp().
QueryState(t) ==
  /\ RCode /\ t \in held /\ txn_state(t) = "active" /\ txn[t].txn
  /\ misuse' = misuse \cup TxnMisuse(t)
  /\ UNCHANGED <<self, handles, rside, nenv, ntxn>>

\* finalize_txn() asks libmdbx to abort.
FinalizerAborts(t) ==
  LET o == txn[t].owner IN
  /\ txn[t].txn /\ ~txn[t].poisoned /\ o # Null
  /\ env[o].env /\ ~env[o].poisoned
  /\ txn[t].pid = self

\* finalize_txn(): a panic poisons the owner; whatever libmdbx was not asked to
\* end, or panicked over, is abandoned; an abort that returned counts as an end,
\* as in finish_txn(). The handle is freed; its protected field no longer
\* matters.
FinalizeTxn(t) ==
  /\ Finalizable(t)
  /\ \/ /\ FinalizerAborts(t)
        /\ EndNatively(t)
        /\ env' = Unregister(env, t)
        /\ misuse' = misuse \cup TxnMisuse(t) \cup HeapRootsMisuse(t)
        /\ UNCHANGED abandoned
     \/ /\ FinalizerAborts(t) /\ ~Refused(t)
        /\ env' = Unregister([env EXCEPT ![txn[t].owner].poisoned = TRUE], t)
        /\ nenv' = PanickedUnder(t)
        /\ abandoned' = abandoned \cup {t}
        /\ misuse' = misuse \cup TxnMisuse(t)
        /\ UNCHANGED ntxn
     \/ /\ ~FinalizerAborts(t)
        /\ env' = Unregister(env, t)
        /\ abandoned' = IF txn[t].txn THEN abandoned \cup {t} ELSE abandoned
        /\ misuse' = misuse \cup (IF txn[t].txn THEN HeapRootsMisuse(t) ELSE {})
        /\ UNCHANGED <<nenv, ntxn>>
  /\ txn' = [txn EXCEPT ![t] = NoTxn]
  /\ sexp' = sexp \ {t}
  /\ prot' = [prot EXCEPT ![t] = Null]
  /\ UNCHANGED <<self, open_envs, held, stack, exiting>>

-----------------------------------------------------------------------------
(* The R session.                                                          *)

\* R code drops its last reference to an object.
Drop(x) ==
  /\ RCode
  /\ held' = held \ {x}
  /\ UNCHANGED <<self, handles, sexp, prot, stack, exiting, native>>

\* fork(), seen from the child.
Fork ==
  /\ RCode /\ self < MaxForks
  /\ self' = self + 1
  /\ UNCHANGED <<handles, rside, native>>

\* R shuts down: finalizers registered with onexit run on every object.
Exit ==
  /\ stack = <<>> /\ ~exiting
  /\ exiting' = TRUE
  /\ UNCHANGED <<self, handles, sexp, held, prot, stack, native>>

-----------------------------------------------------------------------------
Init ==
  /\ self = 0
  /\ env = [e \in Envs |-> NoEnv]
  /\ txn = [t \in Txns |-> NoTxn]
  /\ open_envs = {} /\ abandoned = {}
  /\ sexp = {} /\ held = {}
  /\ prot = [t \in Txns |-> Null]
  /\ stack = <<>>
  /\ exiting = FALSE
  /\ nenv = [e \in Envs |-> NoNative]
  /\ ntxn = [t \in Txns |-> Null]
  /\ misuse = {}

EnvStep(e) ==
  \/ \E k \in Keys : Open(e, k) \/ OpenPanics(e, k)
  \/ OpenDone(e) \/ OpenAllocFails(e)
  \/ EnvCall(e) \/ Close(e) \/ FinalizeEnv(e)
  \/ BeginFails(e)

TxnStep(t) ==
  \/ \E e \in Envs : Begin(e, t)
  \/ BeginDone(t) \/ BeginAllocFails(t)
  \/ TxnCall(t) \/ QueryState(t)
  \/ Commit(t) \/ Abort(t) \/ FinalizeTxn(t)

Session == (\E x \in held : Drop(x)) \/ Fork \/ Exit

Next == (\E e \in Envs : EnvStep(e)) \/ (\E t \in Txns : TxnStep(t)) \/ Session

Spec == Init /\ [][Next]_vars

-----------------------------------------------------------------------------
(* Properties.                                                             *)

TypeOK ==
  /\ self \in 0 .. MaxForks
  /\ env \in [Envs -> EnvHandle]
  /\ txn \in [Txns -> TxnHandle]
  /\ open_envs \subseteq Envs
  /\ abandoned \subseteq Envs \cup Txns
  /\ sexp \subseteq Envs \cup Txns
  /\ held \subseteq Envs \cup Txns
  /\ prot \in [Txns -> Envs \cup {Null}]
  /\ stack \in Seq(Envs \cup Txns)
  /\ exiting \in BOOLEAN
  /\ nenv \in [Envs -> NativeEnv]
  /\ ntxn \in [Txns -> Envs \cup {Null}]
  /\ misuse \subseteq Misuses

\* No entry point and no finalizer, in whatever order they run, calls libmdbx
\* on an environment that has panicked or on a transaction in it
\* (env_handle::poisoned, poison_txn(), close_handle(), detach_txns()).
NoUseAfterPanic == "panicked" \notin misuse

\* A handle inherited across fork() is never used, ended or closed natively:
\* the objects belong to the parent (env_from_sexp(), txn_from_sexp(),
\* close_handle(), detach_txns(), finalize_txn()).
NoForeignUse == "foreign" \notin misuse

\* libmdbx is never handed a transaction that has ended or an environment
\* that has been closed, whichever of two finalizers runs first.
NoUseAfterEnd == "ended" \notin misuse

\* mdbx_env_close() never reaches libmdbx while a transaction of that
\* environment is live there which libmdbx was not asked to end: what the
\* live_txns registry is for. Under one it has refused to end, because it had
\* declared the environment broken, the environment is closed all the same.
NoCloseUnderTxn == "livetxn" \notin misuse

\* Every pointer from one handle to another, and every registry entry, leads
\* to a handle that has not been freed.
NoDanglingHandle ==
  /\ \A t \in Txns : txn[t].alloc /\ txn[t].owner # Null => env[txn[t].owner].alloc
  /\ \A e \in Envs : \A t \in env[e].live_txns : txn[t].alloc /\ txn[t].owner = e
  /\ \A e \in open_envs : env[e].alloc

\* live_txns holds nothing but transactions libmdbx considers live, for every
\* environment this process can still use, and all of them apart from the one
\* mdbx_txn_begin_() is building. mark_finished() claims as much of every
\* environment; it does not hold of one libmdbx has declared broken, whose
\* transactions leave the registry when check_env() turns down their end.
RegistryExact ==
  \A e \in Envs : env_from_sexp(e) =>
    LET live == {t \in Txns : ntxn[t] = e /\ ~OnStack(t)} IN
    /\ env[e].live_txns \subseteq live
    /\ nenv[e].st = "open" => live \subseteq env[e].live_txns

\* open_envs names the environments that hold a native one, and no two of
\* this process under one key.
OpenRegistryExact ==
  /\ open_envs = {e \in Envs : env[e].env /\ ~OnStack(e)}
  /\ \A e, f \in open_envs :
       e # f /\ env[e].pid = env[f].pid => env[e].key # env[f].key

\* A native object that was not ended is still pointed to: by its handle or
\* by the abandoned registry. Set apart are what a panic inside
\* mdbx_env_close() leaves and the transactions that an environment declared
\* broken has refused to end.
OnlyBrokenLose ==
  /\ \A t \in Txns : ntxn[t] # Null =>
       txn[t].txn \/ t \in abandoned \/ nenv[ntxn[t]].st \in {"fatal", "halfclosed"}
  /\ \A e \in Envs : nenv[e].st \in {"open", "fatal", "broken"} =>
       env[e].env \/ e \in abandoned

\* mdbx_txn_state() says "active" of exactly the transactions the entry
\* points accept, and mdbx_env_is_open() is true of exactly the environments
\* they accept.
ReportsUsability ==
  /\ \A t \in Txns : txn_state(t) = "active" <=> txn_from_sexp(t)
  /\ \A e \in Envs : is_open(e) <=> env_from_sexp(e)

\* The key of an environment this process has closed, and not opened again,
\* is free for libmdbx as well.
FreeKeyReopens ==
  \A e \in Envs : /\ env[e].alloc /\ ~env[e].env /\ env[e].pid = self
                  /\ stack = <<>> /\ find_open_env(env[e].key) = {}
                  => ~Occupied(env[e].key)

\* A step leaves an ended transaction handle ended, with its state, a poisoned
\* one poisoned, and an environment handle likewise, as long as it exists.
StaysEnded ==
  /\ \A t \in Txns : txn[t].alloc /\ txn'[t].alloc =>
       /\ ~txn[t].txn => ~txn'[t].txn /\ txn'[t].state = txn[t].state
       /\ txn[t].poisoned => txn'[t].poisoned
  /\ \A e \in Envs : env[e].alloc /\ env'[e].alloc =>
       /\ ~env[e].env => ~env'[e].env
       /\ env[e].poisoned => env'[e].poisoned

\* A transaction ends once: an ended handle keeps its state and never gets a
\* native transaction again, and a poisoned handle stays poisoned, for as
\* long as the handle exists; an environment pointer is nulled once
\* (mark_finished(), close_handle(), detach_txns(), poison_txn()).
EndsOnce == [][StaysEnded]_vars

\* The garbage collector runs sooner or later.
Collected == \A e \in Envs : WF_vars(FinalizeEnv(e))

FairSpec == Spec /\ Collected

\* An environment nobody can reach leaves open_envs, so its key can be used
\* again: no transaction, poisoned or inherited, keeps its finalizer from it.
GarbageFreesKey ==
  \A e \in Envs : (e \in open_envs /\ ~Reachable(e)) ~> e \notin open_envs

-----------------------------------------------------------------------------
(* The inductive invariant behind the safety properties. HandleInv holds   *)
(* in every session, IInv in those without re-entrant finalizers.          *)

\* An external pointer owns the handle, or the call that builds one does.
\* Only a failed allocation leaves a handle without either.
Tracked(x) == x \in sexp \/ OnStack(x)

\* No two calls build the external pointer of the same handle.
StackInv == \A i, j \in 1 .. Len(stack) : stack[i] = stack[j] => i = j

\* What an environment handle says of the native environment is true, and an
\* environment it does not hold any more is not one this process could use.
EnvInv(e) ==
  /\ Tracked(e) => env[e].alloc
  /\ env[e].alloc => Tracked(e) \/ AllocFails
  /\ OnStack(e) => e \notin sexp /\ env[e].env
  /\ env[e].env => /\ env[e].alloc
                   /\ nenv[e].st \in IF env[e].poisoned THEN {"broken"} ELSE Callable
                   /\ nenv[e].pid = env[e].pid /\ nenv[e].key = env[e].key
  /\ nenv[e].pid <= self
  /\ nenv[e].st \in {"open", "fatal", "broken"} => env[e].env \/ e \in abandoned
  /\ nenv[e].st \in Callable /\ nenv[e].pid = self => env[e].env
  /\ e \in open_envs => env[e].env /\ ~OnStack(e)
  /\ env[e].env => e \in open_envs \/ OnStack(e) \/ AllocFails

\* A transaction handle has the native transaction of its owner, which is of
\* the same process as long as it is there, and is registered there once its
\* external pointer exists; one that was given up is in an environment this
\* process does not use again, and one that libmdbx refused to end in one that
\* was declared broken.
TxnInv(t) ==
  /\ Tracked(t) => txn[t].alloc
  /\ txn[t].alloc => Tracked(t) \/ AllocFails
  /\ OnStack(t) => t \notin sexp /\ txn[t].txn
  /\ txn[t].txn => /\ txn[t].alloc
                   /\ txn[t].owner # Null /\ ntxn[t] = txn[t].owner
                   /\ \/ nenv[txn[t].owner].st = "none"
                      \/ nenv[txn[t].owner].pid = txn[t].pid
                   /\ txn[t].poisoned => nenv[txn[t].owner].st \notin Callable
                   /\ t \in sexp => t \in env[txn[t].owner].live_txns
  /\ ~txn[t].txn => txn[t].owner = Null
  /\ txn[t].alloc => (txn[t].txn <=> txn[t].state = "active")
  /\ ntxn[t] # Null /\ ~txn[t].txn =>
       /\ t \in abandoned \/ nenv[ntxn[t]].st \in {"fatal", "halfclosed"}
       /\ nenv[ntxn[t]].st # "open" \/ nenv[ntxn[t]].pid # self

\* The registries of two environments, or the claims of two environments, do
\* not overlap, and libmdbx has one transaction in an environment.
PairInv ==
  /\ \A e \in Envs, t \in Txns :
       t \in env[e].live_txns => txn[t].txn /\ txn[t].owner = e /\ t \in sexp
  /\ \A e, f \in Envs :
       env[e].env /\ env[f].env /\ env[e].pid = env[f].pid
         /\ env[e].key = env[f].key => e = f
  /\ \A t, u \in Txns : ntxn[t] # Null /\ ntxn[t] = ntxn[u] => t = u

HandleInv ==
  /\ TypeOK
  /\ NoForeignUse
  /\ StackInv
  /\ \A e \in Envs : EnvInv(e)
  /\ \A t \in Txns : TxnInv(t)
  /\ PairInv

\* Without re-entrant finalizers nothing comes between the two halves of an
\* open or a begin: a tracked transaction finds its owner as it left it, and
\* libmdbx's contract is kept except by closing an environment under a
\* transaction that was lost.
QuietEnv(e) ==
  /\ OnStack(e) => env[e].pid = self
  /\ ~env[e].env => env[e].live_txns = {}

QuietTxn(t) ==
  /\ OnStack(t) => txn[t].pid = self
  /\ txn[t].txn /\ Tracked(t) =>
       /\ env[txn[t].owner].env
       /\ env[txn[t].owner].pid = txn[t].pid
       /\ txn[t].poisoned => env[txn[t].owner].poisoned

QuietInv ==
  /\ misuse \subseteq IF AllocFails THEN {"livetxn"} ELSE {}
  /\ Len(stack) <= 1
  /\ \A e \in Envs : QuietEnv(e)
  /\ \A t \in Txns : QuietTxn(t)
  /\ \A t, u \in Txns :
       txn[t].txn /\ txn[u].txn /\ Tracked(t) /\ Tracked(u)
         /\ txn[t].owner = txn[u].owner => t = u

IInv == HandleInv /\ QuietInv

=============================================================================
