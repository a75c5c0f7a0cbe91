--------------------------- MODULE HandlesProofs ---------------------------
(***************************************************************************)
(* Proofs about Handles for every session, also one in which R runs out of *)
(* memory and finalizers written in R call the package from inside its     *)
(* allocations: the types, the inductive invariant HandleInv, and the      *)
(* properties that follow from it.                                         *)
(***************************************************************************)
EXTENDS Handles, TLAPS

\* The initial state is well typed.
LEMMA TypeInit == Init => TypeOK
<1> SUFFICES ASSUME Init PROVE TypeOK
  OBVIOUS
<1>1. 0 \in 0 .. MaxForks
  BY ConstantsAssumption DEF ConstantsAssumption
<1>2. NoEnv \in EnvHandle /\ NoTxn \in TxnHandle /\ NoNative \in NativeEnv
  BY <1>1 DEF EnvHandle, TxnHandle, NativeEnv, NoEnv, NoTxn, NoNative
<1>3. stack \in Seq(Envs \cup Txns)
  BY DEF Init
<1> QED BY <1>1, <1>2, <1>3 DEF Init, TypeOK

\* The ways of breaking libmdbx's contract are among Misuses.
LEMMA MisuseType ==
  ASSUME TypeOK
  PROVE /\ \A e \in Envs : EnvMisuse(e) \subseteq Misuses
        /\ \A t \in Txns : TxnMisuse(t) \subseteq Misuses
        /\ \A t \in Txns : HeapRootsMisuse(t) \subseteq Misuses
        /\ \A e \in Envs : \A P : DetachMisuse(e, P) \subseteq Misuses
        /\ \A e \in Envs : \A G : CloseMisuse(e, G) \subseteq Misuses
<1>1. \A e \in Envs : EnvMisuse(e) \subseteq Misuses
  BY DEF EnvMisuse, Misuses
<1>2. \A t \in Txns : TxnMisuse(t) \subseteq Misuses
  BY <1>1 DEF TxnMisuse, TypeOK, Misuses
<1>3. \A t \in Txns : HeapRootsMisuse(t) \subseteq Misuses
  BY <1>1 DEF HeapRootsMisuse, TypeOK, TxnHandle
<1>4. \A e \in Envs : \A P : DetachMisuse(e, P) \subseteq Misuses
  BY DEF DetachMisuse, Misuses
<1>5. \A e \in Envs : \A G : CloseMisuse(e, G) \subseteq Misuses
  BY <1>1 DEF CloseMisuse, Misuses
<1> QED BY <1>1, <1>2, <1>3, <1>4, <1>5

\* A panic, and a declaration of failure, keep native environments well typed.
LEMMA PanickedType ==
  ASSUME nenv \in [Envs -> NativeEnv], NEW e \in Envs
  PROVE Panicked(e) \in [Envs -> NativeEnv] /\ Declared(e) \in [Envs -> NativeEnv]
BY DEF Panicked, Declared, NativeEnv

\* mark_finished() keeps a transaction handle well typed.
LEMMA FinishedType ==
  ASSUME txn \in [Txns -> TxnHandle], NEW t \in Txns,
         NEW s \in {"committed", "aborted"}
  PROVE Finished(t, s) \in TxnHandle
BY DEF Finished, TxnHandle

\* unregister_txn() keeps environment handles well typed.
LEMMA UnregisterType ==
  ASSUME txn \in [Txns -> TxnHandle], NEW E \in [Envs -> EnvHandle], NEW t \in Txns
  PROVE Unregister(E, t) \in [Envs -> EnvHandle]
<1>1. txn[t].owner \in Envs \cup {Null}
  BY DEF TxnHandle
<1> QED BY <1>1 DEF Unregister, EnvHandle

\* Poisoning an environment keeps the handles well typed.
LEMMA PoisonEnvType ==
  ASSUME env \in [Envs -> EnvHandle], NEW e \in Envs
  PROVE [env EXCEPT ![e].poisoned = TRUE] \in [Envs -> EnvHandle]
BY DEF EnvHandle

\* poison_txn() keeps both kinds of handle well typed.
LEMMA PoisonTxnType ==
  ASSUME env \in [Envs -> EnvHandle], txn \in [Txns -> TxnHandle], NEW t \in Txns,
         PoisonTxn(t)
  PROVE txn' \in [Txns -> TxnHandle] /\ env' \in [Envs -> EnvHandle]
<1>1. txn[t].owner \in Envs \cup {Null}
  BY DEF TxnHandle
<1>2. txn' \in [Txns -> TxnHandle]
  BY DEF PoisonTxn, TxnHandle
<1>3. env' \in [Envs -> EnvHandle]
  BY <1>1, PoisonEnvType DEF PoisonTxn
<1> QED BY <1>2, <1>3

\* Every step keeps the variables well typed: one case per action.
LEMMA TypeStep == TypeOK /\ [Next]_vars => TypeOK'
<1> SUFFICES ASSUME TypeOK, [Next]_vars PROVE TypeOK'
  OBVIOUS
<1>c. NoEnv \in EnvHandle /\ NoTxn \in TxnHandle /\ NoNative \in NativeEnv
  BY ConstantsAssumption DEF ConstantsAssumption, EnvHandle, TxnHandle, NativeEnv, NoEnv, NoTxn, NoNative
<1>s. /\ \A x \in Envs \cup Txns : <<x>> \o stack \in Seq(Envs \cup Txns)
      /\ stack # <<>> => Tail(stack) \in Seq(Envs \cup Txns)
  BY DEF TypeOK
<1>p. \A e \in Envs : Panicked(e) \in [Envs -> NativeEnv]
  BY PanickedType DEF TypeOK
<1>r. /\ \A e \in Envs : Returned(e) => nenv' \in [Envs -> NativeEnv]
      /\ \A t \in Txns : ReturnedUnder(t) => nenv' \in [Envs -> NativeEnv]
      /\ \A t \in Txns : nenv' = PanickedUnder(t) => nenv' \in [Envs -> NativeEnv]
  BY PanickedType DEF Returned, ReturnedUnder, PanickedUnder, TypeOK
<1>f. \A t \in Txns, s \in {"committed", "aborted"} : Finished(t, s) \in TxnHandle
  BY FinishedType DEF TypeOK
<1>u. \A t \in Txns : Unregister(env, t) \in [Envs -> EnvHandle]
  BY UnregisterType DEF TypeOK
<1>e. \A e \in Envs : [env EXCEPT ![e].poisoned = TRUE] \in [Envs -> EnvHandle]
  BY PoisonEnvType DEF TypeOK
<1>m. /\ \A e \in Envs : EnvMisuse(e) \subseteq Misuses
      /\ \A t \in Txns : TxnMisuse(t) \subseteq Misuses
      /\ \A t \in Txns : HeapRootsMisuse(t) \subseteq Misuses
  BY MisuseType
<1>d. ASSUME NEW e \in Envs, NEW P, NEW R, DetachAndClose(e, P, R)
      PROVE /\ txn' \in [Txns -> TxnHandle]
            /\ ntxn' \in [Txns -> Envs \cup {Null}]
            /\ open_envs' \subseteq Envs
            /\ nenv' \in [Envs -> NativeEnv]
            /\ abandoned' \subseteq Envs \cup Txns
            /\ misuse' \subseteq Misuses
  <2>1. txn' \in [Txns -> TxnHandle]
    <3>1. txn' = Detached(e, P)
      BY <1>d DEF DetachAndClose
    <3>2. \A t \in Txns : [Finished(t, "aborted") EXCEPT !.poisoned = @ \/ t \in P]
                            \in TxnHandle
      <4> TAKE t \in Txns
      <4>1. Finished(t, "aborted") \in TxnHandle
        BY <1>f
      <4> QED BY <4>1 DEF TxnHandle
    <3> QED BY <3>1, <3>2 DEF Detached, TypeOK
  <2>2. ntxn' \in [Txns -> Envs \cup {Null}]
    <3>1. \A G : NativeWithout(G) \in [Txns -> Envs \cup {Null}]
      BY DEF NativeWithout, TypeOK
    <3> QED BY <1>d, <3>1 DEF DetachAndClose
  <2>3. open_envs' \subseteq Envs
    BY <1>d DEF DetachAndClose, Unregistered, TypeOK
  <2>4. nenv' \in [Envs -> NativeEnv]
    <3>1. [nenv EXCEPT ![e].st = "halfclosed"] \in [Envs -> NativeEnv]
      BY DEF TypeOK, NativeEnv
    <3>2. [nenv EXCEPT ![e] = NoNative] \in [Envs -> NativeEnv]
      BY <1>c DEF TypeOK
    <3> QED BY <1>d, <1>p, <3>1, <3>2 DEF DetachAndClose, TypeOK
  <2>5. DetachGivesUp(e, P) \subseteq Txns
    BY DEF DetachGivesUp, TypeOK, EnvHandle
  <2>6. abandoned' \subseteq Envs \cup Txns
    BY <1>d, <2>5 DEF DetachAndClose, TypeOK
  <2>7. misuse' \subseteq Misuses
    <3>1. DetachMisuse(e, P) \subseteq Misuses
      BY MisuseType
    <3>2. \A G : CloseMisuse(e, G) \subseteq Misuses
      BY MisuseType
    <3> QED BY <1>d, <3>1, <3>2 DEF DetachAndClose, TypeOK
  <2> QED BY <2>1, <2>2, <2>3, <2>4, <2>6, <2>7
<1>w. ASSUME NEW t \in Txns, EndNatively(t)
      PROVE ntxn' \in [Txns -> Envs \cup {Null}] /\ nenv' \in [Envs -> NativeEnv]
  BY <1>w, <1>r DEF EndNatively, TypeOK
<1>n. ASSUME NEW t \in Txns, NEW s \in {"committed", "aborted"}, EndTxn(t, s)
      PROVE /\ txn' \in [Txns -> TxnHandle] /\ env' \in [Envs -> EnvHandle]
            /\ ntxn' \in [Txns -> Envs \cup {Null}]
            /\ prot' \in [Txns -> Envs \cup {Null}]
            /\ misuse' \subseteq Misuses /\ nenv' \in [Envs -> NativeEnv]
  BY <1>n, <1>w, <1>f, <1>u, <1>m DEF EndTxn, TypeOK
<1>q. ASSUME NEW t \in Txns, TxnPanics(t)
      PROVE /\ txn' \in [Txns -> TxnHandle] /\ env' \in [Envs -> EnvHandle]
            /\ ntxn' \in [Txns -> Envs \cup {Null}]
            /\ prot' \in [Txns -> Envs \cup {Null}]
            /\ misuse' \subseteq Misuses /\ nenv' \in [Envs -> NativeEnv]
  <2>1. txn' \in [Txns -> TxnHandle] /\ env' \in [Envs -> EnvHandle]
    BY <1>q, PoisonTxnType DEF TxnPanics, TypeOK
  <2>2. nenv' \in [Envs -> NativeEnv]
    BY <1>q, <1>r DEF TxnPanics
  <2> QED BY <1>q, <1>m, <2>1, <2>2 DEF TxnPanics, TypeOK
<1>1. ASSUME NEW e \in Envs, NEW k \in Keys, Open(e, k) PROVE TypeOK'
  BY <1>1, <1>s DEF Open, Push, TypeOK, EnvHandle, NativeEnv, NoEnv
<1>2. ASSUME NEW e \in Envs, NEW k \in Keys, OpenPanics(e, k) PROVE TypeOK'
  <2>1. \A st \in {"broken", "halfclosed"} :
          [nenv EXCEPT ![e] = [st |-> st, pid |-> self, key |-> k]] \in [Envs -> NativeEnv]
    BY DEF TypeOK, NativeEnv
  <2>2. nenv' \in [Envs -> NativeEnv] /\ abandoned' \subseteq Envs \cup Txns
    BY <1>2, <2>1 DEF OpenPanics, TypeOK
  <2> QED BY <1>2, <2>2 DEF OpenPanics, rside, TypeOK
<1>3. ASSUME NEW e \in Envs, OpenDone(e) PROVE TypeOK'
  BY <1>3, <1>s DEF OpenDone, Building, native, TypeOK
<1>4. ASSUME NEW e \in Envs, OpenAllocFails(e) PROVE TypeOK'
  BY <1>4, <1>s DEF OpenAllocFails, Building, handles, native, TypeOK
<1>g. ASSUME NEW e \in Envs, GuardedOnEnv(e)
      PROVE env' \in [Envs -> EnvHandle] /\ nenv' \in [Envs -> NativeEnv]
  BY <1>g, <1>e, <1>p, <1>r DEF GuardedOnEnv, TypeOK
<1>5. ASSUME NEW e \in Envs, EnvCall(e) PROVE TypeOK'
  <2>1. misuse' \subseteq Misuses
    BY <1>5, <1>m DEF EnvCall, TypeOK
  <2> QED BY <1>5, <1>g, <2>1 DEF EnvCall, rside, TypeOK
<1>6. ASSUME NEW e \in Envs, Close(e) PROVE TypeOK'
  <2>1. DetachAndClose(e, {}, {})
    BY <1>6 DEF Close
  <2>2. env' \in [Envs -> EnvHandle]
    <3>1. \A b \in BOOLEAN : [env[e] EXCEPT !.env = FALSE, !.live_txns = {}, !.poisoned = b]
                                \in EnvHandle
      BY DEF TypeOK, EnvHandle
    <3>2. env' = [env EXCEPT ![e] = [env[e] EXCEPT !.env = FALSE, !.live_txns = {},
                    !.poisoned = env[e].poisoned \/ nenv'[e].st = "halfclosed"]]
      BY <1>6 DEF Close, TypeOK, EnvHandle
    <3>3. (env[e].poisoned \/ nenv'[e].st = "halfclosed") \in BOOLEAN
      BY Zenon
    <3> QED BY <3>1, <3>2, <3>3 DEF TypeOK
  <2> QED BY <1>6, <1>d, <2>1, <2>2 DEF Close, rside, TypeOK
<1>7. ASSUME NEW e \in Envs, FinalizeEnv(e) PROVE TypeOK'
  <2>1. \E P, R : DetachAndClose(e, P, R)
    BY <1>7 DEF FinalizeEnv
  <2>2. env' \in [Envs -> EnvHandle]
    BY <1>7, <1>c DEF FinalizeEnv, TypeOK
  <2> QED BY <1>7, <1>d, <2>1, <2>2 DEF FinalizeEnv, TypeOK
<1>8. ASSUME NEW e \in Envs, BeginFails(e) PROVE TypeOK'
  BY <1>8, <1>g, <1>m DEF BeginFails, rside, TypeOK
<1>9. ASSUME NEW e \in Envs, NEW t \in Txns, Begin(e, t) PROVE TypeOK'
  BY <1>9, <1>s, <1>m DEF Begin, Push, TypeOK, TxnHandle, NoTxn
<1>10. ASSUME NEW t \in Txns, BeginDone(t) PROVE TypeOK'
  <2>1. txn[t].owner \in Envs \cup {Null}
    BY DEF TypeOK, TxnHandle
  <2>2. env' \in [Envs -> EnvHandle]
    <3>1. \A o \in Envs : [env EXCEPT ![o].live_txns = @ \cup {t}] \in [Envs -> EnvHandle]
      BY DEF TypeOK, EnvHandle
    <3>2. CASE txn[t].owner \in Envs
      BY <1>10, <3>1, <3>2 DEF BeginDone
    <3>3. CASE txn[t].owner \notin Envs
      BY <1>10, <3>3 DEF BeginDone, TypeOK
    <3> QED BY <3>2, <3>3
  <2> QED BY <1>10, <1>s, <2>1, <2>2 DEF BeginDone, Building, native, TypeOK
<1>11. ASSUME NEW t \in Txns, BeginAllocFails(t) PROVE TypeOK'
  BY <1>11, <1>s DEF BeginAllocFails, Building, handles, native, TypeOK
<1>12. ASSUME NEW t \in Txns, TxnCall(t) PROVE TypeOK'
  <2>1. CASE OwnerPanics(t)
    <3>1. env' \in [Envs -> EnvHandle]
      BY <2>1, PoisonEnvType DEF OwnerPanics, TypeOK
    <3>2. nenv' \in [Envs -> NativeEnv]
      BY <2>1, <1>r DEF OwnerPanics
    <3> QED BY <1>12, <2>1, <1>m, <3>1, <3>2 DEF TxnCall, OwnerPanics, TypeOK
  <2>2. CASE ~OwnerPanics(t)
    BY <1>12, <2>2, <1>q, <1>m, <1>r DEF TxnCall, TypeOK
  <2> QED BY <2>1, <2>2
<1>13. ASSUME NEW t \in Txns, QueryState(t) PROVE TypeOK'
  BY <1>13, <1>m DEF QueryState, handles, rside, TypeOK
<1>14. ASSUME NEW t \in Txns, Commit(t) PROVE TypeOK'
  BY <1>14, <1>n, <1>q, <1>m DEF Commit, FinishTxn, TypeOK
<1>15. ASSUME NEW t \in Txns, Abort(t) PROVE TypeOK'
  <2>1. CASE AbortHere(t)
    BY <1>15, <2>1, <1>f, <1>u, <1>m DEF Abort, TypeOK
  <2>2. CASE ~AbortHere(t)
    BY <1>15, <2>2, <1>n, <1>q, <1>m DEF Abort, FinishTxn, TypeOK
  <2> QED BY <2>1, <2>2
<1>16. ASSUME NEW t \in Txns, FinalizeTxn(t) PROVE TypeOK'
  <2>1. env' \in [Envs -> EnvHandle]
    <3>1. FinalizerAborts(t) => txn[t].owner \in Envs
      BY DEF FinalizerAborts, TypeOK, TxnHandle
    <3>2. FinalizerAborts(t) =>
            Unregister([env EXCEPT ![txn[t].owner].poisoned = TRUE], t) \in [Envs -> EnvHandle]
      BY <3>1, <1>e, UnregisterType DEF TypeOK
    <3> QED BY <1>16, <1>u, <3>2 DEF FinalizeTxn
  <2>2. nenv' \in [Envs -> NativeEnv] /\ ntxn' \in [Txns -> Envs \cup {Null}]
    BY <1>16, <1>r, <1>w DEF FinalizeTxn, TypeOK
  <2> QED BY <1>16, <1>c, <1>m, <2>1, <2>2 DEF FinalizeTxn, TypeOK
<1>17. ASSUME NEW x, Drop(x) PROVE TypeOK'
  BY <1>17 DEF Drop, handles, native, TypeOK
<1>18. CASE Fork
  BY <1>18, ConstantsAssumption DEF ConstantsAssumption, Fork, handles, rside, native, TypeOK
<1>19. CASE Exit
  BY <1>19 DEF Exit, handles, native, TypeOK
<1>20. CASE UNCHANGED vars
  BY <1>20 DEF vars, handles, rside, native, TypeOK
<1> QED
  BY <1>1, <1>2, <1>3, <1>4, <1>5, <1>6, <1>7, <1>8, <1>9, <1>10, <1>11, <1>12,
     <1>13, <1>14, <1>15, <1>16, <1>17, <1>18, <1>19, <1>20
     DEF Next, EnvStep, TxnStep, Session

\* The variables keep their types, whatever fails and whatever re-enters.
THEOREM TypeCorrect == Spec => []TypeOK
<1>1. Init => TypeOK
  BY TypeInit
<1>2. TypeOK /\ [Next]_vars => TypeOK'
  BY TypeStep
<1> QED BY <1>1, <1>2, PTL DEF Spec

-----------------------------------------------------------------------------
(* One lemma per action, and the facts they share.                        *)

\* The types of the fields the later lemmas speak of.
LEMMA Fields ==
  ASSUME TypeOK
  PROVE /\ \A e \in Envs : /\ env[e].live_txns \subseteq Txns
                           /\ env[e].pid \in 0 .. MaxForks /\ nenv[e].pid \in 0 .. MaxForks
                           /\ nenv[e].st \in {"none", "open", "fatal", "broken", "halfclosed"}
        /\ \A t \in Txns : /\ txn[t].owner \in Envs \cup {Null}
                           /\ ntxn[t] \in Envs \cup {Null}
        /\ self \in 0 .. MaxForks
        /\ Null \notin Envs
BY ConstantsAssumption DEF ConstantsAssumption, TypeOK, EnvHandle, TxnHandle, NativeEnv

\* What a call that returns may do to a native environment: nothing, or declare
\* it broken.
Aged(f) ==
  /\ nenv'[f].pid = nenv[f].pid /\ nenv'[f].key = nenv[f].key
  /\ nenv'[f].st = nenv[f].st \/ (nenv[f].st = "open" /\ nenv'[f].st = "fatal")

\* What ending t, in libmdbx or without it, does to the environment handles and
\* to the native environments, field by field.
EndsInEnv(t, panic, f) ==
  /\ env'[f].alloc = env[f].alloc /\ env'[f].env = env[f].env
  /\ env'[f].pid = env[f].pid /\ env'[f].key = env[f].key
  /\ env'[f].live_txns = IF f = txn[t].owner THEN env[f].live_txns \ {t}
                         ELSE env[f].live_txns
  /\ env'[f].poisoned <=> (env[f].poisoned \/ (panic /\ f = txn[t].owner))
EndsInNative(t, panic, f) ==
  IF panic /\ f = txn[t].owner
  THEN /\ nenv'[f].pid = nenv[f].pid /\ nenv'[f].key = nenv[f].key
       /\ nenv'[f].st = "broken"
  ELSE Aged(f)

\* Unregister() removes the transaction from its owner's registry, nothing else.
LEMMA UnregisterEnds ==
  ASSUME TypeOK, NEW t \in Txns, txn[t].owner \in Envs, env' = Unregister(env, t)
  PROVE \A f \in Envs : EndsInEnv(t, FALSE, f)
<1> SUFFICES ASSUME NEW f \in Envs PROVE EndsInEnv(t, FALSE, f)
  OBVIOUS
<1>1. txn[t].owner # Null
  BY Fields
<1>2. env \in [Envs -> EnvHandle]
  BY DEF TypeOK
<1>3. env' = [env EXCEPT ![txn[t].owner].live_txns = @ \ {t}]
  BY <1>1 DEF Unregister
<1>4. CASE f = txn[t].owner
  <2>1. env'[f] = [env[f] EXCEPT !.live_txns = @ \ {t}]
    BY <1>2, <1>3, <1>4
  <2>2. env[f] \in EnvHandle
    BY <1>2
  <2> QED BY <1>4, <2>1, <2>2 DEF EnvHandle, EndsInEnv
<1>5. CASE f # txn[t].owner
  <2>1. env'[f] = env[f]
    BY <1>2, <1>3, <1>5
  <2> QED BY <1>5, <2>1 DEF EndsInEnv
<1> QED BY <1>4, <1>5

\* The same when the owner was poisoned just before.
LEMMA UnregisterEndsPanicking ==
  ASSUME TypeOK, NEW t \in Txns, txn[t].owner \in Envs,
         env' = Unregister([env EXCEPT ![txn[t].owner].poisoned = TRUE], t)
  PROVE \A f \in Envs : EndsInEnv(t, TRUE, f)
<1> SUFFICES ASSUME NEW f \in Envs PROVE EndsInEnv(t, TRUE, f)
  OBVIOUS
<1> DEFINE G == [env EXCEPT ![txn[t].owner].poisoned = TRUE]
<1>1. txn[t].owner # Null
  BY Fields
<1>2. env \in [Envs -> EnvHandle]
  BY DEF TypeOK
<1>3. G \in [Envs -> EnvHandle]
  BY <1>2, PoisonEnvType
<1>4. /\ G[f].alloc = env[f].alloc /\ G[f].env = env[f].env
      /\ G[f].pid = env[f].pid /\ G[f].key = env[f].key
      /\ G[f].live_txns = env[f].live_txns
      /\ G[f].poisoned <=> (env[f].poisoned \/ f = txn[t].owner)
  BY <1>2 DEF EnvHandle
<1>5. env' = [G EXCEPT ![txn[t].owner].live_txns = @ \ {t}]
  BY <1>1 DEF Unregister
<1> HIDE DEF G
<1>6. /\ env'[f].alloc = G[f].alloc /\ env'[f].env = G[f].env
      /\ env'[f].pid = G[f].pid /\ env'[f].key = G[f].key
      /\ env'[f].poisoned = G[f].poisoned
      /\ env'[f].live_txns = IF f = txn[t].owner THEN G[f].live_txns \ {t}
                             ELSE G[f].live_txns
  <2>1. G[f] \in EnvHandle
    BY <1>3
  <2>2. env'[f] = IF f = txn[t].owner THEN [G[f] EXCEPT !.live_txns = @ \ {t}] ELSE G[f]
    BY <1>3, <1>5
  <2> QED BY <2>1, <2>2 DEF EnvHandle
<1> QED BY <1>4, <1>6 DEF EndsInEnv

\* A call that returns.
LEMMA ReturnedAges ==
  ASSUME TypeOK, nenv' = nenv \/ \E e \in Envs : Returned(e)
  PROVE \A f \in Envs : Aged(f)
<1> SUFFICES ASSUME NEW f \in Envs PROVE Aged(f)
  OBVIOUS
<1>1. nenv \in [Envs -> NativeEnv]
  BY DEF TypeOK
<1>2. CASE nenv' = nenv
  BY <1>2 DEF Aged
<1>3. ASSUME NEW e \in Envs, nenv[e].st = "open", nenv' = [nenv EXCEPT ![e].st = "fatal"]
      PROVE Aged(f)
  <2>1. CASE f = e
    <3>1. nenv[f] \in NativeEnv /\ nenv'[f] = [nenv[f] EXCEPT !.st = "fatal"]
      BY <1>1, <1>3, <2>1
    <3> QED BY <1>3, <2>1, <3>1 DEF NativeEnv, Aged
  <2>2. CASE f # e
    <3>1. nenv'[f] = nenv[f]
      BY <1>1, <1>3, <2>2
    <3> QED BY <3>1 DEF Aged
  <2> QED BY <2>1, <2>2
<1> QED BY <1>2, <1>3 DEF Returned, Declared

\* The same of a call on a transaction.
LEMMA ReturnedUnderAges ==
  ASSUME TypeOK, NEW t \in Txns, ReturnedUnder(t)
  PROVE \A f \in Envs : Aged(f)
BY Fields, ReturnedAges DEF ReturnedUnder

\* The two with what becomes of the native environments.
LEMMA UnregisterQuiet ==
  ASSUME TypeOK, NEW t \in Txns, txn[t].owner \in Envs,
         env' = Unregister(env, t), NEW f \in Envs, Aged(f)
  PROVE EndsInEnv(t, FALSE, f) /\ EndsInNative(t, FALSE, f)
<1>1. EndsInEnv(t, FALSE, f)
  BY UnregisterEnds
<1> QED BY <1>1 DEF EndsInNative

LEMMA UnregisterPanic ==
  ASSUME TypeOK, NEW t \in Txns, txn[t].owner \in Envs,
         env' = Unregister([env EXCEPT ![txn[t].owner].poisoned = TRUE], t),
         nenv' = Panicked(txn[t].owner), NEW f \in Envs
  PROVE EndsInEnv(t, TRUE, f) /\ EndsInNative(t, TRUE, f)
<1>1. EndsInEnv(t, TRUE, f)
  BY UnregisterEndsPanicking
<1>2. nenv \in [Envs -> NativeEnv]
  BY DEF TypeOK
<1>3. EndsInNative(t, TRUE, f)
  BY <1>2 DEF EndsInNative, Panicked, NativeEnv, Aged
<1> QED BY <1>1, <1>3

\* What may happen to the native environment under transaction t: it is
\* declared broken, panics, or goes away, and is not replaced by another. Only a
\* panic in its own close takes it from a transaction it has refused to end.
Decays(t) ==
  LET f == ntxn[t] IN
  \/ Aged(f)
  \/ /\ \/ nenv'[f].st = "none"
        \/ /\ nenv[f].st # "none"
           /\ nenv'[f].pid = nenv[f].pid
           /\ nenv'[f].st \notin Callable
     /\ txn[t].txn \/ t \in abandoned' \/ nenv'[f].st \in {"fatal", "halfclosed"}

\* A step that leaves an environment handle and its native environment alone.
LEMMA EnvKept ==
  ASSUME NEW f \in Envs, EnvInv(f), env[f].alloc = env'[f].alloc,
         env[f].env = env'[f].env, env[f].poisoned <=> env'[f].poisoned,
         env[f].pid = env'[f].pid, env[f].key = env'[f].key,
         Aged(f), self' = self,
         f \in sexp' <=> f \in sexp, OnStack(f)' <=> OnStack(f),
         f \in open_envs' <=> f \in open_envs,
         f \in abandoned => f \in abandoned'
  PROVE EnvInv(f)'
<1>1. /\ nenv'[f].st \in Callable <=> nenv[f].st \in Callable
      /\ nenv'[f].st = "broken" <=> nenv[f].st = "broken"
      /\ nenv'[f].st \in {"open", "fatal", "broken"} <=> nenv[f].st \in {"open", "fatal", "broken"}
      /\ nenv'[f].pid = nenv[f].pid /\ nenv'[f].key = nenv[f].key
  BY DEF Aged, Callable
<1> QED BY <1>1 DEF EnvInv, Tracked

\* A step that leaves a transaction alone, while its environment may decay.
LEMMA TxnKept ==
  ASSUME TypeOK, NEW t \in Txns, TxnInv(t), txn'[t] = txn[t], ntxn'[t] = ntxn[t],
         self' = self,
         t \in sexp' <=> t \in sexp, OnStack(t)' <=> OnStack(t),
         t \in abandoned => t \in abandoned',
         txn[t].txn /\ t \in sexp => t \in env'[txn[t].owner].live_txns,
         ntxn[t] # Null => Decays(t)
  PROVE TxnInv(t)'
<1>1. CASE ntxn[t] = Null
  BY <1>1 DEF TxnInv, Tracked
<1>2. CASE ntxn[t] # Null
  <2> DEFINE f == ntxn[t]
  <2>1. txn[t].txn => f = txn[t].owner
    BY DEF TxnInv
  <2>2. Decays(t)
    BY <1>2
  <2>3. /\ nenv'[f].st = "none" \/ (nenv[f].st # "none" /\ nenv'[f].pid = nenv[f].pid)
        /\ nenv[f].st \notin Callable => nenv'[f].st \notin Callable
        /\ nenv'[f].st = "open" => nenv[f].st = "open" /\ nenv'[f].pid = nenv[f].pid
    BY <2>2 DEF Decays, Aged, Callable
  <2>4. ~txn[t].txn => t \in abandoned' \/ nenv'[f].st \in {"fatal", "halfclosed"}
    BY <1>2, <2>2 DEF Decays, Aged, TxnInv
  <2>5. ~txn[t].txn => nenv'[f].st # "open" \/ nenv'[f].pid # self'
    BY <1>2, <2>3 DEF TxnInv
  <2> HIDE DEF f
  <2>6. ~txn[t].txn \/ (txn[t].owner # Null /\ f = txn[t].owner)
    BY <2>1 DEF TxnInv
  <2>7. txn[t].txn => /\ nenv'[txn[t].owner].st = "none" \/ nenv'[txn[t].owner].pid = txn[t].pid
                      /\ txn[t].poisoned => nenv'[txn[t].owner].st \notin Callable
    BY <2>1, <2>3 DEF TxnInv
  <2>8. (ntxn[t] # Null /\ ~txn[t].txn =>
           /\ t \in abandoned \/ nenv[ntxn[t]].st \in {"fatal", "halfclosed"}
           /\ nenv[ntxn[t]].st # "open" \/ nenv[ntxn[t]].pid # self)'
    BY <2>4, <2>5 DEF f
  <2> QED BY <2>7, <2>8 DEF TxnInv, Tracked
<1> QED BY <1>1, <1>2

\* Pushing a handle that is not on the stack.
LEMMA PushStack ==
  ASSUME TypeOK, StackInv, NEW x \in Envs \cup Txns, ~OnStack(x), Push(x)
  PROVE /\ StackInv'
        /\ \A y : OnStack(y)' <=> (y = x \/ OnStack(y))
<1> DEFINE n == Len(stack)
<1>1. stack \in Seq(Envs \cup Txns) /\ n \in Nat
  BY DEF TypeOK
<1>2. /\ Len(stack') = n + 1 /\ stack'[1] = x
      /\ \A i \in 2 .. n + 1 : stack'[i] = stack[i - 1]
  BY <1>1 DEF Push
<1>3. \A y : OnStack(y)' <=> (y = x \/ OnStack(y))
  <2> SUFFICES ASSUME NEW y PROVE OnStack(y)' <=> (y = x \/ OnStack(y))
    OBVIOUS
  <2>1. \A i \in 1 .. n : i + 1 \in 2 .. n + 1 /\ (i + 1) - 1 = i
    BY <1>1
  <2>2. \A i \in 1 .. n : stack'[i + 1] = stack[i]
    BY <1>2, <2>1
  <2>3. \A i \in 2 .. n + 1 : i - 1 \in 1 .. n
    BY <1>1
  <2>4. 1 \in 1 .. n + 1 /\ \A i \in 1 .. n + 1 : i = 1 \/ i \in 2 .. n + 1
    BY <1>1
  <2>5. \A i \in 1 .. n : i + 1 \in 1 .. n + 1
    BY <1>1
  <2> QED BY <1>2, <2>2, <2>3, <2>4, <2>5 DEF OnStack
<1>4. StackInv'
  <2> SUFFICES ASSUME NEW i \in 1 .. n + 1, NEW j \in 1 .. n + 1, stack'[i] = stack'[j]
               PROVE i = j
    BY <1>2 DEF StackInv
  <2>1. \A m \in 2 .. n + 1 : m - 1 \in 1 .. n /\ stack'[m] = stack[m - 1] /\ stack'[m] # x
    <3>1. \A m \in 2 .. n + 1 : m - 1 \in 1 .. n
      BY <1>1
    <3> QED BY <1>2, <3>1 DEF OnStack
  <2>2. CASE i = 1 \/ j = 1
    <3>1. \A m \in 1 .. n + 1 : m = 1 \/ m \in 2 .. n + 1
      BY <1>1
    <3> QED BY <1>2, <2>1, <2>2, <3>1
  <2>3. CASE i # 1 /\ j # 1
    <3>1. i \in 2 .. n + 1 /\ j \in 2 .. n + 1
      BY <1>1, <2>3
    <3>2. i - 1 = j - 1
      BY <2>1, <3>1 DEF StackInv
    <3> QED BY <3>1, <3>2
  <2> QED BY <2>2, <2>3
<1> QED BY <1>3, <1>4

\* Taking the head off the stack.
LEMMA PopStack ==
  ASSUME TypeOK, StackInv, NEW x, Building(x), stack' = Tail(stack)
  PROVE /\ StackInv' /\ OnStack(x)
        /\ \A y : OnStack(y)' <=> (y # x /\ OnStack(y))
<1> DEFINE n == Len(stack)
<1>1. stack \in Seq(Envs \cup Txns) /\ n \in Nat /\ stack # <<>>
  BY DEF TypeOK, Building
<1>2. n # 0 /\ stack[1] = x
  BY <1>1 DEF Building
<1>3. /\ Len(stack') = n - 1
      /\ \A i \in 1 .. n - 1 : stack'[i] = stack[i + 1]
  BY <1>1
<1>4. 1 \in 1 .. n /\ \A i \in 1 .. n - 1 : i + 1 \in 1 .. n /\ i + 1 # 1
  BY <1>1, <1>2
<1>5. OnStack(x)
  BY <1>2, <1>4 DEF OnStack
<1>6. \A i \in 1 .. n - 1 : stack[i + 1] # x
  BY <1>2, <1>4 DEF StackInv
<1>7. \A y : OnStack(y)' <=> (y # x /\ OnStack(y))
  <2> SUFFICES ASSUME NEW y PROVE OnStack(y)' <=> (y # x /\ OnStack(y))
    OBVIOUS
  <2>1. \A i \in 1 .. n : i = 1 \/ (i - 1 \in 1 .. n - 1 /\ (i - 1) + 1 = i)
    BY <1>1
  <2>2. \A i \in 1 .. n : i # 1 => stack'[i - 1] = stack[i]
    BY <1>3, <2>1
  <2>3. ASSUME OnStack(y)' PROVE y # x /\ OnStack(y)
    <3>1. PICK i \in 1 .. n - 1 : stack'[i] = y
      BY <1>3, <2>3 DEF OnStack
    <3>2. i + 1 \in 1 .. n /\ stack[i + 1] = y /\ y # x
      BY <1>3, <1>4, <1>6, <3>1
    <3> QED BY <3>2 DEF OnStack
  <2>4. ASSUME y # x, OnStack(y) PROVE OnStack(y)'
    <3>1. PICK i \in 1 .. n : stack[i] = y
      BY <2>4 DEF OnStack
    <3>2. i # 1
      BY <1>2, <2>4, <3>1
    <3>3. i - 1 \in 1 .. n - 1 /\ stack'[i - 1] = y
      BY <2>1, <2>2, <3>1, <3>2
    <3> QED BY <1>3, <3>3 DEF OnStack
  <2> QED BY <2>3, <2>4
<1>8. StackInv'
  <2> SUFFICES ASSUME NEW i \in 1 .. n - 1, NEW j \in 1 .. n - 1, stack'[i] = stack'[j]
               PROVE i = j
    BY <1>3 DEF StackInv
  <2>1. i + 1 = j + 1
    BY <1>3, <1>4 DEF StackInv
  <2> QED BY <2>1
<1> QED BY <1>5, <1>7, <1>8

\* A panic in environment e, with the transaction handles T poisoned along
\* with it, preserves the invariant (poison_txn(), poison_begin()).
LEMMA PanicStep ==
  ASSUME HandleInv, TypeOK', NoForeignUse', NEW e \in Envs, env[e].env,
         \A u \in Txns : ntxn[u] = e /\ ~txn[u].txn => nenv[e].st # "fatal",
         env' = [env EXCEPT ![e].poisoned = TRUE],
         nenv' = Panicked(e),
         NEW T \in SUBSET Txns, \A t \in T : txn[t].txn /\ txn[t].owner = e,
         \A t \in Txns : txn'[t] = IF t \in T THEN [txn[t] EXCEPT !.poisoned = TRUE] ELSE txn[t],
         UNCHANGED <<self, open_envs, abandoned, sexp, stack, ntxn>>
  PROVE HandleInv'
<1>1. TypeOK
  BY DEF HandleInv
<1>3. \A x : OnStack(x)' <=> OnStack(x)
  BY DEF OnStack
<1>4. \A f \in Envs :
        /\ env'[f].alloc = env[f].alloc /\ env'[f].env = env[f].env
        /\ env'[f].pid = env[f].pid /\ env'[f].key = env[f].key
        /\ env'[f].live_txns = env[f].live_txns
        /\ env'[f].poisoned <=> (f = e \/ env[f].poisoned)
  BY <1>1 DEF TypeOK, EnvHandle
<1>5. \A f \in Envs :
        /\ nenv'[f].pid = nenv[f].pid /\ nenv'[f].key = nenv[f].key
        /\ nenv'[f].st = IF f = e THEN "broken" ELSE nenv[f].st
  BY <1>1 DEF TypeOK, NativeEnv, Panicked
<1>6. \A t \in Txns :
        /\ txn'[t].alloc = txn[t].alloc /\ txn'[t].txn = txn[t].txn
        /\ txn'[t].owner = txn[t].owner /\ txn'[t].state = txn[t].state
        /\ txn'[t].pid = txn[t].pid
        /\ txn'[t].poisoned <=> (t \in T \/ txn[t].poisoned)
  BY <1>1 DEF TypeOK, TxnHandle
<1>7. \A f \in Envs : EnvInv(f)'
  BY <1>3, <1>4, <1>5 DEF HandleInv, EnvInv, Tracked, Callable
<1>8. ASSUME NEW t \in Txns PROVE TxnInv(t)'
  <2>1. TxnInv(t) /\ nenv[e].st # "none"
    BY DEF HandleInv, EnvInv, Callable
  <2>2. txn[t].owner \in Envs \cup {Null} /\ ntxn[t] \in Envs \cup {Null}
    BY <1>1, Fields
  <2>3. \A f \in Envs : /\ nenv'[f].st = "none" <=> nenv[f].st = "none"
                        /\ nenv'[f].st = "open" => nenv[f].st = "open"
                        /\ nenv[f].st \notin Callable => nenv'[f].st \notin Callable
    BY <1>5, <2>1 DEF Callable
  <2>4. t \in T => nenv'[txn[t].owner].st \notin Callable
    BY <1>5 DEF Callable
  <2>5. ntxn[t] # Null /\ ~txn[t].txn =>
          t \in abandoned \/ nenv'[ntxn[t]].st \in {"fatal", "halfclosed"}
    <3>1. nenv[e].st \in {"open", "fatal", "broken"}
      BY DEF HandleInv, EnvInv, Callable
    <3> QED BY <1>5, <2>1, <2>2, <3>1 DEF TxnInv
  <2> QED BY <1>3, <1>4, <1>5, <1>6, <2>1, <2>2, <2>3, <2>4, <2>5 DEF TxnInv, Tracked
<1>9. PairInv'
  BY <1>4, <1>6 DEF HandleInv, PairInv
<1> QED BY <1>7, <1>8, <1>9 DEF HandleInv, StackInv

\* A transaction handle leaves the registry and gives up its native transaction,
\* which has ended, is abandoned, or was refused its end by an environment
\* declared broken: every path that ends one.
LEMMA EndStep ==
  ASSUME HandleInv, TypeOK', NoForeignUse', NEW t \in Txns, txn[t].txn, t \in sexp,
         NEW panic \in BOOLEAN, panic => env[txn[t].owner].env,
         \A f \in Envs : EndsInEnv(t, panic, f) /\ EndsInNative(t, panic, f),
         \A u \in Txns \ {t} : txn'[u] = txn[u] /\ ntxn'[u] = ntxn[u],
         ~txn'[t].txn, txn'[t].owner = Null,
         txn'[t].alloc => txn'[t].state # "active",
         txn'[t].alloc <=> t \in sexp',
         sexp' \in {sexp, sexp \ {t}},
         abandoned \subseteq abandoned',
         \/ ntxn'[t] = Null
         \/ /\ ntxn'[t] = ntxn[t]
            /\ t \in abandoned' \/ nenv'[txn[t].owner].st = "fatal"
            /\ nenv'[txn[t].owner].st # "open" \/ nenv'[txn[t].owner].pid # self,
         UNCHANGED <<self, open_envs, stack>>
  PROVE HandleInv'
<1>1. TypeOK
  BY DEF HandleInv
<1>2. LET o == txn[t].owner
      IN o \in Envs /\ ntxn[t] = o /\ ~OnStack(t)
  BY <1>1, Fields DEF HandleInv, TxnInv
<1>3. \A x : OnStack(x)' <=> OnStack(x)
  BY DEF OnStack
<1>4. \A f \in Envs :
        /\ env'[f].alloc = env[f].alloc /\ env'[f].env = env[f].env
        /\ env'[f].pid = env[f].pid /\ env'[f].key = env[f].key
        /\ env'[f].live_txns = IF f = txn[t].owner THEN env[f].live_txns \ {t}
                               ELSE env[f].live_txns
        /\ env'[f].poisoned <=> (env[f].poisoned \/ (panic /\ f = txn[t].owner))
  BY DEF EndsInEnv
<1>5. \A f \in Envs : /\ nenv'[f].pid = nenv[f].pid /\ nenv'[f].key = nenv[f].key
                      /\ panic /\ f = txn[t].owner => nenv'[f].st = "broken"
                      /\ ~(panic /\ f = txn[t].owner) => Aged(f)
  BY DEF EndsInNative, Aged
<1>x. \A x : x # t => (x \in sexp' <=> x \in sexp)
  OBVIOUS
<1>y. \A f \in Envs : f # t
  BY ConstantsAssumption DEF ConstantsAssumption
<1>7. ASSUME NEW f \in Envs PROVE EnvInv(f)'
  <2>1. EnvInv(f)
    BY DEF HandleInv
  <2>2. (f \in sexp' <=> f \in sexp) /\ (f \in abandoned => f \in abandoned')
    BY <1>x, <1>y
  <2>3. /\ env'[f].alloc = env[f].alloc /\ env'[f].env = env[f].env
        /\ env'[f].pid = env[f].pid /\ env'[f].key = env[f].key
        /\ env'[f].poisoned <=> (env[f].poisoned \/ (panic /\ f = txn[t].owner))
    BY <1>4
  <2>4. CASE panic /\ f = txn[t].owner
    <3>1. nenv'[f].st = "broken" /\ nenv'[f].pid = nenv[f].pid /\ nenv'[f].key = nenv[f].key
      BY <1>5, <2>4
    <3>2. env[f].env /\ env'[f].poisoned
      BY <2>3, <2>4
    <3> QED BY <1>3, <2>1, <2>2, <2>3, <3>1, <3>2 DEF EnvInv, Tracked, Callable
  <2>5. CASE ~(panic /\ f = txn[t].owner)
    <3>1. env'[f].poisoned <=> env[f].poisoned
      BY <2>3, <2>5
    <3>2. Aged(f)
      BY <1>5, <2>5
    <3> QED BY <1>3, <2>1, <2>2, <2>3, <3>1, <3>2, EnvKept
  <2> QED BY <2>4, <2>5
<1>8. \A u \in Txns : TxnInv(u)'
  <2>1. TxnInv(t)'
    <3>1. TxnInv(t) /\ ntxn[t] # Null
      BY <1>1, <1>2, Fields DEF HandleInv
    <3> QED BY <1>2, <1>3, <3>1 DEF TxnInv, Tracked
  <2>2. ASSUME NEW u \in Txns \ {t} PROVE TxnInv(u)'
    <3>1. TxnInv(u) /\ (ntxn[u] \in Envs \cup {Null}) /\ txn[u].owner \in Envs \cup {Null}
      BY <1>1, Fields DEF HandleInv
    <3>2. txn'[u] = txn[u] /\ ntxn'[u] = ntxn[u]
      OBVIOUS
    <3>3. (u \in sexp' <=> u \in sexp) /\ (u \in abandoned => u \in abandoned')
      BY <1>x
    <3>4. txn[u].txn /\ u \in sexp => u \in env'[txn[u].owner].live_txns
      <4>1. txn[u].txn => txn[u].owner \in Envs
        BY <3>1 DEF TxnInv
      <4>2. txn[u].txn /\ u \in sexp => u \in env[txn[u].owner].live_txns
        BY <3>1 DEF TxnInv
      <4>3. u # t /\ \A f \in Envs : u \in env[f].live_txns => u \in env'[f].live_txns
        BY <1>4
      <4> QED BY <4>1, <4>2, <4>3
    <3>5. ntxn[u] # Null => Decays(u)
      <4> SUFFICES ASSUME ntxn[u] # Null PROVE Decays(u)
        OBVIOUS
      <4>1. ntxn[u] # txn[t].owner
        BY <1>2 DEF HandleInv, PairInv
      <4>2. Aged(ntxn[u])
        BY <1>5, <3>1, <4>1
      <4> QED BY <4>2 DEF Decays
    <3>6. OnStack(u)' <=> OnStack(u)
      BY <1>3
    <3> QED BY <1>1, <3>1, <3>2, <3>3, <3>4, <3>5, <3>6, TxnKept
  <2> QED BY <2>1, <2>2
<1>9. PairInv'
  <2>1. ASSUME NEW f \in Envs, NEW u \in Txns, u \in env'[f].live_txns
        PROVE txn'[u].txn /\ txn'[u].owner = f /\ u \in sexp'
    <3>1. u \in env[f].live_txns /\ (u = t => f # txn[t].owner)
      BY <1>4, <2>1
    <3>2. txn[u].txn /\ txn[u].owner = f /\ u \in sexp
      BY <3>1 DEF HandleInv, PairInv
    <3>3. u # t
      BY <3>1, <3>2
    <3> QED BY <3>2, <3>3
  <2>3. \A e, f \in Envs :
          env'[e].env /\ env'[f].env /\ env'[e].pid = env'[f].pid
            /\ env'[e].key = env'[f].key => e = f
    <3>1. \A f \in Envs : /\ env'[f].env = env[f].env /\ env'[f].pid = env[f].pid
                           /\ env'[f].key = env[f].key
      BY <1>4
    <3>2. PairInv
      BY DEF HandleInv
    <3> QED BY <3>1, <3>2 DEF PairInv
  <2>4. \A u, v \in Txns : ntxn'[u] # Null /\ ntxn'[u] = ntxn'[v] => u = v
    <3>1. \A u \in Txns : ntxn'[u] # Null => ntxn'[u] = ntxn[u]
      OBVIOUS
    <3>2. \A u, v \in Txns : ntxn[u] # Null /\ ntxn[u] = ntxn[v] => u = v
      BY DEF HandleInv, PairInv
    <3> QED BY <3>1, <3>2
  <2> QED BY <2>1, <2>3, <2>4 DEF PairInv
<1> QED BY <1>7, <1>8, <1>9 DEF HandleInv, StackInv

\* EndStep without and with a panic.
LEMMA EndQuiet ==
  ASSUME HandleInv, TypeOK', NoForeignUse', NEW t \in Txns, txn[t].txn, t \in sexp,
         env' = Unregister(env, t), \A f \in Envs : Aged(f),
         \A u \in Txns \ {t} : txn'[u] = txn[u] /\ ntxn'[u] = ntxn[u],
         ~txn'[t].txn, txn'[t].owner = Null,
         txn'[t].alloc => txn'[t].state # "active",
         txn'[t].alloc <=> t \in sexp',
         sexp' \in {sexp, sexp \ {t}},
         abandoned \subseteq abandoned',
         \/ ntxn'[t] = Null
         \/ /\ ntxn'[t] = ntxn[t]
            /\ t \in abandoned' \/ nenv'[txn[t].owner].st = "fatal"
            /\ nenv'[txn[t].owner].st # "open" \/ nenv'[txn[t].owner].pid # self,
         UNCHANGED <<self, open_envs, stack>>
  PROVE HandleInv'
<1>1. TypeOK /\ txn[t].owner \in Envs /\ FALSE \in BOOLEAN
  BY Fields DEF HandleInv, TxnInv
<1>2. \A f \in Envs : EndsInEnv(t, FALSE, f) /\ EndsInNative(t, FALSE, f)
  BY <1>1, UnregisterQuiet
<1> QED BY <1>1, <1>2, EndStep

\* The same after a panic in the call that was to end it.
LEMMA EndPanicking ==
  ASSUME HandleInv, TypeOK', NoForeignUse', NEW t \in Txns, txn[t].txn, t \in sexp,
         env[txn[t].owner].env,
         env' = Unregister([env EXCEPT ![txn[t].owner].poisoned = TRUE], t),
         nenv' = Panicked(txn[t].owner),
         \A u \in Txns \ {t} : txn'[u] = txn[u] /\ ntxn'[u] = ntxn[u],
         ~txn'[t].txn, txn'[t].owner = Null,
         txn'[t].alloc => txn'[t].state # "active",
         txn'[t].alloc <=> t \in sexp',
         sexp' \in {sexp, sexp \ {t}},
         abandoned \subseteq abandoned',
         ntxn'[t] = ntxn[t], t \in abandoned',
         nenv'[txn[t].owner].st # "open",
         UNCHANGED <<self, open_envs, stack>>
  PROVE HandleInv'
<1>1. TypeOK /\ txn[t].owner \in Envs /\ TRUE \in BOOLEAN
  BY Fields DEF HandleInv, TxnInv
<1>2. \A f \in Envs : EndsInEnv(t, TRUE, f) /\ EndsInNative(t, TRUE, f)
  BY <1>1, UnregisterPanic
<1> QED BY <1>1, <1>2, EndStep

\* A step that changes nothing the invariant speaks of, except that libmdbx may
\* declare an environment broken.
LEMMA IdleStep ==
  ASSUME HandleInv, TypeOK', NoForeignUse', \A f \in Envs : Aged(f),
         UNCHANGED <<self, env, txn, open_envs, abandoned, sexp, stack, ntxn>>
  PROVE HandleInv'
<1>0. TypeOK
  BY DEF HandleInv
<1>1. \A x : OnStack(x)' <=> OnStack(x)
  BY DEF OnStack
<1>2. ASSUME NEW f \in Envs PROVE EnvInv(f)'
  <2>1. EnvInv(f)
    BY DEF HandleInv
  <2> QED BY <1>1, <2>1, EnvKept
<1>3. ASSUME NEW t \in Txns PROVE TxnInv(t)'
  <2>1. TxnInv(t) /\ ntxn[t] \in Envs \cup {Null}
    BY <1>0, Fields DEF HandleInv
  <2>2. ntxn[t] # Null => Decays(t)
    BY <2>1 DEF Decays
  <2>3. txn[t].txn /\ t \in sexp => t \in env'[txn[t].owner].live_txns
    BY <2>1 DEF TxnInv
  <2> QED BY <1>0, <1>1, <2>1, <2>2, <2>3, TxnKept
<1> QED BY <1>2, <1>3 DEF HandleInv, StackInv, PairInv

-----------------------------------------------------------------------------
(* Nothing of another process is used.                                     *)

\* A handle that passes for this process's leads to a native object of this
\* process, or to none.
LEMMA OwnEnv ==
  ASSUME HandleInv, NEW e \in Envs, env[e].env, env[e].pid = self
  PROVE "foreign" \notin EnvMisuse(e)
<1>1. nenv[e].pid = self
  BY DEF HandleInv, EnvInv
<1> QED BY <1>1 DEF EnvMisuse

LEMMA OwnTxn ==
  ASSUME HandleInv, NEW t \in Txns
  PROVE /\ txn[t].txn /\ txn[t].pid = self => "foreign" \notin TxnMisuse(t)
        /\ "foreign" \notin HeapRootsMisuse(t)
<1>1. TypeOK
  BY DEF HandleInv
<1>2. ASSUME txn[t].txn, txn[t].pid = self PROVE "foreign" \notin TxnMisuse(t)
  <2>1. ntxn[t] = txn[t].owner /\ txn[t].owner # Null
    BY <1>2 DEF HandleInv, TxnInv
  <2>2. nenv[txn[t].owner].st = "none" \/ nenv[txn[t].owner].pid = self
    BY <1>2 DEF HandleInv, TxnInv
  <2> QED BY <2>1, <2>2 DEF TxnMisuse, EnvMisuse
<1>3. "foreign" \notin HeapRootsMisuse(t)
  <2>1. txn[t].owner \in Envs \cup {Null}
    BY <1>1, Fields
  <2>2. CASE txn[t].owner \in Envs /\ env[txn[t].owner].env /\ env[txn[t].owner].pid = self
    BY <2>2, OwnEnv DEF HeapRootsMisuse
  <2>3. CASE ~(txn[t].owner \in Envs /\ env[txn[t].owner].env /\ env[txn[t].owner].pid = self)
    BY <2>1, <2>3 DEF HeapRootsMisuse
  <2> QED BY <2>2, <2>3
<1> QED BY <1>2, <1>3

\* The transactions an environment has registered are its own.
LEMMA OwnRegistry ==
  ASSUME HandleInv, NEW e \in Envs, env[e].env, env[e].pid = self,
         NEW t \in env[e].live_txns
  PROVE t \in Txns /\ "foreign" \notin TxnMisuse(t)
<1>1. t \in Txns
  BY Fields DEF HandleInv
<1>2. txn[t].txn /\ txn[t].owner = e
  BY <1>1 DEF HandleInv, PairInv
<1>3. ntxn[t] = e /\ e # Null
  BY <1>1, <1>2 DEF HandleInv, TxnInv
<1>4. "foreign" \notin EnvMisuse(e)
  BY OwnEnv
<1> QED BY <1>1, <1>3, <1>4 DEF TxnMisuse

\* detach_txns() and close_handle() leave what was inherited alone.
LEMMA DetachNotForeign ==
  ASSUME HandleInv, NEW e \in Envs, NEW P, NEW R, DetachAndClose(e, P, R)
  PROVE NoForeignUse'
<1>1. "foreign" \notin misuse
  BY DEF HandleInv, NoForeignUse
<1>2. "foreign" \notin DetachMisuse(e, P)
  <2>1. \A t \in DetachAborts(e) : "foreign" \notin TxnMisuse(t)
    BY OwnRegistry DEF DetachAborts
  <2> QED BY <2>1 DEF DetachMisuse
<1>3. env[e].env /\ env[e].pid = self => \A G : "foreign" \notin CloseMisuse(e, G)
  BY OwnEnv DEF CloseMisuse
<1> QED BY <1>1, <1>2, <1>3 DEF DetachAndClose, NoForeignUse

-----------------------------------------------------------------------------
(* Opening.                                                                *)

\* mdbx_env_open_() up to the external pointer preserves the invariant.
LEMMA OpenStep ==
  ASSUME HandleInv, TypeOK', NEW e \in Envs, NEW k \in Keys, Open(e, k)
  PROVE HandleInv'
<1>1. TypeOK /\ StackInv /\ PairInv
  BY DEF HandleInv
<1>2. /\ ~env[e].alloc /\ nenv[e].st = "none" /\ \A t \in Txns : ntxn[t] # e
  BY DEF Open, FreshEnv
<1>3. EnvInv(e) /\ ~OnStack(e) /\ e \notin sexp /\ ~env[e].env /\ e \notin open_envs
  BY <1>2 DEF HandleInv, EnvInv, Tracked
<1>4. StackInv' /\ \A y : OnStack(y)' <=> (y = e \/ OnStack(y))
  BY <1>1, <1>3, PushStack DEF Open
<1>5. /\ env'[e].alloc /\ env'[e].env /\ ~env'[e].poisoned
      /\ env'[e].pid = self /\ env'[e].key = k /\ env'[e].live_txns = {}
      /\ \A f \in Envs \ {e} : env'[f] = env[f]
  BY <1>1 DEF Open, TypeOK, NoEnv
<1>6. /\ nenv'[e].st = "open" /\ nenv'[e].pid = self /\ nenv'[e].key = k
      /\ \A f \in Envs \ {e} : nenv'[f] = nenv[f]
  BY <1>1 DEF Open, TypeOK
<1>7. UNCHANGED <<self, txn, open_envs, abandoned, sexp, ntxn, misuse>>
  BY DEF Open
<1>8. \A f \in Envs : env[f].env /\ env[f].pid = self => env[f].key # k
  <2> SUFFICES ASSUME NEW f \in Envs, env[f].env, env[f].pid = self PROVE env[f].key # k
    OBVIOUS
  <2>1. nenv[f].st # "none" /\ nenv[f].pid = self /\ nenv[f].key = env[f].key
    BY DEF HandleInv, EnvInv, Callable
  <2> QED BY <2>1 DEF Open, Occupied
<1>9. EnvInv(e)'
  <2>1. self \in Nat
    BY <1>1, Fields
  <2> QED BY <1>3, <1>4, <1>5, <1>6, <1>7, <2>1 DEF EnvInv, Tracked, Callable
<1>10. ASSUME NEW f \in Envs \ {e} PROVE EnvInv(f)'
  <2>1. EnvInv(f)
    BY DEF HandleInv
  <2>2. env'[f] = env[f] /\ nenv'[f] = nenv[f] /\ (OnStack(f)' <=> OnStack(f))
    BY <1>4, <1>5, <1>6
  <2> QED BY <1>7, <2>1, <2>2, EnvKept DEF Aged
<1>11. ASSUME NEW t \in Txns PROVE TxnInv(t)'
  <2>1. TxnInv(t) /\ t # e
    BY ConstantsAssumption DEF HandleInv, ConstantsAssumption
  <2>n. ntxn[t] # Null => ntxn[t] \in Envs \ {e}
    BY <1>1, <1>2, Fields
  <2>2. txn[t].txn => txn[t].owner \in Envs \ {e}
    BY <1>1, <1>2, <2>1, Fields DEF TxnInv
  <2>3. txn[t].txn /\ t \in sexp => t \in env'[txn[t].owner].live_txns
    BY <1>5, <2>1, <2>2 DEF TxnInv
  <2>4. ntxn[t] # Null => Decays(t)
    BY <1>6, <2>n DEF Decays, Aged
  <2>5. OnStack(t)' <=> OnStack(t)
    BY <1>4, <2>1
  <2> QED BY <1>1, <1>7, <2>1, <2>3, <2>4, <2>5, TxnKept
<1>12. PairInv'
  BY <1>1, <1>5, <1>7, <1>8 DEF PairInv
<1>13. NoForeignUse'
  BY <1>7 DEF HandleInv, NoForeignUse
<1>14. TypeOK'
  OBVIOUS
<1> QED BY <1>4, <1>9, <1>10, <1>11, <1>12, <1>13, <1>14 DEF HandleInv

\* So does a panic while opening.
LEMMA OpenPanicsStep ==
  ASSUME HandleInv, TypeOK', NEW e \in Envs, NEW k \in Keys, OpenPanics(e, k)
  PROVE HandleInv'
<1>1. TypeOK
  BY DEF HandleInv
<1>3. UNCHANGED <<self, env, txn, open_envs, sexp, stack, ntxn, misuse>>
  BY DEF OpenPanics, rside
<1>4. \A x : OnStack(x)' <=> OnStack(x)
  BY <1>3 DEF OnStack
<1>5. /\ nenv'[e].pid = self
      /\ \/ nenv'[e].st = "broken" /\ e \in abandoned'
         \/ nenv'[e].st = "halfclosed"
      /\ \A f \in Envs \ {e} : nenv'[f] = nenv[f]
      /\ abandoned \subseteq abandoned'
  BY <1>1 DEF OpenPanics, TypeOK
<1>6. ~env[e].alloc /\ \A t \in Txns : ntxn[t] # e
  BY DEF OpenPanics, FreshEnv
<1>7. EnvInv(e)'
  BY <1>1, Fields, <1>3, <1>4, <1>5, <1>6 DEF HandleInv, EnvInv, Tracked, Callable
<1>8. ASSUME NEW f \in Envs \ {e} PROVE EnvInv(f)'
  BY <1>3, <1>4, <1>5, EnvKept DEF HandleInv, Aged
<1>9. ASSUME NEW t \in Txns PROVE TxnInv(t)'
  <2>1. TxnInv(t)
    BY DEF HandleInv
  <2>2. ntxn[t] # Null => Decays(t)
    BY <1>1, <1>5, <1>6, Fields DEF Decays, Aged
  <2>3. txn[t].txn /\ t \in sexp => t \in env'[txn[t].owner].live_txns
    BY <1>3, <2>1 DEF TxnInv
  <2> QED BY <1>1, <1>3, <1>4, <1>5, <2>1, <2>2, <2>3, TxnKept
<1>10. StackInv' /\ PairInv' /\ NoForeignUse'
  BY <1>3 DEF HandleInv, StackInv, PairInv, NoForeignUse
<1> QED BY <1>7, <1>8, <1>9, <1>10 DEF HandleInv

\* The external pointer of x exists now, or its construction has failed.
LEMMA BuiltStep ==
  ASSUME HandleInv, TypeOK', NEW x, Building(x), stack' = Tail(stack),
         UNCHANGED <<self, txn, abandoned, nenv, ntxn, misuse>>,
         sexp' = sexp \cup {x} \/ (AllocFails /\ sexp' = sexp),
         open_envs' = open_envs \cup {x} \/ ((AllocFails \/ x \in Txns) /\ open_envs' = open_envs),
         \A f \in Envs : /\ env'[f].alloc = env[f].alloc /\ env'[f].env = env[f].env
                         /\ env'[f].poisoned = env[f].poisoned
                         /\ env'[f].pid = env[f].pid /\ env'[f].key = env[f].key
                         /\ env'[f].live_txns = IF x \in Txns /\ x \in sexp' /\ f = txn[x].owner
                              THEN env[f].live_txns \cup {x} ELSE env[f].live_txns
  PROVE HandleInv'
<1>1. TypeOK /\ StackInv /\ PairInv
  BY DEF HandleInv
<1>2. StackInv' /\ OnStack(x) /\ \A y : OnStack(y)' <=> (y # x /\ OnStack(y))
  BY <1>1, PopStack
<1>3. \A y : y # x => (y \in sexp' <=> y \in sexp) /\ (y \in open_envs' <=> y \in open_envs)
  OBVIOUS
<1>4. ASSUME NEW f \in Envs PROVE EnvInv(f)'
  <2>1. EnvInv(f)
    BY DEF HandleInv
  <2>2. CASE f = x
    <3>1. x \notin Txns /\ x \notin sexp /\ env[f].alloc /\ env[f].env
      BY <1>2, <2>1, <2>2, ConstantsAssumption DEF EnvInv, ConstantsAssumption
    <3>2. ~OnStack(f)'
      BY <1>2, <2>2
    <3>3. f \in open_envs' \/ AllocFails
      BY <2>2, <3>1
    <3>4. f \in sexp' \/ AllocFails
      BY <2>2, <3>1
    <3> QED BY <2>1, <3>1, <3>2, <3>3, <3>4 DEF EnvInv, Tracked
  <2>3. CASE f # x
    <3>1. nenv'[f] = nenv[f] /\ (OnStack(f)' <=> OnStack(f))
      BY <1>2, <2>3
    <3> QED BY <1>3, <2>1, <2>3, <3>1, EnvKept DEF Aged
  <2> QED BY <2>2, <2>3
<1>5. ASSUME NEW t \in Txns PROVE TxnInv(t)'
  <2>1. TxnInv(t) /\ txn[t].owner \in Envs \cup {Null}
    BY <1>1, Fields DEF HandleInv
  <2>2. CASE t = x
    <3>1. t \notin sexp /\ txn[t].txn /\ txn[t].owner \in Envs /\ ~OnStack(t)'
      BY <1>2, <2>1, <2>2 DEF TxnInv
    <3>2. t \in sexp' => t \in env'[txn[t].owner].live_txns
      BY <2>2, <3>1
    <3>3. t \in sexp' \/ AllocFails
      BY <2>2, <3>1
    <3> QED BY <2>1, <3>1, <3>2, <3>3 DEF TxnInv, Tracked
  <2>3. CASE t # x
    <3>1. ntxn[t] # Null => Decays(t)
      BY DEF Decays, Aged
    <3>2. OnStack(t)' <=> OnStack(t)
      BY <1>2, <2>3
    <3>3. txn[t].txn /\ t \in sexp => t \in env'[txn[t].owner].live_txns
      BY <2>1 DEF TxnInv
    <3> QED BY <1>1, <1>3, <2>1, <2>3, <3>1, <3>2, <3>3, TxnKept
  <2> QED BY <2>2, <2>3
<1>6. PairInv'
  <2>1. ASSUME NEW f \in Envs, NEW t \in Txns, t \in env'[f].live_txns
        PROVE txn'[t].txn /\ txn'[t].owner = f /\ t \in sexp'
    <3>0. env'[f].live_txns = IF x \in Txns /\ x \in sexp' /\ f = txn[x].owner
                              THEN env[f].live_txns \cup {x} ELSE env[f].live_txns
      OBVIOUS
    <3>1. t \in env[f].live_txns \/ (t = x /\ t \in sexp' /\ f = txn[t].owner)
      BY <2>1, <3>0
    <3>2. t \in env[f].live_txns => txn[t].txn /\ txn[t].owner = f /\ t \in sexp
      BY <1>1 DEF PairInv
    <3>3. t = x => txn[t].txn
      BY <1>2 DEF HandleInv, TxnInv
    <3> QED BY <3>1, <3>2, <3>3
  <2>2. \A f, g \in Envs :
          env'[f].env /\ env'[g].env /\ env'[f].pid = env'[g].pid
            /\ env'[f].key = env'[g].key => f = g
    <3>1. \A f \in Envs : /\ env'[f].env = env[f].env /\ env'[f].pid = env[f].pid
                           /\ env'[f].key = env[f].key
      OBVIOUS
    <3> QED BY <1>1, <3>1 DEF PairInv
  <2>3. \A t, u \in Txns : ntxn'[t] # Null /\ ntxn'[t] = ntxn'[u] => t = u
    BY <1>1 DEF PairInv
  <2> QED BY <2>1, <2>2, <2>3 DEF PairInv
<1>7. NoForeignUse' /\ TypeOK'
  BY DEF HandleInv, NoForeignUse
<1> QED BY <1>2, <1>4, <1>5, <1>6, <1>7 DEF HandleInv

\* The registration of a new environment, of a new transaction, and the
\* failures before either are instances.
LEMMA OpenBuiltStep ==
  ASSUME HandleInv, TypeOK', NEW e \in Envs, OpenDone(e) \/ OpenAllocFails(e)
  PROVE HandleInv'
<1>1. e \notin Txns
  BY ConstantsAssumption DEF ConstantsAssumption
<1>2. /\ Building(e) /\ stack' = Tail(stack)
      /\ UNCHANGED <<self, env, txn, abandoned, nenv, ntxn, misuse>>
  BY DEF OpenDone, OpenAllocFails, handles, native
<1>3. /\ sexp' = sexp \cup {e} \/ (AllocFails /\ sexp' = sexp)
      /\ open_envs' = open_envs \cup {e} \/ (AllocFails /\ open_envs' = open_envs)
  BY DEF OpenDone, OpenAllocFails, handles
<1> QED BY <1>1, <1>2, <1>3, BuiltStep

LEMMA BeginBuiltStep ==
  ASSUME HandleInv, TypeOK', NEW t \in Txns, BeginDone(t) \/ BeginAllocFails(t)
  PROVE HandleInv'
<1>1. TypeOK /\ StackInv
  BY DEF HandleInv
<1>2. /\ Building(t) /\ stack' = Tail(stack)
      /\ UNCHANGED <<self, txn, open_envs, abandoned, nenv, ntxn, misuse>>
  BY DEF BeginDone, BeginAllocFails, handles, native
<1>3. OnStack(t)
  BY <1>1, <1>2, PopStack
<1>4. t \notin sexp /\ txn[t].owner \in Envs
  BY <1>1, <1>3, Fields DEF HandleInv, TxnInv
<1>5. CASE BeginDone(t)
  <2>1. env' = [env EXCEPT ![txn[t].owner].live_txns = @ \cup {t}] /\ sexp' = sexp \cup {t}
    BY <1>5 DEF BeginDone
  <2>2. \A f \in Envs :
          /\ env'[f].alloc = env[f].alloc /\ env'[f].env = env[f].env
          /\ env'[f].poisoned = env[f].poisoned
          /\ env'[f].pid = env[f].pid /\ env'[f].key = env[f].key
          /\ env'[f].live_txns = IF f = txn[t].owner
               THEN env[f].live_txns \cup {t} ELSE env[f].live_txns
    BY <1>1, <1>4, <2>1 DEF TypeOK, EnvHandle
  <2> QED BY <1>2, <2>1, <2>2, BuiltStep
<1>6. CASE BeginAllocFails(t)
  <2>1. AllocFails /\ env' = env /\ sexp' = sexp
    BY <1>6 DEF BeginAllocFails, handles
  <2> QED BY <1>2, <1>4, <2>1, BuiltStep
<1> QED BY <1>5, <1>6

-----------------------------------------------------------------------------
(* Closing, beginning, forking.                                            *)

\* What detach_txns() and close_handle() leave, when the handle afterwards is
\* either closed (mdbx_env_close_()) or freed (finalize_env()).
LEMMA CloseStep ==
  ASSUME HandleInv, TypeOK', NEW e \in Envs, NEW P \in SUBSET DetachAborts(e),
         NEW R \in SUBSET (DetachAborts(e) \ P), DetachOutcome(e, P, R),
         e \in sexp, DetachAndClose(e, P, R),
         \A f \in Envs \ {e} : env'[f] = env[f],
         ~env'[e].env, env'[e].live_txns = {},
         env'[e].alloc <=> e \in sexp',
         sexp' \in {sexp, sexp \ {e}},
         UNCHANGED <<self, stack>>
  PROVE HandleInv'
<1>1. TypeOK /\ PairInv /\ StackInv /\ EnvInv(e)
  BY DEF HandleInv
<1>2. NoForeignUse'
  BY DetachNotForeign
<1>3. \A x : OnStack(x)' <=> OnStack(x)
  BY DEF OnStack
<1>4. \A f \in Envs \ {e} : nenv'[f] = nenv[f]
  BY <1>1 DEF DetachAndClose, TypeOK, Panicked, NativeEnv
<1>o. \A t \in DetachAborts(e) : t \in Txns /\ txn[t].txn /\ ntxn[t] = e /\ env[e].env
  <2>1. \A t \in DetachAborts(e) : t \in env[e].live_txns /\ env[e].env
    BY DEF DetachAborts
  <2>2. env[e].live_txns \subseteq Txns
    BY <1>1, Fields
  <2>3. \A t \in env[e].live_txns : txn[t].txn /\ txn[t].owner = e
    BY <1>1, <2>2 DEF PairInv
  <2> QED BY <2>1, <2>2, <2>3 DEF HandleInv, TxnInv
<1>p. P # {} => R = {} /\ nenv[e].st = "open" /\ env[e].pid = self /\ env[e].env
  <2> SUFFICES ASSUME P # {} PROVE R = {} /\ nenv[e].st = "open" /\ env[e].pid = self /\ env[e].env
    OBVIOUS
  <2>1. PICK t : t \in P
    OBVIOUS
  <2>2. env[e].env /\ ~env[e].poisoned /\ env[e].pid = self
    BY <2>1 DEF DetachAborts
  <2>3. R = {}
    <3>1. \A u \in R : u = t
      BY <1>1, <1>o, <2>1, Fields DEF PairInv
    <3> QED BY <2>1, <3>1
  <2>4. nenv[e].st # "fatal"
    BY <2>1, <2>3 DEF DetachOutcome
  <2> QED BY <1>1, <2>2, <2>3, <2>4 DEF EnvInv, Callable
<1>b. nenv \in [Envs -> NativeEnv] /\ self \in Nat /\ nenv[e].pid <= self /\ 0 <= self
  BY <1>1, Fields DEF TypeOK, EnvInv
\* What becomes of the native environment.
<1>q. \/ /\ env[e].env /\ nenv[e].st \in Callable
         /\ nenv'[e] = NoNative
         /\ ntxn' = NativeWithout((DetachAborts(e) \ P) \cup EndedInName(e))
      \/ /\ env[e].env /\ nenv[e].st \in Callable
         /\ nenv'[e].st = "halfclosed" /\ nenv'[e].pid = nenv[e].pid
         /\ ntxn' = NativeWithout(DetachAborts(e) \ (P \cup R))
      \/ /\ nenv'[e] = nenv[e] /\ nenv' = nenv /\ P = {} /\ R = {}
         /\ nenv[e].st \notin Callable \/ nenv[e].pid # self
         /\ env[e].env => e \in abandoned'
         /\ ntxn' = NativeWithout(DetachAborts(e) \ P)
      \/ /\ P # {} /\ env[e].env /\ e \in abandoned'
         /\ nenv'[e].st = "broken" /\ nenv'[e].pid = nenv[e].pid
         /\ ntxn' = NativeWithout(DetachAborts(e) \ P)
  <2>1. CASE env[e].env /\ env[e].pid = self /\ ~env[e].poisoned /\ P = {}
    <3>1. nenv[e].st \in Callable
      BY <1>1, <2>1 DEF EnvInv
    <3>2. CASE /\ nenv' = [nenv EXCEPT ![e] = NoNative]
               /\ ntxn' = NativeWithout((DetachAborts(e) \ (P \cup R)) \cup R \cup EndedInName(e))
      <4>1. (DetachAborts(e) \ (P \cup R)) \cup R = DetachAborts(e) \ P
        OBVIOUS
      <4>2. nenv'[e] = NoNative
        BY <1>b, <3>2
      <4> QED BY <2>1, <3>1, <3>2, <4>1, <4>2
    <3>3. CASE /\ nenv' = [nenv EXCEPT ![e].st = "halfclosed"]
               /\ ntxn' = NativeWithout(DetachAborts(e) \ (P \cup R))
      <4>1. nenv'[e].st = "halfclosed" /\ nenv'[e].pid = nenv[e].pid
        BY <1>b, <3>3 DEF NativeEnv
      <4> QED BY <2>1, <3>1, <3>3, <4>1
    <3> QED BY <2>1, <3>2, <3>3 DEF DetachAndClose
  <2>2. CASE ~(env[e].env /\ env[e].pid = self /\ ~env[e].poisoned) /\ P = {}
    <3>1. DetachAborts(e) = {}
      BY <2>2 DEF DetachAborts
    <3>2. nenv' = nenv /\ R = {} /\ (env[e].env => e \in abandoned')
      BY <2>2, <3>1 DEF DetachAndClose
    <3>3. nenv[e].st \notin Callable \/ nenv[e].pid # self
      BY <1>1, <2>2 DEF EnvInv, Callable
    <3>4. ntxn' = NativeWithout(DetachAborts(e) \ P)
      <4>1. DetachAborts(e) \ (P \cup R) = DetachAborts(e) \ P
        BY <3>1
      <4> QED BY <2>2, <4>1 DEF DetachAndClose
    <3> QED BY <2>2, <3>2, <3>3, <3>4
  <2>3. CASE P # {}
    <3>1. nenv' = Panicked(e) /\ e \in abandoned' /\ R = {} /\ env[e].env
      BY <1>p, <2>3 DEF DetachAndClose
    <3>2. nenv'[e].st = "broken" /\ nenv'[e].pid = nenv[e].pid
      BY <1>b, <3>1 DEF Panicked, NativeEnv
    <3>3. ntxn' = NativeWithout(DetachAborts(e) \ P)
      <4>1. DetachAborts(e) \ (P \cup R) = DetachAborts(e) \ P
        BY <3>1
      <4> QED BY <2>3, <4>1 DEF DetachAndClose
    <3> QED BY <2>3, <3>1, <3>2, <3>3
  <2> QED BY <2>1, <2>2, <2>3
<1>5. /\ nenv'[e].st \in {"open", "fatal", "broken"} => (env[e].env => e \in abandoned')
      /\ nenv'[e].st \notin Callable \/ nenv'[e].pid # self
      /\ nenv'[e].pid <= self
      /\ ~env[e].env => nenv'[e] = nenv[e]
      /\ nenv'[e].st = "none" \/ nenv'[e].pid = nenv[e].pid
  BY <1>b, <1>q DEF NoNative, Callable
<1>s. abandoned \subseteq abandoned'
  BY DEF DetachAndClose
<1>6. open_envs' = open_envs \ {e}
  <2>1. ~env[e].env => e \notin open_envs
    BY <1>1 DEF EnvInv
  <2> QED BY <2>1 DEF DetachAndClose, Unregistered
<1>7. /\ \A t \in Txns : t \notin env[e].live_txns => txn'[t] = txn[t]
      /\ \A t \in env[e].live_txns :
           /\ txn'[t].alloc = txn[t].alloc /\ ~txn'[t].txn
           /\ txn'[t].owner = Null /\ txn'[t].state = "aborted"
      /\ env[e].live_txns \subseteq Txns
  <2>1. txn \in [Txns -> TxnHandle] /\ env[e].live_txns \subseteq Txns
    BY <1>1, Fields DEF TypeOK
  <2>2. txn' = Detached(e, P)
    BY DEF DetachAndClose
  <2>3. \A t \in Txns : t \notin env[e].live_txns => txn'[t] = txn[t]
    BY <2>2 DEF Detached
  <2>4. ASSUME NEW t \in env[e].live_txns
        PROVE /\ txn'[t].alloc = txn[t].alloc /\ ~txn'[t].txn
              /\ txn'[t].owner = Null /\ txn'[t].state = "aborted"
    <3> DEFINE F == Finished(t, "aborted")
    <3>1. F \in TxnHandle
      BY <2>1, FinishedType
    <3>2. F.alloc = txn[t].alloc /\ ~F.txn /\ F.owner = Null /\ F.state = "aborted"
      BY <2>1 DEF Finished, TxnHandle
    <3>3. txn'[t] = [F EXCEPT !.poisoned = @ \/ t \in P]
      BY <2>1, <2>2 DEF Detached
    <3> HIDE DEF F
    <3> QED BY <3>1, <3>2, <3>3 DEF TxnHandle
  <2> QED BY <2>1, <2>3, <2>4
<1>8. \A t \in Txns : ntxn'[t] \in {Null, ntxn[t]}
  BY <1>q DEF NativeWithout
\* What becomes of the transactions in it that are not in a handle any more.
<1>l. \A t \in env[e].live_txns :
        \/ ntxn'[t] = Null
        \/ t \in abandoned' \/ nenv'[e].st \in {"fatal", "halfclosed"}
  <2>1. \A t \in env[e].live_txns : txn[t].txn
    BY <1>1, <1>7 DEF PairInv
  <2>2. \A t \in env[e].live_txns : t \notin DetachAborts(e) \ P => t \in abandoned'
    BY <2>1 DEF DetachAndClose, DetachGivesUp
  <2>3. \A t \in DetachAborts(e) \ P : ntxn'[t] = Null \/ nenv'[e].st = "halfclosed"
    BY <1>o, <1>q DEF NativeWithout
  <2> QED BY <2>2, <2>3
<1>e. \A t \in Txns : ntxn[t] = e /\ ~txn[t].txn =>
        \/ ntxn'[t] = Null
        \/ t \in abandoned' \/ nenv'[e].st \in {"fatal", "halfclosed"}
  <2> SUFFICES ASSUME NEW t \in Txns, ntxn[t] = e, ~txn[t].txn, ntxn'[t] # Null
               PROVE t \in abandoned' \/ nenv'[e].st \in {"fatal", "halfclosed"}
    OBVIOUS
  <2>1. /\ t \in abandoned \/ nenv[e].st \in {"fatal", "halfclosed"}
        /\ nenv[e].st # "open" \/ nenv[e].pid # self
    BY <1>1, Fields DEF HandleInv, TxnInv
  <2>2. CASE nenv'[e] = nenv[e]
    BY <1>s, <2>1, <2>2
  <2>3. CASE nenv'[e].st = "halfclosed"
    BY <2>3
  <2>4. CASE P # {}
    BY <1>1, <1>p, <2>1, <2>4 DEF EnvInv
  <2>5. CASE /\ nenv[e].st \in Callable
             /\ ntxn' = NativeWithout((DetachAborts(e) \ P) \cup EndedInName(e))
    <3>1. CASE nenv[e].st = "fatal"
      <4>1. t \in EndedInName(e)
        BY <3>1 DEF EndedInName
      <4> QED BY <2>5, <4>1 DEF NativeWithout
    <3>2. CASE nenv[e].st = "open"
      BY <1>s, <2>1, <3>2
    <3> QED BY <2>5, <3>1, <3>2 DEF Callable
  <2> QED BY <1>q, <2>2, <2>3, <2>4, <2>5
<1>10. EnvInv(e)'
  <2>1. ~OnStack(e)' /\ e \notin open_envs'
    BY <1>1, <1>3, <1>6 DEF EnvInv
  <2>2. nenv'[e].st \in {"open", "fatal", "broken"} => e \in abandoned'
    <3>1. ~env[e].env /\ nenv[e].st \in {"open", "fatal", "broken"} => e \in abandoned
      BY <1>1 DEF EnvInv
    <3> QED BY <1>5, <1>s, <3>1
  <2> QED BY <1>5, <2>1, <2>2 DEF EnvInv, Tracked
<1>11. ASSUME NEW f \in Envs \ {e} PROVE EnvInv(f)'
  <2>1. EnvInv(f)
    BY DEF HandleInv
  <2>2. /\ env'[f] = env[f] /\ nenv'[f] = nenv[f]
        /\ (f \in sexp' <=> f \in sexp) /\ (f \in open_envs' <=> f \in open_envs)
        /\ (f \in abandoned => f \in abandoned')
    BY <1>4, <1>6, <1>s
  <2> QED BY <1>3, <2>1, <2>2, EnvKept DEF Aged
<1>12. ASSUME NEW t \in Txns PROVE TxnInv(t)'
  <2>1. TxnInv(t) /\ (t \in sexp' <=> t \in sexp) /\ (t \in abandoned => t \in abandoned')
    BY <1>s, ConstantsAssumption DEF HandleInv, ConstantsAssumption
  <2>2. txn[t].owner \in Envs \cup {Null} /\ ntxn[t] \in Envs \cup {Null}
    BY <1>1, Fields
  <2>3. CASE t \in env[e].live_txns
    <3>1. txn[t].txn /\ txn[t].owner = e /\ ntxn[t] = e /\ t \in sexp /\ ~OnStack(t)
      BY <1>1, <2>1, <2>3 DEF PairInv, TxnInv
    <3>2. \/ ntxn'[t] = Null
          \/ /\ ntxn'[t] = e
             /\ t \in abandoned' \/ nenv'[e].st \in {"fatal", "halfclosed"}
      BY <1>8, <1>l, <2>3, <3>1
    <3>3. txn'[t].alloc /\ ~txn'[t].txn /\ txn'[t].owner = Null /\ txn'[t].state = "aborted"
      BY <1>7, <2>1, <2>3, <3>1 DEF TxnInv
    <3>4. nenv'[e].st # "open" \/ nenv'[e].pid # self'
      BY <1>5 DEF Callable
    <3> QED BY <1>3, <2>1, <3>1, <3>2, <3>3, <3>4 DEF TxnInv, Tracked
  <2>4. CASE t \notin env[e].live_txns
    <3>1. txn'[t] = txn[t]
      BY <1>7, <2>4
    <3>2. txn[t].txn /\ t \in sexp => t \in env'[txn[t].owner].live_txns
      BY <2>1, <2>2, <2>4 DEF TxnInv
    <3>3. CASE ntxn'[t] = ntxn[t]
      <4>1. CASE ntxn[t] = e
        <5>1. txn[t].txn \/ t \in abandoned' \/ nenv'[e].st \in {"fatal", "halfclosed"}
          BY <1>e, <2>2, <3>3, <4>1, Fields, <1>1
        <5>2. \/ nenv'[e] = nenv[e] \/ nenv'[e].st = "none"
              \/ /\ nenv[e].st # "none" /\ nenv'[e].pid = nenv[e].pid
                 /\ nenv'[e].st \notin Callable
          BY <1>q, <1>1 DEF NoNative, Callable, EnvInv
        <5> QED BY <1>1, <1>3, <2>1, <3>1, <3>2, <3>3, <4>1, <5>1, <5>2, TxnKept DEF Decays, Aged
      <4>2. CASE ntxn[t] # e
        <5>1. ntxn[t] # Null => Decays(t)
          BY <1>4, <2>2, <4>2 DEF Decays, Aged
        <5> QED BY <1>1, <1>3, <2>1, <3>1, <3>2, <3>3, <5>1, TxnKept
      <4> QED BY <4>1, <4>2
    <3>4. CASE ntxn'[t] # ntxn[t]
      <4>1. ntxn'[t] = Null
        BY <1>8, <3>4
      <4>2. ~txn[t].txn
        <5>1. t \notin DetachAborts(e)
          BY <2>4 DEF DetachAborts
        <5>2. t \in EndedInName(e)
          BY <1>q, <3>4, <5>1 DEF NativeWithout
        <5> QED BY <5>2 DEF EndedInName
      <4> QED BY <1>3, <2>1, <3>1, <4>1, <4>2 DEF TxnInv, Tracked
    <3> QED BY <3>3, <3>4
  <2> QED BY <2>3, <2>4
<1>13. PairInv'
  <2>1. \A f \in Envs, t \in Txns :
          t \in env'[f].live_txns => txn'[t].txn /\ txn'[t].owner = f /\ t \in sexp'
    <3> SUFFICES ASSUME NEW f \in Envs, NEW t \in Txns, t \in env'[f].live_txns
                 PROVE txn'[t].txn /\ txn'[t].owner = f /\ t \in sexp'
      OBVIOUS
    <3>1. f # e /\ t \in env[f].live_txns /\ t # e
      BY ConstantsAssumption DEF ConstantsAssumption
    <3>2. txn[t].txn /\ txn[t].owner = f /\ t \in sexp
      BY <1>1, <3>1 DEF PairInv
    <3>3. t \notin env[e].live_txns
      BY <1>1, <3>1, <3>2 DEF PairInv
    <3> QED BY <1>7, <3>1, <3>2, <3>3
  <2>3. \A f, g \in Envs :
          env'[f].env /\ env'[g].env /\ env'[f].pid = env'[g].pid
            /\ env'[f].key = env'[g].key => f = g
    BY <1>1 DEF PairInv
  <2>4. \A t, u \in Txns : ntxn'[t] # Null /\ ntxn'[t] = ntxn'[u] => t = u
    BY <1>1, <1>8 DEF PairInv
  <2> QED BY <2>1, <2>3, <2>4 DEF PairInv
<1>14. StackInv'
  BY <1>1 DEF StackInv
<1> QED BY <1>2, <1>10, <1>11, <1>12, <1>13, <1>14 DEF HandleInv

\* mdbx_env_close_() and finalize_env() are instances of CloseStep.
LEMMA CloseHandleStep ==
  ASSUME HandleInv, TypeOK', NEW e \in Envs, Close(e)
  PROVE HandleInv'
<1>1. TypeOK /\ EnvInv(e)
  BY DEF HandleInv
<1>3. DetachAndClose(e, {}, {}) /\ UNCHANGED <<self, stack, sexp>> /\ e \in sexp
  BY DEF Close, rside
<1>2. DetachOutcome(e, {}, {})
  <2>1. nenv[e].st = "fatal" => DetachAborts(e) = {}
    <3>1. env[e].poisoned \/ env[e].live_txns = {}
      BY DEF Close, CloseAllowed
    <3> QED BY <3>1 DEF DetachAborts
  <2> QED BY <2>1 DEF DetachOutcome
<1>4. /\ ~env'[e].env /\ env'[e].live_txns = {} /\ env'[e].alloc = env[e].alloc
      /\ \A f \in Envs \ {e} : env'[f] = env[f]
  <2>1. env \in [Envs -> EnvHandle]
    BY <1>1 DEF TypeOK
  <2>2. env' = [env EXCEPT ![e].env = FALSE, ![e].live_txns = {},
                           ![e].poisoned = @ \/ nenv'[e].st = "halfclosed"]
    BY DEF Close
  <2> QED BY <2>1, <2>2 DEF EnvHandle
<1>5. env[e].alloc
  BY <1>1, <1>3 DEF EnvInv, Tracked
<1> QED BY <1>2, <1>3, <1>4, <1>5, CloseStep

LEMMA FinalizeEnvStep ==
  ASSUME HandleInv, TypeOK', NEW e \in Envs, FinalizeEnv(e)
  PROVE HandleInv'
<1>1. TypeOK
  BY DEF HandleInv
<1>2. PICK P \in SUBSET DetachAborts(e) :
        \E R \in SUBSET (DetachAborts(e) \ P) :
          DetachOutcome(e, P, R) /\ DetachAndClose(e, P, R)
  BY DEF FinalizeEnv
<1>3. /\ e \in sexp /\ sexp' = sexp \ {e} /\ UNCHANGED <<self, stack>>
      /\ env' = [env EXCEPT ![e] = NoEnv]
  BY DEF FinalizeEnv, Finalizable
<1>6. /\ ~env'[e].env /\ env'[e].live_txns = {} /\ ~env'[e].alloc
      /\ \A f \in Envs \ {e} : env'[f] = env[f]
  BY <1>1, <1>3 DEF TypeOK, NoEnv
<1> QED BY <1>2, <1>3, <1>6, CloseStep

\* mdbx_txn_begin_() up to the external pointer preserves the invariant.
LEMMA BeginStep ==
  ASSUME HandleInv, TypeOK', NEW e \in Envs, NEW t \in Txns, Begin(e, t)
  PROVE HandleInv'
<1>1. TypeOK /\ StackInv /\ PairInv
  BY DEF HandleInv
<1>2. /\ env[e].env /\ ~env[e].poisoned /\ env[e].pid = self
      /\ ~txn[t].alloc /\ ntxn[t] = Null
  BY DEF Begin, BeginAllowed, env_from_sexp, FreshTxn
<1>3. TxnInv(t) /\ ~txn[t].txn /\ t \notin sexp /\ ~OnStack(t)
  BY <1>2 DEF HandleInv, TxnInv, Tracked
<1>4. StackInv' /\ \A y : OnStack(y)' <=> (y = t \/ OnStack(y))
  BY <1>1, <1>3, PushStack DEF Begin
<1>5. /\ txn'[t].alloc /\ txn'[t].txn /\ ~txn'[t].poisoned /\ txn'[t].owner = e
      /\ txn'[t].pid = self /\ txn'[t].state = "active"
      /\ \A u \in Txns \ {t} : txn'[u] = txn[u]
  BY <1>1 DEF Begin, TypeOK, NoTxn
<1>6. ntxn'[t] = e /\ \A u \in Txns \ {t} : ntxn'[u] = ntxn[u]
  BY <1>1 DEF Begin, TypeOK
<1>7. UNCHANGED <<self, env, open_envs, abandoned, sexp, nenv>>
  BY DEF Begin
<1>8. ASSUME NEW f \in Envs PROVE EnvInv(f)'
  <2>1. EnvInv(f) /\ f # t
    BY ConstantsAssumption DEF HandleInv, ConstantsAssumption
  <2>2. OnStack(f)' <=> OnStack(f)
    BY <1>4, <2>1
  <2> QED BY <1>7, <2>1, <2>2, EnvKept DEF Aged
<1>9. TxnInv(t)'
  <2>1. nenv[e].pid = self /\ e # Null
    BY <1>1, <1>2, Fields DEF HandleInv, EnvInv
  <2> QED BY <1>3, <1>4, <1>5, <1>6, <1>7, <2>1 DEF TxnInv, Tracked
<1>10. ASSUME NEW u \in Txns \ {t} PROVE TxnInv(u)'
  <2>1. TxnInv(u) /\ txn'[u] = txn[u] /\ ntxn'[u] = ntxn[u]
    BY <1>5, <1>6 DEF HandleInv
  <2>2. OnStack(u)' <=> OnStack(u)
    BY <1>4
  <2>3. txn[u].txn /\ u \in sexp => u \in env'[txn[u].owner].live_txns
    BY <1>7, <2>1 DEF TxnInv
  <2>4. ntxn[u] # Null => Decays(u)
    BY <1>7 DEF Decays, Aged
  <2> QED BY <1>1, <1>7, <2>1, <2>2, <2>3, <2>4, TxnKept
<1>11. PairInv'
  <2>1. \A f \in Envs : t \notin env[f].live_txns
    BY <1>1, <1>3 DEF PairInv
  <2>2. \A u, v \in Txns : ntxn'[u] # Null /\ ntxn'[u] = ntxn'[v] => u = v
    <3>1. \A u \in Txns : ntxn[u] # e
      BY DEF Begin, Busy
    <3> QED BY <1>1, <1>6, <3>1 DEF PairInv
  <2>3. \A f \in Envs, u \in Txns :
          u \in env'[f].live_txns => txn'[u].txn /\ txn'[u].owner = f /\ u \in sexp'
    BY <1>1, <1>5, <1>7, <2>1 DEF PairInv
  <2> QED BY <1>1, <1>7, <2>2, <2>3 DEF PairInv
<1>12. NoForeignUse'
  <2>1. "foreign" \notin EnvMisuse(e)
    BY <1>2, OwnEnv
  <2> QED BY <2>1 DEF Begin, HandleInv, NoForeignUse
<1> QED BY <1>4, <1>8, <1>9, <1>10, <1>11, <1>12 DEF HandleInv

\* So does fork(): every native environment is now another process's.
LEMMA ForkStep ==
  ASSUME HandleInv, TypeOK', Fork
  PROVE HandleInv'
<1>1. TypeOK
  BY DEF HandleInv
<1>2. UNCHANGED <<env, txn, open_envs, abandoned, sexp, stack, nenv, ntxn, misuse>>
  BY DEF Fork, handles, rside, native
<1>3. \A x : OnStack(x)' <=> OnStack(x)
  BY <1>2 DEF OnStack
<1>4. self' = self + 1 /\ self \in Nat /\ \A f \in Envs : nenv[f].pid \in Nat
  BY <1>1, Fields, ConstantsAssumption DEF Fork, ConstantsAssumption
<1>5. \A f \in Envs : nenv[f].pid <= self' /\ nenv[f].pid # self'
  BY <1>4 DEF HandleInv, EnvInv
<1>6. ASSUME NEW f \in Envs PROVE EnvInv(f)'
  <2>1. EnvInv(f)
    BY DEF HandleInv
  <2> QED BY <1>2, <1>3, <1>5, <2>1 DEF EnvInv, Tracked
<1>7. ASSUME NEW t \in Txns PROVE TxnInv(t)'
  <2>1. TxnInv(t) /\ ntxn[t] \in Envs \cup {Null}
    BY <1>1, Fields DEF HandleInv
  <2> QED BY <1>2, <1>3, <1>5, <2>1 DEF TxnInv, Tracked
<1>8. StackInv' /\ PairInv' /\ NoForeignUse'
  BY <1>2 DEF HandleInv, StackInv, PairInv, NoForeignUse
<1> QED BY <1>6, <1>7, <1>8 DEF HandleInv

-----------------------------------------------------------------------------
(* Calls on environments and transactions.                                 *)

\* A guarded call on an environment, and a begin that fails or panics.
LEMMA EnvCallStep ==
  ASSUME HandleInv, TypeOK', NEW e \in Envs, EnvCall(e) \/ BeginFails(e)
  PROVE HandleInv'
<1>1. env[e].env /\ env[e].pid = self /\ TypeOK
  BY DEF EnvCall, BeginFails, BeginAllowed, env_from_sexp, HandleInv
<1>2. NoForeignUse'
  <2>1. "foreign" \notin EnvMisuse(e) /\ "foreign" \notin misuse
    BY <1>1, OwnEnv DEF HandleInv, NoForeignUse
  <2>2. CASE EnvCall(e)
    <3>1. PICK T \in current_txn(e) :
            misuse' = misuse \cup EnvMisuse(e)
                        \cup {m \in Misuses : \E t \in T : m \in TxnMisuse(t)}
      BY <2>2 DEF EnvCall
    <3>2. \A t \in T : "foreign" \notin TxnMisuse(t)
      BY <1>1, OwnRegistry DEF current_txn
    <3> QED BY <2>1, <3>1, <3>2 DEF NoForeignUse
  <2>3. CASE BeginFails(e)
    BY <2>1, <2>3 DEF BeginFails, NoForeignUse
  <2> QED BY <2>2, <2>3
<1>3. UNCHANGED <<self, txn, open_envs, abandoned, sexp, stack, ntxn>> /\ GuardedOnEnv(e)
  BY DEF EnvCall, BeginFails, rside
<1>4. CASE Returned(e) /\ UNCHANGED env
  <2>1. \A f \in Envs : Aged(f)
    BY <1>1, <1>4, ReturnedAges
  <2> QED BY <1>2, <1>3, <1>4, <2>1, IdleStep
<1>5. CASE /\ nenv[e].st # "fatal"
           /\ env' = [env EXCEPT ![e].poisoned = TRUE] /\ nenv' = Panicked(e)
  <2>1. {} \in SUBSET Txns /\ \A t \in {} : txn[t].txn /\ txn[t].owner = e
    OBVIOUS
  <2>2. \A t \in Txns : txn'[t] = IF t \in {} THEN [txn[t] EXCEPT !.poisoned = TRUE]
                                   ELSE txn[t]
    BY <1>3
  <2>3. \A u \in Txns : ntxn[u] = e /\ ~txn[u].txn => nenv[e].st # "fatal"
    BY <1>5
  <2> QED BY <1>1, <1>2, <1>3, <1>5, <2>1, <2>2, <2>3, PanicStep
<1> QED BY <1>3, <1>4, <1>5 DEF GuardedOnEnv

\* What txn_from_sexp() lets through.
LEMMA Authentic ==
  ASSUME HandleInv, NEW t \in Txns, txn_from_sexp(t)
  PROVE /\ t \in sexp /\ txn[t].alloc /\ txn[t].txn /\ txn[t].pid = self
        /\ txn[t].owner \in Envs /\ txn[t].owner # Null
        /\ ntxn[t] = txn[t].owner
        /\ env[txn[t].owner].env
        /\ \A u \in Txns : ntxn[u] = txn[t].owner /\ ~txn[u].txn =>
             nenv[txn[t].owner].st # "fatal"
<1>1. /\ t \in sexp /\ txn[t].alloc /\ txn[t].txn /\ txn[t].pid = self
      /\ txn[t].owner \in Envs /\ txn[t].owner # Null
      /\ ntxn[t] = txn[t].owner
      /\ env[txn[t].owner].env
  BY Fields DEF HandleInv, TxnInv, Tracked, txn_from_sexp
<1>2. \A u \in Txns : ntxn[u] = txn[t].owner => u = t
  BY <1>1 DEF HandleInv, PairInv
<1> QED BY <1>1, <1>2

\* What a commit or an abort that returns leaves in libmdbx.
LEMMA EndedNatively ==
  ASSUME HandleInv, NEW t \in Txns, txn[t].txn, EndNatively(t)
  PROVE /\ \A f \in Envs : Aged(f)
        /\ \A u \in Txns \ {t} : ntxn'[u] = ntxn[u]
        /\ \/ ntxn'[t] = Null
           \/ ntxn'[t] = ntxn[t] /\ nenv'[txn[t].owner].st = "fatal"
<1>1. TypeOK /\ ntxn \in [Txns -> Envs \cup {Null}]
  BY DEF HandleInv, TypeOK
<1>2. \A f \in Envs : Aged(f)
  BY <1>1, ReturnedUnderAges DEF EndNatively
<1>3. txn[t].owner \in Envs /\ ntxn[t] = txn[t].owner
  BY <1>1, Fields DEF HandleInv, TxnInv
<1>4. CASE Refused(t)
  <2>1. nenv'[txn[t].owner].st = "fatal"
    BY <1>2, <1>3, <1>4 DEF Refused, Aged
  <2> QED BY <1>2, <1>4, <2>1 DEF EndNatively
<1>5. CASE ~Refused(t)
  BY <1>1, <1>2, <1>5 DEF EndNatively
<1> QED BY <1>4, <1>5

\* A commit or an abort that returns preserves the invariant, whether libmdbx has
\* ended the transaction or refused to.
LEMMA EndTxnStep ==
  ASSUME HandleInv, TypeOK', NEW t \in Txns, NEW s \in {"committed", "aborted"},
         txn_from_sexp(t), EndTxn(t, s),
         UNCHANGED <<self, open_envs, abandoned, sexp, stack>>
  PROVE HandleInv'
<1>1. TypeOK /\ "foreign" \notin misuse
  BY DEF HandleInv, NoForeignUse
<1>2. t \in sexp /\ txn[t].alloc /\ txn[t].txn /\ txn[t].pid = self
  BY Authentic
<1>3. NoForeignUse'
  BY <1>1, <1>2, OwnTxn DEF EndTxn, NoForeignUse
<1>5. env' = Unregister(env, t) /\ EndNatively(t)
  BY DEF EndTxn
<1>6. /\ txn'[t].alloc = txn[t].alloc /\ ~txn'[t].txn /\ txn'[t].owner = Null
      /\ txn'[t].state = s
      /\ \A u \in Txns \ {t} : txn'[u] = txn[u]
  <2>1. txn \in [Txns -> TxnHandle]
    BY <1>1 DEF TypeOK
  <2> QED BY <2>1 DEF EndTxn, Finished, TxnHandle
<1>7. /\ \A f \in Envs : Aged(f)
      /\ \A u \in Txns \ {t} : ntxn'[u] = ntxn[u]
      /\ \/ ntxn'[t] = Null
         \/ ntxn'[t] = ntxn[t] /\ nenv'[txn[t].owner].st = "fatal"
  BY <1>1, <1>2, <1>5, EndedNatively
<1> QED BY <1>1, <1>2, <1>3, <1>5, <1>6, <1>7, EndQuiet

\* So does a panic in a call on a transaction.
LEMMA TxnPanicsStep ==
  ASSUME HandleInv, TypeOK', NEW t \in Txns, txn_from_sexp(t), TxnPanics(t),
         UNCHANGED <<self, open_envs, abandoned, sexp, stack>>
  PROVE HandleInv'
<1>1. TypeOK /\ "foreign" \notin misuse
  BY DEF HandleInv, NoForeignUse
<1>2. /\ txn[t].txn /\ txn[t].pid = self /\ txn[t].owner \in Envs /\ txn[t].owner # Null
      /\ ntxn[t] = txn[t].owner /\ env[txn[t].owner].env
      /\ \A u \in Txns : ntxn[u] = txn[t].owner /\ ~txn[u].txn =>
           nenv[txn[t].owner].st # "fatal"
  BY Authentic
<1>3. NoForeignUse'
  BY <1>1, <1>2, OwnTxn DEF TxnPanics, NoForeignUse
<1>5. /\ env' = [env EXCEPT ![txn[t].owner].poisoned = TRUE]
      /\ nenv' = Panicked(txn[t].owner)
      /\ ntxn' = ntxn
  BY <1>2 DEF TxnPanics, PoisonTxn, PanickedUnder
<1>6. \A u \in Txns : txn'[u] = IF u \in {t} THEN [txn[u] EXCEPT !.poisoned = TRUE] ELSE txn[u]
  BY <1>1 DEF TxnPanics, PoisonTxn, TypeOK
<1>7. {t} \in SUBSET Txns /\ \A u \in {t} : txn[u].txn /\ txn[u].owner = txn[t].owner
  BY <1>2
<1> QED BY <1>2, <1>3, <1>5, <1>6, <1>7, PanicStep

\* So does one in mdbx_txn_stat() or mdbx_txn_info(), which marks the owner
\* alone.
LEMMA OwnerPanicsStep ==
  ASSUME HandleInv, TypeOK', NEW t \in Txns, txn_from_sexp(t), OwnerPanics(t),
         UNCHANGED <<self, open_envs, abandoned, sexp, stack>>
  PROVE HandleInv'
<1>1. TypeOK /\ "foreign" \notin misuse
  BY DEF HandleInv, NoForeignUse
<1>2. /\ txn[t].txn /\ txn[t].pid = self /\ txn[t].owner \in Envs /\ txn[t].owner # Null
      /\ ntxn[t] = txn[t].owner /\ env[txn[t].owner].env
      /\ \A u \in Txns : ntxn[u] = txn[t].owner /\ ~txn[u].txn =>
           nenv[txn[t].owner].st # "fatal"
  BY Authentic
<1>3. NoForeignUse'
  BY <1>1, <1>2, OwnTxn DEF OwnerPanics, NoForeignUse
<1>5. /\ env' = [env EXCEPT ![txn[t].owner].poisoned = TRUE]
      /\ nenv' = Panicked(txn[t].owner)
      /\ ntxn' = ntxn
  BY <1>2 DEF OwnerPanics, PanickedUnder
<1>6. \A u \in Txns : txn'[u] = IF u \in {} THEN [txn[u] EXCEPT !.poisoned = TRUE] ELSE txn[u]
  BY DEF OwnerPanics
<1>7. {} \in SUBSET Txns /\ \A u \in {} : txn[u].txn /\ txn[u].owner = txn[t].owner
  OBVIOUS
<1> QED BY <1>2, <1>3, <1>5, <1>6, <1>7, PanicStep

\* So does finish_txn(), whatever libmdbx answers.
LEMMA FinishTxnStep ==
  ASSUME HandleInv, TypeOK', NEW t \in Txns, NEW c \in BOOLEAN, txn_from_sexp(t),
         FinishTxn(t, c), UNCHANGED <<self, open_envs, abandoned, sexp, stack>>
  PROVE HandleInv'
<1>1. CASE EndTxn(t, "committed") \/ EndTxn(t, "aborted")
  BY <1>1, EndTxnStep
<1>2. CASE TxnPanics(t)
  BY <1>2, TxnPanicsStep
<1>3. CASE misuse' = misuse \cup TxnMisuse(t) /\ UNCHANGED <<env, txn, nenv, ntxn, prot>>
  <2>1. NoForeignUse'
    BY <1>3, Authentic, OwnTxn DEF HandleInv, NoForeignUse
  <2>2. \A f \in Envs : Aged(f)
    BY <1>3, ReturnedAges DEF HandleInv
  <2> QED BY <1>3, <2>1, <2>2, IdleStep
<1> QED BY <1>1, <1>2, <1>3 DEF FinishTxn

\* A transaction whose owner is closed or has panicked, that has panicked
\* itself, or that another process began, is in an environment this process
\* does not use.
LEMMA GivenUp ==
  ASSUME HandleInv, NEW t \in Txns, txn[t].txn,
         \/ txn[t].poisoned \/ txn[t].pid # self
         \/ ~env[txn[t].owner].env \/ env[txn[t].owner].poisoned
  PROVE nenv[txn[t].owner].st # "open" \/ nenv[txn[t].owner].pid # self
<1>1. TxnInv(t) /\ EnvInv(txn[t].owner)
  BY Fields DEF HandleInv, TxnInv
<1> QED BY <1>1 DEF TxnInv, EnvInv, Callable

\* mdbx_txn_abort_() preserves the invariant, with or without libmdbx.
LEMMA AbortStep ==
  ASSUME HandleInv, TypeOK', NEW t \in Txns, Abort(t)
  PROVE HandleInv'
<1>1. TypeOK /\ "foreign" \notin misuse
  BY DEF HandleInv, NoForeignUse
<1>2. UNCHANGED <<self, open_envs, sexp, stack>> /\ t \in sexp /\ txn[t].txn
  BY DEF Abort
<1>3. CASE ~AbortHere(t)
  BY <1>2, <1>3, FinishTxnStep DEF Abort
<1>4. CASE AbortHere(t)
  <2>1. txn[t].owner # Null /\ ntxn[t] = txn[t].owner /\ txn[t].alloc
    BY <1>2 DEF HandleInv, TxnInv
  <2>2. nenv[txn[t].owner].st # "open" \/ nenv[txn[t].owner].pid # self
    BY <1>2, <1>4, <2>1, GivenUp DEF AbortHere
  <2>3. NoForeignUse'
    BY <1>1, <1>4, OwnTxn DEF Abort, NoForeignUse
  <2>4. env' = Unregister(env, t)
    BY <1>4 DEF Abort
  <2>5. /\ txn'[t].alloc = txn[t].alloc /\ ~txn'[t].txn /\ txn'[t].owner = Null
        /\ txn'[t].state = "aborted"
        /\ \A u \in Txns \ {t} : txn'[u] = txn[u]
    <3>1. txn \in [Txns -> TxnHandle] /\ txn' = [txn EXCEPT ![t] = Finished(t, "aborted")]
      BY <1>1, <1>4 DEF Abort, TypeOK
    <3> QED BY <3>1 DEF Finished, TxnHandle
  <2>6. nenv' = nenv /\ ntxn' = ntxn /\ abandoned' = abandoned \cup {t}
    BY <1>4 DEF Abort
  <2>7. \A f \in Envs : Aged(f)
    BY <1>1, <2>6, ReturnedAges
  <2> QED BY <1>2, <2>1, <2>2, <2>3, <2>4, <2>5, <2>6, <2>7, EndQuiet
<1> QED BY <1>3, <1>4

\* So does finalize_txn(), with or without libmdbx.
LEMMA FinalizeTxnStep ==
  ASSUME HandleInv, TypeOK', NEW t \in Txns, FinalizeTxn(t)
  PROVE HandleInv'
<1>1. TypeOK /\ "foreign" \notin misuse /\ StackInv /\ PairInv /\ TxnInv(t)
  BY DEF HandleInv, NoForeignUse
<1>2. UNCHANGED <<self, open_envs, stack>> /\ t \in sexp /\ sexp' = sexp \ {t}
  BY DEF FinalizeTxn, Finalizable
<1>3. /\ ~txn'[t].alloc /\ ~txn'[t].txn /\ txn'[t].owner = Null /\ t \notin sexp'
      /\ \A u \in Txns \ {t} : txn'[u] = txn[u]
  BY <1>1, <1>2 DEF FinalizeTxn, TypeOK, NoTxn
<1>n. NoForeignUse'
  <2>1. FinalizerAborts(t) => "foreign" \notin TxnMisuse(t)
    BY OwnTxn DEF FinalizerAborts
  <2>2. "foreign" \notin HeapRootsMisuse(t)
    BY OwnTxn
  <2> QED BY <1>1, <2>1, <2>2 DEF FinalizeTxn, NoForeignUse
<1>4. CASE txn[t].txn
  <2>1. txn[t].owner \in Envs /\ ntxn[t] = txn[t].owner /\ ntxn[t] # Null
    BY <1>1, <1>4, Fields DEF TxnInv
  <2>e. env \in [Envs -> EnvHandle] /\ ntxn \in [Txns -> Envs \cup {Null}]
        /\ nenv \in [Envs -> NativeEnv]
    BY <1>1 DEF TypeOK
  <2>2. CASE EndNatively(t) /\ env' = Unregister(env, t) /\ UNCHANGED abandoned
    <3>1. /\ \A f \in Envs : Aged(f)
          /\ \A u \in Txns \ {t} : ntxn'[u] = ntxn[u]
          /\ \/ ntxn'[t] = Null
             \/ ntxn'[t] = ntxn[t] /\ nenv'[txn[t].owner].st = "fatal"
      BY <1>4, <2>2, EndedNatively
    <3> QED BY <1>2, <1>3, <1>4, <1>n, <2>2, <3>1, EndQuiet
  <2>3. CASE /\ FinalizerAborts(t)
             /\ env' = Unregister([env EXCEPT ![txn[t].owner].poisoned = TRUE], t)
             /\ nenv' = PanickedUnder(t)
             /\ abandoned' = abandoned \cup {t}
             /\ UNCHANGED ntxn
    <3>1. nenv' = Panicked(txn[t].owner) /\ nenv'[txn[t].owner].st = "broken"
      BY <2>1, <2>e, <2>3 DEF PanickedUnder, Panicked, NativeEnv
    <3>2. env[txn[t].owner].env
      BY <2>3 DEF FinalizerAborts
    <3> QED BY <1>2, <1>3, <1>4, <1>n, <2>3, <3>1, <3>2, EndPanicking
  <2>4. CASE ~FinalizerAborts(t)
    <3>1. nenv[txn[t].owner].st # "open" \/ nenv[txn[t].owner].pid # self
      BY <1>1, <1>4, <2>1, <2>4, GivenUp DEF FinalizerAborts
    <3>2. /\ env' = Unregister(env, t) /\ abandoned' = abandoned \cup {t}
          /\ nenv' = nenv /\ ntxn' = ntxn
      BY <1>4, <2>4 DEF FinalizeTxn
    <3>3. \A f \in Envs : Aged(f)
      BY <1>1, <3>2, ReturnedAges
    <3> QED BY <1>2, <1>3, <1>4, <1>n, <3>1, <3>2, <3>3, EndQuiet
  <2> QED BY <2>2, <2>3, <2>4 DEF FinalizeTxn
<1>5. CASE ~txn[t].txn
  <2>1. txn[t].owner = Null /\ ~FinalizerAborts(t)
    BY <1>1, <1>5 DEF TxnInv, FinalizerAborts
  <2>2. UNCHANGED <<env, nenv, ntxn, abandoned>>
    BY <1>5, <2>1 DEF FinalizeTxn, Unregister
  <2>3. \A x : OnStack(x)' <=> OnStack(x)
    BY <1>2 DEF OnStack
  <2>4. ASSUME NEW f \in Envs PROVE EnvInv(f)'
    <3>1. EnvInv(f) /\ f # t
      BY ConstantsAssumption DEF HandleInv, ConstantsAssumption
    <3> QED BY <1>2, <2>2, <2>3, <3>1, EnvKept DEF Aged
  <2>5. ASSUME NEW u \in Txns PROVE TxnInv(u)'
    <3>1. TxnInv(u)
      BY DEF HandleInv
    <3>2. CASE u = t
      <4>1. ~OnStack(t)'
        BY <1>1, <1>2, <2>3 DEF TxnInv
      <4> QED BY <1>2, <1>3, <1>5, <2>2, <3>1, <3>2, <4>1 DEF TxnInv, Tracked
    <3>3. CASE u # t
      <4>1. txn[u].txn /\ u \in sexp => u \in env'[txn[u].owner].live_txns
        BY <2>2, <3>1 DEF TxnInv
      <4>2. ntxn[u] # Null => Decays(u)
        BY <2>2 DEF Decays, Aged
      <4> QED BY <1>1, <1>2, <1>3, <2>2, <2>3, <3>1, <3>3, <4>1, <4>2, TxnKept
    <3> QED BY <3>2, <3>3
  <2>6. PairInv' /\ StackInv'
    <3>1. \A f \in Envs : t \notin env[f].live_txns
      BY <1>1, <1>5 DEF PairInv
    <3> QED BY <1>1, <1>2, <1>3, <2>2, <3>1 DEF PairInv, StackInv
  <2> QED BY <1>n, <2>4, <2>5, <2>6 DEF HandleInv
<1> QED BY <1>4, <1>5

\* A guarded call on a transaction, and the unguarded read of its flags by
\* mdbx_txn_state_().
LEMMA TxnCallStep ==
  ASSUME HandleInv, TypeOK', NEW t \in Txns, TxnCall(t) \/ QueryState(t)
  PROVE HandleInv'
<1>1. CASE TxnCall(t)
  <2>1. txn_from_sexp(t) /\ UNCHANGED <<self, open_envs, abandoned, sexp, stack>>
    BY <1>1 DEF TxnCall
  <2>2. CASE TxnPanics(t)
    BY <2>1, <2>2, TxnPanicsStep
  <2>3. CASE /\ misuse' = misuse \cup TxnMisuse(t) /\ ReturnedUnder(t)
             /\ UNCHANGED <<env, txn, ntxn, prot>>
    <3>1. NoForeignUse'
      BY <2>1, <2>3, Authentic, OwnTxn DEF HandleInv, NoForeignUse
    <3>2. \A f \in Envs : Aged(f)
      BY <2>3, ReturnedUnderAges DEF HandleInv
    <3> QED BY <2>1, <2>3, <3>1, <3>2, IdleStep
  <2>4. CASE OwnerPanics(t)
    BY <2>1, <2>4, OwnerPanicsStep
  <2> QED BY <1>1, <2>2, <2>3, <2>4 DEF TxnCall
<1>2. CASE QueryState(t)
  <2>1. txn[t].txn /\ txn[t].pid = self
    BY <1>2 DEF QueryState, txn_state
  <2>2. NoForeignUse'
    BY <1>2, <2>1, OwnTxn DEF QueryState, HandleInv, NoForeignUse
  <2>5. UNCHANGED <<self, env, txn, open_envs, abandoned, sexp, stack, nenv, ntxn>>
    BY <1>2 DEF QueryState, handles, rside
  <2>6. \A f \in Envs : Aged(f)
    BY <2>5, ReturnedAges DEF HandleInv
  <2> QED BY <2>2, <2>5, <2>6, IdleStep
<1> QED BY <1>1, <1>2

-----------------------------------------------------------------------------
(* The invariant is inductive.                                             *)

\* Nothing exists at the start of the session.
LEMMA InitHandleInv == Init => HandleInv
<1> SUFFICES ASSUME Init PROVE HandleInv
  OBVIOUS
<1>1. TypeOK
  BY TypeInit
<1>2. (\A x : ~OnStack(x)) /\ StackInv
  BY DEF Init, OnStack, StackInv
<1>3. ASSUME NEW e \in Envs PROVE EnvInv(e)
  <2>1. env[e] = NoEnv /\ nenv[e] = NoNative /\ e \notin sexp /\ e \notin open_envs
    BY DEF Init
  <2>2. self \in Nat /\ self = 0
    BY DEF Init
  <2> QED BY <1>2, <2>1, <2>2 DEF EnvInv, NoEnv, NoNative, Tracked, Callable
<1>4. ASSUME NEW t \in Txns PROVE TxnInv(t)
  <2>1. txn[t] = NoTxn /\ ntxn[t] = Null /\ t \notin sexp
    BY DEF Init
  <2> QED BY <1>2, <2>1 DEF TxnInv, NoTxn, Tracked
<1>5. PairInv /\ NoForeignUse
  <2>1. \A e \in Envs : env[e] = NoEnv
    BY DEF Init
  <2>2. \A t \in Txns : ntxn[t] = Null
    BY DEF Init
  <2>3. NoForeignUse
    BY DEF Init, NoForeignUse
  <2> QED BY <2>1, <2>2, <2>3 DEF PairInv, NoEnv
<1> QED BY <1>1, <1>2, <1>3, <1>4, <1>5 DEF HandleInv

\* Every step preserves the invariant.
LEMMA NextHandleInv ==
  ASSUME HandleInv, [Next]_vars
  PROVE HandleInv'
<1>1. TypeOK'
  BY TypeStep DEF HandleInv
<1>2. ASSUME NEW e \in Envs, EnvStep(e) PROVE HandleInv'
  <2>1. CASE \E k \in Keys : Open(e, k) \/ OpenPanics(e, k)
    BY <1>1, <2>1, OpenStep, OpenPanicsStep
  <2>2. CASE OpenDone(e) \/ OpenAllocFails(e)
    BY <1>1, <2>2, OpenBuiltStep
  <2>3. CASE EnvCall(e) \/ BeginFails(e)
    BY <1>1, <2>3, EnvCallStep
  <2>4. CASE Close(e)
    BY <1>1, <2>4, CloseHandleStep
  <2>5. CASE FinalizeEnv(e)
    BY <1>1, <2>5, FinalizeEnvStep
  <2> QED BY <1>2, <2>1, <2>2, <2>3, <2>4, <2>5 DEF EnvStep
<1>3. ASSUME NEW t \in Txns, TxnStep(t) PROVE HandleInv'
  <2>1. CASE \E e \in Envs : Begin(e, t)
    BY <1>1, <2>1, BeginStep
  <2>2. CASE BeginDone(t) \/ BeginAllocFails(t)
    BY <1>1, <2>2, BeginBuiltStep
  <2>3. CASE TxnCall(t) \/ QueryState(t)
    BY <1>1, <2>3, TxnCallStep
  <2>4. CASE Commit(t)
    <3>1. /\ txn_from_sexp(t) /\ FinishTxn(t, TRUE)
          /\ UNCHANGED <<self, open_envs, abandoned, sexp, stack>>
      BY <2>4 DEF Commit
    <3> QED BY <1>1, <3>1, FinishTxnStep
  <2>5. CASE Abort(t)
    BY <1>1, <2>5, AbortStep
  <2>6. CASE FinalizeTxn(t)
    BY <1>1, <2>6, FinalizeTxnStep
  <2> QED BY <1>3, <2>1, <2>2, <2>3, <2>4, <2>5, <2>6 DEF TxnStep
<1>4. CASE Fork
  BY <1>1, <1>4, ForkStep
<1>5. CASE (\E x \in held : Drop(x)) \/ Exit \/ UNCHANGED vars
  <2>1. UNCHANGED <<self, env, txn, open_envs, abandoned, sexp, stack, nenv, ntxn, misuse>>
    BY <1>5 DEF Drop, Exit, vars, handles, rside, native
  <2>2. NoForeignUse'
    BY <2>1 DEF HandleInv, NoForeignUse
  <2>3. \A f \in Envs : Aged(f)
    BY <2>1, ReturnedAges DEF HandleInv
  <2> QED BY <1>1, <2>1, <2>2, <2>3, IdleStep
<1> QED BY <1>2, <1>3, <1>4, <1>5 DEF Next, Session

\* HandleInv holds throughout every session, whatever allocation fails and
\* whatever a finalizer written in R does meanwhile.
THEOREM AlwaysHandleInv == Spec => []HandleInv
<1>1. Init => HandleInv
  BY InitHandleInv
<1>2. HandleInv /\ [Next]_vars => HandleInv'
  BY NextHandleInv
<1> QED BY <1>1, <1>2, PTL DEF Spec

\* What was inherited across a fork is left to the parent (env_from_sexp(),
\* txn_from_sexp(), close_handle(), detach_txns(), finalize_txn()), for any
\* number of forks and in every session.
THEOREM InheritedUntouched == Spec => []NoForeignUse
<1>1. HandleInv => NoForeignUse
  BY DEF HandleInv
<1> QED BY <1>1, AlwaysHandleInv, PTL

\* No native object that was not ended is lost (abandon(), abandon_env()) except
\* by a panic inside mdbx_env_close() and by finish_txn() in an environment that
\* libmdbx has declared broken, in every session.
THEOREM HandlesAccounted == Spec => []OnlyBrokenLose
<1>1. HandleInv => OnlyBrokenLose
  BY DEF HandleInv, EnvInv, TxnInv, OnlyBrokenLose
<1> QED BY <1>1, AlwaysHandleInv, PTL

\* live_txns holds only transactions libmdbx considers live, and all of them
\* unless libmdbx has declared the environment broken (mark_finished(),
\* unregister_txn(), new_txn_sexp()), re-entered or not, as long as R does not
\* run out of memory inside a call.
THEOREM RegistryCorrect ==
  ASSUME ~AllocFails
  PROVE Spec => []RegistryExact
<1>1. HandleInv => RegistryExact
  <2> SUFFICES ASSUME HandleInv, NEW e \in Envs, env_from_sexp(e), NEW t \in Txns
               PROVE /\ t \in env[e].live_txns => ntxn[t] = e /\ ~OnStack(t)
                     /\ nenv[e].st = "open" /\ ntxn[t] = e /\ ~OnStack(t) =>
                          t \in env[e].live_txns
    BY Fields DEF RegistryExact, HandleInv
  <2>1. env[e].live_txns \subseteq Txns /\ Null # e
    BY Fields DEF HandleInv
  <2>2. nenv[e].pid = self
    BY DEF HandleInv, EnvInv, env_from_sexp
  <2>3. TxnInv(t)
    BY DEF HandleInv
  <2>4. t \in env[e].live_txns => txn[t].txn /\ txn[t].owner = e /\ t \in sexp
    BY DEF HandleInv, PairInv
  <2>5. nenv[e].st = "open" /\ ntxn[t] = e => txn[t].txn /\ txn[t].owner = e
    BY <2>1, <2>2, <2>3 DEF TxnInv
  <2> QED BY <2>1, <2>3, <2>4, <2>5 DEF TxnInv, Tracked
<1> QED BY <1>1, AlwaysHandleInv, PTL

\* open_envs names the open environments, each key once per process
\* (register_env(), unregister_env(), find_open_env()), re-entered or not.
THEOREM OpenRegistryCorrect ==
  ASSUME ~AllocFails
  PROVE Spec => []OpenRegistryExact
<1>1. HandleInv => OpenRegistryExact
  BY DEF HandleInv, EnvInv, PairInv, TypeOK, OpenRegistryExact
<1> QED BY <1>1, AlwaysHandleInv, PTL

-----------------------------------------------------------------------------
(* What has ended stays ended.                                             *)

\* unregister_txn() touches a registry only.
LEMMA UnregisterKeeps ==
  ASSUME TypeOK, NEW t \in Txns, NEW E \in [Envs -> EnvHandle], NEW e \in Envs
  PROVE /\ Unregister(E, t)[e].env = E[e].env
        /\ Unregister(E, t)[e].poisoned = E[e].poisoned
<1>1. txn[t].owner \in Envs \cup {Null}
  BY DEF TypeOK, TxnHandle
<1> QED BY <1>1 DEF Unregister, EnvHandle

\* The transactions that a step leaves alone, or ends while they are live.
LEMMA TxnsKept ==
  ASSUME NEW S \in SUBSET Txns,
         \A t \in S : txn[t].txn /\ (txn[t].poisoned => txn'[t].poisoned),
         \A t \in Txns \ S : txn'[t] = txn[t] \/ ~txn[t].alloc \/ ~txn'[t].alloc,
         \A e \in Envs : \/ ~env[e].alloc \/ ~env'[e].alloc
                         \/ /\ env'[e].env => env[e].env
                            /\ env[e].poisoned => env'[e].poisoned
  PROVE StaysEnded
BY DEF StaysEnded

\* Steps of an environment.
LEMMA EnvStaysEnded ==
  ASSUME HandleInv, NEW e \in Envs, EnvStep(e)
  PROVE StaysEnded
<1>1. TypeOK
  BY DEF HandleInv
<1>2. CASE \E k \in Keys : Open(e, k)
  BY <1>1, <1>2 DEF Open, FreshEnv, TypeOK, StaysEnded
<1>3. CASE OpenDone(e) \/ OpenAllocFails(e) \/ \E k \in Keys : OpenPanics(e, k)
  BY <1>3 DEF OpenDone, OpenAllocFails, OpenPanics, handles, StaysEnded
<1>4. CASE EnvCall(e) \/ BeginFails(e)
  <2>1. txn' = txn /\ (env' = env \/ env' = [env EXCEPT ![e].poisoned = TRUE])
    BY <1>4 DEF EnvCall, BeginFails, GuardedOnEnv
  <2> QED BY <1>1, <2>1 DEF TypeOK, EnvHandle, StaysEnded
<1>5. ASSUME NEW P, NEW R, DetachAndClose(e, P, R)
      PROVE \E S \in SUBSET Txns :
              /\ \A t \in S : txn[t].txn /\ (txn[t].poisoned => txn'[t].poisoned)
              /\ \A t \in Txns \ S : txn'[t] = txn[t]
  <2>1. env[e].live_txns \in SUBSET Txns
    BY <1>1, Fields
  <2>2. \A t \in env[e].live_txns : txn[t].txn
    BY <2>1 DEF HandleInv, PairInv
  <2>3. txn' = Detached(e, P)
    BY <1>5 DEF DetachAndClose
  <2>4. \A t \in env[e].live_txns : txn[t].poisoned => txn'[t].poisoned
    <3> SUFFICES ASSUME NEW t \in env[e].live_txns, txn[t].poisoned
                 PROVE txn'[t].poisoned
      OBVIOUS
    <3>1. t \in Txns /\ Finished(t, "aborted") \in TxnHandle
      BY <1>1, <2>1, FinishedType DEF TypeOK
    <3>2. txn'[t] = [Finished(t, "aborted") EXCEPT !.poisoned = @ \/ t \in P]
      BY <2>3, <3>1 DEF Detached
    <3>3. Finished(t, "aborted").poisoned
      BY <1>1, <3>1 DEF Finished, TypeOK, TxnHandle
    <3> QED BY <3>1, <3>2, <3>3 DEF TxnHandle
  <2>5. \A t \in Txns \ env[e].live_txns : txn'[t] = txn[t]
    BY <2>3 DEF Detached
  <2> QED BY <2>1, <2>2, <2>4, <2>5
<1>6. CASE Close(e)
  <2>1. DetachAndClose(e, {}, {})
    BY <1>6 DEF Close
  <2>2. \A f \in Envs : (env'[f].env => env[f].env) /\ (env[f].poisoned => env'[f].poisoned)
    BY <1>1, <1>6 DEF Close, TypeOK, EnvHandle
  <2> QED BY <2>1, <2>2, <1>5, TxnsKept
<1>7. CASE FinalizeEnv(e)
  <2>1. \E P, R : DetachAndClose(e, P, R)
    BY <1>7 DEF FinalizeEnv
  <2>2. \A f \in Envs : ~env'[f].alloc \/ env'[f] = env[f]
    BY <1>1, <1>7 DEF FinalizeEnv, TypeOK, NoEnv
  <2> QED BY <2>1, <2>2, <1>5, TxnsKept
<1> QED BY <1>2, <1>3, <1>4, <1>6, <1>7 DEF EnvStep

\* Steps of a transaction.
LEMMA TxnStaysEnded ==
  ASSUME HandleInv, NEW t \in Txns, TxnStep(t)
  PROVE StaysEnded
<1>1. TypeOK /\ env \in [Envs -> EnvHandle] /\ txn \in [Txns -> TxnHandle]
  BY DEF HandleInv, TypeOK
<1>u. \A e \in Envs : /\ Unregister(env, t)[e].env = env[e].env
                      /\ Unregister(env, t)[e].poisoned = env[e].poisoned
  BY <1>1, UnregisterKeeps
<1>2. CASE \E e \in Envs : Begin(e, t)
  BY <1>1, <1>2 DEF Begin, FreshTxn, StaysEnded
<1>3. CASE BeginDone(t)
  <2>1. txn' = txn /\ env' = [env EXCEPT ![txn[t].owner].live_txns = @ \cup {t}]
    BY <1>3 DEF BeginDone
  <2>2. txn[t].owner \in Envs \cup {Null}
    BY <1>1 DEF TxnHandle
  <2> QED BY <1>1, <2>1, <2>2 DEF StaysEnded, EnvHandle
<1>4. CASE BeginAllocFails(t) \/ QueryState(t)
  BY <1>4 DEF BeginAllocFails, QueryState, handles, StaysEnded
<1>5. ASSUME TxnPanics(t) PROVE StaysEnded
  <2>1. txn[t].owner \in Envs \cup {Null}
    BY <1>1 DEF TxnHandle
  <2>2. txn' = [txn EXCEPT ![t].poisoned = TRUE]
    BY <1>5 DEF TxnPanics, PoisonTxn
  <2>3. env' = env \/ env' = [env EXCEPT ![txn[t].owner].poisoned = TRUE]
    BY <1>5 DEF TxnPanics, PoisonTxn
  <2> QED BY <1>1, <2>1, <2>2, <2>3 DEF StaysEnded, EnvHandle, TxnHandle
<1>6. ASSUME NEW s \in {"committed", "aborted"}, txn[t].txn,
             txn' = [txn EXCEPT ![t] = Finished(t, s)], env' = Unregister(env, t)
      PROVE StaysEnded
  <2>1. txn[t].poisoned => txn'[t].poisoned
    BY <1>1, <1>6 DEF Finished, TxnHandle
  <2>2. \A u \in Txns \ {t} : txn'[u] = txn[u]
    BY <1>1, <1>6
  <2> QED BY <1>u, <1>6, <2>1, <2>2, TxnsKept
<1>7. ASSUME NEW c \in BOOLEAN, txn[t].txn, FinishTxn(t, c) PROVE StaysEnded
  <2>1. CASE EndTxn(t, "committed") \/ EndTxn(t, "aborted")
    BY <1>6, <1>7, <2>1 DEF EndTxn
  <2>2. CASE TxnPanics(t)
    BY <1>5, <2>2
  <2>3. CASE UNCHANGED <<env, txn>>
    BY <2>3 DEF StaysEnded
  <2> QED BY <1>7, <2>1, <2>2, <2>3 DEF FinishTxn
<1>8. CASE TxnCall(t)
  <2>1. CASE OwnerPanics(t)
    BY <1>1, <2>1 DEF OwnerPanics, StaysEnded, EnvHandle
  <2>2. CASE UNCHANGED <<env, txn>>
    BY <2>2 DEF StaysEnded
  <2> QED BY <1>5, <1>8, <2>1, <2>2 DEF TxnCall
<1>9. CASE Commit(t)
  BY <1>7, <1>9 DEF Commit, txn_from_sexp
<1>10. CASE Abort(t)
  <2>1. txn[t].txn
    BY <1>10 DEF Abort
  <2>2. CASE FinishTxn(t, FALSE)
    BY <1>7, <2>1, <2>2
  <2>3. CASE txn' = [txn EXCEPT ![t] = Finished(t, "aborted")] /\ env' = Unregister(env, t)
    BY <1>6, <2>1, <2>3
  <2> QED BY <1>10, <2>2, <2>3 DEF Abort
<1>11. CASE FinalizeTxn(t)
  <2>1. txn' = [txn EXCEPT ![t] = NoTxn]
    BY <1>11 DEF FinalizeTxn
  <2>2. \A u \in Txns : txn'[u] = txn[u] \/ ~txn'[u].alloc
    BY <1>1, <2>1 DEF NoTxn
  <2>3. \A e \in Envs : (env'[e].env => env[e].env) /\ (env[e].poisoned => env'[e].poisoned)
    <3>1. CASE env' = Unregister(env, t)
      BY <1>u, <3>1
    <3>2. CASE env' = Unregister([env EXCEPT ![txn[t].owner].poisoned = TRUE], t)
      <4> DEFINE G == [env EXCEPT ![txn[t].owner].poisoned = TRUE]
      <4>1. txn[t].owner \in Envs \cup {Null}
        BY <1>1 DEF TxnHandle
      <4>2. /\ G \in [Envs -> EnvHandle]
            /\ \A e \in Envs : G[e].env = env[e].env /\ (env[e].poisoned => G[e].poisoned)
        BY <1>1, <4>1 DEF EnvHandle
      <4>3. env' = Unregister(G, t)
        BY <3>2
      <4> HIDE DEF G
      <4> QED BY <1>1, <4>2, <4>3, UnregisterKeeps
    <3> QED BY <1>11, <3>1, <3>2 DEF FinalizeTxn
  <2> QED BY <2>2, <2>3 DEF StaysEnded
<1> QED BY <1>2, <1>3, <1>4, <1>8, <1>9, <1>10, <1>11 DEF TxnStep

\* A handle ends once: nothing a session does gives an ended transaction or
\* environment back, or forgets a panic (mark_finished(), close_handle(),
\* detach_txns(), poison_txn(), the finalizers), in every session.
THEOREM EndsForGood == Spec => EndsOnce
<1>1. HandleInv /\ [Next]_vars => [StaysEnded]_vars
  <2> SUFFICES ASSUME HandleInv, Next PROVE StaysEnded
    OBVIOUS
  <2>1. CASE Session
    BY <2>1 DEF Session, Drop, Fork, Exit, handles, StaysEnded
  <2> QED BY <2>1, EnvStaysEnded, TxnStaysEnded DEF Next
<1> QED BY <1>1, AlwaysHandleInv, PTL DEF Spec, EndsOnce

=============================================================================
