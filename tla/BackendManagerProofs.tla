------------------------ MODULE BackendManagerProofs ------------------------
(***************************************************************************)
(* Proofs about BackendManager, for any number of Multiplexers, request    *)
(* threads, pools, delegates and ports.                                    *)
(***************************************************************************)
EXTENDS BackendManager, TLAPS

\* A thread that works on a request knows its pool.
ThreadHasPool == \A h \in Handler : pc[h] # "idle" => pool[h] \in Pool

\* The steps of a thread between make_delegate() and the deferred delete.
WithDelegate == {"list_ports", "try", "wait", "publish", "approximate",
                 "suspend", "suspend_expiry", "inoperable"}

\* A delegate belongs to the pool and the Multiplexer of its starter, and to
\* one starter only; its pinger runs only once its record was set.
DelegateOwned ==
    /\ \A h \in Handler : pc[h] \in WithDelegate => d[h] \in Backend
    /\ \A h \in Handler : d[h] \in Backend =>
          bpool[d[h]] = pool[h] /\ bmux[d[h]] = MuxOf[h] /\ pc[h] # "idle"
    /\ \A h \in Handler, k \in Handler :
          d[h] \in Backend /\ d[h] = d[k] => h = k
    /\ \A h \in Handler : pc[h] \in {"list_ports", "try", "wait", "publish"} =>
          pinger[d[h]] = "none"
    /\ \A b \in Backend : bpool[b] = Nil => pinger[b] = "none"

\* A pinger in its loop has not missed more heartbeats than tolerated.
Tolerated ==
    \A b \in Backend : pinger[b] \in Pinging \cup {"none"} =>
        misses[b] <= Heartbeat_miss_tolerance

\* The inductive invariant.
IInv ==
    /\ TypeOK /\ ThreadHasPool /\ DelegateOwned /\ Tolerated
    /\ WithdrawnBeforeShutdown /\ MutexHolderAtWork /\ MutexGetsExpiry
    /\ RecordGetsExpiry

USE DEF Mutexed, HandlerStep, Pinging, Stopping, PingerStep, Process, Fault

-----------------------------------------------------------------------------

\* The initial state has the right types.
LEMMA InitTypeOK == Init => TypeOK
  BY ConstantsAssumption DEF Init, TypeOK

\* No step of a request thread breaks the types.
LEMMA HandlerTypeOK ==
  ASSUME TypeOK, ThreadHasPool, DelegateOwned, NEW h \in Handler, HandlerNext(h)
  PROVE  TypeOK'
<1> USE ConstantsAssumption, NilAssumption DEF db, thread, delegate, env
<1>1. CASE SetPoolTimestamp(h)
  BY <1>1 DEF SetPoolTimestamp, TypeOK, goto, ThreadHasPool
<1>2. CASE GetBackend(h)
  BY <1>2 DEF GetBackend, TypeOK, goto, ThreadHasPool
<1>3. CASE Reply(h)
  BY <1>3 DEF Reply, TypeOK, goto
<1>4. CASE SetExBackendMutex(h)
  BY <1>4 DEF SetExBackendMutex, TypeOK, goto, ThreadHasPool
<1>5. CASE LoseRace(h)
  BY <1>5 DEF LoseRace, TypeOK, goto
<1>6. CASE WaitForBackendByRace(h)
  BY <1>6 DEF WaitForBackendByRace, TypeOK, goto, ThreadHasPool
<1>7. CASE SetBackendMutexExpiry(h)
  BY <1>7 DEF SetBackendMutexExpiry, TypeOK, goto
<1>8. CASE PoolMissing(h)
  BY <1>8 DEF PoolMissing, TypeOK, goto
<1>9. CASE GetPool(h)
  BY <1>9 DEF GetPool, TypeOK, goto, ThreadHasPool
<1>10. CASE ListAvailablePorts(h)
  BY <1>10 DEF ListAvailablePorts, TypeOK, goto
<1>11. CASE NoPortsLeft(h)
  BY <1>11 DEF NoPortsLeft, TypeOK, goto
<1>12. CASE \E n \in Port : TryStartBackend(h, n)
  <2> PICK n \in Port : TryStartBackend(h, n)
    BY <1>12
  <2>1. /\ ports' \in [Handler -> SUBSET Port]
        /\ bport' \in [Backend -> Port \cup {Nil}]
    BY DEF TryStartBackend, TypeOK
  <2>2. /\ pc' \in [Handler -> HandlerStep]
        /\ quit' \in [Backend -> BOOLEAN]
        /\ proc' \in [Backend -> Process]
    BY DEF TryStartBackend, TypeOK, goto
  <2>3. QED
    BY <2>1, <2>2 DEF TryStartBackend, TypeOK
<1>13. CASE \E n \in Port : ExecFails(h, n)
  <2> PICK n \in Port : ExecFails(h, n)
    BY <1>13
  <2>1. /\ ports' \in [Handler -> SUBSET Port]
        /\ bport' \in [Backend -> Port \cup {Nil}]
    BY DEF ExecFails, TypeOK
  <2>2. /\ pc' \in [Handler -> HandlerStep]
        /\ quit' \in [Backend -> BOOLEAN]
    BY DEF ExecFails, TypeOK, goto
  <2>3. QED
    BY <2>1, <2>2 DEF ExecFails, TypeOK
<1>14. CASE ComeUp(h)
  BY <1>14 DEF ComeUp, TypeOK, goto
<1>15. CASE PortInUse(h)
  BY <1>15 DEF PortInUse, TypeOK, goto
<1>16. CASE StartTimeout(h)
  BY <1>16 DEF StartTimeout, TypeOK, goto
<1>17. CASE StartFailure(h)
  BY <1>17 DEF StartFailure, TypeOK, goto
<1>18. CASE Publish(h)
  BY <1>18 DEF Publish, TypeOK, goto, set_backend, DelegateOwned, WithDelegate
<1>19. CASE Suspend(h)
  BY <1>19 DEF Suspend, TypeOK, goto, set_backend
<1>20. CASE SuspendExpiry(h)
  BY <1>20 DEF SuspendExpiry, TypeOK, goto, set_backend_expiry
<1>21. CASE SetApproximateState(h)
  BY <1>21 DEF SetApproximateState, TypeOK, goto
<1>22. CASE MarkPoolInoperable(h)
  BY <1>22 DEF MarkPoolInoperable, TypeOK, goto
<1>23. CASE Unlock(h)
  BY <1>23 DEF Unlock, TypeOK, goto, delete_backend_mutex
<1>24. QED
  BY <1>1, <1>2, <1>3, <1>4, <1>5, <1>6, <1>7, <1>8, <1>9, <1>10,
     <1>11, <1>12, <1>13, <1>14, <1>15, <1>16, <1>17, <1>18, <1>19, <1>20,
     <1>21, <1>22, <1>23
  DEF HandlerNext

\* Neither does a pinger, nor a late call of abort_backend().
LEMMA PingerTypeOK ==
  ASSUME TypeOK, Tolerated, NEW b \in Backend, PingerNext(b) \/ AbortBackend(b)
  PROVE  TypeOK'
<1> USE ConstantsAssumption, NilAssumption DEF db, thread, delegate, env
<1>1. CASE PingStart(b)
  BY <1>1 DEF PingStart, TypeOK, step, set_backend_expiry
<1>2. CASE Heartbeat(b)
  BY <1>2 DEF Heartbeat, TypeOK, step
<1>3. CASE HeartbeatMiss(b)
  <2>1. misses[b] \in 0 .. Heartbeat_miss_tolerance
    BY <1>3 DEF HeartbeatMiss, TypeOK, Tolerated
  <2>2. misses' \in [Backend -> 0 .. Heartbeat_miss_tolerance + 1]
    BY <1>3, <2>1 DEF HeartbeatMiss, TypeOK
  <2>3. pinger' \in [Backend -> PingerStep]
    BY <1>3 DEF HeartbeatMiss, TypeOK, step
  <2>4. QED
    BY <1>3, <2>2, <2>3 DEF HeartbeatMiss, TypeOK
<1>4. CASE CheckLifetime(b)
  BY <1>4 DEF CheckLifetime, TypeOK, step
<1>5. CASE Renew(b)
  BY <1>5 DEF Renew, TypeOK, step, set_backend_expiry
<1>6. CASE StopMutex(b)
  BY <1>6 DEF StopMutex, TypeOK, step, delete_backend_mutex
<1>7. CASE Withdraw(b)
  BY <1>7 DEF Withdraw, TypeOK, step, delete_backend
<1>8. CASE Shutdown(b)
  <2>1. proc' \in [Backend -> Process]
    BY <1>8 DEF Shutdown, TypeOK
  <2>2. quit' \in [Backend -> BOOLEAN]
    <3>1. quit \in [Backend -> BOOLEAN]
      BY DEF TypeOK
    <3>2. quit' = [quit EXCEPT ![b] = TRUE] \/ quit' = quit
      BY <1>8, Zenon DEF Shutdown
    <3>3. QED
      BY <3>1, <3>2
  <2>3. misses' \in [Backend -> 0 .. Heartbeat_miss_tolerance + 1]
    BY <1>8 DEF Shutdown, TypeOK
  <2>4. QED
    BY <1>8, <2>1, <2>2, <2>3 DEF Shutdown, TypeOK, step
<1>9. CASE AbortBackend(b)
  BY <1>9 DEF AbortBackend, TypeOK, step
<1>10. QED
  BY <1>1, <1>2, <1>3, <1>4, <1>5, <1>6, <1>7, <1>8, <1>9 DEF PingerNext

\* Neither do the surroundings.
LEMMA EnvironmentTypeOK ==
  ASSUME TypeOK, Environment
  PROVE  TypeOK'
<1> USE ConstantsAssumption, NilAssumption DEF db, thread, delegate, env
<1>1. CASE \E h \in Handler, p \in Pool : Request(h, p)
  BY <1>1 DEF Request, TypeOK, goto
<1>2. CASE \E b \in Backend : BackendDies(b)
  BY <1>2 DEF BackendDies, TypeOK
<1>3. CASE \E p \in Pool : MutexExpires(p)
  BY <1>3 DEF MutexExpires, TypeOK, delete_backend_mutex
<1>4. CASE \E p \in Pool : BackendExpires(p)
  BY <1>4 DEF BackendExpires, TypeOK, delete_backend
<1>5. CASE \E p \in Pool : AwakeElapses(p)
  BY <1>5 DEF AwakeElapses, TypeOK
<1>6. CASE \E p \in Pool : DeleteApproximateState(p)
  BY <1>6 DEF DeleteApproximateState, TypeOK
<1>7. CASE \E p \in Pool : DeletePoolTimestamp(p)
  BY <1>7 DEF DeletePoolTimestamp, TypeOK
<1>8. CASE \E p \in Pool : DeletePool(p)
  BY <1>8 DEF DeletePool, TypeOK
<1>9. CASE \E m \in Mux : Crash(m)
  <2> PICK m \in Mux : Crash(m)
    BY <1>9
  <2>1. faults' \in 0 .. MaxFault
    BY DEF Crash, TypeOK
  <2>2. misses' \in [Backend -> 0 .. Heartbeat_miss_tolerance + 1]
    BY DEF Crash, TypeOK
  <2>3. QED
    BY <2>1, <2>2 DEF Crash, TypeOK
<1>10. CASE \E h \in Handler : HandlerRaises(h)
  BY <1>10 DEF HandlerRaises, TypeOK, goto
<1>11. CASE \E b \in Backend : PingerRaises(b)
  <2> PICK b \in Backend : PingerRaises(b)
    BY <1>11
  <2>1. misses' \in [Backend -> 0 .. Heartbeat_miss_tolerance + 1]
    BY DEF PingerRaises, TypeOK
  <2>2. QED
    BY <2>1 DEF PingerRaises, TypeOK
<1>12. QED
  BY <1>1, <1>2, <1>3, <1>4, <1>5, <1>6, <1>7, <1>8, <1>9, <1>10, <1>11
  DEF Environment, DeregisterPool

-----------------------------------------------------------------------------
(* Frames: what a step of one thread leaves alone *)

\* A request thread changes its own locals only, keeps its request until
\* Reply, and leaves the mutexed part of start_backend() through Unlock.
LEMMA HandlerFrame ==
  ASSUME TypeOK, NEW h \in Handler, HandlerNext(h)
  PROVE  /\ \A k \in Handler \ {h} :
               pc'[k] = pc[k] /\ pool'[k] = pool[k] /\ d'[k] = d[k]
         /\ pc'[h] # "idle" => pool'[h] = pool[h]
         /\ pc[h] # "idle"
         /\ pc[h] \in Mutexed \ {"unlock"} => pc'[h] \in Mutexed
         /\ UNCHANGED <<misses, dereg, faults>>
<1> USE DEF goto, db, thread, delegate, env, TypeOK
<1>1. CASE \/ SetPoolTimestamp(h) \/ GetBackend(h) \/ Reply(h)
           \/ SetExBackendMutex(h) \/ LoseRace(h) \/ WaitForBackendByRace(h)
  BY <1>1 DEF SetPoolTimestamp, GetBackend, Reply, SetExBackendMutex, LoseRace,
              WaitForBackendByRace
<1>2. CASE \/ SetBackendMutexExpiry(h) \/ PoolMissing(h)
           \/ ListAvailablePorts(h) \/ NoPortsLeft(h)
  BY <1>2 DEF SetBackendMutexExpiry, PoolMissing, ListAvailablePorts, NoPortsLeft
<1>3. CASE GetPool(h)
  BY <1>3 DEF GetPool
<1>4. CASE \E n \in Port : TryStartBackend(h, n) \/ ExecFails(h, n)
  BY <1>4 DEF TryStartBackend, ExecFails
<1>5. CASE ComeUp(h) \/ PortInUse(h) \/ StartTimeout(h) \/ StartFailure(h)
  BY <1>5 DEF ComeUp, PortInUse, StartTimeout, StartFailure
<1>6. CASE \/ Publish(h) \/ Suspend(h) \/ SuspendExpiry(h)
           \/ SetApproximateState(h) \/ MarkPoolInoperable(h) \/ Unlock(h)
  BY <1>6 DEF Publish, Suspend, SuspendExpiry, SetApproximateState,
              MarkPoolInoperable, Unlock
<1>7. QED
  BY <1>1, <1>2, <1>3, <1>4, <1>5, <1>6 DEF HandlerNext

\* A pinger moves itself only, never to "none", "start" or "lost"; what it
\* deletes or extends is a record of its own pool.
LEMMA PingerFrame ==
  ASSUME TypeOK, NEW b \in Backend, PingerNext(b) \/ AbortBackend(b)
  PROVE  /\ UNCHANGED <<thread, bpool, bmux, bport, env>>
         /\ \A c \in Backend \ {b} : pinger'[c] = pinger[c] /\ misses'[c] = misses[c]
         /\ \A c \in Backend \ {b} : proc'[c] = proc[c]
         /\ pinger'[b] = "none" <=> pinger[b] = "none"
         /\ \A p \in Pool \ {bpool[b]} :
               mutex'[p] = mutex[p] /\ mutex_ttl'[p] = mutex_ttl[p]
         /\ \A p \in Pool \ {bpool[b]} : de'[p] = de[p] /\ de_ttl'[p] = de_ttl[p]
<1> USE DEF db, env, step, TypeOK
<1>1. CASE PingStart(b) \/ Renew(b)
  BY <1>1 DEF PingStart, Renew, set_backend_expiry
<1>2. CASE \/ Heartbeat(b) \/ HeartbeatMiss(b) \/ CheckLifetime(b)
           \/ AbortBackend(b)
  BY <1>2 DEF Heartbeat, HeartbeatMiss, CheckLifetime, AbortBackend
<1>3. CASE StopMutex(b) \/ Withdraw(b)
  BY <1>3 DEF StopMutex, Withdraw, delete_backend_mutex, delete_backend
<1>4. CASE Shutdown(b)
  BY <1>4 DEF Shutdown
<1>5. QED
  BY <1>1, <1>2, <1>3, <1>4 DEF PingerNext

-----------------------------------------------------------------------------
(* Ownership of delegates *)

\* A thread keeps the pool of its request.
LEMMA ThreadHasPoolStep ==
  ASSUME TypeOK, ThreadHasPool, Next
  PROVE  ThreadHasPool'
<1> USE DEF ThreadHasPool
<1>1. CASE \E h \in Handler : HandlerNext(h)
  BY <1>1, HandlerFrame
<1>2. CASE \E b \in Backend : PingerNext(b) \/ AbortBackend(b)
  BY <1>2, PingerFrame DEF thread
<1>3. CASE \E h \in Handler, p \in Pool : Request(h, p)
  BY <1>3 DEF Request, goto, TypeOK
<1>4. CASE \E m \in Mux : Crash(m)
  BY <1>4 DEF Crash
<1>5. CASE \/ \E b \in Backend : BackendDies(b) \/ PingerRaises(b)
           \/ \E p \in Pool : \/ MutexExpires(p) \/ BackendExpires(p)
                              \/ AwakeElapses(p) \/ DeregisterPool(p)
  BY <1>5 DEF BackendDies, MutexExpires, BackendExpires, AwakeElapses, thread,
              DeregisterPool, DeleteApproximateState, DeletePoolTimestamp,
              DeletePool, PingerRaises
<1>6. CASE \E h \in Handler : HandlerRaises(h)
  BY <1>6 DEF HandlerRaises, goto, TypeOK
<1>7. QED
  BY <1>1, <1>2, <1>3, <1>4, <1>5, <1>6 DEF Next, Environment

\* A delegate is made by GetPool for one thread, and its pinger starts with
\* Publish.
LEMMA DelegateOwnedStep ==
  ASSUME TypeOK, ThreadHasPool, DelegateOwned, Next
  PROVE  DelegateOwned'
<1> USE NilAssumption DEF DelegateOwned, WithDelegate
<1>1. ASSUME NEW h \in Handler, HandlerNext(h) PROVE DelegateOwned'
  <2> USE <1>1 DEF goto
  <2>1. CASE GetPool(h)
    <3> PICK b \in Backend : /\ bpool[b] = Nil
                             /\ d' = [d EXCEPT ![h] = b]
                             /\ bpool' = [bpool EXCEPT ![b] = pool[h]]
                             /\ bmux' = [bmux EXCEPT ![b] = MuxOf[h]]
      BY <2>1 DEF GetPool
    <3>1. \A k \in Handler : d[k] # b
      BY DEF ThreadHasPool
    <3>2. QED
      BY <2>1, <3>1 DEF GetPool, TypeOK, ThreadHasPool
  <2>2. CASE Reply(h)
    BY <2>2 DEF Reply, TypeOK, delegate
  <2>3. CASE Publish(h)
    BY <2>3 DEF Publish, TypeOK, ThreadHasPool
  <2>4. CASE /\ ~GetPool(h) /\ ~Reply(h) /\ ~Publish(h)
    <3>1. UNCHANGED <<pool, d, bpool, bmux, pinger>>
      BY <2>4 DEF HandlerNext, SetPoolTimestamp, GetBackend, SetExBackendMutex,
        LoseRace, WaitForBackendByRace, SetBackendMutexExpiry, PoolMissing,
        ListAvailablePorts, NoPortsLeft, TryStartBackend, ExecFails, ComeUp,
        PortInUse, StartTimeout, StartFailure, Suspend, SuspendExpiry,
        SetApproximateState, MarkPoolInoperable, Unlock, delegate
    <3>2. /\ pc'[h] # "idle"
          /\ pc'[h] \in WithDelegate => pc[h] \in WithDelegate
          /\ pc'[h] \in {"list_ports", "try", "wait", "publish"}
                => pc[h] \in {"list_ports", "try", "wait", "publish"}
      BY <2>4 DEF HandlerNext, SetPoolTimestamp, GetBackend, SetExBackendMutex,
        LoseRace, WaitForBackendByRace, SetBackendMutexExpiry, PoolMissing,
        ListAvailablePorts, NoPortsLeft, TryStartBackend, ExecFails, ComeUp,
        PortInUse, StartTimeout, StartFailure, Suspend, SuspendExpiry,
        SetApproximateState, MarkPoolInoperable, Unlock, TypeOK
    <3>3. \A k \in Handler \ {h} : pc'[k] = pc[k]
      BY HandlerFrame
    <3>4. QED
      BY <3>1, <3>2, <3>3
  <2>5. QED
    BY <2>1, <2>2, <2>3, <2>4
<1>2. CASE \E b \in Backend : PingerNext(b) \/ AbortBackend(b)
  <2> PICK b \in Backend : PingerNext(b) \/ AbortBackend(b)
    BY <1>2
  <2>1. /\ UNCHANGED <<pc, pool, d, bpool, bmux>>
        /\ \A c \in Backend : pinger'[c] = "none" <=> pinger[c] = "none"
    BY PingerFrame DEF thread
  <2>2. QED
    BY <2>1
<1>3. CASE \E h \in Handler, p \in Pool : Request(h, p)
  BY <1>3 DEF Request, goto, TypeOK, delegate
<1>4. CASE \E m \in Mux : Crash(m)
  BY <1>4 DEF Crash
<1>5. CASE \/ \E b \in Backend : BackendDies(b)
           \/ \E p \in Pool : \/ MutexExpires(p) \/ BackendExpires(p)
                              \/ AwakeElapses(p) \/ DeregisterPool(p)
  <2>1. UNCHANGED <<pc, pool, d, bpool, bmux, pinger>>
    BY <1>5 DEF BackendDies, MutexExpires, BackendExpires, AwakeElapses, thread,
      delegate, DeregisterPool, DeleteApproximateState, DeletePoolTimestamp, DeletePool
  <2>2. QED
    BY <2>1
<1>6. CASE \E h \in Handler : HandlerRaises(h)
  BY <1>6 DEF HandlerRaises, goto, TypeOK, delegate
<1>7. CASE \E b \in Backend : PingerRaises(b)
  BY <1>7 DEF PingerRaises, TypeOK, thread
<1>8. QED
  BY <1>1, <1>2, <1>3, <1>4, <1>5, <1>6, <1>7 DEF Next, Environment

\* A miss beyond the tolerance ends the loop; a new pinger starts from 0.
LEMMA ToleratedStep ==
  ASSUME TypeOK, DelegateOwned, Tolerated, Next
  PROVE  Tolerated'
<1> USE ConstantsAssumption DEF Tolerated
<1>1. CASE \E h \in Handler : HandlerNext(h)
  <2> PICK h \in Handler : HandlerNext(h)
    BY <1>1
  <2>1. UNCHANGED misses
    BY HandlerFrame
  <2>2. UNCHANGED pinger \/ Publish(h)
    BY DEF HandlerNext, SetPoolTimestamp, GetBackend, Reply, SetExBackendMutex,
      LoseRace, WaitForBackendByRace, SetBackendMutexExpiry, PoolMissing, GetPool,
      ListAvailablePorts, NoPortsLeft, TryStartBackend, ExecFails, ComeUp,
      PortInUse, StartTimeout, StartFailure, Suspend, SuspendExpiry,
      SetApproximateState, MarkPoolInoperable, Unlock, delegate
  <2>3. CASE Publish(h)
    BY <2>1, <2>3 DEF Publish, TypeOK, DelegateOwned, WithDelegate
  <2>4. QED
    BY <2>1, <2>2, <2>3
<1>2. ASSUME NEW b \in Backend, PingerNext(b) \/ AbortBackend(b)
      PROVE  Tolerated'
  <2>1. /\ pinger'[b] \in Pinging \cup {"none"} =>
              misses'[b] <= Heartbeat_miss_tolerance
    <3> USE DEF step, TypeOK
    <3>1. CASE PingStart(b) \/ Renew(b) \/ CheckLifetime(b) \/ AbortBackend(b)
      BY <3>1 DEF PingStart, Renew, CheckLifetime, AbortBackend
    <3>2. CASE Heartbeat(b)
      BY <3>2 DEF Heartbeat
    <3>3. CASE HeartbeatMiss(b)
      BY <3>3 DEF HeartbeatMiss
    <3>4. CASE StopMutex(b) \/ Withdraw(b) \/ Shutdown(b)
      BY <3>4 DEF StopMutex, Withdraw, Shutdown
    <3>5. QED
      BY <1>2, <3>1, <3>2, <3>3, <3>4 DEF PingerNext
  <2>2. QED
    BY <1>2, <2>1, PingerFrame
<1>3. CASE \E m \in Mux : Crash(m)
  BY <1>3 DEF Crash
<1>4. CASE \E b \in Backend : PingerRaises(b)
  BY <1>4 DEF PingerRaises, TypeOK
<1>5. CASE /\ Environment /\ ~\E m \in Mux : Crash(m)
           /\ ~\E b \in Backend : PingerRaises(b)
  BY <1>5 DEF Environment, Request, BackendDies, MutexExpires, BackendExpires,
    AwakeElapses, DeregisterPool, DeleteApproximateState, DeletePoolTimestamp,
    DeletePool, HandlerRaises, delegate
<1>6. QED
  BY <1>1, <1>2, <1>3, <1>4, <1>5 DEF Next

-----------------------------------------------------------------------------
(* The safety properties *)

\* stop_backend() deletes the record of its own pool before it shuts the
\* backend down, and only Publish enters a backend.
LEMMA WithdrawnStep ==
  ASSUME TypeOK, ThreadHasPool, DelegateOwned, WithdrawnBeforeShutdown, Next
  PROVE  WithdrawnBeforeShutdown'
<1> USE NilAssumption DEF WithdrawnBeforeShutdown
<1>1. ASSUME NEW h \in Handler, HandlerNext(h) PROVE WithdrawnBeforeShutdown'
  <2>1. CASE Publish(h)
    BY <2>1 DEF Publish, set_backend, TypeOK, DelegateOwned, WithDelegate,
                ThreadHasPool
  <2>2. CASE Suspend(h)
    BY <2>2 DEF Suspend, set_backend, TypeOK, delegate
  <2>3. CASE GetPool(h)
    BY <2>3 DEF GetPool, TypeOK, db
  <2>4. CASE ~Publish(h) /\ ~Suspend(h) /\ ~GetPool(h)
    BY <1>1, <2>4 DEF HandlerNext, SetPoolTimestamp, GetBackend, Reply,
      SetExBackendMutex, LoseRace, WaitForBackendByRace, SetBackendMutexExpiry,
      PoolMissing, ListAvailablePorts, NoPortsLeft, TryStartBackend, ExecFails,
      ComeUp, PortInUse, StartTimeout, StartFailure, SuspendExpiry,
      SetApproximateState, MarkPoolInoperable, Unlock, db, delegate
  <2>5. QED
    BY <2>1, <2>2, <2>3, <2>4
<1>2. ASSUME NEW b \in Backend, PingerNext(b) \/ AbortBackend(b)
      PROVE  WithdrawnBeforeShutdown'
  <2> USE DEF step, TypeOK
  <2>1. CASE \/ PingStart(b) \/ Heartbeat(b) \/ HeartbeatMiss(b)
             \/ CheckLifetime(b) \/ Renew(b) \/ StopMutex(b) \/ AbortBackend(b)
    BY <2>1 DEF PingStart, Heartbeat, HeartbeatMiss, CheckLifetime, Renew,
                StopMutex, AbortBackend, db
  <2>2. CASE Withdraw(b)
    BY <2>2 DEF Withdraw, delete_backend
  <2>3. CASE Shutdown(b)
    BY <2>3 DEF Shutdown, db
  <2>4. QED
    BY <1>2, <2>1, <2>2, <2>3 DEF PingerNext
<1>3. CASE \E m \in Mux : Crash(m)
  BY <1>3 DEF Crash, TypeOK, db
<1>4. CASE \E p \in Pool : BackendExpires(p)
  BY <1>4 DEF BackendExpires, delete_backend, TypeOK, delegate
<1>5. CASE \E b \in Backend : PingerRaises(b)
  BY <1>5 DEF PingerRaises, TypeOK, db
<1>6. CASE /\ Environment /\ ~\E m \in Mux : Crash(m)
           /\ ~\E p \in Pool : BackendExpires(p)
           /\ ~\E b \in Backend : PingerRaises(b)
  BY <1>6 DEF Environment, Request, BackendDies, MutexExpires,
    AwakeElapses, DeregisterPool, DeleteApproximateState, DeletePoolTimestamp,
    DeletePool, HandlerRaises, db, delegate
<1>7. QED
  BY <1>1, <1>2, <1>3, <1>4, <1>5, <1>6 DEF Next

\* Only SetExBackendMutex sets a dx: record, and its thread stays in the
\* mutexed part until it deletes what is there.
LEMMA MutexStep ==
  ASSUME TypeOK, ThreadHasPool, MutexHolderAtWork, MutexGetsExpiry, Next
  PROVE  MutexHolderAtWork' /\ MutexGetsExpiry'
<1> USE NilAssumption DEF MutexHolderAtWork, MutexGetsExpiry
<1>1. ASSUME NEW h \in Handler, HandlerNext(h)
      PROVE  MutexHolderAtWork' /\ MutexGetsExpiry'
  <2>1. CASE SetExBackendMutex(h)
    BY <2>1 DEF SetExBackendMutex, goto, TypeOK, env
  <2>2. CASE SetBackendMutexExpiry(h)
    BY <2>2 DEF SetBackendMutexExpiry, goto, TypeOK, env
  <2>3. CASE Unlock(h)
    BY <2>3 DEF Unlock, delete_backend_mutex, goto, TypeOK, env
  <2>4. CASE ~SetExBackendMutex(h) /\ ~SetBackendMutexExpiry(h) /\ ~Unlock(h)
    <3>1. UNCHANGED <<mutex, mutex_ttl>> /\ pc[h] \notin {"expiry", "unlock"}
      BY <1>1, <2>4 DEF HandlerNext, SetPoolTimestamp, GetBackend, Reply,
        LoseRace, WaitForBackendByRace, PoolMissing, GetPool,
        ListAvailablePorts, NoPortsLeft, TryStartBackend, ExecFails, ComeUp,
        PortInUse, StartTimeout, StartFailure, Publish, Suspend, SuspendExpiry,
        SetApproximateState, MarkPoolInoperable, db
    <3>2. QED
      BY <1>1, <3>1, HandlerFrame DEF TypeOK
  <2>5. QED
    BY <2>1, <2>2, <2>3, <2>4
<1>2. ASSUME NEW b \in Backend, PingerNext(b) \/ AbortBackend(b)
      PROVE  MutexHolderAtWork' /\ MutexGetsExpiry'
  <2>1. UNCHANGED <<pc, pool, faults>>
    BY <1>2, PingerFrame DEF thread, env
  <2>2. CASE StopMutex(b)
    BY <2>1, <2>2 DEF StopMutex, delete_backend_mutex, TypeOK
  <2>3. CASE ~StopMutex(b)
    BY <1>2, <2>1, <2>3 DEF PingerNext, PingStart, Heartbeat, HeartbeatMiss,
      CheckLifetime, Renew, Withdraw, Shutdown, AbortBackend, db
  <2>4. QED
    BY <2>2, <2>3
<1>3. CASE \/ \E m \in Mux : Crash(m)
           \/ \E h \in Handler : HandlerRaises(h)
           \/ \E b \in Backend : PingerRaises(b)
  BY <1>3 DEF Crash, HandlerRaises, PingerRaises, TypeOK
<1>4. CASE \E p \in Pool : MutexExpires(p)
  BY <1>4 DEF MutexExpires, delete_backend_mutex, TypeOK, thread, env
<1>5. CASE \E h \in Handler, p \in Pool : Request(h, p)
  BY <1>5 DEF Request, goto, TypeOK, db, env
<1>6. CASE \/ \E b \in Backend : BackendDies(b)
           \/ \E p \in Pool : \/ BackendExpires(p) \/ AwakeElapses(p)
                              \/ DeregisterPool(p)
  BY <1>6 DEF BackendDies, BackendExpires, AwakeElapses, DeregisterPool,
    DeleteApproximateState, DeletePoolTimestamp, DeletePool, db, thread, env
<1>7. QED
  BY <1>1, <1>2, <1>3, <1>4, <1>5, <1>6 DEF Next, Environment

\* The expiration of a new record is set by the pinger that Publish starts,
\* or by the thread that suspended the pool.
LEMMA RecordStep ==
  ASSUME TypeOK, ThreadHasPool, DelegateOwned, WithdrawnBeforeShutdown,
         RecordGetsExpiry, Next
  PROVE  RecordGetsExpiry'
<1> USE NilAssumption DEF RecordGetsExpiry
<1>1. ASSUME NEW h \in Handler, HandlerNext(h) PROVE RecordGetsExpiry'
  <2>1. CASE Publish(h)
    BY <2>1 DEF Publish, set_backend, goto, TypeOK, DelegateOwned, WithDelegate, env
  <2>2. CASE Suspend(h)
    BY <2>2 DEF Suspend, set_backend, goto, TypeOK, delegate, env
  <2>3. CASE SuspendExpiry(h)
    BY <2>3 DEF SuspendExpiry, set_backend_expiry, goto, TypeOK, delegate, env,
                ThreadHasPool
  <2>4. CASE ~Publish(h) /\ ~Suspend(h) /\ ~SuspendExpiry(h)
    <3>1. UNCHANGED <<de, de_ttl, pinger>> /\ pc[h] # "suspend_expiry"
      BY <1>1, <2>4 DEF HandlerNext, SetPoolTimestamp, GetBackend, Reply,
        SetExBackendMutex, LoseRace, WaitForBackendByRace,
        SetBackendMutexExpiry, PoolMissing, GetPool, ListAvailablePorts,
        NoPortsLeft, TryStartBackend, ExecFails, ComeUp, PortInUse,
        StartTimeout, StartFailure, SetApproximateState, MarkPoolInoperable,
        Unlock, db, delegate
    <3>2. QED
      BY <1>1, <3>1, HandlerFrame
  <2>5. QED
    BY <2>1, <2>2, <2>3, <2>4
<1>2. ASSUME NEW b \in Backend, PingerNext(b) \/ AbortBackend(b)
      PROVE  RecordGetsExpiry'
  <2>1. UNCHANGED <<pc, pool, faults>>
    BY <1>2, PingerFrame DEF thread, env
  <2>2. CASE PingStart(b) \/ Renew(b)
    BY <2>1, <2>2 DEF PingStart, Renew, set_backend_expiry, step, TypeOK,
                      WithdrawnBeforeShutdown
  <2>3. CASE Withdraw(b)
    BY <2>1, <2>3 DEF Withdraw, delete_backend, step, TypeOK
  <2>4. CASE ~PingStart(b) /\ ~Renew(b) /\ ~Withdraw(b)
    <3>1. /\ UNCHANGED <<de, de_ttl>>
          /\ \A c \in Backend : pinger[c] = "start" => pinger'[c] = "start"
      BY <1>2, <2>4 DEF PingerNext, Heartbeat, HeartbeatMiss, CheckLifetime,
        StopMutex, Shutdown, AbortBackend, step, TypeOK, db
    <3>2. QED
      BY <2>1, <3>1
  <2>5. QED
    BY <2>2, <2>3, <2>4
<1>3. CASE \/ \E m \in Mux : Crash(m)
           \/ \E h \in Handler : HandlerRaises(h)
           \/ \E b \in Backend : PingerRaises(b)
  BY <1>3 DEF Crash, HandlerRaises, PingerRaises, TypeOK
<1>4. CASE \E p \in Pool : BackendExpires(p)
  BY <1>4 DEF BackendExpires, delete_backend, TypeOK, thread, delegate, env
<1>5. CASE \E h \in Handler, p \in Pool : Request(h, p)
  BY <1>5 DEF Request, goto, TypeOK, db, delegate, env
<1>6. CASE \/ \E b \in Backend : BackendDies(b)
           \/ \E p \in Pool : \/ MutexExpires(p) \/ AwakeElapses(p)
                              \/ DeregisterPool(p)
  BY <1>6 DEF BackendDies, MutexExpires, AwakeElapses, DeregisterPool,
    DeleteApproximateState, DeletePoolTimestamp, DeletePool, db, thread,
    delegate, env
<1>7. QED
  BY <1>1, <1>2, <1>3, <1>4, <1>5, <1>6 DEF Next, Environment

-----------------------------------------------------------------------------
(* The theorems *)

\* The inductive invariant holds in every reachable state.
THEOREM Invariance == Spec => []IInv
<1>1. Init => IInv
  <2> SUFFICES ASSUME Init PROVE IInv
    OBVIOUS
  <2>1. TypeOK
    BY InitTypeOK
  <2>2. ThreadHasPool /\ DelegateOwned /\ Tolerated
    BY ConstantsAssumption, NilAssumption
    DEF Init, ThreadHasPool, DelegateOwned, Tolerated, WithDelegate
  <2>3. /\ WithdrawnBeforeShutdown /\ MutexHolderAtWork /\ MutexGetsExpiry
        /\ RecordGetsExpiry
    BY NilAssumption
    DEF Init, WithdrawnBeforeShutdown, MutexHolderAtWork, MutexGetsExpiry,
        RecordGetsExpiry
  <2>4. QED
    BY <2>1, <2>2, <2>3 DEF IInv
<1>2. IInv /\ [Next]_vars => IInv'
  <2> SUFFICES ASSUME IInv, [Next]_vars PROVE IInv'
    OBVIOUS
  <2>1. CASE Next
    <3> USE DEF IInv
    <3>1. TypeOK'
      BY <2>1, HandlerTypeOK, PingerTypeOK, EnvironmentTypeOK DEF Next
    <3>2. ThreadHasPool' /\ DelegateOwned' /\ Tolerated'
      BY <2>1, ThreadHasPoolStep, DelegateOwnedStep, ToleratedStep
    <3>3. /\ WithdrawnBeforeShutdown' /\ MutexHolderAtWork' /\ MutexGetsExpiry'
          /\ RecordGetsExpiry'
      BY <2>1, WithdrawnStep, MutexStep, RecordStep
    <3>4. QED
      BY <3>1, <3>2, <3>3
  <2>2. CASE UNCHANGED vars
    BY <2>2 DEF IInv, vars, db, thread, delegate, env, TypeOK, ThreadHasPool,
      DelegateOwned, WithDelegate, Tolerated, WithdrawnBeforeShutdown,
      MutexHolderAtWork, MutexGetsExpiry, RecordGetsExpiry
  <2>3. QED
    BY <2>1, <2>2
<1>3. QED
  BY <1>1, <1>2, PTL DEF Spec

\* The types are kept, for every number of Multiplexers, threads and pools.
THEOREM TypeCorrect == Spec => []TypeOK
  BY Invariance, PTL DEF IInv

\* Requests are never routed to a backend that is being shut down, or to one
\* of another pool: stop_backend() withdraws the de: record first.
THEOREM WithdrawnBeforeShutdownAlways == Spec => []WithdrawnBeforeShutdown
  BY Invariance, PTL DEF IInv

\* Without a fault, no dx: record outlives the work of the thread that set it:
\* every way out of start_backend() passes the deferred delete.
THEOREM MutexReleased == Spec => []MutexHolderAtWork
  BY Invariance, PTL DEF IInv

\* Without a fault, each dx: record gets an expiration from its holder.
THEOREM MutexesExpire == Spec => []MutexGetsExpiry
  BY Invariance, PTL DEF IInv

\* Without a fault, each de: record gets an expiration from a thread that is
\* already there.
THEOREM RecordsExpire == Spec => []RecordGetsExpiry
  BY Invariance, PTL DEF IInv
=============================================================================
