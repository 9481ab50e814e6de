------------------------- MODULE DirectoryRefinement -------------------------
(***************************************************************************)
(* BackendManager implements BackendDirectory, for every value of the      *)
(* constants: the steps on dx:, pt:, ps:, po:, the expirations and the     *)
(* processes are stuttering steps of the directory.                        *)
(***************************************************************************)
EXTENDS BackendManagerProofs

\* The directory's view of the delegates.
Home == [b \in Backend |-> IF pinger[b] = "none" THEN Nil ELSE bpool[b]]

\* The initial states map to the empty directory.
LEMMA InitDirectory == Init => Directory!Init
  BY DEF Init, Directory!Init

\* A step of a request thread is a lookup, an entry, a block, the end of a
\* request, or nothing to the directory.
LEMMA HandlerDirectory ==
  ASSUME IInv, NEW h \in Handler, HandlerNext(h)
  PROVE  Directory!Next \/ UNCHANGED Directory!vars
<1> USE DEF IInv, db, thread, delegate
<1>1. CASE Publish(h)
  <2>1. PICK p \in Pool, b \in Backend : p = pool[h] /\ b = d[h]
    BY <1>1 DEF Publish, ThreadHasPool, DelegateOwned, WithDelegate
  <2>2. bpool[b] = p /\ pinger[b] = "none"
    BY <1>1, <2>1 DEF Publish, DelegateOwned
  <2>3. Directory!Enter(h, p, b)
    <3>1. Home[b] = Nil
      BY <2>2 DEF Home
    <3>2. pinger' = [pinger EXCEPT ![b] = "start"] /\ bpool' = bpool
      BY <1>1, <2>1 DEF Publish
    <3>3. \A c \in Backend : Home'[c] = IF c = b THEN p ELSE Home[c]
      BY <2>2, <3>2 DEF Home, TypeOK
    <3>4. Home' = [Home EXCEPT ![b] = p]
      BY <3>3 DEF Home
    <3>5. QED
      BY <1>1, <2>1, <3>1, <3>4 DEF Publish, set_backend, Directory!Enter, Home
  <2>4. QED
    BY <2>3 DEF Directory!Next
<1>2. CASE Suspend(h)
  <2>1. pool[h] \in Pool
    BY <1>2 DEF Suspend, ThreadHasPool
  <2>2. Directory!Block(h, pool[h])
    BY <1>2 DEF Suspend, set_backend, Directory!Block
  <2>3. QED
    BY <2>1, <2>2 DEF Directory!Next
<1>3. CASE GetBackend(h) \/ WaitForBackendByRace(h)
  <2>1. pool[h] \in Pool
    BY <1>3 DEF GetBackend, WaitForBackendByRace, ThreadHasPool
  <2>2. CASE be' = [be EXCEPT ![h] = de[pool[h]]]
    <3>1. Directory!Lookup(h, pool[h])
      <4>1. UNCHANGED <<de, pinger, bpool>>
        BY <1>3 DEF GetBackend, WaitForBackendByRace
      <4>2. QED
        BY <2>2, <4>1 DEF Directory!Lookup
    <3>2. QED
      BY <2>1, <3>1, Zenon DEF Directory!Next
  <2>3. CASE be' = [be EXCEPT ![h] = Nil]
    <3>1. Directory!Forget({h})
      <4>1. UNCHANGED <<de, pinger, bpool>>
        BY <1>3 DEF GetBackend, WaitForBackendByRace
      <4>2. be' = [k \in Handler |-> IF k \in {h} THEN Nil ELSE be[k]]
        BY <2>3 DEF TypeOK
      <4>3. QED
        BY <4>1, <4>2 DEF Directory!Forget
    <3>2. QED
      BY <3>1 DEF Directory!Next
  <2>4. QED
    BY <1>3, <2>2, <2>3 DEF GetBackend, WaitForBackendByRace
<1>4. CASE Reply(h)
  <2>1. Directory!Forget({h})
    BY <1>4 DEF Reply, Directory!Forget, TypeOK
  <2>2. QED
    BY <2>1 DEF Directory!Next
<1>5. CASE GetPool(h)
  <2>1. UNCHANGED <<de, be, pinger>>
    BY <1>5 DEF GetPool
  <2>2. Home' = Home
    BY <1>5, <2>1 DEF GetPool, Home, TypeOK, DelegateOwned
  <2>3. QED
    BY <2>1, <2>2 DEF Home, Directory!vars
<1>6. CASE /\ ~Publish(h) /\ ~Suspend(h) /\ ~GetBackend(h)
           /\ ~WaitForBackendByRace(h) /\ ~Reply(h) /\ ~GetPool(h)
  <2>1. UNCHANGED <<de, be, pinger, bpool>>
    BY <1>6 DEF HandlerNext, SetPoolTimestamp, SetExBackendMutex, LoseRace,
      SetBackendMutexExpiry, PoolMissing, ListAvailablePorts, NoPortsLeft,
      TryStartBackend, ExecFails, ComeUp, PortInUse, StartTimeout,
      StartFailure, SuspendExpiry, SetApproximateState, MarkPoolInoperable,
      Unlock
  <2>2. QED
    BY <2>1 DEF Directory!vars
<1>7. QED
  BY <1>1, <1>2, <1>3, <1>4, <1>5, <1>6

\* A step of a pinger removes an entry, or is nothing to the directory.
LEMMA PingerDirectory ==
  ASSUME IInv, NEW b \in Backend, PingerNext(b) \/ AbortBackend(b)
  PROVE  Directory!Next \/ UNCHANGED Directory!vars
<1> USE DEF IInv
<1>1. be' = be /\ Home' = Home
  BY PingerFrame DEF thread, Home
<1>2. CASE Withdraw(b)
  <2>1. bpool[b] \in Pool
    BY <1>2 DEF Withdraw, DelegateOwned, TypeOK
  <2>2. Directory!Remove(bpool[b])
    BY <1>1, <1>2 DEF Withdraw, delete_backend, Directory!Remove, Home
  <2>3. QED
    BY <2>1, <2>2 DEF Directory!Next
<1>3. CASE ~Withdraw(b)
  <2>1. UNCHANGED de
    BY <1>3 DEF PingerNext, PingStart, Heartbeat, HeartbeatMiss, CheckLifetime,
      Renew, StopMutex, Shutdown, AbortBackend, db
  <2>2. QED
    BY <1>1, <2>1 DEF Home, Directory!vars
<1>4. QED
  BY <1>2, <1>3

\* The surroundings remove an entry (an expiration), end the requests of a
\* Multiplexer (a kill) or one request (a failing operation), or
\* do nothing to the directory.
LEMMA EnvironmentDirectory ==
  ASSUME IInv, Environment
  PROVE  Directory!Next \/ UNCHANGED Directory!vars
<1> USE DEF IInv, db, thread, delegate
<1>1. CASE \E p \in Pool : BackendExpires(p)
  <2> PICK p \in Pool : BackendExpires(p)
    BY <1>1
  <2>1. Directory!Remove(p)
    BY DEF BackendExpires, delete_backend, Directory!Remove
  <2>2. QED
    BY <2>1 DEF Directory!Next
<1>2. CASE \E m \in Mux : Crash(m)
  <2> PICK m \in Mux : Crash(m)
    BY <1>2
  <2>1. Home' = Home
    BY DEF Crash, Home, TypeOK
  <2>2. Directory!Forget({k \in Handler : MuxOf[k] = m})
    BY <2>1 DEF Crash, Home, Directory!Forget
  <2>3. QED
    BY <2>2 DEF Directory!Next
<1>3. CASE \E h \in Handler : HandlerRaises(h)
  <2> PICK h \in Handler : HandlerRaises(h)
    BY <1>3
  <2>1. be' = [k \in Handler |-> IF k \in {h} THEN Nil ELSE be[k]]
    BY DEF HandlerRaises, TypeOK
  <2>2. Directory!Forget({h})
    BY <2>1 DEF HandlerRaises, Directory!Forget
  <2>3. QED
    BY <2>2 DEF Directory!Next
<1>4. CASE \E b \in Backend : PingerRaises(b)
  <2>1. UNCHANGED <<de, be>>
    BY <1>4 DEF PingerRaises
  <2>2. Home' = Home
    BY <1>4 DEF PingerRaises, Home, TypeOK
  <2>3. QED
    BY <2>1, <2>2 DEF Home, Directory!vars
<1>5. CASE /\ ~\E p \in Pool : BackendExpires(p)
           /\ ~\E m \in Mux : Crash(m)
           /\ ~\E h \in Handler : HandlerRaises(h)
           /\ ~\E b \in Backend : PingerRaises(b)
  <2>1. UNCHANGED <<de, be, pinger, bpool>>
    BY <1>5 DEF Environment, Request, BackendDies, MutexExpires, AwakeElapses,
      DeregisterPool, DeleteApproximateState, DeletePoolTimestamp, DeletePool
  <2>2. QED
    BY <2>1 DEF Directory!vars
<1>6. QED
  BY <1>1, <1>2, <1>3, <1>4, <1>5

\* The manager implements the directory of backends.
THEOREM DirectoryImplemented == Spec => ImplementsDirectory
<1>1. Init => Directory!Init
  BY InitDirectory
<1>2. IInv /\ [Next]_vars => [Directory!Next]_(Directory!vars)
  <2> SUFFICES ASSUME IInv, [Next]_vars
               PROVE  Directory!Next \/ UNCHANGED Directory!vars
    OBVIOUS
  <2>1. CASE Next
    BY <2>1, HandlerDirectory, PingerDirectory, EnvironmentDirectory DEF Next
  <2>2. CASE UNCHANGED vars
    BY <2>2 DEF vars, db, thread, delegate, Directory!vars
  <2>3. QED
    BY <2>1, <2>2
<1>3. QED
  BY <1>1, <1>2, Invariance, PTL DEF Spec, ImplementsDirectory, Directory!Spec
=============================================================================
