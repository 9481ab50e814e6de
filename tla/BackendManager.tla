--------------------------- MODULE BackendManager ---------------------------
(***************************************************************************)
(* The life of the S3 backends behind the Multiplexers (lens3/manager.go,  *)
(* and ensure_backend_running of lens3/multiplexer.go).  Request handlers  *)
(* of several Multiplexers start a backend for a pool on demand; a pinger  *)
(* thread per backend watches it and stops it.  They meet only in the      *)
(* keyval-db, so each step below is at most one keyval-db operation and    *)
(* the local work around it:                                               *)
(*                                                                         *)
(*   dx:pool  mutex, mutex_ttl   who may start a backend (SETNX + EXPIRE)  *)
(*   de:pool  de, de_ttl         the backend a request is forwarded to     *)
(*   pt:pool  pt                 last access (TRUE: in the awake duration) *)
(*   ps:pool  ps                 approximate state shown to users          *)
(*   po:pool  po                 the pool record                           *)
(*                                                                         *)
(* A Backend is one delegate: the object start_backend_in_mutexed() makes, *)
(* its current process and its pinger.                                     *)
(***************************************************************************)
EXTENDS Naturals, FiniteSets

CONSTANTS
    Mux,                        \* Multiplexer processes, one per host
    Handler,                    \* request threads
    MuxOf,                      \* the Multiplexer of a request thread
    Pool,
    Backend,                    \* supply of delegates (a bound)
    Port,                       \* Port_min..Port_max of a host
    Heartbeat_miss_tolerance,
    Deletable,                  \* pools that may be deleted by Registrar
    Faults,                     \* the faults to consider: "kill", "keyval"
    MaxFault,                   \* how many of them there are (a bound)
    Timely,                     \* TRUE: threads are faster than the expirations
    Nil,                        \* a missing record, a nil pointer
    SUSPENDED                   \* the dummy backend record of a suspended pool

ASSUME ConstantsAssumption ==
    /\ MuxOf \in [Handler -> Mux]
    /\ Heartbeat_miss_tolerance \in Nat
    /\ Deletable \subseteq Pool
    /\ Faults \subseteq {"kill", "keyval"}
    /\ MaxFault \in Nat
    /\ Timely \in BOOLEAN

\* Nil and SUSPENDED stand for no thread, pool, delegate, Multiplexer or port.
ASSUME NilAssumption ==
    /\ Nil \notin Backend /\ SUSPENDED \notin Backend /\ Nil # SUSPENDED
    /\ Nil \notin Handler /\ Nil \notin Pool /\ Nil \notin Mux /\ Nil \notin Port

VARIABLES
    \* the keyval-db
    mutex, mutex_ttl, de, de_ttl, pt, ps, po,
    \* request threads: step, pool, delegate, untried ports, the pool record
    \* it read, and the backend record it ends up with
    pc, pool, d, ports, pooldata, be,
    \* delegates: pool, Multiplexer and port; process; pinger thread;
    \* heartbeat_misses; whether an earlier process of it ended on a port in
    \* use; whether ch_quit_backend is closed
    bpool, bmux, bport, proc, pinger, misses, retried, quit,
    \* Registrar's progress in deleting a pool; kills of Multiplexers and
    \* failures of keyval-db operations so far
    dereg, faults

db == <<mutex, mutex_ttl, de, de_ttl, pt, ps, po>>
thread == <<pc, pool, d, ports, pooldata, be>>
delegate == <<bpool, bmux, bport, proc, pinger, misses, retried, quit>>
env == <<dereg, faults>>
vars == <<db, thread, delegate, env>>

-----------------------------------------------------------------------------
(* Types *)

\* The steps of start_backend() that run between the SETNX on dx:pool and
\* the deferred delete_backend_mutex().
Mutexed == {"expiry", "get_pool", "list_ports", "try", "wait", "publish",
            "approximate", "suspend", "suspend_expiry", "inoperable", "unlock"}
HandlerStep == {"idle", "timestamp", "get_backend", "setnx", "race", "reply"}
               \cup Mutexed

\* "lost": the thread is gone and did not stop its backend: it went down with
\* its Multiplexer, or a failing keyval-db operation ended it.
Pinging == {"start", "sleep", "lifetime", "renew"}
Stopping == {"stop", "withdraw", "shutdown"}
PingerStep == {"none", "done", "lost"} \cup Pinging \cup Stopping

\* "starting": exec'ed and watched by wait_for_backend_come_up().
\* "running": reported as started.  "abandoned": alive, and nobody waits for it.
Process == {"none", "starting", "running", "abandoned", "dead"}

TypeOK ==
    /\ mutex \in [Pool -> Handler \cup {Nil}]
    /\ mutex_ttl \in [Pool -> BOOLEAN]
    /\ de \in [Pool -> Backend \cup {Nil, SUSPENDED}]
    /\ de_ttl \in [Pool -> BOOLEAN]
    /\ pt \in [Pool -> BOOLEAN]
    /\ ps \in [Pool -> {"none", "READY", "SUSPENDED"}]
    /\ po \in [Pool -> {"absent", "operable", "inoperable"}]
    /\ pc \in [Handler -> HandlerStep]
    /\ pool \in [Handler -> Pool \cup {Nil}]
    /\ d \in [Handler -> Backend \cup {Nil}]
    /\ ports \in [Handler -> SUBSET Port]
    /\ pooldata \in [Handler -> {"absent", "operable", "inoperable"}]
    /\ be \in [Handler -> Backend \cup {Nil, SUSPENDED}]
    /\ bpool \in [Backend -> Pool \cup {Nil}]
    /\ bmux \in [Backend -> Mux \cup {Nil}]
    /\ bport \in [Backend -> Port \cup {Nil}]
    /\ proc \in [Backend -> Process]
    /\ pinger \in [Backend -> PingerStep]
    /\ misses \in [Backend -> 0 .. Heartbeat_miss_tolerance + 1]
    /\ retried \in [Backend -> BOOLEAN]
    /\ quit \in [Backend -> BOOLEAN]
    /\ dereg \in [Pool -> {"no", "timestamp", "pool", "done"}]
    /\ faults \in 0 .. MaxFault

\* Pools exist and nothing runs for them yet.
Init ==
    /\ mutex = [p \in Pool |-> Nil]
    /\ mutex_ttl = [p \in Pool |-> FALSE]
    /\ de = [p \in Pool |-> Nil]
    /\ de_ttl = [p \in Pool |-> FALSE]
    /\ pt = [p \in Pool |-> FALSE]
    /\ ps = [p \in Pool |-> "none"]
    /\ po = [p \in Pool |-> "operable"]
    /\ pc = [h \in Handler |-> "idle"]
    /\ pool = [h \in Handler |-> Nil]
    /\ d = [h \in Handler |-> Nil]
    /\ ports = [h \in Handler |-> {}]
    /\ pooldata = [h \in Handler |-> "absent"]
    /\ be = [h \in Handler |-> Nil]
    /\ bpool = [b \in Backend |-> Nil]
    /\ bmux = [b \in Backend |-> Nil]
    /\ bport = [b \in Backend |-> Nil]
    /\ proc = [b \in Backend |-> "none"]
    /\ pinger = [b \in Backend |-> "none"]
    /\ misses = [b \in Backend |-> 0]
    /\ retried = [b \in Backend |-> FALSE]
    /\ quit = [b \in Backend |-> FALSE]
    /\ dereg = [p \in Pool |-> "no"]
    /\ faults = 0

-----------------------------------------------------------------------------
(* Operations on the keyval-db *)

\* delete_backend_mutex() and delete_backend() delete whatever is there.
delete_backend_mutex(p) ==
    /\ mutex' = [mutex EXCEPT ![p] = Nil]
    /\ mutex_ttl' = [mutex_ttl EXCEPT ![p] = FALSE]

delete_backend(p) ==
    /\ de' = [de EXCEPT ![p] = Nil]
    /\ de_ttl' = [de_ttl EXCEPT ![p] = FALSE]

\* SET drops an expiration that the key had.
set_backend(p, r) ==
    /\ de' = [de EXCEPT ![p] = r]
    /\ de_ttl' = [de_ttl EXCEPT ![p] = FALSE]

\* EXPIRE has no effect on a missing key.
set_backend_expiry(p) ==
    de_ttl' = IF de[p] = Nil THEN de_ttl ELSE [de_ttl EXCEPT ![p] = TRUE]

goto(h, s) == pc' = [pc EXCEPT ![h] = s]

-----------------------------------------------------------------------------
(* A request: ensure_backend_running() *)

\* Every request in progress may need a delegate.
SupplyLeft ==
    Cardinality({b \in Backend : bpool[b] = Nil})
        > Cardinality({h \in Handler : pc[h] # "idle"})

\* serve_authenticated_access(), serve_anonymous_access(): the pool record is
\* read and found usable before ensure_backend_running() is called.
Request(h, p) ==
    /\ pc[h] = "idle"
    /\ SupplyLeft
    /\ po[p] = "operable"
    /\ goto(h, "timestamp")
    /\ pool' = [pool EXCEPT ![h] = p]
    /\ UNCHANGED <<db, d, ports, pooldata, be, delegate, env>>

SetPoolTimestamp(h) ==
    /\ pc[h] = "timestamp"
    /\ pt' = [pt EXCEPT ![pool[h]] = TRUE]
    /\ goto(h, "get_backend")
    /\ UNCHANGED <<mutex, mutex_ttl, de, de_ttl, ps, po,
                   pool, d, ports, pooldata, be, delegate, env>>

GetBackend(h) ==
    /\ pc[h] = "get_backend"
    /\ be' = [be EXCEPT ![h] = de[pool[h]]]
    /\ goto(h, IF de[pool[h]] = Nil THEN "setnx" ELSE "reply")
    /\ UNCHANGED <<db, pool, d, ports, pooldata, delegate, env>>

\* A READY record: the request is forwarded; SUSPENDED: 503; Nil: 500.
Reply(h) ==
    /\ pc[h] = "reply"
    /\ goto(h, "idle")
    /\ pool' = [pool EXCEPT ![h] = Nil]
    /\ d' = [d EXCEPT ![h] = Nil]
    /\ be' = [be EXCEPT ![h] = Nil]
    /\ pooldata' = [pooldata EXCEPT ![h] = "absent"]
    /\ ports' = [ports EXCEPT ![h] = {}]
    /\ UNCHANGED <<db, delegate, env>>

-----------------------------------------------------------------------------
(* start_backend() *)

SetExBackendMutex(h) ==
    /\ pc[h] = "setnx"
    /\ mutex[pool[h]] = Nil
    /\ mutex' = [mutex EXCEPT ![pool[h]] = h]
    /\ mutex_ttl' = [mutex_ttl EXCEPT ![pool[h]] = FALSE]
    /\ goto(h, "expiry")
    /\ UNCHANGED <<de, de_ttl, pt, ps, po, pool, d, ports, pooldata, be,
                   delegate, env>>

LoseRace(h) ==
    /\ pc[h] = "setnx"
    /\ mutex[pool[h]] # Nil
    /\ goto(h, "race")
    /\ UNCHANGED <<db, pool, d, ports, pooldata, be, delegate, env>>

\* Mutant: the poll has no time limit.
WaitForBackendByRace_NoLimit(h) ==
    /\ pc[h] = "race"
    /\ de[pool[h]] # Nil
    /\ be' = [be EXCEPT ![h] = de[pool[h]]]
    /\ goto(h, "reply")
    /\ UNCHANGED <<db, pool, d, ports, pooldata, delegate, env>>

\* wait_for_backend_by_race(): poll de:pool, and give up after a while.
WaitForBackendByRace(h) ==
    /\ pc[h] = "race"
    /\ \/ /\ de[pool[h]] # Nil
          /\ be' = [be EXCEPT ![h] = de[pool[h]]]
       \/ be' = [be EXCEPT ![h] = Nil]
    /\ goto(h, "reply")
    /\ UNCHANGED <<db, pool, d, ports, pooldata, delegate, env>>

\* Mutant: dx:pool gets no expiration.
SetBackendMutexExpiry_Missing(h) ==
    /\ pc[h] = "expiry"
    /\ goto(h, "get_pool")
    /\ UNCHANGED <<db, pool, d, ports, pooldata, be, delegate, env>>

SetBackendMutexExpiry(h) ==
    /\ pc[h] = "expiry"
    /\ mutex_ttl' = IF mutex[pool[h]] = Nil THEN mutex_ttl
                    ELSE [mutex_ttl EXCEPT ![pool[h]] = TRUE]
    /\ goto(h, "get_pool")
    /\ UNCHANGED <<mutex, de, de_ttl, pt, ps, po, pool, d, ports, pooldata, be,
                   delegate, env>>

\* Mutant: the return for a missing pool precedes the deferred delete.
PoolMissing_NoDefer(h) ==
    /\ pc[h] = "get_pool"
    /\ po[pool[h]] = "absent"
    /\ goto(h, "reply")
    /\ UNCHANGED <<db, pool, d, ports, pooldata, be, delegate, env>>

\* start_backend_in_mutexed(): get_pool(), and an early return.
PoolMissing(h) ==
    /\ pc[h] = "get_pool"
    /\ po[pool[h]] = "absent"
    /\ goto(h, "unlock")
    /\ UNCHANGED <<db, pool, d, ports, pooldata, be, delegate, env>>

\* get_pool() and make_delegate().  de:pool is not looked at again.
GetPool(h) ==
    /\ pc[h] = "get_pool"
    /\ po[pool[h]] # "absent"
    /\ pooldata' = [pooldata EXCEPT ![h] = po[pool[h]]]
    /\ \E b \in Backend :
          /\ bpool[b] = Nil
          /\ d' = [d EXCEPT ![h] = b]
          /\ bpool' = [bpool EXCEPT ![b] = pool[h]]
          /\ bmux' = [bmux EXCEPT ![b] = MuxOf[h]]
    /\ goto(h, "list_ports")
    /\ UNCHANGED <<db, pool, ports, be, bport, proc, pinger, misses, retried,
                   quit, env>>

\* list_available_ports(): the ports but those of the backends this
\* Multiplexer has recorded in de:.
UsedPorts(m) ==
    {bport[b] : b \in {b \in Backend : bmux[b] = m /\ \E p \in Pool : de[p] = b}}

ListAvailablePorts(h) ==
    /\ pc[h] = "list_ports"
    /\ ports' = [ports EXCEPT ![h] = Port \ UsedPorts(MuxOf[h])]
    /\ goto(h, "try")
    /\ UNCHANGED <<db, pool, d, pooldata, be, delegate, env>>

\* try_start_backend(): exec the server on the next port of the (shuffled)
\* list, with a new ch_quit_backend.
TryStartBackend(h, n) ==
    /\ pc[h] = "try"
    /\ n \in ports[h]
    /\ ports' = [ports EXCEPT ![h] = @ \ {n}]
    /\ bport' = [bport EXCEPT ![d[h]] = n]
    /\ proc' = [proc EXCEPT ![d[h]] = "starting"]
    /\ quit' = [quit EXCEPT ![d[h]] = FALSE]
    /\ goto(h, "wait")
    /\ UNCHANGED <<db, pool, d, pooldata, be, bpool, bmux, pinger, misses,
                   retried, env>>

\* A failure to exec is persistent.
ExecFails(h, n) ==
    /\ pc[h] = "try"
    /\ n \in ports[h]
    /\ ports' = [ports EXCEPT ![h] = @ \ {n}]
    /\ bport' = [bport EXCEPT ![d[h]] = n]
    /\ quit' = [quit EXCEPT ![d[h]] = TRUE]
    /\ goto(h, "inoperable")
    /\ UNCHANGED <<db, pool, d, pooldata, be, bpool, bmux, proc, pinger, misses,
                   retried, env>>

\* All ports are tried and failed.
NoPortsLeft(h) ==
    /\ pc[h] = "try"
    /\ ports[h] = {}
    /\ goto(h, "suspend")
    /\ UNCHANGED <<db, pool, d, ports, pooldata, be, delegate, env>>

\* A port is taken by a live process of the same host.
PortTaken(b) ==
    \E c \in Backend \ {b} :
        /\ bmux[c] = bmux[b] /\ bport[c] = bport[b]
        /\ proc[c] \in {"running", "abandoned"}

\* wait_for_backend_come_up() is told of a success.
ComeUp(h) ==
    /\ pc[h] = "wait"
    /\ proc[d[h]] = "starting"
    /\ ~PortTaken(d[h])
    /\ proc' = [proc EXCEPT ![d[h]] = "running"]
    /\ goto(h, "publish")
    /\ UNCHANGED <<db, pool, d, ports, pooldata, be, bpool, bmux, bport,
                   pinger, misses, retried, quit, env>>

\* start_to_retry: the port is in use (by anyone), the server exits.
PortInUse(h) ==
    /\ pc[h] = "wait"
    /\ proc[d[h]] = "starting"
    /\ proc' = [proc EXCEPT ![d[h]] = "dead"]
    /\ retried' = [retried EXCEPT ![d[h]] = TRUE]
    /\ goto(h, "try")
    /\ UNCHANGED <<db, pool, d, ports, pooldata, be, bpool, bmux, bport,
                   pinger, misses, quit, env>>

\* start_transient_failure: a timeout.  The process is left as it is.
StartTimeout(h) ==
    /\ pc[h] = "wait"
    /\ proc' = [proc EXCEPT ![d[h]] = IF @ = "starting" THEN "abandoned" ELSE @]
    /\ goto(h, "suspend")
    /\ UNCHANGED <<db, pool, d, ports, pooldata, be, bpool, bmux, bport,
                   pinger, misses, retried, quit, env>>

\* start_persistent_failure: an error message, closed pipes, or a flood of
\* messages.  The process is left as it is.
StartFailure(h) ==
    /\ pc[h] = "wait"
    /\ proc' = [proc EXCEPT ![d[h]] = IF @ = "starting" THEN "abandoned" ELSE @]
    /\ goto(h, "inoperable")
    /\ UNCHANGED <<db, pool, d, ports, pooldata, be, bpool, bmux, bport,
                   pinger, misses, retried, quit, env>>

\* set_backend() of a READY record, and "go ping_backend()".
Publish(h) ==
    /\ pc[h] = "publish"
    /\ set_backend(pool[h], d[h])
    /\ pinger' = [pinger EXCEPT ![d[h]] = "start"]
    /\ be' = [be EXCEPT ![h] = d[h]]
    /\ goto(h, "approximate")
    /\ UNCHANGED <<mutex, mutex_ttl, pt, ps, po, pool, d, ports, pooldata,
                   bpool, bmux, bport, proc, misses, retried, quit, env>>

\* suspend_pool(): a dummy record, and then its expiration.
Suspend(h) ==
    /\ pc[h] = "suspend"
    /\ set_backend(pool[h], SUSPENDED)
    /\ be' = [be EXCEPT ![h] = SUSPENDED]
    /\ goto(h, "suspend_expiry")
    /\ UNCHANGED <<mutex, mutex_ttl, pt, ps, po, pool, d, ports, pooldata,
                   delegate, env>>

SuspendExpiry(h) ==
    /\ pc[h] = "suspend_expiry"
    /\ set_backend_expiry(pool[h])
    /\ goto(h, "approximate")
    /\ UNCHANGED <<mutex, mutex_ttl, de, pt, ps, po, pool, d, ports, pooldata,
                   be, delegate, env>>

SetApproximateState(h) ==
    /\ pc[h] = "approximate"
    /\ ps' = [ps EXCEPT ![pool[h]] =
                  IF be[h] = SUSPENDED THEN "SUSPENDED" ELSE "READY"]
    /\ goto(h, "unlock")
    /\ UNCHANGED <<mutex, mutex_ttl, de, de_ttl, pt, po, pool, d, ports,
                   pooldata, be, delegate, env>>

\* mark_pool_inoperable() writes back the record read by GetPool.
MarkPoolInoperable(h) ==
    /\ pc[h] = "inoperable"
    /\ po' = IF pooldata[h] = "inoperable" THEN po
             ELSE [po EXCEPT ![pool[h]] = "inoperable"]
    /\ goto(h, "unlock")
    /\ UNCHANGED <<mutex, mutex_ttl, de, de_ttl, pt, ps, pool, d, ports,
                   pooldata, be, delegate, env>>

\* The deferred delete_backend_mutex().
Unlock(h) ==
    /\ pc[h] = "unlock"
    /\ delete_backend_mutex(pool[h])
    /\ goto(h, "reply")
    /\ UNCHANGED <<de, de_ttl, pt, ps, po, pool, d, ports, pooldata, be,
                   delegate, env>>

HandlerNext(h) ==
    \/ SetPoolTimestamp(h) \/ GetBackend(h) \/ Reply(h)
    \/ SetExBackendMutex(h) \/ LoseRace(h) \/ WaitForBackendByRace(h)
    \/ SetBackendMutexExpiry(h) \/ PoolMissing(h) \/ GetPool(h)
    \/ ListAvailablePorts(h) \/ NoPortsLeft(h)
    \/ \E n \in Port : TryStartBackend(h, n) \/ ExecFails(h, n)
    \/ ComeUp(h) \/ PortInUse(h) \/ StartTimeout(h) \/ StartFailure(h)
    \/ Publish(h) \/ Suspend(h) \/ SuspendExpiry(h)
    \/ SetApproximateState(h) \/ MarkPoolInoperable(h) \/ Unlock(h)

-----------------------------------------------------------------------------
(* The pinger thread of a delegate: ping_backend() *)

step(b, s) == pinger' = [pinger EXCEPT ![b] = s]

\* Mutant: the pinger leaves the first expiration to its loop.
PingStart_NoExpiry(b) ==
    /\ pinger[b] = "start"
    /\ step(b, "sleep")
    /\ UNCHANGED <<db, thread, bpool, bmux, bport, proc, misses, retried, quit,
                   env>>

PingStart(b) ==
    /\ pinger[b] = "start"
    /\ set_backend_expiry(bpool[b])
    /\ step(b, "sleep")
    /\ UNCHANGED <<mutex, mutex_ttl, de, pt, ps, po, thread,
                   bpool, bmux, bport, proc, misses, retried, quit, env>>

\* Mutant: misses are counted, and not compared with the tolerance.
HeartbeatMiss_NoTolerance(b) ==
    /\ pinger[b] = "sleep"
    /\ misses' = [misses EXCEPT ![b] = @ + 1]
    /\ step(b, "lifetime")
    /\ UNCHANGED <<db, thread, bpool, bmux, bport, proc, retried, quit, env>>

\* Mutant: the count of misses is lost from one interval to the next.
HeartbeatMiss_Forgetful(b) ==
    /\ pinger[b] = "sleep"
    /\ step(b, "lifetime")
    /\ UNCHANGED <<db, thread, bpool, bmux, bport, proc, misses, retried, quit,
                   env>>

\* A heartbeat is not answered by 200; too many in a row end the loop.
HeartbeatMiss(b) ==
    /\ pinger[b] = "sleep"
    /\ misses' = [misses EXCEPT ![b] = @ + 1]
    /\ step(b, IF misses[b] + 1 > Heartbeat_miss_tolerance
               THEN "stop" ELSE "lifetime")
    /\ UNCHANGED <<db, thread, bpool, bmux, bport, proc, retried, quit, env>>

\* A heartbeat is answered by the process that has the port, whichever
\* delegate it belongs to: it is a plain request to an endpoint.
Answered(b) ==
    \E c \in Backend :
        /\ bmux[c] = bmux[b] /\ bport[c] = bport[b]
        /\ proc[c] \in {"running", "abandoned"}

\* The top of the loop.  A closed ch_quit_backend is received there, but the
\* "break" leaves the select and not the loop: quit has no influence.
Heartbeat(b) ==
    /\ pinger[b] = "sleep"
    /\ Answered(b)
    /\ misses' = [misses EXCEPT ![b] = 0]
    /\ step(b, "lifetime")
    /\ UNCHANGED <<db, thread, bpool, bmux, bport, proc, retried, quit, env>>

\* Mutant: a missing or old timestamp is not taken as elapsed.
CheckLifetime_Never(b) ==
    /\ pinger[b] = "lifetime"
    /\ step(b, "renew")
    /\ UNCHANGED <<db, thread, bpool, bmux, bport, proc, misses, retried, quit,
                   env>>

\* get_pool_timestamp(): stop when the awake duration elapsed.
CheckLifetime(b) ==
    /\ pinger[b] = "lifetime"
    /\ step(b, IF pt[bpool[b]] THEN "renew" ELSE "stop")
    /\ UNCHANGED <<db, thread, bpool, bmux, bport, proc, misses, retried, quit, env>>

\* Mutant: the record is set again, in place of extending what is there.
Renew_SetAgain(b) ==
    /\ pinger[b] = "renew"
    /\ de' = [de EXCEPT ![bpool[b]] = b]
    /\ de_ttl' = [de_ttl EXCEPT ![bpool[b]] = TRUE]
    /\ step(b, "sleep")
    /\ UNCHANGED <<mutex, mutex_ttl, pt, ps, po, thread,
                   bpool, bmux, bport, proc, misses, retried, quit, env>>

\* Extend the expiration; stop when there is no record.
Renew(b) ==
    /\ pinger[b] = "renew"
    /\ set_backend_expiry(bpool[b])
    /\ step(b, IF de[bpool[b]] # Nil THEN "sleep" ELSE "stop")
    /\ UNCHANGED <<mutex, mutex_ttl, de, pt, ps, po, thread,
                   bpool, bmux, bport, proc, misses, retried, quit, env>>

\* stop_backend(), in three steps.
StopMutex(b) ==
    /\ pinger[b] = "stop"
    /\ delete_backend_mutex(bpool[b])
    /\ step(b, "withdraw")
    /\ UNCHANGED <<de, de_ttl, pt, ps, po, thread,
                   bpool, bmux, bport, proc, misses, retried, quit, env>>

\* Mutant: the record is left to its expiration.
Withdraw_LeaveRecord(b) ==
    /\ pinger[b] = "withdraw"
    /\ step(b, "shutdown")
    /\ UNCHANGED <<db, thread, bpool, bmux, bport, proc, misses, retried, quit,
                   env>>

Withdraw(b) ==
    /\ pinger[b] = "withdraw"
    /\ delete_backend(bpool[b])
    /\ step(b, "shutdown")
    /\ UNCHANGED <<mutex, mutex_ttl, pt, ps, po, thread,
                   bpool, bmux, bport, proc, misses, retried, quit, env>>

\* shutdown(), and Cancel() when it fails; a stopped process ignores both.
\* The thread ends, and its count of misses with it.
Shutdown(b) ==
    /\ pinger[b] = "shutdown"
    /\ step(b, "done")
    /\ misses' = [misses EXCEPT ![b] = 0]
    /\ \/ /\ proc' = [proc EXCEPT ![b] = "dead"]
          /\ quit' = [quit EXCEPT ![b] = TRUE]
       \/ /\ proc[b] = "running"
          /\ proc' = [proc EXCEPT ![b] = "abandoned"]
          /\ UNCHANGED quit
    /\ UNCHANGED <<db, thread, bpool, bmux, bport, retried, env>>

PingerNext(b) ==
    \/ PingStart(b) \/ Heartbeat(b) \/ HeartbeatMiss(b) \/ CheckLifetime(b) \/ Renew(b)
    \/ StopMutex(b) \/ Withdraw(b) \/ Shutdown(b)

\* The thread of start_disgorging_stdio() that sees both pipes closed calls
\* abort_backend(), which closes the quit channel of the delegate's latest
\* process, whichever process the pipes belonged to.  When a process ends by
\* itself or is shut down it is part of that step; for one that ended on a port
\* in use it is here, at any time later, when a next process may be there.
AbortBackend(b) ==
    /\ retried[b]
    /\ ~quit[b]
    /\ quit' = [quit EXCEPT ![b] = TRUE]
    /\ UNCHANGED <<db, thread, bpool, bmux, bport, proc, pinger, misses,
                   retried, env>>

-----------------------------------------------------------------------------
(* The surroundings *)

\* The server process ends by itself.
BackendDies(b) ==
    /\ proc[b] \in {"starting", "running", "abandoned"}
    /\ proc' = [proc EXCEPT ![b] = "dead"]
    /\ quit' = [quit EXCEPT ![b] = TRUE]
    /\ UNCHANGED <<db, thread, bpool, bmux, bport, pinger, misses, retried, env>>

\* With Timely, dx:pool outlives its holder's start, and de:pool the pinger's
\* interval between two extensions.
MutexExpires(p) ==
    /\ mutex[p] # Nil
    /\ mutex_ttl[p]
    /\ Timely => ~(pc[mutex[p]] \in Mutexed /\ pool[mutex[p]] = p)
    /\ delete_backend_mutex(p)
    /\ UNCHANGED <<de, de_ttl, pt, ps, po, thread, delegate, env>>

BackendExpires(p) ==
    /\ de[p] # Nil
    /\ de_ttl[p]
    /\ Timely /\ de[p] \in Backend => pinger[de[p]] \notin Pinging
    /\ delete_backend(p)
    /\ UNCHANGED <<mutex, mutex_ttl, pt, ps, po, thread, delegate, env>>

AwakeElapses(p) ==
    /\ pt[p]
    /\ pt' = [pt EXCEPT ![p] = FALSE]
    /\ UNCHANGED <<mutex, mutex_ttl, de, de_ttl, ps, po, thread, delegate, env>>

\* Registrar deletes a pool: the part of deregister_pool_by_prop() that
\* touches ps:, pt: and po:, in this order.
DeleteApproximateState(p) ==
    /\ p \in Deletable
    /\ dereg[p] = "no"
    /\ po[p] # "absent"
    /\ ps' = [ps EXCEPT ![p] = "none"]
    /\ dereg' = [dereg EXCEPT ![p] = "timestamp"]
    /\ UNCHANGED <<mutex, mutex_ttl, de, de_ttl, pt, po, thread, delegate, faults>>

DeletePoolTimestamp(p) ==
    /\ dereg[p] = "timestamp"
    /\ pt' = [pt EXCEPT ![p] = FALSE]
    /\ dereg' = [dereg EXCEPT ![p] = "pool"]
    /\ UNCHANGED <<mutex, mutex_ttl, de, de_ttl, ps, po, thread, delegate, faults>>

DeletePool(p) ==
    /\ dereg[p] = "pool"
    /\ po' = [po EXCEPT ![p] = "absent"]
    /\ dereg' = [dereg EXCEPT ![p] = "done"]
    /\ UNCHANGED <<mutex, mutex_ttl, de, de_ttl, pt, ps, thread, delegate, faults>>

DeregisterPool(p) ==
    DeleteApproximateState(p) \/ DeletePoolTimestamp(p) \/ DeletePool(p)

\* A fault of the kind k happens, within the bound.
Fault(k) ==
    /\ k \in Faults
    /\ faults < MaxFault
    /\ faults' = faults + 1

\* A keyval-db operation of a request thread fails and raises.  The exception
\* passes through start_backend() to the recover() of the request, which
\* answers 500; the deferred delete_backend_mutex() runs on the way when it is
\* already registered, which it is not at "expiry".  (An operation that took
\* effect and whose answer is lost is the failure of the next operation.)
HandlerRaises(h) ==
    /\ pc[h] \notin {"idle", "reply", "try", "wait"}
    /\ pc[h] = "inoperable" => pooldata[h] # "inoperable"
    /\ Fault("keyval")
    /\ goto(h, IF pc[h] \in Mutexed \ {"expiry", "unlock"}
               THEN "unlock" ELSE "reply")
    /\ be' = [be EXCEPT ![h] = Nil]
    /\ UNCHANGED <<db, pool, d, ports, pooldata, delegate, dereg>>

\* The recover() of ping_backend() only logs: a pinger whose keyval-db
\* operation fails ends, and its backend is not stopped.
PingerRaises(b) ==
    /\ pinger[b] \in {"start", "lifetime", "renew", "stop", "withdraw"}
    /\ Fault("keyval")
    /\ pinger' = [pinger EXCEPT ![b] = "lost"]
    /\ misses' = [misses EXCEPT ![b] = 0]
    /\ UNCHANGED <<db, thread, bpool, bmux, bport, proc, retried, quit, dereg>>

\* force_quit_service() or a kill: the threads of a Multiplexer are gone and
\* the processes of its group are killed; the service is started again.
Crash(m) ==
    LET mine == {h \in Handler : MuxOf[h] = m}
        its == {b \in Backend : bmux[b] = m} IN
    /\ Fault("kill")
    /\ pc' = [h \in Handler |-> IF h \in mine THEN "idle" ELSE pc[h]]
    /\ pool' = [h \in Handler |-> IF h \in mine THEN Nil ELSE pool[h]]
    /\ d' = [h \in Handler |-> IF h \in mine THEN Nil ELSE d[h]]
    /\ ports' = [h \in Handler |-> IF h \in mine THEN {} ELSE ports[h]]
    /\ pooldata' = [h \in Handler |-> IF h \in mine THEN "absent" ELSE pooldata[h]]
    /\ be' = [h \in Handler |-> IF h \in mine THEN Nil ELSE be[h]]
    /\ proc' = [b \in Backend |->
                   IF b \in its /\ proc[b] # "none" THEN "dead" ELSE proc[b]]
    /\ pinger' = [b \in Backend |->
                   IF b \in its /\ pinger[b] # "none" THEN "lost" ELSE pinger[b]]
    /\ misses' = [b \in Backend |-> IF b \in its THEN 0 ELSE misses[b]]
    /\ retried' = [b \in Backend |-> b \notin its /\ retried[b]]
    /\ UNCHANGED <<db, bpool, bmux, bport, quit, dereg>>

Environment ==
    \/ \E h \in Handler, p \in Pool : Request(h, p)
    \/ \E b \in Backend : BackendDies(b)
    \/ \E p \in Pool : MutexExpires(p) \/ BackendExpires(p) \/ AwakeElapses(p)
    \/ \E p \in Pool : DeregisterPool(p)
    \/ \E h \in Handler : HandlerRaises(h)
    \/ \E b \in Backend : PingerRaises(b)
    \/ \E m \in Mux : Crash(m)

Next ==
    \/ \E h \in Handler : HandlerNext(h)
    \/ \E b \in Backend : PingerNext(b) \/ AbortBackend(b)
    \/ Environment

\* Threads are scheduled and expirations happen; requests, failures,
\* deletions and kills need not.  Neither does a late AbortBackend: its
\* thread may be stuck in sending to a channel that nobody reads.
Fairness ==
    /\ \A h \in Handler : WF_vars(HandlerNext(h))
    /\ \A b \in Backend : WF_vars(PingerNext(b))
    /\ \A p \in Pool : WF_vars(MutexExpires(p)) /\ WF_vars(BackendExpires(p))

Spec == Init /\ [][Next]_vars

FairSpec == Spec /\ Fairness
-----------------------------------------------------------------------------
(* Properties *)

\* The de: record that requests are routed by is withdrawn before the backend
\* it names is shut down (stop_backend(): delete_backend(), and then
\* shutdown()), and it names a backend of that pool, whatever other handlers
\* and pingers of the pool did to the record in between.
WithdrawnBeforeShutdown ==
    \A p \in Pool : \A b \in Backend :
        de[p] = b => /\ bpool[b] = p
                     /\ pinger[b] \in Pinging \cup {"stop", "withdraw", "lost"}

\* Every early return of start_backend_in_mutexed() passes the deferred
\* delete_backend_mutex(): a dx: record is only there while the thread that
\* set it is at work for that pool (unless there was a fault).
MutexHolderAtWork ==
    faults = 0 =>
        \A p \in Pool : mutex[p] # Nil =>
            pc[mutex[p]] \in Mutexed /\ pool[mutex[p]] = p

\* SETNX and EXPIRE of dx: are two operations; a mutex without an expiration
\* has its holder about to set one (unless there was a fault).
MutexGetsExpiry ==
    faults = 0 =>
        \A p \in Pool : mutex[p] # Nil /\ ~mutex_ttl[p] =>
            pc[mutex[p]] = "expiry" /\ pool[mutex[p]] = p

\* SET drops the expiration of de:, and the new one is set by another step,
\* possibly of another thread: a record without an expiration is about to get
\* one from the pinger of the very backend it names, or from the handler that
\* suspends the pool (unless there was a fault).
RecordGetsExpiry ==
    faults = 0 =>
        \A p \in Pool : de[p] # Nil /\ ~de_ttl[p] =>
            \/ de[p] \in Backend /\ pinger[de[p]] = "start"
            \/ /\ de[p] = SUSPENDED
               /\ \E h \in Handler : pc[h] = "suspend_expiry" /\ pool[h] = p

\* The manager implements the directory of backends: one entry per pool, no
\* backend entered twice, requests answered from the current entry.
Directory == INSTANCE BackendDirectory WITH
    entry <- de,
    home <- [b \in Backend |-> IF pinger[b] = "none" THEN Nil ELSE bpool[b]],
    answer <- be

ImplementsDirectory == Directory!Spec

\* A request is always answered: neither the mutex, nor the wait for another
\* thread's start, nor the tries of ports hold it forever.
EveryRequestAnswered == \A h \in Handler : []<>(pc[h] = "idle")

\* A pool that is not accessed any more ends up without a pinger at work:
\* its backends are stopped when the awake duration elapsed.
IdleBackendStopped ==
    \A p \in Pool :
        <>[](~pt[p]) =>
            <>[](\A b \in Backend : bpool[b] = p =>
                    pinger[b] \notin Pinging \cup Stopping)

\* Requests of a pool are not sent forever to a port that nobody serves: the
\* record in de: changes, or some process of the host gets the port.  (That
\* process may be another pool's, whose answers keep the pinger of a dead
\* backend and its record going; so it is not said that a dead backend leaves
\* de:.)
SilentPortWithdrawn ==
    \A p \in Pool : \A b \in Backend : []<>(de[p] # b \/ Answered(b))

(* What documents and comments say, and the code does not keep *)

\* "It is used to ensure only a single backend starts."
SingleBackend ==
    \A b, c \in Backend :
        proc[b] = "running" /\ proc[c] = "running" /\ bpool[b] = bpool[c] => b = c

\* "It will shutdown the backend, either when heartbeating fails or it is
\* instructed to stop the backend."
QuitObeyed ==
    \A b \in Backend :
        quit[b] /\ pinger[b] \in Pinging ~> pinger[b] \notin Pinging
=============================================================================
