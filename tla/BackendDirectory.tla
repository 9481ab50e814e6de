-------------------------- MODULE BackendDirectory --------------------------
(***************************************************************************)
(* What the Multiplexers promise about the de: records, without dx:, the   *)
(* pingers and the expirations.  The directory holds at most one entry for *)
(* a pool.  A backend enters it once, for one pool, and never comes back   *)
(* after it was taken out or replaced.  A request is answered with what    *)
(* the directory holds for its pool at the instant of the answer, or not   *)
(* at all.                                                                 *)
(***************************************************************************)
CONSTANTS Handler, Pool, Backend, Nil, SUSPENDED

VARIABLES
    entry,      \* pool -> backend, SUSPENDED or Nil
    home,       \* backend -> the pool it was entered for, Nil before that
    answer      \* request thread -> what it was answered with

vars == <<entry, home, answer>>

Init ==
    /\ entry = [p \in Pool |-> Nil]
    /\ home = [b \in Backend |-> Nil]
    /\ answer = [h \in Handler |-> Nil]

\* A backend is started for the request h and entered.
Enter(h, p, b) ==
    /\ home[b] = Nil
    /\ home' = [home EXCEPT ![b] = p]
    /\ entry' = [entry EXCEPT ![p] = b]
    /\ answer' = [answer EXCEPT ![h] = b]

\* No backend can be started: the pool is blocked for a while.
Block(h, p) ==
    /\ entry' = [entry EXCEPT ![p] = SUSPENDED]
    /\ answer' = [answer EXCEPT ![h] = SUSPENDED]
    /\ UNCHANGED home

Remove(p) ==
    /\ entry' = [entry EXCEPT ![p] = Nil]
    /\ UNCHANGED <<home, answer>>

Lookup(h, p) ==
    /\ answer' = [answer EXCEPT ![h] = entry[p]]
    /\ UNCHANGED <<entry, home>>

\* Requests end, or fail.
Forget(H) ==
    /\ answer' = [h \in Handler |-> IF h \in H THEN Nil ELSE answer[h]]
    /\ UNCHANGED <<entry, home>>

Next ==
    \/ \E h \in Handler, p \in Pool, b \in Backend : Enter(h, p, b)
    \/ \E h \in Handler, p \in Pool : Block(h, p) \/ Lookup(h, p)
    \/ \E p \in Pool : Remove(p)
    \/ \E H \in SUBSET Handler : Forget(H)

Spec == Init /\ [][Next]_vars
=============================================================================
