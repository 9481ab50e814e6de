------------------------------ MODULE PoolSet ------------------------------
(***************************************************************************)
(* What Registrar promises about pools to users who do not race with each  *)
(* other: a pool is one object.  It appears with its bucket-directory and  *)
(* its first key at once, and disappears with all of its buckets and keys  *)
(* at once.  A directory belongs to at most one pool, a bucket or a key to *)
(* one pool that exists, and neither a name nor a key is ever given again. *)
(* The order of the records, the probes and the undoings are not seen.     *)
(***************************************************************************)
CONSTANTS Pool, Key, Path, Bucket, Nil

VARIABLES
    directory,      \* pool -> its bucket-directory, Nil without the pool
    owner,          \* bucket -> its pool or Nil
    holder,         \* key -> its pool or Nil
    used,           \* pool-names given, or wasted on a refusal
    issued          \* keys given

vars == <<directory, owner, holder, used, issued>>

Init ==
    /\ directory = [p \in Pool |-> Nil]
    /\ owner = [b \in Bucket |-> Nil]
    /\ holder = [k \in Key |-> Nil]
    /\ used = {} /\ issued = {}

Make(p, f, k) ==
    /\ p \notin used /\ k \notin issued
    /\ \A q \in Pool : directory[q] # f
    /\ directory' = [directory EXCEPT ![p] = f]
    /\ holder' = [holder EXCEPT ![k] = p]
    /\ used' = used \cup {p}
    /\ issued' = issued \cup {k}
    /\ UNCHANGED owner

\* A pool is refused only for a directory that a pool has.
Refuse(p, f) ==
    /\ p \notin used
    /\ \E q \in Pool : directory[q] = f
    /\ used' = used \cup {p}
    /\ UNCHANGED <<directory, owner, holder, issued>>

Delete(p) ==
    /\ directory[p] # Nil
    /\ directory' = [directory EXCEPT ![p] = Nil]
    /\ owner' = [b \in Bucket |-> IF owner[b] = p THEN Nil ELSE owner[b]]
    /\ holder' = [k \in Key |-> IF holder[k] = p THEN Nil ELSE holder[k]]
    /\ UNCHANGED <<used, issued>>

AddBucket(p, b) ==
    /\ directory[p] # Nil
    /\ owner[b] = Nil
    /\ owner' = [owner EXCEPT ![b] = p]
    /\ UNCHANGED <<directory, holder, used, issued>>

RemoveBucket(b) ==
    /\ owner' = [owner EXCEPT ![b] = Nil]
    /\ UNCHANGED <<directory, holder, used, issued>>

AddKey(p, k) ==
    /\ directory[p] # Nil
    /\ k \notin issued
    /\ holder' = [holder EXCEPT ![k] = p]
    /\ issued' = issued \cup {k}
    /\ UNCHANGED <<directory, owner, used>>

RemoveKey(k) ==
    /\ holder' = [holder EXCEPT ![k] = Nil]
    /\ UNCHANGED <<directory, owner, used, issued>>

Next ==
    \/ \E p \in Pool, f \in Path, k \in Key : Make(p, f, k)
    \/ \E p \in Pool, f \in Path : Refuse(p, f)
    \/ \E p \in Pool : Delete(p)
    \/ \E p \in Pool, b \in Bucket : AddBucket(p, b)
    \/ \E b \in Bucket : RemoveBucket(b)
    \/ \E p \in Pool, k \in Key : AddKey(p, k)
    \/ \E k \in Key : RemoveKey(k)

Spec == Init /\ [][Next]_vars
=============================================================================
