---------------------------- MODULE AccessCheck ----------------------------
(***************************************************************************)
(* Multiplexer: the checks that a request for a bucket passes before it is *)
(* forwarded, each of which reads a record of the keyval-db by itself,     *)
(* while sessions of Registrar and the administrator of UserAccounts       *)
(* change users, pools, buckets and keys.                                  *)
(***************************************************************************)
EXTENDS UserAccounts

CONSTANTS
    Req,       \* requests that Multiplexer serves at a time
    Method

ASSUME RequestAssumption ==
    Method \subseteq {"GET", "HEAD", "PUT", "POST", "DELETE", "PATCH"}

VARIABLES
    req,       \* what each request in Multiplexer is doing
    seen,      \* history: the conditions that have held since it came
    quiet      \* history: no record has changed since it came

vars == <<conf, now, uu, um, po, bkt, sec, used, ses, adm, begun, late, req, seen, quiet>>

\* What a request came with, and the records read.
Request == [pc : {"idle", "key", "bucket", "pool", "owner", "backend", "starting",
                  "refused"},
            key : Key \cup {Nil}, name : Bucket \cup {Nil}, method : Method \cup {Nil},
            secret : secret_record \cup {Nil}, bucket : bucket_record \cup {Nil},
            pool : Pool \cup {Nil}, data : pool_record \cup {Nil}]

ReqIdle == [pc |-> "idle", key |-> Nil, name |-> Nil, method |-> Nil,
            secret |-> Nil, bucket |-> Nil, pool |-> Nil, data |-> Nil]

Ended == {"idle", "refused"}

---------------------------------------------------------------------------
(* Conditions of an access.                                                *)

\* ensure_permission_by_secret() and ensure_permission_by_bucket().
permits(policy, method) ==
    \/ method \in {"GET", "HEAD"} /\ policy \in {"RW", "RO"}
    \/ method \in {"PUT", "POST", "DELETE"} /\ policy \in {"RW", "WO"}

check_user_is_active(uid) ==
    uu[uid] # Nil /\ uu[uid].enabled /\ Before(uu[uid].exp) /\ uid \in Account

---------------------------------------------------------------------------
(* The checks, in the order of the reads.                                  *)

Req_(r, d) == req' = [req EXCEPT ![r] = d]
Refuse(r) == Req_(r, [req[r] EXCEPT !.pc = "refused", !.secret = Nil, !.bucket = Nil,
                                    !.pool = Nil, !.data = Nil])

AtPc(r, pc) == req[r].pc = pc /\ UNCHANGED <<conf, now, uu, um, bkt, sec, used, ses, adm, begun, late>>

\* A request with or without a key, for a bucket or for no bucket.
Arrive(r) ==
    /\ req[r].pc \in Ended
    /\ Count
    /\ \E k \in Key \cup {Nil}, b \in Bucket \cup {Nil}, m \in Method :
          Req_(r, [ReqIdle EXCEPT !.pc = "key", !.key = k, !.name = b, !.method = m])
    /\ UNCHANGED <<conf, now, table, used, ses, adm, late>>

\* The signature of a known key may be bad.
check_authenticated(r) ==
    /\ AtPc(r, "key")
    /\ LET secret == IF req[r].key = Nil THEN Nil ELSE sec[req[r].key]
           good == secret # Nil /\ Before(secret.exp)
       IN  \/ /\ req[r].key # Nil /\ ~good
              /\ Refuse(r)
           \/ /\ req[r].key # Nil => good
              /\ Req_(r, [req[r] EXCEPT !.pc = "bucket", !.secret = secret])
    /\ UNCHANGED po

BadSignature(r) ==
    /\ AtPc(r, "key") /\ req[r].key # Nil /\ sec[req[r].key] # Nil
    /\ Req_(r, ReqIdle)
    /\ UNCHANGED po

Probing(r) == req[r].secret # Nil /\ req[r].secret.policy = "internal"

\* Mutant: the pools of the bucket and of the key are not compared.
check_bucket_in_path_Variant(r) ==
    /\ AtPc(r, "bucket")
    /\ LET bucket == IF req[r].name = Nil THEN Nil ELSE bkt[req[r].name]
       IN  \/ /\ bucket # Nil /\ ~Probing(r) /\ Before(bucket.exp)
              /\ Req_(r, [req[r] EXCEPT !.pc = "pool", !.bucket = bucket, !.pool = bucket.pool])
           \/ /\ ~(bucket # Nil /\ ~Probing(r) /\ Before(bucket.exp))
              /\ Refuse(r)
    /\ UNCHANGED po

\* The bucket in the path, and the cases of make_checker_proxy().  A probe is
\* refused when it comes through the frontend proxy.
check_bucket_in_path(r) ==
    /\ AtPc(r, "bucket")
    /\ LET bucket == IF req[r].name = Nil THEN Nil ELSE bkt[req[r].name]
       IN  \/ /\ req[r].name # Nil /\ bucket = Nil
              /\ Refuse(r)
           \/ /\ req[r].name # Nil => bucket # Nil
              /\ Probing(r)
              /\ \/ Refuse(r)
                 \/ Req_(r, [req[r] EXCEPT !.pc = "pool", !.pool = req[r].secret.pool])
           \/ /\ req[r].name = Nil /\ ~Probing(r)
              /\ Refuse(r)
           \/ /\ bucket # Nil /\ ~Probing(r)
              /\ \/ req[r].secret # Nil /\ bucket.pool # req[r].secret.pool
                 \/ ~Before(bucket.exp)
              /\ Refuse(r)
           \/ /\ bucket # Nil /\ ~Probing(r)
              /\ req[r].secret # Nil => bucket.pool = req[r].secret.pool
              /\ Before(bucket.exp)
              /\ Req_(r, [req[r] EXCEPT !.pc = "pool", !.bucket = bucket, !.pool = bucket.pool])
    /\ UNCHANGED po

\* ensure_pool_existence(), and the part of check_pool_is_usable() that
\* precedes the look at the owner.
ensure_pool_existence(r) ==
    /\ AtPc(r, "pool")
    /\ LET pooldata == po[req[r].pool]
           operable == pooldata # Nil /\ ~pooldata.inop
       IN  \/ /\ ~operable
              /\ Refuse(r)
           \/ /\ operable
              /\ Req_(r, [req[r] EXCEPT !.pc = "owner", !.data = pooldata])
    /\ UNCHANGED po

\* Mutant: the times are compared the other way round.
Usable_Variant(pooldata) ==
    check_user_is_active(pooldata.owner) /\ pooldata.enabled /\ pooldata.exp < now

Usable(pooldata) ==
    check_user_is_active(pooldata.owner) /\ pooldata.enabled /\ Before(pooldata.exp)

\* By the policy of the key, or of the bucket when there is no key.
Permitted(q) == permits(IF q.secret # Nil THEN q.secret.policy ELSE q.bucket.policy, q.method)

ensure_pool_state(r) ==
    /\ AtPc(r, "owner")
    /\ LET granted == Usable(req[r].data) /\ (Probing(r) \/ Permitted(req[r]))
       IN  \/ ~granted /\ Refuse(r)
           \/ granted /\ Req_(r, [req[r] EXCEPT !.pc = "backend"])
    /\ UNCHANGED po

\* A granted request gets a backend by ensure_backend_running(), one that runs
\* already or one that it starts, and is forwarded; or, for a probe, the
\* buckets are made in the backend.  It ends likewise when there is no backend
\* for the time being.
forward_access(r) ==
    /\ AtPc(r, "backend") \/ AtPc(r, "starting")
    /\ Req_(r, ReqIdle)
    /\ UNCHANGED po

\* start_backend_in_mutexed() reads the pool once more, and keeps the record
\* while it tries to start a backend.
start_backend(r) ==
    /\ AtPc(r, "backend")
    /\ LET pooldata == po[req[r].pool]
       IN  Req_(r, IF pooldata = Nil THEN ReqIdle
                   ELSE [ReqIdle EXCEPT !.pc = "starting", !.pool = req[r].pool,
                                        !.data = pooldata])
    /\ UNCHANGED po

\* Starting fails for good: the record that was read is written back, whatever
\* has become of the pool and of its owner.
mark_pool_inoperable(r) ==
    /\ req[r].pc = "starting"
    /\ ~req[r].data.inop
    /\ po' = [po EXCEPT ![req[r].pool] = [req[r].data EXCEPT !.inop = TRUE]]
    /\ late' = IF Leaving(req[r].data.owner) THEN late \cup {req[r].pool} ELSE late
    /\ Req_(r, ReqIdle)
    /\ UNCHANGED <<conf, now, uu, um, bkt, sec, used, ses, adm, begun>>

RequestStep(r) ==
    \/ Arrive(r) \/ check_authenticated(r) \/ BadSignature(r) \/ check_bucket_in_path(r)
    \/ ensure_pool_existence(r) \/ ensure_pool_state(r)
    \/ forward_access(r) \/ start_backend(r) \/ mark_pool_inoperable(r)

---------------------------------------------------------------------------
(* What an access needs, stated at once.                                   *)

KeyGood(q, p) ==
    q.key # Nil => /\ sec[q.key] # Nil
                   /\ sec[q.key].pool = p /\ Before(sec[q.key].exp)
                   /\ permits(sec[q.key].policy, q.method)

BucketGood(q, p) ==
    /\ q.name # Nil /\ bkt[q.name] # Nil
    /\ bkt[q.name].pool = p /\ Before(bkt[q.name].exp)
    /\ q.key = Nil => permits(bkt[q.name].policy, q.method)

PoolGood(p) == po[p] # Nil /\ po[p].enabled /\ ~po[p].inop /\ Before(po[p].exp)

Allowed(q) ==
    \E p \in Pool : /\ KeyGood(q, p) /\ BucketGood(q, p)
                    /\ PoolGood(p) /\ check_user_is_active(po[p].owner)

\* The conditions that hold now for the request r.
Holding(r) ==
    {x \in {"key", "bucket", "pool"} \X Pool :
        \/ x[1] = "key" /\ KeyGood(req[r], x[2])
        \/ x[1] = "bucket" /\ BucketGood(req[r], x[2])
        \/ x[1] = "pool" /\ PoolGood(x[2])}
    \cup {<<"owner", u>> : u \in {x \in User : check_user_is_active(x)}}

\* History follows every step from the arrival of a request to its decision.
Watch ==
    /\ seen' = [r \in Req |-> CASE req'[r].pc \in Ended \cup {"starting"} -> {}
                                [] req'[r].pc = "key" -> Holding(r)'
                                [] OTHER -> seen[r] \cup Holding(r)']
    /\ quiet' = [r \in Req |-> req'[r].pc \in {"idle", "key", "starting"}
                                  \/ (quiet[r] /\ table' = table /\ now' = now)]

Init ==
    /\ AccountsInit
    /\ req = [r \in Req |-> ReqIdle]
    /\ seen = [r \in Req |-> {}]
    /\ quiet = [r \in Req |-> TRUE]

Next ==
    /\ \/ \E r \in Req : RequestStep(r)
       \/ /\ Tick \/ AdminStep \/ \E s \in Ses : SessionStep(s)
          /\ UNCHANGED req
    /\ Watch

Spec == Init /\ [][Next]_vars

---------------------------------------------------------------------------
(* Properties.                                                             *)

TypeOK ==
    /\ AccountsTypeOK
    /\ req \in [Req -> Request]
    /\ seen \in [Req -> SUBSET ({"key", "bucket", "pool", "owner"} \X (Pool \cup User))]
    /\ quiet \in [Req -> BOOLEAN]

\* A request is granted the backend of one pool only after, since it came, its
\* key was valid for that pool and the method, its bucket was that pool's, the
\* pool was usable and the owner of the pool was active: the records are read
\* one by one, while they are deleted, changed, and given to others.
GrantedWasAllowed ==
    \A r \in Req : req[r].pc = "backend" /\ ~Probing(r) =>
        /\ {"key", "bucket", "pool"} \X {req[r].pool} \subseteq seen[r]
        /\ <<"owner", req[r].data.owner>> \in seen[r]

\* While no record changes, the checks one after the other decide what the
\* conditions taken together say.
QuietDecision ==
    \A r \in Req : quiet[r] =>
        /\ req[r].pc = "backend" /\ ~Probing(r) => Allowed(req[r])
        /\ req[r].pc = "refused" => ~Allowed(req[r])
============================================================================
