---------------------------- MODULE PoolRegistry ----------------------------
(***************************************************************************)
(* Registrar's records of pools, and the requests that make and delete     *)
(* them (lens3/registrar.go, lens3/poolprop.go, lens3/table.go).  A pool   *)
(* is scattered over several records of the keyval-db, and nothing locks   *)
(* them together: each step below is one keyval-db operation of one        *)
(* request.                                                                *)
(*                                                                         *)
(*   px:pool       px   reserved pool-names                                *)
(*   po:pool       po   the pool record: its directory and its probe-key   *)
(*   bd:directory  bd   the pool that owns a bucket-directory              *)
(*   bk:bucket     bk   the pool of a bucket                               *)
(*   sx:key        sx   the pool of a secret (probe-keys included)         *)
(*                                                                         *)
(* Pool-names and access keys are random: each is drawn once.  The user of *)
(* a request has passed the checks of the account and of the ownership of  *)
(* the pool, and stays registered.                                         *)
(*                                                                         *)
(* Others write pool records, too: a Multiplexer that fails to start a     *)
(* backend, and two commands of the administration tool.  Each reads a     *)
(* record, and later stores all of it, whatever is there by then.          *)
(***************************************************************************)
EXTENDS Naturals, FiniteSets

CONSTANTS
    Session,            \* request threads of Registrar
    Pool, Key,          \* random names to draw from (bounds)
    Path, Bucket,
    Writer,             \* starts of backends and administration commands
    MaxRestart,         \* how often Registrar is killed or quits (a bound)
    Serial,             \* TRUE: one request, start or command at a time
    Nil

ASSUME RegistryAssumption ==
    /\ MaxRestart \in Nat
    /\ Serial \in BOOLEAN
    /\ Nil \notin Pool /\ Nil \notin Key /\ Nil \notin Path /\ Nil \notin Bucket
    /\ Nil \notin [path : Path, probe : Key]

VARIABLES
    px, po, bd, bk, sx,
    named, drawn, internal,     \* names and keys drawn so far, and probe-keys
    \* requests: operation, step, pool, and its argument or a record it read
    op, pc, pool, path, bucket, key,
    \* gather_pool_prop(): inconsistent_db_entires, Buckets and Secrets; and
    \* the pools that are still to be listed
    bad, bkts, keys, todo,
    wpool, wrec,                \* the pools and the records writers have read
    restarts                    \* restarts of the service

table == <<px, po, bd, bk, sx, named, drawn, internal>>
prop == <<bad, bkts, keys>>
request == <<op, pool, path, bucket, key, todo>>
writers == <<wpool, wrec>>
vars == <<table, prop, request, pc, writers, restarts>>

Operation == {"none", "make_pool", "delete_pool", "make_bucket", "delete_bucket",
              "make_secret", "delete_secret", "list_pool"}

Making == {"directory", "probe_key", "set_pool"}
Gathering == {"get_pool", "find_directory", "gather_buckets", "gather_secrets"}
Deleting == {"delete_directory", "delete_buckets", "delete_secrets",
             "delete_pool", "delete_name"}
Step == {"idle", "unname", "set_bucket", "rollback", "bucket_owner",
         "delete_bucket", "set_secret", "secret_owner", "delete_secret", "list",
         "probe_pool", "probe_secret", "probe"}
        \cup Making \cup Gathering \cup Deleting

pool_record == [path : Path, probe : Key]

TypeOK ==
    /\ px \subseteq Pool /\ named \subseteq Pool
    /\ drawn \subseteq Key /\ internal \subseteq Key
    /\ po \in [Pool -> pool_record \cup {Nil}]
    /\ bd \in [Path -> Pool \cup {Nil}]
    /\ bk \in [Bucket -> Pool \cup {Nil}]
    /\ sx \in [Key -> Pool \cup {Nil}]
    /\ op \in [Session -> Operation]
    /\ pc \in [Session -> Step]
    /\ pool \in [Session -> Pool \cup {Nil}]
    /\ path \in [Session -> Path \cup {Nil}]
    /\ bucket \in [Session -> Bucket \cup {Nil}]
    /\ key \in [Session -> Key \cup {Nil}]
    /\ bad \in [Session -> BOOLEAN]
    /\ bkts \in [Session -> SUBSET Bucket]
    /\ keys \in [Session -> SUBSET Key]
    /\ todo \in [Session -> SUBSET Pool]
    /\ wpool \in [Writer -> Pool \cup {Nil}]
    /\ wrec \in [Writer -> pool_record \cup {Nil}]
    /\ restarts \in 0 .. MaxRestart

\* An empty keyval-db.
Init ==
    /\ px = {} /\ named = {} /\ drawn = {} /\ internal = {}
    /\ po = [p \in Pool |-> Nil]
    /\ bd = [f \in Path |-> Nil]
    /\ bk = [b \in Bucket |-> Nil]
    /\ sx = [k \in Key |-> Nil]
    /\ op = [s \in Session |-> "none"]
    /\ pc = [s \in Session |-> "idle"]
    /\ pool = [s \in Session |-> Nil]
    /\ path = [s \in Session |-> Nil]
    /\ bucket = [s \in Session |-> Nil]
    /\ key = [s \in Session |-> Nil]
    /\ bad = [s \in Session |-> FALSE]
    /\ bkts = [s \in Session |-> {}]
    /\ keys = [s \in Session |-> {}]
    /\ todo = [s \in Session |-> {}]
    /\ wpool = [w \in Writer |-> Nil]
    /\ wrec = [w \in Writer |-> Nil]
    /\ restarts = 0

-----------------------------------------------------------------------------
(* Requests arrive *)

goto(s, l) == pc' = [pc EXCEPT ![s] = l]

\* A response is sent, and the locals are gone.
done(s) ==
    /\ goto(s, "idle")
    /\ op' = [op EXCEPT ![s] = "none"]
    /\ pool' = [pool EXCEPT ![s] = Nil]
    /\ path' = [path EXCEPT ![s] = Nil]
    /\ bucket' = [bucket EXCEPT ![s] = Nil]
    /\ key' = [key EXCEPT ![s] = Nil]
    /\ todo' = [todo EXCEPT ![s] = {}]
    /\ bad' = [bad EXCEPT ![s] = FALSE]
    /\ bkts' = [bkts EXCEPT ![s] = {}]
    /\ keys' = [keys EXCEPT ![s] = {}]

\* No writer has a record in hand.
quiet == \A w \in Writer : wpool[w] = Nil

begin(s, o) ==
    /\ pc[s] = "idle"
    /\ Serial => quiet /\ \A r \in Session : pc[r] = "idle"
    /\ op' = [op EXCEPT ![s] = o]

\* check_user_access_with_error_return() for the owner of a pool: the checks of
\* the account pass, and the pool exists.
check_user_access(p) == po[p] # Nil

\* A bound: an access key is left for each request that is to draw one.
spare ==
    Cardinality({r \in Session : pc[r] \in {"directory", "probe_key", "set_secret"}})
      < Cardinality(Key \ drawn)

\* make_pool_and_return_response() starts with set_with_unique_pool_name().
MakePool(s, f) ==
    /\ begin(s, "make_pool")
    /\ spare
    /\ \E p \in Pool \ named :
          /\ px' = px \cup {p}
          /\ named' = named \cup {p}
          /\ pool' = [pool EXCEPT ![s] = p]
    /\ path' = [path EXCEPT ![s] = f]
    /\ goto(s, "directory")
    /\ UNCHANGED <<po, bd, bk, sx, drawn, internal, prop, bucket, key, todo, restarts>>

DeletePool(s, p) ==
    /\ begin(s, "delete_pool")
    /\ check_user_access(p)
    /\ pool' = [pool EXCEPT ![s] = p]
    /\ goto(s, "get_pool")
    /\ UNCHANGED <<table, prop, path, bucket, key, todo, restarts>>

MakeBucket(s, p, b) ==
    /\ begin(s, "make_bucket")
    /\ check_user_access(p)
    /\ pool' = [pool EXCEPT ![s] = p]
    /\ bucket' = [bucket EXCEPT ![s] = b]
    /\ goto(s, "set_bucket")
    /\ UNCHANGED <<table, prop, path, key, todo, restarts>>

DeleteBucket(s, p, b) ==
    /\ begin(s, "delete_bucket")
    /\ check_user_access(p)
    /\ pool' = [pool EXCEPT ![s] = p]
    /\ bucket' = [bucket EXCEPT ![s] = b]
    /\ goto(s, "bucket_owner")
    /\ UNCHANGED <<table, prop, path, key, todo, restarts>>

MakeSecret(s, p) ==
    /\ begin(s, "make_secret")
    /\ spare
    /\ check_user_access(p)
    /\ pool' = [pool EXCEPT ![s] = p]
    /\ goto(s, "set_secret")
    /\ UNCHANGED <<table, prop, path, bucket, key, todo, restarts>>

DeleteSecret(s, p, k) ==
    /\ begin(s, "delete_secret")
    /\ check_user_access(p)
    /\ pool' = [pool EXCEPT ![s] = p]
    /\ key' = [key EXCEPT ![s] = k]
    /\ goto(s, "secret_owner")
    /\ UNCHANGED <<table, prop, path, bucket, todo, restarts>>

ListPool(s, p) ==
    /\ begin(s, "list_pool")
    /\ check_user_access(p)
    /\ todo' = [todo EXCEPT ![s] = {p}]
    /\ goto(s, "list")
    /\ UNCHANGED <<table, prop, pool, path, bucket, key, restarts>>

\* list_pool_and_return_response() without a pool-name lists every pool, and
\* looks at its owner later.
ListPools(s) ==
    /\ begin(s, "list_pool")
    /\ todo' = [todo EXCEPT ![s] = {p \in Pool : po[p] # Nil}]
    /\ goto(s, "list")
    /\ UNCHANGED <<table, prop, pool, path, bucket, key, restarts>>

ListNext(s) ==
    /\ pc[s] = "list"
    /\ \E p \in todo[s] :
          /\ pool' = [pool EXCEPT ![s] = p]
          /\ todo' = [todo EXCEPT ![s] = @ \ {p}]
    /\ goto(s, "get_pool")
    /\ UNCHANGED <<table, prop, op, path, bucket, key, restarts>>

ListDone(s) ==
    /\ pc[s] = "list"
    /\ todo[s] = {}
    /\ done(s)
    /\ UNCHANGED <<table, restarts>>

-----------------------------------------------------------------------------
(* make_pool_and_return_response() *)

\* Mutant: no probe-key is registered.
SetExBucketDirectory_NoProbe(s) ==
    /\ pc[s] = "directory"
    /\ bd[path[s]] = Nil
    /\ bd' = [bd EXCEPT ![path[s]] = pool[s]]
    /\ goto(s, "set_pool")
    /\ UNCHANGED <<px, po, bk, sx, named, drawn, internal, prop, request, restarts>>

SetExBucketDirectory(s) ==
    /\ pc[s] = "directory"
    /\ bd[path[s]] = Nil
    /\ bd' = [bd EXCEPT ![path[s]] = pool[s]]
    /\ goto(s, "probe_key")
    /\ UNCHANGED <<px, po, bk, sx, named, drawn, internal, prop, request, restarts>>

DirectoryTaken(s) ==
    /\ pc[s] = "directory"
    /\ bd[path[s]] # Nil
    /\ goto(s, "unname")
    /\ UNCHANGED <<table, prop, request, restarts>>

\* Mutant: the name is kept after a conflict.
Unname_Kept(s) ==
    /\ pc[s] = "unname"
    /\ done(s)
    /\ UNCHANGED <<table, restarts>>

\* Mutant: the undoing releases the directory, too, which is another pool's.
Unname_Both(s) ==
    /\ pc[s] = "unname"
    /\ px' = px \ {pool[s]}
    /\ bd' = [bd EXCEPT ![path[s]] = Nil]
    /\ done(s)
    /\ UNCHANGED <<po, bk, sx, named, drawn, internal, restarts>>

Unname(s) ==
    /\ pc[s] = "unname"
    /\ px' = px \ {pool[s]}
    /\ done(s)
    /\ UNCHANGED <<po, bd, bk, sx, named, drawn, internal, restarts>>

\* set_with_unique_secret_key()
SetProbeKey(s) ==
    /\ pc[s] = "probe_key"
    /\ \E k \in Key \ drawn :
          /\ sx' = [sx EXCEPT ![k] = pool[s]]
          /\ drawn' = drawn \cup {k}
          /\ internal' = internal \cup {k}
          /\ key' = [key EXCEPT ![s] = k]
    /\ goto(s, "set_pool")
    /\ UNCHANGED <<px, po, bd, bk, named, prop, op, pool, path, bucket, todo, restarts>>

SetPool(s) ==
    /\ pc[s] = "set_pool"
    /\ po' = [po EXCEPT ![pool[s]] = [path |-> path[s], probe |-> key[s]]]
    /\ goto(s, "probe_pool")
    /\ UNCHANGED <<px, bd, bk, sx, named, drawn, internal, prop, request, restarts>>

-----------------------------------------------------------------------------
(* probe_access_mux() *)

\* panic(nil): handle_exc() quits the service after a while, see Restart.
fatal(s) ==
    /\ done(s)
    /\ UNCHANGED <<table, restarts>>

ProbePool(s) ==
    /\ pc[s] = "probe_pool"
    /\ po[pool[s]] # Nil
    /\ key' = [key EXCEPT ![s] = po[pool[s]].probe]
    /\ goto(s, "probe_secret")
    /\ UNCHANGED <<table, prop, op, pool, path, bucket, todo, restarts>>

ProbePoolMissing(s) == pc[s] = "probe_pool" /\ po[pool[s]] = Nil /\ fatal(s)

ProbeSecret(s) ==
    /\ pc[s] = "probe_secret"
    /\ sx[key[s]] # Nil
    /\ goto(s, "probe")
    /\ UNCHANGED <<table, prop, request, restarts>>

ProbeSecretMissing(s) == pc[s] = "probe_secret" /\ sx[key[s]] = Nil /\ fatal(s)

\* The access to a Multiplexer succeeds, or fails for whatever reason; a
\* failure is ignored in making a pool.  It makes the Multiplexer start a
\* backend, which is one of the writers.
Probe(s) ==
    /\ pc[s] = "probe"
    /\ Serial => quiet
    /\ goto(s, "get_pool")
    /\ UNCHANGED <<table, prop, request, restarts>>

ProbeFails(s) ==
    /\ pc[s] = "probe"
    /\ Serial => quiet
    /\ op[s] = "make_bucket"
    /\ goto(s, "rollback")
    /\ UNCHANGED <<table, prop, request, restarts>>

-----------------------------------------------------------------------------
(* Buckets and secrets *)

\* Mutant: SET in the place of SETNX.
SetExBucket_Set(s) ==
    /\ pc[s] = "set_bucket"
    /\ bk' = [bk EXCEPT ![bucket[s]] = pool[s]]
    /\ goto(s, "probe_pool")
    /\ UNCHANGED <<px, po, bd, sx, named, drawn, internal, prop, request, restarts>>

SetExBucket(s) ==
    /\ pc[s] = "set_bucket"
    /\ bk[bucket[s]] = Nil
    /\ bk' = [bk EXCEPT ![bucket[s]] = pool[s]]
    /\ goto(s, "probe_pool")
    /\ UNCHANGED <<px, po, bd, sx, named, drawn, internal, prop, request, restarts>>

BucketTaken(s) ==
    /\ pc[s] = "set_bucket"
    /\ bk[bucket[s]] # Nil
    /\ done(s)
    /\ UNCHANGED <<table, restarts>>

\* delete_bucket_checking() deletes the record of the name, whosever it is.
RollbackBucket(s) ==
    /\ pc[s] = "rollback"
    /\ bk' = [bk EXCEPT ![bucket[s]] = Nil]
    /\ done(s)
    /\ UNCHANGED <<px, po, bd, sx, named, drawn, internal, restarts>>

CheckBucketOwner(s) ==
    /\ pc[s] = "bucket_owner"
    /\ bk[bucket[s]] = pool[s]
    /\ goto(s, "delete_bucket")
    /\ UNCHANGED <<table, prop, request, restarts>>

NotBucketOwner(s) ==
    /\ pc[s] = "bucket_owner"
    /\ bk[bucket[s]] # pool[s]
    /\ done(s)
    /\ UNCHANGED <<table, restarts>>

DeleteBucketChecking(s) ==
    /\ pc[s] = "delete_bucket"
    /\ bk[bucket[s]] # Nil
    /\ bk' = [bk EXCEPT ![bucket[s]] = Nil]
    /\ goto(s, "get_pool")
    /\ UNCHANGED <<px, po, bd, sx, named, drawn, internal, prop, request, restarts>>

NoBucket(s) ==
    /\ pc[s] = "delete_bucket"
    /\ bk[bucket[s]] = Nil
    /\ done(s)
    /\ UNCHANGED <<table, restarts>>

SetSecret(s) ==
    /\ pc[s] = "set_secret"
    /\ \E k \in Key \ drawn :
          /\ sx' = [sx EXCEPT ![k] = pool[s]]
          /\ drawn' = drawn \cup {k}
    /\ goto(s, "get_pool")
    /\ UNCHANGED <<px, po, bd, bk, named, internal, prop, request, restarts>>

CheckSecretOwner(s) ==
    /\ pc[s] = "secret_owner"
    /\ sx[key[s]] = pool[s]
    /\ goto(s, "delete_secret")
    /\ UNCHANGED <<table, prop, request, restarts>>

NotSecretOwner(s) ==
    /\ pc[s] = "secret_owner"
    /\ sx[key[s]] # pool[s]
    /\ done(s)
    /\ UNCHANGED <<table, restarts>>

DeleteSecretKeyChecking(s) ==
    /\ pc[s] = "delete_secret"
    /\ sx[key[s]] # Nil
    /\ sx' = [sx EXCEPT ![key[s]] = Nil]
    /\ goto(s, "get_pool")
    /\ UNCHANGED <<px, po, bd, bk, named, drawn, internal, prop, request, restarts>>

NoSecret(s) ==
    /\ pc[s] = "delete_secret"
    /\ sx[key[s]] = Nil
    /\ done(s)
    /\ UNCHANGED <<table, restarts>>

-----------------------------------------------------------------------------
(* gather_pool_prop(), which ends every request that shows a pool *)

\* What follows gather_pool_prop() and deregister_pool_by_prop().
return(s) ==
    \/ /\ op[s] = "list_pool"
       /\ goto(s, "list")
       /\ bad' = [bad EXCEPT ![s] = FALSE]
       /\ bkts' = [bkts EXCEPT ![s] = {}]
       /\ keys' = [keys EXCEPT ![s] = {}]
       /\ path' = [path EXCEPT ![s] = Nil]
       /\ UNCHANGED <<op, pool, bucket, key, todo>>
    \/ /\ op[s] # "list_pool"
       /\ done(s)

GetPool(s) ==
    /\ pc[s] = "get_pool"
    /\ po[pool[s]] # Nil
    /\ path' = [path EXCEPT ![s] = po[pool[s]].path]
    /\ goto(s, "find_directory")
    /\ UNCHANGED <<table, prop, op, pool, bucket, key, todo, restarts>>

PoolGone(s) ==
    /\ pc[s] = "get_pool"
    /\ po[pool[s]] = Nil
    /\ return(s)
    /\ UNCHANGED <<table, restarts>>

FindBucketDirectoryOfPool(s) ==
    /\ pc[s] = "find_directory"
    /\ bad' = [bad EXCEPT ![s] = (bd[path[s]] # pool[s])]
    /\ goto(s, "gather_buckets")
    /\ UNCHANGED <<table, bkts, keys, request, restarts>>

GatherBuckets(s) ==
    /\ pc[s] = "gather_buckets"
    /\ bkts' = [bkts EXCEPT ![s] = {b \in Bucket : bk[b] = pool[s]}]
    /\ goto(s, "gather_secrets")
    /\ UNCHANGED <<table, bad, keys, request, restarts>>

\* Mutant: gather_secrets() excludes the probe-key, as its comment says.
list_secrets_of_pool_NoProbe(p) == {k \in Key : sx[k] = p /\ k \notin internal}

\* The probe-key is one of them.
list_secrets_of_pool(p) == {k \in Key : sx[k] = p}

\* A pool without its bucket-directory is deregistered, whatever the request.
GatherSecrets(s) ==
    /\ pc[s] = "gather_secrets"
    /\ op[s] = "delete_pool" \/ bad[s]
    /\ keys' = [keys EXCEPT ![s] = list_secrets_of_pool(pool[s])]
    /\ goto(s, "delete_directory")
    /\ UNCHANGED <<table, bad, bkts, request, restarts>>

Gathered(s) ==
    /\ pc[s] = "gather_secrets"
    /\ op[s] # "delete_pool" /\ ~bad[s]
    /\ return(s)
    /\ UNCHANGED <<table, restarts>>

-----------------------------------------------------------------------------
(* deregister_pool_by_prop() *)

\* Mutant: the name is released first, and not last.
DeleteBucketDirectory_Name(s) ==
    /\ pc[s] = "delete_directory"
    /\ bd' = [bd EXCEPT ![path[s]] = Nil]
    /\ px' = px \ {pool[s]}
    /\ goto(s, "delete_buckets")
    /\ UNCHANGED <<po, bk, sx, named, drawn, internal, prop, request, restarts>>

\* Mutant: the bucket-directory is left behind.
DeleteBucketDirectory_Missing(s) ==
    /\ pc[s] = "delete_directory"
    /\ goto(s, "delete_buckets")
    /\ UNCHANGED <<table, prop, request, restarts>>

\* The record of the path, whosever it is.
DeleteBucketDirectory(s) ==
    /\ pc[s] = "delete_directory"
    /\ bd' = [bd EXCEPT ![path[s]] = Nil]
    /\ goto(s, "delete_buckets")
    /\ UNCHANGED <<px, po, bk, sx, named, drawn, internal, prop, request, restarts>>

DeleteBuckets(s) ==
    /\ pc[s] = "delete_buckets"
    /\ \E b \in bkts[s] :
          /\ bk' = [bk EXCEPT ![b] = Nil]
          /\ bkts' = [bkts EXCEPT ![s] = @ \ {b}]
    /\ UNCHANGED <<px, po, bd, sx, named, drawn, internal, bad, keys, request,
                   pc, restarts>>

\* Mutant: some buckets are left behind.
BucketsDeleted_Early(s) ==
    /\ pc[s] = "delete_buckets"
    /\ goto(s, "delete_secrets")
    /\ UNCHANGED <<table, prop, request, restarts>>

BucketsDeleted(s) ==
    /\ pc[s] = "delete_buckets"
    /\ bkts[s] = {}
    /\ goto(s, "delete_secrets")
    /\ UNCHANGED <<table, prop, request, restarts>>

DeleteSecrets(s) ==
    /\ pc[s] = "delete_secrets"
    /\ \E k \in keys[s] :
          /\ sx' = [sx EXCEPT ![k] = Nil]
          /\ keys' = [keys EXCEPT ![s] = @ \ {k}]
    /\ UNCHANGED <<px, po, bd, bk, named, drawn, internal, bad, bkts, request,
                   pc, restarts>>

SecretsDeleted(s) ==
    /\ pc[s] = "delete_secrets"
    /\ keys[s] = {}
    /\ goto(s, "delete_pool")
    /\ UNCHANGED <<table, prop, request, restarts>>

\* Mutant: the members of a pool are deleted, and its record is not.
DeletePoolRecord_Missing(s) ==
    /\ pc[s] = "delete_pool"
    /\ goto(s, "delete_name")
    /\ UNCHANGED <<table, prop, request, restarts>>

\* The deletions of ps:pool and pt:pool just before it are in BackendManager.
DeletePoolRecord(s) ==
    /\ pc[s] = "delete_pool"
    /\ po' = [po EXCEPT ![pool[s]] = Nil]
    /\ goto(s, "delete_name")
    /\ UNCHANGED <<px, bd, bk, sx, named, drawn, internal, prop, request, restarts>>

DeletePoolName(s) ==
    /\ pc[s] = "delete_name"
    /\ px' = px \ {pool[s]}
    /\ return(s)
    /\ UNCHANGED <<po, bd, bk, sx, named, drawn, internal, restarts>>

-----------------------------------------------------------------------------

(* Writers of pool records outside of Registrar *)

\* get_pool() of start_backend() in a Multiplexer, for an access or a probe, and
\* of the commands stop-pool and time-expiration.
ReadPool(w, p) ==
    /\ wpool[w] = Nil
    /\ Serial => \A s \in Session : pc[s] \in {"idle", "probe"}
    /\ po[p] # Nil
    /\ wpool' = [wpool EXCEPT ![w] = p]
    /\ wrec' = [wrec EXCEPT ![w] = po[p]]
    /\ UNCHANGED <<table, prop, request, pc, restarts>>

finish(w) ==
    /\ wpool' = [wpool EXCEPT ![w] = Nil]
    /\ wrec' = [wrec EXCEPT ![w] = Nil]
    /\ UNCHANGED <<prop, request, pc, restarts>>

\* set_pool() of mark_pool_inoperable() and of the commands: the flag or the
\* date they change is in AccessCheck, the rest is as it was read.
WriteBack(w) ==
    /\ wpool[w] # Nil
    /\ po' = [po EXCEPT ![wpool[w]] = wrec[w]]
    /\ finish(w)
    /\ UNCHANGED <<px, bd, bk, sx, named, drawn, internal>>

\* The backend starts, or it fails and the pool is inoperable already.
NoWrite(w) ==
    /\ wpool[w] # Nil
    /\ finish(w)
    /\ UNCHANGED table

Write(w) == (\E p \in Pool : ReadPool(w, p)) \/ WriteBack(w) \/ NoWrite(w)

-----------------------------------------------------------------------------

\* Registrar is killed, or quits on a fatal error, and starts again.  No work
\* at its start looks at the records.
Restart ==
    /\ restarts < MaxRestart
    /\ restarts' = restarts + 1
    /\ op' = [s \in Session |-> "none"]
    /\ pc' = [s \in Session |-> "idle"]
    /\ pool' = [s \in Session |-> Nil]
    /\ path' = [s \in Session |-> Nil]
    /\ bucket' = [s \in Session |-> Nil]
    /\ key' = [s \in Session |-> Nil]
    /\ bad' = [s \in Session |-> FALSE]
    /\ bkts' = [s \in Session |-> {}]
    /\ keys' = [s \in Session |-> {}]
    /\ todo' = [s \in Session |-> {}]
    /\ UNCHANGED table

Arrive(s) ==
    \/ \E f \in Path : MakePool(s, f)
    \/ ListPools(s)
    \/ \E p \in Pool :
          \/ ListPool(s, p)
          \/ DeletePool(s, p)
          \/ MakeSecret(s, p)
          \/ \E b \in Bucket : MakeBucket(s, p, b) \/ DeleteBucket(s, p, b)
          \/ \E k \in Key : DeleteSecret(s, p, k)

Make(s) ==
    \/ SetExBucketDirectory(s) \/ DirectoryTaken(s) \/ Unname(s)
    \/ SetProbeKey(s) \/ SetPool(s)

ProbeAccess(s) ==
    \/ ProbePool(s) \/ ProbePoolMissing(s)
    \/ ProbeSecret(s) \/ ProbeSecretMissing(s)
    \/ Probe(s) \/ ProbeFails(s)

Member(s) ==
    \/ SetExBucket(s) \/ BucketTaken(s) \/ RollbackBucket(s)
    \/ CheckBucketOwner(s) \/ NotBucketOwner(s)
    \/ DeleteBucketChecking(s) \/ NoBucket(s)
    \/ SetSecret(s) \/ CheckSecretOwner(s) \/ NotSecretOwner(s)
    \/ DeleteSecretKeyChecking(s) \/ NoSecret(s)

Gather(s) ==
    \/ ListNext(s) \/ ListDone(s)
    \/ GetPool(s) \/ PoolGone(s) \/ FindBucketDirectoryOfPool(s)
    \/ GatherBuckets(s) \/ GatherSecrets(s) \/ Gathered(s)

Deregister(s) ==
    \/ DeleteBucketDirectory(s)
    \/ DeleteBuckets(s) \/ BucketsDeleted(s)
    \/ DeleteSecrets(s) \/ SecretsDeleted(s)
    \/ DeletePoolRecord(s) \/ DeletePoolName(s)

\* A request in progress takes its next step.
Proceed(s) == Make(s) \/ ProbeAccess(s) \/ Member(s) \/ Gather(s) \/ Deregister(s)

Serve(s) == Proceed(s) /\ UNCHANGED writers

Next ==
    \/ \E s \in Session : (Arrive(s) /\ UNCHANGED writers) \/ Serve(s)
    \/ \E w \in Writer : Write(w)
    \/ Restart /\ UNCHANGED writers

Spec == Init /\ [][Next]_vars

\* A thread of net/http runs until its handler returns, and each operation on
\* the keyval-db returns or times out.
FairSpec == Spec /\ \A s \in Session : WF_vars(Serve(s))

-----------------------------------------------------------------------------
(* Properties *)

\* The pool-name is set and the pool record is not yet.
making(s, p) == op[s] = "make_pool" /\ pool[s] = p /\ pc[s] \in Making

AtRest == \A s \in Session : pc[s] = "idle"

\* A reserved name px:pool without a pool record is about to get one or to be
\* released (make_pool_and_return_response() and deregister_pool_by_prop()), as
\* long as Registrar does not restart in the middle.
NameHasPool ==
    restarts = 0 =>
      \A p \in px :
        po[p] = Nil =>
          \E s \in Session :
             /\ pool[s] = p
             /\ making(s, p) \/ pc[s] \in {"unname", "delete_name"}

\* A bucket-directory is not held by a pool that is gone: deregistrations that
\* race with each other and with listings release it before the pool record.
DirectoryHasPool ==
    restarts = 0 =>
      \A f \in Path :
        bd[f] # Nil /\ po[bd[f]] = Nil =>
          \E s \in Session : making(s, bd[f]) /\ path[s] = f

\* A probe-key, which passes every check of the users in Multiplexer, does not
\* outlive its pool.
ProbeKeyHasPool ==
    restarts = 0 =>
      \A k \in internal :
        sx[k] # Nil /\ po[sx[k]] = Nil =>
          \E s \in Session : making(s, sx[k]) /\ key[s] = k

\* A pool is deleted when deregister_pool_by_prop() or the undoing of a make-pool
\* request has released its name.
deleted(p) == p \in named /\ p \notin px

\* Its record is gone, too, and no writer is about to store it again.
gone(p) == deleted(p) /\ po[p] = Nil /\ \A w \in Writer : wpool[w] # p

\* A deleted pool never gets back its name, a bucket-directory or a probe-key;
\* and when no start of a backend and no command has its record in hand, its
\* record never comes back either: whichever of the requests on it are still
\* running, or a restart breaks off (deregister_pool_by_prop()).
DeletedForGood ==
    [][\A p \in Pool :
         /\ deleted(p) => /\ p \notin px'
                         /\ \A f \in Path : bd'[f] # p
                         /\ \A k \in internal' : sx'[k] # p
         /\ gone(p) => gone(p)']_vars

\* The records of a pool agree whenever no request is in progress.
Consistent ==
    /\ \A p \in Pool : po[p] # Nil => p \in px /\ bd[po[p].path] = p
    /\ \A p \in px : po[p] # Nil
    /\ \A f \in Path : bd[f] # Nil => po[bd[f]] # Nil
    /\ \A b \in Bucket : bk[b] # Nil => po[bk[b]] # Nil
    /\ \A k \in Key : sx[k] # Nil => po[sx[k]] # Nil
    /\ \A p, q \in Pool : po[p] # Nil /\ po[q] # Nil /\ po[p].path = po[q].path => p = q

\* Requests that come one at a time, and not in the middle of a start of a backend
\* or a command, leave the records of a pool in agreement.
ConsistentAtRest == Serial /\ restarts = 0 /\ AtRest => Consistent

\* gather_pool_prop() never sets inconsistent_db_entires when requests come one at
\* a time and none is broken off: then a request other than delete-pool never
\* deregisters a pool.
NeverInconsistent == Serial /\ restarts = 0 => \A s \in Session : ~bad[s]

\* A pool has gone when its bucket-directory is released, and comes when its
\* record is set: the pools in between, and the probe-key of the latter.
leaving == {pool[s] : s \in {r \in Session :
              pc[r] \in {"delete_buckets", "delete_secrets", "delete_pool"}}}
coming == {pool[s] : s \in {r \in Session : pc[r] \in Making}}
unissued == {key[s] : s \in {r \in Session : pc[r] = "set_pool"}}

directory_of(p) == IF po[p] # Nil /\ p \notin leaving THEN po[p].path ELSE Nil
member_of(p) == IF p # Nil /\ po[p] # Nil /\ p \notin leaving THEN p ELSE Nil

\* Requests that come one at a time, and are not broken off, make and delete
\* pools as single objects: the steps of make_pool_and_return_response(),
\* deregister_pool_by_prop() and the other requests implement PoolSet.
Pools == INSTANCE PoolSet WITH
    directory <- [p \in Pool |-> directory_of(p)],
    owner <- [b \in Bucket |-> member_of(bk[b])],
    holder <- [k \in Key |-> member_of(sx[k])],
    used <- named \ coming,
    issued <- drawn \ unissued

ImplementsPoolSet == Pools!Spec

\* An accepted delete-pool request deletes the pool record (deregister_pool()),
\* though a writer may store it again.
PoolGetsDeleted ==
    \A s \in Session, p \in Pool :
      op[s] = "delete_pool" /\ pool[s] = p /\ pc[s] = "get_pool" ~> po[p] = Nil

-----------------------------------------------------------------------------
(* Statements of the documents and the comments that the code does not keep *)

\* "Lens3 forbids to run multiple backends on the same directory": no two
\* pools have the same bucket-directory, when no request is in progress
\* (set_ex_bucket_directory()).
DirectoryExclusive ==
    AtRest => \A p, q \in Pool :
      po[p] # Nil /\ po[q] # Nil /\ po[p].path = po[q].path => p = q

\* "A pool record po:pool-name owns its component records.  The description of
\* a pool is furnished with the sub-records bd:directory, ...": a pool record
\* has its bucket-directory, when nothing is in progress and Registrar has not
\* restarted (set_pool() in mark_pool_inoperable()).
RecordFurnished ==
    AtRest /\ quiet /\ restarts = 0 =>
      \A p \in Pool : po[p] # Nil => bd[po[p].path] = p
=============================================================================
