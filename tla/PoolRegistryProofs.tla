------------------------- MODULE PoolRegistryProofs -------------------------
(***************************************************************************)
(* Proofs about PoolRegistry, for any number of requests, pools, keys,     *)
(* directories, buckets and restarts.                                      *)
(***************************************************************************)
EXTENDS PoolRegistry, TLAPS

(* The inductive invariant *)

OnPool == Step \ {"idle", "list"}
Maker == Making \cup {"unname"}
HasPath == Maker \cup (Gathering \ {"get_pool"}) \cup Deleting
OnBucket == {"set_bucket", "rollback", "bucket_owner", "delete_bucket"}
OnKey == {"set_pool", "probe_secret", "secret_owner", "delete_secret"}

\* What a request has at hand at each of its steps.
Arguments ==
    \A s \in Session :
      /\ pc[s] \in OnPool => pool[s] \in Pool
      /\ pc[s] \in HasPath => path[s] \in Path
      /\ pc[s] \in OnBucket => bucket[s] \in Bucket
      /\ pc[s] \in OnKey => key[s] \in Key
      /\ pc[s] \in Maker => op[s] = "make_pool"
      /\ op[s] = "make_bucket" => bucket[s] \in Bucket

\* A pool-name and a probe-key are in use only after they are drawn.
Drawn ==
    /\ px \subseteq named
    /\ internal \subseteq drawn
    /\ \A p \in Pool : po[p] # Nil => p \in named
    /\ \A f \in Path : bd[f] # Nil => bd[f] \in named
    /\ \A k \in Key : sx[k] # Nil => sx[k] \in named /\ k \in drawn
    /\ \A s \in Session : (pool[s] # Nil => pool[s] \in named) /\ todo[s] \subseteq named

\* A request that makes a pool is alone with its pool-name.
Alone ==
    \A s \in Session :
      pc[s] \in Maker =>
        /\ pool[s] \in px
        /\ po[pool[s]] = Nil
        /\ \A r \in Session : r # s => pool[r] # pool[s]
        /\ \A r \in Session : pool[s] \notin todo[r]

\* The one bucket-directory a pool can have is the one of its record; a
\* deregistration that has passed it leaves none.
OneDirectory ==
    /\ \A f \in Path : bd[f] # Nil /\ po[bd[f]] # Nil => po[bd[f]].path = f
    /\ \A s \in Session, f \in Path :
         bd[f] # Nil /\ bd[f] = pool[s] =>
           /\ pc[s] \in Maker => pc[s] \in {"probe_key", "set_pool"}
           /\ pc[s] \in HasPath =>
                path[s] = f /\ pc[s] \notin Deleting \ {"delete_directory"}

\* The probe-keys of a pool are among the ones a deregistration collected; one
\* that has passed them leaves none.
OneProbeKey ==
    \A s \in Session, k \in internal :
      sx[k] # Nil /\ sx[k] = pool[s] =>
        /\ pc[s] \notin {"directory", "unname", "probe_key", "delete_pool", "delete_name"}
        /\ pc[s] = "set_pool" => key[s] = k
        /\ pc[s] \in {"delete_directory", "delete_buckets", "delete_secrets"} => k \in keys[s]

\* What writers have in hand is a record of a pool that is made, and of its one
\* bucket-directory.
InHand ==
    \A w \in Writer :
      wpool[w] # Nil =>
        /\ wrec[w] \in pool_record
        /\ wpool[w] \in named
        /\ \A s \in Session : pc[s] \in Maker => pool[s] # wpool[w]
        /\ \A f \in Path : bd[f] = wpool[w] => wrec[w].path = f

\* A pool without a name has neither a bucket-directory nor a probe-key.
NothingLeft ==
    \A p \in Pool :
      deleted(p) =>
        /\ \A f \in Path : bd[f] # p
        /\ \A k \in internal : sx[k] # p

IInv ==
    /\ TypeOK /\ Arguments /\ Drawn /\ Alone /\ OneDirectory /\ OneProbeKey
    /\ InHand /\ NothingLeft
    /\ NameHasPool /\ DirectoryHasPool /\ ProbeKeyHasPool

-----------------------------------------------------------------------------
(* Types *)

\* A request that ends, or turns to the next pool of a list.
LEMMA ReturnTypes ==
  ASSUME TypeOK, NEW s \in Session, done(s) \/ return(s)
  PROVE  /\ op' \in [Session -> Operation] /\ pc' \in [Session -> Step]
         /\ pool' \in [Session -> Pool \cup {Nil}]
         /\ path' \in [Session -> Path \cup {Nil}]
         /\ bucket' \in [Session -> Bucket \cup {Nil}]
         /\ key' \in [Session -> Key \cup {Nil}]
         /\ bad' \in [Session -> BOOLEAN]
         /\ bkts' \in [Session -> SUBSET Bucket]
         /\ keys' \in [Session -> SUBSET Key]
         /\ todo' \in [Session -> SUBSET Pool]
<1>1. CASE done(s)
  BY <1>1 DEF TypeOK, done, goto, Operation, Step
<1>2. CASE return(s) /\ op[s] = "list_pool"
  BY <1>2 DEF TypeOK, return, goto, Step
<1>3. QED
  BY <1>1, <1>2 DEF return

\* Types: a request arrives.
LEMMA ArriveTypeOK ==
  ASSUME TypeOK, Arguments, NEW s \in Session, Arrive(s), UNCHANGED writers
  PROVE  TypeOK'
<1> USE RegistryAssumption DEF table, writers, prop, request, Operation, Step, Making,
      Gathering, Deleting, OnPool, Maker, HasPath, OnBucket, OnKey
<1>1. CASE \E f \in Path : MakePool(s, f)
  BY <1>1 DEF MakePool, TypeOK, Arguments, begin, goto
<1>2. CASE ListPools(s)
  BY <1>2 DEF ListPools, TypeOK, Arguments, begin, goto
<1>3. CASE \E p \in Pool : ListPool(s, p)
  BY <1>3 DEF ListPool, TypeOK, Arguments, begin, check_user_access, goto
<1>4. CASE \E p \in Pool : DeletePool(s, p)
  BY <1>4 DEF DeletePool, TypeOK, Arguments, begin, check_user_access, goto
<1>5. CASE \E p \in Pool : MakeSecret(s, p)
  BY <1>5 DEF MakeSecret, TypeOK, Arguments, begin, check_user_access, goto
<1>6. CASE \E p \in Pool, b \in Bucket : MakeBucket(s, p, b)
  BY <1>6 DEF MakeBucket, TypeOK, Arguments, begin, check_user_access, goto
<1>7. CASE \E p \in Pool, b \in Bucket : DeleteBucket(s, p, b)
  BY <1>7 DEF DeleteBucket, TypeOK, Arguments, begin, check_user_access, goto
<1>8. CASE \E p \in Pool, k \in Key : DeleteSecret(s, p, k)
  BY <1>8 DEF DeleteSecret, TypeOK, Arguments, begin, check_user_access, goto
<1>9. QED
  BY <1>1, <1>2, <1>3, <1>4, <1>5, <1>6, <1>7, <1>8 DEF Arrive

\* Types: the steps of make_pool_and_return_response().
LEMMA MakeTypeOK ==
  ASSUME TypeOK, Arguments, NEW s \in Session, Make(s), UNCHANGED writers
  PROVE  TypeOK'
<1> USE RegistryAssumption DEF table, writers, prop, request, Operation, Step, Making,
      Gathering, Deleting, OnPool, Maker, HasPath, OnBucket, OnKey
<1>1. CASE SetExBucketDirectory(s)
  BY <1>1 DEF SetExBucketDirectory, TypeOK, Arguments, goto
<1>2. CASE DirectoryTaken(s)
  BY <1>2 DEF DirectoryTaken, TypeOK, Arguments, goto
<1>3. CASE Unname(s)
  BY <1>3, ReturnTypes DEF Unname, TypeOK, Arguments
<1>4. CASE SetProbeKey(s)
  BY <1>4 DEF SetProbeKey, TypeOK, Arguments, goto
<1>5. CASE SetPool(s)
  <2>1. [path |-> path[s], probe |-> key[s]] \in pool_record
    BY <1>5 DEF SetPool, Arguments, pool_record
  <2>2. po' \in [Pool -> pool_record \cup {Nil}]
    BY <1>5, <2>1 DEF SetPool, TypeOK
  <2>3. QED
    BY <1>5, <2>2 DEF SetPool, TypeOK, goto
<1>6. QED
  BY <1>1, <1>2, <1>3, <1>4, <1>5 DEF Make

\* Types: the steps of probe_access_mux().
LEMMA ProbeAccessTypeOK ==
  ASSUME TypeOK, Arguments, NEW s \in Session, ProbeAccess(s), UNCHANGED writers
  PROVE  TypeOK'
<1> USE RegistryAssumption DEF table, writers, prop, request, Operation, Step, Making,
      Gathering, Deleting, OnPool, Maker, HasPath, OnBucket, OnKey
<1>1. CASE ProbePool(s)
  BY <1>1 DEF ProbePool, TypeOK, Arguments, pool_record, goto
<1>2. CASE ProbePoolMissing(s)
  BY <1>2, ReturnTypes DEF ProbePoolMissing, TypeOK, fatal
<1>3. CASE ProbeSecret(s)
  BY <1>3 DEF ProbeSecret, TypeOK, Arguments, goto
<1>4. CASE ProbeSecretMissing(s)
  BY <1>4, ReturnTypes DEF ProbeSecretMissing, TypeOK, fatal
<1>5. CASE Probe(s)
  BY <1>5 DEF Probe, TypeOK, Arguments, goto
<1>6. CASE ProbeFails(s)
  BY <1>6 DEF ProbeFails, TypeOK, Arguments, goto
<1>7. QED
  BY <1>1, <1>2, <1>3, <1>4, <1>5, <1>6 DEF ProbeAccess

\* Types: the steps on buckets and secrets.
LEMMA MemberTypeOK ==
  ASSUME TypeOK, Arguments, NEW s \in Session, Member(s), UNCHANGED writers
  PROVE  TypeOK'
<1> USE RegistryAssumption DEF table, writers, prop, request, Operation, Step, Making,
      Gathering, Deleting, OnPool, Maker, HasPath, OnBucket, OnKey
<1>1. CASE SetExBucket(s)
  BY <1>1 DEF SetExBucket, TypeOK, Arguments, goto
<1>2. CASE BucketTaken(s)
  BY <1>2, ReturnTypes DEF BucketTaken, TypeOK
<1>3. CASE RollbackBucket(s)
  BY <1>3, ReturnTypes DEF RollbackBucket, TypeOK, Arguments
<1>4. CASE CheckBucketOwner(s)
  BY <1>4 DEF CheckBucketOwner, TypeOK, Arguments, goto
<1>5. CASE NotBucketOwner(s)
  BY <1>5, ReturnTypes DEF NotBucketOwner, TypeOK
<1>6. CASE DeleteBucketChecking(s)
  BY <1>6 DEF DeleteBucketChecking, TypeOK, Arguments, goto
<1>7. CASE NoBucket(s)
  BY <1>7, ReturnTypes DEF NoBucket, TypeOK
<1>8. CASE SetSecret(s)
  BY <1>8 DEF SetSecret, TypeOK, Arguments, goto
<1>9. CASE CheckSecretOwner(s)
  BY <1>9 DEF CheckSecretOwner, TypeOK, Arguments, goto
<1>10. CASE NotSecretOwner(s)
  BY <1>10, ReturnTypes DEF NotSecretOwner, TypeOK
<1>11. CASE DeleteSecretKeyChecking(s)
  BY <1>11 DEF DeleteSecretKeyChecking, TypeOK, Arguments, goto
<1>12. CASE NoSecret(s)
  BY <1>12, ReturnTypes DEF NoSecret, TypeOK
<1>13. QED
  BY <1>1, <1>2, <1>3, <1>4, <1>5, <1>6, <1>7, <1>8, <1>9, <1>10, <1>11,
      <1>12 DEF Member

\* Types: the steps of gather_pool_prop() and of listing.
LEMMA GatherTypeOK ==
  ASSUME TypeOK, Arguments, NEW s \in Session, Gather(s), UNCHANGED writers
  PROVE  TypeOK'
<1> USE RegistryAssumption DEF table, writers, prop, request, Operation, Step, Making,
      Gathering, Deleting, OnPool, Maker, HasPath, OnBucket, OnKey
<1>1. CASE ListNext(s)
  BY <1>1 DEF ListNext, TypeOK, Arguments, goto
<1>2. CASE ListDone(s)
  BY <1>2, ReturnTypes DEF ListDone, TypeOK
<1>3. CASE GetPool(s)
  BY <1>3 DEF GetPool, TypeOK, Arguments, pool_record, goto
<1>4. CASE PoolGone(s)
  BY <1>4, ReturnTypes DEF PoolGone, TypeOK
<1>5. CASE FindBucketDirectoryOfPool(s)
  BY <1>5 DEF FindBucketDirectoryOfPool, TypeOK, Arguments, goto
<1>6. CASE GatherBuckets(s)
  BY <1>6 DEF GatherBuckets, TypeOK, Arguments, goto
<1>7. CASE GatherSecrets(s)
  BY <1>7 DEF GatherSecrets, TypeOK, Arguments, goto, list_secrets_of_pool
<1>8. CASE Gathered(s)
  BY <1>8, ReturnTypes DEF Gathered, TypeOK
<1>9. QED
  BY <1>1, <1>2, <1>3, <1>4, <1>5, <1>6, <1>7, <1>8 DEF Gather

\* Types: the steps of deregister_pool_by_prop().
LEMMA DeregisterTypeOK ==
  ASSUME TypeOK, Arguments, NEW s \in Session, Deregister(s), UNCHANGED writers
  PROVE  TypeOK'
<1> USE RegistryAssumption DEF table, writers, prop, request, Operation, Step, Making,
      Gathering, Deleting, OnPool, Maker, HasPath, OnBucket, OnKey
<1>1. CASE DeleteBucketDirectory(s)
  BY <1>1 DEF DeleteBucketDirectory, TypeOK, Arguments, goto
<1>2. CASE DeleteBuckets(s)
  BY <1>2 DEF DeleteBuckets, TypeOK, Arguments
<1>3. CASE BucketsDeleted(s)
  BY <1>3 DEF BucketsDeleted, TypeOK, Arguments, goto
<1>4. CASE DeleteSecrets(s)
  BY <1>4 DEF DeleteSecrets, TypeOK, Arguments
<1>5. CASE SecretsDeleted(s)
  BY <1>5 DEF SecretsDeleted, TypeOK, Arguments, goto
<1>6. CASE DeletePoolRecord(s)
  BY <1>6 DEF DeletePoolRecord, TypeOK, Arguments, goto
<1>7. CASE DeletePoolName(s)
  BY <1>7, ReturnTypes DEF DeletePoolName, TypeOK, Arguments
<1>8. QED
  BY <1>1, <1>2, <1>3, <1>4, <1>5, <1>6, <1>7 DEF Deregister

-----------------------------------------------------------------------------
(* Each part of the invariant, step by step *)

\* A step has at hand what the steps before it have read or made.
LEMMA ArgumentsStep ==
  ASSUME TypeOK, Arguments, TypeOK', NEW s \in Session, Arrive(s) \/ Proceed(s)
  PROVE  Arguments'
<1> USE RegistryAssumption DEF table, prop, request, Making, Gathering,
      Deleting, Step, OnPool, Maker, HasPath, OnBucket, OnKey, TypeOK,
  Arguments, goto, done, begin, check_user_access, return, fatal
<1>1. CASE Arrive(s)
  BY <1>1 DEF
    Arrive, MakePool, ListPools, ListPool, DeletePool, MakeSecret, MakeBucket,
    DeleteBucket, DeleteSecret
<1>2. CASE Make(s)
  BY <1>2 DEF
    Make, SetExBucketDirectory, DirectoryTaken, Unname, SetProbeKey, SetPool
<1>3. CASE ProbeAccess(s)
  <2>1. CASE ProbePool(s)
    BY <2>1 DEF ProbePool, pool_record
  <2>2. CASE ProbePoolMissing(s)
    BY <2>2 DEF ProbePoolMissing
  <2>3. CASE ProbeSecret(s)
    BY <2>3 DEF ProbeSecret
  <2>4. CASE ProbeSecretMissing(s)
    BY <2>4 DEF ProbeSecretMissing
  <2>5. CASE Probe(s)
    BY <2>5 DEF Probe
  <2>6. CASE ProbeFails(s)
    BY <2>6 DEF ProbeFails
  <2>7. QED
    BY <1>3, <2>1, <2>2, <2>3, <2>4, <2>5, <2>6 DEF ProbeAccess
<1>4. CASE Member(s)
  BY <1>4 DEF
    Member, SetExBucket, BucketTaken, RollbackBucket, CheckBucketOwner,
    NotBucketOwner, DeleteBucketChecking, NoBucket, SetSecret,
    CheckSecretOwner, NotSecretOwner, DeleteSecretKeyChecking, NoSecret
<1>5. CASE Gather(s)
  <2>1. CASE ListNext(s)
    BY <2>1 DEF ListNext
  <2>2. CASE ListDone(s)
    BY <2>2 DEF ListDone
  <2>3. CASE GetPool(s)
    BY <2>3 DEF GetPool, pool_record
  <2>4. CASE PoolGone(s)
    BY <2>4 DEF PoolGone
  <2>5. CASE FindBucketDirectoryOfPool(s)
    BY <2>5 DEF FindBucketDirectoryOfPool
  <2>6. CASE GatherBuckets(s)
    BY <2>6 DEF GatherBuckets
  <2>7. CASE GatherSecrets(s)
    BY <2>7 DEF GatherSecrets, list_secrets_of_pool
  <2>8. CASE Gathered(s)
    BY <2>8 DEF Gathered
  <2>9. QED
    BY <1>5, <2>1, <2>2, <2>3, <2>4, <2>5, <2>6, <2>7, <2>8 DEF Gather
<1>6. CASE Deregister(s)
  BY <1>6 DEF
    Deregister, DeleteBucketDirectory, DeleteBuckets, BucketsDeleted,
    DeleteSecrets, SecretsDeleted, DeletePoolRecord, DeletePoolName
<1>7. QED
  BY <1>1, <1>2, <1>3, <1>4, <1>5, <1>6 DEF Proceed

\* Only MakePool and the two that draw keys bring in new names, and they
\* draw them first.
LEMMA DrawnStep ==
  ASSUME TypeOK, Arguments, Drawn, TypeOK', NEW s \in Session,
      Arrive(s) \/ Proceed(s)
  PROVE  Drawn'
<1> USE RegistryAssumption DEF table, prop, request, Making, Gathering,
      Deleting, Step, OnPool, Maker, HasPath, OnBucket, OnKey, TypeOK,
  Arguments, Drawn, goto, done, begin, check_user_access, return, fatal
<1>1. CASE Arrive(s)
  BY <1>1 DEF
    Arrive, MakePool, ListPools, ListPool, DeletePool, MakeSecret, MakeBucket,
    DeleteBucket, DeleteSecret
<1>2. CASE Make(s)
  <2>1. CASE SetExBucketDirectory(s)
    BY <2>1 DEF SetExBucketDirectory
  <2>2. CASE DirectoryTaken(s)
    BY <2>2 DEF DirectoryTaken
  <2>3. CASE Unname(s)
    BY <2>3 DEF Unname
  <2>4. CASE SetProbeKey(s)
    BY <2>4 DEF SetProbeKey
  <2>5. CASE SetPool(s)
    BY <2>5 DEF SetPool
  <2>6. QED
    BY <1>2, <2>1, <2>2, <2>3, <2>4, <2>5 DEF Make
<1>3. CASE ProbeAccess(s)
  <2>1. CASE ProbePool(s)
    BY <2>1 DEF ProbePool
  <2>2. CASE ProbePoolMissing(s)
    BY <2>2 DEF ProbePoolMissing
  <2>3. CASE ProbeSecret(s)
    BY <2>3 DEF ProbeSecret
  <2>4. CASE ProbeSecretMissing(s)
    BY <2>4 DEF ProbeSecretMissing
  <2>5. CASE Probe(s)
    BY <2>5 DEF Probe
  <2>6. CASE ProbeFails(s)
    BY <2>6 DEF ProbeFails
  <2>7. QED
    BY <1>3, <2>1, <2>2, <2>3, <2>4, <2>5, <2>6 DEF ProbeAccess
<1>4. CASE Member(s)
  <2>1. CASE SetExBucket(s)
    BY <2>1 DEF SetExBucket
  <2>2. CASE BucketTaken(s)
    BY <2>2 DEF BucketTaken
  <2>3. CASE RollbackBucket(s)
    BY <2>3 DEF RollbackBucket
  <2>4. CASE CheckBucketOwner(s)
    BY <2>4 DEF CheckBucketOwner
  <2>5. CASE NotBucketOwner(s)
    BY <2>5 DEF NotBucketOwner
  <2>6. CASE DeleteBucketChecking(s)
    BY <2>6 DEF DeleteBucketChecking
  <2>7. CASE NoBucket(s)
    BY <2>7 DEF NoBucket
  <2>8. CASE SetSecret(s)
    BY <2>8 DEF SetSecret
  <2>9. CASE CheckSecretOwner(s)
    BY <2>9 DEF CheckSecretOwner
  <2>10. CASE NotSecretOwner(s)
    BY <2>10 DEF NotSecretOwner
  <2>11. CASE DeleteSecretKeyChecking(s)
    BY <2>11 DEF DeleteSecretKeyChecking
  <2>12. CASE NoSecret(s)
    BY <2>12 DEF NoSecret
  <2>13. QED
    BY <1>4, <2>1, <2>2, <2>3, <2>4, <2>5, <2>6, <2>7, <2>8, <2>9, <2>10,
        <2>11, <2>12 DEF Member
<1>5. CASE Gather(s)
  BY <1>5 DEF
    Gather, ListNext, ListDone, GetPool, PoolGone, FindBucketDirectoryOfPool,
    GatherBuckets, GatherSecrets, Gathered, list_secrets_of_pool
<1>6. CASE Deregister(s)
  BY <1>6 DEF
    Deregister, DeleteBucketDirectory, DeleteBuckets, BucketsDeleted,
    DeleteSecrets, SecretsDeleted, DeletePoolRecord, DeletePoolName
<1>7. QED
  BY <1>1, <1>2, <1>3, <1>4, <1>5, <1>6 DEF Proceed

\* No other request can get hold of a pool-name before its record is set: all
\* of them start from a pool record, or from a list of them.
LEMMA AloneStep ==
  ASSUME TypeOK, Arguments, Drawn, Alone, TypeOK', NEW s \in Session,
      Arrive(s) \/ Proceed(s)
  PROVE  Alone'
<1> USE RegistryAssumption DEF table, prop, request, Making, Gathering,
      Deleting, Step, OnPool, Maker, HasPath, OnBucket, OnKey, TypeOK,
  Arguments, Drawn, Alone, goto, done, begin, check_user_access, return, fatal
<1>1. CASE Arrive(s)
  <2>1. CASE \E f \in Path : MakePool(s, f)
    BY <2>1 DEF MakePool
  <2>2. CASE ListPools(s)
    BY <2>2 DEF ListPools
  <2>3. CASE \E p \in Pool : ListPool(s, p)
    BY <2>3 DEF ListPool
  <2>4. CASE \E p \in Pool : DeletePool(s, p)
    BY <2>4 DEF DeletePool
  <2>5. CASE \E p \in Pool : MakeSecret(s, p)
    BY <2>5 DEF MakeSecret
  <2>6. CASE \E p \in Pool, b \in Bucket : MakeBucket(s, p, b)
    BY <2>6 DEF MakeBucket
  <2>7. CASE \E p \in Pool, b \in Bucket : DeleteBucket(s, p, b)
    BY <2>7 DEF DeleteBucket
  <2>8. CASE \E p \in Pool, k \in Key : DeleteSecret(s, p, k)
    BY <2>8 DEF DeleteSecret
  <2>9. QED
    BY <1>1, <2>1, <2>2, <2>3, <2>4, <2>5, <2>6, <2>7, <2>8 DEF Arrive
<1>2. CASE Make(s)
  <2>1. CASE SetExBucketDirectory(s)
    BY <2>1 DEF SetExBucketDirectory
  <2>2. CASE DirectoryTaken(s)
    BY <2>2 DEF DirectoryTaken
  <2>3. CASE Unname(s)
    BY <2>3 DEF Unname
  <2>4. CASE SetProbeKey(s)
    BY <2>4 DEF SetProbeKey
  <2>5. CASE SetPool(s)
    BY <2>5 DEF SetPool
  <2>6. QED
    BY <1>2, <2>1, <2>2, <2>3, <2>4, <2>5 DEF Make
<1>3. CASE ProbeAccess(s)
  <2>1. CASE ProbePool(s)
    BY <2>1 DEF ProbePool
  <2>2. CASE ProbePoolMissing(s)
    BY <2>2 DEF ProbePoolMissing
  <2>3. CASE ProbeSecret(s)
    BY <2>3 DEF ProbeSecret
  <2>4. CASE ProbeSecretMissing(s)
    BY <2>4 DEF ProbeSecretMissing
  <2>5. CASE Probe(s)
    BY <2>5 DEF Probe
  <2>6. CASE ProbeFails(s)
    BY <2>6 DEF ProbeFails
  <2>7. QED
    BY <1>3, <2>1, <2>2, <2>3, <2>4, <2>5, <2>6 DEF ProbeAccess
<1>4. CASE Member(s)
  <2>1. CASE SetExBucket(s)
    BY <2>1 DEF SetExBucket
  <2>2. CASE BucketTaken(s)
    BY <2>2 DEF BucketTaken
  <2>3. CASE RollbackBucket(s)
    BY <2>3 DEF RollbackBucket
  <2>4. CASE CheckBucketOwner(s)
    BY <2>4 DEF CheckBucketOwner
  <2>5. CASE NotBucketOwner(s)
    BY <2>5 DEF NotBucketOwner
  <2>6. CASE DeleteBucketChecking(s)
    BY <2>6 DEF DeleteBucketChecking
  <2>7. CASE NoBucket(s)
    BY <2>7 DEF NoBucket
  <2>8. CASE SetSecret(s)
    BY <2>8 DEF SetSecret
  <2>9. CASE CheckSecretOwner(s)
    BY <2>9 DEF CheckSecretOwner
  <2>10. CASE NotSecretOwner(s)
    BY <2>10 DEF NotSecretOwner
  <2>11. CASE DeleteSecretKeyChecking(s)
    BY <2>11 DEF DeleteSecretKeyChecking
  <2>12. CASE NoSecret(s)
    BY <2>12 DEF NoSecret
  <2>13. QED
    BY <1>4, <2>1, <2>2, <2>3, <2>4, <2>5, <2>6, <2>7, <2>8, <2>9, <2>10,
        <2>11, <2>12 DEF Member
<1>5. CASE Gather(s)
  <2>1. CASE ListNext(s)
    BY <2>1 DEF ListNext
  <2>2. CASE ListDone(s)
    BY <2>2 DEF ListDone
  <2>3. CASE GetPool(s)
    BY <2>3 DEF GetPool
  <2>4. CASE PoolGone(s)
    <3>1. CASE op[s] = "list_pool"
      BY <2>4, <3>1 DEF PoolGone
    <3>2. CASE op[s] # "list_pool"
      BY <2>4, <3>2 DEF PoolGone
    <3>3. QED
      BY <3>1, <3>2
  <2>5. CASE FindBucketDirectoryOfPool(s)
    BY <2>5 DEF FindBucketDirectoryOfPool
  <2>6. CASE GatherBuckets(s)
    BY <2>6 DEF GatherBuckets
  <2>7. CASE GatherSecrets(s)
    BY <2>7 DEF GatherSecrets, list_secrets_of_pool
  <2>8. CASE Gathered(s)
    <3>1. CASE op[s] = "list_pool"
      BY <2>8, <3>1 DEF Gathered
    <3>2. CASE op[s] # "list_pool"
      BY <2>8, <3>2 DEF Gathered
    <3>3. QED
      BY <3>1, <3>2
  <2>9. QED
    BY <1>5, <2>1, <2>2, <2>3, <2>4, <2>5, <2>6, <2>7, <2>8 DEF Gather
<1>6. CASE Deregister(s)
  <2>1. CASE DeleteBucketDirectory(s)
    BY <2>1 DEF DeleteBucketDirectory
  <2>2. CASE DeleteBuckets(s)
    BY <2>2 DEF DeleteBuckets
  <2>3. CASE BucketsDeleted(s)
    BY <2>3 DEF BucketsDeleted
  <2>4. CASE DeleteSecrets(s)
    BY <2>4 DEF DeleteSecrets
  <2>5. CASE SecretsDeleted(s)
    BY <2>5 DEF SecretsDeleted
  <2>6. CASE DeletePoolRecord(s)
    BY <2>6 DEF DeletePoolRecord
  <2>7. CASE DeletePoolName(s)
    <3>1. CASE op[s] = "list_pool"
      BY <2>7, <3>1 DEF DeletePoolName
    <3>2. CASE op[s] # "list_pool"
      BY <2>7, <3>2 DEF DeletePoolName
    <3>3. QED
      BY <3>1, <3>2
  <2>8. QED
    BY <1>6, <2>1, <2>2, <2>3, <2>4, <2>5, <2>6, <2>7 DEF Deregister
<1>7. QED
  BY <1>1, <1>2, <1>3, <1>4, <1>5, <1>6 DEF Proceed

\* bd:directory is set once for a pool, for the path that SetPool then puts in
\* its record; a deregistration deletes that one.  Another pool's request may
\* delete it at any time, which is why the converse is not claimed.
LEMMA OneDirectoryStep ==
  ASSUME TypeOK, Arguments, Drawn, Alone, OneDirectory, TypeOK',
      NEW s \in Session, Arrive(s) \/ Proceed(s)
  PROVE  OneDirectory'
<1> USE RegistryAssumption DEF table, prop, request, Making, Gathering,
      Deleting, Step, OnPool, Maker, HasPath, OnBucket, OnKey, TypeOK,
  Arguments, Drawn, Alone, OneDirectory, goto, done, begin, check_user_access,
  return, fatal
<1>1. CASE Arrive(s)
  <2>1. CASE \E f \in Path : MakePool(s, f)
    BY <2>1 DEF MakePool
  <2>2. CASE ListPools(s)
    BY <2>2 DEF ListPools
  <2>3. CASE \E p \in Pool : ListPool(s, p)
    BY <2>3 DEF ListPool
  <2>4. CASE \E p \in Pool : DeletePool(s, p)
    BY <2>4 DEF DeletePool
  <2>5. CASE \E p \in Pool : MakeSecret(s, p)
    BY <2>5 DEF MakeSecret
  <2>6. CASE \E p \in Pool, b \in Bucket : MakeBucket(s, p, b)
    BY <2>6 DEF MakeBucket
  <2>7. CASE \E p \in Pool, b \in Bucket : DeleteBucket(s, p, b)
    BY <2>7 DEF DeleteBucket
  <2>8. CASE \E p \in Pool, k \in Key : DeleteSecret(s, p, k)
    BY <2>8 DEF DeleteSecret
  <2>9. QED
    BY <1>1, <2>1, <2>2, <2>3, <2>4, <2>5, <2>6, <2>7, <2>8 DEF Arrive
<1>2. CASE Make(s)
  <2>1. CASE SetExBucketDirectory(s)
    BY <2>1 DEF SetExBucketDirectory
  <2>2. CASE DirectoryTaken(s)
    BY <2>2 DEF DirectoryTaken
  <2>3. CASE Unname(s)
    BY <2>3 DEF Unname
  <2>4. CASE SetProbeKey(s)
    BY <2>4 DEF SetProbeKey
  <2>5. CASE SetPool(s)
    BY <2>5 DEF SetPool
  <2>6. QED
    BY <1>2, <2>1, <2>2, <2>3, <2>4, <2>5 DEF Make
<1>3. CASE ProbeAccess(s)
  <2>1. CASE ProbePool(s)
    BY <2>1 DEF ProbePool
  <2>2. CASE ProbePoolMissing(s)
    BY <2>2 DEF ProbePoolMissing
  <2>3. CASE ProbeSecret(s)
    BY <2>3 DEF ProbeSecret
  <2>4. CASE ProbeSecretMissing(s)
    BY <2>4 DEF ProbeSecretMissing
  <2>5. CASE Probe(s)
    BY <2>5 DEF Probe
  <2>6. CASE ProbeFails(s)
    BY <2>6 DEF ProbeFails
  <2>7. QED
    BY <1>3, <2>1, <2>2, <2>3, <2>4, <2>5, <2>6 DEF ProbeAccess
<1>4. CASE Member(s)
  <2>1. CASE SetExBucket(s)
    BY <2>1 DEF SetExBucket
  <2>2. CASE BucketTaken(s)
    BY <2>2 DEF BucketTaken
  <2>3. CASE RollbackBucket(s)
    BY <2>3 DEF RollbackBucket
  <2>4. CASE CheckBucketOwner(s)
    BY <2>4 DEF CheckBucketOwner
  <2>5. CASE NotBucketOwner(s)
    BY <2>5 DEF NotBucketOwner
  <2>6. CASE DeleteBucketChecking(s)
    BY <2>6 DEF DeleteBucketChecking
  <2>7. CASE NoBucket(s)
    BY <2>7 DEF NoBucket
  <2>8. CASE SetSecret(s)
    BY <2>8 DEF SetSecret
  <2>9. CASE CheckSecretOwner(s)
    BY <2>9 DEF CheckSecretOwner
  <2>10. CASE NotSecretOwner(s)
    BY <2>10 DEF NotSecretOwner
  <2>11. CASE DeleteSecretKeyChecking(s)
    BY <2>11 DEF DeleteSecretKeyChecking
  <2>12. CASE NoSecret(s)
    BY <2>12 DEF NoSecret
  <2>13. QED
    BY <1>4, <2>1, <2>2, <2>3, <2>4, <2>5, <2>6, <2>7, <2>8, <2>9,
        <2>10, <2>11, <2>12 DEF Member
<1>5. CASE Gather(s)
  BY <1>5 DEF
    Gather, ListNext, ListDone, GetPool, PoolGone, FindBucketDirectoryOfPool,
    GatherBuckets, GatherSecrets, Gathered, list_secrets_of_pool
<1>6. CASE Deregister(s)
  BY <1>6 DEF
    Deregister, DeleteBucketDirectory, DeleteBuckets, BucketsDeleted,
    DeleteSecrets, SecretsDeleted, DeletePoolRecord, DeletePoolName
<1>7. QED
  BY <1>1, <1>2, <1>3, <1>4, <1>5, <1>6 DEF Proceed

\* The probe-key is set before the pool record, so a deregistration, which
\* starts from the record, sees it.
LEMMA OneProbeKeyStep ==
  ASSUME TypeOK, Arguments, Drawn, Alone, OneProbeKey, TypeOK',
      NEW s \in Session, Arrive(s) \/ Proceed(s)
  PROVE  OneProbeKey'
<1> USE RegistryAssumption DEF table, prop, request, Making, Gathering,
      Deleting, Step, OnPool, Maker, HasPath, OnBucket, OnKey, TypeOK,
  Arguments, Drawn, Alone, OneProbeKey, goto, done, begin, check_user_access,
  return, fatal
<1>1. CASE Arrive(s)
  BY <1>1 DEF
    Arrive, MakePool, ListPools, ListPool, DeletePool, MakeSecret, MakeBucket,
    DeleteBucket, DeleteSecret
<1>2. CASE Make(s)
  BY <1>2 DEF
    Make, SetExBucketDirectory, DirectoryTaken, Unname, SetProbeKey, SetPool
<1>3. CASE ProbeAccess(s)
  BY <1>3 DEF
    ProbeAccess, ProbePool, ProbePoolMissing, ProbeSecret, ProbeSecretMissing,
    Probe, ProbeFails
<1>4. CASE Member(s)
  <2>1. CASE SetExBucket(s)
    BY <2>1 DEF SetExBucket
  <2>2. CASE BucketTaken(s)
    BY <2>2 DEF BucketTaken
  <2>3. CASE RollbackBucket(s)
    BY <2>3 DEF RollbackBucket
  <2>4. CASE CheckBucketOwner(s)
    BY <2>4 DEF CheckBucketOwner
  <2>5. CASE NotBucketOwner(s)
    BY <2>5 DEF NotBucketOwner
  <2>6. CASE DeleteBucketChecking(s)
    BY <2>6 DEF DeleteBucketChecking
  <2>7. CASE NoBucket(s)
    BY <2>7 DEF NoBucket
  <2>8. CASE SetSecret(s)
    BY <2>8 DEF SetSecret
  <2>9. CASE CheckSecretOwner(s)
    BY <2>9 DEF CheckSecretOwner
  <2>10. CASE NotSecretOwner(s)
    BY <2>10 DEF NotSecretOwner
  <2>11. CASE DeleteSecretKeyChecking(s)
    BY <2>11 DEF DeleteSecretKeyChecking
  <2>12. CASE NoSecret(s)
    BY <2>12 DEF NoSecret
  <2>13. QED
    BY <1>4, <2>1, <2>2, <2>3, <2>4, <2>5, <2>6, <2>7, <2>8, <2>9,
        <2>10, <2>11, <2>12 DEF Member
<1>5. CASE Gather(s)
  BY <1>5 DEF
    Gather, ListNext, ListDone, GetPool, PoolGone, FindBucketDirectoryOfPool,
    GatherBuckets, GatherSecrets, Gathered, list_secrets_of_pool
<1>6. CASE Deregister(s)
  BY <1>6 DEF
    Deregister, DeleteBucketDirectory, DeleteBuckets, BucketsDeleted,
    DeleteSecrets, SecretsDeleted, DeletePoolRecord, DeletePoolName
<1>7. QED
  BY <1>1, <1>2, <1>3, <1>4, <1>5, <1>6 DEF Proceed

\* Requests leave alone what writers have in hand, and draw other names.
LEMMA InHandStep ==
  ASSUME TypeOK, Arguments, Drawn, Alone, InHand, TypeOK', NEW s \in Session,
      Arrive(s) \/ Proceed(s), UNCHANGED writers
  PROVE  InHand'
<1> USE RegistryAssumption DEF table, writers, prop, request, Making, Gathering,
      Deleting, Step, Maker, TypeOK, Arguments, OnPool, HasPath, Drawn, Alone,
  InHand, goto, done, begin, check_user_access, return, fatal
<1>1. CASE Arrive(s)
  BY <1>1 DEF
    Arrive, MakePool, ListPools, ListPool, DeletePool, MakeSecret, MakeBucket,
    DeleteBucket, DeleteSecret
<1>2. CASE Make(s)
  BY <1>2 DEF
    Make, SetExBucketDirectory, DirectoryTaken, Unname, SetProbeKey, SetPool
<1>3. CASE ProbeAccess(s)
  BY <1>3 DEF
    ProbeAccess, ProbePool, ProbePoolMissing, ProbeSecret, ProbeSecretMissing,
    Probe, ProbeFails
<1>4. CASE Member(s)
  <2>1. CASE SetExBucket(s)
    BY <2>1 DEF SetExBucket
  <2>2. CASE BucketTaken(s)
    BY <2>2 DEF BucketTaken
  <2>3. CASE RollbackBucket(s)
    BY <2>3 DEF RollbackBucket
  <2>4. CASE CheckBucketOwner(s)
    BY <2>4 DEF CheckBucketOwner
  <2>5. CASE NotBucketOwner(s)
    BY <2>5 DEF NotBucketOwner
  <2>6. CASE DeleteBucketChecking(s)
    BY <2>6 DEF DeleteBucketChecking
  <2>7. CASE NoBucket(s)
    BY <2>7 DEF NoBucket
  <2>8. CASE SetSecret(s)
    BY <2>8 DEF SetSecret
  <2>9. CASE CheckSecretOwner(s)
    BY <2>9 DEF CheckSecretOwner
  <2>10. CASE NotSecretOwner(s)
    BY <2>10 DEF NotSecretOwner
  <2>11. CASE DeleteSecretKeyChecking(s)
    BY <2>11 DEF DeleteSecretKeyChecking
  <2>12. CASE NoSecret(s)
    BY <2>12 DEF NoSecret
  <2>13. QED
    BY <1>4, <2>1, <2>2, <2>3, <2>4, <2>5, <2>6, <2>7, <2>8, <2>9,
        <2>10, <2>11, <2>12 DEF Member
<1>5. CASE Gather(s)
  BY <1>5 DEF
    Gather, ListNext, ListDone, GetPool, PoolGone, FindBucketDirectoryOfPool,
    GatherBuckets, GatherSecrets, Gathered, list_secrets_of_pool
<1>6. CASE Deregister(s)
  BY <1>6 DEF
    Deregister, DeleteBucketDirectory, DeleteBuckets, BucketsDeleted,
    DeleteSecrets, SecretsDeleted, DeletePoolRecord, DeletePoolName
<1>7. QED
  BY <1>1, <1>2, <1>3, <1>4, <1>5, <1>6 DEF Proceed

\* A name is released after the bucket-directory and the probe-key.
LEMMA NothingLeftStep ==
  ASSUME TypeOK, Arguments, Drawn, Alone, OneDirectory, OneProbeKey, NothingLeft,
      TypeOK', NEW s \in Session, Arrive(s) \/ Proceed(s)
  PROVE  NothingLeft'
<1> USE RegistryAssumption DEF table, prop, request, Making, Gathering,
      Deleting, Step, Maker, TypeOK, Arguments, OnPool, HasPath, Drawn, Alone,
  OneDirectory, OneProbeKey, NothingLeft, deleted, goto, done, begin,
  check_user_access, return, fatal
<1>1. CASE Arrive(s)
  BY <1>1 DEF
    Arrive, MakePool, ListPools, ListPool, DeletePool, MakeSecret, MakeBucket,
    DeleteBucket, DeleteSecret
<1>2. CASE Make(s)
  BY <1>2 DEF
    Make, SetExBucketDirectory, DirectoryTaken, Unname, SetProbeKey, SetPool
<1>3. CASE ProbeAccess(s)
  BY <1>3 DEF
    ProbeAccess, ProbePool, ProbePoolMissing, ProbeSecret, ProbeSecretMissing,
    Probe, ProbeFails
<1>4. CASE Member(s)
  BY <1>4 DEF
    Member, SetExBucket, BucketTaken, RollbackBucket, CheckBucketOwner,
    NotBucketOwner, DeleteBucketChecking, NoBucket, SetSecret,
    CheckSecretOwner, NotSecretOwner, DeleteSecretKeyChecking, NoSecret
<1>5. CASE Gather(s)
  BY <1>5 DEF
    Gather, ListNext, ListDone, GetPool, PoolGone, FindBucketDirectoryOfPool,
    GatherBuckets, GatherSecrets, Gathered, list_secrets_of_pool
<1>6. CASE Deregister(s)
  BY <1>6 DEF
    Deregister, DeleteBucketDirectory, DeleteBuckets, BucketsDeleted,
    DeleteSecrets, SecretsDeleted, DeletePoolRecord, DeletePoolName
<1>7. QED
  BY <1>1, <1>2, <1>3, <1>4, <1>5, <1>6 DEF Proceed

\* A name without a pool has a request that will settle it.
LEMMA NameHasPoolStep ==
  ASSUME TypeOK, Arguments, Alone, NameHasPool, TypeOK',
      NEW s \in Session, Arrive(s) \/ Proceed(s)
  PROVE  NameHasPool'
<1> USE RegistryAssumption DEF table, prop, request, Making, Gathering,
      Deleting, Step, OnPool, Maker, HasPath, OnBucket, OnKey, TypeOK,
  Arguments, Alone, NameHasPool, making, goto, done, begin,
  check_user_access, return, fatal
<1>1. CASE Arrive(s)
  BY <1>1 DEF
    Arrive, MakePool, ListPools, ListPool, DeletePool, MakeSecret, MakeBucket,
    DeleteBucket, DeleteSecret
<1>2. CASE Make(s)
  <2>1. CASE SetExBucketDirectory(s)
    BY <2>1 DEF SetExBucketDirectory
  <2>2. CASE DirectoryTaken(s)
    BY <2>2 DEF DirectoryTaken
  <2>3. CASE Unname(s)
    BY <2>3 DEF Unname
  <2>4. CASE SetProbeKey(s)
    BY <2>4 DEF SetProbeKey
  <2>5. CASE SetPool(s)
    <3>1. po'[pool[s]] # Nil /\ \A p \in Pool : p # pool[s] => po'[p] = po[p]
      BY <2>5 DEF SetPool, pool_record
    <3>2. QED
      BY <2>5, <3>1 DEF SetPool
  <2>6. QED
    BY <1>2, <2>1, <2>2, <2>3, <2>4, <2>5 DEF Make
<1>3. CASE ProbeAccess(s)
  <2>1. CASE ProbePool(s)
    BY <2>1 DEF ProbePool
  <2>2. CASE ProbePoolMissing(s)
    BY <2>2 DEF ProbePoolMissing
  <2>3. CASE ProbeSecret(s)
    BY <2>3 DEF ProbeSecret
  <2>4. CASE ProbeSecretMissing(s)
    BY <2>4 DEF ProbeSecretMissing
  <2>5. CASE Probe(s)
    BY <2>5 DEF Probe
  <2>6. CASE ProbeFails(s)
    BY <2>6 DEF ProbeFails
  <2>7. QED
    BY <1>3, <2>1, <2>2, <2>3, <2>4, <2>5, <2>6 DEF ProbeAccess
<1>4. CASE Member(s)
  <2>1. CASE SetExBucket(s)
    BY <2>1 DEF SetExBucket
  <2>2. CASE BucketTaken(s)
    BY <2>2 DEF BucketTaken
  <2>3. CASE RollbackBucket(s)
    BY <2>3 DEF RollbackBucket
  <2>4. CASE CheckBucketOwner(s)
    BY <2>4 DEF CheckBucketOwner
  <2>5. CASE NotBucketOwner(s)
    BY <2>5 DEF NotBucketOwner
  <2>6. CASE DeleteBucketChecking(s)
    BY <2>6 DEF DeleteBucketChecking
  <2>7. CASE NoBucket(s)
    BY <2>7 DEF NoBucket
  <2>8. CASE SetSecret(s)
    BY <2>8 DEF SetSecret
  <2>9. CASE CheckSecretOwner(s)
    BY <2>9 DEF CheckSecretOwner
  <2>10. CASE NotSecretOwner(s)
    BY <2>10 DEF NotSecretOwner
  <2>11. CASE DeleteSecretKeyChecking(s)
    BY <2>11 DEF DeleteSecretKeyChecking
  <2>12. CASE NoSecret(s)
    BY <2>12 DEF NoSecret
  <2>13. QED
    BY <1>4, <2>1, <2>2, <2>3, <2>4, <2>5, <2>6, <2>7, <2>8, <2>9, <2>10,
        <2>11, <2>12 DEF Member
<1>5. CASE Gather(s)
  <2>1. CASE ListNext(s)
    BY <2>1 DEF ListNext
  <2>2. CASE ListDone(s)
    BY <2>2 DEF ListDone
  <2>3. CASE GetPool(s)
    BY <2>3 DEF GetPool
  <2>4. CASE PoolGone(s)
    BY <2>4 DEF PoolGone
  <2>5. CASE FindBucketDirectoryOfPool(s)
    BY <2>5 DEF FindBucketDirectoryOfPool
  <2>6. CASE GatherBuckets(s)
    BY <2>6 DEF GatherBuckets
  <2>7. CASE GatherSecrets(s)
    BY <2>7 DEF GatherSecrets, list_secrets_of_pool
  <2>8. CASE Gathered(s)
    BY <2>8 DEF Gathered
  <2>9. QED
    BY <1>5, <2>1, <2>2, <2>3, <2>4, <2>5, <2>6, <2>7, <2>8 DEF Gather
<1>6. CASE Deregister(s)
  <2>1. CASE DeleteBucketDirectory(s)
    BY <2>1 DEF DeleteBucketDirectory
  <2>2. CASE DeleteBuckets(s)
    BY <2>2 DEF DeleteBuckets
  <2>3. CASE BucketsDeleted(s)
    BY <2>3 DEF BucketsDeleted
  <2>4. CASE DeleteSecrets(s)
    BY <2>4 DEF DeleteSecrets
  <2>5. CASE SecretsDeleted(s)
    BY <2>5 DEF SecretsDeleted
  <2>6. CASE DeletePoolRecord(s)
    BY <2>6 DEF DeletePoolRecord
  <2>7. CASE DeletePoolName(s)
    <3>1. CASE op[s] = "list_pool"
      BY <2>7, <3>1 DEF DeletePoolName
    <3>2. CASE op[s] # "list_pool"
      BY <2>7, <3>2 DEF DeletePoolName
    <3>3. QED
      BY <3>1, <3>2
  <2>8. QED
    BY <1>6, <2>1, <2>2, <2>3, <2>4, <2>5, <2>6, <2>7 DEF Deregister
<1>7. QED
  BY <1>1, <1>2, <1>3, <1>4, <1>5, <1>6 DEF Proceed

\* DeletePoolRecord comes after DeleteBucketDirectory (OneDirectory).
LEMMA DirectoryHasPoolStep ==
  ASSUME TypeOK, Arguments, Alone, OneDirectory, DirectoryHasPool, TypeOK',
      NEW s \in Session, Arrive(s) \/ Proceed(s)
  PROVE  DirectoryHasPool'
<1> USE RegistryAssumption DEF table, prop, request, Making, Gathering,
      Deleting, Step, OnPool, Maker, HasPath, OnBucket, OnKey, TypeOK,
  Arguments, Alone, OneDirectory, DirectoryHasPool, making, goto, done, begin,
  check_user_access, return, fatal
<1>1. CASE Arrive(s)
  <2>1. CASE \E f \in Path : MakePool(s, f)
    BY <2>1 DEF MakePool
  <2>2. CASE ListPools(s)
    BY <2>2 DEF ListPools
  <2>3. CASE \E p \in Pool : ListPool(s, p)
    BY <2>3 DEF ListPool
  <2>4. CASE \E p \in Pool : DeletePool(s, p)
    BY <2>4 DEF DeletePool
  <2>5. CASE \E p \in Pool : MakeSecret(s, p)
    BY <2>5 DEF MakeSecret
  <2>6. CASE \E p \in Pool, b \in Bucket : MakeBucket(s, p, b)
    BY <2>6 DEF MakeBucket
  <2>7. CASE \E p \in Pool, b \in Bucket : DeleteBucket(s, p, b)
    BY <2>7 DEF DeleteBucket
  <2>8. CASE \E p \in Pool, k \in Key : DeleteSecret(s, p, k)
    BY <2>8 DEF DeleteSecret
  <2>9. QED
    BY <1>1, <2>1, <2>2, <2>3, <2>4, <2>5, <2>6, <2>7, <2>8 DEF Arrive
<1>2. CASE Make(s)
  <2>1. CASE SetExBucketDirectory(s)
    BY <2>1 DEF SetExBucketDirectory
  <2>2. CASE DirectoryTaken(s)
    BY <2>2 DEF DirectoryTaken
  <2>3. CASE Unname(s)
    BY <2>3 DEF Unname
  <2>4. CASE SetProbeKey(s)
    BY <2>4 DEF SetProbeKey
  <2>5. CASE SetPool(s)
    <3>1. po'[pool[s]] # Nil /\ \A p \in Pool : p # pool[s] => po'[p] = po[p]
      BY <2>5 DEF SetPool, pool_record
    <3>2. QED
      BY <2>5, <3>1 DEF SetPool
  <2>6. QED
    BY <1>2, <2>1, <2>2, <2>3, <2>4, <2>5 DEF Make
<1>3. CASE ProbeAccess(s)
  <2>1. CASE ProbePool(s)
    BY <2>1 DEF ProbePool
  <2>2. CASE ProbePoolMissing(s)
    BY <2>2 DEF ProbePoolMissing
  <2>3. CASE ProbeSecret(s)
    BY <2>3 DEF ProbeSecret
  <2>4. CASE ProbeSecretMissing(s)
    BY <2>4 DEF ProbeSecretMissing
  <2>5. CASE Probe(s)
    BY <2>5 DEF Probe
  <2>6. CASE ProbeFails(s)
    BY <2>6 DEF ProbeFails
  <2>7. QED
    BY <1>3, <2>1, <2>2, <2>3, <2>4, <2>5, <2>6 DEF ProbeAccess
<1>4. CASE Member(s)
  <2>1. CASE SetExBucket(s)
    BY <2>1 DEF SetExBucket
  <2>2. CASE BucketTaken(s)
    BY <2>2 DEF BucketTaken
  <2>3. CASE RollbackBucket(s)
    BY <2>3 DEF RollbackBucket
  <2>4. CASE CheckBucketOwner(s)
    BY <2>4 DEF CheckBucketOwner
  <2>5. CASE NotBucketOwner(s)
    BY <2>5 DEF NotBucketOwner
  <2>6. CASE DeleteBucketChecking(s)
    BY <2>6 DEF DeleteBucketChecking
  <2>7. CASE NoBucket(s)
    BY <2>7 DEF NoBucket
  <2>8. CASE SetSecret(s)
    BY <2>8 DEF SetSecret
  <2>9. CASE CheckSecretOwner(s)
    BY <2>9 DEF CheckSecretOwner
  <2>10. CASE NotSecretOwner(s)
    BY <2>10 DEF NotSecretOwner
  <2>11. CASE DeleteSecretKeyChecking(s)
    BY <2>11 DEF DeleteSecretKeyChecking
  <2>12. CASE NoSecret(s)
    BY <2>12 DEF NoSecret
  <2>13. QED
    BY <1>4, <2>1, <2>2, <2>3, <2>4, <2>5, <2>6, <2>7, <2>8, <2>9,
        <2>10, <2>11, <2>12 DEF Member
<1>5. CASE Gather(s)
  <2>1. CASE ListNext(s)
    BY <2>1 DEF ListNext
  <2>2. CASE ListDone(s)
    BY <2>2 DEF ListDone
  <2>3. CASE GetPool(s)
    BY <2>3 DEF GetPool
  <2>4. CASE PoolGone(s)
    BY <2>4 DEF PoolGone
  <2>5. CASE FindBucketDirectoryOfPool(s)
    BY <2>5 DEF FindBucketDirectoryOfPool
  <2>6. CASE GatherBuckets(s)
    BY <2>6 DEF GatherBuckets
  <2>7. CASE GatherSecrets(s)
    BY <2>7 DEF GatherSecrets, list_secrets_of_pool
  <2>8. CASE Gathered(s)
    BY <2>8 DEF Gathered
  <2>9. QED
    BY <1>5, <2>1, <2>2, <2>3, <2>4, <2>5, <2>6, <2>7, <2>8 DEF Gather
<1>6. CASE Deregister(s)
  <2>1. CASE DeleteBucketDirectory(s)
    BY <2>1 DEF DeleteBucketDirectory
  <2>2. CASE DeleteBuckets(s)
    BY <2>2 DEF DeleteBuckets
  <2>3. CASE BucketsDeleted(s)
    BY <2>3 DEF BucketsDeleted
  <2>4. CASE DeleteSecrets(s)
    BY <2>4 DEF DeleteSecrets
  <2>5. CASE SecretsDeleted(s)
    BY <2>5 DEF SecretsDeleted
  <2>6. CASE DeletePoolRecord(s)
    BY <2>6 DEF DeletePoolRecord
  <2>7. CASE DeletePoolName(s)
    BY <2>7 DEF DeletePoolName
  <2>8. QED
    BY <1>6, <2>1, <2>2, <2>3, <2>4, <2>5, <2>6, <2>7 DEF Deregister
<1>7. QED
  BY <1>1, <1>2, <1>3, <1>4, <1>5, <1>6 DEF Proceed

\* DeletePoolRecord comes after DeleteSecrets (OneProbeKey).
LEMMA ProbeKeyHasPoolStep ==
  ASSUME TypeOK, Arguments, Drawn, Alone, OneProbeKey, ProbeKeyHasPool,
      TypeOK', NEW s \in Session, Arrive(s) \/ Proceed(s)
  PROVE  ProbeKeyHasPool'
<1> USE RegistryAssumption DEF table, prop, request, Making, Gathering,
      Deleting, Step, OnPool, Maker, HasPath, OnBucket, OnKey, TypeOK,
  Arguments, Drawn, Alone, OneProbeKey, ProbeKeyHasPool, making, goto, done,
  begin, check_user_access, return, fatal
<1>1. CASE Arrive(s)
  <2>1. CASE \E f \in Path : MakePool(s, f)
    BY <2>1 DEF MakePool
  <2>2. CASE ListPools(s)
    BY <2>2 DEF ListPools
  <2>3. CASE \E p \in Pool : ListPool(s, p)
    BY <2>3 DEF ListPool
  <2>4. CASE \E p \in Pool : DeletePool(s, p)
    BY <2>4 DEF DeletePool
  <2>5. CASE \E p \in Pool : MakeSecret(s, p)
    BY <2>5 DEF MakeSecret
  <2>6. CASE \E p \in Pool, b \in Bucket : MakeBucket(s, p, b)
    BY <2>6 DEF MakeBucket
  <2>7. CASE \E p \in Pool, b \in Bucket : DeleteBucket(s, p, b)
    BY <2>7 DEF DeleteBucket
  <2>8. CASE \E p \in Pool, k \in Key : DeleteSecret(s, p, k)
    BY <2>8 DEF DeleteSecret
  <2>9. QED
    BY <1>1, <2>1, <2>2, <2>3, <2>4, <2>5, <2>6, <2>7, <2>8 DEF Arrive
<1>2. CASE Make(s)
  <2>1. CASE SetExBucketDirectory(s)
    BY <2>1 DEF SetExBucketDirectory
  <2>2. CASE DirectoryTaken(s)
    BY <2>2 DEF DirectoryTaken
  <2>3. CASE Unname(s)
    BY <2>3 DEF Unname
  <2>4. CASE SetProbeKey(s)
    BY <2>4 DEF SetProbeKey
  <2>5. CASE SetPool(s)
    <3>1. po'[pool[s]] # Nil /\ \A p \in Pool : p # pool[s] => po'[p] = po[p]
      BY <2>5 DEF SetPool, pool_record
    <3>2. QED
      BY <2>5, <3>1 DEF SetPool
  <2>6. QED
    BY <1>2, <2>1, <2>2, <2>3, <2>4, <2>5 DEF Make
<1>3. CASE ProbeAccess(s)
  BY <1>3 DEF
    ProbeAccess, ProbePool, ProbePoolMissing, ProbeSecret, ProbeSecretMissing,
    Probe, ProbeFails
<1>4. CASE Member(s)
  <2>1. CASE SetExBucket(s)
    BY <2>1 DEF SetExBucket
  <2>2. CASE BucketTaken(s)
    BY <2>2 DEF BucketTaken
  <2>3. CASE RollbackBucket(s)
    BY <2>3 DEF RollbackBucket
  <2>4. CASE CheckBucketOwner(s)
    BY <2>4 DEF CheckBucketOwner
  <2>5. CASE NotBucketOwner(s)
    BY <2>5 DEF NotBucketOwner
  <2>6. CASE DeleteBucketChecking(s)
    BY <2>6 DEF DeleteBucketChecking
  <2>7. CASE NoBucket(s)
    BY <2>7 DEF NoBucket
  <2>8. CASE SetSecret(s)
    BY <2>8 DEF SetSecret
  <2>9. CASE CheckSecretOwner(s)
    BY <2>9 DEF CheckSecretOwner
  <2>10. CASE NotSecretOwner(s)
    BY <2>10 DEF NotSecretOwner
  <2>11. CASE DeleteSecretKeyChecking(s)
    BY <2>11 DEF DeleteSecretKeyChecking
  <2>12. CASE NoSecret(s)
    BY <2>12 DEF NoSecret
  <2>13. QED
    BY <1>4, <2>1, <2>2, <2>3, <2>4, <2>5, <2>6, <2>7, <2>8, <2>9, <2>10,
        <2>11, <2>12 DEF Member
<1>5. CASE Gather(s)
  <2>1. CASE ListNext(s)
    BY <2>1 DEF ListNext
  <2>2. CASE ListDone(s)
    BY <2>2 DEF ListDone
  <2>3. CASE GetPool(s)
    BY <2>3 DEF GetPool
  <2>4. CASE PoolGone(s)
    BY <2>4 DEF PoolGone
  <2>5. CASE FindBucketDirectoryOfPool(s)
    BY <2>5 DEF FindBucketDirectoryOfPool
  <2>6. CASE GatherBuckets(s)
    BY <2>6 DEF GatherBuckets
  <2>7. CASE GatherSecrets(s)
    BY <2>7 DEF GatherSecrets, list_secrets_of_pool
  <2>8. CASE Gathered(s)
    BY <2>8 DEF Gathered
  <2>9. QED
    BY <1>5, <2>1, <2>2, <2>3, <2>4, <2>5, <2>6, <2>7, <2>8 DEF Gather
<1>6. CASE Deregister(s)
  <2>1. CASE DeleteBucketDirectory(s)
    BY <2>1 DEF DeleteBucketDirectory
  <2>2. CASE DeleteBuckets(s)
    BY <2>2 DEF DeleteBuckets
  <2>3. CASE BucketsDeleted(s)
    BY <2>3 DEF BucketsDeleted
  <2>4. CASE DeleteSecrets(s)
    BY <2>4 DEF DeleteSecrets
  <2>5. CASE SecretsDeleted(s)
    BY <2>5 DEF SecretsDeleted
  <2>6. CASE DeletePoolRecord(s)
    BY <2>6 DEF DeletePoolRecord
  <2>7. CASE DeletePoolName(s)
    BY <2>7 DEF DeletePoolName
  <2>8. QED
    BY <1>6, <2>1, <2>2, <2>3, <2>4, <2>5, <2>6, <2>7 DEF Deregister
<1>7. QED
  BY <1>1, <1>2, <1>3, <1>4, <1>5, <1>6 DEF Proceed

-----------------------------------------------------------------------------
(* The theorems *)

\* Restarts break off every request, and leave the records as they are.
LEMMA RestartStep ==
  ASSUME IInv, Restart, UNCHANGED writers
  PROVE  IInv'
<1> USE RegistryAssumption DEF IInv, Restart, table, writers
<1>1. restarts' # 0 /\ restarts' \in 0 .. MaxRestart
  BY DEF TypeOK
<1>2. TypeOK'
  BY <1>1 DEF TypeOK, Operation, Step
<1>3. Arguments' /\ Alone' /\ InHand'
  BY DEF Arguments, Alone, InHand, OnPool, Maker, Making, HasPath, Gathering,
         Deleting, OnBucket, OnKey
<1>4. Drawn' /\ NothingLeft'
  BY DEF Drawn, NothingLeft, deleted
<1>5. OneDirectory' /\ OneProbeKey'
  BY DEF OneDirectory, OneProbeKey, TypeOK
<1>6. NameHasPool' /\ DirectoryHasPool' /\ ProbeKeyHasPool'
  BY <1>1 DEF NameHasPool, DirectoryHasPool, ProbeKeyHasPool
<1>7. QED
  BY <1>2, <1>3, <1>4, <1>5, <1>6

\* A writer takes a record in hand.
LEMMA ReadPoolStep ==
  ASSUME IInv, NEW w \in Writer, NEW p \in Pool, ReadPool(w, p)
  PROVE  IInv'
<1> USE RegistryAssumption DEF IInv, ReadPool, table, prop, request
<1>1. TypeOK'
  BY DEF TypeOK
<1>2. Arguments' /\ Drawn' /\ Alone' /\ NothingLeft'
  BY DEF Arguments, Drawn, Alone, NothingLeft, deleted
<1>3. OneDirectory' /\ OneProbeKey'
  BY DEF OneDirectory, OneProbeKey
<1>4. NameHasPool' /\ DirectoryHasPool' /\ ProbeKeyHasPool'
  BY DEF NameHasPool, DirectoryHasPool, ProbeKeyHasPool, making
<1>5. InHand'
  <2>1. \A v \in Writer : v # w => wpool'[v] = wpool[v] /\ wrec'[v] = wrec[v]
    BY DEF TypeOK
  <2>2. wpool'[w] = p /\ wrec'[w] = po[p] /\ po[p] \in pool_record /\ p \in named
    BY DEF TypeOK, Drawn
  <2>3. \A s \in Session : pc[s] \in Maker => pool[s] # p
    BY DEF Alone
  <2>4. \A f \in Path : bd[f] = p => po[p].path = f
    BY DEF OneDirectory
  <2>5. QED
    BY <2>1, <2>2, <2>3, <2>4 DEF InHand
<1>6. QED
  BY <1>1, <1>2, <1>3, <1>4, <1>5

\* A writer stores the record it has in hand: a pool without a record gets one,
\* and the directory in it is the one the pool has, if it has any.
LEMMA WriteBackStep ==
  ASSUME IInv, NEW w \in Writer, WriteBack(w) \/ NoWrite(w)
  PROVE  IInv'
<1> USE RegistryAssumption DEF IInv, WriteBack, NoWrite, finish, table, prop, request
<1>1. /\ wpool[w] \in Pool /\ wpool[w] \in named
      /\ wrec[w] \in pool_record /\ wrec[w] # Nil
      /\ \A s \in Session : pc[s] \in Maker => pool[s] # wpool[w]
      /\ \A f \in Path : bd[f] = wpool[w] => wrec[w].path = f
  BY DEF TypeOK, InHand, pool_record
<1>2. /\ \A p \in Pool : p # wpool[w] => po'[p] = po[p]
      /\ po'[wpool[w]] = wrec[w] \/ po' = po
      /\ \A p \in Pool : po'[p] = Nil => po[p] = Nil
  BY <1>1 DEF TypeOK
<1>3. TypeOK'
  BY <1>1 DEF TypeOK
<1>4. Arguments' /\ NothingLeft'
  BY DEF Arguments, NothingLeft, deleted
<1>5. Drawn' /\ Alone'
  BY <1>1, <1>2 DEF Drawn, Alone, Arguments, OnPool, Maker, Making, Step
<1>6. OneDirectory' /\ OneProbeKey'
  BY <1>1, <1>2 DEF OneDirectory, OneProbeKey, TypeOK
<1>7. InHand'
  BY DEF InHand, TypeOK
<1>8. NameHasPool' /\ DirectoryHasPool' /\ ProbeKeyHasPool'
  BY <1>2 DEF NameHasPool, DirectoryHasPool, ProbeKeyHasPool, making, TypeOK
<1>9. QED
  BY <1>3, <1>4, <1>5, <1>6, <1>7, <1>8

\* Types, put together.
LEMMA TypeOKStep ==
  ASSUME TypeOK, Arguments, NEW s \in Session, Arrive(s) \/ Proceed(s),
         UNCHANGED writers
  PROVE  TypeOK'
BY ArriveTypeOK, MakeTypeOK, ProbeAccessTypeOK, MemberTypeOK, GatherTypeOK,
   DeregisterTypeOK DEF Proceed

\* An empty keyval-db satisfies the invariant.
LEMMA InitIInv == Init => IInv
<1> SUFFICES ASSUME Init PROVE IInv
  OBVIOUS
<1> USE RegistryAssumption DEF Init
<1>1. TypeOK
  BY DEF TypeOK, Operation, Step
<1>2. Arguments /\ Alone /\ InHand
  BY DEF Arguments, Alone, InHand, OnPool, Maker, Making, HasPath, Gathering,
         Deleting, OnBucket, OnKey
<1>3. Drawn /\ NothingLeft /\ OneDirectory /\ OneProbeKey
  BY DEF Drawn, NothingLeft, deleted, OneDirectory, OneProbeKey
<1>4. NameHasPool /\ DirectoryHasPool /\ ProbeKeyHasPool
  BY DEF NameHasPool, DirectoryHasPool, ProbeKeyHasPool
<1>5. QED
  BY <1>1, <1>2, <1>3, <1>4 DEF IInv

\* Every step preserves the invariant.
LEMMA NextIInv == IInv /\ [Next]_vars => IInv'
<1> SUFFICES ASSUME IInv, [Next]_vars PROVE IInv'
  OBVIOUS
<1>1. ASSUME NEW s \in Session, Arrive(s) \/ Proceed(s), UNCHANGED writers
      PROVE  IInv'
  <2>1. TypeOK'
    BY <1>1, TypeOKStep DEF IInv
  <2>2. Arguments' /\ Drawn' /\ Alone'
    BY <1>1, <2>1, ArgumentsStep, DrawnStep, AloneStep DEF IInv
  <2>3. OneDirectory' /\ OneProbeKey' /\ InHand' /\ NothingLeft'
    BY <1>1, <2>1, OneDirectoryStep, OneProbeKeyStep, InHandStep,
       NothingLeftStep DEF IInv
  <2>4. NameHasPool' /\ DirectoryHasPool' /\ ProbeKeyHasPool'
    BY <1>1, <2>1, NameHasPoolStep, DirectoryHasPoolStep,
        ProbeKeyHasPoolStep DEF IInv
  <2>5. QED
    BY <2>1, <2>2, <2>3, <2>4 DEF IInv
<1>2. CASE UNCHANGED vars
  <2> USE <1>2 DEF IInv, vars, table, prop, request, writers
  <2>1. TypeOK' /\ Arguments' /\ Drawn' /\ Alone'
    BY DEF TypeOK, Arguments, Drawn, Alone
  <2>2. OneDirectory' /\ OneProbeKey' /\ InHand' /\ NothingLeft'
    BY DEF OneDirectory, OneProbeKey, InHand, NothingLeft, deleted
  <2>3. NameHasPool' /\ DirectoryHasPool' /\ ProbeKeyHasPool'
    BY DEF NameHasPool, DirectoryHasPool, ProbeKeyHasPool, making
  <2>4. QED
    BY <2>1, <2>2, <2>3
<1>3. QED
  BY <1>1, <1>2, RestartStep, ReadPoolStep, WriteBackStep DEF Next, Serve, Write

\* The invariant that the others follow from.
THEOREM Invariance == Spec => []IInv
BY InitIInv, NextIInv, PTL DEF Spec

\* The state of Registrar keeps its type in every request and restart.
THEOREM TypeCorrect == Spec => []TypeOK
<1>1. IInv => TypeOK
  BY DEF IInv
<1>2. QED
  BY <1>1, Invariance, PTL

\* A reserved name without a pool record has a request that will settle it, as
\* make_pool and deregister_pool leave no other.
THEOREM NamesSettled == Spec => []NameHasPool
<1>1. IInv => NameHasPool
  BY DEF IInv
<1>2. QED
  BY <1>1, Invariance, PTL

\* No bucket-directory is left with a deregistered pool.
THEOREM DirectoriesReleased == Spec => []DirectoryHasPool
<1>1. IInv => DirectoryHasPool
  BY DEF IInv
<1>2. QED
  BY <1>1, Invariance, PTL

\* No probe-key outlives the deregistration of its pool.
THEOREM ProbeKeysDeleted == Spec => []ProbeKeyHasPool
<1>1. IInv => ProbeKeyHasPool
  BY DEF IInv
<1>2. QED
  BY <1>1, Invariance, PTL

\* A request sets a pool record only under a name that is held, and reserves a
\* name only once.
LEMMA NeverBack ==
  ASSUME IInv, NEW s \in Session, Arrive(s) \/ Proceed(s), NEW p \in Pool, deleted(p)
  PROVE  /\ deleted(p)'
         /\ po[p] = Nil => po'[p] = Nil
<1> USE RegistryAssumption DEF table, request, deleted
<1>1. ASSUME NEW f \in Path, MakePool(s, f)
      PROVE  p \in named' /\ p \notin px' /\ po' = po
  BY <1>1 DEF MakePool
<1>2. CASE SetPool(s)
  <2>1. pool[s] \in px
    BY <1>2 DEF SetPool, IInv, Alone, Maker, Making
  <2>2. QED
    BY <1>2, <2>1 DEF SetPool, IInv, TypeOK
<1>3. ASSUME ~SetPool(s), \A f \in Path : ~MakePool(s, f)
      PROVE  /\ px' \subseteq px /\ named' = named
             /\ po' = po \/ po' = [po EXCEPT ![pool[s]] = Nil]
  <2>1. CASE Arrive(s)
    BY <1>3, <2>1 DEF Arrive, ListPools, ListPool, DeletePool, MakeSecret,
       MakeBucket, DeleteBucket, DeleteSecret
  <2>2. CASE Make(s)
    BY <1>3, <2>2 DEF Make, SetExBucketDirectory, DirectoryTaken, Unname,
       SetProbeKey
  <2>3. CASE ProbeAccess(s)
    BY <2>3 DEF ProbeAccess, ProbePool, ProbePoolMissing, ProbeSecret,
       ProbeSecretMissing, Probe, ProbeFails, fatal
  <2>4. CASE Member(s)
    BY <2>4 DEF Member, SetExBucket, BucketTaken, RollbackBucket,
       CheckBucketOwner, NotBucketOwner, DeleteBucketChecking, NoBucket,
       SetSecret, CheckSecretOwner, NotSecretOwner, DeleteSecretKeyChecking,
       NoSecret
  <2>5. CASE Gather(s)
    BY <2>5 DEF Gather, ListNext, ListDone, GetPool, PoolGone,
       FindBucketDirectoryOfPool, GatherBuckets, GatherSecrets, Gathered
  <2>6. CASE Deregister(s)
    BY <2>6 DEF Deregister, DeleteBucketDirectory, DeleteBuckets,
       BucketsDeleted, DeleteSecrets, SecretsDeleted, DeletePoolRecord,
       DeletePoolName
  <2>7. QED
    BY <2>1, <2>2, <2>3, <2>4, <2>5, <2>6 DEF Proceed
<1>4. CASE ~SetPool(s) /\ \A f \in Path : ~MakePool(s, f)
  BY <1>3, <1>4 DEF IInv, TypeOK
<1>5. QED
  BY <1>1, <1>2, <1>4

\* Every step leaves a deleted pool deleted, and one that is gone gone: a writer
\* takes only a record that is there, and stores only one it has taken.
LEMMA StaysGone ==
  ASSUME IInv, [Next]_vars, NEW p \in Pool, deleted(p)
  PROVE  deleted(p)' /\ (gone(p) => gone(p)')
<1> USE RegistryAssumption DEF gone
<1>1. ASSUME NEW s \in Session, Arrive(s) \/ Proceed(s), UNCHANGED writers
      PROVE  deleted(p)' /\ (gone(p) => gone(p)')
  BY <1>1, NeverBack DEF writers
<1>2. ASSUME NEW w \in Writer, NEW q \in Pool, ReadPool(w, q)
      PROVE  deleted(p)' /\ (gone(p) => gone(p)')
  BY <1>2 DEF ReadPool, deleted, table, IInv, TypeOK
<1>3. ASSUME NEW w \in Writer, WriteBack(w) \/ NoWrite(w)
      PROVE  deleted(p)' /\ (gone(p) => gone(p)')
  <2>1. deleted(p)'
    BY <1>3 DEF WriteBack, NoWrite, deleted, table
  <2>2. gone(p) => po'[p] = Nil
    BY <1>3 DEF WriteBack, NoWrite, table, IInv, TypeOK
  <2>3. gone(p) => \A v \in Writer : wpool'[v] # p
    BY <1>3 DEF WriteBack, NoWrite, finish, IInv, TypeOK
  <2>4. QED
    BY <2>1, <2>2, <2>3
<1>4. CASE (Restart /\ UNCHANGED writers) \/ UNCHANGED vars
  BY <1>4 DEF Restart, vars, table, writers, deleted
<1>5. QED
  BY <1>1, <1>2, <1>3, <1>4 DEF Next, Serve, Write

\* A deleted pool gets back neither its name, nor a directory, nor a probe-key,
\* and its record only from a writer that read it before, whatever the requests
\* that were under way, and with any number of restarts.
THEOREM DeletionFinal == Spec => DeletedForGood
<1> DEFINE Kept(p) ==
      /\ deleted(p) => /\ p \notin px'
                      /\ \A f \in Path : bd'[f] # p
                      /\ \A k \in internal' : sx'[k] # p
      /\ gone(p) => gone(p)'
<1>1. ASSUME IInv, IInv', [Next]_vars, NEW p \in Pool
      PROVE  Kept(p)
  <2>1. CASE deleted(p)
    <3>1. deleted(p)' /\ (gone(p) => gone(p)')
      BY <1>1, <2>1, StaysGone
    <3>2. (\A f \in Path : bd'[f] # p) /\ (\A k \in internal' : sx'[k] # p)
      BY <1>1, <3>1 DEF IInv, NothingLeft
    <3>3. QED
      BY <3>1, <3>2 DEF deleted
  <2>2. QED
    BY <2>1 DEF gone
<1>2. IInv /\ IInv' /\ [Next]_vars => [\A p \in Pool : Kept(p)]_vars
  BY <1>1
<1>3. QED
  BY <1>2, Invariance, PTL DEF Spec, DeletedForGood
=============================================================================
