------------------------- MODULE PoolRegistrySerial -------------------------
(***************************************************************************)
(* Proofs about PoolRegistry when requests, starts of backends and         *)
(* commands come one at a time and none is broken off by a restart.        *)
(***************************************************************************)
EXTENDS PoolRegistryProofs

\* One request at a time.
OneActive == \A r, s \in Session : pc[r] # "idle" /\ pc[s] # "idle" => r = s

\* The steps from the one that reads po:pool to the one that deletes it, and
\* the last of them, when the bucket-directory has been released.
HasRecord == (Gathering \ {"get_pool"}) \cup (Deleting \ {"delete_name"})
Leaving == {"delete_buckets", "delete_secrets", "delete_pool"}

\* What a request knows of the records, because no other one changes them.
Knows(s) ==
    /\ pc[s] \in {"set_bucket", "set_secret"} \cup HasRecord => po[pool[s]] # Nil
    /\ pc[s] \in HasRecord => path[s] = po[pool[s]].path
    /\ pc[s] \in {"probe_key", "set_pool"} => bd[path[s]] = pool[s]
    /\ pc[s] = "set_pool" => sx[key[s]] = pool[s]
    /\ ~bad[s]

\* The members of a pool are in what gather_pool_prop() collected, until they
\* are deleted.
Collected(s) ==
    /\ \A b \in Bucket : bk[b] = pool[s] =>
         /\ pc[s] \in {"gather_secrets", "delete_directory", "delete_buckets"} => b \in bkts[s]
         /\ pc[s] \notin {"delete_secrets", "delete_pool"}
    /\ \A k \in Key : sx[k] = pool[s] =>
         /\ pc[s] \in {"delete_directory", "delete_buckets", "delete_secrets"} => k \in keys[s]
         /\ pc[s] # "delete_pool"
         /\ pc[s] = "set_pool" => k = key[s]

\* The records agree, but for the ones of a pool that comes or goes.
Agree ==
    /\ \A p \in Pool : po[p] # Nil /\ bd[po[p].path] # p =>
         \E s \in Session : pool[s] = p /\ pc[s] \in Leaving
    /\ \A b \in Bucket : bk[b] # Nil => po[bk[b]] # Nil
    /\ \A k \in Key : sx[k] # Nil /\ po[sx[k]] = Nil =>
         \E s \in Session : pool[s] = sx[k] /\ pc[s] = "set_pool"

\* No request changes a record that a writer has in hand.
WritersWait ==
    \A w \in Writer :
      wpool[w] # Nil =>
        /\ po[wpool[w]] = wrec[w]
        /\ \A s \in Session : pc[s] \in {"idle", "probe"}

\* A pool record is gone when its name is about to be released.
RecordGone == \A s \in Session : pc[s] = "delete_name" => po[pool[s]] = Nil

\* A pool holds the mutex on its name, restarts or not.
NameHeld == \A p \in Pool : po[p] # Nil => p \in px

SerialInv ==
    /\ Serial => OneActive /\ WritersWait /\ RecordGone /\ NameHeld
    /\ Serial /\ restarts = 0 => Agree /\ \A s \in Session : Knows(s) /\ Collected(s)

-----------------------------------------------------------------------------
\* The other requests have ended, and stay so.
LEMMA OthersIdle ==
  ASSUME TypeOK, OneActive, Serial, NEW s \in Session, Arrive(s) \/ Proceed(s)
  PROVE  /\ \A r \in Session : r # s => pc[r] = "idle" /\ pc'[r] = "idle" /\ bad'[r] = bad[r]
<1> USE RegistryAssumption DEF table, prop, request, goto, done, begin, return,
    fatal, TypeOK, OneActive
<1>1. CASE Arrive(s)
  BY <1>1 DEF Arrive, MakePool, ListPools, ListPool, DeletePool, MakeSecret,
      MakeBucket, DeleteBucket, DeleteSecret
<1>2. CASE Make(s)
  BY <1>2 DEF Make, SetExBucketDirectory, DirectoryTaken, Unname, SetProbeKey, SetPool
<1>3. CASE ProbeAccess(s)
  BY <1>3 DEF ProbeAccess, ProbePool, ProbePoolMissing, ProbeSecret,
      ProbeSecretMissing, Probe, ProbeFails
<1>4. CASE Member(s)
  BY <1>4 DEF Member, SetExBucket, BucketTaken, RollbackBucket, CheckBucketOwner,
      NotBucketOwner, DeleteBucketChecking, NoBucket, SetSecret, CheckSecretOwner,
          NotSecretOwner, DeleteSecretKeyChecking, NoSecret
<1>5. CASE Gather(s)
  <2>1. CASE ListNext(s)
    BY <2>1 DEF ListNext
  <2>2. CASE ListDone(s)
    BY <2>2 DEF ListDone
  <2>3. CASE GetPool(s)
    BY <2>3 DEF GetPool
  <2>4. CASE PoolGone(s)
    BY <2>4 DEF PoolGone
  <2>5. CASE FindBucketDirectoryOfPool(s)
    BY <2>5 DEF FindBucketDirectoryOfPool
  <2>6. CASE GatherBuckets(s)
    BY <2>6 DEF GatherBuckets
  <2>7. CASE GatherSecrets(s)
    BY <2>7 DEF GatherSecrets
  <2>8. CASE Gathered(s)
    BY <2>8 DEF Gathered
  <2>9. QED
    BY <1>5, <2>1, <2>2, <2>3, <2>4, <2>5, <2>6, <2>7, <2>8 DEF Gather
<1>6. CASE Deregister(s)
  BY <1>6 DEF Deregister, DeleteBucketDirectory, DeleteBuckets, BucketsDeleted,
      DeleteSecrets, SecretsDeleted, DeletePoolRecord, DeletePoolName
<1>7. QED
  BY <1>1, <1>2, <1>3, <1>4, <1>5, <1>6 DEF Proceed

\* A request takes a step when no writer has a record in hand.
LEMMA NoWriter ==
  ASSUME WritersWait, Serial, NEW s \in Session, Arrive(s) \/ Proceed(s)
  PROVE  quiet
<1>1. CASE Arrive(s)
  BY <1>1 DEF Arrive, MakePool, ListPools, ListPool, DeletePool, MakeSecret,
      MakeBucket, DeleteBucket, DeleteSecret, begin
<1>2. CASE Probe(s) \/ ProbeFails(s)
  BY <1>2 DEF Probe, ProbeFails
<1>3. CASE pc[s] \notin {"idle", "probe"}
  BY <1>3 DEF WritersWait, quiet
<1>4. ASSUME Proceed(s), ~Probe(s), ~ProbeFails(s)
      PROVE  pc[s] \notin {"idle", "probe"}
  <2>1. CASE Make(s)
    BY <2>1 DEF Make, SetExBucketDirectory, DirectoryTaken, Unname, SetProbeKey,
        SetPool
  <2>2. CASE ProbeAccess(s)
    BY <1>4, <2>2 DEF ProbeAccess, ProbePool, ProbePoolMissing, ProbeSecret,
        ProbeSecretMissing
  <2>3. CASE Member(s)
    BY <2>3 DEF Member, SetExBucket, BucketTaken, RollbackBucket, CheckBucketOwner,
        NotBucketOwner, DeleteBucketChecking, NoBucket, SetSecret, CheckSecretOwner,
        NotSecretOwner, DeleteSecretKeyChecking, NoSecret
  <2>4. CASE Gather(s)
    BY <2>4 DEF Gather, ListNext, ListDone, GetPool, PoolGone,
        FindBucketDirectoryOfPool, GatherBuckets, GatherSecrets, Gathered
  <2>5. CASE Deregister(s)
    BY <2>5 DEF Deregister, DeleteBucketDirectory, DeleteBuckets, BucketsDeleted,
        DeleteSecrets, SecretsDeleted, DeletePoolRecord, DeletePoolName
  <2>6. QED
    BY <1>4, <2>1, <2>2, <2>3, <2>4, <2>5 DEF Proceed
<1>5. QED
  BY <1>1, <1>2, <1>3, <1>4

\* Nothing but a writer's own state changes with its steps, as what it stores is
\* what is there.
LEMMA WriteSame ==
  ASSUME TypeOK, WritersWait, NEW w \in Writer, Write(w)
  PROVE  UNCHANGED <<table, prop, request, pc, restarts>>
<1>1. CASE \E p \in Pool : ReadPool(w, p)
  BY <1>1 DEF ReadPool
<1>2. CASE WriteBack(w)
  <2>1. po' = po
    BY <1>2 DEF WriteBack, WritersWait, TypeOK
  <2>2. QED
    BY <1>2, <2>1 DEF WriteBack, finish, table
<1>3. CASE NoWrite(w)
  BY <1>3 DEF NoWrite, finish
<1>4. QED
  BY <1>1, <1>2, <1>3 DEF Write

\* SetPool does not bring back a record that is deleted: no other request sets
\* it, and its request is alone.
LEMMA RecordGoneStep ==
  ASSUME TypeOK, Arguments, Alone, RecordGone, TypeOK', NEW s \in Session,
      Arrive(s) \/ Proceed(s)
  PROVE  RecordGone'
<1> USE RegistryAssumption DEF table, prop, request, Making, Gathering,
      Deleting, Step, OnPool, Maker, HasPath, OnBucket, OnKey, TypeOK,
  Arguments, Alone, RecordGone, goto, done, begin, check_user_access, return,
  fatal
<1>1. CASE Arrive(s)
  BY <1>1 DEF
    Arrive, MakePool, ListPools, ListPool, DeletePool, MakeSecret, MakeBucket,
    DeleteBucket, DeleteSecret
<1>2. CASE Make(s)
  <2>1. CASE SetExBucketDirectory(s)
    BY <2>1 DEF SetExBucketDirectory
  <2>2. CASE DirectoryTaken(s)
    BY <2>2 DEF DirectoryTaken
  <2>3. CASE Unname(s)
    BY <2>3 DEF Unname
  <2>4. CASE SetProbeKey(s)
    BY <2>4 DEF SetProbeKey
  <2>5. CASE SetPool(s)
    BY <2>5 DEF SetPool
  <2>6. QED
    BY <1>2, <2>1, <2>2, <2>3, <2>4, <2>5 DEF Make
<1>3. CASE ProbeAccess(s)
  BY <1>3 DEF
    ProbeAccess, ProbePool, ProbePoolMissing, ProbeSecret, ProbeSecretMissing,
    Probe, ProbeFails
<1>4. CASE Member(s)
  BY <1>4 DEF
    Member, SetExBucket, BucketTaken, RollbackBucket, CheckBucketOwner,
    NotBucketOwner, DeleteBucketChecking, NoBucket, SetSecret,
    CheckSecretOwner, NotSecretOwner, DeleteSecretKeyChecking, NoSecret
<1>5. CASE Gather(s)
  BY <1>5 DEF
    Gather, ListNext, ListDone, GetPool, PoolGone, FindBucketDirectoryOfPool,
    GatherBuckets, GatherSecrets, Gathered, list_secrets_of_pool
<1>6. CASE Deregister(s)
  BY <1>6 DEF
    Deregister, DeleteBucketDirectory, DeleteBuckets, BucketsDeleted,
    DeleteSecrets, SecretsDeleted, DeletePoolRecord, DeletePoolName
<1>7. QED
  BY <1>1, <1>2, <1>3, <1>4, <1>5, <1>6 DEF Proceed

\* The name is released after the record only.
LEMMA NameHeldStep ==
  ASSUME TypeOK, Arguments, Alone, RecordGone, NameHeld, TypeOK',
      NEW s \in Session, Arrive(s) \/ Proceed(s)
  PROVE  NameHeld'
<1> USE RegistryAssumption DEF table, prop, request, Making, Gathering,
      Deleting, Step, OnPool, Maker, HasPath, OnBucket, OnKey, TypeOK,
  Arguments, Alone, RecordGone, NameHeld, goto, done, begin,
  check_user_access, return, fatal
<1>1. CASE Arrive(s)
  BY <1>1 DEF
    Arrive, MakePool, ListPools, ListPool, DeletePool, MakeSecret, MakeBucket,
    DeleteBucket, DeleteSecret
<1>2. CASE Make(s)
  BY <1>2 DEF
    Make, SetExBucketDirectory, DirectoryTaken, Unname, SetProbeKey, SetPool
<1>3. CASE ProbeAccess(s)
  BY <1>3 DEF
    ProbeAccess, ProbePool, ProbePoolMissing, ProbeSecret, ProbeSecretMissing,
    Probe, ProbeFails
<1>4. CASE Member(s)
  BY <1>4 DEF
    Member, SetExBucket, BucketTaken, RollbackBucket, CheckBucketOwner,
    NotBucketOwner, DeleteBucketChecking, NoBucket, SetSecret,
    CheckSecretOwner, NotSecretOwner, DeleteSecretKeyChecking, NoSecret
<1>5. CASE Gather(s)
  BY <1>5 DEF
    Gather, ListNext, ListDone, GetPool, PoolGone, FindBucketDirectoryOfPool,
    GatherBuckets, GatherSecrets, Gathered, list_secrets_of_pool
<1>6. CASE Deregister(s)
  BY <1>6 DEF
    Deregister, DeleteBucketDirectory, DeleteBuckets, BucketsDeleted,
    DeleteSecrets, SecretsDeleted, DeletePoolRecord, DeletePoolName
<1>7. QED
  BY <1>1, <1>2, <1>3, <1>4, <1>5, <1>6 DEF Proceed

\* What a request reads or makes stays, as no other one changes it.
LEMMA KnowsStep ==
  ASSUME TypeOK, Arguments, TypeOK', Alone, NEW s \in Session, Arrive(s) \/ Proceed(s),
         Agree, Knows(s), Collected(s),
         \A r \in Session : r # s => pc[r] = "idle" /\ pc'[r] = "idle" /\ bad'[r] = bad[r]
  PROVE  Knows(s)'
<1> USE RegistryAssumption DEF table, prop, request, goto, done, begin, return,
    fatal, Making, Gathering, Deleting, Step, Maker, OnPool, HasPath, OnBucket, OnKey,
      HasRecord, Leaving, TypeOK, Arguments, Knows, check_user_access
<1>1. CASE Arrive(s)
  <2>1. CASE \E f \in Path : MakePool(s, f)
    BY <2>1 DEF MakePool
  <2>2. CASE ListPools(s)
    BY <2>2 DEF ListPools
  <2>3. CASE \E p \in Pool : ListPool(s, p)
    BY <2>3 DEF ListPool
  <2>4. CASE \E p \in Pool : DeletePool(s, p)
    BY <2>4 DEF DeletePool
  <2>5. CASE \E p \in Pool : MakeSecret(s, p)
    BY <2>5 DEF MakeSecret
  <2>6. CASE \E p \in Pool, b \in Bucket : MakeBucket(s, p, b)
    BY <2>6 DEF MakeBucket
  <2>7. CASE \E p \in Pool, b \in Bucket : DeleteBucket(s, p, b)
    BY <2>7 DEF DeleteBucket
  <2>8. CASE \E p \in Pool, k \in Key : DeleteSecret(s, p, k)
    BY <2>8 DEF DeleteSecret
  <2>9. QED
    BY <1>1, <2>1, <2>2, <2>3, <2>4, <2>5, <2>6, <2>7, <2>8 DEF Arrive
<1>2. CASE Make(s)
  <2>1. CASE SetExBucketDirectory(s)
    BY <2>1 DEF SetExBucketDirectory
  <2>2. CASE DirectoryTaken(s)
    BY <2>2 DEF DirectoryTaken
  <2>3. CASE Unname(s)
    BY <2>3 DEF Unname
  <2>4. CASE SetProbeKey(s)
    BY <2>4 DEF SetProbeKey
  <2>5. CASE SetPool(s)
    BY <2>5 DEF SetPool
  <2>6. QED
    BY <1>2, <2>1, <2>2, <2>3, <2>4, <2>5 DEF Make
<1>3. CASE ProbeAccess(s)
  <2>1. CASE ProbePool(s)
    BY <2>1 DEF ProbePool
  <2>2. CASE ProbePoolMissing(s)
    BY <2>2 DEF ProbePoolMissing
  <2>3. CASE ProbeSecret(s)
    BY <2>3 DEF ProbeSecret
  <2>4. CASE ProbeSecretMissing(s)
    BY <2>4 DEF ProbeSecretMissing
  <2>5. CASE Probe(s)
    BY <2>5 DEF Probe
  <2>6. CASE ProbeFails(s)
    BY <2>6 DEF ProbeFails
  <2>7. QED
    BY <1>3, <2>1, <2>2, <2>3, <2>4, <2>5, <2>6 DEF ProbeAccess
<1>4. CASE Member(s)
  <2>1. CASE SetExBucket(s)
    BY <2>1 DEF SetExBucket
  <2>2. CASE BucketTaken(s)
    BY <2>2 DEF BucketTaken
  <2>3. CASE RollbackBucket(s)
    BY <2>3 DEF RollbackBucket
  <2>4. CASE CheckBucketOwner(s)
    BY <2>4 DEF CheckBucketOwner
  <2>5. CASE NotBucketOwner(s)
    BY <2>5 DEF NotBucketOwner
  <2>6. CASE DeleteBucketChecking(s)
    BY <2>6 DEF DeleteBucketChecking
  <2>7. CASE NoBucket(s)
    BY <2>7 DEF NoBucket
  <2>8. CASE SetSecret(s)
    BY <2>8 DEF SetSecret
  <2>9. CASE CheckSecretOwner(s)
    BY <2>9 DEF CheckSecretOwner
  <2>10. CASE NotSecretOwner(s)
    BY <2>10 DEF NotSecretOwner
  <2>11. CASE DeleteSecretKeyChecking(s)
    BY <2>11 DEF DeleteSecretKeyChecking
  <2>12. CASE NoSecret(s)
    BY <2>12 DEF NoSecret
  <2>13. QED
    BY <1>4, <2>1, <2>2, <2>3, <2>4, <2>5, <2>6, <2>7, <2>8, <2>9, <2>10, <2>11,
        <2>12 DEF Member
<1>5. CASE Gather(s)
  <2>1. CASE ListNext(s)
    BY <2>1 DEF ListNext
  <2>2. CASE ListDone(s)
    BY <2>2 DEF ListDone
  <2>3. CASE GetPool(s)
    BY <2>3 DEF GetPool, pool_record
  <2>4. CASE PoolGone(s)
    BY <2>4 DEF PoolGone
  <2>5. CASE FindBucketDirectoryOfPool(s)
    BY <2>5 DEF FindBucketDirectoryOfPool, Agree
  <2>6. CASE GatherBuckets(s)
    BY <2>6 DEF GatherBuckets
  <2>7. CASE GatherSecrets(s)
    BY <2>7 DEF GatherSecrets
  <2>8. CASE Gathered(s)
    BY <2>8 DEF Gathered
  <2>9. QED
    BY <1>5, <2>1, <2>2, <2>3, <2>4, <2>5, <2>6, <2>7, <2>8 DEF Gather
<1>6. CASE Deregister(s)
  <2>1. CASE DeleteBucketDirectory(s)
    BY <2>1 DEF DeleteBucketDirectory
  <2>2. CASE DeleteBuckets(s)
    BY <2>2 DEF DeleteBuckets
  <2>3. CASE BucketsDeleted(s)
    BY <2>3 DEF BucketsDeleted
  <2>4. CASE DeleteSecrets(s)
    BY <2>4 DEF DeleteSecrets
  <2>5. CASE SecretsDeleted(s)
    BY <2>5 DEF SecretsDeleted
  <2>6. CASE DeletePoolRecord(s)
    BY <2>6 DEF DeletePoolRecord
  <2>7. CASE DeletePoolName(s)
    BY <2>7 DEF DeletePoolName
  <2>8. QED
    BY <1>6, <2>1, <2>2, <2>3, <2>4, <2>5, <2>6, <2>7 DEF Deregister
<1>7. QED
  BY <1>1, <1>2, <1>3, <1>4, <1>5, <1>6 DEF Proceed

\* A deregistration collects all the members of its pool, and deletes them.
LEMMA CollectedStep ==
  ASSUME TypeOK, Arguments, TypeOK', Alone, NEW s \in Session, Arrive(s) \/ Proceed(s),
         Agree, Knows(s), Collected(s),
         \A r \in Session : r # s => pc[r] = "idle" /\ pc'[r] = "idle" /\ bad'[r] = bad[r]
  PROVE  Collected(s)'
<1> USE RegistryAssumption DEF table, prop, request, goto, done, begin, return,
    fatal, Making, Gathering, Deleting, Step, Maker, OnPool, HasPath, OnBucket, OnKey,
      HasRecord, Leaving, TypeOK, Arguments, Knows, Collected, check_user_access
<1>1. CASE Arrive(s)
  <2>1. CASE \E f \in Path : MakePool(s, f)
    BY <2>1 DEF MakePool
  <2>2. CASE ListPools(s)
    BY <2>2 DEF ListPools
  <2>3. CASE \E p \in Pool : ListPool(s, p)
    BY <2>3 DEF ListPool
  <2>4. CASE \E p \in Pool : DeletePool(s, p)
    BY <2>4 DEF DeletePool
  <2>5. CASE \E p \in Pool : MakeSecret(s, p)
    BY <2>5 DEF MakeSecret
  <2>6. CASE \E p \in Pool, b \in Bucket : MakeBucket(s, p, b)
    BY <2>6 DEF MakeBucket
  <2>7. CASE \E p \in Pool, b \in Bucket : DeleteBucket(s, p, b)
    BY <2>7 DEF DeleteBucket
  <2>8. CASE \E p \in Pool, k \in Key : DeleteSecret(s, p, k)
    BY <2>8 DEF DeleteSecret
  <2>9. QED
    BY <1>1, <2>1, <2>2, <2>3, <2>4, <2>5, <2>6, <2>7, <2>8 DEF Arrive
<1>2. CASE Make(s)
  <2>1. CASE SetExBucketDirectory(s)
    BY <2>1 DEF SetExBucketDirectory
  <2>2. CASE DirectoryTaken(s)
    BY <2>2 DEF DirectoryTaken
  <2>3. CASE Unname(s)
    BY <2>3 DEF Unname
  <2>4. CASE SetProbeKey(s)
    BY <2>4 DEF SetProbeKey, Alone, Agree
  <2>5. CASE SetPool(s)
    BY <2>5 DEF SetPool
  <2>6. QED
    BY <1>2, <2>1, <2>2, <2>3, <2>4, <2>5 DEF Make
<1>3. CASE ProbeAccess(s)
  <2>1. CASE ProbePool(s)
    BY <2>1 DEF ProbePool
  <2>2. CASE ProbePoolMissing(s)
    BY <2>2 DEF ProbePoolMissing
  <2>3. CASE ProbeSecret(s)
    BY <2>3 DEF ProbeSecret
  <2>4. CASE ProbeSecretMissing(s)
    BY <2>4 DEF ProbeSecretMissing
  <2>5. CASE Probe(s)
    BY <2>5 DEF Probe
  <2>6. CASE ProbeFails(s)
    BY <2>6 DEF ProbeFails
  <2>7. QED
    BY <1>3, <2>1, <2>2, <2>3, <2>4, <2>5, <2>6 DEF ProbeAccess
<1>4. CASE Member(s)
  <2>1. CASE SetExBucket(s)
    BY <2>1 DEF SetExBucket
  <2>2. CASE BucketTaken(s)
    BY <2>2 DEF BucketTaken
  <2>3. CASE RollbackBucket(s)
    BY <2>3 DEF RollbackBucket
  <2>4. CASE CheckBucketOwner(s)
    BY <2>4 DEF CheckBucketOwner
  <2>5. CASE NotBucketOwner(s)
    BY <2>5 DEF NotBucketOwner
  <2>6. CASE DeleteBucketChecking(s)
    BY <2>6 DEF DeleteBucketChecking
  <2>7. CASE NoBucket(s)
    BY <2>7 DEF NoBucket
  <2>8. CASE SetSecret(s)
    BY <2>8 DEF SetSecret
  <2>9. CASE CheckSecretOwner(s)
    BY <2>9 DEF CheckSecretOwner
  <2>10. CASE NotSecretOwner(s)
    BY <2>10 DEF NotSecretOwner
  <2>11. CASE DeleteSecretKeyChecking(s)
    BY <2>11 DEF DeleteSecretKeyChecking
  <2>12. CASE NoSecret(s)
    BY <2>12 DEF NoSecret
  <2>13. QED
    BY <1>4, <2>1, <2>2, <2>3, <2>4, <2>5, <2>6, <2>7, <2>8, <2>9, <2>10, <2>11,
        <2>12 DEF Member
<1>5. CASE Gather(s)
  <2>1. CASE ListNext(s)
    BY <2>1 DEF ListNext
  <2>2. CASE ListDone(s)
    BY <2>2 DEF ListDone
  <2>3. CASE GetPool(s)
    BY <2>3 DEF GetPool
  <2>4. CASE PoolGone(s)
    BY <2>4 DEF PoolGone
  <2>5. CASE FindBucketDirectoryOfPool(s)
    BY <2>5 DEF FindBucketDirectoryOfPool
  <2>6. CASE GatherBuckets(s)
    BY <2>6 DEF GatherBuckets
  <2>7. CASE GatherSecrets(s)
    BY <2>7 DEF GatherSecrets, list_secrets_of_pool
  <2>8. CASE Gathered(s)
    BY <2>8 DEF Gathered
  <2>9. QED
    BY <1>5, <2>1, <2>2, <2>3, <2>4, <2>5, <2>6, <2>7, <2>8 DEF Gather
<1>6. CASE Deregister(s)
  <2>1. CASE DeleteBucketDirectory(s)
    BY <2>1 DEF DeleteBucketDirectory
  <2>2. CASE DeleteBuckets(s)
    BY <2>2 DEF DeleteBuckets
  <2>3. CASE BucketsDeleted(s)
    BY <2>3 DEF BucketsDeleted
  <2>4. CASE DeleteSecrets(s)
    BY <2>4 DEF DeleteSecrets
  <2>5. CASE SecretsDeleted(s)
    BY <2>5 DEF SecretsDeleted
  <2>6. CASE DeletePoolRecord(s)
    BY <2>6 DEF DeletePoolRecord
  <2>7. CASE DeletePoolName(s)
    BY <2>7 DEF DeletePoolName
  <2>8. QED
    BY <1>6, <2>1, <2>2, <2>3, <2>4, <2>5, <2>6, <2>7 DEF Deregister
<1>7. QED
  BY <1>1, <1>2, <1>3, <1>4, <1>5, <1>6 DEF Proceed

\* The records agree after each step, but for the pool that the request makes
\* or deletes.
LEMMA AgreeStep ==
  ASSUME TypeOK, Arguments, TypeOK', Alone, NEW s \in Session, Arrive(s) \/ Proceed(s),
         Agree, Knows(s), Collected(s),
         \A r \in Session : r # s => pc[r] = "idle" /\ pc'[r] = "idle" /\ bad'[r] = bad[r]
  PROVE  Agree'
<1> USE RegistryAssumption DEF table, prop, request, goto, done, begin, return,
    fatal, Making, Gathering, Deleting, Step, Maker, OnPool, HasPath, OnBucket, OnKey,
      HasRecord, Leaving, TypeOK, Arguments, Knows, Collected, check_user_access, Agree
<1>1. CASE Arrive(s)
  <2>1. CASE \E f \in Path : MakePool(s, f)
    BY <2>1 DEF MakePool
  <2>2. CASE ListPools(s)
    BY <2>2 DEF ListPools
  <2>3. CASE \E p \in Pool : ListPool(s, p)
    BY <2>3 DEF ListPool
  <2>4. CASE \E p \in Pool : DeletePool(s, p)
    BY <2>4 DEF DeletePool
  <2>5. CASE \E p \in Pool : MakeSecret(s, p)
    BY <2>5 DEF MakeSecret
  <2>6. CASE \E p \in Pool, b \in Bucket : MakeBucket(s, p, b)
    BY <2>6 DEF MakeBucket
  <2>7. CASE \E p \in Pool, b \in Bucket : DeleteBucket(s, p, b)
    BY <2>7 DEF DeleteBucket
  <2>8. CASE \E p \in Pool, k \in Key : DeleteSecret(s, p, k)
    BY <2>8 DEF DeleteSecret
  <2>9. QED
    BY <1>1, <2>1, <2>2, <2>3, <2>4, <2>5, <2>6, <2>7, <2>8 DEF Arrive
<1>2. CASE Make(s)
  <2>1. CASE SetExBucketDirectory(s)
    BY <2>1 DEF SetExBucketDirectory
  <2>2. CASE DirectoryTaken(s)
    BY <2>2 DEF DirectoryTaken
  <2>3. CASE Unname(s)
    BY <2>3 DEF Unname
  <2>4. CASE SetProbeKey(s)
    BY <2>4 DEF SetProbeKey
  <2>5. CASE SetPool(s)
    BY <2>5 DEF SetPool, Alone, pool_record
  <2>6. QED
    BY <1>2, <2>1, <2>2, <2>3, <2>4, <2>5 DEF Make
<1>3. CASE ProbeAccess(s)
  <2>1. CASE ProbePool(s)
    BY <2>1 DEF ProbePool
  <2>2. CASE ProbePoolMissing(s)
    BY <2>2 DEF ProbePoolMissing
  <2>3. CASE ProbeSecret(s)
    BY <2>3 DEF ProbeSecret
  <2>4. CASE ProbeSecretMissing(s)
    BY <2>4 DEF ProbeSecretMissing
  <2>5. CASE Probe(s)
    BY <2>5 DEF Probe
  <2>6. CASE ProbeFails(s)
    BY <2>6 DEF ProbeFails
  <2>7. QED
    BY <1>3, <2>1, <2>2, <2>3, <2>4, <2>5, <2>6 DEF ProbeAccess
<1>4. CASE Member(s)
  <2>1. CASE SetExBucket(s)
    BY <2>1 DEF SetExBucket
  <2>2. CASE BucketTaken(s)
    BY <2>2 DEF BucketTaken
  <2>3. CASE RollbackBucket(s)
    BY <2>3 DEF RollbackBucket
  <2>4. CASE CheckBucketOwner(s)
    BY <2>4 DEF CheckBucketOwner
  <2>5. CASE NotBucketOwner(s)
    BY <2>5 DEF NotBucketOwner
  <2>6. CASE DeleteBucketChecking(s)
    BY <2>6 DEF DeleteBucketChecking
  <2>7. CASE NoBucket(s)
    BY <2>7 DEF NoBucket
  <2>8. CASE SetSecret(s)
    BY <2>8 DEF SetSecret
  <2>9. CASE CheckSecretOwner(s)
    BY <2>9 DEF CheckSecretOwner
  <2>10. CASE NotSecretOwner(s)
    BY <2>10 DEF NotSecretOwner
  <2>11. CASE DeleteSecretKeyChecking(s)
    BY <2>11 DEF DeleteSecretKeyChecking
  <2>12. CASE NoSecret(s)
    BY <2>12 DEF NoSecret
  <2>13. QED
    BY <1>4, <2>1, <2>2, <2>3, <2>4, <2>5, <2>6, <2>7, <2>8, <2>9, <2>10, <2>11,
        <2>12 DEF Member
<1>5. CASE Gather(s)
  <2>1. CASE ListNext(s)
    BY <2>1 DEF ListNext
  <2>2. CASE ListDone(s)
    BY <2>2 DEF ListDone
  <2>3. CASE GetPool(s)
    BY <2>3 DEF GetPool
  <2>4. CASE PoolGone(s)
    BY <2>4 DEF PoolGone
  <2>5. CASE FindBucketDirectoryOfPool(s)
    BY <2>5 DEF FindBucketDirectoryOfPool
  <2>6. CASE GatherBuckets(s)
    BY <2>6 DEF GatherBuckets
  <2>7. CASE GatherSecrets(s)
    BY <2>7 DEF GatherSecrets
  <2>8. CASE Gathered(s)
    BY <2>8 DEF Gathered
  <2>9. QED
    BY <1>5, <2>1, <2>2, <2>3, <2>4, <2>5, <2>6, <2>7, <2>8 DEF Gather
<1>6. CASE Deregister(s)
  <2>1. CASE DeleteBucketDirectory(s)
    BY <2>1 DEF DeleteBucketDirectory, pool_record
  <2>2. CASE DeleteBuckets(s)
    BY <2>2 DEF DeleteBuckets
  <2>3. CASE BucketsDeleted(s)
    BY <2>3 DEF BucketsDeleted
  <2>4. CASE DeleteSecrets(s)
    BY <2>4 DEF DeleteSecrets
  <2>5. CASE SecretsDeleted(s)
    BY <2>5 DEF SecretsDeleted
  <2>6. CASE DeletePoolRecord(s)
    BY <2>6 DEF DeletePoolRecord
  <2>7. CASE DeletePoolName(s)
    BY <2>7 DEF DeletePoolName
  <2>8. QED
    BY <1>6, <2>1, <2>2, <2>3, <2>4, <2>5, <2>6, <2>7 DEF Deregister
<1>7. QED
  BY <1>1, <1>2, <1>3, <1>4, <1>5, <1>6 DEF Proceed

-----------------------------------------------------------------------------
(* The invariant of serial requests *)

\* An empty keyval-db agrees.
LEMMA InitSerial == Init => SerialInv
BY DEF Init, SerialInv, OneActive, WritersWait, RecordGone, NameHeld, Agree, Knows,
       Collected, HasRecord, Gathering, Deleting, Leaving

\* Requests do not restart the service by themselves.
LEMMA RestartsStay ==
  ASSUME NEW s \in Session, Arrive(s) \/ Proceed(s)
  PROVE  restarts' = restarts
<1> USE DEF table, prop, request
<1>1. CASE Arrive(s)
  BY <1>1 DEF Arrive, MakePool, ListPools, ListPool, DeletePool, MakeSecret,
              MakeBucket, DeleteBucket, DeleteSecret
<1>2. CASE Proceed(s)
  BY <1>2 DEF Proceed, Make, ProbeAccess, Member, Gather, Deregister,
       SetExBucketDirectory, DirectoryTaken, Unname, SetProbeKey, SetPool,
       ProbePool, ProbePoolMissing, ProbeSecret, ProbeSecretMissing, Probe,
       ProbeFails, fatal, SetExBucket, BucketTaken, RollbackBucket,
       CheckBucketOwner, NotBucketOwner, DeleteBucketChecking, NoBucket, SetSecret,
       CheckSecretOwner, NotSecretOwner, DeleteSecretKeyChecking, NoSecret,
       ListNext, ListDone, GetPool, PoolGone, FindBucketDirectoryOfPool,
       GatherBuckets, GatherSecrets, Gathered, DeleteBucketDirectory,
       DeleteBuckets, BucketsDeleted, DeleteSecrets, SecretsDeleted,
       DeletePoolRecord, DeletePoolName
<1>3. QED
  BY <1>1, <1>2

\* Every step keeps the records in agreement.
LEMMA NextSerial == IInv /\ SerialInv /\ [Next]_vars => SerialInv'
<1> SUFFICES ASSUME IInv, SerialInv, [Next]_vars
             PROVE  SerialInv'
  OBVIOUS
<1>1. TypeOK /\ Arguments /\ Alone
  BY DEF IInv
<1>2. TypeOK'
  BY NextIInv DEF IInv
<1>3. ASSUME NEW s \in Session, Arrive(s) \/ Proceed(s), UNCHANGED writers, Serial
      PROVE  SerialInv'
  <2>1. OneActive /\ WritersWait /\ RecordGone /\ NameHeld
    BY <1>3 DEF SerialInv
  <2>2. WritersWait'
    BY <1>3, <2>1, NoWriter DEF quiet, WritersWait, writers
  <2>3. RecordGone' /\ NameHeld'
    BY <1>1, <1>2, <1>3, <2>1, RecordGoneStep, NameHeldStep
  <2>4. \A r \in Session : r # s => pc[r] = "idle" /\ pc'[r] = "idle" /\ bad'[r] = bad[r]
    BY <1>1, <1>3, <2>1, OthersIdle
  <2>5. OneActive'
    BY <2>4 DEF OneActive
  <2>6. restarts' = restarts
    BY <1>3, RestartsStay
  <2>7. ASSUME restarts = 0
        PROVE  Agree' /\ \A r \in Session : Knows(r)' /\ Collected(r)'
    <3>1. Agree /\ \A r \in Session : Knows(r) /\ Collected(r)
      BY <1>3, <2>7 DEF SerialInv
    <3>2. Knows(s)'
      BY <1>1, <1>2, <1>3, <2>4, <3>1, KnowsStep
    <3>3. Collected(s)'
      BY <1>1, <1>2, <1>3, <2>4, <3>1, CollectedStep
    <3>4. Agree'
      BY <1>1, <1>2, <1>3, <2>4, <3>1, AgreeStep
    <3>5. \A r \in Session : r # s => Knows(r)' /\ Collected(r)'
      BY <2>4, <3>1 DEF Knows, Collected, HasRecord, Gathering, Deleting
    <3>6. QED
      BY <3>2, <3>3, <3>4, <3>5
  <2>8. QED
    BY <2>5, <2>6, <2>7, <2>2, <2>3 DEF SerialInv
<1>4. CASE Restart /\ UNCHANGED writers
  <2>1. restarts' # 0
    BY <1>1, <1>4 DEF Restart, TypeOK
  <2>2. OneActive' /\ RecordGone'
    BY <1>4 DEF Restart, OneActive, RecordGone
  <2>3. Serial => WritersWait' /\ NameHeld'
    BY <1>4 DEF Restart, SerialInv, WritersWait, NameHeld, table, writers
  <2>4. QED
    BY <2>1, <2>2, <2>3 DEF SerialInv
<1>5. CASE UNCHANGED vars
  BY <1>5 DEF vars, table, prop, request, writers, SerialInv, OneActive, Agree,
     Knows, Collected, WritersWait, RecordGone, NameHeld
<1>6. CASE ~Serial
  BY <1>6 DEF SerialInv
<1>7. ASSUME NEW w \in Writer, Write(w), Serial
      PROVE  SerialInv'
  <2>1. OneActive /\ WritersWait /\ RecordGone /\ NameHeld
    BY <1>7 DEF SerialInv
  <2>2. UNCHANGED <<table, prop, request, pc, restarts>>
    BY <1>1, <1>7, <2>1, WriteSame
  <2>3. WritersWait'
    <3>1. CASE \E p \in Pool : ReadPool(w, p)
      BY <1>1, <1>7, <2>1, <3>1 DEF ReadPool, WritersWait, TypeOK, table
    <3>2. CASE WriteBack(w) \/ NoWrite(w)
      BY <1>1, <2>1, <2>2, <3>2 DEF WriteBack, NoWrite, finish, WritersWait, TypeOK, table
    <3>3. QED
      BY <1>7, <3>1, <3>2 DEF Write
  <2>4. OneActive' /\ RecordGone' /\ NameHeld'
    BY <2>1, <2>2 DEF OneActive, RecordGone, NameHeld, table, request
  <2>5. restarts = 0 => Agree' /\ \A s \in Session : Knows(s)' /\ Collected(s)'
    BY <1>7, <2>2 DEF SerialInv, Agree, Knows, Collected, table, prop, request
  <2>6. QED
    BY <2>2, <2>3, <2>4, <2>5 DEF SerialInv
<1>8. QED
  BY <1>3, <1>4, <1>5, <1>6, <1>7 DEF Next, Serve

\* The inductive invariant of requests that come one at a time: what such a
\* request knows of the records, the members that it has collected, and the
\* agreement of all records that are not of its pool.
THEOREM SerialInvariance == Spec => [](IInv /\ SerialInv)
<1>1. QED
  BY InitIInv, NextIInv, InitSerial, NextSerial, PTL DEF Spec

\* Requests that come one at a time leave the records of a pool in agreement.
THEOREM SerialConsistent == Spec => []ConsistentAtRest
<1>1. IInv /\ SerialInv => ConsistentAtRest
  <2> SUFFICES ASSUME IInv, SerialInv, Serial, restarts = 0, AtRest
               PROVE  Consistent
    BY DEF ConsistentAtRest
  <2>1. TypeOK /\ NameHasPool /\ DirectoryHasPool
    BY DEF IInv
  <2>2. Agree /\ NameHeld
    BY DEF SerialInv
  <2>3. \A p \in Pool : po[p] # Nil => p \in px /\ bd[po[p].path] = p
    BY <2>1, <2>2 DEF NameHeld, Agree, AtRest, Leaving
  <2>4. \A p \in px : po[p] # Nil
    BY <2>1 DEF TypeOK, NameHasPool, AtRest, making, Making
  <2>5. \A f \in Path : bd[f] # Nil => po[bd[f]] # Nil
    BY <2>1 DEF DirectoryHasPool, AtRest, making, Making
  <2>6. /\ \A b \in Bucket : bk[b] # Nil => po[bk[b]] # Nil
        /\ \A k \in Key : sx[k] # Nil => po[sx[k]] # Nil
    BY <2>2 DEF Agree, AtRest
  <2>7. \A p, q \in Pool : po[p] # Nil /\ po[q] # Nil /\ po[p].path = po[q].path => p = q
    BY <2>3
  <2>8. QED
    BY <2>3, <2>4, <2>5, <2>6, <2>7 DEF Consistent
<1>2. QED
  BY <1>1, SerialInvariance, PTL

\* No request finds an inconsistency, and none but delete-pool deregisters a pool.
THEOREM SerialNotDeregistered == Spec => []NeverInconsistent
<1>1. IInv /\ SerialInv => NeverInconsistent
  BY DEF SerialInv, Knows, NeverInconsistent
<1>2. QED
  BY <1>1, SerialInvariance, PTL
=============================================================================
