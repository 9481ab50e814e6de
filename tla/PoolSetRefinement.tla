------------------------- MODULE PoolSetRefinement -------------------------
(***************************************************************************)
(* PoolRegistry implements PoolSet when requests come one at a time and    *)
(* none is broken off: a pool with all of its records is made at the step  *)
(* that sets po:, and deleted at the step that releases bd:.               *)
(***************************************************************************)
EXTENDS PoolRegistrySerial

\* What gather_pool_prop() collected are members of the pool and of no other,
\* so that deregister_pool_by_prop() deletes nothing of another pool.
Exact(s) ==
    /\ pc[s] \in {"gather_secrets", "delete_directory", "delete_buckets"} =>
         \A b \in bkts[s] : bk[b] = pool[s]
    /\ pc[s] \in {"delete_directory", "delete_buckets", "delete_secrets"} =>
         \A k \in keys[s] : sx[k] = pool[s]

ExactInv == Serial /\ restarts = 0 => \A s \in Session : Exact(s)

\* The view of the pools.
Dir == [p \in Pool |-> directory_of(p)]
Own == [b \in Bucket |-> member_of(bk[b])]
Hold == [k \in Key |-> member_of(sx[k])]
Used == named \ coming
Issued == drawn \ unissued

Others(s) == \A r \in Session : r # s => pc[r] = "idle"

-----------------------------------------------------------------------------
(* The collected members *)

\* Nothing is collected in the beginning.
LEMMA InitExact == Init => ExactInv
  BY DEF Init, ExactInv, Exact

\* One request collects members of its pool, and deletes only those.
LEMMA ExactStep ==
  ASSUME TypeOK, Arguments, NEW s \in Session, Arrive(s) \/ Proceed(s), Exact(s)
  PROVE  Exact(s)'
<1> USE RegistryAssumption DEF table, prop, request, goto, done, begin, return,
      fatal, TypeOK, Exact
<1>1. CASE Arrive(s)
  BY <1>1 DEF Arrive, MakePool, ListPools, ListPool, DeletePool, MakeSecret,
      MakeBucket, DeleteBucket, DeleteSecret
<1>2. CASE Make(s)
  BY <1>2 DEF Make, SetExBucketDirectory, DirectoryTaken, Unname, SetProbeKey, SetPool
<1>3. CASE ProbeAccess(s)
  BY <1>3 DEF ProbeAccess, ProbePool, ProbePoolMissing, ProbeSecret,
      ProbeSecretMissing, Probe, ProbeFails
<1>4. CASE Member(s)
  BY <1>4 DEF Member, SetExBucket, BucketTaken, RollbackBucket, CheckBucketOwner,
      NotBucketOwner, DeleteBucketChecking, NoBucket, SetSecret, CheckSecretOwner,
      NotSecretOwner, DeleteSecretKeyChecking, NoSecret
<1>5. CASE Gather(s)
  <2>1. CASE GatherBuckets(s)
    BY <2>1 DEF GatherBuckets
  <2>2. CASE GatherSecrets(s)
    BY <2>2 DEF GatherSecrets, list_secrets_of_pool
  <2>3. CASE PoolGone(s) \/ Gathered(s)
    BY <2>3 DEF PoolGone, Gathered
  <2>4. QED
    BY <1>5, <2>1, <2>2, <2>3 DEF Gather, ListNext, ListDone, GetPool,
        FindBucketDirectoryOfPool
<1>6. CASE Deregister(s)
  <2>1. CASE DeleteBuckets(s)
    BY <2>1 DEF DeleteBuckets
  <2>2. CASE DeleteSecrets(s)
    BY <2>2 DEF DeleteSecrets
  <2>3. CASE DeletePoolName(s)
    BY <2>3 DEF DeletePoolName
  <2>4. QED
    BY <1>6, <2>1, <2>2, <2>3 DEF Deregister, DeleteBucketDirectory, BucketsDeleted,
        SecretsDeleted, DeletePoolRecord
<1>7. QED
  BY <1>1, <1>2, <1>3, <1>4, <1>5, <1>6 DEF Proceed

\* The collected members stay exact, since the other requests have ended.
LEMMA NextExact ==
  ASSUME IInv, SerialInv, ExactInv, [Next]_vars
  PROVE  ExactInv'
<1> USE DEF IInv, SerialInv, ExactInv
<1>1. ASSUME NEW s \in Session, Arrive(s) \/ Proceed(s), Serial, restarts' = 0
      PROVE  \A r \in Session : Exact(r)'
  <2>1. restarts = 0
    <3>1. restarts' = restarts
      BY <1>1, RestartsStay
    <3>2. QED
      BY <1>1, <3>1
  <2>2. \A r \in Session : r # s => pc'[r] = "idle"
    BY <1>1, OthersIdle
  <2>3. \A r \in Session : r # s => Exact(r)'
    BY <2>2 DEF Exact
  <2>4. Exact(s)'
    BY <1>1, <2>1, ExactStep
  <2>5. QED
    BY <2>3, <2>4
<1>2. CASE Restart
  BY <1>2 DEF Restart, TypeOK
<1>3. CASE UNCHANGED vars
  BY <1>3 DEF vars, table, prop, request, Exact
<1>4. ASSUME NEW w \in Writer, Write(w), Serial
      PROVE  ExactInv'
  <2>1. UNCHANGED <<table, prop, request, pc, restarts>>
    BY <1>4, WriteSame
  <2>2. QED
    BY <2>1 DEF table, prop, request, Exact
<1>5. QED
  BY <1>1, <1>2, <1>3, <1>4 DEF Next, Serve

-----------------------------------------------------------------------------
(* The view of the pools *)

\* The pools that come and go, when one request is active.
LEMMA OnePool ==
  ASSUME NEW s \in Session, Others(s)
  PROVE  /\ leaving = IF pc[s] \in Leaving THEN {pool[s]} ELSE {}
         /\ coming = IF pc[s] \in Making THEN {pool[s]} ELSE {}
         /\ unissued = IF pc[s] = "set_pool" THEN {key[s]} ELSE {}
  BY DEF Others, leaving, coming, unissued, Leaving, Making

\* The same after a step.
LEMMA OnePoolNext ==
  ASSUME NEW s \in Session, Others(s)'
  PROVE  /\ leaving' = IF pc'[s] \in Leaving THEN {pool'[s]} ELSE {}
         /\ coming' = IF pc'[s] \in Making THEN {pool'[s]} ELSE {}
         /\ unissued' = IF pc'[s] = "set_pool" THEN {key'[s]} ELSE {}
  BY DEF Others, leaving, coming, unissued, Leaving, Making

\* The view is a function of the records and of the pools in between.
LEMMA SameView ==
  ASSUME Dir' = Dir, Own' = Own, Hold' = Hold, Used' = Used, Issued' = Issued
  PROVE  UNCHANGED Pools!vars
  BY DEF Dir, Own, Hold, Used, Issued, Pools!vars

\* A step that changes neither the records nor the pools in between.
LEMMA Unseen ==
  ASSUME UNCHANGED <<po, bk, sx, named, drawn, leaving, coming, unissued>>
  PROVE  UNCHANGED Pools!vars
<1>1. Dir' = Dir /\ Own' = Own /\ Hold' = Hold /\ Used' = Used /\ Issued' = Issued
  BY DEF Dir, Own, Hold, Used, Issued, directory_of, member_of
<1>2. QED
  BY <1>1, SameView

\* A step of the one active request on other records.
LEMMA UnseenStep ==
  ASSUME NEW s \in Session, Others(s), Others(s)',
         UNCHANGED <<po, bk, sx, named, drawn>>,
         pc[s] \in Leaving <=> pc'[s] \in Leaving,
         pc[s] \in Making <=> pc'[s] \in Making,
         pc[s] \in Leaving \cup Making => pool'[s] = pool[s],
         pc[s] # "set_pool" /\ pc'[s] # "set_pool"
  PROVE  UNCHANGED Pools!vars
<1>1. UNCHANGED <<leaving, coming, unissued>>
  BY OnePool, OnePoolNext
<1>2. QED
  BY <1>1, Unseen

\* No pool comes or goes before and after a step on members.
LEMMA Between ==
  ASSUME NEW s \in Session, Others(s), Others(s)',
         pc[s] \notin Leaving \cup Making, pc'[s] \notin Leaving \cup Making
  PROVE  /\ leaving = {} /\ coming = {} /\ unissued = {}
         /\ leaving' = {} /\ coming' = {} /\ unissued' = {}
  BY OnePool, OnePoolNext DEF Making

\* The initial states map to the empty set of pools.
LEMMA InitPoolSet == Init => Pools!Init
<1> SUFFICES ASSUME Init PROVE Pools!Init
  OBVIOUS
<1>1. leaving = {} /\ coming = {} /\ unissued = {}
  BY DEF Init, leaving, coming, unissued, Making
<1>2. QED
  BY <1>1 DEF Init, Pools!Init, directory_of, member_of

-----------------------------------------------------------------------------
(* The steps of a request *)

\* A request arrives: a name drawn for a new pool is not yet used.
LEMMA ArrivePoolSet ==
  ASSUME TypeOK, Drawn, NEW s \in Session, Arrive(s), Others(s), Others(s)'
  PROVE  UNCHANGED Pools!vars
<1> USE DEF table, prop, request, begin, goto, Leaving, Making, TypeOK
<1>1. CASE \E f \in Path : MakePool(s, f)
  <2>1. PICK p \in Pool \ named : named' = named \cup {p} /\ pool' = [pool EXCEPT ![s] = p]
    BY <1>1 DEF MakePool
  <2>2. /\ UNCHANGED <<po, bk, sx, drawn>>
        /\ pc[s] = "idle" /\ pc'[s] = "directory" /\ pool'[s] = p
    BY <1>1, <2>1 DEF MakePool
  <2>3. /\ leaving = {} /\ coming = {} /\ unissued = {}
        /\ leaving' = {} /\ coming' = {p} /\ unissued' = {}
    BY <2>2, OnePool, OnePoolNext
  <2>4. Dir' = Dir /\ Own' = Own /\ Hold' = Hold
    BY <2>2, <2>3 DEF Dir, Own, Hold, directory_of, member_of
  <2>5. Used' = Used /\ Issued' = Issued
    BY <2>1, <2>2, <2>3 DEF Used, Issued
  <2>6. QED
    BY <2>4, <2>5, SameView
<1>2. CASE ~\E f \in Path : MakePool(s, f)
  <2>1. UNCHANGED <<po, bk, sx, named, drawn>> /\ pc[s] = "idle"
    BY <1>2 DEF Arrive, ListPools, ListPool, DeletePool, MakeSecret,
        MakeBucket, DeleteBucket, DeleteSecret
  <2>2. pc'[s] \in {"list", "get_pool", "set_secret", "set_bucket",
                    "bucket_owner", "secret_owner"}
    BY <1>2 DEF Arrive, ListPools, ListPool, DeletePool, MakeSecret,
        MakeBucket, DeleteBucket, DeleteSecret
  <2>3. QED
    BY <2>1, <2>2, UnseenStep
<1>3. QED
  BY <1>1, <1>2

\* A make-pool is refused for a directory that another pool has.
LEMMA RefusePoolSet ==
  ASSUME IInv, restarts = 0, NEW s \in Session, DirectoryTaken(s), Others(s), Others(s)'
  PROVE  Pools!Next
<1>1. TypeOK /\ Arguments /\ Drawn /\ OneDirectory /\ DirectoryHasPool
  BY DEF IInv
<1> DEFINE p == pool[s]
           f == path[s]
<1>2. /\ pc[s] = "directory" /\ bd[f] # Nil /\ pc'[s] = "unname"
      /\ UNCHANGED <<po, bk, sx, named, drawn, pool, key>>
  BY <1>1 DEF DirectoryTaken, goto, table, request, TypeOK
<1>3. p \in Pool /\ f \in Path /\ p \in named
  BY <1>1, <1>2, RegistryAssumption DEF Arguments, OnPool, HasPath, Maker, Making, Step, Drawn
<1>4. PICK q \in Pool : q = bd[f]
  BY <1>1, <1>2, <1>3 DEF TypeOK
<1>5. q # p
  BY <1>1, <1>2, <1>3, <1>4 DEF OneDirectory, Maker, Making
<1>6. po[q] # Nil
  BY <1>1, <1>2, <1>3, <1>4, <1>5 DEF DirectoryHasPool, making, Making, Others
<1>7. po[q].path = f
  BY <1>1, <1>2, <1>3, <1>4, <1>6 DEF OneDirectory
<1>8. /\ leaving = {} /\ coming = {p} /\ unissued = {}
      /\ leaving' = {} /\ coming' = {} /\ unissued' = {}
  BY <1>2, OnePool, OnePoolNext DEF Leaving, Making
<1>9. Dir[q] = f
  BY <1>6, <1>7, <1>8 DEF Dir, directory_of
<1>10. Used' = Used \cup {p} /\ p \notin Used /\ Issued' = Issued
  BY <1>2, <1>3, <1>8 DEF Used, Issued
<1>11. Dir' = Dir /\ Own' = Own /\ Hold' = Hold
  BY <1>2, <1>8 DEF Dir, Own, Hold, directory_of, member_of
<1>12. Pools!Refuse(p, f)
  BY <1>9, <1>10, <1>11 DEF Dir, Own, Hold, Used, Issued, Pools!Refuse
<1>13. QED
  BY <1>3, <1>12 DEF Pools!Next

\* A probe-key that is set is not yet a key of a pool.
LEMMA ProbeKeyPoolSet ==
  ASSUME IInv, NEW s \in Session, SetProbeKey(s), Others(s), Others(s)'
  PROVE  UNCHANGED Pools!vars
<1>1. TypeOK /\ Arguments /\ Drawn /\ Alone
  BY DEF IInv
<1> DEFINE p == pool[s]
<1>2. /\ pc[s] = "probe_key" /\ pc'[s] = "set_pool"
      /\ UNCHANGED <<po, bk, named, pool>>
  BY <1>1 DEF SetProbeKey, goto, TypeOK
<1>3. PICK k \in Key \ drawn :
        /\ sx' = [sx EXCEPT ![k] = p]
        /\ drawn' = drawn \cup {k}
        /\ key' = [key EXCEPT ![s] = k]
  BY DEF SetProbeKey
<1>4. p \in Pool /\ po[p] = Nil /\ key'[s] = k
  BY <1>1, <1>2, <1>3 DEF TypeOK, Arguments, OnPool, Maker, Making, Step, Alone
<1>5. sx[k] = Nil
  BY <1>1, <1>3 DEF Drawn
<1>6. /\ leaving = {} /\ coming = {p} /\ unissued = {}
      /\ leaving' = {} /\ coming' = {p} /\ unissued' = {k}
  BY <1>2, <1>4, OnePool, OnePoolNext DEF Leaving, Making
<1>7. Dir' = Dir /\ Own' = Own /\ Used' = Used /\ Issued' = Issued
  BY <1>2, <1>3, <1>6 DEF Dir, Own, Used, Issued, directory_of, member_of
<1>8. ASSUME NEW l \in Key
      PROVE  member_of(sx[l])' = member_of(sx[l])
  BY <1>1, <1>2, <1>3, <1>4, <1>5, <1>6 DEF member_of, TypeOK
<1>9. Hold' = Hold
  BY <1>8 DEF Hold
<1>10. QED
  BY <1>7, <1>9, SameView

\* The pool appears, with its directory and its key, when its record is set.
LEMMA AppearPoolSet ==
  ASSUME IInv, Agree, NEW s \in Session, Knows(s), Collected(s), SetPool(s),
         Others(s), Others(s)'
  PROVE  Pools!Next
<1>1. TypeOK /\ Arguments /\ Drawn /\ Alone
  BY DEF IInv
<1> DEFINE p == pool[s]
           f == path[s]
           k == key[s]
<1>2. /\ pc[s] = "set_pool" /\ pc'[s] = "probe_pool"
      /\ po' = [po EXCEPT ![p] = [path |-> f, probe |-> k]]
      /\ UNCHANGED <<bk, sx, named, drawn, pool, key>>
  BY <1>1 DEF SetPool, goto, request, TypeOK
<1>3. p \in Pool /\ f \in Path /\ k \in Key /\ po[p] = Nil
  BY <1>1, <1>2 DEF Arguments, OnPool, HasPath, OnKey, Maker, Making, Step, Alone
<1>4. bd[f] = p /\ sx[k] = p
  BY <1>2 DEF Knows
<1>5. p \in named /\ k \in drawn
  BY <1>1, <1>3, <1>4, RegistryAssumption DEF Drawn
<1>6. /\ leaving = {} /\ coming = {p} /\ unissued = {k}
      /\ leaving' = {} /\ coming' = {} /\ unissued' = {}
  BY <1>2, OnePool, OnePoolNext DEF Leaving, Making
<1>7. \A q \in Pool : po[q] # Nil => po[q].path # f
  BY <1>2, <1>3, <1>4 DEF Agree, Leaving, Others
<1>8. \A q \in Pool : Dir[q] # f
  BY <1>3, <1>6, <1>7, RegistryAssumption DEF Dir, directory_of
<1>9. \A q \in Pool : po'[q] = IF q = p THEN [path |-> f, probe |-> k] ELSE po[q]
  BY <1>1, <1>2, <1>3 DEF TypeOK
<1>10. [path |-> f, probe |-> k] # Nil
  BY <1>3, RegistryAssumption
<1>11. \A q \in Pool : Dir'[q] = IF q = p THEN f ELSE Dir[q]
  BY <1>6, <1>9, <1>10 DEF Dir, directory_of
<1>12. \A q \in Pool \cup {Nil} :
         q # p => member_of(q)' = member_of(q)
  <2>1. \A q \in Pool : q # p => po'[q] = po[q]
    BY <1>9
  <2>2. QED
    BY <1>6, <2>1 DEF member_of
<1>13. member_of(p) = Nil /\ member_of(p)' = p
  BY <1>2, <1>3, <1>6, <1>9, <1>10, RegistryAssumption DEF member_of
<1>14. \A b \in Bucket : bk[b] # p
  BY <1>3, RegistryAssumption DEF Agree
<1>15. \A l \in Key : sx[l] = p <=> l = k
  BY <1>2, <1>4 DEF Collected
<1>16. \A b \in Bucket : member_of(bk[b])' = member_of(bk[b])
  BY <1>1, <1>2, <1>12, <1>14 DEF TypeOK
<1>17. \A l \in Key : member_of(sx[l])' = IF l = k THEN p ELSE member_of(sx[l])
  BY <1>1, <1>2, <1>12, <1>13, <1>15 DEF TypeOK
<1>18. Dir' = [Dir EXCEPT ![p] = f]
  BY <1>11 DEF Dir
<1>19. Own' = Own /\ Hold' = [Hold EXCEPT ![k] = p]
  BY <1>16, <1>17 DEF Own, Hold
<1>20. /\ p \notin Used /\ Used' = Used \cup {p}
       /\ k \notin Issued /\ Issued' = Issued \cup {k}
  BY <1>2, <1>5, <1>6 DEF Used, Issued
<1>21. Pools!Make(p, f, k)
  BY <1>8, <1>18, <1>19, <1>20 DEF Pools!Make, Dir, Own, Hold, Used, Issued
<1>22. QED
  BY <1>3, <1>21 DEF Pools!Next

\* make_pool_and_return_response()
LEMMA MakePoolSet ==
  ASSUME IInv, Agree, restarts = 0, NEW s \in Session, Knows(s), Collected(s),
         Make(s), Others(s), Others(s)'
  PROVE  Pools!Next \/ UNCHANGED Pools!vars
<1>1. CASE SetExBucketDirectory(s)
  BY <1>1, UnseenStep DEF SetExBucketDirectory, goto, request, Leaving, Making, IInv, TypeOK
<1>2. CASE Unname(s)
  BY <1>2, UnseenStep DEF Unname, done, goto, Leaving, Making, IInv, TypeOK
<1>3. QED
  BY <1>1, <1>2, RefusePoolSet, ProbeKeyPoolSet, AppearPoolSet DEF Make

\* probe_access_mux() is not seen.
LEMMA ProbePoolSet ==
  ASSUME TypeOK, NEW s \in Session, ProbeAccess(s), Others(s), Others(s)'
  PROVE  UNCHANGED Pools!vars
<1>1. UNCHANGED <<po, bk, sx, named, drawn>>
  BY DEF ProbeAccess, ProbePool, ProbePoolMissing, ProbeSecret,
      ProbeSecretMissing, Probe, ProbeFails, fatal, table
<1>2. pc[s] \in {"probe_pool", "probe_secret", "probe"}
  BY DEF ProbeAccess, ProbePool, ProbePoolMissing, ProbeSecret,
      ProbeSecretMissing, Probe, ProbeFails
<1>3. pc'[s] \in {"probe_secret", "probe", "get_pool", "rollback", "idle"}
  BY DEF ProbeAccess, ProbePool, ProbePoolMissing, ProbeSecret,
      ProbeSecretMissing, Probe, ProbeFails, fatal, done, goto, TypeOK
<1>4. QED
  BY <1>1, <1>2, <1>3, UnseenStep DEF Leaving, Making

\* A bucket is added to a pool that exists.
LEMMA AddBucketPoolSet ==
  ASSUME IInv, NEW s \in Session, Knows(s), SetExBucket(s), Others(s), Others(s)'
  PROVE  Pools!Next
<1>1. TypeOK /\ Arguments
  BY DEF IInv
<1> DEFINE p == pool[s]
           b == bucket[s]
<1>2. /\ pc[s] = "set_bucket" /\ pc'[s] = "probe_pool"
      /\ bk[b] = Nil /\ bk' = [bk EXCEPT ![b] = p]
      /\ UNCHANGED <<po, sx, named, drawn, pool>>
  BY <1>1 DEF SetExBucket, goto, request, TypeOK
<1>3. p \in Pool /\ b \in Bucket /\ po[p] # Nil
  BY <1>1, <1>2 DEF Arguments, OnPool, OnBucket, Step, Knows
<1>4. /\ leaving = {} /\ coming = {} /\ unissued = {}
      /\ leaving' = {} /\ coming' = {} /\ unissued' = {}
  BY <1>2, Between DEF Leaving, Making
<1>5. Dir' = Dir /\ Hold' = Hold /\ Used' = Used /\ Issued' = Issued
  BY <1>2, <1>4 DEF Dir, Hold, Used, Issued, directory_of, member_of
<1>6. Dir[p] # Nil
  BY <1>1, <1>3, <1>4, RegistryAssumption DEF Dir, directory_of, TypeOK, pool_record
<1>7. member_of(bk[b]) = Nil
  BY <1>2 DEF member_of
<1>8. \A c \in Bucket : member_of(bk[c])' = IF c = b THEN p ELSE member_of(bk[c])
  BY <1>1, <1>2, <1>3, <1>4, RegistryAssumption DEF member_of, TypeOK
<1>9. Own' = [Own EXCEPT ![b] = p] /\ Own[b] = Nil
  BY <1>3, <1>7, <1>8 DEF Own
<1>10. Pools!AddBucket(p, b)
  BY <1>5, <1>6, <1>9 DEF Pools!AddBucket, Dir, Own, Hold, Used, Issued
<1>11. QED
  BY <1>3, <1>10 DEF Pools!Next

\* A bucket is removed, by a delete or by the undoing of a make.
LEMMA RemoveBucketPoolSet ==
  ASSUME IInv, NEW s \in Session, RollbackBucket(s) \/ DeleteBucketChecking(s),
         Others(s), Others(s)'
  PROVE  Pools!Next
<1>1. TypeOK /\ Arguments
  BY DEF IInv
<1> DEFINE b == bucket[s]
<1>2. /\ pc[s] \in {"rollback", "delete_bucket"} /\ pc'[s] \in {"idle", "get_pool"}
      /\ bk' = [bk EXCEPT ![b] = Nil]
      /\ UNCHANGED <<po, sx, named, drawn>>
  BY <1>1 DEF RollbackBucket, DeleteBucketChecking, done, goto, request, TypeOK
<1>3. b \in Bucket
  BY <1>1, <1>2 DEF Arguments, OnBucket
<1>4. /\ leaving = {} /\ coming = {} /\ unissued = {}
      /\ leaving' = {} /\ coming' = {} /\ unissued' = {}
  BY <1>2, Between DEF Leaving, Making
<1>5. Dir' = Dir /\ Hold' = Hold /\ Used' = Used /\ Issued' = Issued
  BY <1>2, <1>4 DEF Dir, Hold, Used, Issued, directory_of, member_of
<1>6. \A c \in Bucket : member_of(bk[c])' = IF c = b THEN Nil ELSE member_of(bk[c])
  BY <1>1, <1>2, <1>3, <1>4 DEF member_of, TypeOK
<1>7. Own' = [Own EXCEPT ![b] = Nil]
  BY <1>6 DEF Own
<1>8. Pools!RemoveBucket(b)
  BY <1>5, <1>7 DEF Pools!RemoveBucket, Dir, Own, Hold, Used, Issued
<1>9. QED
  BY <1>3, <1>8 DEF Pools!Next

\* A key is added to a pool that exists.
LEMMA AddKeyPoolSet ==
  ASSUME IInv, NEW s \in Session, Knows(s), SetSecret(s), Others(s), Others(s)'
  PROVE  Pools!Next
<1>1. TypeOK /\ Arguments
  BY DEF IInv
<1> DEFINE p == pool[s]
<1>2. /\ pc[s] = "set_secret" /\ pc'[s] = "get_pool"
      /\ UNCHANGED <<po, bk, named, pool>>
  BY <1>1 DEF SetSecret, goto, request, TypeOK
<1>3. PICK k \in Key \ drawn : sx' = [sx EXCEPT ![k] = p] /\ drawn' = drawn \cup {k}
  BY DEF SetSecret
<1>4. p \in Pool /\ po[p] # Nil
  BY <1>1, <1>2 DEF Arguments, OnPool, Step, Knows
<1>5. /\ leaving = {} /\ coming = {} /\ unissued = {}
      /\ leaving' = {} /\ coming' = {} /\ unissued' = {}
  BY <1>2, Between DEF Leaving, Making
<1>6. Dir' = Dir /\ Own' = Own /\ Used' = Used
  BY <1>2, <1>5 DEF Dir, Own, Used, directory_of, member_of
<1>7. Dir[p] # Nil
  BY <1>1, <1>4, <1>5, RegistryAssumption DEF Dir, directory_of, TypeOK, pool_record
<1>8. k \notin Issued /\ Issued' = Issued \cup {k}
  BY <1>3, <1>5 DEF Issued
<1>9. \A l \in Key : member_of(sx[l])' = IF l = k THEN p ELSE member_of(sx[l])
  BY <1>1, <1>2, <1>3, <1>4, <1>5, RegistryAssumption DEF member_of, TypeOK
<1>10. Hold' = [Hold EXCEPT ![k] = p]
  BY <1>9 DEF Hold
<1>11. Pools!AddKey(p, k)
  BY <1>6, <1>7, <1>8, <1>10 DEF Pools!AddKey, Dir, Own, Hold, Used, Issued
<1>12. QED
  BY <1>4, <1>11 DEF Pools!Next

\* A key is removed.
LEMMA RemoveKeyPoolSet ==
  ASSUME IInv, NEW s \in Session, DeleteSecretKeyChecking(s), Others(s), Others(s)'
  PROVE  Pools!Next
<1>1. TypeOK /\ Arguments
  BY DEF IInv
<1> DEFINE k == key[s]
<1>2. /\ pc[s] = "delete_secret" /\ pc'[s] = "get_pool"
      /\ sx' = [sx EXCEPT ![k] = Nil]
      /\ UNCHANGED <<po, bk, named, drawn>>
  BY <1>1 DEF DeleteSecretKeyChecking, goto, TypeOK
<1>3. k \in Key
  BY <1>1, <1>2 DEF Arguments, OnKey
<1>4. /\ leaving = {} /\ coming = {} /\ unissued = {}
      /\ leaving' = {} /\ coming' = {} /\ unissued' = {}
  BY <1>2, Between DEF Leaving, Making
<1>5. Dir' = Dir /\ Own' = Own /\ Used' = Used /\ Issued' = Issued
  BY <1>2, <1>4 DEF Dir, Own, Used, Issued, directory_of, member_of
<1>6. \A l \in Key : member_of(sx[l])' = IF l = k THEN Nil ELSE member_of(sx[l])
  BY <1>1, <1>2, <1>3, <1>4 DEF member_of, TypeOK
<1>7. Hold' = [Hold EXCEPT ![k] = Nil]
  BY <1>6 DEF Hold
<1>8. Pools!RemoveKey(k)
  BY <1>5, <1>7 DEF Pools!RemoveKey, Dir, Own, Hold, Used, Issued
<1>9. QED
  BY <1>3, <1>8 DEF Pools!Next

\* The requests on buckets and secrets.
LEMMA MemberPoolSet ==
  ASSUME IInv, NEW s \in Session, Knows(s), Member(s), Others(s), Others(s)'
  PROVE  Pools!Next \/ UNCHANGED Pools!vars
<1>1. CASE \/ BucketTaken(s) \/ CheckBucketOwner(s) \/ NotBucketOwner(s) \/ NoBucket(s)
           \/ CheckSecretOwner(s) \/ NotSecretOwner(s) \/ NoSecret(s)
  <2>1. UNCHANGED <<po, bk, sx, named, drawn>>
    BY <1>1 DEF BucketTaken, CheckBucketOwner, NotBucketOwner, NoBucket,
        CheckSecretOwner, NotSecretOwner, NoSecret, table
  <2>2. /\ pc[s] \in {"set_bucket", "bucket_owner", "delete_bucket",
                      "secret_owner", "delete_secret"}
        /\ pc'[s] \in {"idle", "delete_bucket", "delete_secret"}
    BY <1>1 DEF BucketTaken, CheckBucketOwner, NotBucketOwner, NoBucket,
        CheckSecretOwner, NotSecretOwner, NoSecret, done, goto, IInv, TypeOK
  <2>3. QED
    BY <2>1, <2>2, UnseenStep DEF Leaving, Making
<1>2. QED
  BY <1>1, AddBucketPoolSet, RemoveBucketPoolSet, AddKeyPoolSet, RemoveKeyPoolSet DEF Member

\* gather_pool_prop() is not seen.
LEMMA GatherPoolSet ==
  ASSUME TypeOK, NEW s \in Session, Gather(s), Others(s), Others(s)'
  PROVE  UNCHANGED Pools!vars
<1>1. UNCHANGED <<po, bk, sx, named, drawn>>
  BY DEF Gather, ListNext, ListDone, GetPool, PoolGone, FindBucketDirectoryOfPool,
      GatherBuckets, GatherSecrets, Gathered, table
<1>2. /\ pc[s] \in Gathering \cup {"list"}
      /\ pc'[s] \in Gathering \cup {"list", "idle", "delete_directory"}
  <2>1. CASE PoolGone(s) \/ Gathered(s)
    BY <2>1 DEF PoolGone, Gathered, return, done, goto, TypeOK, Gathering
  <2>2. QED
    BY <2>1 DEF Gather, ListNext, ListDone, GetPool, FindBucketDirectoryOfPool,
        GatherBuckets, GatherSecrets, done, goto, TypeOK, Gathering
<1>3. QED
  BY <1>1, <1>2, UnseenStep DEF Leaving, Making, Gathering

\* The pool disappears, with all of its members, when its directory is released.
LEMMA DisappearPoolSet ==
  ASSUME IInv, NEW s \in Session, Knows(s), DeleteBucketDirectory(s), Others(s), Others(s)'
  PROVE  Pools!Next
<1>1. TypeOK /\ Arguments
  BY DEF IInv
<1> DEFINE p == pool[s]
<1>2. /\ pc[s] = "delete_directory" /\ pc'[s] = "delete_buckets"
      /\ UNCHANGED <<po, bk, sx, named, drawn, pool>>
  BY <1>1 DEF DeleteBucketDirectory, goto, request, TypeOK
<1>3. p \in Pool /\ po[p] # Nil
  BY <1>1, <1>2 DEF Arguments, OnPool, Step, Deleting, Knows, HasRecord
<1>4. /\ leaving = {} /\ coming = {} /\ unissued = {}
      /\ leaving' = {p} /\ coming' = {} /\ unissued' = {}
  BY <1>2, OnePool, OnePoolNext DEF Leaving, Making
<1>5. Used' = Used /\ Issued' = Issued
  BY <1>2, <1>4 DEF Used, Issued
<1>6. Dir[p] # Nil
  BY <1>1, <1>3, <1>4, RegistryAssumption DEF Dir, directory_of, TypeOK, pool_record
<1>7. \A q \in Pool : directory_of(q)' = IF q = p THEN Nil ELSE directory_of(q)
  BY <1>2, <1>4 DEF directory_of
<1>8. Dir' = [Dir EXCEPT ![p] = Nil]
  BY <1>7 DEF Dir
<1>9. /\ \A b \in Bucket :
           member_of(bk[b])' = IF member_of(bk[b]) = p THEN Nil ELSE member_of(bk[b])
      /\ \A k \in Key :
           member_of(sx[k])' = IF member_of(sx[k]) = p THEN Nil ELSE member_of(sx[k])
  BY <1>2, <1>3, <1>4, RegistryAssumption DEF member_of
<1>10. /\ Own' = [b \in Bucket |-> IF Own[b] = p THEN Nil ELSE Own[b]]
       /\ Hold' = [k \in Key |-> IF Hold[k] = p THEN Nil ELSE Hold[k]]
  BY <1>9 DEF Own, Hold
<1>11. Pools!Delete(p)
  BY <1>5, <1>6, <1>8, <1>10 DEF Pools!Delete, Dir, Own, Hold, Used, Issued
<1>12. QED
  BY <1>3, <1>11 DEF Pools!Next

\* The deletions of the members are not seen: they are the pool's, which has gone.
LEMMA MembersPoolSet ==
  ASSUME IInv, NEW s \in Session, Exact(s), DeleteBuckets(s) \/ DeleteSecrets(s),
         Others(s), Others(s)'
  PROVE  UNCHANGED Pools!vars
<1>1. TypeOK /\ Arguments
  BY DEF IInv
<1> DEFINE p == pool[s]
<1>2. /\ pc[s] \in {"delete_buckets", "delete_secrets"} /\ pc'[s] = pc[s]
      /\ UNCHANGED <<po, named, drawn, pool>>
  BY DEF DeleteBuckets, DeleteSecrets, request
<1>3. leaving = {p} /\ coming = {} /\ unissued = {} /\ UNCHANGED <<leaving, coming, unissued>>
  BY <1>2, OnePool, OnePoolNext DEF Leaving, Making
<1>4. Dir' = Dir /\ Used' = Used /\ Issued' = Issued
  BY <1>2, <1>3 DEF Dir, Used, Issued, directory_of
<1>5. \A b \in Bucket : bk'[b] = bk[b] \/ (bk[b] = p /\ bk'[b] = Nil)
  BY <1>1 DEF DeleteBuckets, DeleteSecrets, Exact, TypeOK
<1>6. \A k \in Key : sx'[k] = sx[k] \/ (sx[k] = p /\ sx'[k] = Nil)
  BY <1>1 DEF DeleteBuckets, DeleteSecrets, Exact, TypeOK
<1>7. /\ \A b \in Bucket : member_of(bk[b])' = member_of(bk[b])
      /\ \A k \in Key : member_of(sx[k])' = member_of(sx[k])
  BY <1>2, <1>3, <1>5, <1>6 DEF member_of
<1>8. Own' = Own /\ Hold' = Hold
  BY <1>7 DEF Own, Hold
<1>9. QED
  BY <1>4, <1>8, SameView

\* Nor is the deletion of the record, when no member is left.
LEMMA RecordPoolSet ==
  ASSUME IInv, NEW s \in Session, Collected(s), DeletePoolRecord(s), Others(s), Others(s)'
  PROVE  UNCHANGED Pools!vars
<1>1. TypeOK /\ Arguments
  BY DEF IInv
<1> DEFINE p == pool[s]
<1>2. /\ pc[s] = "delete_pool" /\ pc'[s] = "delete_name"
      /\ po' = [po EXCEPT ![p] = Nil]
      /\ UNCHANGED <<bk, sx, named, drawn, pool>>
  BY <1>1 DEF DeletePoolRecord, goto, request, TypeOK
<1>3. /\ leaving = {p} /\ coming = {} /\ unissued = {}
      /\ leaving' = {} /\ coming' = {} /\ unissued' = {}
  BY <1>2, OnePool, OnePoolNext DEF Leaving, Making
<1>4. p \in Pool /\ \A q \in Pool : po'[q] = IF q = p THEN Nil ELSE po[q]
  BY <1>1, <1>2 DEF TypeOK, Arguments, OnPool, Step, Deleting
<1>5. \A q \in Pool : directory_of(q)' = directory_of(q)
  BY <1>3, <1>4 DEF directory_of
<1>6. /\ \A b \in Bucket : bk[b] # p
      /\ \A k \in Key : sx[k] # p
  BY <1>2 DEF Collected
<1>7. /\ \A b \in Bucket : member_of(bk[b])' = member_of(bk[b])
      /\ \A k \in Key : member_of(sx[k])' = member_of(sx[k])
  BY <1>1, <1>2, <1>3, <1>4, <1>6 DEF member_of, TypeOK
<1>8. Dir' = Dir /\ Own' = Own /\ Hold' = Hold
  BY <1>5, <1>7 DEF Dir, Own, Hold
<1>9. Used' = Used /\ Issued' = Issued
  BY <1>2, <1>3 DEF Used, Issued
<1>10. QED
  BY <1>8, <1>9, SameView

\* deregister_pool_by_prop()
LEMMA DeregisterPoolSet ==
  ASSUME IInv, NEW s \in Session, Knows(s), Collected(s), Exact(s), Deregister(s),
         Others(s), Others(s)'
  PROVE  Pools!Next \/ UNCHANGED Pools!vars
<1>1. CASE BucketsDeleted(s) \/ SecretsDeleted(s)
  BY <1>1, UnseenStep DEF BucketsDeleted, SecretsDeleted, goto, table, request,
      Leaving, Making, IInv, TypeOK
<1>2. CASE DeletePoolName(s)
  <2>1. UNCHANGED <<po, bk, sx, named, drawn>> /\ pc[s] = "delete_name"
    BY <1>2 DEF DeletePoolName
  <2>2. pc'[s] \in {"list", "idle"}
    BY <1>2 DEF DeletePoolName, return, done, goto, IInv, TypeOK
  <2>3. QED
    BY <2>1, <2>2, UnseenStep DEF Leaving, Making
<1>3. QED
  BY <1>1, <1>2, DisappearPoolSet, MembersPoolSet, RecordPoolSet DEF Deregister

-----------------------------------------------------------------------------

\* Every step is one of the set of pools, or is not seen.
LEMMA NextPoolSet ==
  ASSUME Serial, MaxRestart = 0, IInv, SerialInv, ExactInv, [Next]_vars
  PROVE  [Pools!Next]_Pools!vars
<1>1. TypeOK /\ Drawn
  BY DEF IInv
<1>2. restarts = 0
  BY <1>1 DEF TypeOK
<1>3. /\ Agree /\ OneActive
      /\ \A s \in Session : Knows(s) /\ Collected(s) /\ Exact(s)
  BY <1>2 DEF SerialInv, ExactInv
<1>4. ASSUME NEW s \in Session, Arrive(s) \/ Proceed(s)
      PROVE  Pools!Next \/ UNCHANGED Pools!vars
  <2>1. Others(s) /\ Others(s)'
    BY <1>1, <1>3, <1>4, OthersIdle DEF Others
  <2>2. CASE Arrive(s)
    BY <1>1, <2>1, <2>2, ArrivePoolSet
  <2>3. CASE Make(s)
    BY <1>2, <1>3, <2>1, <2>3, MakePoolSet
  <2>4. CASE ProbeAccess(s)
    BY <1>1, <2>1, <2>4, ProbePoolSet
  <2>5. CASE Member(s)
    BY <1>3, <2>1, <2>5, MemberPoolSet
  <2>6. CASE Gather(s)
    BY <1>1, <2>1, <2>6, GatherPoolSet
  <2>7. CASE Deregister(s)
    BY <1>3, <2>1, <2>7, DeregisterPoolSet
  <2>8. QED
    BY <1>4, <2>2, <2>3, <2>4, <2>5, <2>6, <2>7 DEF Proceed
<1>5. ~Restart
  BY <1>2 DEF Restart
<1>6. CASE UNCHANGED vars
  <2>1. UNCHANGED <<po, bk, sx, named, drawn, leaving, coming, unissued>>
    BY <1>6 DEF vars, table, prop, request, leaving, coming, unissued
  <2>2. QED
    BY <2>1, Unseen
<1>7. ASSUME NEW w \in Writer, Write(w)
      PROVE  UNCHANGED Pools!vars
  <2>1. UNCHANGED <<table, prop, request, pc, restarts>>
    BY <1>1, <1>7, WriteSame DEF SerialInv
  <2>2. UNCHANGED <<po, bk, sx, named, drawn, leaving, coming, unissued>>
    BY <2>1 DEF table, request, leaving, coming, unissued
  <2>3. QED
    BY <2>2, Unseen
<1>8. QED
  BY <1>4, <1>5, <1>6, <1>7 DEF Next, Serve

\* When requests come one at a time and none is broken off, Registrar makes and
\* deletes pools as single objects, whose names, directories, buckets and keys are
\* exclusive.
THEOREM PoolSetImplemented ==
  ASSUME Serial, MaxRestart = 0
  PROVE  Spec => ImplementsPoolSet
<1>1. IInv /\ SerialInv /\ ExactInv /\ [Next]_vars => [Pools!Next]_Pools!vars
  BY NextPoolSet
<1>2. IInv /\ SerialInv /\ ExactInv /\ [Next]_vars => ExactInv'
  BY NextExact
<1>3. Spec => [](IInv /\ SerialInv)
  BY SerialInvariance
<1>4. QED
  BY <1>1, <1>2, <1>3, InitExact, InitPoolSet, PTL DEF Spec, ImplementsPoolSet, Pools!Spec
=============================================================================
