------------------------- MODULE AccessCheckProofs -------------------------
(***************************************************************************)
(* Proofs about the accounts of users and the checks of Multiplexer, for   *)
(* any number of users, claims, pools, buckets, keys, sessions and         *)
(* requests, and any bounds.                                               *)
(***************************************************************************)
EXTENDS AccessCheck, TLAPS

Work == {"pools", "dereg", "del", "unclaim", "claim", "setuser"}

\* What a session, the administrator and a request have at hand.
SessionArguments ==
    \A s \in Ses : /\ ses[s].pc # "idle" => ses[s].uid \in User
                   /\ ses[s].pc = "extend" => ses[s].u \in user_record

AdminArguments ==
    /\ adm.pc \in Work => adm.key \in User
    /\ adm.pc \in {"claim", "setuser"} \/ (adm.pc \in Work /\ adm.op = "ADD") =>
          adm.rec \in user_record
    /\ adm.pc = "set" /\ adm.op \in {"stop-user", "time-user"} =>
          adm.key \in User /\ adm.rec \in user_record
    /\ adm.pc = "set" /\ adm.op \in {"stop-pool", "time-pool"} =>
          adm.key \in Pool /\ adm.rec \in pool_record
    /\ adm.pc = "set" /\ adm.op = "time-bucket" =>
          adm.key \in Bucket /\ adm.rec \in bucket_record
    /\ adm.pc = "set" /\ adm.op = "time-secret" =>
          adm.key \in Key /\ adm.rec \in secret_record

RequestArguments ==
    \A r \in Req :
        /\ req[r].pc \in {"pool", "owner", "backend", "starting"} => req[r].pool \in Pool
        /\ req[r].pc \in {"owner", "backend", "starting"} => req[r].data \in pool_record

Typed == TypeOK /\ SessionArguments /\ AdminArguments /\ RequestArguments

\* A record with a claim is not ephemeral, and the claim is the user's: in the
\* table, in what a session writes back, and in what the administrator is about
\* to write.
NoClaim(u) == u.eph => u.claim = Nil

Claimed(u, uid) == u.claim # Nil => um[u.claim] = uid

EphemeralUnclaimed ==
    /\ \A u \in User : uu[u] # Nil => NoClaim(uu[u])
    /\ \A s \in Ses : ses[s].pc = "extend" => ses[s].u.claim = Nil
    /\ adm.pc \in {"claim", "setuser"} => NoClaim(adm.rec)
    /\ adm.pc \in Work /\ adm.op = "ADD" => NoClaim(adm.rec)
    /\ adm.pc = "set" /\ adm.op \in {"stop-user", "time-user"} => NoClaim(adm.rec)

\* Where the administrator is with a claim.
ClaimInHand ==
    /\ adm.pc = "setuser" => Claimed(adm.rec, adm.key)
    /\ adm.pc = "set" /\ adm.op \in {"stop-user", "time-user"} => Claimed(adm.rec, adm.key)
    /\ adm.pc = "del" /\ uu[adm.key] # Nil /\ uu[adm.key].claim # Nil =>
          um[uu[adm.key].claim] = Nil
    /\ adm.pc = "unclaim" => /\ uu[adm.key] # Nil => uu[adm.key].claim = Nil
                             /\ adm.old # Nil => um[adm.old] = Nil

ClaimInv == EphemeralUnclaimed /\ ClaimInHand /\ ClaimsAgree

\* A pool that came in time has its owner, and is on the list of the
\* administrator who deregisters the owner.
PoolInTime ==
    \A p \in Pool : po[p] # Nil /\ p \notin late =>
        /\ uu[po[p].owner] # Nil
        /\ adm.pc = "dereg" /\ adm.key = po[p].owner => p \in adm.todo
        /\ ~(adm.pc = "del" /\ adm.key = po[p].owner)

RecordInTime ==
    adm.pc = "set" /\ adm.op \in {"stop-pool", "time-pool"} /\ adm.key \notin late =>
        uu[adm.rec.owner] # Nil

InTime == PoolInTime /\ RecordInTime

\* What has been seen of the records that a request has read.
KeySeen(q, hist) ==
    q.pc \in {"bucket", "pool", "owner", "backend"} =>
        /\ q.key = Nil <=> q.secret = Nil
        /\ q.secret = Nil => {"key"} \X Pool \subseteq hist
        /\ q.secret # Nil /\ permits(q.secret.policy, q.method) =>
              <<"key", q.secret.pool>> \in hist

IsProbe(q) == q.secret # Nil /\ q.secret.policy = "internal"

BucketSeen(q, hist) ==
    q.pc \in {"pool", "owner", "backend"} /\ ~IsProbe(q) =>
        /\ q.bucket # Nil /\ q.bucket.pool = q.pool
        /\ q.secret # Nil => q.secret.pool = q.pool
        /\ (q.key = Nil => permits(q.bucket.policy, q.method)) => <<"bucket", q.pool>> \in hist

PoolSeen(q, hist) ==
    q.pc \in {"owner", "backend"} /\ q.data.enabled /\ Before(q.data.exp) =>
        <<"pool", q.pool>> \in hist

GrantSeen(q, hist) ==
    q.pc = "backend" /\ ~IsProbe(q) =>
        /\ {"key", "bucket", "pool"} \X {q.pool} \subseteq hist
        /\ <<"owner", q.data.owner>> \in hist

Seen(r) == /\ KeySeen(req[r], seen[r]) /\ BucketSeen(req[r], seen[r])
           /\ PoolSeen(req[r], seen[r]) /\ GrantSeen(req[r], seen[r])

SeenInv == \A r \in Req : Seen(r)

\* What a request has read is what the tables have, while nothing changes.
KeyRead(q) ==
    q.pc \in {"bucket", "pool", "owner", "backend"} =>
        IF q.key = Nil THEN q.secret = Nil
        ELSE q.secret = sec[q.key] /\ q.secret # Nil /\ Before(q.secret.exp)

BucketRead(q) ==
    q.pc \in {"pool", "owner", "backend"} /\ ~IsProbe(q) =>
        /\ q.name # Nil /\ q.bucket = bkt[q.name] /\ q.bucket # Nil
        /\ q.bucket.pool = q.pool /\ Before(q.bucket.exp)
        /\ q.secret # Nil => q.secret.pool = q.pool

PoolRead(q) ==
    q.pc \in {"owner", "backend"} => q.data = po[q.pool] /\ ~q.data.inop

Decided(q) ==
    /\ q.pc = "backend" /\ ~IsProbe(q) => Allowed(q)
    /\ q.pc = "refused" => ~Allowed(q)

Read(r) == /\ KeyRead(req[r]) /\ BucketRead(req[r])
           /\ PoolRead(req[r]) /\ Decided(req[r])

ReadInv == \A r \in Req : quiet[r] => Read(r)

\* The inductive invariant.
IInv == Typed /\ ClaimInv /\ InTime /\ SeenInv /\ ReadInv

---------------------------------------------------------------------------
(* Constants.                                                              *)

\* Nil is no record and no name, so that a table without Nil has a record.
LEMMA NilApart ==
    /\ Nil \notin User /\ Nil \notin Claim /\ Nil \notin Pool /\ Nil \notin Bucket
    /\ Nil \notin Key /\ Nil \notin user_record /\ Nil \notin pool_record
    /\ Nil \notin bucket_record /\ Nil \notin secret_record
BY NilAssumption

\* The dates that the operations make are dates.
LEMMA Dates ==
    ASSUME now \in 0 .. MaxTime
    PROVE  /\ 0 \in Date /\ now \in Date /\ Far \in Date /\ now + 1 \in Date /\ now + Days \in Date
BY BoundAssumption DEF Date, Far

---------------------------------------------------------------------------
(* Types.                                                                  *)

\* Deleting a pool keeps the tables typed.
LEMMA DropPoolTypes ==
    ASSUME AccountsTypeOK, NEW p \in Pool, DropPool(p)
    PROVE  /\ po' \in [Pool -> pool_record \cup {Nil}]
           /\ bkt' \in [Bucket -> bucket_record \cup {Nil}]
           /\ sec' \in [Key -> secret_record \cup {Nil}]
BY DEF AccountsTypeOK, DropPool

\* A session takes the state d.
LEMMA SessionSet ==
    ASSUME AccountsTypeOK, SessionArguments, NEW s \in Ses, NEW d \in Session,
           d.pc # "idle" => d.uid \in User, d.pc = "extend" => d.u \in user_record,
           Ses_(s, d)
    PROVE  ses' \in [Ses -> Session] /\ SessionArguments'
BY DEF AccountsTypeOK, SessionArguments, Ses_

\* A session that has ended.
LEMMA SessionIdle == SesIdle \in Session /\ SesIdle.pc = "idle"
BY DEF SesIdle, Session

\* The steps of a session keep the types (start_registrar()).
LEMMA SessionTypes ==
    ASSUME AccountsTypeOK, SessionArguments, NEW s \in Ses, SessionStep(s)
    PROVE  AccountsTypeOK' /\ SessionArguments'
<1> USE NilApart
<1>1. CASE Begin(s)
  <2>1. PICK x \in (IF conf.map THEN Claim ELSE User), first \in BOOLEAN :
          LET uid == IF conf.map THEN um[x] ELSE x
          IN  Ses_(s, IF uid = Nil THEN SesIdle
                      ELSE [pc |-> "user", uid |-> uid, first |-> first, u |-> Nil])
    BY <1>1 DEF Begin
  <2> DEFINE uid == IF conf.map THEN um[x] ELSE x
  <2> DEFINE d == [pc |-> "user", uid |-> uid, first |-> first, u |-> Nil]
  <2>2. uid \in User \cup {Nil}
    BY <2>1 DEF AccountsTypeOK
  <2>3. \/ Ses_(s, SesIdle)
        \/ uid \in User /\ Ses_(s, d)
    BY <2>1, <2>2
  <2>4. uid \in User => d \in Session /\ d.pc = "user" /\ d.uid \in User
    BY DEF Session
  <2> HIDE DEF d
  <2>5. ses' \in [Ses -> Session] /\ SessionArguments'
    BY <2>3, <2>4, SessionSet, SessionIdle
  <2> QED BY <1>1, <2>5 DEF Begin, AccountsTypeOK, Count, table
<1>2. CASE check_user_account(s)
  <2> DEFINE u1 == uu[ses[s].uid]
             d0 == [ses[s] EXCEPT !.pc = "enroll"]
             d1 == [ses[s] EXCEPT !.pc = "extend", !.u = u1]
             d2 == [ses[s] EXCEPT !.pc = "in", !.u = u1]
  <2>1. u1 \in user_record \cup {Nil}
    BY <1>2 DEF check_user_account, AccountsTypeOK, SessionArguments
  <2>2. \/ Ses_(s, SesIdle)
        \/ Ses_(s, d0)
        \/ u1 # Nil /\ Ses_(s, d1)
        \/ u1 # Nil /\ Ses_(s, d2)
    BY <1>2 DEF check_user_account
  <2>3. ses[s] \in Session /\ ses[s].uid \in User
    BY <1>2 DEF check_user_account, AccountsTypeOK, SessionArguments
  <2>4. /\ d0 \in Session /\ d0.pc = "enroll" /\ d0.uid \in User
        /\ u1 # Nil => d1 \in Session /\ d1.uid \in User /\ d1.u \in user_record
        /\ u1 # Nil => d2 \in Session /\ d2.pc = "in" /\ d2.uid \in User
    <3> HIDE DEF u1
    <3> QED BY <2>1, <2>3 DEF Session
  <2> HIDE DEF d0, d1, d2
  <2>5. ses' \in [Ses -> Session] /\ SessionArguments'
    BY <2>2, <2>4, SessionSet, SessionIdle
  <2> QED BY <1>2, <2>5 DEF check_user_account, AccountsTypeOK, table
<1>3. CASE enroll_new_user(s)
  <2> DEFINE d == [ses[s] EXCEPT !.pc = "in", !.u = uu'[ses[s].uid]]
  <2>1. ses[s] \in Session /\ ses[s].uid \in User
    BY <1>3 DEF enroll_new_user, AccountsTypeOK, SessionArguments
  <2>2. [claim |-> Nil, enabled |-> TRUE, eph |-> TRUE, exp |-> now + Days] \in user_record
    BY Dates DEF AccountsTypeOK, user_record
  <2>3. uu' \in [User -> user_record \cup {Nil}] /\ uu'[ses[s].uid] \in user_record
    BY <1>3, <2>1, <2>2 DEF enroll_new_user, AccountsTypeOK
  <2>4. d \in Session /\ d.pc = "in" /\ d.uid \in User
    BY <2>1, <2>3 DEF Session
  <2>5. Ses_(s, d)
    BY <1>3 DEF enroll_new_user
  <2> HIDE DEF d
  <2>6. ses' \in [Ses -> Session] /\ SessionArguments'
    BY <2>4, <2>5, SessionSet
  <2> QED BY <1>3, <2>3, <2>6 DEF enroll_new_user, AccountsTypeOK
<1>4. CASE extend_user_expiration_time(s)
  <2> DEFINE d == [ses[s] EXCEPT !.pc = "in"]
  <2>1. ses[s] \in Session /\ ses[s].uid \in User /\ ses[s].u \in user_record
    BY <1>4 DEF extend_user_expiration_time, AccountsTypeOK, SessionArguments
  <2>2. [ses[s].u EXCEPT !.exp = now + Days] \in user_record
    BY <2>1, Dates DEF AccountsTypeOK, user_record
  <2>3. uu' \in [User -> user_record \cup {Nil}]
    BY <1>4, <2>1, <2>2 DEF extend_user_expiration_time, AccountsTypeOK
  <2>4. d \in Session /\ d.pc = "in" /\ d.uid \in User
    BY <2>1 DEF Session
  <2>5. Ses_(s, d)
    BY <1>4 DEF extend_user_expiration_time
  <2> HIDE DEF d
  <2>6. ses' \in [Ses -> Session] /\ SessionArguments'
    BY <2>4, <2>5, SessionSet
  <2> QED BY <1>4, <2>3, <2>6 DEF extend_user_expiration_time, AccountsTypeOK
<1>5. CASE Perform(s)
  <2>1. ses' = [ses EXCEPT ![s] = SesIdle] /\ UNCHANGED <<conf, now, uu, um, adm, begun>>
    BY <1>5 DEF Perform, Ses_
  <2>2. ses[s].uid \in User
    BY <1>5 DEF Perform, SessionArguments
  <2>3. /\ po' \in [Pool -> pool_record \cup {Nil}]
        /\ bkt' \in [Bucket -> bucket_record \cup {Nil}]
        /\ sec' \in [Key -> secret_record \cup {Nil}]
        /\ used' \subseteq Pool \cup Key /\ late' \subseteq Pool
    <3>1. CASE make_pool(s)
      BY <2>2, <3>1, Dates DEF make_pool, AccountsTypeOK, pool_record
    <3>2. CASE delete_pool(s)
      BY <3>2, DropPoolTypes DEF delete_pool, AccountsTypeOK
    <3>3. CASE make_bucket(s)
      BY <3>3, Dates DEF make_bucket, AccountsTypeOK, bucket_record
    <3>4. CASE delete_bucket(s)
      BY <3>4 DEF delete_bucket, AccountsTypeOK
    <3>5. CASE make_secret(s)
      BY <3>5, Dates DEF make_secret, AccountsTypeOK, secret_record
    <3>6. CASE delete_secret(s)
      BY <3>6 DEF delete_secret, AccountsTypeOK
    <3>7. CASE Reply
      BY <3>7 DEF Reply, AccountsTypeOK
    <3> QED BY <1>5, <3>1, <3>2, <3>3, <3>4, <3>5, <3>6, <3>7 DEF Perform
  <2>4. SesIdle \in Session /\ SesIdle.pc = "idle"
    BY DEF SesIdle, Session
  <2> QED BY <2>1, <2>3, <2>4 DEF AccountsTypeOK, SessionArguments
<1> QED BY <1>1, <1>2, <1>3, <1>4, <1>5 DEF SessionStep

\* The administrator who does nothing.
LEMMA AdminIdle ==
    /\ AdmIdle \in Admin
    /\ AdmIdle.pc = "idle" /\ AdmIdle.op = Nil /\ AdmIdle.key = Nil /\ AdmIdle.old = Nil
BY DEF AdmIdle, Admin

\* What the steps that begin a command leave alone.
Begun == /\ adm.pc = "idle" /\ begun' = begun + 1
         /\ UNCHANGED <<conf, now, uu, um, po, bkt, sec, used, ses, late>>

\* An ADD or a MODIFY row begins.
LEMMA AddOrModifyRecord ==
    ASSUME AccountsTypeOK, AddOrModify
    PROVE  /\ Begun /\ adm' \in Admin
           /\ \/ adm'.pc = "pools" /\ adm'.op = "ADD"
              \/ adm'.pc = "claim" /\ adm'.op = "MODIFY"
           /\ adm'.key \in User /\ adm'.rec \in user_record /\ ~adm'.rec.eph
<1>1. PICK op \in {"ADD", "MODIFY"}, uid \in User, claim \in Claim \cup {Nil} :
        Issue([AdmIdle EXCEPT
                  !.pc = IF op = "ADD" THEN "pools" ELSE "claim", !.op = op, !.key = uid,
                  !.rec = [claim |-> claim, enabled |-> TRUE, eph |-> FALSE, exp |-> Far]])
  BY DEF AddOrModify
<1> DEFINE rec == [claim |-> claim, enabled |-> TRUE, eph |-> FALSE, exp |-> Far]
           pc == IF op = "ADD" THEN "pools" ELSE "claim"
<1>2. rec \in user_record /\ ~rec.eph
  BY Dates DEF user_record, AccountsTypeOK
<1>3. adm' = [AdmIdle EXCEPT !.pc = pc, !.op = op, !.key = uid, !.rec = rec]
  BY <1>1 DEF Issue
<1>4. /\ op \in Command
      /\ (pc = "pools" /\ op = "ADD") \/ (pc = "claim" /\ op = "MODIFY")
  BY DEF Command
<1>5. Begun
  BY <1>1 DEF AddOrModify, Issue, Count, Begun
<1> HIDE DEF rec, pc
<1>6. adm' \in Admin /\ adm'.pc = pc /\ adm'.op = op /\ adm'.key = uid /\ adm'.rec = rec
  BY <1>2, <1>3, <1>4 DEF AdmIdle, Admin
<1> QED BY <1>2, <1>4, <1>5, <1>6

\* A DELETE, ENABLE or DISABLE row begins, or the tool has ended.
LEMMA DeleteOrEnableRecord ==
    ASSUME AccountsTypeOK, DeleteOrEnable
    PROVE  /\ Begun /\ adm' \in Admin
           /\ \/ adm' = AdmIdle
              \/ adm'.pc = "pools" /\ adm'.op = "DELETE" /\ adm'.key \in User
              \/ /\ adm'.pc = "claim" /\ adm'.op \in {"ENABLE", "DISABLE"} /\ adm'.key \in User
                 /\ adm'.rec \in user_record /\ ~adm'.rec.eph
<1> USE NilApart
<1>1. PICK op \in {"DELETE", "ENABLE", "DISABLE"}, uid \in User :
        /\ uu[uid] # Nil
        /\ Issue(IF op = "DELETE" THEN [AdmIdle EXCEPT !.pc = "pools", !.op = op, !.key = uid]
                 ELSE IF uu[uid].eph THEN AdmIdle
                 ELSE [AdmIdle EXCEPT !.pc = "claim", !.op = op, !.key = uid,
                                      !.rec = [uu[uid] EXCEPT !.enabled = (op = "ENABLE")]])
  BY DEF DeleteOrEnable
<1> DEFINE rec == [uu[uid] EXCEPT !.enabled = (op = "ENABLE")]
<1>2. rec \in user_record /\ rec.eph = uu[uid].eph
  <2> DEFINE v == op = "ENABLE"
  <2>1. v \in BOOLEAN /\ uu[uid] \in user_record
    BY <1>1 DEF AccountsTypeOK
  <2> HIDE DEF v
  <2>2. /\ [uu[uid] EXCEPT !.enabled = v] \in user_record
        /\ [uu[uid] EXCEPT !.enabled = v].eph = uu[uid].eph
    BY <2>1 DEF user_record
  <2> QED BY <2>2 DEF v
<1>3. op \in Command
  BY DEF Command
<1>4. \/ adm' = AdmIdle
      \/ op = "DELETE" /\ adm' = [AdmIdle EXCEPT !.pc = "pools", !.op = op, !.key = uid]
      \/ /\ op # "DELETE" /\ ~uu[uid].eph
         /\ adm' = [AdmIdle EXCEPT !.pc = "claim", !.op = op, !.key = uid, !.rec = rec]
  BY <1>1 DEF Issue
<1>5. Begun
  BY <1>1 DEF DeleteOrEnable, Issue, Count, Begun
<1> HIDE DEF rec
<1>6. CASE adm' = AdmIdle
  BY <1>5, <1>6, AdminIdle
<1>7. CASE op = "DELETE" /\ adm' = [AdmIdle EXCEPT !.pc = "pools", !.op = op, !.key = uid]
  <2>1. adm' \in Admin /\ adm'.pc = "pools" /\ adm'.op = op /\ adm'.key = uid
    BY <1>3, <1>7 DEF AdmIdle, Admin
  <2> QED BY <1>5, <1>7, <2>1
<1>8. CASE /\ op # "DELETE" /\ ~uu[uid].eph
           /\ adm' = [AdmIdle EXCEPT !.pc = "claim", !.op = op, !.key = uid, !.rec = rec]
  <2>1. adm' \in Admin /\ adm'.pc = "claim" /\ adm'.op = op /\ adm'.key = uid /\ adm'.rec = rec
    BY <1>2, <1>3, <1>8 DEF AdmIdle, Admin
  <2> QED BY <1>2, <1>5, <1>8, <2>1
<1> QED BY <1>4, <1>6, <1>7, <1>8

\* A record that is about to be written back: a user keeps the claim, and a
\* pool its owner.
UserAtHand(d) ==
    /\ d.op \in {"stop-user", "time-user"} /\ d.key \in User /\ d.rec \in user_record
    /\ uu[d.key] # Nil /\ d.rec.claim = uu[d.key].claim /\ d.rec.eph = uu[d.key].eph

PoolAtHand(d) ==
    /\ d.op \in {"stop-pool", "time-pool"} /\ d.key \in Pool /\ d.rec \in pool_record
    /\ po[d.key] # Nil /\ d.rec.owner = po[d.key].owner

MemberAtHand(d) ==
    \/ d.op = "time-bucket" /\ d.key \in Bucket /\ d.rec \in bucket_record
    \/ d.op = "time-secret" /\ d.key \in Key /\ d.rec \in secret_record

\* The administrator has a record, and its name.
LEMMA AdminAtHand ==
    ASSUME NEW op \in Command, NEW key \in User \cup Pool \cup Bucket \cup Key,
           NEW rec \in user_record \cup pool_record \cup bucket_record \cup secret_record,
           Issue([AdmIdle EXCEPT !.pc = "set", !.op = op, !.key = key, !.rec = rec])
    PROVE  adm' \in Admin /\ adm'.pc = "set" /\ adm'.op = op /\ adm'.key = key /\ adm'.rec = rec
BY DEF Issue, AdmIdle, Admin

\* The administrator has read a record to be written back.
LEMMA ReadRecordRecord ==
    ASSUME AccountsTypeOK, ReadRecord
    PROVE  /\ Begun /\ adm' \in Admin /\ adm'.pc = "set"
           /\ UserAtHand(adm') \/ PoolAtHand(adm') \/ MemberAtHand(adm')
<1> USE NilApart
<1>0. Begun
  BY DEF ReadRecord, Issue, Count, Begun
<1>1. \A d \in {0, Far} : d \in Date
  BY Dates DEF AccountsTypeOK
<1>2. \A op \in {"stop-user", "time-user", "stop-pool", "time-pool", "time-bucket", "time-secret"} :
         op \in Command
  BY DEF Command
<1>3. ASSUME NEW uid \in User, NEW op \in {"stop-user", "time-user"}, NEW rec \in user_record,
             uu[uid] # Nil, rec.claim = uu[uid].claim, rec.eph = uu[uid].eph,
             Issue([AdmIdle EXCEPT !.pc = "set", !.op = op, !.key = uid, !.rec = rec])
      PROVE  adm' \in Admin /\ adm'.pc = "set" /\ UserAtHand(adm')
  <2>1. adm' \in Admin /\ adm'.pc = "set" /\ adm'.op = op /\ adm'.key = uid /\ adm'.rec = rec
    BY <1>2, <1>3, AdminAtHand
  <2> QED BY <1>3, <2>1 DEF UserAtHand
<1>4. ASSUME NEW p \in Pool, NEW op \in {"stop-pool", "time-pool"}, NEW rec \in pool_record,
             po[p] # Nil, rec.owner = po[p].owner,
             Issue([AdmIdle EXCEPT !.pc = "set", !.op = op, !.key = p, !.rec = rec])
      PROVE  adm' \in Admin /\ adm'.pc = "set" /\ PoolAtHand(adm')
  <2>1. adm' \in Admin /\ adm'.pc = "set" /\ adm'.op = op /\ adm'.key = p /\ adm'.rec = rec
    BY <1>2, <1>4, AdminAtHand
  <2> QED BY <1>4, <2>1 DEF PoolAtHand
<1>5. CASE \E uid \in User, v \in BOOLEAN :
             uu[uid] # Nil /\ Issue([AdmIdle EXCEPT !.pc = "set", !.op = "stop-user",
                                     !.key = uid, !.rec = [uu[uid] EXCEPT !.enabled = v]])
  <2>1. PICK uid \in User, v \in BOOLEAN :
             uu[uid] # Nil /\ Issue([AdmIdle EXCEPT !.pc = "set", !.op = "stop-user",
                                     !.key = uid, !.rec = [uu[uid] EXCEPT !.enabled = v]])
    BY <1>5
  <2> DEFINE rec == [uu[uid] EXCEPT !.enabled = v]
  <2>2. rec \in user_record /\ rec.claim = uu[uid].claim /\ rec.eph = uu[uid].eph
    BY <2>1 DEF AccountsTypeOK, user_record
  <2> QED BY <1>0, <1>3, <2>1, <2>2
<1>6. CASE \E uid \in User, d \in {0, Far} :
             uu[uid] # Nil /\ Issue([AdmIdle EXCEPT !.pc = "set", !.op = "time-user",
                                     !.key = uid, !.rec = [uu[uid] EXCEPT !.exp = d]])
  <2>1. PICK uid \in User, d \in {0, Far} :
             uu[uid] # Nil /\ Issue([AdmIdle EXCEPT !.pc = "set", !.op = "time-user",
                                     !.key = uid, !.rec = [uu[uid] EXCEPT !.exp = d]])
    BY <1>6
  <2> DEFINE rec == [uu[uid] EXCEPT !.exp = d]
  <2>2. rec \in user_record /\ rec.claim = uu[uid].claim /\ rec.eph = uu[uid].eph
    BY <1>1, <2>1 DEF AccountsTypeOK, user_record
  <2> QED BY <1>0, <1>3, <2>1, <2>2
<1>7. CASE \E p \in Pool, v \in BOOLEAN :
             po[p] # Nil /\ Issue([AdmIdle EXCEPT !.pc = "set", !.op = "stop-pool",
                                   !.key = p, !.rec = [po[p] EXCEPT !.enabled = v]])
  <2>1. PICK p \in Pool, v \in BOOLEAN :
             po[p] # Nil /\ Issue([AdmIdle EXCEPT !.pc = "set", !.op = "stop-pool",
                                   !.key = p, !.rec = [po[p] EXCEPT !.enabled = v]])
    BY <1>7
  <2> DEFINE rec == [po[p] EXCEPT !.enabled = v]
  <2>2. rec \in pool_record /\ rec.owner = po[p].owner
    BY <2>1 DEF AccountsTypeOK, pool_record
  <2> QED BY <1>0, <1>4, <2>1, <2>2
<1>8. CASE \E p \in Pool, d \in {0, Far} :
             po[p] # Nil /\ Issue([AdmIdle EXCEPT !.pc = "set", !.op = "time-pool",
                                   !.key = p, !.rec = [po[p] EXCEPT !.exp = d]])
  <2>1. PICK p \in Pool, d \in {0, Far} :
             po[p] # Nil /\ Issue([AdmIdle EXCEPT !.pc = "set", !.op = "time-pool",
                                   !.key = p, !.rec = [po[p] EXCEPT !.exp = d]])
    BY <1>8
  <2> DEFINE rec == [po[p] EXCEPT !.exp = d]
  <2>2. rec \in pool_record /\ rec.owner = po[p].owner
    BY <1>1, <2>1 DEF AccountsTypeOK, pool_record
  <2> QED BY <1>0, <1>4, <2>1, <2>2
<1>9. CASE \E b \in Bucket, d \in {0, Far} :
             bkt[b] # Nil /\ Issue([AdmIdle EXCEPT !.pc = "set", !.op = "time-bucket",
                                    !.key = b, !.rec = [bkt[b] EXCEPT !.exp = d]])
  <2>1. PICK b \in Bucket, d \in {0, Far} :
             bkt[b] # Nil /\ Issue([AdmIdle EXCEPT !.pc = "set", !.op = "time-bucket",
                                    !.key = b, !.rec = [bkt[b] EXCEPT !.exp = d]])
    BY <1>9
  <2> DEFINE rec == [bkt[b] EXCEPT !.exp = d]
  <2>2. rec \in bucket_record
    BY <1>1, <2>1 DEF AccountsTypeOK, bucket_record
  <2> HIDE DEF rec
  <2>3. /\ adm' \in Admin /\ adm'.pc = "set" /\ adm'.op = "time-bucket" /\ adm'.key = b
        /\ adm'.rec = rec
    BY <1>2, <2>1, <2>2, AdminAtHand DEF rec
  <2> QED BY <1>0, <2>2, <2>3 DEF MemberAtHand
<1>10. CASE \E k \in Key, d \in {0, Far} :
             sec[k] # Nil /\ Issue([AdmIdle EXCEPT !.pc = "set", !.op = "time-secret",
                                    !.key = k, !.rec = [sec[k] EXCEPT !.exp = d]])
  <2>1. PICK k \in Key, d \in {0, Far} :
             sec[k] # Nil /\ Issue([AdmIdle EXCEPT !.pc = "set", !.op = "time-secret",
                                    !.key = k, !.rec = [sec[k] EXCEPT !.exp = d]])
    BY <1>10
  <2> DEFINE rec == [sec[k] EXCEPT !.exp = d]
  <2>2. rec \in secret_record
    BY <1>1, <2>1 DEF AccountsTypeOK, secret_record
  <2> HIDE DEF rec
  <2>3. /\ adm' \in Admin /\ adm'.pc = "set" /\ adm'.op = "time-secret" /\ adm'.key = k
        /\ adm'.rec = rec
    BY <1>2, <2>1, <2>2, AdminAtHand DEF rec
  <2> QED BY <1>0, <2>2, <2>3 DEF MemberAtHand
<1> QED BY <1>5, <1>6, <1>7, <1>8, <1>9, <1>10 DEF ReadRecord

\* The steps of the administrator keep the types.
LEMMA AdminTypes ==
    ASSUME AccountsTypeOK, SessionArguments, AdminArguments, AdminStep
    PROVE  AccountsTypeOK' /\ SessionArguments' /\ AdminArguments'
<1> USE NilApart
<1>0. ASSUME Begun, adm' \in Admin
      PROVE  AccountsTypeOK' /\ SessionArguments'
  BY <1>0 DEF Begun, AccountsTypeOK, SessionArguments
<1>1. CASE AddOrModify
  <2>1. AdminArguments'
    BY <1>1, AddOrModifyRecord DEF AdminArguments, Work
  <2> QED BY <1>0, <1>1, <2>1, AddOrModifyRecord
<1>2. CASE DeleteOrEnable
  <2>1. AdminArguments'
    BY <1>2, DeleteOrEnableRecord, AdminIdle DEF AdminArguments, Work
  <2> QED BY <1>0, <1>2, <2>1, DeleteOrEnableRecord
<1>3. CASE ReadRecord
  <2>1. AdminArguments'
    BY <1>3, ReadRecordRecord
       DEF AdminArguments, Work, UserAtHand, PoolAtHand, MemberAtHand
  <2> QED BY <1>0, <1>3, <2>1, ReadRecordRecord
<1>4. CASE WriteRecord
  <2>1. /\ adm.op \in {"stop-user", "time-user"} => adm.key \in User /\ adm.rec \in user_record
        /\ adm.op \in {"stop-pool", "time-pool"} => adm.key \in Pool /\ adm.rec \in pool_record
        /\ adm.op = "time-bucket" => adm.key \in Bucket /\ adm.rec \in bucket_record
        /\ adm.op = "time-secret" => adm.key \in Key /\ adm.rec \in secret_record
    BY <1>4 DEF WriteRecord, AdminArguments
  <2>2. /\ uu' \in [User -> user_record \cup {Nil}]
        /\ po' \in [Pool -> pool_record \cup {Nil}]
        /\ bkt' \in [Bucket -> bucket_record \cup {Nil}]
        /\ sec' \in [Key -> secret_record \cup {Nil}]
    BY <1>4, <2>1 DEF WriteRecord, AccountsTypeOK
  <2> QED BY <1>4, <2>2, AdminIdle
          DEF WriteRecord, AccountsTypeOK, SessionArguments, AdminArguments, Work
<1>5. CASE KillPool
  <2>1. /\ po' \in [Pool -> pool_record \cup {Nil}]
        /\ bkt' \in [Bucket -> bucket_record \cup {Nil}]
        /\ sec' \in [Key -> secret_record \cup {Nil}]
    BY <1>5, DropPoolTypes DEF KillPool, AccountsTypeOK
  <2> QED BY <1>5, <2>1, AdminIdle
          DEF KillPool, Issue, Count, AccountsTypeOK, SessionArguments, AdminArguments, Work
<1>6. CASE KillBucket
  <2>1. bkt' \in [Bucket -> bucket_record \cup {Nil}]
    BY <1>6 DEF KillBucket, AccountsTypeOK
  <2> QED BY <1>6, <2>1, AdminIdle
          DEF KillBucket, Issue, Count, AccountsTypeOK, SessionArguments, AdminArguments, Work
<1>7. CASE ListPools
  <2>1. PoolsOf(adm.key) \subseteq Pool
    BY DEF PoolsOf
  <2>2. /\ adm' \in Admin /\ adm'.pc = "dereg" /\ adm'.op = adm.op /\ adm'.key = adm.key
        /\ adm'.rec = adm.rec
    BY <1>7, <2>1 DEF ListPools, AccountsTypeOK, Admin
  <2> QED BY <1>7, <2>2
          DEF ListPools, table, AccountsTypeOK, SessionArguments, AdminArguments, Work
<1>8. CASE DeregisterOne
  <2>1. /\ po' \in [Pool -> pool_record \cup {Nil}]
        /\ bkt' \in [Bucket -> bucket_record \cup {Nil}]
        /\ sec' \in [Key -> secret_record \cup {Nil}]
    <3>1. adm.todo \subseteq Pool
      BY DEF AccountsTypeOK, Admin
    <3> QED BY <1>8, <3>1, DropPoolTypes DEF DeregisterOne, AccountsTypeOK
  <2>2. \/ adm' = AdmIdle
        \/ /\ adm' \in Admin /\ adm'.pc = "dereg" /\ adm'.op = adm.op /\ adm'.key = adm.key
           /\ adm'.rec = adm.rec
    BY <1>8 DEF DeregisterOne, AccountsTypeOK, Admin
  <2> QED BY <1>8, <2>1, <2>2, AdminIdle
          DEF DeregisterOne, AccountsTypeOK, SessionArguments, AdminArguments, Work
<1>9. CASE clear_user_claim
  <2>1. /\ adm' \in Admin /\ adm'.pc = "del" /\ adm'.op = adm.op /\ adm'.key = adm.key
        /\ adm'.rec = adm.rec
    BY <1>9 DEF clear_user_claim, Goto, AccountsTypeOK, Admin
  <2>2. um' \in [Claim -> User \cup {Nil}]
    BY <1>9 DEF clear_user_claim, AccountsTypeOK
  <2> QED BY <1>9, <2>1, <2>2
          DEF clear_user_claim, AccountsTypeOK, SessionArguments, AdminArguments, Work
<1>10. CASE delete_user
  <2>1. adm.key \in User
    BY <1>10 DEF delete_user, AdminArguments, Work
  <2>2. (IF uu[adm.key] = Nil THEN Nil ELSE uu[adm.key].claim) \in Claim \cup {Nil}
    BY <2>1 DEF AccountsTypeOK, user_record
  <2>3. /\ adm' \in Admin /\ adm'.pc = "unclaim" /\ adm'.op = adm.op /\ adm'.key = adm.key
        /\ adm'.rec = adm.rec
    BY <1>10, <2>2 DEF delete_user, AccountsTypeOK, Admin
  <2>4. uu' \in [User -> user_record \cup {Nil}]
    BY <1>10 DEF delete_user, AccountsTypeOK
  <2> QED BY <1>10, <2>3, <2>4
          DEF delete_user, AccountsTypeOK, SessionArguments, AdminArguments, Work
<1>11. CASE delete_user_claim
  <2>1. \/ adm' = AdmIdle
        \/ /\ adm' \in Admin /\ adm'.pc = "claim" /\ adm'.op = "ADD" /\ adm.op = "ADD"
           /\ adm'.key = adm.key /\ adm'.rec = adm.rec
    BY <1>11 DEF delete_user_claim, AccountsTypeOK, Admin
  <2>2. um' \in [Claim -> User \cup {Nil}]
    BY <1>11 DEF delete_user_claim, AccountsTypeOK
  <2> QED BY <1>11, <2>1, <2>2, AdminIdle
          DEF delete_user_claim, AccountsTypeOK, SessionArguments, AdminArguments, Work
<1>12. CASE AddClaim
  <2>1. adm.key \in User /\ adm.rec \in user_record
    BY <1>12 DEF AddClaim, AdminArguments, Work
  <2>2. \/ adm' = AdmIdle
        \/ /\ adm' \in Admin /\ adm'.pc = "setuser" /\ adm'.op = adm.op
           /\ adm'.key = adm.key /\ adm'.rec = adm.rec
    BY <1>12 DEF AddClaim, Goto, AccountsTypeOK, Admin
  <2>3. um' \in [Claim -> User \cup {Nil}]
    BY <1>12, <2>1 DEF AddClaim, AccountsTypeOK, user_record
  <2> QED BY <1>12, <2>1, <2>2, <2>3, AdminIdle
          DEF AddClaim, AccountsTypeOK, SessionArguments, AdminArguments, Work
<1>13. CASE set_user_raw
  <2>1. adm.key \in User /\ adm.rec \in user_record
    BY <1>13 DEF set_user_raw, AdminArguments, Work
  <2>2. uu' \in [User -> user_record \cup {Nil}]
    BY <1>13, <2>1 DEF set_user_raw, AccountsTypeOK
  <2> QED BY <1>13, <2>2, AdminIdle
          DEF set_user_raw, AccountsTypeOK, SessionArguments, AdminArguments, Work
<1> QED BY <1>1, <1>2, <1>3, <1>4, <1>5, <1>6, <1>7, <1>8, <1>9, <1>10, <1>11, <1>12, <1>13
        DEF AdminStep

\* A request takes the state d.
LEMMA RequestSet ==
    ASSUME req \in [Req -> Request], RequestArguments, NEW r \in Req, NEW d \in Request,
           d.pc \in {"pool", "owner", "backend", "starting"} => d.pool \in Pool,
           d.pc \in {"owner", "backend", "starting"} => d.data \in pool_record,
           Req_(r, d)
    PROVE  req' \in [Req -> Request] /\ RequestArguments'
BY DEF RequestArguments, Req_

\* A request that has ended or is refused.
LEMMA RequestOver ==
    ASSUME req \in [Req -> Request], RequestArguments, NEW r \in Req,
           Req_(r, ReqIdle) \/ Refuse(r)
    PROVE  req' \in [Req -> Request] /\ RequestArguments'
<1> DEFINE d == [req[r] EXCEPT !.pc = "refused", !.secret = Nil, !.bucket = Nil,
                               !.pool = Nil, !.data = Nil]
<1>1. ReqIdle \in Request /\ ReqIdle.pc = "idle" /\ d \in Request /\ d.pc = "refused"
  BY DEF ReqIdle, Request
<1>2. Req_(r, ReqIdle) \/ Req_(r, d)
  BY DEF Refuse
<1> HIDE DEF d
<1> QED BY <1>1, <1>2, RequestSet

\* The steps of a request keep the types (make_checker_proxy()).
LEMMA RequestTypes ==
    ASSUME AccountsTypeOK, SessionArguments, AdminArguments,
           req \in [Req -> Request], RequestArguments, NEW r \in Req, RequestStep(r)
    PROVE  /\ AccountsTypeOK' /\ SessionArguments' /\ AdminArguments'
           /\ req' \in [Req -> Request] /\ RequestArguments'
<1> USE NilApart
<1> DEFINE Kept == UNCHANGED <<conf, now, uu, um, po, bkt, sec, used, ses, adm, begun, late>>
<1>0. ASSUME Kept
      PROVE  AccountsTypeOK' /\ SessionArguments' /\ AdminArguments'
  BY <1>0 DEF AccountsTypeOK, SessionArguments, AdminArguments
<1>a. req[r] \in Request
  OBVIOUS
<1>1. CASE Arrive(r)
  <2>1. PICK k \in Key \cup {Nil}, b \in Bucket \cup {Nil}, m \in Method :
          Req_(r, [ReqIdle EXCEPT !.pc = "key", !.key = k, !.name = b, !.method = m])
    BY <1>1 DEF Arrive
  <2> DEFINE d == [ReqIdle EXCEPT !.pc = "key", !.key = k, !.name = b, !.method = m]
  <2>2. d \in Request /\ d.pc = "key"
    BY DEF ReqIdle, Request
  <2> HIDE DEF d
  <2>3. req' \in [Req -> Request] /\ RequestArguments'
    BY <2>1, <2>2, RequestSet DEF d
  <2> QED BY <1>1, <2>3
          DEF Arrive, Count, table, AccountsTypeOK, SessionArguments, AdminArguments
<1>2. CASE check_authenticated(r)
  <2> DEFINE secret == IF req[r].key = Nil THEN Nil ELSE sec[req[r].key]
             d == [req[r] EXCEPT !.pc = "bucket", !.secret = secret]
  <2>1. Refuse(r) \/ Req_(r, d)
    BY <1>2 DEF check_authenticated
  <2>2. secret \in secret_record \cup {Nil}
    BY <1>a DEF AccountsTypeOK, Request
  <2>3. d \in Request /\ d.pc = "bucket"
    <3> HIDE DEF secret
    <3> QED BY <1>a, <2>2 DEF Request
  <2>4. Kept
    BY <1>2 DEF check_authenticated, AtPc
  <2> HIDE DEF d
  <2> QED BY <1>0, <2>1, <2>3, <2>4, RequestSet, RequestOver
<1>3. CASE BadSignature(r)
  <2>1. Kept /\ Req_(r, ReqIdle)
    BY <1>3 DEF BadSignature, AtPc
  <2> QED BY <1>0, <2>1, RequestOver
<1>4. CASE check_bucket_in_path(r)
  <2> DEFINE bucket == IF req[r].name = Nil THEN Nil ELSE bkt[req[r].name]
             d1 == [req[r] EXCEPT !.pc = "pool", !.pool = req[r].secret.pool]
             d2 == [req[r] EXCEPT !.pc = "pool", !.bucket = bucket, !.pool = bucket.pool]
  <2>1. \/ Refuse(r)
        \/ Probing(r) /\ Req_(r, d1)
        \/ bucket # Nil /\ Req_(r, d2)
    BY <1>4 DEF check_bucket_in_path
  <2>2. bucket \in bucket_record \cup {Nil}
    BY <1>a DEF AccountsTypeOK, Request
  <2>3. Probing(r) => d1 \in Request /\ d1.pc = "pool" /\ d1.pool \in Pool
    BY <1>a DEF Probing, Request, secret_record
  <2>4. bucket # Nil => d2 \in Request /\ d2.pc = "pool" /\ d2.pool \in Pool
    <3> HIDE DEF bucket
    <3> QED BY <1>a, <2>2 DEF Request, bucket_record
  <2>5. Kept
    BY <1>4 DEF check_bucket_in_path, AtPc
  <2> HIDE DEF d1, d2
  <2> QED BY <1>0, <2>1, <2>3, <2>4, <2>5, RequestSet, RequestOver
<1>5. CASE ensure_pool_existence(r)
  <2> DEFINE d == [req[r] EXCEPT !.pc = "owner", !.data = po[req[r].pool]]
  <2>1. Refuse(r) \/ (po[req[r].pool] # Nil /\ Req_(r, d))
    BY <1>5 DEF ensure_pool_existence
  <2>2. req[r].pool \in Pool
    BY <1>5 DEF ensure_pool_existence, AtPc, RequestArguments
  <2>3. po[req[r].pool] # Nil => d \in Request /\ d.pc = "owner" /\ d.pool \in Pool
                                 /\ d.data \in pool_record
    BY <1>a, <2>2 DEF Request, AccountsTypeOK
  <2>4. Kept
    BY <1>5 DEF ensure_pool_existence, AtPc
  <2> HIDE DEF d
  <2> QED BY <1>0, <2>1, <2>3, <2>4, RequestSet, RequestOver
<1>6. CASE ensure_pool_state(r)
  <2> DEFINE d == [req[r] EXCEPT !.pc = "backend"]
  <2>1. Refuse(r) \/ Req_(r, d)
    BY <1>6 DEF ensure_pool_state
  <2>2. d \in Request /\ d.pc = "backend" /\ d.pool \in Pool /\ d.data \in pool_record
    BY <1>6, <1>a DEF ensure_pool_state, AtPc, RequestArguments, Request
  <2>3. Kept
    BY <1>6 DEF ensure_pool_state, AtPc
  <2> HIDE DEF d
  <2> QED BY <1>0, <2>1, <2>2, <2>3, RequestSet, RequestOver
<1>7. CASE forward_access(r)
  <2>1. Kept /\ Req_(r, ReqIdle)
    BY <1>7 DEF forward_access, AtPc
  <2> QED BY <1>0, <2>1, RequestOver
<1>8. CASE start_backend(r)
  <2> DEFINE d == [ReqIdle EXCEPT !.pc = "starting", !.pool = req[r].pool,
                                  !.data = po[req[r].pool]]
  <2>1. Req_(r, ReqIdle) \/ (po[req[r].pool] # Nil /\ Req_(r, d))
    BY <1>8 DEF start_backend
  <2>2. req[r].pool \in Pool
    BY <1>8 DEF start_backend, AtPc, RequestArguments
  <2>3. po[req[r].pool] # Nil => d \in Request /\ d.pc = "starting" /\ d.pool \in Pool
                                 /\ d.data \in pool_record
    BY <2>2 DEF Request, ReqIdle, AccountsTypeOK
  <2>4. Kept
    BY <1>8 DEF start_backend, AtPc
  <2> HIDE DEF d
  <2> QED BY <1>0, <2>1, <2>3, <2>4, RequestSet, RequestOver
<1>9. CASE mark_pool_inoperable(r)
  <2>1. Req_(r, ReqIdle) /\ UNCHANGED <<conf, now, uu, um, bkt, sec, used, ses, adm, begun>>
    BY <1>9 DEF mark_pool_inoperable
  <2>2. req[r].pool \in Pool /\ req[r].data \in pool_record
    BY <1>9 DEF mark_pool_inoperable, RequestArguments
  <2>3. po' \in [Pool -> pool_record \cup {Nil}]
    <3>1. [req[r].data EXCEPT !.inop = TRUE] \in pool_record
      BY <2>2 DEF pool_record
    <3> QED BY <1>9, <2>2, <3>1 DEF mark_pool_inoperable, AccountsTypeOK
  <2>4. late' \subseteq Pool
    BY <1>9, <2>2 DEF mark_pool_inoperable, AccountsTypeOK
  <2>5. AccountsTypeOK' /\ SessionArguments' /\ AdminArguments'
    BY <2>1, <2>3, <2>4 DEF AccountsTypeOK, SessionArguments, AdminArguments
  <2> QED BY <2>1, <2>5, RequestOver
<1> QED BY <1>1, <1>2, <1>3, <1>4, <1>5, <1>6, <1>7, <1>8, <1>9 DEF RequestStep

\* Every step keeps the types and the arguments.
LEMMA TypedStep ==
    ASSUME Typed, Next
    PROVE  Typed'
<1> USE DEF Typed, TypeOK
<1>1. /\ AccountsTypeOK' /\ SessionArguments' /\ AdminArguments'
      /\ req' \in [Req -> Request] /\ RequestArguments'
  <2>1. CASE \E r \in Req : RequestStep(r)
    BY <2>1, RequestTypes
  <2>2. CASE Tick /\ UNCHANGED req
    BY <2>2, BoundAssumption DEF Tick, table, AccountsTypeOK, SessionArguments, AdminArguments, RequestArguments
  <2>3. CASE AdminStep /\ UNCHANGED req
    BY <2>3, AdminTypes DEF RequestArguments
  <2>4. CASE (\E s \in Ses : SessionStep(s)) /\ UNCHANGED req
    <3>1. PICK s \in Ses : SessionStep(s)
      BY <2>4
    <3>2. UNCHANGED adm
      BY <3>1 DEF SessionStep, Begin, check_user_account, enroll_new_user,
                  extend_user_expiration_time, Perform
    <3> QED BY <2>4, <3>1, <3>2, SessionTypes DEF AdminArguments, RequestArguments
  <2> QED BY <2>1, <2>2, <2>3, <2>4 DEF Next
<1>2. \A r \in Req : Holding(r)' \subseteq {"key", "bucket", "pool", "owner"} \X (Pool \cup User)
  BY DEF Holding
<1>3. seen' \in [Req -> SUBSET ({"key", "bucket", "pool", "owner"} \X (Pool \cup User))]
  <2>1. \A r \in Req : seen'[r] \in SUBSET ({"key", "bucket", "pool", "owner"} \X (Pool \cup User))
    BY <1>2 DEF Next, Watch
  <2>2. seen' = [r \in Req |-> seen'[r]]
    BY DEF Next, Watch
  <2> QED BY <2>1, <2>2
<1>4. quiet' \in [Req -> BOOLEAN]
  <2>1. \A r \in Req : quiet'[r] \in BOOLEAN
    BY DEF Next, Watch
  <2>2. quiet' = [r \in Req |-> quiet'[r]]
    BY DEF Next, Watch
  <2> QED BY <2>1, <2>2
<1> QED BY <1>1, <1>3, <1>4

\* Nothing changes.
LEMMA TypedStutter ==
    ASSUME Typed, UNCHANGED vars
    PROVE  Typed'
BY DEF Typed, TypeOK, AccountsTypeOK, SessionArguments, AdminArguments, RequestArguments, vars

\* The types hold in the beginning.
LEMMA TypedInit ==
    ASSUME Init
    PROVE  Typed
<1>1. PICK t \in Start : uu = t.uu /\ um = t.um /\ po = t.po /\ bkt = t.bkt /\ sec = t.sec
  BY DEF Init, AccountsInit
<1>2. t \in Tables
  BY <1>1, StartAssumption
<1>3. /\ uu \in [User -> user_record \cup {Nil}] /\ um \in [Claim -> User \cup {Nil}]
      /\ po \in [Pool -> pool_record \cup {Nil}] /\ bkt \in [Bucket -> bucket_record \cup {Nil}]
      /\ sec \in [Key -> secret_record \cup {Nil}]
  BY <1>1, <1>2 DEF Tables
<1>4. AccountsTypeOK
  BY <1>3, SessionIdle, AdminIdle, BoundAssumption DEF Init, AccountsInit, AccountsTypeOK
<1>5. SessionArguments /\ AdminArguments
  BY SessionIdle, AdminIdle DEF Init, AccountsInit, SessionArguments, AdminArguments, Work
<1>6. req \in [Req -> Request] /\ RequestArguments
  <2>1. ReqIdle \in Request /\ ReqIdle.pc = "idle"
    BY DEF ReqIdle, Request
  <2> QED BY <2>1 DEF Init, RequestArguments
<1>7. /\ seen \in [Req -> SUBSET ({"key", "bucket", "pool", "owner"} \X (Pool \cup User))]
      /\ quiet \in [Req -> BOOLEAN]
  BY DEF Init
<1> QED BY <1>4, <1>5, <1>6, <1>7 DEF Typed, TypeOK

---------------------------------------------------------------------------
(* Claims.                                                                 *)

\* Nothing that ClaimInv is about changes.
LEMMA ClaimKept ==
    ASSUME ClaimInv, UNCHANGED <<uu, um, ses, adm>>
    PROVE  ClaimInv'
BY DEF ClaimInv, EphemeralUnclaimed, ClaimInHand, ClaimsAgree, NoClaim, Claimed

\* A session writes a record without a claim, or none.
LEMMA ClaimSession ==
    ASSUME Typed, ClaimInv, NEW s \in Ses, SessionStep(s)
    PROVE  ClaimInv'
<1> USE NilApart DEF Typed, TypeOK
<1>1. UNCHANGED <<um, adm>>
  BY DEF SessionStep, Begin, check_user_account, enroll_new_user, extend_user_expiration_time,
         Perform, table
<1>2. \A x \in Ses \ {s} : ses'[x] = ses[x]
  BY DEF SessionStep, Begin, check_user_account, enroll_new_user, extend_user_expiration_time,
         Perform, Ses_, AccountsTypeOK
<1>3. ASSUME UNCHANGED uu, ses'[s].pc = "extend" => ses'[s].u.claim = Nil
      PROVE  ClaimInv'
  BY <1>1, <1>2, <1>3
     DEF ClaimInv, EphemeralUnclaimed, ClaimInHand, ClaimsAgree, NoClaim, Claimed
<1>4. ASSUME NEW uid \in User, NEW rec \in user_record, rec.claim = Nil,
             uu' = [uu EXCEPT ![uid] = rec], ses'[s].pc # "extend"
      PROVE  ClaimInv'
  <2>1. \A u \in User : uu'[u] = uu[u] \/ (uu'[u].claim = Nil /\ uu'[u] # Nil)
    BY <1>4 DEF AccountsTypeOK
  <2>2. EphemeralUnclaimed'
    BY <1>1, <1>2, <1>4, <2>1 DEF ClaimInv, EphemeralUnclaimed, NoClaim
  <2>3. ClaimInHand'
    <3>1. adm.pc \in {"del", "unclaim"} => adm.key \in User
      BY DEF AdminArguments, Work
    <3> QED BY <1>1, <2>1, <3>1 DEF ClaimInv, ClaimInHand, Claimed
  <2>4. ClaimsAgree'
    BY <1>1, <2>1 DEF ClaimInv, ClaimsAgree
  <2> QED BY <2>2, <2>3, <2>4 DEF ClaimInv
<1>5. CASE Begin(s)
  <2>1. UNCHANGED uu /\ ses'[s].pc # "extend"
    BY <1>5 DEF Begin, table, Ses_, AccountsTypeOK, SesIdle
  <2> QED BY <1>3, <2>1
<1>6. CASE check_user_account(s)
  <2>1. ses[s] \in Session /\ ses[s].uid \in User
    BY <1>6 DEF check_user_account, AccountsTypeOK, SessionArguments
  <2>2. ses'[s].pc = "extend" => /\ ses'[s].u = uu[ses[s].uid] /\ uu[ses[s].uid] # Nil
                                 /\ uu[ses[s].uid].eph
    <3> DEFINE u1 == uu[ses[s].uid]
    <3>1. \/ Ses_(s, SesIdle)
          \/ Ses_(s, [ses[s] EXCEPT !.pc = "enroll"])
          \/ /\ u1 # Nil /\ u1.eph
             /\ Ses_(s, [ses[s] EXCEPT !.pc = "extend", !.u = u1])
          \/ Ses_(s, [ses[s] EXCEPT !.pc = "in", !.u = u1])
      BY <1>6 DEF check_user_account
    <3> HIDE DEF u1
    <3>2. ses'[s].pc = "extend" => ses'[s].u = u1 /\ u1 # Nil /\ u1.eph
      <4>1. \A d : Ses_(s, d) => ses'[s] = d
        BY DEF Ses_, AccountsTypeOK
      <4>2. /\ [ses[s] EXCEPT !.pc = "enroll"].pc = "enroll"
            /\ [ses[s] EXCEPT !.pc = "extend", !.u = u1].u = u1
            /\ [ses[s] EXCEPT !.pc = "in", !.u = u1].pc = "in"
        BY <2>1 DEF Session
      <4> QED BY <3>1, <4>1, <4>2, SessionIdle
    <3> QED BY <3>2 DEF u1
  <2>3. UNCHANGED uu
    BY <1>6 DEF check_user_account, table
  <2> QED BY <1>3, <2>1, <2>2, <2>3 DEF ClaimInv, EphemeralUnclaimed, NoClaim
<1>7. CASE enroll_new_user(s)
  <2> DEFINE rec == [claim |-> Nil, enabled |-> TRUE, eph |-> TRUE, exp |-> now + Days]
  <2>1. ses[s] \in Session /\ ses[s].uid \in User
    BY <1>7 DEF enroll_new_user, AccountsTypeOK, SessionArguments
  <2>2. rec \in user_record /\ rec.claim = Nil
    BY Dates DEF AccountsTypeOK, user_record
  <2>3. uu' = [uu EXCEPT ![ses[s].uid] = rec] /\ ses'[s].pc # "extend"
    BY <1>7, <2>1 DEF enroll_new_user, Ses_, AccountsTypeOK, Session
  <2> QED BY <1>4, <2>1, <2>2, <2>3
<1>8. CASE extend_user_expiration_time(s)
  <2> DEFINE rec == [ses[s].u EXCEPT !.exp = now + Days]
  <2>1. /\ ses[s] \in Session /\ ses[s].uid \in User
        /\ ses[s].u \in user_record /\ ses[s].u.claim = Nil
    BY <1>8 DEF extend_user_expiration_time, AccountsTypeOK, SessionArguments,
                ClaimInv, EphemeralUnclaimed
  <2>2. rec \in user_record /\ rec.claim = Nil
    BY <2>1, Dates DEF AccountsTypeOK, user_record
  <2>3. ses'[s].pc # "extend"
    BY <1>8, <2>1 DEF extend_user_expiration_time, Ses_, AccountsTypeOK, Session
  <2>4. UNCHANGED uu \/ uu' = [uu EXCEPT ![ses[s].uid] = rec]
    BY <1>8 DEF extend_user_expiration_time
  <2> QED BY <1>3, <1>4, <2>1, <2>2, <2>3, <2>4
<1>9. CASE Perform(s)
  <2>1. UNCHANGED uu /\ ses'[s].pc # "extend"
    BY <1>9, SessionIdle DEF Perform, Ses_, AccountsTypeOK
  <2> QED BY <1>3, <2>1
<1> QED BY <1>5, <1>6, <1>7, <1>8, <1>9 DEF SessionStep

\* The administrator takes a claim away before the record, and gives a claim
\* before the record.
LEMMA ClaimAdmin ==
    ASSUME Typed, ClaimInv, AdminStep
    PROVE  ClaimInv'
<1> USE NilApart DEF Typed, TypeOK
<1>0. UNCHANGED ses
  BY AddOrModifyRecord, DeleteOrEnableRecord, ReadRecordRecord
     DEF AdminStep, Begun, WriteRecord, KillPool, KillBucket, Issue, ListPools, DeregisterOne,
         clear_user_claim, delete_user, delete_user_claim, AddClaim, set_user_raw
<1>a. ASSUME UNCHANGED <<uu, um>>, adm' = AdmIdle, adm.pc # "del"
      PROVE  ClaimInv'
  BY <1>0, <1>a, AdminIdle
     DEF ClaimInv, EphemeralUnclaimed, ClaimInHand, ClaimsAgree, NoClaim, Claimed, Work
<1>1. CASE AddOrModify
  BY <1>0, <1>1, AddOrModifyRecord
     DEF Begun, ClaimInv, EphemeralUnclaimed, ClaimInHand, ClaimsAgree, NoClaim, Claimed, Work
<1>2. CASE DeleteOrEnable
  BY <1>0, <1>2, DeleteOrEnableRecord, AdminIdle
     DEF Begun, ClaimInv, EphemeralUnclaimed, ClaimInHand, ClaimsAgree, NoClaim, Claimed, Work
<1>3. CASE ReadRecord
  <2>1. Begun /\ adm'.pc = "set" /\ (UserAtHand(adm') \/ PoolAtHand(adm') \/ MemberAtHand(adm'))
    BY <1>3, ReadRecordRecord
  <2>2. EphemeralUnclaimed'
    BY <1>0, <2>1 DEF Begun, ClaimInv, EphemeralUnclaimed, NoClaim, Work,
                      UserAtHand, PoolAtHand, MemberAtHand
  <2>3. ClaimInHand'
    BY <2>1 DEF Begun, ClaimInv, ClaimInHand, ClaimsAgree, Claimed,
                UserAtHand, PoolAtHand, MemberAtHand
  <2>4. ClaimsAgree'
    BY <2>1 DEF Begun, ClaimInv, ClaimsAgree
  <2> QED BY <2>2, <2>3, <2>4 DEF ClaimInv
<1>4. CASE WriteRecord
  <2>1. UNCHANGED um /\ adm' = AdmIdle /\ adm.pc = "set"
    BY <1>4 DEF WriteRecord
  <2>2. CASE adm.op \in {"stop-user", "time-user"}
    <3>1. /\ uu' = [uu EXCEPT ![adm.key] = adm.rec] /\ adm.key \in User /\ adm.rec \in user_record
          /\ NoClaim(adm.rec) /\ Claimed(adm.rec, adm.key)
      BY <1>4, <2>2 DEF WriteRecord, AdminArguments, ClaimInv, EphemeralUnclaimed, ClaimInHand
    <3>2. EphemeralUnclaimed' /\ ClaimInHand'
      BY <1>0, <2>1, <3>1, AdminIdle
         DEF ClaimInv, EphemeralUnclaimed, ClaimInHand, NoClaim, Work, AccountsTypeOK
    <3>3. ClaimsAgree'
      BY <2>1, <3>1, AdminIdle DEF ClaimInv, ClaimsAgree, Claimed, AccountsTypeOK
    <3> QED BY <3>2, <3>3 DEF ClaimInv
  <2>3. CASE adm.op \notin {"stop-user", "time-user"}
    BY <1>4, <1>a, <2>1, <2>3 DEF WriteRecord
  <2> QED BY <2>2, <2>3
<1>5. CASE KillPool
  BY <1>5, <1>a DEF KillPool, Issue
<1>6. CASE KillBucket
  BY <1>6, <1>a DEF KillBucket, Issue
<1>7. CASE ListPools
  <2>1. /\ UNCHANGED <<uu, um>> /\ adm.pc = "pools" /\ adm'.pc = "dereg" /\ adm'.op = adm.op
        /\ adm'.rec = adm.rec
    BY <1>7 DEF ListPools, table, AccountsTypeOK, Admin
  <2> QED BY <1>0, <2>1
          DEF ClaimInv, EphemeralUnclaimed, ClaimInHand, ClaimsAgree, NoClaim, Claimed, Work
<1>8. CASE DeregisterOne
  <2>1. /\ UNCHANGED <<uu, um>> /\ adm.pc = "dereg"
        /\ \/ adm' = AdmIdle
           \/ adm'.pc = "dereg" /\ adm'.op = adm.op /\ adm'.rec = adm.rec
    BY <1>8 DEF DeregisterOne, AccountsTypeOK, Admin
  <2>2. CASE adm'.pc = "dereg" /\ adm'.op = adm.op /\ adm'.rec = adm.rec
    BY <1>0, <2>1, <2>2
       DEF ClaimInv, EphemeralUnclaimed, ClaimInHand, ClaimsAgree, NoClaim, Claimed, Work
  <2> QED BY <1>a, <2>1, <2>2
<1>9. CASE clear_user_claim
  <2>1. /\ UNCHANGED uu /\ adm.pc = "dereg" /\ adm'.pc = "del" /\ adm'.op = adm.op
        /\ adm'.rec = adm.rec /\ adm'.key = adm.key /\ adm.key \in User
        /\ um' = [c \in Claim |-> IF um[c] = adm.key THEN Nil ELSE um[c]]
    BY <1>9 DEF clear_user_claim, Goto, AccountsTypeOK, Admin, AdminArguments, Work
  <2>2. EphemeralUnclaimed'
    BY <1>0, <2>1 DEF ClaimInv, EphemeralUnclaimed, NoClaim, Work
  <2>3. \A u \in User : uu[u] # Nil /\ uu[u].claim # Nil => /\ uu[u].claim \in Claim
                                                           /\ um[uu[u].claim] = u
    BY <2>1 DEF ClaimInv, ClaimsAgree, AccountsTypeOK, user_record
  <2>4. ClaimInHand' /\ ClaimsAgree'
    BY <2>1, <2>3 DEF ClaimInHand, ClaimsAgree
  <2> QED BY <2>2, <2>4 DEF ClaimInv
<1>10. CASE delete_user
  <2>1. /\ UNCHANGED um /\ adm.pc = "del" /\ adm'.pc = "unclaim" /\ adm'.op = adm.op
        /\ adm'.rec = adm.rec /\ adm'.key = adm.key /\ adm.key \in User
        /\ adm'.old = IF uu[adm.key] = Nil THEN Nil ELSE uu[adm.key].claim
        /\ uu' = [uu EXCEPT ![adm.key] = Nil]
    BY <1>10 DEF delete_user, AccountsTypeOK, Admin, AdminArguments, Work
  <2>2. EphemeralUnclaimed'
    BY <1>0, <2>1 DEF ClaimInv, EphemeralUnclaimed, NoClaim, Work, AccountsTypeOK
  <2>3. ClaimInHand' /\ ClaimsAgree'
    BY <2>1 DEF ClaimInv, ClaimInHand, ClaimsAgree, AccountsTypeOK
  <2> QED BY <2>2, <2>3 DEF ClaimInv
<1>11. CASE delete_user_claim
  <2>1. /\ UNCHANGED uu /\ adm.pc = "unclaim" /\ adm.key \in User /\ adm.old \in Claim \cup {Nil}
        /\ \/ adm' = AdmIdle
           \/ adm'.pc = "claim" /\ adm.op = "ADD" /\ adm'.op = adm.op /\ adm'.rec = adm.rec
    BY <1>11 DEF delete_user_claim, AccountsTypeOK, Admin, AdminArguments, Work
  <2>2. EphemeralUnclaimed'
    BY <1>0, <2>1, AdminIdle DEF ClaimInv, EphemeralUnclaimed, NoClaim, Work
  <2>3. ClaimInHand'
    BY <2>1, AdminIdle DEF ClaimInHand
  <2>4. ClaimsAgree'
    <3>1. SUFFICES ASSUME NEW u \in User, uu[u] # Nil, uu[u].claim # Nil
                   PROVE  um'[uu[u].claim] = u
      BY <2>1 DEF ClaimsAgree
    <3>2. uu[u].claim \in Claim /\ um[uu[u].claim] = u
      BY <2>1, <3>1 DEF ClaimInv, ClaimsAgree, AccountsTypeOK, user_record
    <3>3. u # adm.key /\ (adm.old # Nil => uu[u].claim # adm.old)
      BY <2>1, <3>1, <3>2 DEF ClaimInv, ClaimInHand
    <3> QED BY <1>11, <3>2, <3>3 DEF delete_user_claim
  <2> QED BY <2>2, <2>3, <2>4 DEF ClaimInv
<1>12. CASE AddClaim
  <2>1. /\ UNCHANGED uu /\ adm.pc = "claim" /\ adm.key \in User /\ adm.rec \in user_record
        /\ \/ adm' = AdmIdle /\ UNCHANGED um
           \/ /\ adm'.pc = "setuser" /\ adm'.op = adm.op /\ adm'.rec = adm.rec
              /\ adm'.key = adm.key
              /\ \/ adm.rec.claim = Nil /\ UNCHANGED um
                 \/ /\ adm.rec.claim \in Claim /\ um[adm.rec.claim] \in {Nil, adm.key}
                    /\ um' = [um EXCEPT ![adm.rec.claim] = adm.key]
    <3>1. adm.key \in User /\ adm.rec \in user_record /\ adm.rec.claim \in Claim \cup {Nil}
      BY <1>12 DEF AddClaim, AdminArguments, Work, user_record
    <3>2. ASSUME Goto("setuser")
          PROVE  adm'.pc = "setuser" /\ adm'.op = adm.op /\ adm'.rec = adm.rec /\ adm'.key = adm.key
      BY <3>2 DEF Goto, AccountsTypeOK, Admin
    <3> QED BY <1>12, <3>1, <3>2 DEF AddClaim
  <2>2. CASE adm' = AdmIdle /\ UNCHANGED um
    BY <1>a, <2>1, <2>2
  <2>3. CASE adm'.pc = "setuser"
    <3>1. EphemeralUnclaimed'
      BY <1>0, <2>1, <2>3, AdminIdle DEF ClaimInv, EphemeralUnclaimed, NoClaim, Work
    <3>2. ClaimInHand'
      BY <2>1, <2>3, AdminIdle DEF ClaimInHand, Claimed, AccountsTypeOK
    <3>3. ClaimsAgree'
      BY <2>1, <2>3, AdminIdle DEF ClaimInv, ClaimsAgree, AccountsTypeOK, user_record
    <3> QED BY <3>1, <3>2, <3>3 DEF ClaimInv
  <2> QED BY <2>1, <2>2, <2>3
<1>13. CASE set_user_raw
  <2>1. /\ UNCHANGED um /\ adm' = AdmIdle /\ adm.pc = "setuser" /\ adm.key \in User
        /\ adm.rec \in user_record /\ uu' = [uu EXCEPT ![adm.key] = adm.rec]
        /\ NoClaim(adm.rec) /\ Claimed(adm.rec, adm.key)
    BY <1>13 DEF set_user_raw, AdminArguments, Work, ClaimInv, EphemeralUnclaimed, ClaimInHand
  <2>2. EphemeralUnclaimed' /\ ClaimInHand'
    BY <1>0, <2>1, AdminIdle
       DEF ClaimInv, EphemeralUnclaimed, ClaimInHand, NoClaim, Work, AccountsTypeOK
  <2>3. ClaimsAgree'
    BY <2>1, AdminIdle DEF ClaimInv, ClaimsAgree, Claimed, AccountsTypeOK
  <2> QED BY <2>2, <2>3 DEF ClaimInv
<1> QED BY <1>1, <1>2, <1>3, <1>4, <1>5, <1>6, <1>7, <1>8, <1>9, <1>10, <1>11, <1>12, <1>13
        DEF AdminStep

---------------------------------------------------------------------------
(* Pools and their owners.                                                 *)

\* Pools go, or keep their owners; users stay.
OwnersStay ==
    /\ \A p \in Pool : po'[p] # Nil => po[p] # Nil /\ po'[p].owner = po[p].owner
    /\ \A u \in User : uu[u] # Nil => uu'[u] # Nil
    /\ late \subseteq late'

\* The owners of pools, and of the pool at hand, are users.
LEMMA OwnerIsUser ==
    ASSUME Typed
    PROVE  /\ \A p \in Pool : po[p] # Nil => po[p].owner \in User
           /\ adm.pc = "set" /\ adm.op \in {"stop-pool", "time-pool"} =>
                adm.key \in Pool /\ adm.rec \in pool_record /\ adm.rec.owner \in User
BY NilApart DEF Typed, TypeOK, AccountsTypeOK, AdminArguments, pool_record

\* The administrator does nothing, and the owners stay.
LEMMA InTimeKept ==
    ASSUME Typed, InTime, OwnersStay, UNCHANGED adm
    PROVE  InTime'
BY OwnerIsUser DEF InTime, PoolInTime, RecordInTime, OwnersStay

\* The administrator is not deregistering a user, nor writing a record, then.
LEMMA InTimeIdle ==
    ASSUME Typed, InTime, OwnersStay, adm'.pc \notin {"set", "dereg", "del"}
    PROVE  InTime'
BY OwnerIsUser DEF InTime, PoolInTime, RecordInTime, OwnersStay

\* Deleting a pool.
LEMMA DropPoolStays ==
    ASSUME Typed, NEW p \in Pool, DropPool(p), UNCHANGED <<uu, late>>
    PROVE  OwnersStay /\ po'[p] = Nil
BY DEF Typed, TypeOK, AccountsTypeOK, DropPool, OwnersStay

\* A session makes a pool in time, unless the user is leaving.
LEMMA InTimeSession ==
    ASSUME Typed, InTime, NEW s \in Ses, SessionStep(s)
    PROVE  InTime'
<1> USE NilApart DEF Typed, TypeOK
<1>1. UNCHANGED adm
  BY DEF SessionStep, Begin, check_user_account, enroll_new_user, extend_user_expiration_time,
         Perform
<1>2. CASE Begin(s) \/ check_user_account(s)
  BY <1>1, <1>2, InTimeKept DEF Begin, check_user_account, table, OwnersStay
<1>3. CASE enroll_new_user(s)
  <2>1. ses[s].uid \in User
    BY <1>3 DEF enroll_new_user, SessionArguments
  <2>2. [claim |-> Nil, enabled |-> TRUE, eph |-> TRUE, exp |-> now + Days] \in user_record
    BY Dates DEF AccountsTypeOK, user_record
  <2> QED BY <1>1, <1>3, <2>1, <2>2, InTimeKept DEF enroll_new_user, OwnersStay, AccountsTypeOK
<1>4. CASE extend_user_expiration_time(s)
  <2>1. ses[s].uid \in User /\ ses[s].u \in user_record
    BY <1>4 DEF extend_user_expiration_time, SessionArguments
  <2>2. [ses[s].u EXCEPT !.exp = now + Days] \in user_record
    BY <2>1, Dates DEF AccountsTypeOK, user_record
  <2>3. OwnersStay
    BY <1>4, <2>1, <2>2 DEF extend_user_expiration_time, OwnersStay, AccountsTypeOK
  <2> QED BY <1>1, <2>3, InTimeKept
<1>5. CASE Perform(s)
  <2>0. UNCHANGED uu /\ ses[s].uid \in User
    BY <1>5 DEF Perform, SessionArguments
  <2>1. CASE make_pool(s)
    <3>1. PICK p \in Pool \ used :
            /\ po' = [po EXCEPT ![p] = [owner |-> ses[s].uid, enabled |-> TRUE,
                                        inop |-> FALSE, exp |-> Far]]
            /\ late' = IF Leaving(ses[s].uid) THEN late \cup {p} ELSE late
      BY <2>1 DEF make_pool
    <3>2. po'[p].owner = ses[s].uid /\ \A x \in Pool \ {p} : po'[x] = po[x]
      BY <3>1 DEF AccountsTypeOK
    <3>3. PoolInTime'
      <4>1. SUFFICES ASSUME NEW x \in Pool, po'[x] # Nil, x \notin late'
                     PROVE  /\ uu[po'[x].owner] # Nil
                            /\ adm.pc = "dereg" /\ adm.key = po'[x].owner => x \in adm.todo
                            /\ ~(adm.pc = "del" /\ adm.key = po'[x].owner)
        BY <1>1, <2>0 DEF PoolInTime
      <4>2. CASE x = p
        BY <3>1, <3>2, <4>1, <4>2 DEF Leaving
      <4>3. CASE x # p
        BY <3>1, <3>2, <4>1, <4>3 DEF InTime, PoolInTime
      <4> QED BY <4>2, <4>3
    <3>4. RecordInTime'
      BY <1>1, <2>0, <3>1 DEF InTime, RecordInTime
    <3> QED BY <3>3, <3>4 DEF InTime
  <2>2. CASE delete_pool(s)
    <3>1. OwnersStay
      BY <2>0, <2>2, DropPoolStays DEF delete_pool, OwnersStay
    <3> QED BY <1>1, <3>1, InTimeKept
  <2>3. CASE UNCHANGED <<po, late>>
    BY <1>1, <2>0, <2>3, InTimeKept DEF OwnersStay
  <2> QED BY <1>5, <2>1, <2>2, <2>3
          DEF Perform, make_bucket, delete_bucket, make_secret, delete_secret, Reply
<1> QED BY <1>2, <1>3, <1>4, <1>5 DEF SessionStep

\* The administrator lists the pools of a user, deletes what is on the list,
\* and only then the user.
LEMMA InTimeAdmin ==
    ASSUME Typed, InTime, AdminStep
    PROVE  InTime'
<1> USE NilApart DEF Typed, TypeOK
<1>1. CASE AddOrModify
  BY <1>1, AddOrModifyRecord, InTimeIdle DEF Begun, OwnersStay
<1>2. CASE DeleteOrEnable
  BY <1>2, DeleteOrEnableRecord, AdminIdle, InTimeIdle DEF Begun, OwnersStay
<1>3. CASE ReadRecord
  <2>1. /\ UNCHANGED <<uu, po, late>> /\ adm'.pc = "set"
        /\ UserAtHand(adm') \/ PoolAtHand(adm') \/ MemberAtHand(adm')
    BY <1>3, ReadRecordRecord DEF Begun
  <2>2. PoolInTime'
    BY <2>1 DEF InTime, PoolInTime
  <2>3. RecordInTime'
    BY <2>1 DEF InTime, PoolInTime, RecordInTime, UserAtHand, PoolAtHand, MemberAtHand
  <2> QED BY <2>2, <2>3 DEF InTime
<1>4. CASE WriteRecord
  <2>1. adm' = AdmIdle /\ UNCHANGED late /\ adm.pc = "set"
    BY <1>4 DEF WriteRecord
  <2>2. CASE adm.op \in {"stop-pool", "time-pool"}
    <3>1. /\ po' = [po EXCEPT ![adm.key] = adm.rec] /\ UNCHANGED uu
          /\ adm.key \in Pool /\ adm.rec \in pool_record
      BY <1>4, <2>2 DEF WriteRecord, AdminArguments
    <3>2. PoolInTime'
      BY <2>1, <2>2, <3>1, AdminIdle DEF InTime, PoolInTime, RecordInTime, AccountsTypeOK
    <3>3. RecordInTime'
      BY <2>1, AdminIdle DEF RecordInTime
    <3> QED BY <3>2, <3>3 DEF InTime
  <2>3. CASE adm.op \notin {"stop-pool", "time-pool"}
    <3>1. OwnersStay
      BY <1>4, <2>1, <2>3 DEF WriteRecord, AdminArguments, AccountsTypeOK, OwnersStay
    <3> QED BY <2>1, <3>1, AdminIdle, InTimeIdle
  <2> QED BY <2>2, <2>3
<1>5. CASE KillPool
  <2>1. OwnersStay
    BY <1>5, DropPoolStays DEF KillPool, Issue, OwnersStay
  <2> QED BY <1>5, <2>1, AdminIdle, InTimeIdle DEF KillPool, Issue
<1>6. CASE KillBucket
  BY <1>6, AdminIdle, InTimeIdle DEF KillBucket, Issue, OwnersStay
<1>7. CASE ListPools
  <2>1. /\ UNCHANGED <<uu, po, late>> /\ adm'.pc = "dereg" /\ adm'.key = adm.key
        /\ adm'.todo = PoolsOf(adm.key)
    BY <1>7 DEF ListPools, table, AccountsTypeOK, Admin
  <2> QED BY <2>1 DEF InTime, PoolInTime, RecordInTime, PoolsOf
<1>8. CASE DeregisterOne
  <2>0. UNCHANGED <<uu, late>> /\ adm.pc = "dereg" /\ adm.todo \subseteq Pool
    BY <1>8 DEF DeregisterOne, AccountsTypeOK, Admin
  <2>1. CASE adm' = AdmIdle
    <3>1. OwnersStay
      BY <1>8, <2>0, DropPoolStays DEF DeregisterOne, OwnersStay
    <3> QED BY <2>1, <3>1, AdminIdle, InTimeIdle
  <2>2. CASE adm' # AdmIdle
    <3>1. PICK p \in adm.todo : /\ (UNCHANGED po /\ po[p] = Nil) \/ DropPool(p)
                                /\ adm' = [adm EXCEPT !.todo = @ \ {p}]
      BY <1>8, <2>2 DEF DeregisterOne
    <3>2. OwnersStay /\ po'[p] = Nil
      BY <2>0, <3>1, DropPoolStays DEF OwnersStay
    <3>3. adm'.pc = "dereg" /\ adm'.key = adm.key /\ adm'.todo = adm.todo \ {p}
      BY <2>0, <3>1 DEF AccountsTypeOK, Admin
    <3>4. PoolInTime'
      BY <2>0, <3>2, <3>3, OwnerIsUser DEF InTime, PoolInTime, OwnersStay
    <3>5. RecordInTime'
      BY <3>3 DEF RecordInTime
    <3> QED BY <3>4, <3>5 DEF InTime
  <2> QED BY <2>1, <2>2
<1>9. CASE clear_user_claim
  <2>1. /\ UNCHANGED <<uu, po, late>> /\ adm.pc = "dereg" /\ adm.todo = {}
        /\ adm'.pc = "del" /\ adm'.key = adm.key
    BY <1>9 DEF clear_user_claim, Goto, AccountsTypeOK, Admin
  <2> QED BY <2>1 DEF InTime, PoolInTime, RecordInTime
<1>10. CASE delete_user
  <2>1. /\ UNCHANGED <<po, late>> /\ adm.pc = "del" /\ adm'.pc = "unclaim" /\ adm.key \in User
        /\ uu' = [uu EXCEPT ![adm.key] = Nil]
    BY <1>10 DEF delete_user, AccountsTypeOK, Admin, AdminArguments, Work
  <2> QED BY <2>1, OwnerIsUser DEF InTime, PoolInTime, RecordInTime, AccountsTypeOK
<1>11. CASE delete_user_claim
  <2>1. adm'.pc \in {"idle", "claim"}
    BY <1>11, AdminIdle DEF delete_user_claim, AccountsTypeOK, Admin
  <2> QED BY <1>11, <2>1, InTimeIdle DEF delete_user_claim, OwnersStay
<1>12. CASE AddClaim
  <2>1. adm'.pc \in {"idle", "setuser"}
    BY <1>12, AdminIdle DEF AddClaim, Goto, AccountsTypeOK, Admin
  <2> QED BY <1>12, <2>1, InTimeIdle DEF AddClaim, OwnersStay
<1>13. CASE set_user_raw
  <2>1. adm.key \in User /\ adm.rec \in user_record
    BY <1>13 DEF set_user_raw, AdminArguments, Work
  <2>2. OwnersStay
    BY <1>13, <2>1 DEF set_user_raw, OwnersStay, AccountsTypeOK
  <2> QED BY <1>13, <2>2, AdminIdle, InTimeIdle DEF set_user_raw
<1> QED BY <1>1, <1>2, <1>3, <1>4, <1>5, <1>6, <1>7, <1>8, <1>9, <1>10, <1>11, <1>12, <1>13
        DEF AdminStep

\* A record that mark_pool_inoperable() writes back has its owner, or is late.
LEMMA InTimeRequest ==
    ASSUME Typed, InTime, NEW r \in Req, RequestStep(r)
    PROVE  InTime'
<1>1. CASE mark_pool_inoperable(r)
  <2> DEFINE p == req[r].pool
             data == req[r].data
  <2>1. p \in Pool /\ data \in pool_record
    BY <1>1 DEF mark_pool_inoperable, Typed, RequestArguments
  <2>2. UNCHANGED <<uu, adm>> /\ late \subseteq late'
    BY <1>1 DEF mark_pool_inoperable
  <2>3. [data EXCEPT !.inop = TRUE].owner = data.owner
    BY <2>1 DEF pool_record
  <2>4. /\ po' = [po EXCEPT ![p] = [data EXCEPT !.inop = TRUE]]
        /\ late' = IF Leaving(data.owner) THEN late \cup {p} ELSE late
    BY <1>1 DEF mark_pool_inoperable
  <2> HIDE DEF p, data
  <2>5. PoolInTime'
    <3>1. SUFFICES ASSUME NEW x \in Pool, po'[x] # Nil, x \notin late'
                   PROVE  /\ uu[po'[x].owner] # Nil
                          /\ adm.pc = "dereg" /\ adm.key = po'[x].owner => x \in adm.todo
                          /\ ~(adm.pc = "del" /\ adm.key = po'[x].owner)
      BY <2>2 DEF PoolInTime
    <3>2. CASE x = p
      <4>1. po'[x].owner = data.owner
        BY <2>1, <2>3, <2>4, <3>2 DEF Typed, TypeOK, AccountsTypeOK
      <4>2. ~Leaving(data.owner)
        BY <2>4, <3>1, <3>2
      <4> QED BY <4>1, <4>2 DEF Leaving
    <3>3. CASE x # p
      <4>1. po'[x] = po[x]
        BY <2>4, <3>3 DEF Typed, TypeOK, AccountsTypeOK
      <4> QED BY <2>2, <3>1, <4>1 DEF InTime, PoolInTime
    <3> QED BY <3>2, <3>3
  <2>6. RecordInTime'
    BY <2>2 DEF InTime, RecordInTime
  <2> QED BY <2>5, <2>6 DEF InTime
<1>2. CASE ~mark_pool_inoperable(r)
  <2>1. UNCHANGED <<uu, adm, po, late>>
    BY <1>2 DEF RequestStep, Arrive, table, check_authenticated, BadSignature,
           check_bucket_in_path, ensure_pool_existence, ensure_pool_state, forward_access,
           start_backend, AtPc
  <2> QED BY <2>1, InTimeKept DEF OwnersStay
<1> QED BY <1>1, <1>2

---------------------------------------------------------------------------
(* What a request has seen.                                                *)

\* Time passes, and a step is of one request at most.
LEMMA OneMoves ==
    ASSUME Typed, Next, NEW r \in Req
    PROVE  /\ now \in Nat /\ now' \in Nat /\ now <= now'
           /\ req'[r] = req[r] \/ RequestStep(r)
<1> USE DEF Typed, TypeOK
<1>1. now' = now \/ now' = now + 1
  <2>1. CASE \E x \in Req : RequestStep(x)
    BY <2>1 DEF RequestStep, Arrive, check_authenticated, BadSignature, check_bucket_in_path,
           ensure_pool_existence, ensure_pool_state, forward_access, start_backend,
           mark_pool_inoperable, AtPc
  <2>2. CASE Tick
    BY <2>2 DEF Tick
  <2>3. CASE AdminStep
    BY <2>3, AddOrModifyRecord, DeleteOrEnableRecord, ReadRecordRecord
       DEF AdminStep, Begun, WriteRecord, KillPool, KillBucket, Issue, ListPools, DeregisterOne,
           clear_user_claim, delete_user, delete_user_claim, AddClaim, set_user_raw
  <2>4. CASE \E s \in Ses : SessionStep(s)
    BY <2>4 DEF SessionStep, Begin, check_user_account, enroll_new_user,
                extend_user_expiration_time, Perform
  <2> QED BY <2>1, <2>2, <2>3, <2>4 DEF Next
<1>2. now \in Nat
  BY DEF AccountsTypeOK
<1>3. req'[r] = req[r] \/ RequestStep(r)
  <2>1. CASE UNCHANGED req
    BY <2>1
  <2>2. ASSUME NEW x \in Req, x # r, RequestStep(x)
        PROVE  req'[r] = req[r]
    BY <2>2 DEF RequestStep, Arrive, check_authenticated, BadSignature, check_bucket_in_path,
           ensure_pool_existence, ensure_pool_state, forward_access, start_backend,
           mark_pool_inoperable, Req_, Refuse
  <2> QED BY <2>1, <2>2 DEF Next
<1> QED BY <1>1, <1>2, <1>3

\* The conditions that hold after a step have been seen then.
LEMMA HistoryGrows ==
    ASSUME Typed, Next, NEW r \in Req, req'[r].pc \in {"bucket", "pool", "owner", "backend"}
    PROVE  /\ seen[r] \subseteq seen'[r]
           /\ \A p \in Pool : /\ KeyGood(req[r], p)' => <<"key", p>> \in seen'[r]
                              /\ BucketGood(req[r], p)' => <<"bucket", p>> \in seen'[r]
                              /\ PoolGood(p)' => <<"pool", p>> \in seen'[r]
           /\ \A u \in User : check_user_is_active(u)' => <<"owner", u>> \in seen'[r]
<1>1. seen'[r] = seen[r] \cup Holding(r)'
  BY DEF Next, Watch, Ended
<1>2. /\ \A p \in Pool : /\ KeyGood(req[r], p)' => <<"key", p>> \in Holding(r)'
                         /\ BucketGood(req[r], p)' => <<"bucket", p>> \in Holding(r)'
                         /\ PoolGood(p)' => <<"pool", p>> \in Holding(r)'
      /\ \A u \in User : check_user_is_active(u)' => <<"owner", u>> \in Holding(r)'
  BY DEF Holding
<1> QED BY <1>1, <1>2

\* Nothing that a request has seen is lost while it waits.
LEMMA SeenWaiting ==
    ASSUME Typed, Next, NEW r \in Req, Seen(r), req'[r] = req[r]
    PROVE  Seen(r)'
<1>1. now \in Nat /\ now' \in Nat /\ now <= now'
  BY OneMoves
<1>2. req'[r].pc \in {"bucket", "pool", "owner", "backend"} => seen[r] \subseteq seen'[r]
  BY HistoryGrows
<1>3. KeySeen(req[r], seen[r])' /\ BucketSeen(req[r], seen[r])'
  BY <1>2 DEF Seen, KeySeen, BucketSeen, IsProbe
<1>4. PoolSeen(req[r], seen[r])'
  <2>1. SUFFICES ASSUME req[r].pc \in {"owner", "backend"}, req[r].data.enabled,
                        now' < req[r].data.exp
                 PROVE  <<"pool", req[r].pool>> \in seen'[r]
    BY DEF PoolSeen, Before
  <2>2. req[r].data.exp \in Nat
    <3>1. req[r].data \in pool_record
      BY <2>1 DEF Typed, RequestArguments
    <3> QED BY <3>1, BoundAssumption DEF pool_record, Date, Far
  <2> QED BY <1>1, <1>2, <2>1, <2>2 DEF Seen, PoolSeen, Before
<1>5. GrantSeen(req[r], seen[r])'
  BY <1>2 DEF Seen, GrantSeen, IsProbe
<1> QED BY <1>3, <1>4, <1>5 DEF Seen

\* The moves of a request that neither comes nor ends, with the reasons.
SameRequest(r) ==
    req'[r].key = req[r].key /\ req'[r].name = req[r].name /\ req'[r].method = req[r].method

Authenticates(r) ==
    /\ req[r].pc = "key" /\ req'[r].pc = "bucket" /\ SameRequest(r)
    /\ req[r].key = Nil => req'[r].secret = Nil
    /\ req[r].key # Nil => /\ req'[r].secret = sec[req[r].key]
                           /\ sec[req[r].key] # Nil /\ Before(sec[req[r].key].exp)

Locates(r) ==
    /\ req[r].pc = "bucket" /\ req'[r].pc = "pool" /\ SameRequest(r)
    /\ req'[r].secret = req[r].secret
    /\ Probing(r) \/ /\ ~Probing(r)
                     /\ req[r].name # Nil /\ bkt[req[r].name] # Nil
                     /\ req[r].secret # Nil => bkt[req[r].name].pool = req[r].secret.pool
                     /\ Before(bkt[req[r].name].exp)
                     /\ req'[r].bucket = bkt[req[r].name]
                     /\ req'[r].pool = bkt[req[r].name].pool

Finds(r) ==
    /\ req[r].pc = "pool" /\ req'[r].pc = "owner" /\ SameRequest(r)
    /\ req'[r].secret = req[r].secret /\ req'[r].bucket = req[r].bucket
    /\ req'[r].pool = req[r].pool
    /\ po[req[r].pool] # Nil /\ ~po[req[r].pool].inop /\ req'[r].data = po[req[r].pool]

Grants(r) ==
    /\ req[r].pc = "owner" /\ req'[r].pc = "backend" /\ SameRequest(r)
    /\ req'[r].secret = req[r].secret /\ req'[r].bucket = req[r].bucket
    /\ req'[r].pool = req[r].pool /\ req'[r].data = req[r].data
    /\ Usable(req[r].data) /\ (Probing(r) \/ Permitted(req[r]))

Refuses(r) ==
    /\ req'[r].pc = "refused" /\ SameRequest(r)
    /\ \/ /\ req[r].pc = "key" /\ req[r].key # Nil
          /\ sec[req[r].key] = Nil \/ ~Before(sec[req[r].key].exp)
       \/ /\ req[r].pc = "bucket"
          /\ \/ req[r].name = Nil \/ bkt[req[r].name] = Nil
             \/ Probing(r)
             \/ req[r].secret # Nil /\ bkt[req[r].name].pool # req[r].secret.pool
             \/ ~Before(bkt[req[r].name].exp)
       \/ /\ req[r].pc = "pool"
          /\ po[req[r].pool] = Nil \/ po[req[r].pool].inop
       \/ /\ req[r].pc = "owner"
          /\ ~(Usable(req[r].data) /\ (Probing(r) \/ Permitted(req[r])))

\* Every step of a request is one of these moves, or begins or ends it.
LEMMA RequestMoves ==
    ASSUME Typed, NEW r \in Req, RequestStep(r)
    PROVE  \/ req'[r].pc \in {"idle", "key", "starting"}
           \/ /\ UNCHANGED <<now, uu, po, bkt, sec>>
              /\ Authenticates(r) \/ Locates(r) \/ Finds(r) \/ Grants(r) \/ Refuses(r)
<1> USE NilApart DEF Typed, TypeOK
<1>a. req[r] \in Request
  OBVIOUS
<1>b. \A d : Req_(r, d) => req'[r] = d
  BY DEF Req_
<1>c. ASSUME Refuse(r)
      PROVE  req'[r].pc = "refused" /\ SameRequest(r)
  <2> DEFINE d == [req[r] EXCEPT !.pc = "refused", !.secret = Nil, !.bucket = Nil,
                                 !.pool = Nil, !.data = Nil]
  <2>1. req'[r] = d
    BY <1>b, <1>c DEF Refuse
  <2> QED BY <1>a, <2>1 DEF Request, SameRequest
<1>d. ReqIdle.pc = "idle"
  BY DEF ReqIdle
<1>1. CASE Arrive(r)
  <2>1. PICK k \in Key \cup {Nil}, b \in Bucket \cup {Nil}, m \in Method :
          Req_(r, [ReqIdle EXCEPT !.pc = "key", !.key = k, !.name = b, !.method = m])
    BY <1>1 DEF Arrive
  <2> QED BY <1>b, <2>1 DEF ReqIdle
<1>2. CASE check_authenticated(r)
  <2> DEFINE secret == IF req[r].key = Nil THEN Nil ELSE sec[req[r].key]
             d == [req[r] EXCEPT !.pc = "bucket", !.secret = secret]
  <2>1. /\ req[r].pc = "key"
        /\ \/ /\ req[r].key # Nil /\ ~(secret # Nil /\ Before(secret.exp)) /\ Refuse(r)
           \/ /\ req[r].key # Nil => secret # Nil /\ Before(secret.exp)
              /\ Req_(r, d)
    BY <1>2 DEF check_authenticated, AtPc
  <2>2. UNCHANGED <<now, uu, po, bkt, sec>>
    BY <1>2 DEF check_authenticated, AtPc
  <2>3. CASE Refuse(r) /\ req[r].key # Nil /\ ~(secret # Nil /\ Before(secret.exp))
    BY <1>c, <2>1, <2>2, <2>3 DEF Refuses
  <2>4. CASE Req_(r, d) /\ (req[r].key # Nil => secret # Nil /\ Before(secret.exp))
    <3>1. req'[r] = d
      BY <1>b, <2>4
    <3>2. req'[r].pc = "bucket" /\ SameRequest(r) /\ req'[r].secret = secret
      BY <1>a, <3>1 DEF Request, SameRequest
    <3>3. Authenticates(r)
      BY <2>1, <2>4, <3>2 DEF Authenticates
    <3> QED BY <2>2, <3>3
  <2> QED BY <2>1, <2>3, <2>4
<1>3. CASE BadSignature(r)
  BY <1>3, <1>b, <1>d DEF BadSignature
<1>4. CASE check_bucket_in_path(r)
  <2> DEFINE bucket == IF req[r].name = Nil THEN Nil ELSE bkt[req[r].name]
             d1 == [req[r] EXCEPT !.pc = "pool", !.pool = req[r].secret.pool]
             d2 == [req[r] EXCEPT !.pc = "pool", !.bucket = bucket, !.pool = bucket.pool]
  <2>1. UNCHANGED <<now, uu, po, bkt, sec>> /\ req[r].pc = "bucket"
    BY <1>4 DEF check_bucket_in_path, AtPc
  <2>2. \/ /\ Refuse(r)
           /\ \/ req[r].name = Nil \/ bkt[req[r].name] = Nil
              \/ Probing(r)
              \/ req[r].secret # Nil /\ bkt[req[r].name].pool # req[r].secret.pool
              \/ ~Before(bkt[req[r].name].exp)
        \/ Probing(r) /\ Req_(r, d1)
        \/ /\ ~Probing(r) /\ bucket # Nil
           /\ req[r].secret # Nil => bucket.pool = req[r].secret.pool
           /\ Before(bucket.exp)
           /\ Req_(r, d2)
    BY <1>4 DEF check_bucket_in_path
  <2>3. CASE /\ Refuse(r)
             /\ \/ req[r].name = Nil \/ bkt[req[r].name] = Nil
                \/ Probing(r)
                \/ req[r].secret # Nil /\ bkt[req[r].name].pool # req[r].secret.pool
                \/ ~Before(bkt[req[r].name].exp)
    BY <1>c, <2>1, <2>3 DEF Refuses
  <2>4. CASE Probing(r) /\ Req_(r, d1)
    <3>1. req'[r] = d1
      BY <1>b, <2>4
    <3>2. req'[r].pc = "pool" /\ SameRequest(r) /\ req'[r].secret = req[r].secret
      BY <1>a, <3>1 DEF Request, SameRequest
    <3>3. Locates(r)
      BY <2>1, <2>4, <3>2 DEF Locates
    <3> QED BY <2>1, <3>3
  <2>5. CASE /\ ~Probing(r) /\ bucket # Nil
             /\ req[r].secret # Nil => bucket.pool = req[r].secret.pool
             /\ Before(bucket.exp)
             /\ Req_(r, d2)
    <3>1. req'[r] = d2
      BY <1>b, <2>5
    <3>2. /\ req'[r].pc = "pool" /\ SameRequest(r) /\ req'[r].secret = req[r].secret
          /\ req'[r].bucket = bucket /\ req'[r].pool = bucket.pool
      <4> HIDE DEF bucket
      <4> QED BY <1>a, <3>1 DEF Request, SameRequest
    <3>3. Locates(r)
      BY <2>1, <2>5, <3>2 DEF Locates
    <3> QED BY <2>1, <3>3
  <2> QED BY <2>2, <2>3, <2>4, <2>5
<1>5. CASE ensure_pool_existence(r)
  <2> DEFINE d == [req[r] EXCEPT !.pc = "owner", !.data = po[req[r].pool]]
  <2>1. UNCHANGED <<now, uu, po, bkt, sec>> /\ req[r].pc = "pool"
    BY <1>5 DEF ensure_pool_existence, AtPc
  <2>2. \/ Refuse(r) /\ (po[req[r].pool] = Nil \/ po[req[r].pool].inop)
        \/ po[req[r].pool] # Nil /\ ~po[req[r].pool].inop /\ Req_(r, d)
    BY <1>5 DEF ensure_pool_existence
  <2>3. CASE Refuse(r) /\ (po[req[r].pool] = Nil \/ po[req[r].pool].inop)
    BY <1>c, <2>1, <2>3 DEF Refuses
  <2>4. CASE po[req[r].pool] # Nil /\ ~po[req[r].pool].inop /\ Req_(r, d)
    <3>1. req'[r] = d
      BY <1>b, <2>4
    <3>2. /\ req'[r].pc = "owner" /\ SameRequest(r) /\ req'[r].secret = req[r].secret
          /\ req'[r].bucket = req[r].bucket /\ req'[r].pool = req[r].pool
          /\ req'[r].data = po[req[r].pool]
      BY <1>a, <3>1 DEF Request, SameRequest
    <3>3. Finds(r)
      BY <2>1, <2>4, <3>2 DEF Finds
    <3> QED BY <2>1, <3>3
  <2> QED BY <2>2, <2>3, <2>4
<1>6. CASE ensure_pool_state(r)
  <2> DEFINE d == [req[r] EXCEPT !.pc = "backend"]
             granted == Usable(req[r].data) /\ (Probing(r) \/ Permitted(req[r]))
  <2>1. UNCHANGED <<now, uu, po, bkt, sec>> /\ req[r].pc = "owner"
    BY <1>6 DEF ensure_pool_state, AtPc
  <2>2. (~granted /\ Refuse(r)) \/ (granted /\ Req_(r, d))
    BY <1>6 DEF ensure_pool_state
  <2>3. CASE ~granted /\ Refuse(r)
    BY <1>c, <2>1, <2>3 DEF Refuses
  <2>4. CASE granted /\ Req_(r, d)
    <3>1. req'[r] = d
      BY <1>b, <2>4
    <3>2. /\ req'[r].pc = "backend" /\ SameRequest(r) /\ req'[r].secret = req[r].secret
          /\ req'[r].bucket = req[r].bucket /\ req'[r].pool = req[r].pool
          /\ req'[r].data = req[r].data
      BY <1>a, <3>1 DEF Request, SameRequest
    <3>3. Grants(r)
      BY <2>1, <2>4, <3>2 DEF Grants
    <3> QED BY <2>1, <3>3
  <2> QED BY <2>2, <2>3, <2>4
<1>7. CASE forward_access(r) \/ start_backend(r) \/ mark_pool_inoperable(r)
  <2>1. [ReqIdle EXCEPT !.pc = "starting", !.pool = req[r].pool,
                        !.data = po[req[r].pool]].pc = "starting"
    BY DEF ReqIdle
  <2> QED BY <1>7, <1>b, <1>d, <2>1 DEF forward_access, start_backend, mark_pool_inoperable
<1> QED BY <1>1, <1>2, <1>3, <1>4, <1>5, <1>6, <1>7 DEF RequestStep

\* Each check adds what it has seen of its record, and the last one finds that
\* the others have seen theirs.
LEMMA SeenMoving ==
    ASSUME Typed, Next, NEW r \in Req, Seen(r), RequestStep(r)
    PROVE  Seen(r)'
<1>0. Typed' /\ req[r] \in Request /\ req'[r] \in Request
  BY TypedStep DEF Typed, TypeOK
<1>1. CASE req'[r].pc \in {"idle", "key", "starting", "refused"}
  BY <1>1 DEF Seen, KeySeen, BucketSeen, PoolSeen, GrantSeen
<1>2. CASE UNCHANGED <<now, uu, po, bkt, sec>> /\ Authenticates(r)
  <2>1. \A p \in Pool : KeyGood(req[r], p)' => <<"key", p>> \in seen'[r]
    BY <1>2, HistoryGrows DEF Authenticates
  <2>2. req'[r].secret # Nil => req'[r].secret.pool \in Pool
    BY <1>0 DEF Request, secret_record
  <2>3. KeySeen(req[r], seen[r])'
    BY <1>2, <2>1, <2>2 DEF KeySeen, Authenticates, SameRequest, KeyGood, Before
  <2> QED BY <1>2, <2>3 DEF Seen, BucketSeen, PoolSeen, GrantSeen, Authenticates
<1>3. CASE UNCHANGED <<now, uu, po, bkt, sec>> /\ Locates(r)
  <2>1. /\ seen[r] \subseteq seen'[r]
        /\ \A p \in Pool : BucketGood(req[r], p)' => <<"bucket", p>> \in seen'[r]
    BY <1>3, HistoryGrows DEF Locates
  <2>2. KeySeen(req[r], seen[r])'
    BY <1>3, <2>1 DEF Seen, KeySeen, Locates, SameRequest
  <2>3. req'[r].pool \in Pool
    BY <1>0, <1>3 DEF Typed, RequestArguments, Locates
  <2>4. BucketSeen(req[r], seen[r])'
    <3>1. SUFFICES ASSUME ~IsProbe(req[r])'
                   PROVE  /\ req'[r].bucket # Nil /\ req'[r].bucket.pool = req'[r].pool
                          /\ req'[r].secret # Nil => req'[r].secret.pool = req'[r].pool
                          /\ (req'[r].key = Nil => permits(req'[r].bucket.policy, req'[r].method))
                               => <<"bucket", req'[r].pool>> \in seen'[r]
      BY DEF BucketSeen
    <3>2. ~Probing(r)
      BY <1>3, <3>1 DEF Locates, IsProbe, Probing
    <3> QED BY <1>3, <2>1, <2>3, <3>2 DEF Locates, SameRequest, BucketGood, Before
  <2> QED BY <1>3, <2>2, <2>4 DEF Seen, PoolSeen, GrantSeen, Locates
<1>4. CASE UNCHANGED <<now, uu, po, bkt, sec>> /\ Finds(r)
  <2>1. /\ seen[r] \subseteq seen'[r]
        /\ \A p \in Pool : PoolGood(p)' => <<"pool", p>> \in seen'[r]
    BY <1>4, HistoryGrows DEF Finds
  <2>2. KeySeen(req[r], seen[r])' /\ BucketSeen(req[r], seen[r])'
    BY <1>4, <2>1 DEF Seen, KeySeen, BucketSeen, IsProbe, Finds, SameRequest
  <2>3. req'[r].pool \in Pool
    BY <1>0, <1>4 DEF Typed, RequestArguments, Finds
  <2>4. PoolSeen(req[r], seen[r])'
    BY <1>4, <2>1, <2>3 DEF PoolSeen, Finds, PoolGood, Before
  <2> QED BY <1>4, <2>2, <2>4 DEF Seen, GrantSeen, Finds
<1>5. CASE UNCHANGED <<now, uu, po, bkt, sec>> /\ Grants(r)
  <2>1. /\ seen[r] \subseteq seen'[r]
        /\ \A u \in User : check_user_is_active(u)' => <<"owner", u>> \in seen'[r]
    BY <1>5, HistoryGrows DEF Grants
  <2>2. KeySeen(req[r], seen[r])' /\ BucketSeen(req[r], seen[r])' /\ PoolSeen(req[r], seen[r])'
    BY <1>5, <2>1 DEF Seen, KeySeen, BucketSeen, PoolSeen, IsProbe, Grants, SameRequest, Before
  <2>3. req'[r].pool \in Pool /\ req'[r].data \in pool_record /\ req'[r].data.owner \in User
    BY <1>0, <1>5 DEF Typed, RequestArguments, Grants, pool_record
  <2>4. GrantSeen(req[r], seen[r])'
    <3>1. SUFFICES ASSUME ~IsProbe(req[r])'
                   PROVE  /\ {"key", "bucket", "pool"} \X {req'[r].pool} \subseteq seen'[r]
                          /\ <<"owner", req'[r].data.owner>> \in seen'[r]
      BY DEF GrantSeen
    <3>2. ~Probing(r) /\ Permitted(req[r]) /\ Usable(req[r].data) /\ ~IsProbe(req[r])
      BY <1>5, <3>1 DEF Grants, IsProbe, Probing
    <3>3. <<"owner", req'[r].data.owner>> \in seen'[r]
      BY <1>5, <2>1, <2>3, <3>2 DEF Grants, Usable, check_user_is_active, Before
    <3>4. <<"pool", req'[r].pool>> \in seen'[r]
      BY <1>5, <2>1, <3>2 DEF Grants, Usable, Seen, PoolSeen
    <3>5. <<"bucket", req'[r].pool>> \in seen'[r]
      BY <1>5, <2>1, <3>2 DEF Grants, Permitted, Seen, KeySeen, BucketSeen
    <3>6. <<"key", req'[r].pool>> \in seen'[r]
      BY <1>5, <2>1, <2>3, <3>2 DEF Grants, Permitted, Seen, KeySeen, BucketSeen
    <3> QED BY <3>3, <3>4, <3>5, <3>6
  <2> QED BY <2>2, <2>4 DEF Seen
<1>6. CASE Refuses(r)
  BY <1>1, <1>6 DEF Refuses
<1> QED BY <1>1, <1>2, <1>3, <1>4, <1>5, <1>6, RequestMoves

---------------------------------------------------------------------------
(* What a request decides while nothing changes.                           *)

\* A request that just came, or has ended, has read nothing.
LEMMA ReadNothing ==
    ASSUME NEW r \in Req, req[r].pc \in {"idle", "key"}
    PROVE  Read(r)
BY DEF Read, KeyRead, BucketRead, PoolRead, Decided

\* While the tables and the clock stay, what was read stays true.
LEMMA ReadWaiting ==
    ASSUME NEW r \in Req, Read(r), req'[r] = req[r], UNCHANGED <<now, uu, po, bkt, sec>>
    PROVE  Read(r)'
<1>1. KeyRead(req[r])' /\ BucketRead(req[r])' /\ PoolRead(req[r])'
  BY DEF Read, KeyRead, BucketRead, PoolRead, IsProbe, Before
<1>2. Allowed(req[r])' <=> Allowed(req[r])
  BY DEF Allowed, KeyGood, BucketGood, PoolGood, check_user_is_active, Before
<1>3. Decided(req[r])'
  BY <1>2 DEF Read, Decided, IsProbe
<1> QED BY <1>1, <1>3 DEF Read

\* The check that refuses a request finds a condition that does not hold, and
\* the one that grants it finds that all do.
LEMMA ReadMoving ==
    ASSUME Typed, Typed', NEW r \in Req, Read(r), UNCHANGED <<now, uu, po, bkt, sec>>,
           Authenticates(r) \/ Locates(r) \/ Finds(r) \/ Grants(r) \/ Refuses(r)
    PROVE  Read(r)'
<1>1. CASE Authenticates(r)
  BY <1>1 DEF Authenticates, SameRequest, Read, KeyRead, BucketRead, PoolRead, Decided, Before
<1>2. CASE Locates(r)
  <2>1. KeyRead(req[r])'
    BY <1>2 DEF Locates, SameRequest, Read, KeyRead, Before
  <2>2. BucketRead(req[r])'
    BY <1>2 DEF Locates, SameRequest, BucketRead, IsProbe, Probing, Before
  <2> QED BY <1>2, <2>1, <2>2 DEF Locates, Read, PoolRead, Decided
<1>3. CASE Finds(r)
  <2>1. KeyRead(req[r])'
    BY <1>3 DEF Finds, SameRequest, Read, KeyRead, Before
  <2>2. BucketRead(req[r])'
    BY <1>3 DEF Finds, SameRequest, Read, BucketRead, IsProbe, Before
  <2>3. PoolRead(req[r])'
    BY <1>3 DEF Finds, PoolRead
  <2> QED BY <1>3, <2>1, <2>2, <2>3 DEF Finds, Read, Decided
<1>4. CASE Grants(r)
  <2>1. KeyRead(req[r])'
    BY <1>4 DEF Grants, SameRequest, Read, KeyRead, Before
  <2>2. BucketRead(req[r])'
    BY <1>4 DEF Grants, SameRequest, Read, BucketRead, IsProbe, Before
  <2>3. PoolRead(req[r])'
    BY <1>4 DEF Grants, Read, PoolRead
  <2>4. Decided(req[r])'
    <3>1. SUFFICES ASSUME ~IsProbe(req[r])'
                   PROVE  Allowed(req[r])'
      BY <1>4 DEF Decided, Grants
    <3>2. ~Probing(r) /\ ~IsProbe(req[r])
      BY <1>4, <3>1 DEF Grants, IsProbe, Probing
    <3>3. req[r].pool \in Pool /\ req[r].data = po[req[r].pool] /\ po[req[r].pool] # Nil
          /\ ~po[req[r].pool].inop
      <4>1. req[r].data \in pool_record /\ req[r].pool \in Pool
        BY <1>4 DEF Grants, Typed, RequestArguments
      <4> QED BY <1>4, <4>1, NilApart DEF Grants, Read, PoolRead
    <3>4. PoolGood(req[r].pool)' /\ check_user_is_active(po[req[r].pool].owner)'
      BY <1>4, <3>3 DEF Grants, Usable, PoolGood, check_user_is_active, Before
    <3>5. KeyGood(req[r], req[r].pool)'
      BY <1>4, <3>2 DEF Grants, SameRequest, Permitted, Read, KeyRead, BucketRead, KeyGood, Before
    <3>6. BucketGood(req[r], req[r].pool)'
      BY <1>4, <3>2
         DEF Grants, SameRequest, Permitted, Read, KeyRead, BucketRead, BucketGood, Before
    <3> QED BY <1>4, <3>3, <3>4, <3>5, <3>6 DEF Allowed, Grants
  <2> QED BY <2>1, <2>2, <2>3, <2>4 DEF Read
<1>5. CASE Refuses(r)
  <2>1. SUFFICES ASSUME NEW p \in Pool, KeyGood(req[r], p)', BucketGood(req[r], p)',
                        PoolGood(p)', check_user_is_active(po[p].owner)'
                 PROVE  FALSE
    BY <1>5 DEF Refuses, Read, KeyRead, BucketRead, PoolRead, Decided, Allowed
  <2>2. /\ req[r].key # Nil => /\ sec[req[r].key] # Nil /\ sec[req[r].key].pool = p
                               /\ Before(sec[req[r].key].exp)
                               /\ permits(sec[req[r].key].policy, req[r].method)
        /\ req[r].name # Nil /\ bkt[req[r].name] # Nil /\ bkt[req[r].name].pool = p
        /\ Before(bkt[req[r].name].exp)
        /\ req[r].key = Nil => permits(bkt[req[r].name].policy, req[r].method)
    BY <1>5, <2>1 DEF Refuses, SameRequest, KeyGood, BucketGood, Before
  <2>3. req[r].pc \in {"bucket", "pool", "owner"} => ~Probing(r) /\ ~IsProbe(req[r])
    BY <2>2 DEF Read, KeyRead, Probing, IsProbe, permits
  <2>4. req[r].pc \in {"pool", "owner"} => req[r].pool = p /\ req[r].bucket = bkt[req[r].name]
    BY <2>2, <2>3 DEF Read, BucketRead
  <2>5. CASE req[r].pc = "key"
    BY <1>5, <2>2, <2>5 DEF Refuses
  <2>6. CASE req[r].pc = "bucket"
    BY <1>5, <2>2, <2>3, <2>6 DEF Refuses, Read, KeyRead
  <2>7. CASE req[r].pc = "pool"
    BY <1>5, <2>1, <2>4, <2>7 DEF Refuses, PoolGood
  <2>8. CASE req[r].pc = "owner"
    <3>1. Usable(req[r].data)
      BY <2>1, <2>4, <2>8 DEF Read, PoolRead, Usable, PoolGood, check_user_is_active, Before
    <3>2. Permitted(req[r])
      BY <2>2, <2>4, <2>8 DEF Read, KeyRead, Permitted
    <3> QED BY <1>5, <2>8, <3>1, <3>2 DEF Refuses
  <2> QED BY <1>5, <2>5, <2>6, <2>7, <2>8 DEF Refuses
<1> QED BY <1>1, <1>2, <1>3, <1>4, <1>5

---------------------------------------------------------------------------
(* The invariant, and what it implies.                                     *)

\* The invariant holds in the beginning.
LEMMA InvInit ==
    ASSUME Init
    PROVE  IInv
<1>1. Typed
  BY TypedInit
<1>2. PICK t \in Start : uu = t.uu /\ um = t.um /\ po = t.po /\ bkt = t.bkt /\ sec = t.sec
  BY DEF Init, AccountsInit
<1>3. adm.pc = "idle" /\ \A s \in Ses : ses[s].pc = "idle"
  BY SessionIdle, AdminIdle DEF Init, AccountsInit
<1>4. ClaimInv
  BY <1>2, <1>3, StartAssumption
     DEF ClaimInv, EphemeralUnclaimed, ClaimInHand, ClaimsAgree, NoClaim, Work
<1>5. InTime
  BY <1>2, <1>3, StartAssumption DEF InTime, PoolInTime, RecordInTime
<1>6. \A r \in Req : req[r].pc = "idle"
  BY DEF Init, ReqIdle
<1>7. SeenInv
  BY <1>6 DEF SeenInv, Seen, KeySeen, BucketSeen, PoolSeen, GrantSeen
<1>8. ReadInv
  BY <1>6, ReadNothing DEF ReadInv
<1> QED BY <1>1, <1>4, <1>5, <1>7, <1>8 DEF IInv

\* Every step keeps the invariant.
LEMMA InvStep ==
    ASSUME IInv, Next
    PROVE  IInv'
<1> USE DEF IInv
<1>1. Typed'
  BY TypedStep
<1>2. ClaimInv' /\ InTime'
  <2>1. CASE \E r \in Req : RequestStep(r)
    <3>1. PICK r \in Req : RequestStep(r)
      BY <2>1
    <3>2. UNCHANGED <<uu, um, ses, adm>>
      BY <3>1 DEF RequestStep, Arrive, table, check_authenticated, BadSignature,
         check_bucket_in_path, ensure_pool_existence, ensure_pool_state, forward_access,
         start_backend, mark_pool_inoperable, AtPc
    <3> QED BY <3>1, <3>2, ClaimKept, InTimeRequest
  <2>2. CASE Tick
    <3>1. UNCHANGED <<uu, um, po, ses, adm, late>>
      BY <2>2 DEF Tick, table
    <3>2. OwnersStay
      BY <3>1 DEF OwnersStay
    <3> QED BY <3>1, <3>2, ClaimKept, InTimeKept
  <2>3. CASE AdminStep
    BY <2>3, ClaimAdmin, InTimeAdmin
  <2>4. CASE \E s \in Ses : SessionStep(s)
    BY <2>4, ClaimSession, InTimeSession
  <2> QED BY <2>1, <2>2, <2>3, <2>4 DEF Next
<1>3. SeenInv'
  BY OneMoves, SeenWaiting, SeenMoving DEF SeenInv
<1>4. ReadInv'
  <2>1. SUFFICES ASSUME NEW r \in Req, quiet'[r]
                 PROVE  Read(r)'
    BY DEF ReadInv
  <2>2. CASE req'[r].pc \in {"idle", "key", "starting"}
    BY <2>2 DEF Read, KeyRead, BucketRead, PoolRead, Decided
  <2>3. CASE req'[r].pc \notin {"idle", "key", "starting"}
    <3>1. quiet[r] /\ UNCHANGED <<now, uu, po, bkt, sec>>
      BY <2>1, <2>3 DEF Next, Watch, table
    <3>2. Read(r)
      BY <3>1 DEF ReadInv
    <3>3. CASE req'[r] = req[r]
      BY <3>1, <3>2, <3>3, ReadWaiting
    <3>4. CASE RequestStep(r)
      BY <1>1, <2>3, <3>1, <3>2, <3>4, RequestMoves, ReadMoving
    <3> QED BY <3>3, <3>4, OneMoves
  <2> QED BY <2>2, <2>3
<1> QED BY <1>1, <1>2, <1>3, <1>4

\* Nothing changes, and the invariant stays.
LEMMA InvStutter ==
    ASSUME IInv, UNCHANGED vars
    PROVE  IInv'
<1> USE DEF IInv, vars
<1>1. Typed'
  BY TypedStutter
<1>2. ClaimInv' /\ InTime'
  BY ClaimKept DEF InTime, PoolInTime, RecordInTime
<1>3. SeenInv'
  BY DEF SeenInv, Seen, KeySeen, BucketSeen, PoolSeen, GrantSeen, IsProbe, Before
<1>4. ReadInv'
  BY ReadWaiting DEF ReadInv
<1> QED BY <1>1, <1>2, <1>3, <1>4

\* IInv is an invariant of the sessions, the administrator and Multiplexer.
THEOREM Invariance == Spec => []IInv
<1>1. IInv /\ [Next]_vars => IInv'
  BY InvStep, InvStutter
<1> QED BY <1>1, InvInit, PTL DEF Spec

\* Every variable keeps its type.
THEOREM TypeCorrect == Spec => []TypeOK
<1>1. IInv => TypeOK
  BY DEF IInv, Typed
<1> QED BY <1>1, Invariance, PTL

\* The claim in the record of a user is that user's in um: (add_user(),
\* deregister_user()).
THEOREM ClaimsUnique == Spec => []ClaimsAgree
<1>1. IInv => ClaimsAgree
  BY DEF IInv, ClaimInv
<1> QED BY <1>1, Invariance, PTL

\* deregister_user() leaves behind only pools that came too late: made by a
\* request admitted before, or written back by mark_pool_inoperable().
THEOREM OrphansLate == Spec => []OrphanPoolIsLate
<1>1. IInv => OrphanPoolIsLate
  BY DEF IInv, InTime, PoolInTime, OrphanPoolIsLate
<1> QED BY <1>1, Invariance, PTL

\* make_checker_proxy() grants only what each condition has allowed since the
\* request came.
THEOREM GrantsSound == Spec => []GrantedWasAllowed
<1>1. IInv => GrantedWasAllowed
  BY DEF IInv, SeenInv, Seen, GrantSeen, GrantedWasAllowed, IsProbe, Probing
<1> QED BY <1>1, Invariance, PTL

\* While no record changes, the checks decide what the conditions say at once.
THEOREM DecisionExact == Spec => []QuietDecision
<1>1. IInv => QuietDecision
  BY DEF IInv, ReadInv, Read, Decided, QuietDecision, IsProbe, Probing
<1> QED BY <1>1, Invariance, PTL
============================================================================
