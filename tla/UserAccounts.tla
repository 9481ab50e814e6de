---------------------------- MODULE UserAccounts ----------------------------
(***************************************************************************)
(* The accounts of users: the records uu: and um: in the keyval-db, the    *)
(* sessions of Registrar that check, enroll and extend them, and the       *)
(* commands of the admin tool that load, stop and delete users and change  *)
(* pools.  The steps are the operations on the keyval-db, which nothing    *)
(* makes atomic between the read of a record and its write.                *)
(*                                                                         *)
(* One administrator works at a time.  What an admitted request does to a  *)
(* pool and its members, and a deregister_pool(), are one step each;       *)
(* PoolRegistry takes them apart.  Nil is also the empty claim.            *)
(***************************************************************************)
EXTENDS Naturals, FiniteSets

CONSTANTS
    User, Claim, Pool, Bucket, Key,
    Ses,             \* requests that Registrar serves at a time
    Account,         \* users with a local account
    Enrollable,      \* ... with an allowed number and a group to select
    Configurations,  \* map: claims are mapped by records; allow: user_approval
    Start,           \* the tables in the beginning
    Days,            \* user_expiration_days
    MaxTime,         \* bound: the clock stops here
    MaxBegun,        \* bound: requests to either service and commands of the
                     \* administrator, taken together
    Nil

\* An expiration that the clock never reaches: 10 years, and the dates of
\* pools and buckets.
Far == MaxTime + Days + 1

Date == 0 .. Far
Policy == {"RW", "RO", "WO"}

user_record == [claim : Claim \cup {Nil}, enabled : BOOLEAN, eph : BOOLEAN, exp : Date]
pool_record == [owner : User, enabled : BOOLEAN, inop : BOOLEAN, exp : Date]
bucket_record == [pool : Pool, policy : Policy \cup {"none"}, exp : Date]
secret_record == [pool : Pool, policy : Policy \cup {"internal"}, exp : Date]

Tables == [uu : [User -> user_record \cup {Nil}],
           um : [Claim -> User \cup {Nil}],
           po : [Pool -> pool_record \cup {Nil}],
           bkt : [Bucket -> bucket_record \cup {Nil}],
           sec : [Key -> secret_record \cup {Nil}]]

ASSUME BoundAssumption ==
    /\ Days \in Nat \ {0} /\ MaxTime \in Nat /\ MaxBegun \in Nat
    /\ Enrollable \subseteq Account /\ Account \subseteq User
    /\ Configurations \subseteq [map : BOOLEAN, allow : BOOLEAN]

\* Claims are of the users that have them, new users have none, and pools
\* have owners.
ASSUME StartAssumption ==
    /\ Start \subseteq Tables
    /\ \A t \in Start :
          /\ \A u \in {x \in User : t.uu[x] # Nil} :
                /\ t.uu[u].claim # Nil => t.um[t.uu[u].claim] = u
                /\ t.uu[u].eph => t.uu[u].claim = Nil
          /\ \A p \in {x \in Pool : t.po[x] # Nil} : t.uu[t.po[p].owner] # Nil

\* Nil is none of the values it stands in for.
ASSUME NilAssumption ==
    Nil \notin User \cup Claim \cup Pool \cup Bucket \cup Key \cup BOOLEAN
               \cup user_record \cup pool_record \cup bucket_record \cup secret_record

VARIABLES
    conf,      \* the configuration, read when Registrar starts
    now,       \* the clock
    uu, um,    \* users, and the users of claims
    po, bkt, sec,  \* pools, buckets and access keys
    used,      \* the generated names of pools and keys given out
    ses,       \* what each request in Registrar is doing
    adm,       \* what the administrator is doing
    begun,     \* how many requests and commands have begun
    late       \* history: pools that were made, or written back by a failing
               \* start of a backend, when the owner was being, or had been,
               \* deregistered

table == <<uu, um, po, bkt, sec>>
accounts == <<conf, now, uu, um, po, bkt, sec, used, ses, adm, begun, late>>

Session == [pc : {"idle", "user", "enroll", "extend", "in"}, uid : User \cup {Nil},
            first : BOOLEAN, u : user_record \cup {Nil}]

SesIdle == [pc |-> "idle", uid |-> Nil, first |-> FALSE, u |-> Nil]

Command == {"ADD", "MODIFY", "DELETE", "ENABLE", "DISABLE", "stop-user", "time-user",
            "stop-pool", "time-pool", "kill-pool", "kill-bucket", "time-bucket",
            "time-secret"}

Admin == [pc : {"idle", "pools", "dereg", "del", "unclaim", "claim", "setuser",
                "set"},
          op : Command \cup {Nil}, key : User \cup Pool \cup Bucket \cup Key \cup {Nil},
          rec : user_record \cup pool_record \cup bucket_record \cup secret_record \cup {Nil},
          old : Claim \cup {Nil}, todo : SUBSET Pool]

AdmIdle == [pc |-> "idle", op |-> Nil, key |-> Nil, rec |-> Nil, old |-> Nil, todo |-> {}]

---------------------------------------------------------------------------
(* Tables.                                                                 *)

Before(exp) == now < exp

PoolsOf(uid) == {p \in Pool : po[p] # Nil /\ po[p].owner = uid}

\* The user has no record, or is being deregistered and the pools are listed.
Leaving(uid) ==
    \/ uu[uid] = Nil
    \/ adm.key = uid /\ adm.pc \in {"dereg", "del"}

\* deregister_pool() of a pool whose owner has a record: everything goes.
DropPool(p) ==
    /\ po' = [po EXCEPT ![p] = Nil]
    /\ bkt' = [b \in Bucket |-> IF bkt[b] # Nil /\ bkt[b].pool = p THEN Nil ELSE bkt[b]]
    /\ sec' = [k \in Key |-> IF sec[k] # Nil /\ sec[k].pool = p THEN Nil ELSE sec[k]]

Count == begun < MaxBegun /\ begun' = begun + 1

Tick ==
    /\ now < MaxTime
    /\ now' = now + 1
    /\ UNCHANGED <<conf, table, used, ses, adm, begun, late>>

---------------------------------------------------------------------------
(* Registrar: a request until its user is admitted.                        *)

Ses_(s, d) == ses' = [ses EXCEPT ![s] = d]

\* A request comes in with an X-Remote-User, which is a uid or a claim; first
\* tells a request for the user-info.
Begin(s) ==
    /\ ses[s].pc = "idle"
    /\ Count
    /\ \E x_remote_user \in (IF conf.map THEN Claim ELSE User), first \in BOOLEAN :
          LET uid == IF conf.map THEN um[x_remote_user] ELSE x_remote_user
          IN  Ses_(s, IF uid = Nil THEN SesIdle
                      ELSE [pc |-> "user", uid |-> uid, first |-> first, u |-> Nil])
    /\ UNCHANGED <<conf, now, table, used, adm, late>>

\* enroll_new_user() has no way to make a claim for the user.
Enrolls(s) == conf.allow /\ ses[s].first /\ ~conf.map /\ ses[s].uid \in Enrollable

\* The record is looked at once, here.
check_user_account(s) ==
    /\ ses[s].pc = "user"
    /\ LET u1 == uu[ses[s].uid]
       IN  \/ /\ u1 = Nil
              /\ Ses_(s, IF Enrolls(s) THEN [ses[s] EXCEPT !.pc = "enroll"] ELSE SesIdle)
           \/ /\ u1 # Nil
              /\ \/ ses[s].uid \notin Account
                 \/ ~u1.enabled
                 \/ ~u1.eph /\ ~Before(u1.exp)
              /\ Ses_(s, SesIdle)
           \/ /\ u1 # Nil
              /\ ses[s].uid \in Account /\ u1.enabled /\ (u1.eph \/ Before(u1.exp))
              /\ Ses_(s, [ses[s] EXCEPT !.pc = IF u1.eph THEN "extend" ELSE "in", !.u = u1])
    /\ UNCHANGED <<conf, now, table, used, adm, begun, late>>

enroll_new_user(s) ==
    /\ ses[s].pc = "enroll"
    /\ uu' = [uu EXCEPT ![ses[s].uid] =
                [claim |-> Nil, enabled |-> TRUE, eph |-> TRUE, exp |-> now + Days]]
    /\ Ses_(s, [ses[s] EXCEPT !.pc = "in", !.u = uu'[ses[s].uid]])
    /\ UNCHANGED <<conf, now, um, po, bkt, sec, used, adm, begun, late>>

\* The record that was read is written back.
extend_user_expiration_time(s) ==
    /\ ses[s].pc = "extend"
    /\ uu' = IF ses[s].u.exp < now + Days
             THEN [uu EXCEPT ![ses[s].uid] = [ses[s].u EXCEPT !.exp = now + Days]]
             ELSE uu
    /\ Ses_(s, [ses[s] EXCEPT !.pc = "in"])
    /\ UNCHANGED <<conf, now, um, po, bkt, sec, used, adm, begun, late>>

---------------------------------------------------------------------------
(* Registrar: what the request of an admitted user does.                   *)

\* The pool of the path exists and is the user's.
Owns(s, p) == po[p] # Nil /\ po[p].owner = ses[s].uid

\* Mutant: the X-Remote-User in the place of the uid it is mapped to.
make_pool_Variant(s) ==
    /\ ~ses[s].first
    /\ \E p \in Pool \ used,
          x_remote_user \in (IF conf.map THEN {c \in Claim : um[c] = ses[s].uid}
                            ELSE {ses[s].uid}) :
          /\ po' = [po EXCEPT ![p] = [owner |-> x_remote_user, enabled |-> TRUE,
                                      inop |-> FALSE, exp |-> Far]]
          /\ used' = used \cup {p}
          /\ late' = IF Leaving(ses[s].uid) THEN late \cup {p} ELSE late
    /\ UNCHANGED <<bkt, sec>>

make_pool(s) ==
    /\ ~ses[s].first
    /\ \E p \in Pool \ used :
          /\ po' = [po EXCEPT ![p] = [owner |-> ses[s].uid, enabled |-> TRUE,
                                      inop |-> FALSE, exp |-> Far]]
          /\ used' = used \cup {p}
          /\ late' = IF Leaving(ses[s].uid) THEN late \cup {p} ELSE late
    /\ UNCHANGED <<bkt, sec>>

\* gather_pool_prop() dereferences the record of the owner: without one the
\* request ends in a panic, and the pool stays.
delete_pool(s) ==
    /\ ~ses[s].first
    /\ \E p \in Pool : /\ Owns(s, p)
                       /\ IF uu[po[p].owner] # Nil THEN DropPool(p)
                          ELSE UNCHANGED <<po, bkt, sec>>
    /\ UNCHANGED <<used, late>>

make_bucket(s) ==
    /\ ~ses[s].first
    /\ \E p \in Pool, b \in Bucket, policy \in Policy \cup {"none"} :
          /\ Owns(s, p) /\ bkt[b] = Nil
          /\ bkt' = [bkt EXCEPT ![b] = [pool |-> p, policy |-> policy, exp |-> Far]]
    /\ UNCHANGED <<po, sec, used, late>>

delete_bucket(s) ==
    /\ ~ses[s].first
    /\ \E b \in Bucket : /\ bkt[b] # Nil /\ Owns(s, bkt[b].pool)
                         /\ bkt' = [bkt EXCEPT ![b] = Nil]
    /\ UNCHANGED <<po, sec, used, late>>

\* The user chooses the expiration, which may be past already: times of the
\* last day are accepted.
make_secret(s) ==
    /\ ~ses[s].first
    /\ \E p \in Pool, k \in Key \ used, policy \in Policy, exp \in {now, now + 1, Far} :
          /\ Owns(s, p)
          /\ sec' = [sec EXCEPT ![k] = [pool |-> p, policy |-> policy, exp |-> exp]]
          /\ used' = used \cup {k}
    /\ UNCHANGED <<po, bkt, late>>

delete_secret(s) ==
    /\ ~ses[s].first
    /\ \E k \in Key : /\ sec[k] # Nil /\ Owns(s, sec[k].pool)
                      /\ sec' = [sec EXCEPT ![k] = Nil]
    /\ UNCHANGED <<po, bkt, used, late>>

\* Showing the user-info or pools, or a refusal by the tokens or the arguments.
Reply == UNCHANGED <<po, bkt, sec, used, late>>

Perform(s) ==
    /\ ses[s].pc = "in"
    /\ \/ make_pool(s) \/ delete_pool(s)
       \/ make_bucket(s) \/ delete_bucket(s)
       \/ make_secret(s) \/ delete_secret(s)
       \/ Reply
    /\ Ses_(s, SesIdle)
    /\ UNCHANGED <<conf, now, uu, um, adm, begun>>

SessionStep(s) ==
    \/ Begin(s) \/ check_user_account(s)
    \/ enroll_new_user(s) \/ extend_user_expiration_time(s)
    \/ Perform(s)

---------------------------------------------------------------------------
(* The admin tool.                                                         *)

Issue(d) ==
    /\ adm.pc = "idle"
    /\ Count
    /\ adm' = d
    /\ UNCHANGED <<conf, now, um, used, ses, late>>

Goto(pc) == adm' = [adm EXCEPT !.pc = pc]

\* load-user: an ADD or a MODIFY row.
AddOrModify ==
    /\ \E op \in {"ADD", "MODIFY"}, uid \in User, claim \in Claim \cup {Nil} :
          Issue([AdmIdle EXCEPT
                    !.pc = IF op = "ADD" THEN "pools" ELSE "claim", !.op = op, !.key = uid,
                    !.rec = [claim |-> claim, enabled |-> TRUE, eph |-> FALSE, exp |-> Far]])
    /\ UNCHANGED <<uu, po, bkt, sec>>

\* load-user: a uid in a DELETE, ENABLE or DISABLE row.  add_user() asserts that
\* there are groups, and an ephemeral record has none: the tool ends.
DeleteOrEnable ==
    /\ \E op \in {"DELETE", "ENABLE", "DISABLE"}, uid \in User :
          /\ uu[uid] # Nil
          /\ Issue(IF op = "DELETE" THEN [AdmIdle EXCEPT !.pc = "pools", !.op = op, !.key = uid]
                   ELSE IF uu[uid].eph THEN AdmIdle
                   ELSE [AdmIdle EXCEPT !.pc = "claim", !.op = op, !.key = uid,
                                        !.rec = [uu[uid] EXCEPT !.enabled = (op = "ENABLE")]])
    /\ UNCHANGED <<uu, po, bkt, sec>>

\* stop-user, stop-pool and time-expiration read a record and change it.
ReadRecord ==
    /\ \/ \E uid \in User, v \in BOOLEAN :
             uu[uid] # Nil /\ Issue([AdmIdle EXCEPT !.pc = "set", !.op = "stop-user",
                                     !.key = uid, !.rec = [uu[uid] EXCEPT !.enabled = v]])
       \/ \E uid \in User, d \in {0, Far} :
             uu[uid] # Nil /\ Issue([AdmIdle EXCEPT !.pc = "set", !.op = "time-user",
                                     !.key = uid, !.rec = [uu[uid] EXCEPT !.exp = d]])
       \/ \E p \in Pool, v \in BOOLEAN :
             po[p] # Nil /\ Issue([AdmIdle EXCEPT !.pc = "set", !.op = "stop-pool",
                                   !.key = p, !.rec = [po[p] EXCEPT !.enabled = v]])
       \/ \E p \in Pool, d \in {0, Far} :
             po[p] # Nil /\ Issue([AdmIdle EXCEPT !.pc = "set", !.op = "time-pool",
                                   !.key = p, !.rec = [po[p] EXCEPT !.exp = d]])
       \/ \E b \in Bucket, d \in {0, Far} :
             bkt[b] # Nil /\ Issue([AdmIdle EXCEPT !.pc = "set", !.op = "time-bucket",
                                    !.key = b, !.rec = [bkt[b] EXCEPT !.exp = d]])
       \/ \E k \in Key, d \in {0, Far} :
             sec[k] # Nil /\ Issue([AdmIdle EXCEPT !.pc = "set", !.op = "time-secret",
                                    !.key = k, !.rec = [sec[k] EXCEPT !.exp = d]])
    /\ UNCHANGED <<uu, po, bkt, sec>>

\* ... and write the record back, whatever has become of it.
WriteRecord ==
    /\ adm.pc = "set"
    /\ uu' = IF adm.op \in {"stop-user", "time-user"} THEN [uu EXCEPT ![adm.key] = adm.rec] ELSE uu
    /\ po' = IF adm.op \in {"stop-pool", "time-pool"} THEN [po EXCEPT ![adm.key] = adm.rec] ELSE po
    /\ bkt' = IF adm.op = "time-bucket" THEN [bkt EXCEPT ![adm.key] = adm.rec] ELSE bkt
    /\ sec' = IF adm.op = "time-secret" THEN [sec EXCEPT ![adm.key] = adm.rec] ELSE sec
    /\ adm' = AdmIdle
    /\ UNCHANGED <<conf, now, um, used, ses, begun, late>>

\* kill-pool, which ends in the panic of gather_pool_prop() without an owner.
KillPool ==
    /\ Issue(AdmIdle)
    /\ \E p \in Pool : /\ po[p] # Nil
                       /\ IF uu[po[p].owner] # Nil THEN DropPool(p)
                          ELSE UNCHANGED <<po, bkt, sec>>
    /\ UNCHANGED uu

KillBucket ==
    /\ Issue(AdmIdle)
    /\ \E b \in Bucket : bkt[b] # Nil /\ bkt' = [bkt EXCEPT ![b] = Nil]
    /\ UNCHANGED <<uu, po, sec>>

\* Mutant: pools that are stopped are not listed.
ListPools_Variant ==
    /\ adm.pc = "pools"
    /\ adm' = [adm EXCEPT !.pc = "dereg",
                          !.todo = {p \in PoolsOf(adm.key) : po[p].enabled}]
    /\ UNCHANGED <<conf, now, table, used, ses, begun, late>>

\* deregister_user() begins with the list of the pools.
ListPools ==
    /\ adm.pc = "pools"
    /\ adm' = [adm EXCEPT !.pc = "dereg", !.todo = PoolsOf(adm.key)]
    /\ UNCHANGED <<conf, now, table, used, ses, begun, late>>

\* One of the pools: it is gone, or it goes, or nobody owns it and the tool
\* ends in the panic of gather_pool_prop().
DeregisterOne ==
    /\ adm.pc = "dereg"
    /\ \E p \in adm.todo :
          \/ /\ po[p] = Nil
             /\ adm' = [adm EXCEPT !.todo = @ \ {p}]
             /\ UNCHANGED <<po, bkt, sec>>
          \/ /\ po[p] # Nil /\ uu[po[p].owner] # Nil
             /\ DropPool(p)
             /\ adm' = [adm EXCEPT !.todo = @ \ {p}]
          \/ /\ po[p] # Nil /\ uu[po[p].owner] = Nil
             /\ adm' = AdmIdle
             /\ UNCHANGED <<po, bkt, sec>>
    /\ UNCHANGED <<conf, now, uu, um, used, ses, begun, late>>

\* No other process writes um:, so that the scan is one step.
clear_user_claim ==
    /\ adm.pc = "dereg" /\ adm.todo = {}
    /\ um' = [c \in Claim |-> IF um[c] = adm.key THEN Nil ELSE um[c]]
    /\ Goto("del")
    /\ UNCHANGED <<conf, now, uu, po, bkt, sec, used, ses, begun, late>>

delete_user ==
    /\ adm.pc = "del"
    /\ uu' = [uu EXCEPT ![adm.key] = Nil]
    /\ adm' = [adm EXCEPT !.pc = "unclaim",
                          !.old = IF uu[adm.key] = Nil THEN Nil ELSE uu[adm.key].claim]
    /\ UNCHANGED <<conf, now, um, po, bkt, sec, used, ses, begun, late>>

\* The claim of the deleted record is deleted by its name.
delete_user_claim ==
    /\ adm.pc = "unclaim"
    /\ um' = IF adm.old = Nil THEN um
             ELSE [c \in Claim |-> IF c = adm.old \/ um[c] = adm.key THEN Nil ELSE um[c]]
    /\ adm' = IF adm.op = "ADD" THEN [adm EXCEPT !.pc = "claim", !.old = Nil] ELSE AdmIdle
    /\ UNCHANGED <<conf, now, uu, po, bkt, sec, used, ses, begun, late>>

\* Mutant: the claim is set without a look at its user.
AddClaim_Variant ==
    /\ adm.pc = "claim"
    /\ um' = IF adm.rec.claim = Nil THEN um ELSE [um EXCEPT ![adm.rec.claim] = adm.key]
    /\ Goto("setuser")
    /\ UNCHANGED <<conf, now, uu, po, bkt, sec, used, ses, begun, late>>

\* The first half of add_user(): a claim of another user is an error, which
\* ends the tool, also when an ADD row has deregistered the user before.
AddClaim ==
    /\ adm.pc = "claim"
    /\ \/ /\ adm.rec.claim = Nil
          /\ Goto("setuser")
          /\ UNCHANGED um
       \/ /\ adm.rec.claim # Nil /\ um[adm.rec.claim] \notin {Nil, adm.key}
          /\ adm' = AdmIdle
          /\ UNCHANGED um
       \/ /\ adm.rec.claim # Nil /\ um[adm.rec.claim] \in {Nil, adm.key}
          /\ um' = [um EXCEPT ![adm.rec.claim] = adm.key]
          /\ Goto("setuser")
    /\ UNCHANGED <<conf, now, uu, po, bkt, sec, used, ses, begun, late>>

\* The second half.
set_user_raw ==
    /\ adm.pc = "setuser"
    /\ uu' = [uu EXCEPT ![adm.key] = adm.rec]
    /\ adm' = AdmIdle
    /\ UNCHANGED <<conf, now, um, po, bkt, sec, used, ses, begun, late>>

AdminStep ==
    \/ AddOrModify \/ DeleteOrEnable
    \/ ReadRecord \/ WriteRecord \/ KillPool \/ KillBucket
    \/ ListPools \/ DeregisterOne \/ clear_user_claim \/ delete_user \/ delete_user_claim
    \/ AddClaim \/ set_user_raw
---------------------------------------------------------------------------
(* Properties.                                                             *)

AccountsInit ==
    /\ conf \in Configurations
    /\ now = 0
    /\ \E t \in Start : uu = t.uu /\ um = t.um /\ po = t.po /\ bkt = t.bkt /\ sec = t.sec
    /\ used = {p \in Pool : po[p] # Nil} \cup {k \in Key : sec[k] # Nil}
    /\ ses = [s \in Ses |-> SesIdle]
    /\ adm = AdmIdle
    /\ begun = 0
    /\ late = {}

AccountsTypeOK ==
    /\ conf \in [map : BOOLEAN, allow : BOOLEAN]
    /\ now \in 0 .. MaxTime
    /\ uu \in [User -> user_record \cup {Nil}]
    /\ um \in [Claim -> User \cup {Nil}]
    /\ po \in [Pool -> pool_record \cup {Nil}]
    /\ bkt \in [Bucket -> bucket_record \cup {Nil}]
    /\ sec \in [Key -> secret_record \cup {Nil}]
    /\ used \subseteq Pool \cup Key
    /\ ses \in [Ses -> Session]
    /\ adm \in Admin
    /\ begun \in Nat
    /\ late \subseteq Pool

\* A claim in the record of a user is that user's in um:, so that no two users
\* have one claim and a login by it reaches its user, through every sequence
\* of load-user rows, failing ones included, and whatever records the sessions
\* write back.  A user who is being deregistered has lost the claim already.
ClaimsAgree ==
    \A u \in User : uu[u] # Nil /\ uu[u].claim # Nil /\ ~(adm.pc = "del" /\ adm.key = u) =>
        um[uu[u].claim] = u

\* Deregistering a user leaves no pool behind that was there: a pool whose
\* owner has no record came when deregister_user() had listed the pools, made
\* by a request that had been admitted before, or written back by
\* mark_pool_inoperable() from a record read before.
OrphanPoolIsLate ==
    \A p \in Pool : po[p] # Nil /\ uu[po[p].owner] = Nil => p \in late

\* An administrator's decision to disable a user stands until the administrator
\* revokes it.
DisabledStaysDisabled ==
    [][\A u \in User : uu[u] # Nil /\ ~uu[u].enabled /\ uu'[u] # Nil /\ uu'[u].enabled =>
          adm.key = u /\ adm.pc \in {"set", "setuser"}]_accounts
============================================================================
