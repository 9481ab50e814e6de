----------------------------- MODULE UiService -----------------------------
(***************************************************************************)
(* Registrar as the pages of its Web-UI meet it: the session (the record   *)
(* tn: of a uid, the cookie of the browser and the X-Csrf-Token header),   *)
(* the requests of the API, and what lies between a page and Registrar.    *)
(* A handler of Registrar is one step here; PoolRegistry takes it apart.   *)
(*                                                                         *)
(* One user with an active account.  Requests and responses are sets: a    *)
(* browser uses several connections, and nothing orders two fetches.       *)
(***************************************************************************)
EXTENDS Naturals, FiniteSets

CONSTANTS
    Tab,          \* the tabs of the browser, which share its cookies
    Conn,         \* the connections of the browser, which carry a fetch each
    Pool, Key,    \* names that Registrar generates
    Bucket, Dir,  \* names that users choose
    Start,        \* the pools that a user may have in the beginning
    Nil

PoolRecord == [dir : Dir, bkts : SUBSET Bucket, keys : SUBSET Key]

\* Pools have no directory, bucket or key in common.
ASSUME StartAssumption ==
    /\ Start \subseteq [Pool -> PoolRecord \cup {Nil}]
    /\ \A r \in Start : \A p, s \in {x \in Pool : r[x] # Nil} : p # s =>
          /\ r[p].dir # r[s].dir
          /\ r[p].bkts \cap r[s].bkts = {}
          /\ r[p].keys \cap r[s].keys = {}


VARIABLES
    tn,        \* the tn: record of the user: the number of a token pair, or Nil
    pairs,     \* how many pairs make_csrf_tokens() has made
    cookie,    \* the cookie "fastapi-csrf-token" of the browser
    po,        \* the pools of the user with their members
    used,      \* the generated names that have been given out
    held,      \* history: <<p, i>> when bucket or key i has been a member of p
    net,       \* requests on their way to Registrar
    rsp        \* responses on their way to a page

service == <<tn, pairs, cookie, po, used, held, net, rsp>>

Op == {"user_info", "list_pools", "make_pool", "delete_pool", "make_bucket",
       "delete_bucket", "make_secret", "delete_secret"}

\* A token pair is its number; 0 is a token that no pair has.
Token == Nat \cup {Nil}

\* pool_prop_ui: what a response says of a pool.
Desc == [pool : Pool, dir : Dir, bkts : SUBSET Bucket, keys : SUBSET Key]

Request == [op : Op, pool : Pool \cup {Nil},
            item : Bucket \cup Key \cup Dir \cup {Nil, "int", "string"},
            token : Token]

\* Nil is none of the values it stands in for.
ASSUME NilAssumption ==
    Nil \notin Tab \cup Pool \cup Key \cup Bucket \cup Dir \cup Nat \cup PoolRecord \cup Request

Message == [conn : Conn, tab : Tab \cup {Nil}, op : Op, pool : Pool \cup {Nil},
            item : Bucket \cup Key \cup Dir \cup {Nil, "int", "string"},
            token : Token, cookie : Token]

Response == [conn : Conn, tab : Tab \cup {Nil}, op : Op, code : Nat, token : Token,
             list : SUBSET Desc, desc : Desc \cup {Nil}, at : {"wire", "page"}]

---------------------------------------------------------------------------
(* Records.                                                                *)

\* The pools that exist.
Existing == {p \in Pool : po[p] # Nil}

\* gather_pool_prop() and copy_pool_prop_to_ui() of a pool.
copy_pool_prop_to_ui(r, p) ==
    [pool |-> p, dir |-> r[p].dir, bkts |-> r[p].bkts, keys |-> r[p].keys]

Pairs(d) == {<<d.pool, i>> : i \in d.bkts \cup d.keys}

---------------------------------------------------------------------------
(* Answers.                                                                *)

Answer(q, code, token, list, desc) ==
    /\ net' = net \ {q}
    /\ rsp' = rsp \cup {[conn |-> q.conn, tab |-> q.tab, op |-> q.op, code |-> code,
                         token |-> token, list |-> list, desc |-> desc,
                         at |-> "wire"]}

Fail(q, code) == Answer(q, code, Nil, {}, Nil)

\* A request that changes nothing but gets its answer.
Unaltered == UNCHANGED <<tn, pairs, cookie, po, used, held>>

check_csrf_tokens(q) == tn # Nil /\ q.cookie = tn /\ q.token = tn

\* check_user_access_with_error_return() beyond the account: the tokens, and
\* the existence of the pool that the path names.
Admitted(q) ==
    /\ check_csrf_tokens(q)
    /\ q.pool # Nil => po[q.pool] # Nil

\* The member operations store a record and answer with the pool.
SetPool(q, r) ==
    /\ po' = [po EXCEPT ![q.pool] = r]
    /\ held' = held \cup Pairs(copy_pool_prop_to_ui(po', q.pool))
    /\ Answer(q, 200, Nil, {}, copy_pool_prop_to_ui(po', q.pool))
    /\ UNCHANGED <<tn, pairs, cookie>>

---------------------------------------------------------------------------
(* The handlers.                                                           *)

\* GET /user-info makes a new pair, whatever tokens the request has.
return_user_info(q) ==
    /\ q.op = "user_info"
    /\ pairs' = pairs + 1
    /\ tn' = pairs + 1
    /\ Answer(q, 200, pairs + 1, {}, Nil)
    /\ UNCHANGED <<cookie, po, used, held>>

\* Bad tokens are answered by 401.  Without a record tn:, logging them
\* dereferences nil, and the recovery from the panic answers by 500.
RefuseTokens(q) ==
    /\ q.op # "user_info"
    /\ ~check_csrf_tokens(q)
    /\ Fail(q, IF tn = Nil THEN 500 ELSE 401)
    /\ Unaltered

RefusePool(q) ==
    /\ q.op # "user_info"
    /\ check_csrf_tokens(q)
    /\ ~Admitted(q)
    /\ Fail(q, 404)
    /\ Unaltered

list_pool_and_return_response(q) ==
    /\ q.op = "list_pools" /\ Admitted(q)
    /\ Answer(q, 200, Nil, {copy_pool_prop_to_ui(po, p) : p \in Existing}, Nil)
    /\ Unaltered

\* A bad path or group is answered by 400.  A directory is of one pool at a
\* time: 409, also when it is of another user's pool.
make_pool_and_return_response(q) ==
    /\ q.op = "make_pool" /\ Admitted(q)
    /\ \/ /\ \E code \in {400, 409} : Fail(q, code)
          /\ Unaltered
       \/ /\ \A p \in Existing : po[p].dir # q.item
          /\ \E p \in Pool \ used :
                /\ po' = [po EXCEPT ![p] = [dir |-> q.item, bkts |-> {}, keys |-> {}]]
                /\ used' = used \cup {p}
                /\ Answer(q, 200, Nil, {}, copy_pool_prop_to_ui(po', p))
          /\ UNCHANGED <<tn, pairs, cookie, held>>

delete_pool_and_return_response(q) ==
    /\ q.op = "delete_pool" /\ Admitted(q)
    /\ po' = [po EXCEPT ![q.pool] = Nil]
    /\ Answer(q, 200, Nil, {}, Nil)
    /\ UNCHANGED <<tn, pairs, cookie, used, held>>

\* The name of a bucket is of one pool at a time.  The bucket is taken back
\* when probe_access_mux() fails.
make_bucket_and_return_response(q) ==
    /\ q.op = "make_bucket" /\ Admitted(q)
    /\ \/ /\ \E p \in Existing : q.item \in po[p].bkts
          /\ Fail(q, 409)
          /\ Unaltered
       \/ /\ \A p \in Existing : q.item \notin po[p].bkts
          /\ \/ Fail(q, 502) /\ Unaltered
             \/ SetPool(q, [po[q.pool] EXCEPT !.bkts = @ \cup {q.item}]) /\ UNCHANGED used

delete_bucket_and_return_response(q) ==
    /\ q.op = "delete_bucket" /\ Admitted(q)
    /\ \/ q.item \notin po[q.pool].bkts /\ Fail(q, 404) /\ Unaltered
       \/ /\ q.item \in po[q.pool].bkts
          /\ SetPool(q, [po[q.pool] EXCEPT !.bkts = @ \ {q.item}])
          /\ UNCHANGED used

\* expiration_time is an int64: a body with a string is not decoded.
make_secret_and_return_response(q) ==
    /\ q.op = "make_secret" /\ Admitted(q)
    /\ \/ q.item # "int" /\ Fail(q, 400) /\ Unaltered
       \/ /\ q.item = "int"
          /\ \E k \in Key \ used :
                /\ used' = used \cup {k}
                /\ SetPool(q, [po[q.pool] EXCEPT !.keys = @ \cup {k}])

delete_secret_and_return_response(q) ==
    /\ q.op = "delete_secret" /\ Admitted(q)
    /\ \/ q.item \notin po[q.pool].keys /\ Fail(q, 404) /\ Unaltered
       \/ /\ q.item \in po[q.pool].keys
          /\ SetPool(q, [po[q.pool] EXCEPT !.keys = @ \ {q.item}])
          /\ UNCHANGED used

Serve(q) ==
    \/ return_user_info(q)
    \/ RefuseTokens(q)
    \/ RefusePool(q)
    \/ list_pool_and_return_response(q)
    \/ make_pool_and_return_response(q)
    \/ delete_pool_and_return_response(q)
    \/ make_bucket_and_return_response(q)
    \/ delete_bucket_and_return_response(q)
    \/ make_secret_and_return_response(q)
    \/ delete_secret_and_return_response(q)

\* The record tn: expires after ui_session_duration, and so does the cookie.
ExpireTokens ==
    /\ tn # Nil
    /\ tn' = Nil
    /\ cookie' \in {cookie, Nil}
    /\ UNCHANGED <<pairs, po, used, held, net, rsp>>

\* A user with some pools and their members, who has no session yet.
ServiceInit ==
    /\ tn = Nil /\ pairs = 0 /\ cookie = Nil
    /\ po \in Start
    /\ used = Existing \cup UNION {po[p].keys : p \in Existing}
    /\ held = UNION {Pairs(copy_pool_prop_to_ui(po, p)) : p \in Existing}
    /\ net = {} /\ rsp = {}

ServiceTypeOK ==
    /\ tn \in Token /\ pairs \in Nat /\ cookie \in Token
    /\ po \in [Pool -> PoolRecord \cup {Nil}]
    /\ used \subseteq Pool \cup Key
    /\ held \subseteq Pool \X (Bucket \cup Key)
    /\ net \subseteq Message
    /\ rsp \subseteq Response
============================================================================
