---------------------------- MODULE WebUIProofs ----------------------------
(***************************************************************************)
(* Proofs about the pages of the Web-UI and the session of their user, for *)
(* any number of tabs, connections, pools, buckets, keys and directories,  *)
(* any pools in the beginning, and any number of clicks.                   *)
(***************************************************************************)
EXTENDS WebUI, TLAPS

(* What is at hand: the arguments of requests, pages and responses.  The   *)
(* parameter h stands for held, pgs for page, r for po, tk for tn and ck   *)
(* for cookie.                                                             *)

\* The operations that are answered with the description of a pool.
MemberOp == {"make_bucket", "delete_bucket", "make_secret", "delete_secret"}
DescOp == MemberOp \cup {"make_pool"}

\* The members of a description have been members of its pool.
Known(d, h) == d \in Desc /\ Pairs(d) \subseteq h

RequestOK(q, h) ==
    /\ q.op \in {"make_pool", "list_pools"} => q.pool = Nil
    /\ q.op = "make_pool" => q.item \in Dir
    /\ q.op \in MemberOp \cup {"delete_pool"} => q.pool \in Pool
    /\ q.op \in {"make_bucket", "delete_bucket"} => q.item \in Bucket
    /\ q.op \in {"delete_bucket", "delete_secret"} => <<q.pool, q.item>> \in h

PageOK(pg, h) ==
    /\ pg \in Page
    /\ \A d \in pg.list : Known(d, h)
    /\ "edit" \in pg.view => Known(pg.edit, h)

ResponseOK(x, h) ==
    /\ \A d \in x.list : Known(d, h)
    /\ x.op \in DescOp /\ x.code = 200 => Known(x.desc, h)

PoolsIn(r) == {p \in Pool : r[p] # Nil}

PoolsKnown(r, h) == \A p \in PoolsIn(r) : Known(copy_pool_prop_to_ui(r, p), h)

HasPage(m, pgs, h) == m.tab # Nil => PageOK(pgs[m.tab], h)

Arguments ==
    /\ PoolsKnown(po, held)
    /\ \A q \in net : RequestOK(q, held) /\ HasPage(q, page, held)
    /\ \A x \in rsp : ResponseOK(x, held) /\ HasPage(x, page, held)
    /\ \A t \in Loaded : PageOK(page[t], held)

Typed == TypeOK /\ Arguments

---------------------------------------------------------------------------
(* The user who waits.                                                     *)

\* What Registrar would answer to list_pools.
Whole(r) == {copy_pool_prop_to_ui(r, p) : p \in PoolsIn(r)}

Present(d, r) == d.pool \in PoolsIn(r) /\ d = copy_pool_prop_to_ui(r, d.pool)

\* What a page displays is what Registrar has.
Fresh(pg, r) ==
    /\ pg.kind = "ui2" /\ "list" \in pg.view => pg.list = Whole(r)
    /\ pg.kind = "ui2" /\ "edit" \in pg.view => Present(pg.edit, r)
    /\ pg.kind = "ui" /\ pg.list # {} => {d.pool : d \in pg.list} = PoolsIn(r)

\* The page, the browser and Registrar have the halves of one pair.
InSession(pg, tk, ck) == tk \in Nat \ {0} /\ ck = tk /\ pg.token = tk

\* A request is on its way.  A list that is asked for repairs what is displayed.
Asked(q, pg, r, tk, ck) ==
    /\ q.op # "user_info" =>
          InSession(pg, tk, ck) /\ q.cookie = tk /\ q.token \in {tk, 0}
    /\ q.op # "list_pools" \/ q.token # tk => Fresh(pg, r)

\* An answer is on its way.
Told(x, pg, r, tk, ck) ==
    /\ x.op = "user_info" => /\ x.code = 200 /\ x.token = tk /\ tk \in Nat \ {0}
                             /\ x.at = "page" => ck = tk
                             /\ Fresh(pg, r)
    /\ x.op # "user_info" => InSession(pg, tk, ck) /\ x.token = Nil
    /\ x.op # "user_info" /\ x.code # 200 => Fresh(pg, r)
    /\ x.op = "list_pools" /\ x.code = 200 => x.list = Whole(r)
    /\ x.op \in DescOp /\ x.code = 200 => Present(x.desc, r)
    /\ x.op \in MemberOp /\ x.code = 200 /\ pg.kind = "ui" => Fresh(pg, r)

\* One request or one answer is under way for the user who waits, if any.
OneAtATime ==
    /\ net = {} \/ rsp = {}
    /\ \A m, n \in net : m = n
    /\ \A m, n \in rsp : m = n

Waits(t) ==
    /\ \A m \in net \cup rsp : m.tab = t
    /\ OneAtATime
    /\ net = {} /\ rsp = {} => InSession(page[t], tn, cookie) /\ Fresh(page[t], po)
    /\ \A q \in net : Asked(q, page[t], po, tn, cookie)
    /\ \A x \in rsp : Told(x, page[t], po, tn, cookie)

\* Whoever loads or clicks last is the only one who may be calm.
OneCalm == \A s \in Loaded, t \in Tab : s \notin hurried /\ t # s => t \in hurried

CalmInv == OneCalm /\ \A t \in Tab : Calm(t) => Waits(t)

IInv == Typed /\ CalmInv

---------------------------------------------------------------------------
(* What a click or a response makes of a page.                             *)

\* A click that submits a request.
Submits(pg, d, h, r) ==
    /\ PageOK(d.page, h) /\ d.rq \in Request /\ RequestOK(d.rq, h)
    /\ d.page.token = pg.token
    /\ d.rq.token = pg.token \/ (d.rq.op = "list_pools" /\ d.rq.token = 0)
    /\ \/ Fresh(pg, r) => Fresh(d.page, r)
       \/ d.rq.op = "list_pools" /\ d.rq.token = pg.token

\* A click that changes the page only.
Alters(pg, d, h, r) ==
    /\ PageOK(d.page, h)
    /\ d.page.token = pg.token
    /\ Fresh(pg, r) => Fresh(d.page, r)

\* The body of response x arrives.
Receives(pg, x, d, h) ==
    /\ PageOK(d.page, h)
    /\ d.rq = Nil \/ (d.rq \in Request /\ RequestOK(d.rq, h))

Settles(d, r, tk, ck) ==
    /\ InSession(d.page, tk, ck)
    /\ \/ d.rq = Nil /\ Fresh(d.page, r)
       \/ d.rq # Nil /\ d.rq.op = "list_pools" /\ d.rq.token = tk

\* Nil is told apart from what stands beside it.
LEMMA NilApart ==
    /\ Nil \notin Tab /\ Nil \notin Pool /\ Nil \notin Nat
    /\ Nil \notin PoolRecord /\ Nil \notin Request
BY NilAssumption

\* What is known stays known: held only grows.
LEMMA KnownGrows ==
    ASSUME NEW h, NEW g, h \subseteq g
    PROVE  /\ \A d : Known(d, h) => Known(d, g)
           /\ \A q : RequestOK(q, h) => RequestOK(q, g)
           /\ \A pg : PageOK(pg, h) => PageOK(pg, g)
           /\ \A x : ResponseOK(x, h) => ResponseOK(x, g)
<1>1. \A d : Known(d, h) => Known(d, g)
  BY DEF Known
<1>2. \A q : RequestOK(q, h) => RequestOK(q, g)
  BY DEF RequestOK
<1>3. \A pg : PageOK(pg, h) => PageOK(pg, g)
  BY <1>1 DEF PageOK
<1>4. \A x : ResponseOK(x, h) => ResponseOK(x, g)
  BY <1>1 DEF ResponseOK
<1>5. QED
  BY <1>1, <1>2, <1>3, <1>4

\* The members that an editor displays have been members of its pool.
LEMMA KnownMember ==
    ASSUME NEW h, NEW d, Known(d, h), NEW i \in d.bkts \cup d.keys
    PROVE  <<d.pool, i>> \in h
BY DEF Known, Pairs

\* A description has a pool, and members of the right kinds.
LEMMA DescFields ==
    ASSUME NEW d \in Desc
    PROVE  /\ d.pool \in Pool /\ d.dir \in Dir
           /\ d.bkts \in SUBSET Bucket /\ d.keys \in SUBSET Key
BY DEF Desc

---------------------------------------------------------------------------
(* The simple Web-UI.                                                      *)

\* Showing and hiding sections keeps a page in order, but "edit" is shown only
\* over a description.
LEMMA DisplayOK ==
    ASSUME NEW h, NEW pg, PageOK(pg, h), NEW c \in SUBSET {"make", "list", "edit"},
           NEW v \in BOOLEAN, v /\ "edit" \in c => Known(pg.edit, h)
    PROVE  /\ PageOK(S!display(pg, c, v), h)
           /\ S!display(pg, c, v) =
                 [pg EXCEPT !.view = IF v THEN pg.view \cup c ELSE pg.view \ c]
BY DEF PageOK, Page, S!display

\* The fields that display() leaves alone, and the view it makes.
LEMMA DisplayFields ==
    ASSUME NEW pg \in Page, NEW c, NEW v \in BOOLEAN
    PROVE  LET d == S!display(pg, c, v)
           IN  /\ d.kind = pg.kind /\ d.token = pg.token
               /\ d.list = pg.list /\ d.edit = pg.edit
               /\ d.view = IF v THEN pg.view \cup c ELSE pg.view \ c
BY DEF Page, S!display

\* A page that was just loaded is in order, and asks for the user-info.
LEMMA SimpleStart ==
    ASSUME NEW h, NEW r
    PROVE  /\ PageOK(S!start_ui.page, h) /\ Fresh(S!start_ui.page, r)
           /\ S!start_ui.rq \in Request /\ RequestOK(S!start_ui.rq, h)
           /\ S!start_ui.rq.op = "user_info"
<1>1. S!start_ui.rq = [op |-> "user_info", pool |-> Nil, item |-> Nil, token |-> Nil]
  BY DEF S!start_ui, S!api_get_user_info, S!submit_request, S!pool_data
<1>2. S!start_ui.page =
         [kind |-> "ui2", token |-> Nil, list |-> {}, edit |-> Nil, view |-> {}]
  BY DEF S!start_ui, S!pool_data, S!display
<1>3. QED
  BY <1>1, <1>2 DEF PageOK, Page, Fresh, Request, RequestOK, Op, Token, MemberOp

\* The same for the page made with Vue.
LEMMA VueStart ==
    ASSUME NEW h, NEW r
    PROVE  /\ PageOK(V!data.page, h) /\ Fresh(V!data.page, r)
           /\ V!data.rq \in Request /\ RequestOK(V!data.rq, h)
           /\ V!data.rq.op = "user_info"
<1>1. V!data.rq = [op |-> "user_info", pool |-> Nil, item |-> Nil, token |-> Nil]
  BY DEF V!data, V!api_get_user_info, V!submit_request, V!pool_data
<1>2. V!data.page =
         [kind |-> "ui", token |-> Nil, list |-> {}, edit |-> Nil, view |-> {}]
  BY DEF V!data, V!pool_data
<1>3. QED
  BY <1>1, <1>2 DEF PageOK, Page, Fresh, Request, RequestOK, Op, Token, MemberOp

\* A request that a page submits as it is.
LEMMA SubmitAsIs ==
    ASSUME NEW h, NEW r, NEW pg, PageOK(pg, h), NEW d, d.page = pg,
           NEW op \in Op, NEW pool \in Pool \cup {Nil},
           NEW item \in Bucket \cup Key \cup Dir \cup {Nil, "int", "string"},
           d.rq = [op |-> op, pool |-> pool, item |-> item, token |-> pg.token],
           op \in {"make_pool", "list_pools"} => pool = Nil,
           op = "make_pool" => item \in Dir,
           op \in MemberOp \cup {"delete_pool"} => pool \in Pool,
           op \in {"make_bucket", "delete_bucket"} => item \in Bucket,
           op \in {"delete_bucket", "delete_secret"} => <<pool, item>> \in h
    PROVE  Submits(pg, d, h, r)
<1>1. d.rq \in Request
  BY DEF Request, PageOK, Page
<1>2. RequestOK(d.rq, h)
  BY DEF RequestOK
<1>3. QED
  BY <1>1, <1>2 DEF Submits

\* What kick_show_pool_make() leaves: another section, and a request for a pair.
LEMMA SimpleShowMake ==
    ASSUME NEW h, NEW r, NEW pg, PageOK(pg, h)
    PROVE  Submits(pg, S!kick_show_pool_make(pg), h, r)
<1> DEFINE d == S!kick_show_pool_make(pg)
<1> DEFINE n == S!display(pg, {"make"}, TRUE)
<1>1. d.page = n /\ d.rq = [op |-> "user_info", pool |-> Nil, item |-> Nil, token |-> pg.token]
  BY DEF S!kick_show_pool_make, S!api_get_user_info, S!submit_request
<1>2. PageOK(n, h)
  BY DisplayOK
<1>3. /\ n.kind = pg.kind /\ n.token = pg.token /\ n.list = pg.list /\ n.edit = pg.edit
      /\ n.view = pg.view \cup {"make"}
  BY DisplayFields DEF PageOK
<1> HIDE DEF d, n
<1>4. d.rq \in Request /\ RequestOK(d.rq, h)
  BY <1>1 DEF PageOK, Page, Request, RequestOK, Op, MemberOp
<1>5. Fresh(pg, r) => Fresh(n, r)
  BY <1>3 DEF Fresh
<1>6. Submits(pg, d, h, r)
  BY <1>1, <1>2, <1>3, <1>4, <1>5 DEF Submits
<1>7. QED
  BY <1>6 DEF d

\* kick_show_pool_list() displays the old rows, and asks for the new ones.
LEMMA SimpleShowList ==
    ASSUME NEW h, NEW r, NEW pg, PageOK(pg, h)
    PROVE  Submits(pg, S!kick_show_pool_list(pg), h, r)
<1> DEFINE d == S!kick_show_pool_list(pg)
<1> DEFINE n1 == S!display(pg, {"make"}, FALSE)
<1> DEFINE n2 == S!display(n1, {"list"}, TRUE)
<1> DEFINE n3 == S!display(n2, {"edit"}, FALSE)
<1>1. d.page = n3 /\ d.rq = [op |-> "list_pools", pool |-> Nil, item |-> Nil, token |-> pg.token]
  BY DEF S!kick_show_pool_list, S!api_list_pools, S!submit_request
<1>2. PageOK(n1, h) /\ n1.token = pg.token
  BY DisplayOK, DisplayFields DEF PageOK
<1> HIDE DEF n1
<1>3. PageOK(n2, h) /\ n2.token = n1.token
  BY <1>2, DisplayOK, DisplayFields DEF PageOK
<1> HIDE DEF n2
<1>4. PageOK(n3, h) /\ n3.token = n2.token
  BY <1>3, DisplayOK, DisplayFields DEF PageOK
<1> HIDE DEF d, n3
<1>5. d.rq \in Request /\ RequestOK(d.rq, h)
  BY <1>1 DEF PageOK, Page, Request, RequestOK, Op, MemberOp
<1>6. Submits(pg, d, h, r)
  BY <1>1, <1>2, <1>3, <1>4, <1>5 DEF Submits
<1>7. QED
  BY <1>6 DEF d

\* kick_test_csrf() has the fake token in the request, and not on the page.
LEMMA SimpleTestCsrf ==
    ASSUME NEW h, NEW r, NEW pg, PageOK(pg, h)
    PROVE  Submits(pg, S!kick_test_csrf(pg), h, r)
<1> DEFINE d == S!kick_test_csrf(pg)
<1>1. d.page = [[pg EXCEPT !.token = 0] EXCEPT !.token = pg.token]
  BY DEF S!kick_test_csrf
<1>2. d.page = pg
  BY <1>1 DEF PageOK, Page
<1>3. d.rq = [op |-> "list_pools", pool |-> Nil, item |-> Nil, token |-> 0]
  BY DEF S!kick_test_csrf, S!api_list_pools, S!submit_request, PageOK, Page
<1> HIDE DEF d
<1>4. d.rq \in Request /\ RequestOK(d.rq, h)
  BY <1>3 DEF Request, RequestOK, Op, MemberOp, Token
<1>5. Submits(pg, d, h, r)
  BY <1>2, <1>3, <1>4 DEF Submits
<1>6. QED
  BY <1>5 DEF d

\* kick_make_pool() hides the form and submits it.
LEMMA SimpleMakePool ==
    ASSUME NEW h, NEW r, NEW pg, PageOK(pg, h), NEW dir \in Dir
    PROVE  Submits(pg, S!kick_make_pool(pg, dir), h, r)
<1> DEFINE d == S!kick_make_pool(pg, dir)
<1> DEFINE n == S!display(pg, {"make"}, FALSE)
<1>1. d.page = n /\ d.rq = [op |-> "make_pool", pool |-> Nil, item |-> dir, token |-> pg.token]
  BY DEF S!kick_make_pool, S!api_make_pool, S!submit_request
<1>2. PageOK(n, h)
  BY DisplayOK
<1>3. /\ n.kind = pg.kind /\ n.token = pg.token /\ n.list = pg.list /\ n.edit = pg.edit
      /\ n.view = pg.view \ {"make"}
  BY DisplayFields DEF PageOK
<1> HIDE DEF d, n
<1>4. d.rq \in Request /\ RequestOK(d.rq, h)
  BY <1>1 DEF PageOK, Page, Request, RequestOK, Op, MemberOp
<1>5. Fresh(pg, r) => Fresh(n, r)
  BY <1>3 DEF Fresh
<1>6. Submits(pg, d, h, r)
  BY <1>1, <1>2, <1>3, <1>4, <1>5 DEF Submits
<1>7. QED
  BY <1>6 DEF d

\* The clicks of the simple Web-UI that submit a request and leave the page.
LEMMA SimpleAsIs ==
    ASSUME NEW h, NEW r, NEW pg, PageOK(pg, h)
    PROVE  /\ \A row \in pg.list : Submits(pg, S!kick_delete_pool(pg, row), h, r)
           /\ "edit" \in pg.view =>
                 /\ \A b \in Bucket : Submits(pg, S!kick_make_bucket(pg, b), h, r)
                 /\ \A b \in pg.edit.bkts : Submits(pg, S!kick_delete_bucket(pg, b), h, r)
                 /\ Submits(pg, S!kick_make_secret(pg), h, r)
                 /\ \A k \in pg.edit.keys : Submits(pg, S!kick_delete_secret(pg, k), h, r)
<1>1. ASSUME NEW row \in pg.list
      PROVE  Submits(pg, S!kick_delete_pool(pg, row), h, r)
  <2> DEFINE d == S!kick_delete_pool(pg, row)
  <2>1. row.pool \in Pool
    BY DescFields DEF PageOK, Known
  <2>2. /\ d.page = pg
        /\ d.rq = [op |-> "delete_pool", pool |-> row.pool, item |-> Nil, token |-> pg.token]
    BY DEF S!kick_delete_pool, S!api_delete_pool, S!submit_request
  <2> HIDE DEF d
  <2>3. Submits(pg, d, h, r)
    BY <2>1, <2>2, SubmitAsIs DEF Op, MemberOp
  <2>4. QED
    BY <2>3 DEF d
<1>2. ASSUME "edit" \in pg.view
      PROVE  /\ pg.edit.pool \in Pool
             /\ pg.edit.bkts \subseteq Bucket /\ pg.edit.keys \subseteq Key
             /\ \A i \in pg.edit.bkts \cup pg.edit.keys : <<pg.edit.pool, i>> \in h
  <2>1. Known(pg.edit, h)
    BY <1>2 DEF PageOK
  <2>2. QED
    BY <2>1, KnownMember, DescFields DEF Known
<1>3. ASSUME "edit" \in pg.view, NEW b \in Bucket
      PROVE  Submits(pg, S!kick_make_bucket(pg, b), h, r)
  <2> DEFINE d == S!kick_make_bucket(pg, b)
  <2>1. /\ d.page = pg
        /\ d.rq = [op |-> "make_bucket", pool |-> pg.edit.pool, item |-> b, token |-> pg.token]
    BY DEF S!kick_make_bucket, S!api_make_bucket, S!submit_request
  <2> HIDE DEF d
  <2>2. Submits(pg, d, h, r)
    BY <1>2, <1>3, <2>1, SubmitAsIs DEF Op, MemberOp
  <2>3. QED
    BY <2>2 DEF d
<1>4. ASSUME "edit" \in pg.view, NEW b \in pg.edit.bkts
      PROVE  Submits(pg, S!kick_delete_bucket(pg, b), h, r)
  <2> DEFINE d == S!kick_delete_bucket(pg, b)
  <2>1. /\ d.page = pg
        /\ d.rq = [op |-> "delete_bucket", pool |-> pg.edit.pool, item |-> b, token |-> pg.token]
    BY DEF S!kick_delete_bucket, S!api_delete_bucket, S!submit_request
  <2> HIDE DEF d
  <2>2. b \in Bucket /\ <<pg.edit.pool, b>> \in h
    BY <1>2, <1>4
  <2>3. Submits(pg, d, h, r)
    BY <1>2, <1>4, <2>1, <2>2, SubmitAsIs DEF Op, MemberOp
  <2>4. QED
    BY <2>3 DEF d
<1>5. ASSUME "edit" \in pg.view
      PROVE  Submits(pg, S!kick_make_secret(pg), h, r)
  <2> DEFINE d == S!kick_make_secret(pg)
  <2>1. /\ d.page = pg
        /\ d.rq = [op |-> "make_secret", pool |-> pg.edit.pool, item |-> "string", token |-> pg.token]
    BY DEF S!kick_make_secret, S!api_make_secret, S!submit_request, S!parse_time_z
  <2> HIDE DEF d
  <2>2. Submits(pg, d, h, r)
    BY <1>2, <1>5, <2>1, SubmitAsIs DEF Op, MemberOp
  <2>3. QED
    BY <2>2 DEF d
<1>6. ASSUME "edit" \in pg.view, NEW k \in pg.edit.keys
      PROVE  Submits(pg, S!kick_delete_secret(pg, k), h, r)
  <2> DEFINE d == S!kick_delete_secret(pg, k)
  <2>1. /\ d.page = pg
        /\ d.rq = [op |-> "delete_secret", pool |-> pg.edit.pool, item |-> k, token |-> pg.token]
    BY DEF S!kick_delete_secret, S!api_delete_secret, S!submit_request
  <2> HIDE DEF d
  <2>2. k \in Key /\ <<pg.edit.pool, k>> \in h
    BY <1>2, <1>6
  <2>3. Submits(pg, d, h, r)
    BY <1>2, <1>6, <2>1, <2>2, SubmitAsIs DEF Op, MemberOp
  <2>4. QED
    BY <2>3 DEF d
<1>7. QED
  BY <1>1, <1>3, <1>4, <1>5, <1>6

\* The editor of the simple Web-UI takes a description as a whole.
LEMMA SimpleSetPool ==
    ASSUME NEW h, NEW r, NEW pg, PageOK(pg, h), NEW desc, Known(desc, h)
    PROVE  LET d == S!set_pool_data(pg, desc)
           IN  /\ PageOK(d.page, h) /\ d.rq = Nil
               /\ d.page.token = pg.token /\ d.page.kind = pg.kind
               /\ pg.kind = "ui2" /\ Present(desc, r) => Fresh(d.page, r)
<1> DEFINE n0 == S!copy_pool_data_for_edit(pg, desc)
<1> DEFINE n1 == S!display(n0, {"list"}, FALSE)
<1> DEFINE n2 == S!display(n1, {"edit"}, TRUE)
<1> DEFINE d == S!set_pool_data(pg, desc)
<1>1. d.page = n2 /\ d.rq = Nil
  BY DEF S!set_pool_data
<1>2. /\ PageOK(n0, h) /\ n0.token = pg.token /\ n0.kind = pg.kind /\ n0.edit = desc
  BY DEF S!copy_pool_data_for_edit, PageOK, Page, Known
<1> HIDE DEF n0
<1>3. PageOK(n1, h) /\ n1.token = n0.token /\ n1.kind = n0.kind /\ n1.edit = n0.edit
      /\ n1.view = n0.view \ {"list"}
  BY <1>2, DisplayOK, DisplayFields DEF PageOK
<1> HIDE DEF n1
<1>4. PageOK(n2, h)
  <2>1. Known(n1.edit, h)
    BY <1>2, <1>3
  <2>2. QED
    BY <1>3, <2>1, DisplayOK
<1>5. n2.token = n1.token /\ n2.kind = n1.kind /\ n2.edit = n1.edit
      /\ n2.view = n1.view \cup {"edit"}
  <2>1. n1 \in Page
    BY <1>3 DEF PageOK
  <2>2. QED
    BY <2>1, DisplayFields
<1> HIDE DEF n2, d
<1>6. pg.kind = "ui2" /\ Present(desc, r) => Fresh(n2, r)
  BY <1>2, <1>3, <1>5 DEF Fresh
<1>7. /\ PageOK(d.page, h) /\ d.rq = Nil
      /\ d.page.token = pg.token /\ d.page.kind = pg.kind
      /\ pg.kind = "ui2" /\ Present(desc, r) => Fresh(d.page, r)
  BY <1>1, <1>2, <1>3, <1>4, <1>5, <1>6
<1>8. QED
  BY <1>7 DEF d

\* A row of the list opens in the editor.
LEMMA SimpleEditPool ==
    ASSUME NEW h, NEW r, NEW pg, PageOK(pg, h), pg.kind = "ui2", "list" \in pg.view,
           NEW row \in pg.list
    PROVE  Alters(pg, S!kick_edit_pool(pg, row), h, r)
<1> DEFINE d == S!set_pool_data(pg, row)
<1>1. Known(row, h)
  BY DEF PageOK
<1>2. /\ PageOK(d.page, h) /\ d.page.token = pg.token
      /\ Present(row, r) => Fresh(d.page, r)
  BY <1>1, SimpleSetPool
<1>3. Fresh(pg, r) => Present(row, r)
  <2> SUFFICES ASSUME Fresh(pg, r)
               PROVE  Present(row, r)
    OBVIOUS
  <2>1. row \in Whole(r)
    BY DEF Fresh
  <2>2. PICK p \in PoolsIn(r) : row = copy_pool_prop_to_ui(r, p)
    BY <2>1 DEF Whole
  <2>3. row.pool = p
    BY <2>2 DEF copy_pool_prop_to_ui
  <2>4. QED
    BY <2>2, <2>3 DEF Present
<1>4. d = S!kick_edit_pool(pg, row)
  BY DEF S!kick_edit_pool
<1> HIDE DEF d
<1>5. Alters(pg, d, h, r)
  BY <1>2, <1>3 DEF Alters
<1>6. QED
  BY <1>4, <1>5

---------------------------------------------------------------------------
(* The Web-UI made with Vue.                                               *)

\* Opening and closing the editor keeps a page in order.
LEMMA VisibleOK ==
    ASSUME NEW h, NEW pg, PageOK(pg, h), NEW v \in BOOLEAN, v => Known(pg.edit, h)
    PROVE  LET d == V!edit_pool_visible(pg, v)
           IN  /\ PageOK(d, h)
               /\ d.kind = pg.kind /\ d.token = pg.token
               /\ d.list = pg.list /\ d.edit = pg.edit
BY DEF PageOK, Page, V!edit_pool_visible

\* The clicks of the Web-UI made with Vue that submit a request.
LEMMA VueAsIs ==
    ASSUME NEW h, NEW r, NEW pg, PageOK(pg, h)
    PROVE  /\ \A dir \in Dir : Submits(pg, V!kick_make_pool(pg, dir), h, r)
           /\ \A row \in pg.list : Submits(pg, V!kick_delete_pool(pg, row), h, r)
           /\ "edit" \in pg.view =>
                 /\ \A b \in Bucket : Submits(pg, V!kick_make_bucket(pg, b), h, r)
                 /\ \A b \in pg.edit.bkts : Submits(pg, V!kick_delete_bucket(pg, b), h, r)
                 /\ Submits(pg, V!kick_make_secret(pg), h, r)
                 /\ \A k \in pg.edit.keys : Submits(pg, V!kick_delete_secret(pg, k), h, r)
<1>0. ASSUME NEW dir \in Dir
      PROVE  Submits(pg, V!kick_make_pool(pg, dir), h, r)
  <2> DEFINE d == V!kick_make_pool(pg, dir)
  <2>1. /\ d.page = pg
        /\ d.rq = [op |-> "make_pool", pool |-> Nil, item |-> dir, token |-> pg.token]
    BY DEF V!kick_make_pool, V!api_make_pool, V!submit_request
  <2> HIDE DEF d
  <2>2. Submits(pg, d, h, r)
    BY <2>1, SubmitAsIs DEF Op, MemberOp
  <2>3. QED
    BY <2>2 DEF d
<1>1. ASSUME NEW row \in pg.list
      PROVE  Submits(pg, V!kick_delete_pool(pg, row), h, r)
  <2> DEFINE d == V!kick_delete_pool(pg, row)
  <2>1. row.pool \in Pool
    BY DescFields DEF PageOK, Known
  <2>2. /\ d.page = pg
        /\ d.rq = [op |-> "delete_pool", pool |-> row.pool, item |-> Nil, token |-> pg.token]
    BY DEF V!kick_delete_pool, V!api_delete_pool, V!submit_request
  <2> HIDE DEF d
  <2>3. Submits(pg, d, h, r)
    BY <2>1, <2>2, SubmitAsIs DEF Op, MemberOp
  <2>4. QED
    BY <2>3 DEF d
<1>2. ASSUME "edit" \in pg.view
      PROVE  /\ pg.edit.pool \in Pool
             /\ pg.edit.bkts \subseteq Bucket /\ pg.edit.keys \subseteq Key
             /\ \A i \in pg.edit.bkts \cup pg.edit.keys : <<pg.edit.pool, i>> \in h
  <2>1. Known(pg.edit, h)
    BY <1>2 DEF PageOK
  <2>2. QED
    BY <2>1, KnownMember, DescFields DEF Known
<1>3. ASSUME "edit" \in pg.view, NEW b \in Bucket
      PROVE  Submits(pg, V!kick_make_bucket(pg, b), h, r)
  <2> DEFINE d == V!kick_make_bucket(pg, b)
  <2>1. /\ d.page = pg
        /\ d.rq = [op |-> "make_bucket", pool |-> pg.edit.pool, item |-> b, token |-> pg.token]
    BY DEF V!kick_make_bucket, V!api_make_bucket, V!submit_request
  <2> HIDE DEF d
  <2>2. Submits(pg, d, h, r)
    BY <1>2, <1>3, <2>1, SubmitAsIs DEF Op, MemberOp
  <2>3. QED
    BY <2>2 DEF d
<1>4. ASSUME "edit" \in pg.view, NEW b \in pg.edit.bkts
      PROVE  Submits(pg, V!kick_delete_bucket(pg, b), h, r)
  <2> DEFINE d == V!kick_delete_bucket(pg, b)
  <2>1. /\ d.page = pg
        /\ d.rq = [op |-> "delete_bucket", pool |-> pg.edit.pool, item |-> b, token |-> pg.token]
    BY DEF V!kick_delete_bucket, V!api_delete_bucket, V!submit_request
  <2> HIDE DEF d
  <2>2. b \in Bucket /\ <<pg.edit.pool, b>> \in h
    BY <1>2, <1>4
  <2>3. Submits(pg, d, h, r)
    BY <1>2, <1>4, <2>1, <2>2, SubmitAsIs DEF Op, MemberOp
  <2>4. QED
    BY <2>3 DEF d
<1>5. ASSUME "edit" \in pg.view
      PROVE  Submits(pg, V!kick_make_secret(pg), h, r)
  <2> DEFINE d == V!kick_make_secret(pg)
  <2>1. /\ d.page = pg
        /\ d.rq = [op |-> "make_secret", pool |-> pg.edit.pool, item |-> "int", token |-> pg.token]
    BY DEF V!kick_make_secret, V!api_make_secret, V!submit_request
  <2> HIDE DEF d
  <2>2. Submits(pg, d, h, r)
    BY <1>2, <1>5, <2>1, SubmitAsIs DEF Op, MemberOp
  <2>3. QED
    BY <2>2 DEF d
<1>6. ASSUME "edit" \in pg.view, NEW k \in pg.edit.keys
      PROVE  Submits(pg, V!kick_delete_secret(pg, k), h, r)
  <2> DEFINE d == V!kick_delete_secret(pg, k)
  <2>1. /\ d.page = pg
        /\ d.rq = [op |-> "delete_secret", pool |-> pg.edit.pool, item |-> k, token |-> pg.token]
    BY DEF V!kick_delete_secret, V!api_delete_secret, V!submit_request
  <2> HIDE DEF d
  <2>2. k \in Key /\ <<pg.edit.pool, k>> \in h
    BY <1>2, <1>6
  <2>3. Submits(pg, d, h, r)
    BY <1>2, <1>6, <2>1, <2>2, SubmitAsIs DEF Op, MemberOp
  <2>4. QED
    BY <2>3 DEF d
<1>7. QED
  BY <1>0, <1>1, <1>3, <1>4, <1>5, <1>6

\* The editor of the Web-UI made with Vue takes a description as a whole.
LEMMA VueSetPool ==
    ASSUME NEW h, NEW r, NEW pg, PageOK(pg, h), NEW desc, Known(desc, h)
    PROVE  LET d == V!set_pool_data(pg, desc)
           IN  /\ PageOK(d.page, h) /\ d.rq = Nil
               /\ d.page.token = pg.token /\ d.page.kind = pg.kind
               /\ pg.kind = "ui" /\ Fresh(pg, r) => Fresh(d.page, r)
<1> DEFINE n0 == [pg EXCEPT !.edit = desc]
<1> DEFINE n1 == V!edit_pool_visible(n0, TRUE)
<1> DEFINE d == V!set_pool_data(pg, desc)
<1>1. d.page = n1 /\ d.rq = Nil
  BY DEF V!set_pool_data
<1>2. /\ PageOK(n0, h) /\ n0.token = pg.token /\ n0.kind = pg.kind
      /\ n0.edit = desc /\ n0.list = pg.list
  BY DEF PageOK, Page, Known
<1> HIDE DEF n0
<1>3. PageOK(n1, h) /\ n1.token = n0.token /\ n1.kind = n0.kind /\ n1.list = n0.list
  BY <1>2, VisibleOK
<1> HIDE DEF n1, d
<1>4. pg.kind = "ui" /\ Fresh(pg, r) => Fresh(n1, r)
  BY <1>2, <1>3 DEF Fresh
<1>5. /\ PageOK(d.page, h) /\ d.rq = Nil
      /\ d.page.token = pg.token /\ d.page.kind = pg.kind
      /\ pg.kind = "ui" /\ Fresh(pg, r) => Fresh(d.page, r)
  BY <1>1, <1>2, <1>3, <1>4
<1>6. QED
  BY <1>5 DEF d

\* A row of the list opens in the editor.
LEMMA VueEditPool ==
    ASSUME NEW h, NEW r, NEW pg, PageOK(pg, h), pg.kind = "ui", NEW row \in pg.list
    PROVE  Alters(pg, V!kick_edit_pool(pg, row), h, r)
<1> DEFINE d == V!set_pool_data(pg, row)
<1>1. Known(row, h)
  BY DEF PageOK
<1>2. /\ PageOK(d.page, h) /\ d.page.token = pg.token
      /\ Fresh(pg, r) => Fresh(d.page, r)
  BY <1>1, VueSetPool
<1>3. d = V!kick_edit_pool(pg, row)
  BY DEF V!kick_edit_pool
<1> HIDE DEF d
<1>4. Alters(pg, d, h, r)
  BY <1>2 DEF Alters
<1>5. QED
  BY <1>3, <1>4

---------------------------------------------------------------------------
(* Responses.                                                              *)

\* A token in the data becomes the page's, and nothing else changes.
LEMMA TokenTaken ==
    ASSUME NEW h, NEW r, NEW pg, PageOK(pg, h), NEW token \in Token
    PROVE  LET n == IF token # Nil THEN [pg EXCEPT !.token = token] ELSE pg
           IN  /\ PageOK(n, h) /\ n.kind = pg.kind
               /\ n.token = IF token # Nil THEN token ELSE pg.token
               /\ Fresh(pg, r) => Fresh(n, r)
<1> DEFINE n == IF token # Nil THEN [pg EXCEPT !.token = token] ELSE pg
<1>1. /\ PageOK(n, h) /\ n.kind = pg.kind
      /\ n.token = IF token # Nil THEN token ELSE pg.token
      /\ n.list = pg.list /\ n.edit = pg.edit /\ n.view = pg.view
  BY DEF PageOK, Page
<1> HIDE DEF n
<1>2. Fresh(pg, r) => Fresh(n, r)
  BY <1>1 DEF Fresh
<1>3. QED
  BY <1>1, <1>2 DEF n

\* A page that has a list shows what it says.
LEMMA SimpleSetList ==
    ASSUME NEW h, NEW r, NEW pg, PageOK(pg, h), pg.kind = "ui2",
           NEW list, \A d \in list : Known(d, h)
    PROVE  LET d == S!set_pool_list_data(pg, list)
           IN  /\ PageOK(d.page, h) /\ d.rq = Nil /\ d.page.token = pg.token
               /\ list = Whole(r) => Fresh(d.page, r)
<1> DEFINE n0 == [pg EXCEPT !.list = list]
<1> DEFINE n1 == S!display(n0, {"list"}, TRUE)
<1> DEFINE n2 == S!display(n1, {"edit"}, FALSE)
<1> DEFINE d == S!set_pool_list_data(pg, list)
<1>1. d.page = n2 /\ d.rq = Nil
  BY DEF S!set_pool_list_data
<1>2. list \subseteq Desc
  BY DEF Known
<1>3. /\ PageOK(n0, h) /\ n0.token = pg.token /\ n0.kind = pg.kind /\ n0.list = list
  BY <1>2 DEF PageOK, Page
<1> HIDE DEF n0
<1>4. PageOK(n1, h) /\ n1.token = n0.token /\ n1.kind = n0.kind /\ n1.list = n0.list
  <2>1. PageOK(n1, h)
    BY <1>3, DisplayOK
  <2>2. n0 \in Page
    BY <1>3 DEF PageOK
  <2>3. QED
    BY <2>1, <2>2, DisplayFields
<1> HIDE DEF n1
<1>5. PageOK(n2, h) /\ n2.token = n1.token /\ n2.kind = n1.kind /\ n2.list = n1.list
      /\ n2.view = n1.view \ {"edit"}
  <2>1. PageOK(n2, h)
    BY <1>4, DisplayOK
  <2>2. n1 \in Page
    BY <1>4 DEF PageOK
  <2>3. QED
    BY <2>1, <2>2, DisplayFields
<1> HIDE DEF n2, d
<1>6. list = Whole(r) => Fresh(n2, r)
  BY <1>3, <1>4, <1>5 DEF Fresh
<1>7. /\ PageOK(d.page, h) /\ d.rq = Nil /\ d.page.token = pg.token
      /\ list = Whole(r) => Fresh(d.page, r)
  BY <1>1, <1>3, <1>4, <1>5, <1>6
<1>8. QED
  BY <1>7 DEF d

\* The user-info hides the list and the editor.
LEMMA SimpleSetUser ==
    ASSUME NEW h, NEW r, NEW pg, PageOK(pg, h), pg.kind = "ui2"
    PROVE  LET d == S!set_user_info_data(pg)
           IN  /\ PageOK(d.page, h) /\ d.rq = Nil /\ d.page.token = pg.token
               /\ Fresh(d.page, r)
<1> DEFINE n == S!display(pg, {"list", "edit"}, FALSE)
<1> DEFINE d == S!set_user_info_data(pg)
<1>1. d.page = n /\ d.rq = Nil
  BY DEF S!set_user_info_data
<1>2. PageOK(n, h)
  BY DisplayOK
<1>3. n.token = pg.token /\ n.kind = pg.kind /\ n.view = pg.view \ {"list", "edit"}
  BY DisplayFields DEF PageOK
<1> HIDE DEF n, d
<1>4. Fresh(n, r)
  BY <1>3 DEF Fresh
<1>5. PageOK(d.page, h) /\ d.rq = Nil /\ d.page.token = pg.token /\ Fresh(d.page, r)
  BY <1>1, <1>2, <1>3, <1>4
<1>6. QED
  BY <1>5 DEF d

\* A list that a page asks for by itself.
LEMMA AskList ==
    ASSUME NEW h, NEW pg \in Page, NEW rq,
           rq = [op |-> "list_pools", pool |-> Nil, item |-> Nil, token |-> pg.token]
    PROVE  /\ rq \in Request /\ RequestOK(rq, h) /\ rq # Nil
           /\ rq.op = "list_pools" /\ rq.token = pg.token
<1>1. rq \in Request
  BY DEF Request, Op, Page
<1>2. QED
  BY <1>1, NilApart DEF RequestOK, MemberOp

\* The simple Web-UI after a response: in order, and for a user who waits with
\* the pair of the session, and showing what Registrar has.
LEMMA SimpleResponse ==
    ASSUME NEW h, NEW r, NEW tk, NEW ck, NEW pg, PageOK(pg, h), pg.kind = "ui2",
           NEW x \in Response, ResponseOK(x, h)
    PROVE  /\ Receives(pg, x, S!response(pg, x), h)
           /\ Told(x, pg, r, tk, ck) /\ x.at = "page" =>
                 Settles(S!response(pg, x), r, tk, ck)
<1> DEFINE n == S!show_message(pg, x)
<1> DEFINE d == S!response(pg, x)
<1>1. x.token \in Token /\ x.op \in Op
  BY DEF Response
<1>2. /\ PageOK(n, h) /\ n.kind = "ui2"
      /\ n.token = IF x.token # Nil THEN x.token ELSE pg.token
      /\ Fresh(pg, r) => Fresh(n, r)
  BY <1>1, TokenTaken DEF S!show_message
<1>3. Told(x, pg, r, tk, ck) /\ x.at = "page" => InSession(n, tk, ck)
  BY <1>2, NilApart DEF Told, InSession
<1>4. d = IF x.code = 200 THEN S!process_response(n, x) ELSE [page |-> n, rq |-> Nil]
  BY DEF S!response
<1> HIDE DEF n, d
<1>5. CASE x.code # 200
  <2>1. d.page = n /\ d.rq = Nil
    BY <1>4, <1>5
  <2>2. Told(x, pg, r, tk, ck) => Fresh(n, r)
    BY <1>2, <1>5 DEF Told
  <2>3. QED
    BY <1>2, <1>3, <2>1, <2>2 DEF d, Receives, Settles
<1>6. CASE x.code = 200 /\ x.op = "user_info"
  <2>1. d = S!set_user_info_data(n)
    BY <1>4, <1>6 DEF S!process_response
  <2>2. PageOK(d.page, h) /\ d.rq = Nil /\ d.page.token = n.token /\ Fresh(d.page, r)
    BY <1>2, <2>1, SimpleSetUser
  <2>3. QED
    BY <1>3, <2>2 DEF d, Receives, Settles, InSession
<1>7. CASE x.code = 200 /\ x.op = "list_pools"
  <2>1. d = S!set_pool_list_data(n, x.list)
    BY <1>4, <1>7 DEF S!process_response
  <2>2. \A e \in x.list : Known(e, h)
    BY DEF ResponseOK
  <2>3. /\ PageOK(d.page, h) /\ d.rq = Nil /\ d.page.token = n.token
        /\ x.list = Whole(r) => Fresh(d.page, r)
    BY <1>2, <2>1, <2>2, SimpleSetList
  <2>4. Told(x, pg, r, tk, ck) => x.list = Whole(r)
    BY <1>7 DEF Told
  <2>5. QED
    BY <1>3, <2>3, <2>4 DEF d, Receives, Settles, InSession
<1>8. CASE x.code = 200 /\ x.op = "delete_pool"
  <2>1. /\ d.page = n
        /\ d.rq = [op |-> "list_pools", pool |-> Nil, item |-> Nil, token |-> n.token]
    BY <1>4, <1>8 DEF S!process_response, S!api_list_pools, S!submit_request
  <2>2. /\ d.rq \in Request /\ RequestOK(d.rq, h) /\ d.rq # Nil
        /\ d.rq.op = "list_pools" /\ d.rq.token = n.token
    BY <1>2, <2>1, AskList DEF PageOK
  <2>3. QED
    BY <1>2, <1>3, <2>1, <2>2 DEF d, Receives, Settles, InSession
<1>9. CASE x.code = 200 /\ x.op \in DescOp
  <2>1. d = S!set_pool_data(n, x.desc)
    BY <1>4, <1>9 DEF S!process_response, DescOp, MemberOp
  <2>2. Known(x.desc, h)
    BY <1>9 DEF ResponseOK
  <2>3. /\ PageOK(d.page, h) /\ d.rq = Nil /\ d.page.token = n.token
        /\ Present(x.desc, r) => Fresh(d.page, r)
    BY <1>2, <2>1, <2>2, SimpleSetPool
  <2>4. Told(x, pg, r, tk, ck) => Present(x.desc, r)
    BY <1>9 DEF Told
  <2>5. QED
    BY <1>3, <2>3, <2>4 DEF d, Receives, Settles, InSession
<1>10. QED
  BY <1>1, <1>5, <1>6, <1>7, <1>8, <1>9 DEF Op, DescOp, MemberOp

\* A list replaces the list of the page.
LEMMA VueSetList ==
    ASSUME NEW h, NEW r, NEW pg, PageOK(pg, h), pg.kind = "ui",
           NEW list, \A d \in list : Known(d, h)
    PROVE  LET d == V!set_pool_list(pg, list)
           IN  /\ PageOK(d.page, h) /\ d.rq = Nil /\ d.page.token = pg.token
               /\ list = Whole(r) => Fresh(d.page, r)
<1> DEFINE n0 == [pg EXCEPT !.list = list]
<1> DEFINE n1 == V!edit_pool_visible(n0, FALSE)
<1> DEFINE d == V!set_pool_list(pg, list)
<1>1. d.page = n1 /\ d.rq = Nil
  BY DEF V!set_pool_list
<1>2. list \subseteq Desc
  BY DEF Known
<1>3. /\ PageOK(n0, h) /\ n0.token = pg.token /\ n0.kind = pg.kind /\ n0.list = list
  BY <1>2 DEF PageOK, Page
<1> HIDE DEF n0
<1>4. PageOK(n1, h) /\ n1.token = n0.token /\ n1.kind = n0.kind /\ n1.list = n0.list
  BY <1>3, VisibleOK
<1> HIDE DEF n1, d
<1>5. ASSUME list = Whole(r)
      PROVE  {e.pool : e \in list} = PoolsIn(r)
  <2>1. \A p \in PoolsIn(r) : copy_pool_prop_to_ui(r, p).pool = p
    BY DEF copy_pool_prop_to_ui
  <2>2. QED
    BY <1>5, <2>1 DEF Whole
<1>6. list = Whole(r) => Fresh(n1, r)
  BY <1>3, <1>4, <1>5 DEF Fresh
<1>7. /\ PageOK(d.page, h) /\ d.rq = Nil /\ d.page.token = pg.token
      /\ list = Whole(r) => Fresh(d.page, r)
  BY <1>1, <1>3, <1>4, <1>6
<1>8. QED
  BY <1>7 DEF d

\* The user-info brings the pair, and the page asks for the list with it.
LEMMA VueSetUser ==
    ASSUME NEW h, NEW pg, PageOK(pg, h), NEW token \in Token
    PROVE  LET d == V!set_user_info_data(pg, token)
           IN  /\ PageOK(d.page, h)
               /\ d.page.token = IF token # Nil THEN token ELSE pg.token
               /\ d.rq \in Request /\ RequestOK(d.rq, h) /\ d.rq # Nil
               /\ d.rq.op = "list_pools" /\ d.rq.token = d.page.token
<1> DEFINE n == IF token # Nil THEN [pg EXCEPT !.token = token] ELSE pg
<1> DEFINE n1 == V!edit_pool_visible(n, FALSE)
<1> DEFINE d == V!set_user_info_data(pg, token)
<1>1. /\ d.page = n1
      /\ d.rq = [op |-> "list_pools", pool |-> Nil, item |-> Nil, token |-> n.token]
  BY DEF V!set_user_info_data, V!api_list_pools, V!submit_request
<1>2. PageOK(n, h) /\ n.token = IF token # Nil THEN token ELSE pg.token
  BY TokenTaken
<1> HIDE DEF n
<1>3. PageOK(n1, h) /\ n1.token = n.token
  BY <1>2, VisibleOK
<1> HIDE DEF n1, d
<1>4. /\ d.rq \in Request /\ RequestOK(d.rq, h) /\ d.rq # Nil
      /\ d.rq.op = "list_pools" /\ d.rq.token = n.token
  BY <1>1, <1>2, AskList DEF PageOK
<1>5. /\ PageOK(d.page, h)
      /\ d.page.token = IF token # Nil THEN token ELSE pg.token
      /\ d.rq \in Request /\ RequestOK(d.rq, h) /\ d.rq # Nil
      /\ d.rq.op = "list_pools" /\ d.rq.token = d.page.token
  BY <1>1, <1>2, <1>3, <1>4
<1>6. QED
  BY <1>5 DEF d

\* The Web-UI made with Vue after a response.
LEMMA VueResponse ==
    ASSUME NEW h, NEW r, NEW tk, NEW ck, NEW pg, PageOK(pg, h), pg.kind = "ui",
           NEW x \in Response, ResponseOK(x, h)
    PROVE  /\ Receives(pg, x, V!response(pg, x), h)
           /\ Told(x, pg, r, tk, ck) /\ x.at = "page" =>
                 Settles(V!response(pg, x), r, tk, ck)
<1> DEFINE d == V!response(pg, x)
<1>1. x.token \in Token /\ x.op \in Op
  BY DEF Response
<1>2. Told(x, pg, r, tk, ck) /\ x.op # "user_info" => InSession(pg, tk, ck)
  BY DEF Told
<1>3. d = IF x.code = 200 THEN V!process_response(pg, x) ELSE [page |-> pg, rq |-> Nil]
  BY DEF V!response
<1> HIDE DEF d
<1>4. CASE x.code # 200
  <2>1. d.page = pg /\ d.rq = Nil
    BY <1>3, <1>4
  <2>2. Told(x, pg, r, tk, ck) => x.op # "user_info" /\ Fresh(pg, r)
    BY <1>4 DEF Told
  <2>3. QED
    BY <1>2, <2>1, <2>2 DEF d, Receives, Settles
<1>5. CASE x.code = 200 /\ x.op = "user_info"
  <2>1. d = V!set_user_info_data(pg, x.token)
    BY <1>3, <1>5 DEF V!process_response
  <2>2. /\ PageOK(d.page, h)
        /\ d.page.token = IF x.token # Nil THEN x.token ELSE pg.token
        /\ d.rq \in Request /\ RequestOK(d.rq, h) /\ d.rq # Nil
        /\ d.rq.op = "list_pools" /\ d.rq.token = d.page.token
    BY <1>1, <2>1, VueSetUser
  <2>3. Told(x, pg, r, tk, ck) /\ x.at = "page" => InSession(d.page, tk, ck)
    BY <1>5, <2>2, NilApart DEF Told, InSession
  <2>4. QED
    BY <2>2, <2>3 DEF d, Receives, Settles, InSession
<1>6. CASE x.code = 200 /\ x.op = "list_pools"
  <2>1. d = V!set_pool_list(pg, x.list)
    BY <1>3, <1>6 DEF V!process_response
  <2>2. \A e \in x.list : Known(e, h)
    BY DEF ResponseOK
  <2>3. /\ PageOK(d.page, h) /\ d.rq = Nil /\ d.page.token = pg.token
        /\ x.list = Whole(r) => Fresh(d.page, r)
    BY <2>1, <2>2, VueSetList
  <2>4. Told(x, pg, r, tk, ck) => x.list = Whole(r)
    BY <1>6 DEF Told
  <2>5. QED
    BY <1>2, <1>6, <2>3, <2>4 DEF d, Receives, Settles, InSession
<1>7. CASE x.code = 200 /\ x.op \in {"make_pool", "delete_pool"}
  <2>1. /\ d.page = pg
        /\ d.rq = [op |-> "list_pools", pool |-> Nil, item |-> Nil, token |-> pg.token]
    BY <1>3, <1>7 DEF V!process_response, V!api_list_pools, V!submit_request
  <2>2. /\ d.rq \in Request /\ RequestOK(d.rq, h) /\ d.rq # Nil
        /\ d.rq.op = "list_pools" /\ d.rq.token = pg.token
    BY <2>1, AskList DEF PageOK
  <2>3. QED
    BY <1>2, <1>7, <2>1, <2>2 DEF d, Receives, Settles, InSession
<1>8. CASE x.code = 200 /\ x.op \in MemberOp
  <2>1. d = V!set_pool_data(pg, x.desc)
    BY <1>3, <1>8 DEF V!process_response, MemberOp
  <2>2. Known(x.desc, h)
    BY <1>8 DEF ResponseOK, DescOp
  <2>3. /\ PageOK(d.page, h) /\ d.rq = Nil /\ d.page.token = pg.token
        /\ Fresh(pg, r) => Fresh(d.page, r)
    BY <2>1, <2>2, VueSetPool
  <2>4. Told(x, pg, r, tk, ck) => Fresh(pg, r) /\ x.op # "user_info"
    BY <1>8 DEF Told, MemberOp
  <2>5. QED
    BY <1>2, <2>3, <2>4 DEF d, Receives, Settles, InSession
<1>9. QED
  BY <1>1, <1>4, <1>5, <1>6, <1>7, <1>8 DEF Op, MemberOp

---------------------------------------------------------------------------
(* Steps keep the types and the arguments.                                 *)

\* A request with the cookie of the browser.
LEMMA FetchTyped ==
    ASSUME cookie \in Token, NEW c \in Conn, NEW t \in Tab, NEW rq \in Request,
           NEW h, RequestOK(rq, h)
    PROVE  /\ Fetch(c, t, rq) \in Message /\ RequestOK(Fetch(c, t, rq), h)
           /\ Fetch(c, t, rq).tab = t /\ Fetch(c, t, rq).op = rq.op
           /\ Fetch(c, t, rq).token = rq.token /\ Fetch(c, t, rq).cookie = cookie
BY DEF Fetch, Message, Request, RequestOK

\* Another page in a tab.
LEMMA PageTyped ==
    ASSUME Typed, NEW t \in Tab, NEW n, PageOK(n, held), held' = held,
           page' = [page EXCEPT ![t] = n]
    PROVE  /\ page' \in [Tab -> Page \cup {Nil}] /\ page'[t] = n
           /\ \A s \in Tab : s # t => page'[s] = page[s]
           /\ \A s \in Loaded' : PageOK(page'[s], held')
           /\ \A m : m.tab \in Tab \cup {Nil} /\ HasPage(m, page, held) => HasPage(m, page', held')
<1>1. page \in [Tab -> Page \cup {Nil}] /\ \A s \in Loaded : PageOK(page[s], held)
  BY DEF Typed, TypeOK, Arguments
<1>2. page' \in [Tab -> Page \cup {Nil}] /\ page'[t] = n
  BY <1>1 DEF PageOK
<1>3. \A s \in Tab : s # t => page'[s] = page[s]
  BY <1>1
<1>4. \A s \in Loaded' : PageOK(page'[s], held')
  BY <1>1, <1>2, <1>3 DEF Loaded
<1>5. \A m : m.tab \in Tab \cup {Nil} /\ HasPage(m, page, held) => HasPage(m, page', held')
  BY <1>2, <1>3 DEF HasPage
<1>6. QED
  BY <1>2, <1>3, <1>4, <1>5

\* A click that submits a request.
LEMMA ClickTyped ==
    ASSUME Typed, NEW t \in Tab, NEW d, Submits(page[t], d, held, po), Click(t, d)
    PROVE  Typed'
<1>1. /\ page' = [page EXCEPT ![t] = d.page]
      /\ clicks' = clicks + 1
      /\ hurried' = hurried \cup (Tab \ {t}) \cup (IF Quiet(t) THEN {} ELSE {t})
      /\ UNCHANGED <<tn, pairs, cookie, po, used, held, rsp>>
  BY DEF Click, Count
<1>2. PICK c \in Conn : net' = net \cup {Fetch(c, t, d.rq)}
  BY DEF Click, Free
<1> DEFINE f == Fetch(c, t, d.rq)
<1>3. f \in Message /\ RequestOK(f, held) /\ f.tab = t
  BY FetchTyped DEF Typed, TypeOK, ServiceTypeOK, Submits
<1> HIDE DEF f
<1>4. PageOK(d.page, held)
  BY DEF Submits
<1>5. /\ page' \in [Tab -> Page \cup {Nil}] /\ page'[t] = d.page
      /\ \A s \in Loaded' : PageOK(page'[s], held')
      /\ \A m : m.tab \in Tab \cup {Nil} /\ HasPage(m, page, held) => HasPage(m, page', held')
  BY <1>1, <1>4, PageTyped
<1>6. TypeOK'
  BY <1>1, <1>2, <1>3, <1>5 DEF Typed, TypeOK, ServiceTypeOK, f
<1>7. \A m \in net \cup rsp : m.tab \in Tab \cup {Nil}
  BY DEF Typed, TypeOK, ServiceTypeOK, Message, Response
<1>8. HasPage(f, page', held')
  BY <1>1, <1>3, <1>4, <1>5 DEF HasPage
<1>9. \A q \in net' : RequestOK(q, held') /\ HasPage(q, page', held')
  BY <1>1, <1>2, <1>3, <1>5, <1>7, <1>8 DEF Typed, Arguments, f
<1>10. \A x \in rsp' : ResponseOK(x, held') /\ HasPage(x, page', held')
  BY <1>1, <1>5, <1>7 DEF Typed, Arguments
<1>11. PoolsKnown(po', held')
  BY <1>1 DEF Typed, Arguments
<1>12. Arguments'
  BY <1>5, <1>9, <1>10, <1>11 DEF Arguments
<1>13. QED
  BY <1>6, <1>12 DEF Typed

\* A click that changes the page only.
LEMMA LocalTyped ==
    ASSUME Typed, NEW t \in Tab, NEW d, Alters(page[t], d, held, po), Local(t, d)
    PROVE  Typed'
<1>1. /\ page' = [page EXCEPT ![t] = d.page]
      /\ hurried' = hurried \cup (IF Quiet(t) THEN {} ELSE {t})
      /\ UNCHANGED <<tn, pairs, cookie, po, used, held, net, rsp, clicks>>
  BY DEF Local, service
<1>2. PageOK(d.page, held)
  BY DEF Alters
<1>3. /\ page' \in [Tab -> Page \cup {Nil}]
      /\ \A s \in Loaded' : PageOK(page'[s], held')
      /\ \A m : m.tab \in Tab \cup {Nil} /\ HasPage(m, page, held) => HasPage(m, page', held')
  BY <1>1, <1>2, PageTyped
<1>4. TypeOK'
  BY <1>1, <1>3 DEF Typed, TypeOK, ServiceTypeOK
<1>5. \A m \in net \cup rsp : m.tab \in Tab \cup {Nil}
  BY DEF Typed, TypeOK, ServiceTypeOK, Message, Response
<1>6. Arguments'
  BY <1>1, <1>3, <1>5 DEF Typed, Arguments
<1>7. QED
  BY <1>4, <1>6 DEF Typed

\* The messages of a page that goes away keep all but their tab.
LEMMA OrphanTyped ==
    ASSUME Typed, NEW t \in Tab
    PROVE  /\ \A m \in Orphan(net, t) : m \in Message /\ RequestOK(m, held) /\ HasPage(m, page, held)
                                        /\ m.tab # t
           /\ \A m \in Orphan(rsp, t) : m \in Response /\ ResponseOK(m, held) /\ HasPage(m, page, held)
                                        /\ m.tab # t
<1>1. /\ \A q \in net : q \in Message /\ RequestOK(q, held) /\ HasPage(q, page, held)
      /\ \A x \in rsp : x \in Response /\ ResponseOK(x, held) /\ HasPage(x, page, held)
  BY DEF Typed, TypeOK, ServiceTypeOK, Arguments
<1>2. ASSUME NEW m \in Orphan(net, t)
      PROVE  m \in Message /\ RequestOK(m, held) /\ HasPage(m, page, held) /\ m.tab # t
  <2>1. PICK q \in net : m = IF q.tab = t THEN [q EXCEPT !.tab = Nil] ELSE q
    BY DEF Orphan
  <2>2. CASE q.tab # t
    BY <1>1, <2>1, <2>2
  <2>3. CASE q.tab = t
    <3>1. /\ m \in Message /\ m.tab = Nil /\ m.op = q.op /\ m.pool = q.pool
          /\ m.item = q.item
      BY <1>1, <2>1, <2>3 DEF Message
    <3>2. RequestOK(m, held)
      BY <1>1, <3>1 DEF RequestOK
    <3>3. QED
      BY <3>1, <3>2, NilApart DEF HasPage
  <2>4. QED
    BY <2>2, <2>3
<1>3. ASSUME NEW m \in Orphan(rsp, t)
      PROVE  m \in Response /\ ResponseOK(m, held) /\ HasPage(m, page, held) /\ m.tab # t
  <2>1. PICK x \in rsp : m = IF x.tab = t THEN [x EXCEPT !.tab = Nil] ELSE x
    BY DEF Orphan
  <2>2. CASE x.tab # t
    BY <1>1, <2>1, <2>2
  <2>3. CASE x.tab = t
    <3>1. /\ m \in Response /\ m.tab = Nil /\ m.op = x.op /\ m.code = x.code
          /\ m.list = x.list /\ m.desc = x.desc
      BY <1>1, <2>1, <2>3 DEF Response
    <3>2. ResponseOK(m, held)
      BY <1>1, <3>1 DEF ResponseOK
    <3>3. QED
      BY <3>1, <3>2, NilApart DEF HasPage
  <2>4. QED
    BY <2>2, <2>3
<1>4. QED
  BY <1>2, <1>3

\* What a page of either kind starts with.
Starts(d) ==
    /\ PageOK(d.page, held) /\ Fresh(d.page, po)
    /\ d.rq \in Request /\ RequestOK(d.rq, held) /\ d.rq.op = "user_info"

\* Loading a page of either kind.
LEMMA LoadStarts ==
    ASSUME Typed, NEW t \in Tab, Load(t)
    PROVE  \E d, c : /\ Starts(d) /\ c \in Conn
                     /\ page' = [page EXCEPT ![t] = d.page]
                     /\ net' = Orphan(net, t) \cup {Fetch(c, t, d.rq)}
<1>1. PICK d \in {S!start_ui, V!data}, c \in Free :
          /\ page' = [page EXCEPT ![t] = d.page]
          /\ net' = Orphan(net, t) \cup {Fetch(c, t, d.rq)}
  BY DEF Load
<1>2. Starts(S!start_ui)
  BY SimpleStart DEF Starts
<1>3. Starts(V!data)
  BY VueStart DEF Starts
<1>4. QED
  BY <1>1, <1>2, <1>3 DEF Free

\* Loading a page keeps all messages in order.
LEMMA LoadTyped ==
    ASSUME Typed, NEW t \in Tab, Load(t)
    PROVE  Typed'
<1>1. PICK d, c : /\ Starts(d) /\ c \in Conn
                  /\ page' = [page EXCEPT ![t] = d.page]
                  /\ net' = Orphan(net, t) \cup {Fetch(c, t, d.rq)}
  BY LoadStarts
<1>2. /\ clicks' = clicks + 1 /\ rsp' = Orphan(rsp, t)
      /\ hurried' = (Tab \ {t}) \cup (IF net \cup rsp = {} THEN {} ELSE {t})
      /\ UNCHANGED <<tn, pairs, cookie, po, used, held>>
  BY DEF Load, Count
<1> DEFINE f == Fetch(c, t, d.rq)
<1>3. f \in Message /\ RequestOK(f, held) /\ f.tab = t
  BY <1>1, FetchTyped DEF Typed, TypeOK, ServiceTypeOK, Starts
<1> HIDE DEF f
<1>4. PageOK(d.page, held)
  BY <1>1 DEF Starts
<1>5. /\ page' \in [Tab -> Page \cup {Nil}] /\ page'[t] = d.page
      /\ \A s \in Loaded' : PageOK(page'[s], held')
      /\ \A m : m.tab \in Tab \cup {Nil} /\ HasPage(m, page, held) => HasPage(m, page', held')
  BY <1>1, <1>2, <1>4, PageTyped
<1>6. /\ \A m \in Orphan(net, t) : m \in Message /\ RequestOK(m, held) /\ HasPage(m, page, held)
      /\ \A m \in Orphan(rsp, t) : m \in Response /\ ResponseOK(m, held) /\ HasPage(m, page, held)
  BY OrphanTyped
<1>7. TypeOK'
  BY <1>1, <1>2, <1>3, <1>5, <1>6 DEF Typed, TypeOK, ServiceTypeOK, f
<1>8. \A m \in Orphan(net, t) \cup Orphan(rsp, t) : m.tab \in Tab \cup {Nil}
  BY <1>6 DEF Message, Response
<1>9. HasPage(f, page', held')
  BY <1>2, <1>3, <1>4, <1>5 DEF HasPage
<1>10. \A q \in net' : RequestOK(q, held') /\ HasPage(q, page', held')
  BY <1>1, <1>2, <1>3, <1>5, <1>6, <1>8, <1>9 DEF f
<1>11. \A x \in rsp' : ResponseOK(x, held') /\ HasPage(x, page', held')
  BY <1>2, <1>5, <1>6, <1>8
<1>12. PoolsKnown(po', held')
  BY <1>2 DEF Typed, Arguments
<1>13. Arguments'
  BY <1>5, <1>10, <1>11, <1>12 DEF Arguments
<1>14. QED
  BY <1>7, <1>13 DEF Typed

---------------------------------------------------------------------------
(* What the handlers of Registrar answer.                                  *)

\* The answer to q, and what the handler has made of the records.
Served(q, code, token, list, desc) ==
    /\ Answer(q, code, token, list, desc)
    /\ code \in Nat /\ token \in Token /\ desc \in Desc \cup {Nil}
    /\ tn' \in Token /\ pairs' \in Nat /\ cookie' = cookie
    /\ po' \in [Pool -> PoolRecord \cup {Nil}] /\ PoolsKnown(po', held')
    /\ used' \subseteq Pool \cup Key
    /\ held' \subseteq Pool \X (Bucket \cup Key) /\ held \subseteq held'
    /\ \A d \in list : Known(d, held')
    /\ q.op \in DescOp /\ code = 200 => Known(desc, held') /\ Present(desc, po')
    /\ q.op = "user_info" => code = 200 /\ token = tn' /\ tn' \in Nat \ {0} /\ po' = po
    /\ q.op # "user_info" => tn' = tn /\ token = Nil
    /\ q.op # "user_info" /\ code # 200 => po' = po
    /\ q.op = "list_pools" =>
          po' = po /\ (check_csrf_tokens(q) => code = 200 /\ list = Whole(po))
                   /\ (~check_csrf_tokens(q) => code # 200)
    /\ q.op \in MemberOp => PoolsIn(po') = PoolsIn(po)

\* The types of the records, for the handlers.
LEMMA Records ==
    ASSUME Typed
    PROVE  /\ tn \in Token /\ pairs \in Nat /\ cookie \in Token
           /\ po \in [Pool -> PoolRecord \cup {Nil}] /\ PoolsKnown(po, held)
           /\ used \subseteq Pool \cup Key
           /\ held \subseteq Pool \X (Bucket \cup Key)
           /\ Existing = PoolsIn(po)
           /\ \A q \in net : q \in Message /\ RequestOK(q, held)
BY DEF Typed, TypeOK, ServiceTypeOK, Arguments, Existing, PoolsIn

\* A request that is refused, or whose work is undone.
LEMMA FailServed ==
    ASSUME Typed, NEW q \in net, NEW code \in Nat, code # 200, Fail(q, code), Unaltered,
           q.op # "user_info", q.op = "list_pools" => ~check_csrf_tokens(q)
    PROVE  Served(q, code, Nil, {}, Nil)
<1>1. /\ tn' = tn /\ pairs' = pairs /\ cookie' = cookie /\ po' = po /\ used' = used
      /\ held' = held
  BY DEF Unaltered
<1>2. Answer(q, code, Nil, {}, Nil)
  BY DEF Fail
<1>3. QED
  BY <1>1, <1>2, Records DEF Served, Token

\* A description of a pool that exists.
LEMMA CopyTyped ==
    ASSUME NEW r \in [Pool -> PoolRecord \cup {Nil}], NEW p \in Pool, r[p] \in PoolRecord
    PROVE  /\ copy_pool_prop_to_ui(r, p) \in Desc
           /\ copy_pool_prop_to_ui(r, p).pool = p
           /\ Pairs(copy_pool_prop_to_ui(r, p)) \subseteq Pool \X (Bucket \cup Key)
           /\ Present(copy_pool_prop_to_ui(r, p), r)
<1> DEFINE d == copy_pool_prop_to_ui(r, p)
<1>1. d \in Desc /\ d.pool = p
  BY DEF copy_pool_prop_to_ui, Desc, PoolRecord
<1>2. p \in PoolsIn(r)
  BY NilApart DEF PoolsIn
<1> HIDE DEF d
<1>3. Pairs(d) \subseteq Pool \X (Bucket \cup Key)
  BY <1>1 DEF Desc, Pairs
<1>4. d.pool \in PoolsIn(r) /\ copy_pool_prop_to_ui(r, d.pool) = d
  BY <1>1, <1>2 DEF d
<1>5. Present(d, r)
  BY <1>4 DEF Present
<1>6. QED
  BY <1>1, <1>3, <1>5 DEF d

\* One pool is written: the others are as they were.
LEMMA OnePoolWritten ==
    ASSUME NEW r \in [Pool -> PoolRecord \cup {Nil}], NEW h, NEW g, h \subseteq g,
           PoolsKnown(r, h), NEW p \in Pool, NEW s \in [Pool -> PoolRecord \cup {Nil}],
           \A x \in Pool : x # p => s[x] = r[x],
           s[p] # Nil => Pairs(copy_pool_prop_to_ui(s, p)) \subseteq g
    PROVE  /\ PoolsKnown(s, g)
           /\ PoolsIn(s) = IF s[p] = Nil THEN PoolsIn(r) \ {p} ELSE PoolsIn(r) \cup {p}
<1>2. PoolsIn(s) = IF s[p] = Nil THEN PoolsIn(r) \ {p} ELSE PoolsIn(r) \cup {p}
  BY DEF PoolsIn
<1>3. ASSUME NEW x \in PoolsIn(s)
      PROVE  Known(copy_pool_prop_to_ui(s, x), g)
  <2>1. x \in Pool /\ s[x] # Nil
    BY <1>3 DEF PoolsIn
  <2>2. CASE x = p
    <3>1. s[p] \in PoolRecord /\ s[p] # Nil
      BY <2>1, <2>2
    <3>2. copy_pool_prop_to_ui(s, p) \in Desc
      BY <3>1, CopyTyped
    <3>3. QED
      BY <2>2, <3>1, <3>2 DEF Known
  <2>3. CASE x # p
    <3>1. x \in PoolsIn(r)
      BY <2>1, <2>3 DEF PoolsIn
    <3>2. Known(copy_pool_prop_to_ui(r, x), h)
      BY <3>1 DEF PoolsKnown
    <3>3. copy_pool_prop_to_ui(s, x) = copy_pool_prop_to_ui(r, x)
      BY <2>1, <2>3 DEF copy_pool_prop_to_ui
    <3>4. QED
      BY <3>2, <3>3, KnownGrows
  <2>4. QED
    BY <2>2, <2>3
<1>4. QED
  BY <1>2, <1>3 DEF PoolsKnown

\* The member operations: the pool is written and described.
LEMMA SetPoolServed ==
    ASSUME Typed, NEW q \in net, q.op \in MemberOp, Admitted(q), NEW v \in PoolRecord,
           SetPool(q, v), used' \subseteq Pool \cup Key
    PROVE  Served(q, 200, Nil, {}, copy_pool_prop_to_ui(po', q.pool))
<1> DEFINE d == copy_pool_prop_to_ui(po', q.pool)
<1>1. q.pool \in Pool /\ q.op # "user_info" /\ q.op # "list_pools"
  BY Records DEF RequestOK, MemberOp
<1>2. po[q.pool] # Nil
  BY <1>1, NilApart DEF Admitted
<1>3. /\ po' = [po EXCEPT ![q.pool] = v] /\ held' = held \cup Pairs(d)
      /\ Answer(q, 200, Nil, {}, d)
      /\ tn' = tn /\ pairs' = pairs /\ cookie' = cookie
  BY DEF SetPool
<1>4. v # Nil
  BY NilApart
<1>5. /\ po' \in [Pool -> PoolRecord \cup {Nil}] /\ po'[q.pool] = v
      /\ PoolsKnown(po', held') /\ PoolsIn(po') = PoolsIn(po) \cup {q.pool}
  <2>1. po \in [Pool -> PoolRecord \cup {Nil}] /\ PoolsKnown(po, held)
    BY Records
  <2>2. held \subseteq held' /\ Pairs(copy_pool_prop_to_ui(po', q.pool)) \subseteq held'
    BY <1>3
  <2>3. /\ po' \in [Pool -> PoolRecord \cup {Nil}] /\ po'[q.pool] = v
        /\ \A x \in Pool : x # q.pool => po'[x] = po[x]
    BY <1>1, <1>3, <2>1
  <2> HIDE DEF d
  <2>4. QED
    BY <1>1, <1>4, <2>1, <2>2, <2>3, OnePoolWritten
<1>6. PoolsIn(po') = PoolsIn(po)
  BY <1>1, <1>2, <1>5 DEF PoolsIn
<1>7. d \in Desc /\ Pairs(d) \subseteq Pool \X (Bucket \cup Key) /\ Present(d, po')
  BY <1>1, <1>5, CopyTyped
<1> HIDE DEF d
<1>8. held' \subseteq Pool \X (Bucket \cup Key) /\ held \subseteq held' /\ Known(d, held')
  BY <1>3, <1>7, Records DEF Known
<1>9. Served(q, 200, Nil, {}, d)
  BY <1>1, <1>3, <1>5, <1>6, <1>7, <1>8, Records DEF Served, Token
<1>10. QED
  BY <1>9 DEF d

\* A handler answers in one of these ways.
IsServed(q) == \E code, token, list, desc : Served(q, code, token, list, desc)

\* GET /user-info makes a pair that no request has had before.
LEMMA UserInfoServed ==
    ASSUME Typed, NEW q \in net, return_user_info(q)
    PROVE  IsServed(q)
<1>1. /\ q.op = "user_info" /\ pairs' = pairs + 1 /\ tn' = pairs + 1
      /\ Answer(q, 200, pairs + 1, {}, Nil)
      /\ cookie' = cookie /\ po' = po /\ used' = used /\ held' = held
  BY DEF return_user_info
<1>2. Served(q, 200, pairs + 1, {}, Nil)
  BY <1>1, Records DEF Served, Token, DescOp, MemberOp
<1>3. QED
  BY <1>2 DEF IsServed

\* Refusals change nothing.
LEMMA RefuseServed ==
    ASSUME Typed, NEW q \in net, RefuseTokens(q) \/ RefusePool(q)
    PROVE  IsServed(q)
<1>1. CASE RefuseTokens(q)
  <2> DEFINE code == IF tn = Nil THEN 500 ELSE 401
  <2>1. /\ q.op # "user_info" /\ ~check_csrf_tokens(q) /\ Fail(q, code) /\ Unaltered
    BY <1>1 DEF RefuseTokens
  <2>2. code \in Nat /\ code # 200
    OBVIOUS
  <2> HIDE DEF code
  <2>3. Served(q, code, Nil, {}, Nil)
    BY <2>1, <2>2, FailServed
  <2>4. QED
    BY <2>3 DEF IsServed
<1>2. CASE RefusePool(q)
  <2>1. /\ q.op # "user_info" /\ Fail(q, 404) /\ Unaltered /\ q.pool # Nil
    BY <1>2 DEF RefusePool, Admitted
  <2>2. q.op # "list_pools"
    BY <2>1, Records DEF RequestOK
  <2>3. Served(q, 404, Nil, {}, Nil)
    BY <2>1, <2>2, FailServed
  <2>4. QED
    BY <2>3 DEF IsServed
<1>3. QED
  BY <1>1, <1>2

\* The list is of the pools that exist, with their members.
LEMMA ListServed ==
    ASSUME Typed, NEW q \in net, list_pool_and_return_response(q)
    PROVE  IsServed(q)
<1>1. /\ q.op = "list_pools" /\ check_csrf_tokens(q)
      /\ Answer(q, 200, Nil, {copy_pool_prop_to_ui(po, p) : p \in Existing}, Nil)
      /\ tn' = tn /\ pairs' = pairs /\ cookie' = cookie /\ po' = po /\ used' = used
      /\ held' = held
  BY DEF list_pool_and_return_response, Admitted, Unaltered
<1>2. Answer(q, 200, Nil, Whole(po), Nil)
  BY <1>1, Records DEF Whole
<1>3. \A d \in Whole(po) : Known(d, held)
  BY Records DEF Whole, PoolsKnown
<1>4. Served(q, 200, Nil, Whole(po), Nil)
  BY <1>1, <1>2, <1>3, Records DEF Served, Token, DescOp, MemberOp
<1>5. QED
  BY <1>4 DEF IsServed

\* A new pool is empty, and described.
LEMMA MakePoolServed ==
    ASSUME Typed, NEW q \in net, make_pool_and_return_response(q)
    PROVE  IsServed(q)
<1>1. q.op = "make_pool"
  BY DEF make_pool_and_return_response
<1>2. ASSUME NEW code \in {400, 409}, Fail(q, code), Unaltered
      PROVE  IsServed(q)
  <2>1. Served(q, code, Nil, {}, Nil)
    BY <1>1, <1>2, FailServed
  <2>2. QED
    BY <2>1 DEF IsServed
<1>3. CASE /\ \E p \in Pool \ used :
                /\ po' = [po EXCEPT ![p] = [dir |-> q.item, bkts |-> {}, keys |-> {}]]
                /\ used' = used \cup {p}
                /\ Answer(q, 200, Nil, {}, copy_pool_prop_to_ui(po', p))
           /\ UNCHANGED <<tn, pairs, cookie, held>>
  <2>1. PICK p \in Pool \ used :
                /\ po' = [po EXCEPT ![p] = [dir |-> q.item, bkts |-> {}, keys |-> {}]]
                /\ used' = used \cup {p}
                /\ Answer(q, 200, Nil, {}, copy_pool_prop_to_ui(po', p))
    BY <1>3
  <2> DEFINE v == [dir |-> q.item, bkts |-> {}, keys |-> {}]
  <2> DEFINE d == copy_pool_prop_to_ui(po', p)
  <2>2. q.item \in Dir
    BY <1>1, Records DEF RequestOK
  <2>3. v \in PoolRecord /\ v.bkts = {} /\ v.keys = {}
    BY <2>2 DEF PoolRecord
  <2>4. po' = [po EXCEPT ![p] = v] /\ tn' = tn /\ pairs' = pairs /\ cookie' = cookie
        /\ held' = held
    BY <1>3, <2>1
  <2> HIDE DEF v
  <2>5. /\ po' \in [Pool -> PoolRecord \cup {Nil}] /\ po'[p] = v
        /\ \A x \in Pool : x # p => po'[x] = po[x]
    BY <2>3, <2>4, Records
  <2>6. Pairs(d) = {}
    BY <2>3, <2>5 DEF Pairs, copy_pool_prop_to_ui
  <2>7. PoolsKnown(po', held')
    <3>1. po \in [Pool -> PoolRecord \cup {Nil}] /\ PoolsKnown(po, held)
      BY Records
    <3>2. Pairs(copy_pool_prop_to_ui(po', p)) \subseteq held' /\ held \subseteq held'
      BY <2>4, <2>6
    <3> HIDE DEF d
    <3>3. QED
      BY <2>5, <3>1, <3>2, OnePoolWritten
  <2>8. d \in Desc /\ Present(d, po')
    BY <2>3, <2>5, CopyTyped
  <2> HIDE DEF d
  <2>9. Known(d, held')
    BY <2>6, <2>8 DEF Known
  <2>10. Served(q, 200, Nil, {}, d)
    BY <1>1, <2>1, <2>4, <2>5, <2>7, <2>8, <2>9, Records DEF Served, Token, MemberOp, d
  <2>11. QED
    BY <2>10 DEF IsServed
<1>4. QED
  BY <1>2, <1>3 DEF make_pool_and_return_response

\* A deleted pool is gone.
LEMMA DeletePoolServed ==
    ASSUME Typed, NEW q \in net, delete_pool_and_return_response(q)
    PROVE  IsServed(q)
<1>1. /\ q.op = "delete_pool" /\ Answer(q, 200, Nil, {}, Nil)
      /\ po' = [po EXCEPT ![q.pool] = Nil]
      /\ tn' = tn /\ pairs' = pairs /\ cookie' = cookie /\ used' = used /\ held' = held
  BY DEF delete_pool_and_return_response
<1>2. q.pool \in Pool
  BY <1>1, Records DEF RequestOK
<1>3. po \in [Pool -> PoolRecord \cup {Nil}] /\ PoolsKnown(po, held)
  BY Records
<1>4. /\ po' \in [Pool -> PoolRecord \cup {Nil}] /\ po'[q.pool] = Nil
      /\ \A x \in Pool : x # q.pool => po'[x] = po[x]
  BY <1>1, <1>2, <1>3
<1>5. PoolsKnown(po', held')
  <2>1. held \subseteq held'
    BY <1>1
  <2>2. QED
    BY <1>2, <1>3, <1>4, <2>1, OnePoolWritten
<1>6. Served(q, 200, Nil, {}, Nil)
  BY <1>1, <1>4, <1>5, Records DEF Served, Token, DescOp, MemberOp
<1>7. QED
  BY <1>6 DEF IsServed

\* A member operation finds the record of its pool.
LEMMA MemberPool ==
    ASSUME Typed, NEW q \in net, q.op \in MemberOp, Admitted(q)
    PROVE  /\ q.pool \in Pool /\ po[q.pool] \in PoolRecord
           /\ q.op # "user_info" /\ q.op # "list_pools"
<1>1. q.pool \in Pool /\ q.op # "user_info" /\ q.op # "list_pools"
  BY Records DEF RequestOK, MemberOp
<1>2. QED
  BY <1>1, Records, NilApart DEF Admitted

\* A bucket is a member when the answer says so.
LEMMA MakeBucketServed ==
    ASSUME Typed, NEW q \in net, make_bucket_and_return_response(q)
    PROVE  IsServed(q)
<1>1. q.op = "make_bucket" /\ q.op \in MemberOp /\ Admitted(q)
  BY DEF make_bucket_and_return_response, MemberOp
<1>2. ASSUME NEW code \in {409, 502}, Fail(q, code), Unaltered
      PROVE  IsServed(q)
  <2>1. code \in Nat /\ code # 200
    BY <1>2
  <2>2. Served(q, code, Nil, {}, Nil)
    BY <1>1, <1>2, <2>1, FailServed
  <2>3. QED
    BY <2>2 DEF IsServed
<1>3. ASSUME SetPool(q, [po[q.pool] EXCEPT !.bkts = @ \cup {q.item}]), UNCHANGED used
      PROVE  IsServed(q)
  <2> DEFINE v == [po[q.pool] EXCEPT !.bkts = @ \cup {q.item}]
  <2>1. q.item \in Bucket
    BY <1>1, Records DEF RequestOK
  <2>2. v \in PoolRecord
    BY <1>1, <2>1, MemberPool DEF PoolRecord
  <2> HIDE DEF v
  <2>3. SetPool(q, v) /\ used' \subseteq Pool \cup Key
    BY <1>3, Records DEF v
  <2>4. Served(q, 200, Nil, {}, copy_pool_prop_to_ui(po', q.pool))
    BY <1>1, <2>2, <2>3, SetPoolServed
  <2>5. QED
    BY <2>4 DEF IsServed
<1>4. QED
  BY <1>2, <1>3 DEF make_bucket_and_return_response

\* A bucket is no member when the answer says so.
LEMMA DeleteBucketServed ==
    ASSUME Typed, NEW q \in net, delete_bucket_and_return_response(q)
    PROVE  IsServed(q)
<1>1. q.op = "delete_bucket" /\ q.op \in MemberOp /\ Admitted(q)
  BY DEF delete_bucket_and_return_response, MemberOp
<1>2. CASE Fail(q, 404) /\ Unaltered
  <2>1. Served(q, 404, Nil, {}, Nil)
    BY <1>1, <1>2, FailServed
  <2>2. QED
    BY <2>1 DEF IsServed
<1>3. ASSUME SetPool(q, [po[q.pool] EXCEPT !.bkts = @ \ {q.item}]), UNCHANGED used
      PROVE  IsServed(q)
  <2> DEFINE v == [po[q.pool] EXCEPT !.bkts = @ \ {q.item}]
  <2>1. v \in PoolRecord
    BY <1>1, MemberPool DEF PoolRecord
  <2> HIDE DEF v
  <2>2. SetPool(q, v) /\ used' \subseteq Pool \cup Key
    BY <1>3, Records DEF v
  <2>3. Served(q, 200, Nil, {}, copy_pool_prop_to_ui(po', q.pool))
    BY <1>1, <2>1, <2>2, SetPoolServed
  <2>4. QED
    BY <2>3 DEF IsServed
<1>4. QED
  BY <1>2, <1>3 DEF delete_bucket_and_return_response

\* A key is a new name.
LEMMA MakeSecretServed ==
    ASSUME Typed, NEW q \in net, make_secret_and_return_response(q)
    PROVE  IsServed(q)
<1>1. q.op = "make_secret" /\ q.op \in MemberOp /\ Admitted(q)
  BY DEF make_secret_and_return_response, MemberOp
<1>2. CASE Fail(q, 400) /\ Unaltered
  <2>1. Served(q, 400, Nil, {}, Nil)
    BY <1>1, <1>2, FailServed
  <2>2. QED
    BY <2>1 DEF IsServed
<1>3. ASSUME NEW k \in Key \ used, used' = used \cup {k},
             SetPool(q, [po[q.pool] EXCEPT !.keys = @ \cup {k}])
      PROVE  IsServed(q)
  <2> DEFINE v == [po[q.pool] EXCEPT !.keys = @ \cup {k}]
  <2>1. v \in PoolRecord
    BY <1>1, MemberPool DEF PoolRecord
  <2> HIDE DEF v
  <2>2. SetPool(q, v) /\ used' \subseteq Pool \cup Key
    BY <1>3, Records DEF v
  <2>3. Served(q, 200, Nil, {}, copy_pool_prop_to_ui(po', q.pool))
    BY <1>1, <2>1, <2>2, SetPoolServed
  <2>4. QED
    BY <2>3 DEF IsServed
<1>4. QED
  BY <1>2, <1>3 DEF make_secret_and_return_response

\* A deleted key is no member.
LEMMA DeleteSecretServed ==
    ASSUME Typed, NEW q \in net, delete_secret_and_return_response(q)
    PROVE  IsServed(q)
<1>1. q.op = "delete_secret" /\ q.op \in MemberOp /\ Admitted(q)
  BY DEF delete_secret_and_return_response, MemberOp
<1>2. CASE Fail(q, 404) /\ Unaltered
  <2>1. Served(q, 404, Nil, {}, Nil)
    BY <1>1, <1>2, FailServed
  <2>2. QED
    BY <2>1 DEF IsServed
<1>3. ASSUME SetPool(q, [po[q.pool] EXCEPT !.keys = @ \ {q.item}]), UNCHANGED used
      PROVE  IsServed(q)
  <2> DEFINE v == [po[q.pool] EXCEPT !.keys = @ \ {q.item}]
  <2>1. v \in PoolRecord
    BY <1>1, MemberPool DEF PoolRecord
  <2> HIDE DEF v
  <2>2. SetPool(q, v) /\ used' \subseteq Pool \cup Key
    BY <1>3, Records DEF v
  <2>3. Served(q, 200, Nil, {}, copy_pool_prop_to_ui(po', q.pool))
    BY <1>1, <2>1, <2>2, SetPoolServed
  <2>4. QED
    BY <2>3 DEF IsServed
<1>4. QED
  BY <1>2, <1>3 DEF delete_secret_and_return_response

\* Every handler.
LEMMA ServeServed ==
    ASSUME Typed, NEW q \in net, Serve(q)
    PROVE  IsServed(q)
BY UserInfoServed, RefuseServed, ListServed, MakePoolServed, DeletePoolServed,
   MakeBucketServed, DeleteBucketServed, MakeSecretServed, DeleteSecretServed DEF Serve

\* Serving a request.
LEMMA ServeTyped ==
    ASSUME Typed, ServeOne
    PROVE  Typed'
<1>1. PICK q \in net : Serve(q)
  BY DEF ServeOne
<1>2. PICK code, token, list, desc : Served(q, code, token, list, desc)
  BY <1>1, ServeServed DEF IsServed
<1>3. page' = page /\ clicks' = clicks /\ hurried' = hurried
  BY DEF ServeOne
<1> DEFINE x == [conn |-> q.conn, tab |-> q.tab, op |-> q.op, code |-> code,
                 token |-> token, list |-> list, desc |-> desc, at |-> "wire"]
<1>4. net' = net \ {q} /\ rsp' = rsp \cup {x}
  BY <1>2 DEF Served, Answer
<1>5. q \in Message /\ HasPage(q, page, held)
  BY DEF Typed, TypeOK, ServiceTypeOK, Arguments
<1>6. list \subseteq Desc
  BY <1>2 DEF Served, Known
<1>7. x \in Response /\ x.tab = q.tab
  BY <1>2, <1>5, <1>6 DEF Served, Message, Response
<1>8. ResponseOK(x, held')
  BY <1>2 DEF Served, ResponseOK
<1> HIDE DEF x
<1>9. held \subseteq held'
  BY <1>2 DEF Served
<1>10. TypeOK'
  BY <1>2, <1>3, <1>4, <1>7 DEF Typed, TypeOK, ServiceTypeOK, Served
<1>11. \A m : HasPage(m, page, held) => HasPage(m, page', held')
  BY <1>3, <1>9, KnownGrows DEF HasPage
<1>12. \A m \in net' : RequestOK(m, held') /\ HasPage(m, page', held')
  BY <1>4, <1>9, <1>11, KnownGrows DEF Typed, Arguments
<1>13. \A m \in rsp' : ResponseOK(m, held') /\ HasPage(m, page', held')
  <2>1. HasPage(x, page', held')
    BY <1>5, <1>7, <1>11 DEF HasPage
  <2>2. QED
    BY <1>4, <1>8, <1>9, <1>11, <2>1, KnownGrows DEF Typed, Arguments
<1>14. \A t \in Loaded' : PageOK(page'[t], held')
  BY <1>3, <1>9, KnownGrows DEF Typed, Arguments, Loaded
<1>15. PoolsKnown(po', held')
  BY <1>2 DEF Served
<1>16. Arguments'
  BY <1>12, <1>13, <1>14, <1>15 DEF Arguments
<1>17. QED
  BY <1>10, <1>16 DEF Typed

\* Fewer messages.
LEMMA FewerTyped ==
    ASSUME Typed, net' \subseteq net, rsp' \subseteq rsp, tn' \in Token, cookie' \in Token,
           hurried' \subseteq Tab, UNCHANGED <<pairs, po, used, held, page, clicks>>
    PROVE  Typed'
<1>1. TypeOK'
  BY DEF Typed, TypeOK, ServiceTypeOK
<1>2. Arguments'
  BY DEF Typed, Arguments, Loaded
<1>3. QED
  BY <1>1, <1>2 DEF Typed

\* The head of a response arrives.
LEMMA HeadersTyped ==
    ASSUME Typed, Headers
    PROVE  Typed'
<1>1. PICK r \in rsp :
          /\ cookie' = IF r.token # Nil THEN r.token ELSE cookie
          /\ rsp' = IF r.tab = Nil THEN rsp \ {r}
                    ELSE (rsp \ {r}) \cup {[r EXCEPT !.at = "page"]}
  BY DEF Headers
<1>2. UNCHANGED <<tn, pairs, po, used, held, net, page, clicks, hurried>>
  BY DEF Headers
<1>3. r \in Response /\ ResponseOK(r, held) /\ HasPage(r, page, held)
  BY DEF Typed, TypeOK, ServiceTypeOK, Arguments
<1>4. cookie' \in Token
  BY <1>1, <1>3 DEF Response, Typed, TypeOK, ServiceTypeOK
<1> DEFINE n == [r EXCEPT !.at = "page"]
<1>5. /\ n \in Response /\ n.tab = r.tab /\ n.op = r.op /\ n.code = r.code
      /\ n.list = r.list /\ n.desc = r.desc
  BY <1>3 DEF Response
<1>6. rsp' \subseteq rsp \cup {n}
  BY <1>1
<1> HIDE DEF n
<1>7. ResponseOK(n, held) /\ HasPage(n, page, held)
  BY <1>3, <1>5 DEF ResponseOK, HasPage
<1>8. TypeOK'
  BY <1>2, <1>4, <1>5, <1>6 DEF Typed, TypeOK, ServiceTypeOK
<1>9. Arguments'
  BY <1>2, <1>6, <1>7 DEF Typed, Arguments, Loaded
<1>10. QED
  BY <1>8, <1>9 DEF Typed

\* What the body of a response does to its page.
LEMMA BodyReceives ==
    ASSUME Typed, Body
    PROVE  \E x \in rsp : \E d :
              /\ x.at = "page" /\ x.tab \in Tab /\ PageOK(page[x.tab], held)
              /\ Receives(page[x.tab], x, d, held)
              /\ Told(x, page[x.tab], po, tn, cookie) => Settles(d, po, tn, cookie)
              /\ page' = [page EXCEPT ![x.tab] = d.page]
              /\ net' = IF d.rq = Nil THEN net ELSE net \cup {Fetch(x.conn, x.tab, d.rq)}
              /\ rsp' = rsp \ {x}
<1>1. PICK x \in rsp :
          /\ x.at = "page" /\ x.tab # Nil
          /\ LET d == IF page[x.tab].kind = "ui2" THEN S!response(page[x.tab], x)
                                                  ELSE V!response(page[x.tab], x)
             IN  /\ page' = [page EXCEPT ![x.tab] = d.page]
                 /\ net' = IF d.rq = Nil THEN net
                           ELSE net \cup {Fetch(x.conn, x.tab, d.rq)}
          /\ rsp' = rsp \ {x}
  BY DEF Body
<1> DEFINE d == IF page[x.tab].kind = "ui2" THEN S!response(page[x.tab], x)
                                            ELSE V!response(page[x.tab], x)
<1>2. /\ page' = [page EXCEPT ![x.tab] = d.page]
      /\ net' = IF d.rq = Nil THEN net ELSE net \cup {Fetch(x.conn, x.tab, d.rq)}
  BY <1>1
<1>3. x \in Response /\ ResponseOK(x, held) /\ HasPage(x, page, held)
  BY DEF Typed, TypeOK, ServiceTypeOK, Arguments
<1>4. x.tab \in Tab /\ PageOK(page[x.tab], held)
  BY <1>1, <1>3 DEF Response, HasPage
<1>5. page[x.tab].kind \in {"ui", "ui2"}
  BY <1>4 DEF PageOK, Page
<1>6. /\ Receives(page[x.tab], x, d, held)
      /\ Told(x, page[x.tab], po, tn, cookie) => Settles(d, po, tn, cookie)
  <2>1. CASE page[x.tab].kind = "ui2"
    <3>1. d = S!response(page[x.tab], x)
      BY <2>1
    <3>2. /\ Receives(page[x.tab], x, S!response(page[x.tab], x), held)
          /\ Told(x, page[x.tab], po, tn, cookie) =>
                Settles(S!response(page[x.tab], x), po, tn, cookie)
      BY <1>1, <1>3, <1>4, <2>1, SimpleResponse
    <3> HIDE DEF d
    <3>3. QED
      BY <3>1, <3>2
  <2>2. CASE page[x.tab].kind = "ui"
    <3>1. d = V!response(page[x.tab], x)
      BY <2>2
    <3>2. /\ Receives(page[x.tab], x, V!response(page[x.tab], x), held)
          /\ Told(x, page[x.tab], po, tn, cookie) =>
                Settles(V!response(page[x.tab], x), po, tn, cookie)
      BY <1>1, <1>3, <1>4, <2>2, VueResponse
    <3> HIDE DEF d
    <3>3. QED
      BY <3>1, <3>2
  <2>3. QED
    BY <1>5, <2>1, <2>2
<1> HIDE DEF d
<1>7. QED
  BY <1>1, <1>2, <1>4, <1>6

\* The body of a response arrives.
LEMMA BodyTyped ==
    ASSUME Typed, Body
    PROVE  Typed'
<1>0. PICK x \in rsp : \E d :
              /\ x.at = "page" /\ x.tab \in Tab
              /\ Receives(page[x.tab], x, d, held)
              /\ page' = [page EXCEPT ![x.tab] = d.page]
              /\ net' = IF d.rq = Nil THEN net ELSE net \cup {Fetch(x.conn, x.tab, d.rq)}
              /\ rsp' = rsp \ {x}
  BY BodyReceives
<1>1. PICK d :
              /\ x.at = "page" /\ x.tab \in Tab
              /\ Receives(page[x.tab], x, d, held)
              /\ page' = [page EXCEPT ![x.tab] = d.page]
              /\ net' = IF d.rq = Nil THEN net ELSE net \cup {Fetch(x.conn, x.tab, d.rq)}
              /\ rsp' = rsp \ {x}
  BY <1>0
<1>2. UNCHANGED <<tn, pairs, cookie, po, used, held, clicks, hurried>>
  BY DEF Body
<1>3. PageOK(d.page, held)
  BY <1>1 DEF Receives
<1>4. /\ page' \in [Tab -> Page \cup {Nil}] /\ page'[x.tab] = d.page
      /\ \A s \in Loaded' : PageOK(page'[s], held')
      /\ \A m : m.tab \in Tab \cup {Nil} /\ HasPage(m, page, held) => HasPage(m, page', held')
  BY <1>1, <1>2, <1>3, PageTyped
<1>5. \A m \in net \cup rsp : m.tab \in Tab \cup {Nil}
  BY DEF Typed, TypeOK, ServiceTypeOK, Message, Response
<1>6. \A m \in net' : m \in Message /\ RequestOK(m, held') /\ HasPage(m, page', held')
  <2>1. \A m \in net : m \in Message /\ RequestOK(m, held') /\ HasPage(m, page', held')
    BY <1>2, <1>4, <1>5 DEF Typed, TypeOK, ServiceTypeOK, Arguments
  <2>2. CASE d.rq = Nil
    BY <1>1, <2>1, <2>2
  <2>3. CASE d.rq # Nil
    <3> DEFINE f == Fetch(x.conn, x.tab, d.rq)
    <3>1. d.rq \in Request /\ RequestOK(d.rq, held)
      BY <1>1, <2>3 DEF Receives
    <3>2. x.conn \in Conn
      BY DEF Typed, TypeOK, ServiceTypeOK, Response
    <3>3. cookie \in Token
      BY DEF Typed, TypeOK, ServiceTypeOK
    <3>4. f \in Message /\ RequestOK(f, held) /\ f.tab = x.tab
      BY <1>1, <3>1, <3>2, <3>3, FetchTyped
    <3>5. net' = net \cup {f}
      BY <1>1, <2>3
    <3> HIDE DEF f
    <3>6. HasPage(f, page', held')
      BY <1>2, <1>3, <1>4, <3>4 DEF HasPage
    <3>7. QED
      BY <1>2, <2>1, <3>4, <3>5, <3>6
  <2>4. QED
    BY <2>2, <2>3
<1>7. \A m \in rsp' : m \in Response /\ ResponseOK(m, held') /\ HasPage(m, page', held')
  BY <1>1, <1>2, <1>4, <1>5 DEF Typed, TypeOK, ServiceTypeOK, Arguments
<1>8. TypeOK'
  BY <1>2, <1>4, <1>6, <1>7 DEF Typed, TypeOK, ServiceTypeOK
<1>9. PoolsKnown(po', held')
  BY <1>2 DEF Typed, Arguments
<1>10. Arguments'
  BY <1>4, <1>6, <1>7, <1>9 DEF Arguments
<1>11. QED
  BY <1>8, <1>10 DEF Typed

---------------------------------------------------------------------------
(* Clicks of the user.                                                     *)

\* A click in a tab with a page submits a request, or changes the page only.
SubmitClick(t) == \E d : Submits(page[t], d, held, po) /\ Click(t, d)
LocalClick(t) == \E d : Alters(page[t], d, held, po) /\ Local(t, d)

\* Every click is one of them, and there is a page to click on.
LEMMA ClickKinds ==
    ASSUME Typed, NEW t \in Tab, UserClick(t)
    PROVE  page[t] # Nil /\ (SubmitClick(t) \/ LocalClick(t))
<1> DEFINE pg == page[t]
<1>1. page[t] # Nil
  BY DEF UserClick, ShowPoolMake, ShowPoolList, TestCsrf, EditPool, MakePool, DeletePool,
         MakeBucket, DeleteBucket, MakeSecret, DeleteSecret, Simple, Vue
<1>2. PageOK(page[t], held)
  BY <1>1 DEF Typed, Arguments, Loaded
<1>3. CASE ShowPoolMake(t)
  <2>1. Submits(pg, S!kick_show_pool_make(pg), held, po)
    BY <1>2, SimpleShowMake
  <2>2. QED
    BY <1>1, <1>3, <2>1 DEF ShowPoolMake, SubmitClick
<1>4. CASE ShowPoolList(t)
  <2>1. Submits(pg, S!kick_show_pool_list(pg), held, po)
    BY <1>2, SimpleShowList
  <2>2. QED
    BY <1>1, <1>4, <2>1 DEF ShowPoolList, SubmitClick
<1>5. CASE TestCsrf(t)
  <2>1. Submits(pg, S!kick_test_csrf(pg), held, po)
    BY <1>2, SimpleTestCsrf
  <2>2. QED
    BY <1>1, <1>5, <2>1 DEF TestCsrf, SubmitClick
<1>6. CASE EditPool(t)
  <2>1. ASSUME Simple(t), NEW row \in S!render_pool_list(pg),
               Local(t, S!kick_edit_pool(pg, row))
        PROVE  LocalClick(t)
    <3>1. pg.kind = "ui2" /\ "list" \in pg.view /\ row \in pg.list
      BY <2>1 DEF Simple, S!render_pool_list, S!list_displayed
    <3>2. Alters(pg, S!kick_edit_pool(pg, row), held, po)
      BY <1>2, <3>1, SimpleEditPool
    <3>3. QED
      BY <2>1, <3>2 DEF LocalClick
  <2>2. ASSUME Vue(t), NEW row \in V!pool_rows(pg), Local(t, V!kick_edit_pool(pg, row))
        PROVE  LocalClick(t)
    <3>1. pg.kind = "ui" /\ row \in pg.list
      BY <2>2 DEF Vue, V!pool_rows
    <3>2. Alters(pg, V!kick_edit_pool(pg, row), held, po)
      BY <1>2, <3>1, VueEditPool
    <3>3. QED
      BY <2>2, <3>2 DEF LocalClick
  <2>3. QED
    BY <1>1, <1>6, <2>1, <2>2 DEF EditPool
<1>7. CASE MakePool(t)
  <2>1. \A dir \in Dir : /\ Submits(pg, S!kick_make_pool(pg, dir), held, po)
                         /\ Submits(pg, V!kick_make_pool(pg, dir), held, po)
    BY <1>2, SimpleMakePool, VueAsIs
  <2>2. QED
    BY <1>1, <1>7, <2>1 DEF MakePool, SubmitClick
<1>8. CASE DeletePool(t)
  <2>1. \A row \in pg.list : /\ Submits(pg, S!kick_delete_pool(pg, row), held, po)
                             /\ Submits(pg, V!kick_delete_pool(pg, row), held, po)
    BY <1>2, SimpleAsIs, VueAsIs
  <2>2. S!render_pool_list(pg) \subseteq pg.list /\ V!pool_rows(pg) = pg.list
    BY DEF S!render_pool_list, V!pool_rows
  <2>3. QED
    BY <1>1, <1>8, <2>1, <2>2 DEF DeletePool, SubmitClick
<1>9. CASE MakeBucket(t)
  <2>1. "edit" \in pg.view
    BY <1>9 DEF MakeBucket, EditDisplayed, S!edit_displayed, V!edit_displayed
  <2>2. \A b \in Bucket : /\ Submits(pg, S!kick_make_bucket(pg, b), held, po)
                          /\ Submits(pg, V!kick_make_bucket(pg, b), held, po)
    BY <1>2, <2>1, SimpleAsIs, VueAsIs
  <2>3. QED
    BY <1>1, <1>9, <2>2 DEF MakeBucket, SubmitClick
<1>10. CASE DeleteBucket(t)
  <2>1. ASSUME NEW b \in S!render_bucket_list(pg)
        PROVE  Submits(pg, S!kick_delete_bucket(pg, b), held, po)
    <3>1. "edit" \in pg.view /\ b \in pg.edit.bkts
      BY <2>1 DEF S!render_bucket_list, S!edit_displayed
    <3>2. QED
      BY <1>2, <3>1, SimpleAsIs
  <2>2. ASSUME NEW b \in V!bucket_rows(pg)
        PROVE  Submits(pg, V!kick_delete_bucket(pg, b), held, po)
    <3>1. "edit" \in pg.view /\ b \in pg.edit.bkts
      BY <2>2 DEF V!bucket_rows, V!edit_displayed
    <3>2. QED
      BY <1>2, <3>1, VueAsIs
  <2>3. QED
    BY <1>1, <1>10, <2>1, <2>2 DEF DeleteBucket, SubmitClick
<1>11. CASE MakeSecret(t)
  <2>1. "edit" \in pg.view
    BY <1>11 DEF MakeSecret, EditDisplayed, S!edit_displayed, V!edit_displayed
  <2>2. /\ Submits(pg, S!kick_make_secret(pg), held, po)
        /\ Submits(pg, V!kick_make_secret(pg), held, po)
    BY <1>2, <2>1, SimpleAsIs, VueAsIs
  <2>3. QED
    BY <1>1, <1>11, <2>2 DEF MakeSecret, SubmitClick
<1>12. CASE DeleteSecret(t)
  <2>1. ASSUME NEW k \in S!render_secret_list(pg)
        PROVE  Submits(pg, S!kick_delete_secret(pg, k), held, po)
    <3>1. "edit" \in pg.view /\ k \in pg.edit.keys
      BY <2>1 DEF S!render_secret_list, S!edit_displayed
    <3>2. QED
      BY <1>2, <3>1, SimpleAsIs
  <2>2. ASSUME NEW k \in V!key_rows(pg)
        PROVE  Submits(pg, V!kick_delete_secret(pg, k), held, po)
    <3>1. "edit" \in pg.view /\ k \in pg.edit.keys
      BY <2>2 DEF V!key_rows, V!edit_displayed
    <3>2. QED
      BY <1>2, <3>1, VueAsIs
  <2>3. QED
    BY <1>1, <1>12, <2>1, <2>2 DEF DeleteSecret, SubmitClick
<1>13. QED
  BY <1>3, <1>4, <1>5, <1>6, <1>7, <1>8, <1>9, <1>10, <1>11, <1>12 DEF UserClick

---------------------------------------------------------------------------
(* Types and arguments in all states.                                      *)

\* A user in the beginning has no page, and what is held is what the pools have.
LEMMA InitTyped == Init => Typed
<1> SUFFICES ASSUME Init
             PROVE  Typed
  OBVIOUS
<1>1. po \in [Pool -> PoolRecord \cup {Nil}]
  BY StartAssumption DEF Init, ServiceInit
<1>2. \A p \in Existing : p \in Pool /\ po[p] \in PoolRecord
  BY <1>1 DEF Existing
<1>3. held = UNION {Pairs(copy_pool_prop_to_ui(po, p)) : p \in Existing}
  BY DEF Init, ServiceInit
<1>4. \A p \in Existing : /\ copy_pool_prop_to_ui(po, p) \in Desc
                          /\ Pairs(copy_pool_prop_to_ui(po, p)) \subseteq Pool \X (Bucket \cup Key)
  BY <1>1, <1>2, CopyTyped
<1>5. held \subseteq Pool \X (Bucket \cup Key)
  BY <1>3, <1>4
<1>6. used \subseteq Pool \cup Key
  BY <1>2 DEF Init, ServiceInit, PoolRecord
<1>7. \A p \in Existing : Pairs(copy_pool_prop_to_ui(po, p)) \subseteq held
  BY <1>3
<1>8. PoolsKnown(po, held)
  BY <1>4, <1>7 DEF PoolsKnown, Known, PoolsIn, Existing
<1>9. TypeOK
  BY <1>1, <1>5, <1>6 DEF Init, ServiceInit, TypeOK, ServiceTypeOK, Token
<1>10. Arguments
  BY <1>8 DEF Init, ServiceInit, Arguments, Loaded
<1>11. QED
  BY <1>9, <1>10 DEF Typed

\* Every step.
LEMMA NextTyped == Typed /\ [Next]_vars => Typed'
<1> SUFFICES ASSUME Typed, [Next]_vars
             PROVE  Typed'
  OBVIOUS
<1>1. ASSUME NEW t \in Tab, Load(t)
      PROVE  Typed'
  BY <1>1, LoadTyped
<1>2. ASSUME NEW t \in Tab, UserClick(t)
      PROVE  Typed'
  <2>1. CASE SubmitClick(t)
    BY <1>2, <2>1, ClickTyped DEF SubmitClick
  <2>2. CASE LocalClick(t)
    BY <1>2, <2>2, LocalTyped DEF LocalClick
  <2>3. QED
    BY <1>2, <2>1, <2>2, ClickKinds
<1>3. CASE ServeOne
  BY <1>3, ServeTyped
<1>4. CASE Headers
  BY <1>4, HeadersTyped
<1>5. CASE Body
  BY <1>5, BodyTyped
<1>6. CASE Lose
  <2>1. /\ net' \subseteq net /\ rsp' \subseteq rsp /\ hurried' \subseteq Tab
        /\ UNCHANGED <<tn, pairs, cookie, po, used, held, page, clicks>>
    BY <1>6 DEF Lose, Typed, TypeOK
  <2>2. tn' \in Token /\ cookie' \in Token
    BY <2>1 DEF Typed, TypeOK, ServiceTypeOK
  <2>3. QED
    BY <2>1, <2>2, FewerTyped
<1>7. CASE Expire
  <2>1. /\ net' \subseteq net /\ rsp' \subseteq rsp /\ hurried' \subseteq Tab
        /\ UNCHANGED <<pairs, po, used, held, page, clicks>>
    BY <1>7 DEF Expire, ExpireTokens
  <2>2. tn' \in Token /\ cookie' \in Token
    BY <1>7 DEF Expire, ExpireTokens, Typed, TypeOK, ServiceTypeOK, Token
  <2>3. QED
    BY <2>1, <2>2, FewerTyped
<1>8. CASE UNCHANGED vars
  <2>1. UNCHANGED <<tn, pairs, cookie, po, used, held, net, rsp, page, clicks, hurried>>
    BY <1>8 DEF vars
  <2>2. net' \subseteq net /\ rsp' \subseteq rsp /\ tn' \in Token /\ cookie' \in Token
        /\ hurried' \subseteq Tab
    BY <2>1 DEF Typed, TypeOK, ServiceTypeOK
  <2>3. QED
    BY <2>1, <2>2, FewerTyped
<1>9. QED
  BY <1>1, <1>2, <1>3, <1>4, <1>5, <1>6, <1>7, <1>8 DEF Next

\* The types of the records, messages and pages, and the arguments that the
\* handlers and the functions of the pages rely on.
THEOREM TypesHold == Spec => [](TypeOK /\ Arguments)
<1>1. Typed => TypeOK /\ Arguments
  BY DEF Typed
<1>2. QED
  BY <1>1, InitTyped, NextTyped, PTL DEF Spec

\* Deleting a bucket or a key names the pool that it was a member of, whatever
\* the user clicks and in whatever order responses arrive: pool_data of the
\* editor is always of one pool.
THEOREM RequestsNameTheirPools == Spec => []RequestNamesItsPool
<1>1. Typed => RequestNamesItsPool
  BY DEF Typed, Arguments, RequestOK, RequestNamesItsPool
<1>2. QED
  BY <1>1, InitTyped, NextTyped, PTL DEF Spec

---------------------------------------------------------------------------
(* The user who waits.                                                     *)

\* The message of a user who waits is alone.
LEMMA WaitsAlone ==
    ASSUME NEW t, Waits(t)
    PROVE  /\ \A q \in net : net = {q} /\ rsp = {} /\ q.tab = t
           /\ \A x \in rsp : rsp = {x} /\ net = {} /\ x.tab = t
           /\ Quiet(t) => net = {} /\ rsp = {}
<1>1. /\ \A m \in net \cup rsp : m.tab = t
      /\ net = {} \/ rsp = {}
      /\ \A m, n \in net : m = n
      /\ \A m, n \in rsp : m = n
  BY DEF Waits, OneAtATime
<1>2. ASSUME NEW q \in net
      PROVE  net = {q} /\ rsp = {} /\ q.tab = t
  <2>1. net = {q}
    BY <1>1
  <2>2. QED
    BY <1>1, <2>1
<1>3. ASSUME NEW x \in rsp
      PROVE  rsp = {x} /\ net = {} /\ x.tab = t
  <2>1. rsp = {x}
    BY <1>1
  <2>2. QED
    BY <1>1, <2>1
<1>4. Quiet(t) => net = {} /\ rsp = {}
  BY <1>1 DEF Quiet
<1>5. QED
  BY <1>2, <1>3, <1>4

\* A request is all that is under way after a step.
LEMMA WaitsAsked ==
    ASSUME NEW t, NEW f, net' = {f}, rsp' = {}, f.tab = t,
           Asked(f, page'[t], po', tn', cookie')
    PROVE  Waits(t)'
BY DEF Waits, OneAtATime

\* An answer is all that is under way after a step.
LEMMA WaitsTold ==
    ASSUME NEW t, NEW x, net' = {}, rsp' = {x}, x.tab = t,
           Told(x, page'[t], po', tn', cookie')
    PROVE  Waits(t)'
BY DEF Waits, OneAtATime

\* Nothing is under way after a step.
LEMMA WaitsNot ==
    ASSUME NEW t, net' = {}, rsp' = {},
           InSession(page'[t], tn', cookie'), Fresh(page'[t], po')
    PROVE  Waits(t)'
BY DEF Waits, OneAtATime

\* The user is no more calm than before, and other tabs are as they were.
LEMMA OneCalmKept ==
    ASSUME OneCalm, Loaded' \subseteq Loaded, hurried \subseteq hurried'
    PROVE  OneCalm'
BY DEF OneCalm

\* A page that is loaded again in silence is calm.
LEMMA LoadCalm ==
    ASSUME Typed, CalmInv, NEW t \in Tab, Load(t)
    PROVE  CalmInv'
<1>1. PICK d, c : /\ Starts(d) /\ c \in Conn
                  /\ page' = [page EXCEPT ![t] = d.page]
                  /\ net' = Orphan(net, t) \cup {Fetch(c, t, d.rq)}
  BY LoadStarts
<1>2. /\ rsp' = Orphan(rsp, t)
      /\ hurried' = (Tab \ {t}) \cup (IF net \cup rsp = {} THEN {} ELSE {t})
      /\ UNCHANGED <<tn, pairs, cookie, po, used, held>>
  BY DEF Load
<1>3. \A s \in Tab : s \notin hurried' => s = t /\ net = {} /\ rsp = {}
  BY <1>2
<1>4. OneCalm'
  BY <1>2, <1>3 DEF OneCalm, Loaded
<1>5. ASSUME NEW s \in Tab, Calm(s)'
      PROVE  Waits(s)'
  <2>1. s = t /\ net = {} /\ rsp = {}
    BY <1>3, <1>5 DEF Calm
  <2> DEFINE f == Fetch(c, t, d.rq)
  <2>2. f.tab = t /\ f.op = "user_info"
    BY <1>1 DEF Fetch, Starts
  <2>3. net' = {f} /\ rsp' = {}
    BY <1>1, <1>2, <2>1 DEF Orphan
  <2>4. page'[t] = d.page
    BY <1>1 DEF Typed, TypeOK
  <2> HIDE DEF f
  <2>5. Asked(f, page'[t], po', tn', cookie')
    BY <1>1, <1>2, <2>2, <2>4 DEF Asked, Starts
  <2>6. QED
    BY <2>1, <2>2, <2>3, <2>5, WaitsAsked
<1>6. QED
  BY <1>4, <1>5 DEF CalmInv

\* A click that submits a request.
LEMMA ClickCalm ==
    ASSUME Typed, CalmInv, NEW t \in Tab, page[t] # Nil, NEW d,
           Submits(page[t], d, held, po), Click(t, d)
    PROVE  CalmInv'
<1>1. /\ page' = [page EXCEPT ![t] = d.page]
      /\ hurried' = hurried \cup (Tab \ {t}) \cup (IF Quiet(t) THEN {} ELSE {t})
      /\ UNCHANGED <<tn, pairs, cookie, po, used, held, rsp>>
  BY DEF Click
<1>2. PICK c \in Conn : net' = net \cup {Fetch(c, t, d.rq)}
  BY DEF Click, Free
<1>3. \A s \in Tab : s \notin hurried' => s = t /\ Quiet(t) /\ t \notin hurried
  BY <1>1
<1>4. OneCalm'
  BY <1>1, <1>3 DEF OneCalm, Loaded
<1>5. ASSUME NEW s \in Tab, Calm(s)'
      PROVE  Waits(s)'
  <2>1. s = t /\ Quiet(t) /\ t \notin hurried
    BY <1>3, <1>5 DEF Calm
  <2>2. Waits(t)
    BY <2>1 DEF CalmInv, Calm, Loaded
  <2>3. net = {} /\ rsp = {}
    BY <2>1, <2>2, WaitsAlone
  <2>4. InSession(page[t], tn, cookie) /\ Fresh(page[t], po)
    BY <2>2, <2>3 DEF Waits
  <2> DEFINE f == Fetch(c, t, d.rq)
  <2>5. f.tab = t /\ f.op = d.rq.op /\ f.token = d.rq.token /\ f.cookie = cookie
    BY DEF Fetch
  <2>6. net' = {f} /\ rsp' = {}
    BY <1>1, <1>2, <2>3
  <2>7. page'[t] = d.page
    BY <1>1 DEF Typed, TypeOK
  <2> HIDE DEF f
  <2>8. InSession(d.page, tn, cookie) /\ f.cookie = tn /\ f.token \in {tn, 0}
    BY <2>4, <2>5 DEF InSession, Submits
  <2>9. f.op # "list_pools" \/ f.token # tn => Fresh(d.page, po)
    BY <2>4, <2>5 DEF InSession, Submits
  <2>10. Asked(f, page'[t], po', tn', cookie')
    BY <1>1, <2>7, <2>8, <2>9 DEF Asked
  <2>11. QED
    BY <2>1, <2>5, <2>6, <2>10, WaitsAsked
<1>6. QED
  BY <1>4, <1>5 DEF CalmInv

\* A click that changes the page only.
LEMMA LocalCalm ==
    ASSUME Typed, CalmInv, NEW t \in Tab, page[t] # Nil, NEW d,
           Alters(page[t], d, held, po), Local(t, d)
    PROVE  CalmInv'
<1>1. /\ page' = [page EXCEPT ![t] = d.page]
      /\ hurried' = hurried \cup (IF Quiet(t) THEN {} ELSE {t})
      /\ UNCHANGED <<tn, pairs, cookie, po, used, held, net, rsp>>
  BY DEF Local, service
<1>2. page'[t] = d.page /\ \A s \in Tab : s # t => page'[s] = page[s]
  BY <1>1 DEF Typed, TypeOK
<1>3. Loaded' \subseteq Loaded
  BY <1>2 DEF Loaded
<1>4. OneCalm'
  BY <1>1, <1>3, OneCalmKept DEF CalmInv
<1>5. ASSUME NEW s \in Tab, Calm(s)'
      PROVE  Waits(s)'
  <2>1. Calm(s)
    BY <1>1, <1>3, <1>5 DEF Calm
  <2>2. Waits(s)
    BY <2>1 DEF CalmInv
  <2>3. CASE s # t
    <3>1. page'[s] = page[s]
      BY <1>2, <2>3
    <3>2. QED
      BY <1>1, <2>2, <3>1 DEF Waits, OneAtATime
  <2>4. CASE s = t
    <3>1. Quiet(t)
      BY <1>1, <1>5, <2>4 DEF Calm
    <3>2. net = {} /\ rsp = {}
      BY <2>2, <2>4, <3>1, WaitsAlone
    <3>3. InSession(page[t], tn, cookie) /\ Fresh(page[t], po)
      BY <2>2, <2>4, <3>2 DEF Waits
    <3>4. InSession(page'[t], tn', cookie') /\ Fresh(page'[t], po')
      BY <1>1, <1>2, <3>3 DEF InSession, Alters
    <3>5. QED
      BY <1>1, <2>4, <3>2, <3>4, WaitsNot
  <2>5. QED
    BY <2>3, <2>4
<1>6. QED
  BY <1>4, <1>5 DEF CalmInv

\* The answer to a request that a user waits for.
LEMMA ServeCalm ==
    ASSUME Typed, CalmInv, ServeOne
    PROVE  CalmInv'
<1>1. PICK q \in net : Serve(q)
  BY DEF ServeOne
<1>2. PICK code, token, list, desc : Served(q, code, token, list, desc)
  BY <1>1, ServeServed DEF IsServed
<1>3. page' = page /\ hurried' = hurried /\ cookie' = cookie
  BY <1>2 DEF ServeOne, Served
<1>4. Loaded' = Loaded
  BY <1>3 DEF Loaded
<1>5. OneCalm'
  BY <1>3, <1>4, OneCalmKept DEF CalmInv
<1> DEFINE x == [conn |-> q.conn, tab |-> q.tab, op |-> q.op, code |-> code,
                 token |-> token, list |-> list, desc |-> desc, at |-> "wire"]
<1>6. net' = net \ {q} /\ rsp' = rsp \cup {x}
  BY <1>2 DEF Served, Answer
<1>7. /\ x.tab = q.tab /\ x.op = q.op /\ x.code = code /\ x.token = token
      /\ x.list = list /\ x.desc = desc /\ x.at = "wire"
  OBVIOUS
<1> HIDE DEF x
<1>8. ASSUME NEW t \in Tab, Calm(t)'
      PROVE  Waits(t)'
  <2>1. Waits(t)
    BY <1>3, <1>4, <1>8 DEF CalmInv, Calm
  <2>2. net = {q} /\ rsp = {} /\ q.tab = t
    BY <2>1, WaitsAlone
  <2>3. Asked(q, page[t], po, tn, cookie)
    BY <2>1 DEF Waits
  <2> DEFINE pg == page[t]
  <2>4. q.op = "user_info" => Fresh(pg, po')
    BY <1>2, <2>3 DEF Asked, Served
  <2>5. q.op # "user_info" => InSession(pg, tn', cookie)
    BY <1>2, <2>3 DEF Asked, Served
  <2>6. q.op # "user_info" /\ code # 200 => Fresh(pg, po')
    <3> SUFFICES ASSUME q.op # "user_info", code # 200
                 PROVE  Fresh(pg, po')
      OBVIOUS
    <3>1. po' = po /\ (q.op = "list_pools" => ~check_csrf_tokens(q))
      BY <1>2 DEF Served
    <3>2. InSession(pg, tn, cookie) /\ q.cookie = tn
      BY <2>3 DEF Asked
    <3>3. q.op = "list_pools" => q.token # tn
      BY <3>1, <3>2, NilApart DEF check_csrf_tokens, InSession
    <3>4. QED
      BY <2>3, <3>1, <3>3 DEF Asked
  <2>7. q.op = "list_pools" /\ code = 200 => list = Whole(po')
    BY <1>2 DEF Served
  <2>8. q.op \in DescOp /\ code = 200 => Present(desc, po')
    BY <1>2 DEF Served
  <2>9. q.op \in MemberOp /\ code = 200 /\ pg.kind = "ui" => Fresh(pg, po')
    <3> SUFFICES ASSUME q.op \in MemberOp, pg.kind = "ui"
                 PROVE  Fresh(pg, po')
      OBVIOUS
    <3>1. PoolsIn(po') = PoolsIn(po)
      BY <1>2 DEF Served
    <3>2. Fresh(pg, po)
      BY <2>3 DEF Asked, MemberOp
    <3>3. QED
      BY <3>1, <3>2 DEF Fresh
  <2>10. /\ q.op = "user_info" => code = 200 /\ token = tn' /\ tn' \in Nat \ {0}
         /\ q.op # "user_info" => token = Nil
    BY <1>2 DEF Served
  <2> HIDE DEF pg
  <2>11. Told(x, pg, po', tn', cookie)
    BY <1>7, <2>4, <2>5, <2>6, <2>7, <2>8, <2>9, <2>10 DEF Told
  <2>12. net' = {} /\ rsp' = {x} /\ x.tab = t
    BY <1>6, <1>7, <2>2
  <2>13. Told(x, page'[t], po', tn', cookie')
    BY <1>3, <2>11 DEF pg
  <2>14. QED
    BY <2>12, <2>13, WaitsTold
<1>9. QED
  BY <1>5, <1>8 DEF CalmInv

\* The browser takes the cookie of the answer that a user waits for.
LEMMA HeadersCalm ==
    ASSUME Typed, CalmInv, Headers
    PROVE  CalmInv'
<1>1. PICK r \in rsp :
          /\ cookie' = IF r.token # Nil THEN r.token ELSE cookie
          /\ rsp' = IF r.tab = Nil THEN rsp \ {r}
                    ELSE (rsp \ {r}) \cup {[r EXCEPT !.at = "page"]}
  BY DEF Headers
<1>2. UNCHANGED <<tn, pairs, po, used, held, net, page, clicks, hurried>>
  BY DEF Headers
<1>3. Loaded' = Loaded
  BY <1>2 DEF Loaded
<1>4. OneCalm'
  BY <1>2, <1>3, OneCalmKept DEF CalmInv
<1> DEFINE n == [r EXCEPT !.at = "page"]
<1>5. r \in Response
  BY DEF Typed, TypeOK, ServiceTypeOK
<1>6. /\ n.tab = r.tab /\ n.op = r.op /\ n.code = r.code /\ n.token = r.token
      /\ n.list = r.list /\ n.desc = r.desc /\ n.at = "page"
  BY <1>5 DEF Response
<1>7. ASSUME NEW t \in Tab, Calm(t)'
      PROVE  Waits(t)'
  <2>1. Waits(t)
    BY <1>2, <1>3, <1>7 DEF CalmInv, Calm
  <2>2. rsp = {r} /\ net = {} /\ r.tab = t
    BY <2>1, WaitsAlone
  <2>3. net' = {} /\ rsp' = {n}
    BY <1>1, <1>2, <2>2, NilApart
  <2>4. Told(r, page[t], po, tn, cookie)
    BY <2>1 DEF Waits
  <2> HIDE DEF n
  <2>5. Told(n, page[t], po, tn, cookie')
    <3>1. CASE r.op = "user_info"
      <4>1. cookie' = tn
        BY <1>1, <2>4, <3>1, NilApart DEF Told
      <4>2. QED
        BY <1>6, <2>4, <3>1, <4>1 DEF Told
    <3>2. CASE r.op # "user_info"
      <4>1. cookie' = cookie
        BY <1>1, <2>4, <3>2 DEF Told
      <4>2. QED
        BY <1>6, <2>4, <3>2, <4>1 DEF Told
    <3>3. QED
      BY <3>1, <3>2
  <2>6. Told(n, page'[t], po', tn', cookie')
    BY <1>2, <2>5
  <2>7. QED
    BY <1>6, <2>2, <2>3, <2>6, WaitsTold
<1>8. QED
  BY <1>4, <1>7 DEF CalmInv

\* The page takes the answer that its user waits for.
LEMMA BodyCalm ==
    ASSUME Typed, CalmInv, Body
    PROVE  CalmInv'
<1>0. PICK x \in rsp : \E d :
              /\ x.at = "page" /\ x.tab \in Tab /\ PageOK(page[x.tab], held)
              /\ Told(x, page[x.tab], po, tn, cookie) => Settles(d, po, tn, cookie)
              /\ page' = [page EXCEPT ![x.tab] = d.page]
              /\ net' = IF d.rq = Nil THEN net ELSE net \cup {Fetch(x.conn, x.tab, d.rq)}
              /\ rsp' = rsp \ {x}
  BY BodyReceives
<1>1. PICK d :
              /\ x.at = "page" /\ x.tab \in Tab /\ PageOK(page[x.tab], held)
              /\ Told(x, page[x.tab], po, tn, cookie) => Settles(d, po, tn, cookie)
              /\ page' = [page EXCEPT ![x.tab] = d.page]
              /\ net' = IF d.rq = Nil THEN net ELSE net \cup {Fetch(x.conn, x.tab, d.rq)}
              /\ rsp' = rsp \ {x}
  BY <1>0
<1>2. UNCHANGED <<tn, pairs, cookie, po, used, held, clicks, hurried>>
  BY DEF Body
<1>3. page'[x.tab] = d.page /\ \A s \in Tab : s # x.tab => page'[s] = page[s]
  BY <1>1 DEF Typed, TypeOK
<1>4. page[x.tab] # Nil
  BY <1>1, NilPageAssumption DEF PageOK
<1>5. Loaded' \subseteq Loaded
  BY <1>1, <1>3, <1>4 DEF Loaded
<1>6. OneCalm'
  BY <1>2, <1>5, OneCalmKept DEF CalmInv
<1>7. ASSUME NEW t \in Tab, Calm(t)'
      PROVE  Waits(t)'
  <2>1. Waits(t)
    BY <1>2, <1>5, <1>7 DEF CalmInv, Calm
  <2>2. rsp = {x} /\ net = {} /\ x.tab = t
    BY <2>1, WaitsAlone
  <2>3. Settles(d, po, tn, cookie)
    BY <1>1, <2>1, <2>2 DEF Waits
  <2>4. CASE d.rq = Nil
    <3>1. net' = {} /\ rsp' = {}
      BY <1>1, <2>2, <2>4
    <3>2. InSession(page'[t], tn', cookie') /\ Fresh(page'[t], po')
      BY <1>2, <1>3, <2>2, <2>3, <2>4 DEF Settles
    <3>3. QED
      BY <3>1, <3>2, WaitsNot
  <2>5. CASE d.rq # Nil
    <3> DEFINE f == Fetch(x.conn, x.tab, d.rq)
    <3>1. f.tab = t /\ f.op = d.rq.op /\ f.token = d.rq.token /\ f.cookie = cookie
      BY <2>2 DEF Fetch
    <3>2. net' = {f} /\ rsp' = {}
      BY <1>1, <2>2, <2>5
    <3> HIDE DEF f
    <3>3. InSession(d.page, tn, cookie) /\ f.op = "list_pools" /\ f.token = tn /\ f.cookie = tn
      BY <2>3, <2>5, <3>1 DEF Settles, InSession
    <3>4. Asked(f, d.page, po, tn, cookie)
      BY <3>3 DEF Asked
    <3>5. Asked(f, page'[t], po', tn', cookie')
      BY <1>2, <1>3, <2>2, <3>4
    <3>6. QED
      BY <3>1, <3>2, <3>5, WaitsAsked
  <2>6. QED
    BY <2>4, <2>5
<1>8. QED
  BY <1>6, <1>7 DEF CalmInv

\* A loss ends the calm of its tab.
LEMMA LoseCalm ==
    ASSUME CalmInv, Lose
    PROVE  CalmInv'
<1>1. PICK m \in net \cup rsp : hurried' = hurried \cup ({m.tab} \cap Tab)
  BY DEF Lose
<1>2. Loaded' = Loaded
  BY DEF Lose, Loaded
<1>3. OneCalm'
  BY <1>1, <1>2, OneCalmKept DEF CalmInv
<1>4. ASSUME NEW t \in Tab, Calm(t)'
      PROVE  FALSE
  <2>1. Waits(t)
    BY <1>1, <1>2, <1>4 DEF CalmInv, Calm
  <2>2. m.tab = t
    BY <2>1 DEF Waits
  <2>3. QED
    BY <1>1, <1>4, <2>2 DEF Calm
<1>5. QED
  BY <1>3, <1>4 DEF CalmInv

\* Every step.
LEMMA NextCalm == IInv /\ [Next]_vars => IInv'
<1> SUFFICES ASSUME Typed, CalmInv, [Next]_vars
             PROVE  CalmInv'
  BY NextTyped DEF IInv
<1>1. ASSUME NEW t \in Tab, Load(t)
      PROVE  CalmInv'
  BY <1>1, LoadCalm
<1>2. ASSUME NEW t \in Tab, UserClick(t)
      PROVE  CalmInv'
  <2>1. page[t] # Nil /\ (SubmitClick(t) \/ LocalClick(t))
    BY <1>2, ClickKinds
  <2>2. CASE SubmitClick(t)
    BY <1>2, <2>1, <2>2, ClickCalm DEF SubmitClick
  <2>3. CASE LocalClick(t)
    BY <1>2, <2>1, <2>3, LocalCalm DEF LocalClick
  <2>4. QED
    BY <2>1, <2>2, <2>3
<1>3. CASE ServeOne
  BY <1>3, ServeCalm
<1>4. CASE Headers
  BY <1>4, HeadersCalm
<1>5. CASE Body
  BY <1>5, BodyCalm
<1>6. CASE Lose
  BY <1>6, LoseCalm
<1>7. CASE Expire
  <2>1. hurried' = Tab /\ Loaded' = Loaded /\ hurried \subseteq hurried'
    BY <1>7 DEF Expire, Loaded, Typed, TypeOK
  <2>2. OneCalm'
    BY <2>1, OneCalmKept DEF CalmInv
  <2>3. \A t \in Tab : ~Calm(t)'
    BY <2>1 DEF Calm
  <2>4. QED
    BY <2>2, <2>3 DEF CalmInv
<1>8. CASE UNCHANGED vars
  BY <1>8 DEF vars, CalmInv, OneCalm, Calm, Loaded, Waits, OneAtATime
<1>9. QED
  BY <1>1, <1>2, <1>3, <1>4, <1>5, <1>6, <1>7, <1>8 DEF Next

\* Nobody has a page in the beginning.
LEMMA InitCalm == Init => IInv
<1>1. Init => CalmInv
  BY DEF Init, CalmInv, OneCalm, Calm, Loaded
<1>2. QED
  BY <1>1, InitTyped DEF IInv

\* The inductive invariant: at most one tab is calm, and a calm tab has one
\* message under way at most, the tokens of the session once it has asked for
\* the user-info, and shows what Registrar has or is about to be told.
THEOREM Invariance == Spec => []IInv
<1>1. QED
  BY InitCalm, NextCalm, PTL DEF Spec

\* The requests of a user who waits have the tokens that Registrar keeps, those
\* of the CSRF test aside.
THEOREM SessionsWork == Spec => []SessionWorks
<1>1. IInv => SessionWorks
  <2> SUFFICES ASSUME IInv, NEW q \in net, q.tab \in Tab, Calm(q.tab),
                      q.op # "user_info", q.token # 0
               PROVE  check_csrf_tokens(q)
    BY DEF SessionWorks
  <2>1. Asked(q, page[q.tab], po, tn, cookie)
    BY DEF IInv, CalmInv, Waits
  <2>2. tn \in Nat /\ q.cookie = tn /\ q.token = tn
    BY <2>1 DEF Asked, InSession
  <2>3. QED
    BY <2>2, NilApart DEF check_csrf_tokens
<1>2. QED
  BY <1>1, Invariance, PTL

\* What a user who waited sees is what Registrar has.
THEOREM ShownWhenQuiet == Spec => []ShownAtRest
<1>1. IInv => ShownAtRest
  <2> SUFFICES ASSUME IInv, NEW t \in Tab, Calm(t), Quiet(t)
               PROVE  /\ ListDisplayed(t) => {d.pool : d \in page[t].list} = Existing
                      /\ Simple(t) /\ EditDisplayed(t) =>
                            /\ page[t].edit.pool \in Existing
                            /\ page[t].edit = copy_pool_prop_to_ui(po, page[t].edit.pool)
    BY DEF ShownAtRest
  <2>1. Waits(t)
    BY DEF IInv, CalmInv
  <2>2. Fresh(page[t], po)
    BY <2>1, WaitsAlone DEF Waits
  <2>3. Existing = PoolsIn(po)
    BY DEF Existing, PoolsIn
  <2>4. {d.pool : d \in Whole(po)} = PoolsIn(po)
    <3>1. \A p \in PoolsIn(po) : copy_pool_prop_to_ui(po, p).pool = p
      BY DEF copy_pool_prop_to_ui
    <3>2. QED
      BY <3>1 DEF Whole
  <2>5. ListDisplayed(t) => {d.pool : d \in page[t].list} = Existing
    <3>1. CASE Simple(t) /\ S!list_displayed(page[t])
      <4>1. page[t].list = Whole(po)
        BY <2>2, <3>1 DEF Simple, S!list_displayed, Fresh
      <4>2. QED
        BY <2>3, <2>4, <4>1
    <3>2. CASE Vue(t) /\ V!list_displayed(page[t])
      BY <2>2, <2>3, <3>2 DEF Vue, V!list_displayed, Fresh
    <3>3. QED
      BY <3>1, <3>2 DEF ListDisplayed
  <2>6. ASSUME Simple(t), EditDisplayed(t)
        PROVE  Present(page[t].edit, po)
    <3>1. page[t].kind = "ui2" /\ "edit" \in page[t].view
      BY <2>6 DEF Simple, EditDisplayed, Vue, S!edit_displayed, V!edit_displayed
    <3>2. QED
      BY <2>2, <3>1 DEF Fresh
  <2>7. QED
    BY <2>3, <2>5, <2>6 DEF Present
<1>2. QED
  BY <1>1, Invariance, PTL
=============================================================================
