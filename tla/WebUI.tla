------------------------------- MODULE WebUI -------------------------------
(***************************************************************************)
(* The pages of the Web-UI in the tabs of a browser, with Registrar behind *)
(* them.  A page of either kind may be loaded into a tab, and loaded again *)
(* at any time.  The user clicks what is displayed, without waiting for    *)
(* earlier answers; requests and responses overtake each other or are lost, *)
(* and the session expires.                                                *)
(***************************************************************************)
EXTENDS UiService

CONSTANT
    MaxClick      \* bound: loads and clicks that submit a request

ASSUME BoundAssumption == MaxClick \in Nat

VARIABLES
    page,      \* the page in each tab, Nil before the first load
    clicks,    \* how many loads and clicks have submitted a request
    hurried    \* history: the tabs whose user did not keep to one request at a
               \* time, or whose page met a loss, an expiration or another tab

vars == <<tn, pairs, cookie, po, used, held, net, rsp, page, clicks, hurried>>

S == INSTANCE SimpleUI
V == INSTANCE VueUI

Page == [kind : {"ui", "ui2"}, token : Token, list : SUBSET Desc,
         edit : Desc \cup {Nil}, view : SUBSET {"make", "list", "edit"}]

\* A tab without a page is told apart from one with a page.
ASSUME NilPageAssumption == Nil \notin Page

Loaded == {t \in Tab : page[t] # Nil}

\* Nothing of the page in tab t is under way.
Quiet(t) == \A m \in net \cup rsp : m.tab # t

---------------------------------------------------------------------------
(* Submitting requests.                                                    *)

\* fetch() sends the cookie of the browser along.
Fetch(c, t, rq) ==
    [conn |-> c, tab |-> t, op |-> rq.op, pool |-> rq.pool, item |-> rq.item,
     token |-> rq.token, cookie |-> cookie]

Free == Conn \ {m.conn : m \in net \cup rsp}

\* Enough generated names are left for the pending requests.
Enough(op, names) == Cardinality({q \in net : q.op = op}) < Cardinality(names \ used)

Count == clicks < MaxClick /\ clicks' = clicks + 1

\* A click in tab t that changes the page only.
Local(t, d) ==
    /\ page' = [page EXCEPT ![t] = d.page]
    /\ hurried' = hurried \cup (IF Quiet(t) THEN {} ELSE {t})
    /\ UNCHANGED <<service, clicks>>

\* A click in tab t that changes the page and submits a request.
Click(t, d) ==
    /\ Count
    /\ page' = [page EXCEPT ![t] = d.page]
    /\ \E c \in Free : net' = net \cup {Fetch(c, t, d.rq)}
    /\ hurried' = hurried \cup (Tab \ {t}) \cup (IF Quiet(t) THEN {} ELSE {t})
    /\ UNCHANGED <<tn, pairs, cookie, po, used, held, rsp>>

---------------------------------------------------------------------------
(* Loading a page.                                                         *)

\* The messages of the page that goes away are no longer anybody's.
Orphan(M, t) == {IF m.tab = t THEN [m EXCEPT !.tab = Nil] ELSE m : m \in M}

Load(t) ==
    /\ Count
    /\ \E d \in {S!start_ui, V!data}, c \in Free :
          /\ page' = [page EXCEPT ![t] = d.page]
          /\ net' = Orphan(net, t) \cup {Fetch(c, t, d.rq)}
    /\ rsp' = Orphan(rsp, t)
    /\ hurried' = (Tab \ {t}) \cup (IF net \cup rsp = {} THEN {} ELSE {t})
    /\ UNCHANGED <<tn, pairs, cookie, po, used, held>>

---------------------------------------------------------------------------
(* Clicks.                                                                 *)

Simple(t) == page[t] # Nil /\ page[t].kind = "ui2"
Vue(t) == page[t] # Nil /\ page[t].kind = "ui"

ListDisplayed(t) ==
    \/ Simple(t) /\ S!list_displayed(page[t])
    \/ Vue(t) /\ V!list_displayed(page[t])

EditDisplayed(t) ==
    \/ Simple(t) /\ S!edit_displayed(page[t])
    \/ Vue(t) /\ V!edit_displayed(page[t])

ShowPoolMake(t) == Simple(t) /\ Click(t, S!kick_show_pool_make(page[t]))

ShowPoolList(t) == Simple(t) /\ Click(t, S!kick_show_pool_list(page[t]))

TestCsrf(t) == Simple(t) /\ Click(t, S!kick_test_csrf(page[t]))

EditPool(t) ==
    \/ Simple(t) /\ \E row \in S!render_pool_list(page[t]) :
                       Local(t, S!kick_edit_pool(page[t], row))
    \/ Vue(t) /\ \E row \in V!pool_rows(page[t]) : Local(t, V!kick_edit_pool(page[t], row))

MakePool(t) ==
    /\ Enough("make_pool", Pool)
    /\ \E d \in Dir :
          \/ Simple(t) /\ S!make_displayed(page[t])
                       /\ Click(t, S!kick_make_pool(page[t], d))
          \/ Vue(t) /\ Click(t, V!kick_make_pool(page[t], d))

DeletePool(t) ==
    \/ Simple(t) /\ \E row \in S!render_pool_list(page[t]) :
                       Click(t, S!kick_delete_pool(page[t], row))
    \/ Vue(t) /\ \E row \in V!pool_rows(page[t]) : Click(t, V!kick_delete_pool(page[t], row))

MakeBucket(t) ==
    /\ EditDisplayed(t)
    /\ \E b \in Bucket :
          \/ Simple(t) /\ Click(t, S!kick_make_bucket(page[t], b))
          \/ Vue(t) /\ Click(t, V!kick_make_bucket(page[t], b))

DeleteBucket(t) ==
    \/ Simple(t) /\ \E b \in S!render_bucket_list(page[t]) :
                       Click(t, S!kick_delete_bucket(page[t], b))
    \/ Vue(t) /\ \E b \in V!bucket_rows(page[t]) : Click(t, V!kick_delete_bucket(page[t], b))

MakeSecret(t) ==
    /\ EditDisplayed(t)
    /\ Enough("make_secret", Key)
    /\ \/ Simple(t) /\ Click(t, S!kick_make_secret(page[t]))
       \/ Vue(t) /\ Click(t, V!kick_make_secret(page[t]))

DeleteSecret(t) ==
    \/ Simple(t) /\ \E k \in S!render_secret_list(page[t]) :
                       Click(t, S!kick_delete_secret(page[t], k))
    \/ Vue(t) /\ \E k \in V!key_rows(page[t]) : Click(t, V!kick_delete_secret(page[t], k))

---------------------------------------------------------------------------
(* Requests served, responses that arrive, losses.                         *)

ServeOne ==
    /\ \E q \in net : Serve(q)
    /\ UNCHANGED <<page, clicks, hurried>>

\* The head of a response arrives: the browser takes its cookie, and the
\* fetch of the page goes on to read the body.
Headers ==
    /\ \E r \in rsp :
          /\ r.at = "wire"
          /\ cookie' = IF r.token # Nil THEN r.token ELSE cookie
          /\ rsp' = IF r.tab = Nil THEN rsp \ {r}
                    ELSE (rsp \ {r}) \cup {[r EXCEPT !.at = "page"]}
    /\ UNCHANGED <<tn, pairs, po, used, held, net, page, clicks, hurried>>

\* The body has been read: response.json().then(...).  A request that it
\* submits belongs to the operation that the user began.
Body ==
    /\ \E r \in rsp :
          /\ r.at = "page" /\ r.tab # Nil
          /\ LET d == IF page[r.tab].kind = "ui2" THEN S!response(page[r.tab], r)
                                                  ELSE V!response(page[r.tab], r)
             IN  /\ page' = [page EXCEPT ![r.tab] = d.page]
                 /\ net' = IF d.rq = Nil THEN net
                           ELSE net \cup {Fetch(r.conn, r.tab, d.rq)}
          /\ rsp' = rsp \ {r}
    /\ UNCHANGED <<tn, pairs, cookie, po, used, held, clicks, hurried>>

\* A fetch is rejected, and catch() only logs it.
Lose ==
    /\ \E m \in net \cup rsp :
          /\ net' = net \ {m}
          /\ rsp' = rsp \ {m}
          /\ hurried' = hurried \cup ({m.tab} \cap Tab)
    /\ UNCHANGED <<tn, pairs, cookie, po, used, held, page, clicks>>

Expire ==
    /\ ExpireTokens
    /\ hurried' = Tab
    /\ UNCHANGED <<page, clicks>>

Init ==
    /\ ServiceInit
    /\ page = [t \in Tab |-> Nil]
    /\ clicks = 0 /\ hurried = {}

UserClick(t) ==
    \/ ShowPoolMake(t) \/ ShowPoolList(t) \/ TestCsrf(t)
    \/ EditPool(t) \/ MakePool(t) \/ DeletePool(t)
    \/ MakeBucket(t) \/ DeleteBucket(t) \/ MakeSecret(t) \/ DeleteSecret(t)

Next ==
    \/ \E t \in Tab : Load(t) \/ UserClick(t)
    \/ ServeOne \/ Headers \/ Body \/ Lose \/ Expire

Spec == Init /\ [][Next]_vars

---------------------------------------------------------------------------
(* Properties.                                                             *)

TypeOK ==
    /\ ServiceTypeOK
    /\ page \in [Tab -> Page \cup {Nil}]
    /\ clicks \in Nat
    /\ hurried \subseteq Tab

\* The user of tab t waits for the answers and nothing interferes.
Calm(t) == t \in Loaded \ hurried

\* Deleting a bucket or a key asks for a member that the named pool had, in
\* whatever order responses replace the editor's data: pool_data.pool_name
\* and the rows of buckets and keys are always of one pool.
RequestNamesItsPool ==
    \A q \in net : q.op \in {"delete_bucket", "delete_secret"} =>
                      <<q.pool, q.item>> \in held

\* The requests of a user who waits have the tokens that Registrar keeps: the
\* page and the browser got the halves of one pair, also when the session had
\* expired, or belonged to another tab, before the page was loaded again.
\* (The token 0 is the fake one of the CSRF test.)
SessionWorks ==
    \A q \in net : q.tab \in Tab /\ Calm(q.tab) /\ q.op # "user_info" /\ q.token # 0 =>
                      check_csrf_tokens(q)

\* What a user who waited sees is what Registrar has: the rows are the pools,
\* and the editor of the simple Web-UI has the present members of its pool.
ShownAtRest ==
    \A t \in Tab : Calm(t) /\ Quiet(t) =>
        /\ ListDisplayed(t) => {d.pool : d \in page[t].list} = Existing
        /\ Simple(t) /\ EditDisplayed(t) =>
              /\ page[t].edit.pool \in Existing
              /\ page[t].edit = copy_pool_prop_to_ui(po, page[t].edit.pool)

============================================================================
