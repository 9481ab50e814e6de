------------------------------- MODULE VueUI -------------------------------
(***************************************************************************)
(* The Web-UI made with Vue (lens3c.ts and its components, which Registrar *)
(* serves as the compiled ui/assets/index.js).  The page is the record of  *)
(* SimpleUI: list is pool_data.pool_list, edit the entries for PoolEdit,   *)
(* and view holds "edit" when pool_data.edit_pool_visible is set.  PoolMake *)
(* is always displayed, PoolList whenever there is a pool.                 *)
(***************************************************************************)
CONSTANT Nil

pool_data == [kind |-> "ui", token |-> Nil, list |-> {}, edit |-> Nil, view |-> {}]

submit_request(pg, op, pool, item) ==
    [op |-> op, pool |-> pool, item |-> item, token |-> pg.token]

edit_pool_visible(pg, v) == [pg EXCEPT !.view = IF v THEN {"edit"} ELSE {}]

---------------------------------------------------------------------------
(* API operations.                                                         *)

api_get_user_info(pg) == submit_request(pg, "user_info", Nil, Nil)

api_list_pools(pg) == submit_request(pg, "list_pools", Nil, Nil)

api_make_pool(pg, directory) == submit_request(pg, "make_pool", Nil, directory)

api_delete_pool(pg, pool) == submit_request(pg, "delete_pool", pool, Nil)

api_make_bucket(pg, pool, name) == submit_request(pg, "make_bucket", pool, name)

\* The argument pool is not used.
api_delete_bucket(pg, name) == submit_request(pg, "delete_bucket", pg.edit.pool, name)

\* The date of the picker at midnight UTC, rounded down to a whole number.
api_make_secret(pg) == submit_request(pg, "make_secret", pg.edit.pool, "int")

api_delete_secret(pg, key) == submit_request(pg, "delete_secret", pg.edit.pool, key)

---------------------------------------------------------------------------
(* Responses.                                                              *)

\* Sets the user-info, then shows the pool list.
set_user_info_data(pg, token) ==
    LET p == IF token # Nil THEN [pg EXCEPT !.token = token] ELSE pg
    IN  [page |-> edit_pool_visible(p, FALSE), rq |-> api_list_pools(p)]

set_pool_list(pg, list) ==
    [page |-> edit_pool_visible([pg EXCEPT !.list = list], FALSE), rq |-> Nil]

set_pool_data(pg, desc) ==
    [page |-> edit_pool_visible([pg EXCEPT !.edit = desc], TRUE), rq |-> Nil]

process_response(pg, r) ==
    CASE r.op = "user_info" -> set_user_info_data(pg, r.token)
      [] r.op = "list_pools" -> set_pool_list(pg, r.list)
      [] r.op \in {"make_pool", "delete_pool"} -> [page |-> pg, rq |-> api_list_pools(pg)]
      [] OTHER -> set_pool_data(pg, r.desc)

\* The then() of a fetch: an error opens a dialog.
response(pg, r) ==
    IF r.code = 200 THEN process_response(pg, r) ELSE [page |-> pg, rq |-> Nil]

---------------------------------------------------------------------------
(* Clicks.                                                                 *)

\* PoolMake asks for the user-info when it is set up.
data == [page |-> pool_data, rq |-> api_get_user_info(pool_data)]

kick_make_pool(pg, directory) == [page |-> pg, rq |-> api_make_pool(pg, directory)]

\* The row's entry of pool_list is edited, not what Registrar has now.
kick_edit_pool(pg, row) == set_pool_data(pg, row)

kick_delete_pool(pg, row) == [page |-> pg, rq |-> api_delete_pool(pg, row.pool)]

kick_make_bucket(pg, name) ==
    [page |-> pg, rq |-> api_make_bucket(pg, pg.edit.pool, name)]

kick_delete_bucket(pg, name) == [page |-> pg, rq |-> api_delete_bucket(pg, name)]

kick_make_secret(pg) == [page |-> pg, rq |-> api_make_secret(pg)]

kick_delete_secret(pg, key) == [page |-> pg, rq |-> api_delete_secret(pg, key)]

---------------------------------------------------------------------------
(* What the templates of PoolList and PoolEdit display, and their rows.    *)

list_displayed(pg) == pg.list # {}
edit_displayed(pg) == "edit" \in pg.view

pool_rows(pg) == pg.list
bucket_rows(pg) == IF edit_displayed(pg) THEN pg.edit.bkts ELSE {}
key_rows(pg) == IF edit_displayed(pg) THEN pg.edit.keys ELSE {}
============================================================================
