------------------------------ MODULE SimpleUI ------------------------------
(***************************************************************************)
(* The simple Web-UI (ui2/lens3ui.js).  A page is a record:                *)
(*   kind    which of the two Web-UIs it runs                              *)
(*   token   pool_data.x_csrf_token, Nil when it is ""                     *)
(*   list    pool_data.pool_desc_list, and the rows rendered from it       *)
(*   edit    the selected pool: pool_name, bucket_list and the secrets     *)
(*   view    the sections that are displayed                               *)
(* A function that runs on a click or on a response maps the page to what  *)
(* it leaves: the page, and the request it submits or Nil.                 *)
(* What the user types (a bucket name, a directory) is a parameter.        *)
(***************************************************************************)
CONSTANT Nil

\* The page before its first script runs, with no section displayed.
pool_data == [kind |-> "ui2", token |-> Nil, list |-> {}, edit |-> Nil, view |-> {}]

\* submit_request() takes the token at the time of the call.
submit_request(pg, op, pool, item) ==
    [op |-> op, pool |-> pool, item |-> item, token |-> pg.token]

display(pg, sections, v) ==
    [pg EXCEPT !.view = IF v THEN @ \cup sections ELSE @ \ sections]

---------------------------------------------------------------------------
(* API operations.                                                         *)

api_get_user_info(pg) == submit_request(pg, "user_info", Nil, Nil)

api_list_pools(pg) == submit_request(pg, "list_pools", Nil, Nil)

api_make_pool(pg, directory) == submit_request(pg, "make_pool", Nil, directory)

\* Mutant: the row is passed in the place of the name of its pool.
api_delete_pool_Variant(pg, row) == submit_request(pg, "delete_pool", row, Nil)

\* The pool of a row is looked up in pool_desc_list by the index of the row.
api_delete_pool(pg, row) == submit_request(pg, "delete_pool", row.pool, Nil)

api_make_bucket(pg, name) == submit_request(pg, "make_bucket", pg.edit.pool, name)

api_delete_bucket(pg, name) == submit_request(pg, "delete_bucket", pg.edit.pool, name)

\* A number, but in a string.
parse_time_z == "string"

api_make_secret(pg) == submit_request(pg, "make_secret", pg.edit.pool, parse_time_z)

api_delete_secret(pg, key) == submit_request(pg, "delete_secret", pg.edit.pool, key)

---------------------------------------------------------------------------
(* Responses.                                                              *)

\* Mutant: the name of the pool that is edited stays.
copy_pool_data_for_edit_Variant(pg, desc) ==
    [pg EXCEPT !.edit = IF @ = Nil THEN desc ELSE [desc EXCEPT !.pool = pg.edit.pool]]

\* The data of a pool replaces the data of the pool shown before as a whole.
copy_pool_data_for_edit(pg, desc) == [pg EXCEPT !.edit = desc]

set_user_info_data(pg) ==
    [page |-> display(pg, {"list", "edit"}, FALSE), rq |-> Nil]

set_pool_list_data(pg, list) ==
    [page |-> display(display([pg EXCEPT !.list = list], {"list"}, TRUE), {"edit"}, FALSE),
     rq |-> Nil]

set_pool_data(pg, desc) ==
    [page |-> display(display(copy_pool_data_for_edit(pg, desc), {"list"}, FALSE),
                      {"edit"}, TRUE),
     rq |-> Nil]

\* Mutant: a page takes a token once.
show_message_Variant(pg, r) ==
    IF pg.token = Nil THEN [pg EXCEPT !.token = r.token] ELSE pg

\* A token in the data, whatever the response is to, becomes the page's.
show_message(pg, r) == IF r.token # Nil THEN [pg EXCEPT !.token = r.token] ELSE pg

\* Mutant: the list is not asked for again when a pool is deleted.
process_response_Variant(pg, r) ==
    CASE r.op = "user_info" -> set_user_info_data(pg)
      [] r.op = "list_pools" -> set_pool_list_data(pg, r.list)
      [] r.op = "delete_pool" -> [page |-> pg, rq |-> Nil]
      [] OTHER -> set_pool_data(pg, r.desc)

\* The process_response argument of submit_request() for each operation.
process_response(pg, r) ==
    CASE r.op = "user_info" -> set_user_info_data(pg)
      [] r.op = "list_pools" -> set_pool_list_data(pg, r.list)
      [] r.op = "delete_pool" -> [page |-> pg, rq |-> api_list_pools(pg)]
      [] OTHER -> set_pool_data(pg, r.desc)

\* The then() of a fetch: an error is shown and thrown.
response(pg, r) ==
    LET shown == show_message(pg, r)
    IN  IF r.code = 200 THEN process_response(shown, r) ELSE [page |-> shown, rq |-> Nil]

---------------------------------------------------------------------------
(* Clicks.                                                                 *)

start_ui == [page |-> display(pool_data, {"make", "list", "edit"}, FALSE),
             rq |-> api_get_user_info(pool_data)]

kick_show_pool_make(pg) ==
    [page |-> display(pg, {"make"}, TRUE), rq |-> api_get_user_info(pg)]

\* The rows of the last list are displayed until the new one arrives.
kick_show_pool_list(pg) ==
    [page |-> display(display(display(pg, {"make"}, FALSE), {"list"}, TRUE), {"edit"}, FALSE),
     rq |-> api_list_pools(pg)]

kick_edit_pool(pg, row) == set_pool_data(pg, row)

kick_make_pool(pg, directory) ==
    [page |-> display(pg, {"make"}, FALSE), rq |-> api_make_pool(pg, directory)]

kick_delete_pool(pg, row) == [page |-> pg, rq |-> api_delete_pool(pg, row)]

kick_make_bucket(pg, name) == [page |-> pg, rq |-> api_make_bucket(pg, name)]

kick_delete_bucket(pg, name) == [page |-> pg, rq |-> api_delete_bucket(pg, name)]

kick_make_secret(pg) == [page |-> pg, rq |-> api_make_secret(pg)]

kick_delete_secret(pg, key) == [page |-> pg, rq |-> api_delete_secret(pg, key)]

\* The token is replaced for the time of the call.
kick_test_csrf(pg) ==
    LET save == pg.token
        fake == [pg EXCEPT !.token = 0]
    IN  [page |-> [fake EXCEPT !.token = save], rq |-> api_list_pools(fake)]

---------------------------------------------------------------------------
(* What is on display, and the rows that have buttons.                     *)

make_displayed(pg) == "make" \in pg.view
list_displayed(pg) == "list" \in pg.view
edit_displayed(pg) == "edit" \in pg.view

render_pool_list(pg) == IF list_displayed(pg) THEN pg.list ELSE {}
render_bucket_list(pg) == IF edit_displayed(pg) THEN pg.edit.bkts ELSE {}
render_secret_list(pg) == IF edit_displayed(pg) THEN pg.edit.keys ELSE {}
============================================================================
