# Lens3: models, checks and proofs

Lens3 (`src/v2/lens3`, Go) is a multiplexing service in front of S3 servers.
Users register *pools* (a bucket-directory of a user with its buckets and access
keys).  A request to a bucket goes to a *Multiplexer*, which starts an S3 server
(a *backend*: MinIO, rclone or s3-baby-server) for the pool as the owner of the
directory when none runs, forwards the request, and stops the server when it is
idle.  *Registrar* serves the Web-UI through which pools, buckets and secrets are
made and deleted.  Multiplexers run on several hosts, Registrar on one.  They share
no memory and no lock: all of the shared state is in a *keyval-db* (Valkey).  That
is where this code is hard, and what this project is about.

All paths below are relative to `src/v2/lens3/` unless they say otherwise.

## 1. Inventory

### Components

| component | source | state | operations | model |
|---|---|---|---|---|
| Manager | `manager.go`, `ensure_backend_running()` of `multiplexer.go` | `dx:` mutex, `de:` backend record, `pt:` last access, `ps:` approximate state; per backend: process, channels, pinger thread | `start_backend()`, `ping_backend()`, `stop_backend()`, `abort_backend()`, `suspend_pool()`, `mark_pool_inoperable()` | `BackendManager`, `BackendDirectory` |
| Registrar, pools | `registrar.go`, `poolprop.go` | `px:` pool-names, `po:` pools, `bd:` directories, `bk:` buckets, `sx:` secrets | make/list/delete pool, make/delete bucket, make/delete secret, `gather_pool_prop()`, `deregister_pool_by_prop()`, `probe_access_mux()` | `PoolRegistry`, `PoolSet` |
| Registrar, users | `registrar.go`, `table.go` | `uu:` users, `um:` claims, `tn:` CSRF tokens | `check_user_account()`, `enroll_new_user()`, `extend_user_expiration_time()`, `convert_claim_to_uid()`, `make_csrf_tokens()`, `check_csrf_tokens()` | `UserAccounts`; the tokens in `UiService` |
| Admin tool | `admintool.go` | what one command has read | `load-user` (ADD, MODIFY, DELETE, ENABLE, DISABLE), `stop-user`, `stop-pool`, `time-expiration`, `kill-pool`, `kill-bucket` | `UserAccounts` |
| Multiplexer | `multiplexer.go` | what a request has read; `mu:` registration | checks of a request, forwarding, periodic registration | `AccessCheck`; the start of a backend in `BackendManager` |
| Web UI, simple page | `ui2/lens3ui.js` | token, list of pools, pool in the editor, displayed sections | clicks, API operations, responses | `SimpleUI` in `WebUI` |
| Web UI, Vue | `src/v1/ui/src/lens3c.ts` and components, compiled in `ui/assets/index.js` | the same in a reactive record | the same | `VueUI` in `WebUI` |
| Table | `table.go` | all records | get, set, set-ex, delete, expire, scan | the operations on `po px bd bk sx de dx pt ps uu um tn` are parts of the actions |
| Server | `server.go` | channels, wait group | start and quit of the services, signals | `Crash`, `Restart` |
| Backends | `backend-*.go` | none | `check_startup()`, `heartbeat()`, `shutdown()` | by their outcomes |
| Configuration, logging, MQTT, S3 client, utilities, Lens3-v1 | see `PROJECT.json` | | | not modelled, see section 8 |

### How they interact

A request of a user passes the checks of Multiplexer (`serve_authenticated_access()`)
and comes to `ensure_backend_running()`.  It touches `pt:`, reads `de:`, and calls
`start_backend()` when there is no record.  Handlers of all Multiplexers compete for
`dx:` by SETNX.  The winner starts a process, sets `de:` and leaves a pinger thread.
The pinger heartbeats the process, extends the expiration of `de:`, and calls
`stop_backend()` when heartbeats fail, when `pt:` is old, or when `de:` is gone.
Registrar makes and deletes the records of a pool one by one; its deletions are seen
by handlers and pingers through `po:`, `pt:` and `ps:`.  Registrar itself accesses
Multiplexer as a user, with a *probe-key*, to make buckets.

A page of the Web UI gets a pair of tokens with the user-info: one half as a cookie of
the browser, the other in its own memory.  It shows both halves with each request, and
Registrar compares them with the record `tn:` of the user.  Each response replaces some
of the page's data, and some continue with another request.  An administrator changes
users and pools by a command on the same keyval-db, while sessions of Registrar and
requests to Multiplexer read them.

### What is hard in it

* Interleavings of single keyval-db operations of handlers, pingers and Registrar
  requests, in any number and on any host.  There is no transaction.
* SETNX and EXPIRE are separate operations, SET drops an expiration, and EXPIRE and
  DEL act on whatever record is there, not on the one its caller set.
* Kills of a Multiplexer or of Registrar between any two of these operations, and
  operations that fail: the exception ends a request, or a pinger, where it is.
* Timeouts: expirations against slow threads, a start that times out while the
  server comes up late, waiters that give up.
* Records read early and used late: the pool record in a start, the path and the
  members of a pool in a deregistration, the user record in a session, the four
  records that an access is decided on.
* Commands of the administrator that end half way, on an error or a panic.
* Responses to a page that arrive in another order than their requests, and tabs that
  share a cookie and a `tn:` record.

`PROJECT.json` lists each of them at its line under "hazards".

### What makes it correct

* Manager: a request is always answered; a mutex or a backend record never stays for
  good; a request is not routed to a backend that is being shut down, nor for good to a
  port that nobody serves; idle servers stop.
* Registrar: the records of a pool appear and disappear together; a directory, a name
  or a probe-key does not outlive its pool; of a deleted pool nothing comes back; an
  accepted delete succeeds.
* Users: a claim names one user, and the user's record agrees; deregistering a user
  leaves no pool without an owner; a user whom the administrator disabled stays so.
* Multiplexer: an access is granted only on a key, a bucket, a pool and an owner that
  were good and belonged together since the request came, and a refusal is justified.
* Web UI: a deletion never names a member with the wrong pool; a user who waits for the
  answers has a session that works and sees what Registrar has.

## 2. Modules

| module | what it is |
|---|---|
| `BackendManager` | handlers, delegates with their process and pinger, expirations, deletions of pools, kills, failing operations |
| `BackendDirectory` | the abstract specification of the `de:` records, which `BackendManager` implements |
| `MC_BackendManager` | its instances for TLC |
| `BackendManagerProofs` | inductive invariant and safety theorems |
| `DirectoryRefinement` | proof that `BackendManager` implements `BackendDirectory` |
| `PoolRegistry` | Registrar's requests on pools, buckets and secrets, the other writers of pool records, restarts |
| `PoolSet` | the abstract specification of pools as single objects, which `PoolRegistry` implements when requests come one at a time |
| `MC_PoolRegistry` | its instances for TLC |
| `PoolRegistryProofs` | inductive invariant and safety theorems, for concurrent requests, writers and restarts |
| `PoolRegistrySerial` | inductive invariant and theorems for requests that come one at a time |
| `PoolSetRefinement` | proof that `PoolRegistry` then implements `PoolSet` |
| `UserAccounts` | users, claims, sessions of Registrar until and after their admission, the administrator |
| `AccessCheck` | extends `UserAccounts` by the requests to Multiplexer |
| `MC_AccessCheck` | its instances for TLC |
| `AccessCheckProofs` | inductive invariant and safety theorems |
| `UiService` | Registrar as a page meets it: session, tokens, requests and responses |
| `SimpleUI`, `VueUI` | the two kinds of pages, as functions from a page to a page and a request |
| `WebUI` | extends `UiService`: tabs with pages of both kinds, the browser, the network, the user |
| `MC_WebUI` | its instances for TLC |
| `WebUIProofs` | inductive invariants and safety theorems |

### BackendManager and the code

One step is at most one keyval-db operation with the local work around it; `pc[h]` is
the operation that handler `h` does next, `pinger[b]` the one of a pinger.

| code | model |
|---|---|
| `ensure_backend_running()` | `Request`, `SetPoolTimestamp`, `GetBackend`, `Reply` |
| `start_backend()` | `SetExBackendMutex`, `LoseRace`, `SetBackendMutexExpiry`, `Unlock` (deferred) |
| `wait_for_backend_by_race()` | `WaitForBackendByRace`: a record is found, or the time is over |
| `start_backend_in_mutexed()` | `PoolMissing`, `GetPool`, `ListAvailablePorts`, `Publish`, `SetApproximateState` |
| `try_start_backend()` and `wait_for_backend_come_up()` | `TryStartBackend`, `ExecFails`, `NoPortsLeft`, `ComeUp`, `PortInUse`, `StartTimeout`, `StartFailure` |
| `suspend_pool()`, `mark_pool_inoperable()` | `Suspend`, `SuspendExpiry`, `MarkPoolInoperable` |
| `ping_backend()` | `PingStart`, `Heartbeat`, `HeartbeatMiss`, `CheckLifetime`, `Renew` |
| `stop_backend()` | `StopMutex`, `Withdraw`, `Shutdown` |
| `abort_backend()` | `AbortBackend`, and `quit` in `BackendDies` and `Shutdown` |
| expirations of the keyval-db | `MutexExpires`, `BackendExpires`, `AwakeElapses` |
| `deregister_pool_by_prop()`, the part on `ps: pt: po:` | `DeleteApproximateState`, `DeletePoolTimestamp`, `DeletePool` |
| kill, `force_quit_service()` | `Crash` |
| an exception out of a keyval-db operation: `handle_exc()` of a request, `recover()` of `ping_backend()` | `HandlerRaises`, `PingerRaises` |

The data is abstracted to what matters: a `de:` record is the delegate it was made
for, or SUSPENDED; a timestamp is whether it is within the awake duration; an
expiration is whether the key has one.  The time after which a key expires is not
modelled: with `Timely = FALSE` a key may expire at any moment; with `Timely = TRUE`
the expirations are longer than the work they cover, as configured.  A port
is answered by whichever process has it, since a heartbeat is a plain request.  The
scans of `de:` for ports in use are atomic reads.  An exception in a request runs the
deferred `delete_backend_mutex()`, unless it comes before the defer (at the EXPIRE of `dx:`);
one in a pinger ends the pinger and does not stop its backend.  In both cases the server
process may go on with nobody to stop it, and so may a server that came up after its start
was given up, or that did not end on its shutdown (`proc` is "abandoned"): no property
says that each process is attended, and `doc/design-notes.md` (284-286, 451-452) says, too,
that processes are left.  `stop_running_backends()` and the
flag `shutdown_in_progress` that it sets are left out: nothing calls it.

### PoolRegistry and the code

`pc[s]` is the keyval-db operation that request `s` does next.  The requests start with
`MakePool`, `DeletePool`, `MakeBucket`, `DeleteBucket`, `MakeSecret`, `DeleteSecret`,
`ListPool` and `ListPools`, whose guard `check_user_access` is the existence of the
pool; the checks of the account and of the ownership pass.  What they share follows:
`GetPool` .. `Gathered` are `gather_pool_prop()`, `DeleteBucketDirectory` ..
`DeletePoolName` are `deregister_pool_by_prop()`, `ProbePool` .. `ProbeFails` are
`probe_access_mux()`.  A listing, like every request that returns the properties of a
pool, deregisters the pool when it finds its `bd:` record missing or with another pool
(`poolprop.go:88`).  `panic(nil)` in `probe_access_mux()` ends the request; the quit of the
service that follows from it is `Restart`.  A failure of a keyval-db
operation in the middle of a request stops the request as a `Restart` does, and is not
modelled apart.  Buckets have the prefix `bk:` in the code (`table.go`), and `bx:` in
`doc/design-notes.md`.

`PoolSet` is what a user sees of all this who does not race with another: a pool appears
with its directory and its first key (at `SetPool`), disappears with all of its members
(at `DeleteBucketDirectory`; the deletions that follow are remnants), is refused only for
a directory that a pool has, and no name or key is given twice.  The definition `Pools` in
`PoolRegistry` is the mapping.  It holds only for requests that come one at a time and
are not broken off: the run `directory_lost` shows how two requests break it, and
a `Restart` leaves the half of a pool.

Pool records have other writers than Registrar: a Multiplexer whose start of a backend
fails for good (`mark_pool_inoperable()`), which may be a start that `probe_access_mux()`
brought about, and the commands stop-pool and time-expiration.  Each reads the record
(`ReadPool`) and later stores all of it whatever is there by then (`WriteBack`), or does
not (`NoWrite`).  What they change in it (a flag, a date) is in `AccessCheck`.  So a `po:`
record can be there without its name and its directory; the run `pool_revived` shows it.

### UserAccounts, AccessCheck and the code

The steps are the reads and writes of records.  A session is `Begin`
(`convert_claim_to_uid()`), `check_user_account` (the one read of the user record),
`enroll_new_user` or `extend_user_expiration_time` (the write), and `Perform`: what the
handler does once the user is admitted.  `PoolRegistry` has the single steps of the
handlers; here a handler is one step, because the races within it are checked there.
The administrator's commands are taken apart: `ListPools`, `DeregisterOne`,
`clear_user_claim`, `delete_user`, `delete_user_claim` are `deregister_user()`,
`AddClaim` and `set_user_raw` are `add_user()`, `ReadRecord` and `WriteRecord` the
commands that change one field.  An error or a panic ends the command where it happens,
as in the tool.  There is one administrator: commands do not overlap.

A request to Multiplexer reads the key (`check_authenticated`), the bucket
(`check_bucket_in_path`, with the comparison of the pools and the expiration), the pool
(`ensure_pool_existence`), and the owner (`ensure_pool_state`, with the permission,
which depends only on what was read before).  A granted request is forwarded, or it starts a
backend: `start_backend` reads the pool once more, and `mark_pool_inoperable` stores that
record later, unconditionally.  Names are generated once (`used`), as in
`PoolRegistry`; the names of buckets are reused.  The clock advances at any time; an
expiration equal to the clock has passed, as in `!time.Now().Before(expiration)`.
`late`, `seen` and `quiet` are history variables for the properties; no guard reads
them.

### UiService, SimpleUI, VueUI, WebUI and the code

A page is a record, and each function of the page is an operator of the same name.  What the
user types is a parameter; texts and formats are left out, except that the type of
`expiration_time` is kept, because Registrar refuses a string.  `Click` is a click that
submits a request, `Local` one that does not.  `Headers` is the arrival of a response
(the browser stores its cookie), `Body` the continuation in the page
(`response.json().then(...)`); between the two other events run.  Requests and responses
are sets: up to two are under way, in any order.  Registrar serves a request in one step.
`hurried` tells the tabs whose user clicked on before the answer came, or that met a loss,
an expiration or another tab; the properties on sessions and displays are for the others.
So responses to the user-info that overtake each other, a pair of tokens that another tab
replaced, and deletions by another tab happen in the model and are left out of these
properties: until it is loaded again such a tab is refused, or shows what is gone, and
`SessionWorks` claims that the reload repairs it.  The rows on display and the data they
are rendered from are one record, so a missing rendering would not show.

## 3. Bounds

| bound | where | why it is enough |
|---|---|---|
| `Backend`, `SupplyLeft` | delegates are made from a finite supply; a request is taken only when every request can get one | with two delegates of a pool, one replaces the other and each interleaving of two starts and two pingers occurs |
| `MaxFault`, `MaxRestart` | kills and failing operations (`Faults` has the kinds) | one of them leaves every remnant; nothing repairs it, so a second one adds only its own |
| `Writer` | writers of pool records in progress, 0 or 1 | one is enough to bring a record back; two act on `po:` only, one after the other |
| `Pool`, `Key` drawn once, `spare` | random names | random names do not collide in practice (SETNX retries on a collision); `spare` keeps a request from being stuck for lack of keys |
| `MaxClick` | loads and clicks that submit a request, 4 in all tabs | a load, a list and two overlapping operations; a session that breaks, and the reload that repairs it |
| `Conn` | two fetches under way | two responses are what it takes to overtake |
| `MaxBegun` | requests to either service and commands, 3 together | one of each kind at the same time, or one after two commands; the steps of each interleave freely |
| `MaxTime`, `Days` | 1 | a date is before, at or after the clock |
| `Heartbeat_miss_tolerance` | 0 | the first miss stops a backend; `TypeCorrect` has any tolerance |
| `Port` | 1, and 2 in the run `quit` | with one, pools compete for it and a start runs out of ports; with two, a start is tried again, which the other runs leave to the proofs |

Deadlock is checked in the runs of the registry (a listing is always possible).  The
manager may come to rest when its supply of delegates is used up, so its runs say
`CHECK_DEADLOCK FALSE`; so do the runs of the Web UI and of the accounts, which rest when their
clicks and commands are used up.

## 4. Runs

Passing:

| run | instance | shows |
|---|---|---|
| `manager` | 2 Multiplexers with a handler each, 1 pool that may be deleted, 2 delegates, 1 port, expirations at any time, and at any point a kill of either Multiplexer or a failing operation of a handler or a pinger; 2.0 million states | `TypeOK`; `MutexHolderAtWork`, `MutexGetsExpiry`, `RecordGetsExpiry`: what is set without an expiration is about to get one, as long as no fault happened; `WithdrawnBeforeShutdown` and `ImplementsDirectory`, with faults |
| `live` | 2 handlers of a Multiplexer, 2 pools, 2 delegates, a single port, fairness, `Timely`; 0.6 million states | `EveryRequestAnswered`, `IdleBackendStopped`, `SilentPortWithdrawn`: with two pools on a port, the backend of one answers for the dead one of the other, so it is not said that a dead backend leaves `de:` |
| `registry` | 2 concurrent requests and a writer of pool records, 2 pools, 2 keys, 2 directories, no buckets, one restart; 0.9 million states | `TypeOK`, `DirectoryHasPool`, `ProbeKeyHasPool`; `NameHasPool`: a name without a record is about to get it or to be released; `DeletedForGood`: a deleted pool never gets back its name, a directory or a probe-key, and its record comes back only by a writer that had read it |
| `registry_serial` | one request at a time, 3 pools, 3 keys, 2 directories, 2 buckets | `ConsistentAtRest`: all records of all pools agree between requests; `NeverInconsistent`: no request but delete-pool deregisters a pool; `ImplementsPoolSet` |
| `registry_live` | 2 concurrent requests with fairness and a writer, 1 pool, 1 directory, 1 bucket; 0.5 million states | `PoolGetsDeleted` |
| `ui` | 2 tabs, 2 connections, 2 pools, a key, a bucket, 4 clicks, pages of both kinds; 2.7 million states | `TypeOK`; `RequestNamesItsPool`; `SessionWorks`; `ShownAtRest` |
| `access` | 2 users, a claim, 2 pools, a bucket, a key, a session, a request, 3 configurations; 2.7 million states | `TypeOK`; `ClaimsAgree`; `OrphanPoolIsLate`; `GrantedWasAllowed`; `QuietDecision` |

Violations, each a statement of the repository that the code does not keep:

| run | statement | how it fails |
|---|---|---|
| `single_backend` | `dx:` ensures that only a single backend starts | nobody looks at `de:` again after getting `dx:`, and a pinger deletes a `dx:` that it does not hold |
| `quit` | a pinger stops when it is instructed to | `break` leaves the `select`, not the loop |
| `directory_lost` | a directory is assigned to one pool, atomically | a late deregistration of an old pool deletes the `bd:` of a new pool on the same path, and a third pool gets the path |
| `pool_revived` | a pool record is furnished with its directory | a writer stores the record it read before the pool was deleted (`manager.go:681`, `admintool.go:733`, `305`): it is back without its name, directory and keys |
| `disabled_user` | an administrator can disable a user | a session of an ephemeral user writes back the record it read before, enabled (`registrar.go:1698`) |

### Further observations

These follow from the same models in a few steps; there is no run for each.

* A kill between SETNX and EXPIRE of `dx:` (`manager.go:262` and `274`), or an EXPIRE
  that fails, leaves a mutex for good: nothing removes it, and each later request of the
  pool loses the race and waits in vain.  This is why `MutexHolderAtWork` and
  `MutexGetsExpiry` are stated for behaviours without a fault.  (A SIGTERM is such a kill:
  the process ends without waiting for its handlers.)
* An operation that fails in a pinger, or in a handler between the start of a server and
  the start of its pinger (`manager.go:379-390`), leaves a server that nobody pings or
  stops; its `de:` record, if it has one, expires or stays like that of a dead backend.
* `start_backend_in_mutexed()` reads the pool again and does not look at its state: a
  request that passed the check earlier starts a backend of an inoperable pool.
* The pinger of a dead backend is kept going by a backend of another pool that got
  its port, and its `de:` record goes on routing requests there.  `SilentPortWithdrawn`
  allows for it; without "or some process gets the port" it is violated in the run `live`.
* The owner of a bucket is checked and its record is deleted by two operations
  (`registrar.go:823`): a bucket that changed hands in between is taken away from its
  new pool.  The roll-back of a failed make-bucket does the same.
* A delete-pool in the middle of a make-pool or a make-bucket makes `probe_access_mux()`
  run into `panic(nil)` (`registrar.go:1883`), which `handle_exc()` takes as fatal: the
  service quits.
* `gather_secrets()` says that it excludes the probe-key and does not; if it did, each
  deletion of a pool would leave a probe-key behind.  This is the mutant of
  `ProbeKeyHasPool`.
* A kill between the SET of `de:` and its EXPIRE (`manager.go:390` and `715`) leaves the
  record of a dead backend for good, and requests are forwarded to it, although
  `doc/design-notes.md` says that it is safe to stop and start the service.
* make-bucket checks the pool first and sets `bk:` later (`registrar.go:756`): a pool
  deleted in between leaves the bucket behind, although the comment at
  `multiplexer.go:757` calls that inconsistent.
* A pool made by a request that was admitted before its user was deregistered has no
  owner (`late`).  `gather_pool_prop()` logs that and then dereferences the missing
  record (`poolprop.go:72`), before it comes to the deregistration it has in mind:
  neither `kill-pool` nor another ADD of the user gets rid of the pool; both end in a
  panic.  A MODIFY row, which makes a user record again, repairs it.
* An ADD row with a claim of another user deletes the user and the pools, and then fails
  (`admintool.go:234`, `table.go:722`); the rows that follow are not processed.
* ENABLE and DISABLE rows for an ephemeral user fail at
  `assert_fatal(len(u.Groups) > 0)` (`table.go:717`), and the rows that follow are not
  processed; `stop-user` does it.
* A MODIFY row with a new claim leaves the old `um:` record, by which one can go on to
  log in, until the user is deleted.
* An ephemeral user whose expiration has passed is rejected by Multiplexer and not by
  Registrar, where a request extends the expiration.
* The simple page sends `expiration_time` as a string (`ui2/lens3ui.js:664`), and
  Registrar decodes an int64: each "Create key" of that page is answered by 400.
* `check_csrf_tokens()` logs `v.Csrf_token` also when there is no record `tn:`
  (`registrar.go:1274`): a request after the expiration of the session ends in 500, by
  the recovery from a nil dereference, and not in 401.
* `list_groups_of_user()` may return nil, which is `null` in the user-info: both pages
  index it.
* The Vue page edits the entry of its last list (`lens3c.ts:60`): after adding a bucket,
  editing another pool and coming back, the bucket is missing in the editor.  Its form
  for a new pool shares `buckets_directory` and `group` with the editor.
* `check_int_in_ranges()` (`utility.go:413`) excludes the upper bound that its comment includes.

### Mutants

Each property of a passing run is violated by a change of the model that a slip in the
code would make.  The changed actions stand before the originals, under the comment
"Mutant", and no specification uses them.

## 5. Fairness

* `WF` of a handler (`HandlerNext`), a pinger (`PingerNext`) and a Registrar request
  (`Serve`): goroutines are scheduled, operations on the keyval-db return or time out, and each
  wait in them has a timeout.
* `WF` of `MutexExpires` and `BackendExpires`: the keyval-db removes expired keys.
* Nothing for requests, deaths of processes, deletions, faults, writers of pool records, nor for `AbortBackend`,
  whose thread may be blocked in sending to a channel that nobody reads.
* `AwakeElapses` is not fair: users may go on accessing.  `IdleBackendStopped` has it as
  its premise.

No strong fairness is needed: the waits are polls with a limit.

## 6. Proofs

All theorems are for every value of the constants that satisfies the assumptions
named in the modules (`ConstantsAssumption`, `NilAssumption`, `NilPageAssumption`,
`RegistryAssumption`, `BoundAssumption`, `StartAssumption`, `RequestAssumption`): any number
of Multiplexers, handlers, pools, delegates, ports, requests, users, claims, keys, tabs,
clicks, writers and faults.  The
assumptions say that the constants have their types, that `Nil` is none of the values it
stands in for, and that the tables in the beginning agree with each other.

**Manager** (`BackendManagerProofs`).  The invariants that the run `manager` checks are
not inductive by themselves.  `IInv` adds

* `ThreadHasPool`: a handler at work knows its pool;
* `DelegateOwned`: a delegate belongs to one handler, to its pool and its Multiplexer,
  and has no pinger until it is published.  Without it, `Publish` could enter a delegate
  whose pinger has already stopped, and break `WithdrawnBeforeShutdown`;
* `Tolerated`: a pinger in its loop has missed at most the tolerance, which bounds the
  counter in `TypeOK`.

`HandlerTypeOK`, `PingerTypeOK` and `EnvironmentTypeOK` prove the types, `HandlerFrame`
and `PingerFrame` say what the steps on other variables leave alone, and one lemma per
conjunct (`DelegateOwnedStep`, `WithdrawnStep`, `MutexStep`, `RecordStep`,
...) has one case per action that can disturb it.  `Invariance` is
`Spec => []IInv`; `TypeCorrect`, `WithdrawnBeforeShutdownAlways`, `MutexReleased`,
`MutexesExpire` and `RecordsExpire` follow.

**Refinement** (`DirectoryRefinement`).  The entry of a pool is `de`, the answer of a
request is `be`, and a backend has entered the directory once its pinger exists.
`DirectoryImplemented` shows that each step is an entry, a block, a lookup, a removal, the
end of requests, or a stutter.  The hard case is `Publish`, which needs
`DelegateOwned`: a delegate is entered once.

**Registry** (`PoolRegistryProofs`).  `IInv` adds to the invariants of the run

* `Arguments`: what a request has at hand at each step;
* `Drawn`: names and keys in use have been drawn, so a new pool meets no remnant;
* `Alone`: a request that makes a pool is the only one with its name;
* `OneDirectory`: a pool has no directory but the one in its record, and none once a
  deregistration has passed that step.  Two deregistrations and a listing of the same
  pool may all be at different steps; it is this that lets the first to delete the
  record do so without leaving the directory behind;
* `OneProbeKey`: the same for the probe-key, which each deregistration must have
  collected;
* `InHand`: a record that a writer has read is of a pool that is made, and names its one
  directory, so storing it late disturbs none of the others;
* `NothingLeft`: a pool whose name is released has neither a directory nor a probe-key.

`Invariance`, `TypeCorrect`, `NamesSettled`, `DirectoriesReleased`, `ProbeKeysDeleted`
follow, and `DeletionFinal` (an action property) from `Alone`, `Drawn` and
`NothingLeft`: a request sets a pool record only while it is alone with a name that is
still held (`NeverBack`), and a writer stores only what it has taken while it was there
(`StaysGone`).  That a record has its name is not among the theorems: a late write breaks
it (`pool_revived`).

**Registry, one request at a time** (`PoolRegistrySerial`).  `ConsistentAtRest` says
nothing while a request runs, so it takes an invariant of the steps in between.
`SerialInv` is

* `OneActive`: at most one request is not idle;
* `WritersWait`: a record that a writer has in hand is the one in the table; and
  `RecordGone`, `NameHeld`: then the record goes before the name;
* `Knows`: what a request has read still holds (its pool exists, the path it holds is the
  one of the record, a directory and a probe-key that it set are its own), and it has found
  no inconsistency;
* `Collected`: the members of a pool that is being deregistered are in what
  `gather_pool_prop()` collected, until they are deleted: none is left when the record goes;
* `Agree`: the records of all other pools agree.

`OthersIdle` is what makes it work, and `KnowsStep`, `CollectedStep` and `AgreeStep` have
one case per action.  `SerialInvariance`, `SerialConsistent` and `SerialNotDeregistered`
follow.  The theorems are about `Spec` itself: the properties have `Serial` and
`restarts = 0` as their premises.

**Refinement** (`PoolSetRefinement`).  `PoolSetImplemented` has `Serial` and
`MaxRestart = 0` as hypotheses, because a refinement is about whole behaviours.  It adds
`Exact`, the converse of `Collected`: what was collected is of this pool and of no other,
so the deletions after the directory is released are not seen by `PoolSet`.
`AppearPoolSet` (the step that sets `po:`) needs `Agree`, for the directory to be nobody's,
and `Collected`, for the pool to come with exactly one key; `RefusePoolSet` needs
`DirectoryHasPool` and `OneDirectory`, for the directory to be one of an existing pool;
`DisappearPoolSet` is the release of the directory.  All other steps are stuttering.

**Accounts and access** (`AccessCheckProofs`).  `IInv` is the conjunction of

* `Typed`: the types, with the arguments that a session, the administrator and a request
  hold between a read and a write (`SessionArguments`, `AdminArguments`,
  `RequestArguments`);
* `ClaimInv`: `ClaimsAgree`, with `EphemeralUnclaimed` (the records that sessions write
  back never have a claim, so a late write cannot bring a claim back) and `ClaimInHand`
  (what the administrator has done to `um:` so far: the claim goes before the record is
  deleted and comes before the record is written);
* `InTime`: a pool that is not `late` has its owner, and is still on the list of the
  administrator who deregisters the owner, until the list is empty.  `late` are the pools
  that a session makes, or a failing start writes back, for an owner who is going;
* `SeenInv`: what the history `seen` must contain after each check, from the records that
  the request has read.  The clock only advances, so an expiration that is in the future at the last
  check was so at every earlier one;
* `ReadInv`: while nothing changes, the records that a request has read are those in the
  tables, and a refusal contradicts one of the conditions of `Allowed`.

`SessionTypes`, `AdminTypes` and `RequestTypes` prove the types; `ClaimSession`,
`ClaimAdmin`, `InTimeSession`, `InTimeAdmin` and `InTimeRequest` have one case per action;
`RequestMoves` reduces the steps of a request to five moves, on which `SeenMoving` and
`ReadMoving` argue.  `Invariance`, `TypeCorrect`, `ClaimsUnique`, `OrphansLate`,
`GrantsSound` and `DecisionExact` follow.

**Web UI** (`WebUIProofs`).  There are two inductive invariants.

* `Typed` is `TypeOK` with `Arguments`: each request has the arguments its operation
  needs, and each description of a pool, in a page, in a list, in a response or in the
  records, has only members that its pool had (`Known`, by the history `held`).
  `RequestNamesItsPool` follows from it: the editor is replaced as a whole, so a late
  response cannot mix the rows of one pool with the name of another.
* `CalmInv` is about tabs whose user waits: at most one is calm (`OneCalm`), and what it
  waits for is one message (`Waits`).  While it is a request, the tokens it carries are
  Registrar's and the display is up to date, or the request is the one that repairs it
  (`Asked`); while it is a response, the response says what Registrar has (`Told`); and
  without one the page is `InSession` and `Fresh`.  `SessionWorks` and `ShownAtRest` say
  something about two of these moments only, and neither is inductive: the display after a response
  depends on what the request was, and the token on which half of a pair has come.

The pages enter only through what a click or a response makes of a page (`Submits`, `Alters`,
`Receives`, `Settles`), with one lemma per function of each page; the steps of the network
then do not look into pages.  `TypesHold`, `RequestsNameTheirPools`, `Invariance`,
`SessionsWork` and `ShownWhenQuiet` are the theorems.

**Only model-checked.**  Liveness (`EveryRequestAnswered`, `IdleBackendStopped`,
`SilentPortWithdrawn`, `PoolGetsDeleted`): fairness and ENABLED are out of the prover's
reach, as are induction over data and RECURSIVE operators, which these modules do not use.
Every safety property of the passing runs is the statement of a theorem.

## 7. Plan

1. `BackendManager`, `BackendDirectory` and their proofs: done.
2. `PoolRegistry` and its proofs: done.
3. `UserAccounts`, `AccessCheck` and their proofs: done.
4. `UiService`, `SimpleUI`, `VueUI`, `WebUI` and their proofs: done.
5. `PoolSet` and its refinement: done.
6. `MuxRegistry`: periodic registration with `mu:`, its expiration, and the choice of a
   Multiplexer by Registrar.
7. `Startup` and `ServiceQuit`: the threads that drain the pipes of a server that comes up, and the
   channels between main thread, signals and services.

## 8. Not modelled

* Admin tool: dump and restore, which replace the table as a whole, are meant for a
  stopped service and are file I/O; the commands that only print.
* Configuration: parsing, without state.
* Logging, MQTT, statistics: no property of the service depends on them.
* S3 client: requests to a backend; the manager ignores their failures.
* Signatures of requests: an outcome (`BadSignature`).  The rewriting of a forwarded
  request and the relaying of its response are I/O.
* `mu:` and `ut:`: nothing decides by the user timestamp, and Registrar only tests
  whether there is a Multiplexer.
* The `ui/assets` directories: `index.js` is the compiled form of the Vue page together
  with the Vue and Vuetify libraries, about 650 of whose 21854 lines come from this
  project, and `webfontloader.js` is a library.  They are more than nine tenths of the JavaScript
  in the repository, whose own part (`ui2/lens3ui.js`, `lens3c.ts` and the components) is modelled.  The
  service itself is Go.
* Lens3-v1 (`src/v1/src`, Python): superseded.  Its simple page differs from the one of
  v2 in two lines.
* Real time: `backend_linger_time` between withdrawing and shutting down, and the
  durations of the timeouts.
