# Civio: a verification project

Civio is an intercom and VoIP service for residential communities. The repository holds
one program, `civio-cloud`, a FastAPI application over PostgreSQL and Redis; `civio-edge`
and `civio-app` are README files, and much of `docs/` describes parts that have no code
yet. This directory holds TLA+ models of that program, the TLC configurations that check
them, and proofs checked by TLAPS.

Paths below are relative to `src/civio-cloud/src/` unless they start with `docs/`.
"The migration" is `migrations/versions/61aa11b09d9f_initial_schema.py`.

## Inventory

| Component | State | Operations | What makes it correct |
|---|---|---|---|
| OTP login (`services/auth_service.py`, `api/v1/auth.py`) | Redis keys `otp:<challenge_id>` (the code, user ids, attempts) with a TTL | `send_otp`, `verify_otp`, `refresh` | at most five wrong codes per challenge, one token pair per challenge, a burned challenge never returns, revoked users never get in |
| Tokens (`core/security.py`) and authorisation (`core/dependencies.py`) | none on the server: signed claims, held by clients | issue, decode, `get_current_user`, `require_role`, `get_current_community_id`, `logout` | the row decides, not the claims; no token outlives its lifetime; access and refresh tokens are not interchangeable |
| Database session (`core/database.py`) | a pool of connections; one transaction per request | `get_db`: commit after the handler, roll back on any exception, close; pre-ping at checkout | what a failed request did in PostgreSQL is undone (what it did in Redis is not); a success answered is a success committed; connections and locks come back; broken connections fail no later request |
| Repositories (`repositories/`) | none | `get`, `list`, `create`, `update`, `delete`, `list_by_mobile` | a change is made on the row as it is, not as it was loaded |
| Version trigger (the migration, lines 784-806) | `communities.current_version` | `tg_bump_community_version` after every row change of four tables | equal versions mean equal rows for an edge node |
| Schema (the migration, lines 34-731, `models/`) | 16 tables, foreign and unique keys, the append-only trigger of `token_ledger` | INSERT, UPDATE, DELETE with CASCADE, SET NULL, RESTRICT and NO ACTION | no dangling reference, no ledger entry changed, records not deleted by the way |
| Migration as a procedure (`upgrade`, `downgrade`, `migrations/env.py`) | the catalogue of the database | about 100 DDL statements in a transaction | down undoes up, in an order the dependencies allow; a database is seen at one revision or the other |
| Balance view, `sync_events`, `sync_state`, `processed_events` | tables with no code that writes them | none yet | see *Not modelled* |
| `main.py`, `core/exceptions.py`, `core/redis_client.py`, `schemas/` | none that changes | exception handlers, the shared Redis client, field patterns | every exception has its status; each request is answered for what it did |
| `core/config.py`, `core/logging.py` | none that changes | settings, log lines | see *Not modelled* |

How they interact. A request enters through a router of `api/v1/auth.py`; FastAPI builds its
dependencies, one `AsyncSession` (`get_db`) and the shared Redis client, then runs the
handler on the event loop. At each `await` other requests run. Redis commands take effect at
once; SQL changes are flushed inside the request's transaction, fire the version trigger
there (and lock the row of the community), and are visible to others when `get_db` commits,
after the handler has returned. So one login writes to two stores that are committed apart.

What is hard here:

* **interleaving at awaits**: `verify_otp` reads a challenge, decides, and writes it back or
  deletes it in three separate Redis commands;
* **two stores**: the challenge is burned before the commit that promotes the user; either
  may fail without the other;
* **stale reads**: the user a promotion decides on, the user ids stored when the code was
  sent, the claims copied into a token;
* **time**: a key that expires between its read and its write, a token that expires between
  its decoding and the end of its request;
* **locks**: every write of a user row also locks the row of the community until commit, so
  requests of one community queue, and transactions of several statements may deadlock;
* **cascades**: one DELETE acts on up to eight tables, two of which have triggers that raise;
* **the pool**: a session keeps its connection over the awaits of Redis and of row locks, and
  connections outlive the server they lead to;
* **migrations**: a long script in one transaction, stopped anywhere, or run twice at once.

## Modules

| Module | Models | Status |
|---|---|---|
| `OtpChallenge` | what a one-time password promises, abstractly | done |
| `AuthService` | OTP login, refresh, provisioning requests, sessions | done |
| `AuthServiceSequential` | `AuthService` with one request at a time implements `OtpChallenge` | done |
| `AuthServiceProofs` | theorems about `AuthService` | done |
| `AuthServiceIsolationProofs` | theorems about overlapping requests kept apart, and the refinement | done |
| `CommunityVersion` | the version trigger under overlapping transactions | done |
| `CommunityVersionProofs` | theorems about `CommunityVersion` | done |
| `TokenLifecycle` | tokens, claims, expiry, refresh, logout, authorisation | done |
| `TokenLifecycleProofs` | theorems about `TokenLifecycle` | done |
| `ForeignKeys` | the foreign keys and unique columns of the migration, table by table | done |
| `CivioSchema` | rows under them: cascades, unique keys, the ledger trigger | done |
| `CivioSchemaProofs` | theorems about `CivioSchema` | done |
| `Catalogue` | tables, types, indexes, functions, triggers and views, with what each needs | done |
| `Models` | what the ORM declares (`models/`) | done |
| `InitialSchema` | the statements of `upgrade` and `downgrade`, in order | done |
| `Revision` | what a migration promises, abstractly | done |
| `Migration` | several `alembic` processes over one catalogue; implements `Revision` | done |
| `MigrationScripts` | what each script makes and takes away by itself, statement by statement | done |
| `MigrationProofs` | theorems about `Migration` | done |
| `RequestPaths` | what each way through a handler awaits and ends in; the statuses | done |
| `SessionPool` | requests over the pool of connections, under faults | done |
| `SessionPoolProofs` | theorems about `SessionPool` | done |
| `MC*` | small instances of the above for TLC | done |

### AuthService

Variables: `users`, the committed `auth_status` of each row (`unborn` and `deleted` for a
row that is not there); `redis`, the entry of each challenge, with its `payload` (`uids`,
`attempts`) and whether it has a `ttl`; `req`, where each request stands and what it holds in
memory; `holders`, who has received a token pair. The other variables are history: no action
of the code reads them. A code is abstracted to whether it is right, a
mobile and a community to the constants `MobileOf` and `CommunityOf`.

One action is one stretch of a handler between two awaits that matter:

| Action | Code (`services/auth_service.py`) |
|---|---|
| `SendOtp`, `StoreChallenge` | list the rows of the mobile and build the payload; SETEX and answer |
| `VerifyOtp` | GET, and the decisions on the payload (`Verdict`): cap, wrong code, ambiguous mobile |
| `CountAttempt` | SET of attempts + 1 with KEEPTTL, from the payload read before |
| `BurnAndReject` | DELETE at the cap, for an ambiguous mobile, or when the user is gone |
| `LoadUser` | SELECT of the user, `_promote_or_check` up to its flush |
| `FlushRow` | `session.flush`: waits for the locks, then succeeds or raises |
| `BurnAndAccept` | DELETE of an accepted challenge |
| `Commit`, `CommitUnheard` | the commit of `get_db`, and the answer, which may be lost |
| `Refresh` | `refresh` up to its commit |
| `CreateUser`, `UpdateUser`, `DeleteUser` | `BaseRepository` in another request |
| `Fail` | an exception at any await, or the end of the process: PostgreSQL rolls back, Redis keeps what was sent |
| `Refuse` | a request turned away on its first read |
| `Expire` | Redis drops a key at its TTL |

A SELECT and the Redis GET before it are separate awaits in the code and separate actions
here; two awaits between which nothing that another request writes is read are one action.

### CommunityVersion

`rows` and `version` are the committed rows and counters, `session` the open transactions:
the row versions each has written, the statement it waits to run, the communities it has
bumped. A statement is three steps, as in PostgreSQL: `Submit` (a flush sends it), `Write`
(it gets its row lock and runs on the row as it is then; its trigger starts or raises),
`Bump` (the trigger's UPDATE gets the lock of the community). `Commit`, `Rollback` and
`AbortDeadlocked` end a transaction. `Triggered` is the list of line 801 of the migration,
`HasCommunity` the tables that have the column the trigger reads. `moved`, a field of
`session`, is history: the rows the transaction has taken to another community. Row locks, READ COMMITTED
and the deadlock detector belong to PostgreSQL and are marked external.

### TokenLifecycle

`now` is the clock of the API in whole seconds (`int(now.timestamp())`), `row` the committed
user rows, `issued` every token ever handed out (a client may keep it). A request is
`Present` (decode and type test), `Load` (SELECT of the user, status and role), then its body:
`Refresh`, `Logout`, or `End` for a gated endpoint, a failure or a cut connection.
`ChangeRow` is another request's commit. `allowedIn` is history.
`Login` stands for the end of `verify_otp`, whose own steps are in `AuthService`.

### CivioSchema

`stored` holds each row's references (and the idempotency key of a ledger entry). The sets
`SyncTables` to `Relations` of `ForeignKeys` are the foreign keys of the migration, in its
order, with their ON DELETE rule (`InitialSchema` creates its tables from the same list); `Doomed`, `Nulled` and `Blocked` are what a DELETE removes, sets to NULL and
is refused for. One statement is one step, since PostgreSQL runs keys, cascades and triggers
inside it and undoes it as a whole; a transaction that changes several rows is a sequence of
such steps, any prefix of which a checker sees. `Doomed` looks one level down, because that
is where cascades end: `CascadesEnd` in `CivioSchemaProofs` is proved of the real list.

### Migration

`catalog` is the set of committed objects, `mig` the `alembic` processes. `InitialSchema`
translates `upgrade` and `downgrade` statement by statement, in the order they are sent
(`op.create_table` sends a CREATE TYPE first for an enum the run has not met). `Models`
translates `models/` on its own, so that `ImplementsRevision` compares the two: a database at
the head holds all the ORM declares (`Declared \subseteq catalog`), one at the base nothing
but the extensions and `alembic_version`. Of a column only its foreign key, its enum type and
`updated_at` are objects.

`Begin` reads the revision and picks the script; `Run` sends the next statement, which is
skipped (IF EXISTS), refused (something is there already, is missing, or still needs what is
dropped) or carried out in the process's own view; `Wait` is a statement that touches what
another open transaction has created or dropped; `Finish` commits, `Stop` and
`AbortDeadlocked` roll back. These rules are PostgreSQL's and Alembic's and marked external.
`MigrationScripts` says of each script what it does in order and alone (the next statement of
`upgrade` makes something new and has what it needs, the next of `downgrade` drops something
that is there and that nothing needs any more); TLC evaluates that whenever it runs `migration`.

### SessionPool

`conn` and `holder` are the slots of SQLAlchemy's pool, `req` the requests, `lock` the
communities whose row a transaction has locked in PostgreSQL, `up` whether PostgreSQL accepts connections; `durable` and `hit` are
history. A request is a path of `RequestPaths` - the Redis commands, SELECTs and flushes a
handler awaits, in order, and the response or exception it ends in - and not its data: that
is `AuthService`, where a session has no connection to lose.

| Action | Code |
|---|---|
| `Arrive` | the dependencies are solved (`api/v1/auth.py`); no connection yet |
| `Checkout`, `CheckoutTimesOut` | the session's first statement takes a slot, after `pool_pre_ping` (`core/database.py:32`), or the pool's timeout raises |
| `RedisReplies`, `RedisFails`, `Select`, `Update` | one await of the handler |
| `LoseConnection` | a statement or the commit finds the connection gone |
| `Finish` | the handler returns (`else`) or raises (`except`) into `get_db`; FastAPI raises its own exception for a refused body only after the `else` |
| `Commit`, `RollBack` | `session.commit` or `rollback`, then `close`, then the status of `core/exceptions.py` |
| `CommitUnheard`, `Drop`, `Reap`, `ServerDown`, `ServerUp`, `ProcessDies` | faults, and what PostgreSQL does about a client that is gone |

An UPDATE of a user locks that row and, through the version trigger, the row of the community;
whoever writes a user of the community needs the second, so it stands for both. The order of
the two is in `CommunityVersion` (`OneStatementNeverDeadlocks`), and an UPDATE whose row is gone
(`StaleDataError`) locks nothing and is a statement like a SELECT here.

FastAPI (0.115.14 in the lock file) runs the code after `yield` before it sends the response,
so the answer comes after the commit. SQLAlchemy's default pool is 5 slots and 10 more on
overflow, with a timeout of 30 seconds.

## Runs

Passing runs; together they take every action of their modules.

| Run | Instance | Shows |
|---|---|---|
| `auth_sequential` | 2 users sharing a mobile in 2 communities, 1 challenge, 1 request at a time, cap 2, up to 3 wrong codes | `TypeOK`, `AttemptsExact`, `HolderAnsweredCode`, `RevocationStands`, `ImplementsOtp` |
| `auth_concurrent` | 2 overlapping requests over 2 ids for one mobile of one community, 1 challenge, cap 1, with fairness | `NoOvercount`, `UniqueMobile`, `DeletedStaysDeleted`, `RequestCompletes` |
| `version` | 2 sessions of up to 2 statements, a row of `users`, one of `units` and one of `friend_mappings`, 2 communities, with fairness | `TypeOK`, `VersionCountsChanges`, `SameVersionSameRows`, `NoFriendship`, `WaitEnds` |
| `tokens` | 1 user whose row takes any status, 2 roles and 2 communities; 2 token pairs, lifetimes 1 and 2, clock up to 4 | `TypeOK`, `NoStaleAuthority`, `NothingOutlivesTtl` |
| `schema` | a community, a user with a consent and an announcement, a call, 2 ledger entries, 2 billing records, 1 idempotency key | `TypeOK`, `NoDanglingReference`, `LedgerAppendOnly`, `RecordsSurvive`, `DebtorsStay` |
| `migration` | 2 processes, the whole of both scripts, with fairness | `FailsOnlyIfOvertaken`, `ImplementsRevision`, `MigrationEnds` |
| `pool` | 2 requests that are used again, 1 slot, 1 community, 7 kinds of path, with fairness | `TypeOK`, `AnswerIsTrue`, `FaultsStayBehind`, `NothingLeaks`, `RequestEnds` |

Runs that end in a violation, each with an entry under `findings` in `PROJECT.json`:

| Run | What the counterexample shows |
|---|---|
| `race_cap` | two overlapping wrong codes read `attempts` n and both write n + 1: more wrong codes than the cap |
| `race_one_time_use` | two overlapping right codes both pass before either deletes: two pairs for one challenge |
| `race_revocation` | a revocation committed between the read and the flush of a promotion is overwritten |
| `race_burn` | the SET of a wrong code lands after the DELETE of a right one: the burned challenge is back (`BurnIsFinal`) |
| `race_expiry` | a key that expires between the GET and the SET of a wrong code is created anew and never expires: there is no TTL for KEEPTTL to keep (`EveryKeyExpires`) |

Two more disagreements with `docs/` are shown by passing runs, since what the code does is a
property of its own: `NoFriendship` (the trigger raises on `friend_mappings`, which has no
`community_id`, so no friendship can be stored) and `DebtorsStay` (a user with a ledger entry
is never deleted: SET NULL meets the append-only trigger).

`migration` also reaches two downgrades that drop the same objects and wait for each other;
PostgreSQL aborts one, and `FailsOnlyIfOvertaken` says that it takes a third party's commit,
or a start from a revision that is gone, to get there.

Three disagreements have no run. A row that changes community bumps only the community it
enters (`COALESCE(NEW.community_id, OLD.community_id)`, line 795 of the migration): the version
of the one it leaves stays, and its edge node keeps the row. `SameVersionSameRows` exempts such
rows, by `moved`. `announcements`, `tasks` and `user_unit_relations` are listed as synced and
have no trigger: `SameVersionSameRows` fails on them at once. Refresh tokens are not rotated
and logout revokes nothing (the code calls it a "Stateless MVP"), where
`docs/06-security-checklist.md` promises both. All are listed as hazards.

### Bounds

`MaxGuesses`, `MaxStatements`, `MaxVersion` and `MaxTime` are bounds of the models alone, in
guards of the actions that would pass them. A cap of 2 has all the cases of 5: below, at one
below, at the cap; `MaxGuesses` is above the cap wherever the cap is at stake. Two requests
are enough for every race of one read with one write; the invariants proved below hold for
any number. In `version` two rows that can be stored, two communities and two
sessions give every order of two locks of either kind, and `MaxVersion` 2 lets each of two
changes follow the other; the third row is one that cannot. In `tokens` the clock passes the longer lifetime twice, so a refreshed pair is seen to its end; requests
share nothing but the rows and the tokens handed out, so one stands for all. `migration` has
no bound: two processes are the fewest that can wait for each other or overtake each other,
and the catalogue is finite. `pool` has none either. Its one slot makes two requests
compete for it, and lets the pool's timeout happen; it also means that two live requests never
meet at the lock, where one can only meet an orphan's, and that a request never has a slot
beside another's. Those cases are in the proofs, which are for any number of each:
`SessionsClose` for the slots and `NobodyWaitsInACircle` for the lock; live requests that queue
for the lock of a community are what `RequestCompletes` is about in `auth_concurrent`.
`schema` has two rows wherever two could conflict, and a table of each kind of ON DELETE rule. Symmetry is
used in `tokens` alone, for the ids of tokens, which are only compared.

### Fairness

`AuthService!Fairness`: the event loop resumes every handler that can go on (weak fairness of
`Handle`); a flush waits in PostgreSQL's lock queue, which is first come, first served, so a
flush whose lock is free again and again gets it (strong fairness of `FlushRow`). Nothing is
assumed of `Expire`, `Fail` or new requests. `CommunityVersion!Fairness` is the same for
`Write` and `Bump`, with weak fairness of `Commit` (a handler ends) and of the deadlock
detector. `Rollback` has no fairness: a waiting request has no timeout of its own.

`Migration!Fairness`: a process goes on, the deadlock detector runs, and a statement that may
run again and again gets its locks (strong fairness of `Run`). `SessionPool!Fairness`: the
event loop resumes what can go on and Redis replies (its client is made without a timeout, so
nothing else would end that wait: `core/redis_client.py:25`), the pool and PostgreSQL serve
those who wait in order (strong fairness of `Checkout` and `Update`), and PostgreSQL notices a
client that is gone (`Reap`). Nothing is assumed of `CheckoutTimesOut`, `ServerUp` or any
fault: `RequestEnds` holds because connections are given back, not because waiting is cut off.

## Proofs

TLAPS checks these for every value of the constants (any number of users, challenges,
requests, sessions, communities, rows, any cap), under the assumptions named in the modules.
Those only give the constants their types and keep `Nil` and its like apart from data, but
for `MigrationScripts`, whose assumptions have no constant in them: they state facts about the
two scripts, which the provers cannot compute and TLC does (see below).

**AuthServiceProofs.** All rest on `TypeInv`: `TypeOK` and `Shape`, which says what a request
holds at each `pc` (a challenge and payload while it works on one, a user and a target at a
flush); without it no later step is typed. `LoadUserOutcome` and `QuietStep` state once what
the two actions with many outcomes do.

* `TypeCorrect`: `[]TypeOK`.
* `NeverOvercounted`: `[]NoOvercount`. Inductive with `CountInv`, which bounds the counter in
  Redis and the one in the memory of every request at any `pc`, since each may be the next
  to be stored.
* `TokensAreEarned`: `[]HolderAnsweredCode`. `HolderInv` says of each request on its way to a
  token pair that it is *backed*: its challenge went to its user alone and was answered, and
  its commit will make the row, or has found it, VERIFIED. `HistoryGrows` keeps backing true
  under the steps of other requests.
* `MobileStaysUnique` and `DeletionIsFinal`: `[]UniqueMobile`, `DeletedStaysDeleted`. `RowsInv`
  says that what a request may commit was checked under locks it still holds, so no other
  request can have taken the mobile or deleted the row since.

**AuthServiceIsolationProofs.** The runs `race_cap`, `race_one_time_use`, `race_burn` and
`race_revocation` show promises broken by overlapping requests, and `race_expiry` one broken by
an expiry in the midst of a request; these theorems say what overlap it takes. Their hypotheses are about behaviours: `[]OnePerChallenge`, no two requests work on one challenge at
a time, and `[]OnePerUser`, no request works on a user another has loaded until that one ends. Requests may
overlap in every other way, any number of them, with failures, lost answers and expiries
between the awaits of each. The code enforces neither; a lock per challenge from GET to the
end of the request, and one per user from the load of the row (`FOR UPDATE` at every load),
would, and the theorems say that this is enough. One request at a time, as in `auth_sequential`, is the special case
`AloneIsIsolated`.

* `BurnsAreFinal`, `AttemptsAreExact`, `CapHolds`, `ChallengesAreOneTime`: `[]BurnIsFinal`,
  `[]AttemptsExact`, `[]CapRespected`, `[]OneTimeUse`, under `[]OnePerChallenge`. `SeqInv` has
  two parts. `Kept` is about the stores: a key that is there belongs to an open challenge and
  counts its wrong codes exactly, and only an accepted challenge has been exchanged, once.
  `Current` is about the memory of each request: what it read of its challenge is still so.
  `OthersCurrent` carries it through the steps of others, which touch other challenges.
* `ServiceImplementsOtp`: `ImplementsOtp`, under the same. `OtpStep` maps each step to one of
  `OtpChallenge` or to a stutter; the guards of the abstract steps are what `Current` says.
* `KeysExpire`: `[]EveryKeyExpires`, under `[]OnePerChallenge` and `[][ExpiryWaits]_vars`: no key
  expires between the GET and the SET of a wrong code on it. `KeysInv` says that the key such a
  request is about to SET is still there, so that KEEPTTL has a TTL to keep. Nothing in the code
  sees to either hypothesis.
* `RevocationHolds`: `RevocationStands`, under `[]OnePerUser` alone. Only a commit changes `users`
  (`RowsChange`), and the row a login commits is still the pending or verified one it loaded
  (`LoadedInv`).

**CommunityVersionProofs.** `VersionTypeCorrect` and `NoBumpLost`: `[]TypeOK` and
`[]VersionCountsChanges`, from `VersionInv`. `SoleBumper`: at most one session has bumped a
community, since it holds the lock of its row. `AheadByFired`: what a session holds of the
counter is the committed version plus the changes it has made there, and a session that has
not bumped it has made none. So the one commit that may happen adds exactly its own changes.
`Move` says once what the six kinds of step that leave the counters alone preserve.
`VersionTells`: `SameVersionSameRows` for the instances that are `Synced`, where every row is
in a table with the trigger; the synced tables without one are the other instances.
Its strengthening, `RowInv`, ties the row versions a session holds to the bumps it holds: a
row has an uncommitted version in one session at a time (`SoleWriter`), and that session has
fired, or is about to fire, the trigger of each community the row is or was in (`WritesFire`).
`OneStatementNeverDeadlocks`: with `MaxStatements` at most one, as in the `/auth` handlers of
today, no set of sessions is ever `Deadlocked`. A transaction locks its row before its community
and then has nothing left to lock (`LocksInOrder`), so whoever is waited for waits for a
community at most, and its holder for nothing. A second statement brings the deadlocks
`WaitEnds` has to get past. `FriendshipsFail`: `[]NoFriendship`; the trigger raises before any
session has such a row among those it has written (`Unwritten`).

**TokenLifecycleProofs.** `TokenTypeCorrect`, `RowDecides` (`[]NoStaleAuthority`) and
`AgeBounded` (`[]NothingOutlivesTtl`), from `TokenInv`: every token handed out is as `_build_token` makes it (`IssuedWell`), a request in
flight holds one of them, presented in its lifetime at an endpoint of its kind (`HeldWell`),
and a request that has not read its user's row yet is allowed, if the row as it stands allows
it, by a community already on record (`AllowedByRow`). The last is what carries
`NoStaleAuthority` through changes of the row between decoding and loading.

**CivioSchemaProofs.** For any number of rows in every table. `EveryKey` reads the list of
foreign keys once, key by key, and concludes that each is `Lawful`: nothing refers to a row
that may go with another, no record goes with another row, and only a column that may be NULL
is set to NULL. The rest argues from `Lawful` and leaves the list unopened. `Typed` is the inductive invariant: a stored row has columns that fit its
keys (`Fits`), which `TypeOK` does not say and every step needs to know what a column names;
`Survivor` and `Stays` say once what a deletion leaves behind.

* `SchemaTypeCorrect`: `[]TypeOK`.
* `ReferencesHold`: `[]NoDanglingReference`. A row that names the row deleted goes with it, is
  set to NULL or blocks the deletion; a row that goes with it is one nothing refers to.
* `LedgerIsAppendOnly` and `RecordsSurviveAlways`: the action properties `LedgerAppendOnly`
  and `RecordsSurvive`.
* `LedgerKeepsItsUsers`: `DebtorsStay`. A ledger entry that names a user stays and keeps naming
  it (`LedgerAppendOnly`), and what a stored row names is there (`NoDanglingReference`).

**SessionPoolProofs.** For any number of requests, slots and communities, over every path of the
handlers (the run takes seven of them). `IInv` adds three facts to `TypeInv` and `NothingLeaks`.
`Healthy`: a request that no fault has met has only good connections, and no exception but its
own. `Flushes`: a handler that writes has its UPDATE before it, or holds its lock, or has lost
its connection; so a commit on a connection that works makes the write durable, which
`AnswerIsTrue` alone does not say. `Told`: what is durable is answered as such, or a fault met
the request. `MoveInv` and `CloseInv` state once what the steps of a handler, and its end,
have in common.

* `TypeCorrect`, `SessionsClose`, `AnswersAreTrue`, `FaultsAreLocal`: `[]TypeOK`,
  `[]NothingLeaks`, `[]AnswerIsTrue`, `[]FaultsStayBehind`.
* `NobodyWaitsInACircle`: no set of requests in which each waits for a slot or a lock that another
  of them has. `PathOrder` reads off the paths that a handler queries nothing after its UPDATE,
  and `InOrder` carries it through the steps: who holds a lock waits for neither a lock nor a
  slot, and who waits for a lock has its slot. It is the part of `RequestEnds` that does not
  depend on fairness, for pools of any size.

**MigrationProofs.** For any number of processes; the run has two. What a script does alone is
a computation on some 130 statements, out of the provers' reach and none of TLC's trouble: the
assumptions of `MigrationScripts` are closed formulas over `Up` and `Down`, which TLC finds true
(a type forgotten in `downgrade`, or a drop one statement too early, makes one false). What the
processes do to each other is the proof. `Levels`: the database holds nothing, a part of the
preamble (`alembic_version` and the extensions, IF NOT EXISTS) or all. `Building`: an upgrade
sees all its statements so far have made or found, and has passed the preamble only over a
database without tables. `Dropping`: a downgrade has taken away exactly what its statements so
far take from a whole database - or it began with DROP VIEW IF EXISTS while there was no view,
another process has upgraded meanwhile, and it will be refused at a table the view needs
(`Blocked`), so its commit need not be considered. `Exclusive`: two open transactions have
neither made nor dropped the same object, which is what waiting is for; with the above it
gives that when one commits, what the others have done is still sound, or undoes itself.
`Fresh`: a process that nobody has overtaken is on the database its script is for.

* `MigrationFailsOnlyIfOvertaken`: `[]FailsOnlyIfOvertaken`. The part about deadlocks is
  `OneHolder`: among processes that are `Fresh` one at most holds a lock, as they have all to
  make, or drop, the same object first; and it takes two holders to block each other.
* `MigrationImplementsRevision`: `ImplementsRevision`. `Commits` lists the four ways a commit can
  end; `PromiseNext` maps the steps: only a commit of a whole script is seen from outside, and
  every other end of a process is `Revision!Fail`.

Model-checked only: liveness (`RequestCompletes`, `WaitEnds`, `MigrationEnds`, `RequestEnds`),
the facts about the scripts that `MigrationScripts` assumes, and what the runs that end in a
violation show.

## Not modelled

* `hash_password` and `verify_password` have no caller; the digits of `generate_otp` matter to
  no property, since a code is right or wrong.
* `list` only reads. `updated_at` is read by nothing. Plain columns and their CHECKs relate no
  two rows.
* `sync_events`, `sync_state`, `processed_events`, `token_balances` and `balance_after` are
  declared and never written or read; the sync protocol, billing, payments and SIP
  provisioning are described in `docs/` and have no code, so that nothing there can go wrong
  yet.
* Of `main.py`, `core/exceptions.py` and `schemas/auth.py` the status of each exception and the
  refusal of a body are modelled; the bodies of errors, CORS, `/health`, the lifespan hook and
  the patterns of fields are not, nor are `core/config.py` and `core/logging.py`: none keeps
  state that changes.
* `run_migrations_offline` prints SQL and touches no database. A later revision would be a
  second script of `Migration`; there is one.
* SMS delivery is not implemented in the code; a code counts as known to whoever presents it.

## Plan

In order of weight:

1. *A composition of `AuthService` and `TokenLifecycle`*: a session from its first code to
   the expiry of its last token, with revocation and deletion on the way.
2. *The locks of `AuthService` as an instance of those of `CommunityVersion`*, so that the
   abstraction of the first (one lock per community) is checked against the second.
