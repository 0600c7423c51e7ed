# A TLA+ model of the online cinema

The repository is an online cinema built of services that share no process:
they meet in Kafka, Postgres, Redis, Elasticsearch, MongoDB and ClickHouse.
This directory models the parts in which order, failure and concurrency decide
what is true of the data. Paths below are relative to `src/`.

## Inventory

| component | state it keeps | operations | talks to | modelled by |
|---|---|---|---|---|
| **Event API** `ugc_service` | a Kafka producer with its send queue, a rate limit in Redis | `POST /api/v1/event`: check, validate, send, flush | topic `event` | `UgcApi` |
| **Event ETL** `kafka_clickhouse_etl` | one buffer of rows per ClickHouse table, the consumer's position, the group's committed offsets | poll, `process`, `_flush`, commit | topic `event`, five ClickHouse tables | `EventEtl`, `EventDelivery` |
| **Catalogue ETL** `etl_service` | a watermark per index in a JSON file | `update_index` of persons, genres, movies, in a loop | Postgres (reads), Elasticsearch (writes) | `CatalogueEtl` |
| **Auth: users and tokens** `auth_service` | users, refresh tokens and entries in Postgres, tokens in the client's cookies | register, enter, refresh, exit, change of login and password, unlink, external login | Postgres, Redis (rate limits) | `AuthTokens`, `AuthSessions`, `AuthAccounts` |
| **Auth: roles** `auth_service` | roles, privileges and their two join tables | create, change, delete, assign, revoke, seeding at start, `superuser` command | Postgres | `AuthRoles` |
| **Catalogue API** `theatre_service` | a Redis cache with a 300 s lifetime | films, genres, persons: by id, by parameters, similar | Redis, Elasticsearch, auth_service | `TheatreCache`, `CatalogueReads` |
| **Likes, comments, bookmarks** `ugc_crud_service` | three MongoDB collections, unique index on (user, content) for two of them | create, remove, update, reads | MongoDB | `UgcCrud`, `Collection` |
| **Admin site** `movies_admin` | users mirrored from auth_service, the catalogue | `CustomBackend.authenticate`, Django admin | Postgres, auth_service | `AdminLogin` on `AuthAccounts`; its edits of the catalogue in `CatalogueEtl` |

What is hard in each of them, and what makes it correct:

* **Event API.** The answer is given before anybody knows whether the broker
  keeps the record; a lost acknowledgement appends it twice; what the API's
  schema accepts is not what the ETL can turn into a row. Correct: an answer 200
  comes after the outcome of its own record, whatever the other requests of the
  worker are waiting for, and copies are explained by lost acknowledgements.
* **Event ETL.** Rows wait in memory while offsets are (or would be) committed;
  an insert may fail, be refused because of one row, or succeed without anybody
  hearing of it; the process may die and partitions may move at any moment.
  Correct: nothing is lost but by retention, and nothing is written twice but
  by redelivery or an insert of unknown outcome.
* **Catalogue ETL.** A retry is handed a generator the failed attempt has
  consumed; the watermark is saved once per pass, by truncating and rewriting a
  file; transactions become visible after their timestamps. Correct: no row
  whose document is missing or old lies behind the watermark.
* **Auth: users and tokens.** Rotation of a refresh token is two commits;
  requests with the same token overlap; an expired token takes a path no test
  takes; every check of a login is in another query than the write. Correct: a
  refresh token is worth one pair of tokens, a client that has one is never left
  with none, a login has one account, and its owner knows the credentials.
* **Auth: roles.** A session that is not committed is rolled back when the
  request ends; seeding and the superuser command are several commits each.
  Correct: whoever is served finds the database seeded, a role that was created
  is what was asked for, and the command promotes nobody by the way.
* **Catalogue API.** Concurrent readers fill the cache in any order; keys must
  tell apart whatever the answers depend on; access is checked on one of the two
  paths. Correct: an answer is one the index gave at most a lifetime ago, for
  that very question, but for what keys that read alike make of it.
* **Likes, comments, bookmarks.** Check-then-act over MongoDB without
  transactions; bulk inserts that stop half-way. Correct: one like and one
  bookmark per user and content, and an answer that agrees with what was stored.
* **Admin site.** A row is created before it is complete, and has the login of
  the last entrance; the site has a superuser of its own in the same table.
  Correct: right credentials are refused for no other reasons than these.

`PROJECT.json` lists the hazards at their lines.

## Modules

| module | extends | proofs | instance | run |
|---|---|---|---|---|
| `EventDelivery` | | (abstract: at-least-once delivery) | | |
| `EventEtl` | instantiates `EventDelivery` | `EventEtlProofs` | `MCEventEtl` | `event_etl`, `event_etl_commit`, `event_etl_batch` |
| `AuthSessions` | | (abstract: refresh tokens, each by itself) | | |
| `AuthTokens` | instantiates `AuthSessions` | `AuthTokensProofs` | `MCAuthTokens` | `auth_tokens`, `auth_tokens_expired` |
| `CatalogueEtl` | | `CatalogueEtlProofs` | `MCCatalogueEtl` | `catalogue_etl` |
| `CatalogueReads` | | (abstract: what an answer may be) | | |
| `TheatreCache` | instantiates `CatalogueReads` | `TheatreCacheProofs` | `MCTheatreCache` | `theatre_cache` |
| `AuthAccounts` | | `AdminLoginProofs` | | (by `admin_login`) |
| `AdminLogin` | `AuthAccounts` | `AdminLoginProofs` | `MCAdminLogin` | `admin_login` |
| `AuthRoles` | | `AuthRolesProofs` | `MCAuthRoles` | `auth_roles`, `auth_roles_answered` |
| `UgcApi` | | `UgcApiProofs` | `MCUgcApi` | `ugc_api` |
| `Collection` | | (abstract: documents, each by itself) | | |
| `UgcCrud` | instantiates `Collection` | `UgcCrudProofs` | `MCUgcCrud` | `ugc_crud` |

`AdminLogin` composes two services: its next-state relation is that of
`AuthAccounts` beside the steps of the admin site, which reads the other's
accounts. `UgcApi` and `EventEtl` meet in the topic and are kept apart: what
`UgcApi` says of every record it sends (`NoRecordNamesATable`) is that `EventEtl`
refuses it, so that a composition would have nothing left to do; `EventEtl` runs
on a topic that other producers write to, which may hold anything.

An operator named as a slip, just before the definition it would replace, is a
bug a maintainer could make there; no behaviour of the model uses it. It shows
that the property beside it in `PROJECT.json`'s `mutants` is not empty.

## EventEtl: from the topic to ClickHouse

`EventEtl.tla` is the process `kafka_clickhouse_etl`: one thread, so one
program counter.

| `pc` | actions | code |
|---|---|---|
| `down` | `Start` | `main.py` 29-46: new buffers, new consumer |
| `poll` | `Poll`, `Rebalance` | `consumer.py` 11-22 |
| `process` | `Refuse`, `Accept` | `processor.py` 24-171: what is refused is swallowed (JSON) or raised (the rest); what is accepted is appended to a buffer with a fresh uuid4 |
| `flush` | `FlushOk`, `FlushFails`, `FlushUnknown`, `FlushDone` | `processor.py` 47-56, 173-211: the loop over the buffers in the order of the dict |
| `settle` | `Settle` | `consumer.py` 21-28 behind the decorator of `utils.py` 17-41 |
| any | `Stop`, `StopInInsert` | `sys.exit` of the signal handler, a Kafka error, a kill |

The topic is a sequence per partition, read by offset, from which retention
takes the oldest messages (`Publish`, `Expire`: external). A message is what
`process` can tell of it: no JSON, JSON it refuses, or a row for a table that
ClickHouse would or would not store (the `Enum8` and `UUID` columns of
`clickhouse/init/01_init_replicas.sql`). An event is named by its partition and
offset; a row by its event and a number, since each acceptance makes a new
uuid. A buffer is a set: two rows are never equal.

**The decorator.** `monitor_memory` compares a float with the result of
`os.environ.get`, which is a string or `None`, *after* the function it wraps
has returned. So `process` never returns to the consumer; the `except` of
`consumer.py` 26 logs the `TypeError` and the `commit` of line 23 is not
reached. `MonitorMemory` says just that. The design would lose rows if the
decorator were repaired and nothing else: the offset of a message would be
committed when its row is in a buffer only. The mutant
`MonitorMemoryTransparent` shows it, as a violation of `Recoverable` and of
`DeliversAtLeastOnce`.

**The promise.** `EventDelivery.tla` is at-least-once delivery with no offset
and no buffer in it: an event is owed from its publication until it has been
delivered and acknowledged or has expired; what is held in memory may vanish at
any moment; only what is delivered may be acknowledged. `EventEtl` implements
it with "at or after the resume offset" as *owed*, the buffers as *held* and the
tables as *delivered*.

### Runs

| run | bounds | shows |
|---|---|---|
| `event_etl` | 1 partition of 2 messages, 2 tables, batches of 2, 2 starts, 2 reassignments, 2 faults | the invariants, the refinement, that a row ClickHouse refuses blocks its table and those after it, and that no message holds up its partition |
| `event_etl_commit` | 1 partition of 3 messages, 2 tables, batches of 2, 2 starts, no reassignment, no faults | violated: a message `process` has dealt with is not committed |
| `event_etl_batch` | 2 partitions of 1 message, batches of 3 | violated: events too few for a batch never reach their table |

Two messages delivered again and again fill a buffer of two and leave a row
over; two tables are the least in which one can block another; two starts show
what a crash leaves behind, two reassignments a message delivered three times in
one life, and two faults an insert that fails or is in doubt and is so again.
Partitions only matter to what is fetched in which order, which one partition
and its reassignments show; the proofs have any number of them. Deadlock is not
checked: with the bounds used up
and nothing to fetch, the process polls for ever.

Fairness is `WF_vars(ConsumeLoop)`: the loop of `consume` polls without a pause
and the callback comes to an end (the driver has a timeout). There is none on
the environment: nobody must publish, restart or fail. There is none on
`Poll(p)` for a single partition either: `NoMessageBlocksItsPartition` holds
because the log is bounded, so that a partition cannot be passed over for ever.

### Proofs

`EventEtlProofs.tla` proves for any number of partitions, tables and messages
and any batch size, from the named assumptions of `EventEtl` alone:

* `TypeOKHolds`: `TypeOK` is inductive with `HandInv` (whoever handles a message
  holds one that is in the topic) and `RowInv` (a row in memory or stored was
  made of a row message, and before the next number of that event). The three
  together are `Typed`, on which all the other proofs rest.
* `Implements`: `Spec` implies `EventDelivery`'s. Each action is mapped: `Poll`,
  `Start`, `Settle` and the refusals stutter, `Accept` takes, an insert
  delivers, `Stop` crashes. It needs `NothingCommitted`, which is what the
  decorator causes, and that retention removes nothing that is not there
  (`StartInv`).
* `RecoverableHolds`, from `NothingCommitted`: a start resumes at the earliest
  message retention has kept.
* `NothingForgotten`: inductive with `MemoryInv`, which adds that what was
  fetched is in the topic.
* `TwiceOnlyIfAmbiguousHolds`: a fresh row carries a number no stored row has
  (`RowInv`).
* `OneRowPerDeliveryHolds`: the strengthening is `Credit`: an event at or after
  its partition's position, or in hand and not yet appended, has been made one
  row less than there were starts and reassignments.
* `FullOnlyBehindFailureHolds`: the strengthening is `LoopInv`: in the flush loop
  a full buffer is at or after the loop's place, outside it at or behind the
  table whose insert last failed.
* `BlockedTablesGrow`: an action property, from `LoopInv`.

Only model-checked: `NoMessageBlocksItsPartition` and the violation
`EventsReachTheirTable`, since liveness under fairness is out of the prover's
reach.

## AuthTokens: the sessions of auth_service

`AuthTokens.tla` is what `auth_service` keeps of a session: rows of
`refresh_token` and `history` in Postgres, a pair of tokens in the cookies of
each client, and the requests between them. The service is asynchronous, so
requests interleave at every `await`; an action is what a request does between
two commits.

| place of a request | actions | code (`auth_service/src`) |
|---|---|---|
| `verify`, `record` | `EnterRefused`, `EnterVerified`, `EnterRecorded` | `services/user.py` 46-112: the refresh token and the history entry are two commits |
| `read`, `delete`, `mint` | `UpdateRead`, `UpdateDelete`, `UpdateMint` | `services/user.py` 114-161: the row is read, deleted (commit), a new pair made (commit) |
| `guard`, `compare` | `Guard`, `Compare` | `utils/authtorize_helpers.py` 27-69 over `db/auth_engine.py` 96-132 |
| `call` | `Call` | the endpoint behind the guard; `exit_user` clears the cookies and leaves the row |
| `reply` | `Receive` | the `Set-Cookie` headers reach the client, in any order |
| any | `Abort` | a commit fails (`get_session` rolls back), the worker ends, the answer is lost |

`Tick`, `Send` and `Forget` are the clock and the browser. Each client is signed
in as a user of its own, a refresh token (a uuid4) is named by the order of its
issue, and of an access token only the expiry is kept. Signatures, passwords,
roles in the token and the answers' bodies are left out; `guarded` stands for
every endpoint behind `check_access_token` except exit.

Three facts of the code decide what is true:

* **The exchange is two transactions.** Two requests that read the row before
  either deletes it both get a pair: SQLAlchemy only warns of a DELETE that
  matches no row. `OnePairPerToken` says that this is the only way: `shared`
  are the tokens that two requests held at once.
* **The guard does not refresh.** For an expired token
  `decode_access_token_into_exp` answers `None`, and `None < int` raises before
  `user_update_access` can be called. What is left is the token that expires
  between the two readings of the clock (`Guard` passes it, `Compare` finds it
  expired). It is exchanged, but the new cookies go into a `Response` made by
  the guard, which nobody sends: the client is left with a token that is gone.
* **The entrance is recorded after its token.** A failure in between leaves a
  row without an entrance, which no client may ever hear of.

**The promise.** `AuthSessions.tla` has the tokens, each by itself, and no
requests that race for a row: a token is issued for an entrance, or to the user
of a token in exchange for it; whoever exchanges a token got hold of it when it
was valid and gives it up (`Revoke`) before; a client is told of tokens of its
own user only, and of none whose entrance is not on record. `AuthTokens`
implements it (`ActsAsSessions`) with the rows as *valid*, the table `history` as
*recorded*, the cookies as *told*, and the token a request carries from `read` to
`mint` as *held*.

`origin`, `shared` and `disturbed` are history variables: what a token was
exchanged for, and which tokens and clients met with what the properties except.

### Runs

| run | bounds | shows |
|---|---|---|
| `auth_tokens` | 1 client, 2 requests in flight, 3 tokens, access tokens live 1 of 3 ticks | the three invariants and the refinement |
| `auth_tokens_expired` | 1 client, 1 request, 2 tokens | violated: an expired token is not refreshed (comments at `utils/authtorize_helpers.py` 46 and 48) |

Two requests are the fewest that can hold one token at once; three tokens are an
entrance and two pairs made of it; three ticks let a token be fresh, be on its
last second and expire. Clients only meet in the counter of tokens, and the
proofs cover any number of them. No fairness is assumed and nothing is said of
progress: a client need not ever send a request.

### Proofs

`AuthTokensProofs.tla`, for any clients, any set of requests, and any bounds:

* `TypeOKHolds`: with `TypeOK`, `ReqInv` and `JarInv` are inductive: the tokens a
  request or a cookie holds were issued, and to the user of that client. The
  other proofs need the ownership, since a deletion by one client must not
  touch the token of another.
* `OnePairPerTokenHolds`: `SpentInv` follows a token that was never shared: it has
  one holder at most, no row once the holder has deleted it, and neither row
  nor holder once there is a token in exchange for it.
* `ActsAsSessionsHolds`: each action maps to one of `AuthSessions` or to none. That
  an exchange finds its token revoked, and that only entrances are recorded,
  takes `ExchangeInv`; that a token told or held is on record takes
  `RecordedInv`, which follows the tokens that requests carry and answer with;
  whose it is, `Typed`.
* `SequentialClientKeepsSessionHolds`: `SessionInv` says of an undisturbed client
  that it has one request in flight at most, that its token is in the table
  unless that request is about to replace it, and that the new one is there.

## CatalogueEtl: from Postgres to Elasticsearch

One thread, `pc` is its place in `update_index` (`etl_service/main.py` 30-61),
called for the indices in order, for ever (`__main__`, 64-92).

| `pc` | actions | code |
|---|---|---|
| `begin` | `Begin`, `BeginFails` | the state file, the index, the query with its watermark |
| `fetch` | `Fetch`, `NoMoreRows` | `fetchmany` of the documents' generators; `set_state` |
| `send` | `SendOk`, `SendFails` | `_send_to_es` under the decorator `backoff` |
| `advance` | `Advance` | `main.py` 53-59, the greatest date of the batch |
| `truncate`, `dump` | `Truncate`, `Dump` | `json_file_storage.py` 34-39 |
| any | `Crash`, `Start` | the container ends; no restart policy is set, so nothing has to start it |

`Edit` and `Delete` are the database (external). A row has a version and a date,
and the date need not be now: a transaction stamps a row before it commits, and
taking a link away leaves no date. `WriteLate` and `LoseLate` are bulk requests
that failed for the client and reach Elasticsearch later, over newer documents.

What the code does is less than it was written for: `pytz.UTC.localize` raises
for a datetime with a zone, which all dates of these tables have. A pass
therefore ends at its first batch, no mark ever moves past a row, and a pass
sends documents to an index only if it found the tables of all the indices before
that one without a row when it was at them (`IndexWaitsForEarlierOnes`; `passed`
are the indices this pass has found so). That is also why no row is left behind a mark
(`NothingBehindTheMark`): with the localisation repaired and nothing else
(`AdvanceAware`), a late commit, a change without a date or the retry that sends
nothing does leave one behind, and the property is violated.

`ReachedIsCurrent` is what remains of liveness: if from some time on the rows of
an index fit into one batch, those before it are empty and the loop is up, then
its documents become and stay what the rows say. Fairness is
`WF_vars(UpdateIndex)`: the loop waits for nothing but the servers it calls, all
of which answer or time out. There is none on `Start`, on edits or on faults.

Run `catalogue_etl`: two indices, the first of two rows with batches of one, so
that a pass has more than a batch to do and an index one to wait for; three
edits make a row, change it behind the loop's back and delete it; two faults
are a lost bulk request and a crash, in any order.

Proved (`CatalogueEtlProofs`, for any indices, rows and batch size):
`TypeOKHolds`; `NothingBehindTheMarkHolds` from `MarksInv` (no mark ever says
anything) and `RowsInv` (rows have dates); `IndexWaitsForEarlierOnesHolds` from
`LoopInv`: the loop comes to the next index only if there was nothing to read, for
whatever is read ends the pass. `LateInv` bounds the versions late requests carry.
`ReachedIsCurrent` is only model-checked.

## TheatreCache: the read-through cache of theatre_service

A request is at `search`, `store` or `answered`; the steps are separated by the
awaits of `FilmService`, `GenreService` and `PersonService`. `Lookup` is the read
of the cache, `SearchFilm` to `SearchPerson` the reads of the index with what
they refuse, `Store` the write (`services/film.py` 22-69, 178-238 and the like),
`Fail` an error of Redis or Elasticsearch. `Reindex`, `Tick` and `Evict` are the
outside. A value is the question it was read for and the time it was read at;
that is all the properties tell apart.

* `RestrictionTakesEffect`: a film is checked on its way from the index only. An
  entry of a film is gone when the film was last open a lifetime and the retries
  of a write ago. `was` (a history variable) are the times each subject was open.
* `AnswersLikeTheIndex` is the refinement of `CatalogueReads`, which has no cache:
  an answer is one the index gave less than a lifetime and the retries of a write
  ago, and of a film, a genre or a person at a time it was there and open. A slow
  writer may put an older value over a newer one and give it a lifetime of its
  own; the bound takes that in.

**Keys.** `make_cache_key` joins what was typed with `&` and `=` and escapes
nothing, the key of a page of similar films does not have the film in it, and the
key of a film or a person is its id as it came in the path. The model has no
strings: `Words` are what clients may type, the ids of `Subjects` among them, and
the constant `Text` says what a question's key has after the name of the index.
Lists may have one text, and an id may be the text of a list; what is assumed
(`TextAssumption`) is only what the form of the keys gives, whatever is typed:
the text of a film or a person is its id, and that of a genre, a UUID with
numbers behind it, is nobody else's. What then comes
out of the cache is read into the model of the question (`Parsed`): all fields of
all models have defaults, so that a list read as a film is a film without
content, `Blank`, and a film read as a list is an empty list. So
`CatalogueReads` allows two things and no others, and only of pages that are
cached at all: a page of a list may be that of another list of the same things
whose text is the same; and who asks for an id that reads like the parameters of a
list, or for a list that reads like an id, may be answered `Blank`. Nobody gets a film, a genre or a person other than the one asked for.

Run `theatre_cache`: the questions of one key never touch another key, so `Asked`
holds three sets of them and a behaviour begins by choosing one: a film, the
similar films of two, and their key asked for as a film; a genre by the page with
two searches of one text; a person, a search for persons whose text is asked for
as a person, and pages past the last one that is cached. A lifetime of 2,
retries of 1 and four ticks are the least in which an entry written late by one
request is read by another after its own lifetime. Two requests suffice to
race. No fairness and no liveness: the service promises no freshness but by
expiry, which `Tick` has.

Proved (`TheatreCacheProofs`): both invariants and the refinement, for any
questions and times and whatever texts the words make. `OpenInv` says that what is open was open just now,
`CallsInv` of a request that what it is to write was read at most `Retry` ago and
when its subject was open; `CacheInv` of an entry that it ends in time, however
late it was written; lemmas `KeyParts` and `SameKey` say what a shared key tells
of two questions, and what one then gets of the other. The refinement maps `Lookup`, the searches and `Store` to an `Answer` if they answer
and to a stutter if not.

## AuthAccounts and AdminLogin: who owns a login

`AuthAccounts` has the table `user` and the requests that write it. All of them
look in one query and write in another transaction, so a request is at `check`,
`write` or `reply`:

| operation | check | write |
|---|---|---|
| register, `services/user.py` 22-44 | `CheckLogin` | `InsertUser` |
| change of login, 187-205 | `CheckLogin` | `ChangeLogin` |
| entrance by a provider, 305-335 | `FindProviderUser` | `InsertUser` with a generated password |
| change of password, 207-235 | `VerifyPassword` | `ChangePassword` |
| unlink a provider, 273-290 | `ReadProfile` | `ChangePassword` with a generated password, which is answered |

The unique index on `login` decides in `InsertUser` and `ChangeLogin`. `Abort` is
the end of a worker or an answer that does not arrive; a change that was
committed stays. `known` is what each client believes, from the answers it
`Receive`s in any order; `disturbed` (a history variable) are the clients that
had two requests in flight or lost an answer. Accounts and passwords are
numbered in the order they are made. `validate_user` checks a login by its length
only, so that `Logins` are names and e-mails alike: everybody may register with,
or change to, the e-mail a provider vouches for to another (`Vouched` are the
clients who may come from one), and who comes from a provider is let into
whatever account has that login (`user.py` 310-312). `visitors` (a history
variable) are the clients that made an account or were let into it.

* `OneAccountPerLogin` says that the index makes good for every race of checks.
* `SequentialOwnerKnowsCredentials` says that a client that is not disturbed, and
  into whose account no provider ever let anybody else, knows the login and, if
  it was ever told one, the password of its account, whatever the others do at
  the same time, with the same logins too. The exceptions are real: an account
  whose login is somebody's e-mail is shared with them, and either may change it.

Two more are steps of the model and no property's matter, since nothing in the
repository claims better: of two overlapping changes of the password one is lost,
and an unlinking whose answer is lost leaves an account with a password nobody
knows.

`AdminLogin` adds the admin site. Its table has a row for each account that was
copied, named by the account, and `Local`, the row `createsuperuser` makes
(`movies_admin/entrypoint.sh` 11, `users/models.py` 18-24): it has an id of its
own and is the only one with a password. `mirror` is the login each row has.

| action | code (`movies_admin/users/auth.py`) |
|---|---|
| `CreateSuperuser` | the entrypoint, at a start, before the site answers; a login that is taken ends the command only |
| `Authenticate` | 23-53: the row of the login typed, if it has that password, or else auth_service confirms the credentials; `Typed` is what a client knows of its account, or the superuser's credentials |
| `GetOrCreate` | 55-58: a row by the id, at first with no login; a second one of these is refused |
| `SaveUser` | 59-65: the login typed, if no other row has it |
| `EndEntry` | the answer, or the end of the worker |

`KeptOutOnlyByAnotherRow` lists everything that can keep out a user whose
credentials auth_service has confirmed: the superuser's row, for an account of
the login `admin`; a row left without a login by an entrance that ended half-way,
which blocks every account new to the site; a row with a login its account has
given up, which blocks who has it now (two who have swapped their logins block
each other for ever); or a login that changed hands during the entrance.

Run `admin_login`: two clients, two requests, two accounts, two passwords and two
logins: `admin`, and the e-mail of the client that may come from a provider. Two of
each are the least in which logins can be swapped, requests race and a login is
somebody's e-mail. The passwords are the tight bound: a registration and a change
use both. Deadlock is not checked: with the passwords used up and the table full,
a registration at `write` cannot go on, which the bound makes and not the code.

Proved (`AdminLoginProofs`): all four, for any clients, e-mails, names, requests
and bounds. `OneAccountPerLogin` is inductive with the types. For
`SequentialOwnerKnowsCredentials` the strengthening has three parts: `ReqInv`
(requests and beliefs are about accounts that are there), `VisitInv` (a client that
has to do with an account made it or was let into it) and `SeqInv` (an undisturbed
client has one request at most, and of an account with no other visitor what it
believes, or will believe after the answer, is so). The handlers share one lemma,
`HandlerStep`, and the clients' steps another, `ClientStep`. `EntryInv` adds the
admin site; `KeptOutOnlyByAnotherRowHolds` is an action property and follows from
it with `OneAccountPerLogin`.

## AuthRoles: roles, privileges and the superuser

Three kinds of process share the tables: the start of the server
(`utils/initial_data.py`: `StartServer`, `SeedPrivilege`, `PrivilegesSeeded`,
`SeedRole`, `SeedLinks`, each with a commit), the requests behind the guard, and
the superuser command (`commands/superuser.py`: `EnsureSuperuserRole`,
`RegisterAdmin`, `AssignSuperuserRole`). `CrashServer` and `KillCommand` end them
between any two commits.

A request is sent (`Send`), passes `Guard` and is handled: `ValidatePrivileges` and
`CreateRole` for a role that is made, `ChangeRole`, `DeleteRole`, `AssignRole`,
`RevokeRole` and `ReadRoles` for the rest, each with the answers of
`services/role.py`. At `answered` the client has been told of success, until
`Finish`.

Two facts of the code shape it. `change_role`, `delete_role`, `assign_role` and
`revoke_role` never commit: they answer success, and `get_session` closes the
session. And `_validate_privileges` takes `row[0]` of an id, its first character:
privileges whose ids begin alike are refused together. The model keeps that
digit of an id (`Valid`, `_validate_privileges`).

* `ServingMeansSeeded`: whenever requests are answered the default privileges and
  roles are there and linked, wherever earlier starts ended.
* `CreatedIsStored`: whoever is answered that a role was made finds it with exactly
  what was asked; the counting of digits refuses too much and never too little.
* `CommandPromotesItsOwn`: the command gives the superuser's role to no account but
  one that a command made, whoever registers its login while it runs.
* `SuperuserNameIsReserved`: no request can take the name `SUPERUSER`, which would
  make every later command fail.
* `AnsweredIsStored` is what `docs/current_arch/auth_role.wsd` 14-32 and 40-63 and
  the messages of `role.py` 62, 141 and 165 say of every operation: what is answered
  as done is in the tables. It is violated.

| run | bounds | shows |
|---|---|---|
| `auth_roles` | 2 privileges, 2 digits, 2 accounts, 1 further name, 2 requests, 1 command | the first four |
| `auth_roles_answered` | as `auth_roles`, 1 request | violated: a change, a deletion, an assignment or a revocation is answered and lost |

Two privileges with two digits are ids alike and ids apart; requests ask for both
or for one that does not exist beside one that does. The privileges are those of
`create_role` and `assign_role`, and the superuser may do everything. TLC stops at
the first violation of `AnsweredIsStored`; each of the four operations alone, the
others taken out of `Next`, violates it as well.

Proved (`AuthRolesProofs`): the types and the first four, for any privileges,
digits, users, names, requests and commands. `SeedInv` follows the seeding (what
the roles before the one at hand have), `ReqInv` the requests behind the guard
(they come from the superuser, lemma `GuardMeansSuperuser`, and a validated list
exists, lemma `ValidMeansExisting`), `CmdInv` the command, `GrantInv` says that
nobody has another role than the superuser's.

## UgcApi: from a request to the topic

One gunicorn worker, whose green threads share a producer. `Admit` is
`internal_auth_required` and behind it the limiter (`UnderLimit`, `app.py` 86-97);
`Validate` the JSON and
`EventSchema`; `Send` `producer.send`, `FlushDone` the end of `flush()` and the
answer 200 (`app.py` 95-173, `db/kafka.py` 10-28). `Deliver` is the producer's
thread with the broker: a record is appended and acknowledged, appended and not
acknowledged, or not appended; then it is tried again or given up. `CrashWorker`
drops what is still in the producer. All requests have the address of the proxy,
so the limiter has one counter.

* `AnswerFollowsOutcome`: 200 comes after the producer knows what became of that
  record. It does not say the record was stored: the future is dropped, and a
  failed delivery is answered 200 too. There are at most as many copies as
  attempts that were not acknowledged, and one.
* `NoRecordNamesATable`: `EventSchema` has no `event_type`, and refuses what is not
  in it. `process` chooses its table by that field, so it refuses every record
  of this API.

That all clients use up one limit is in the model and no property's matter: no
line of the repository says otherwise.

Run `ugc_api`: two requests, two partitions, two events, a limit of two with three
requests in a window, one retry: a window that is used up, a flush that waits for
another request's record, an acknowledgement that is lost once and again.
Fairness is not assumed: a flush may wait for ever.

Proved (`UgcApiProofs`): all three, for any requests, partitions, limits and
retries. `EventInv` and `TopicInv` count the copies of a record (lemma
`CountAppend`), `ReqInv` says that who flushes waits for its own record,
`AnsweredInv` the property itself of what was answered.

## UgcCrud: likes, bookmarks, comments

One collection with or without a unique index on user and content (`Unique`), and
the calls of `MongoCUDMixin` (`services/mongo/mixin.py`), each call of the
database an action; `insert_many` takes a document at a time. Before them come the
handlers' checks of the owner (`api/v1`): they compare a UUID with text, so
that through the API every batch is empty and every other call is refused. The
service is therefore also called as its base class offers it (`Direct`).

* `BatchStoresABeginning`: of a batch that meets a duplicate, stored before or by
  an overlapping call, a beginning is stored and nothing behind it; a batch that
  was answered is stored whole.
* `ActsAsCollection` is the refinement of `Collection`, in which calls are not
  checked first and executed later: a document is stored once, changes only while
  it is there and is gone for good once it is deleted, no two have the same key,
  and what is answered as inserted or deleted is so. An update that found the
  document before does not bring it back; two deletes may both report success.
* `TokensChangeNothing`: no call that comes with a token changes anything. An
  empty batch, an update that is refused and a deletion of no documents are all
  that passes the handlers.
* `TypeOK` has the uniqueness.

Run `ugc_crud`: one user, two contents, two calls, four documents in batches of
two, with the unique index: batches that meet one another's documents, and an
update or two deletes that meet. Comments differ by having no index, which takes
a refusal away. Proved (`UgcCrudProofs`), for either: all four. `CallsInv` (the
ids a call is about), `SpansApart` (no two calls insert the same ids),
`BeforeInv` (what a batch has stored so far) and `DeletedStaysDeleted` make the
invariants inductive; an `Insert` that is stored then maps to a `Store` that
reports the batch if it was the last of it. `TokensChangeNothing` has an
invariant of its own, `TokenInv`: a call with a token gets as far as deleting no
documents.

## Where the code and its descriptions part

Four runs expect a violation, each of what the repository says of itself:
`event_etl_commit`, `event_etl_batch`, `auth_tokens_expired`,
`auth_roles_answered` (above). These were met as well. The models that cover
them have the behaviour as it is; no run refutes a sentence about them, because
none was found that states the contrary:

* Privileges whose ids share their first character cannot be given together.
* No like, bookmark or comment can be written, changed or deleted by the API.
* The ETL refuses every event the API accepts.
* The catalogue ETL gets no further than the first batch of the first index that
  has rows.
* All films share the pages of similar films, and questions whose texts are alike
  share a list, or an object without content.
* Whoever has an account with another's e-mail for a login shares it with them as
  soon as they come from a provider.
* An account of auth_service with the login of the admin site's superuser never
  gets into the site.
* Users may be kept out of the admin site by a row of somebody else, for ever.
* An average rating of 0 is answered as not found (`services/mongo/like.py`; one
  comparison, not modelled).
* The limiter counts the address of the proxy, one for all clients.

## Proved and only model-checked

Every invariant and every action property of a passing run is proved for all
values of the constants, from the named assumptions of the modules alone, and so
are the four refinements:

| module | implements | what is mapped |
|---|---|---|
| `EventEtl` | `EventDelivery` | messages at or after the resume offset, buffers, tables |
| `AuthTokens` | `AuthSessions` | rows, history, cookies, the token a request has read |
| `TheatreCache` | `CatalogueReads` | the requests that are answered, with their answers |
| `UgcCrud` | `Collection` | the collection and what was answered of it |

The bounds of the actions stay in what is proved, for any value of them. Only
model-checked are `ReachedIsCurrent`, `NoMessageBlocksItsPartition` and the four
violations: liveness under fairness is out of the prover's reach.

Symmetry is used for sets whose members no definition tells apart, and in no run
with a liveness property.

## Not modelled

* Reads of `ugc_crud_service` and its averages: they change nothing and keep
  nothing.
* The loss of a record Kafka has acknowledged (`acks=1` and a leader that fails):
  inside the broker.
* Django's own admin and the list view of `movies_admin`, but for what they do
  to the catalogue (`CatalogueEtl`).
* The OAuth exchange with a provider: `AuthAccounts` has what it yields, an e-mail
  address.
* The rate limits of `auth_service`, tracing, logging, migrations, health checks.
* Several workers of `auth_service` that seed one database at the same time:
  `entrypoint.sh` starts one.
* `storage_test` and `storage_test_again`, scripts that time databases and are no
  part of the running system.
* nginx, ELK, Docker files and the ClickHouse cluster's settings: configuration
  of programs of others. What the column types refuse is in `EventEtl`.
