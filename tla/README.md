# Formal models of n2f

TLA+ modules for the Rust server in `src/` (crate `src/src`), with TLC
configurations that check them on small instances and TLAPS proofs for every
value of the constants.  `PROJECT.json` lists the runs, the theorems, the
hazards the properties are aimed at, and which source lines each definition
translates.

To check a run: `tlc -workers 2 -config MCLocal.cfg MCAuditRuntime`.
To check the proofs: `tlapm X.tla` for each module `X` named `...Proofs`.

## 1. The system

n2f is a web server around PostgreSQL.  One process has a tokio runtime, an
HTTP listener, a connection pool, a logger thread and one background loop (the
audit worker).  Several processes may run over one database; the database
serialises what they share.  A NATS JetStream broker and a Redis server are
optional.

| Component | State it keeps | Operations | Hard behaviour |
| --- | --- | --- | --- |
| Transactional outbox (`shared/events/postgres`) | `n2f_outbox`: state, attempts, available_at, lease, lease_until | enqueue (in the producer's transaction), claim, ack, release, dispatch | leases that lapse while their holder works, retries, the fifth attempt |
| Durable mailbox (same file) | `n2f_mailbox`, `n2f_mailbox_receipts` | publish, consume | two processes with one consumer name; effect and marker in one transaction; savepoint |
| JetStream adapter (`shared/events/jetstream`) | the stream and its durable consumer (server), a socket, a closed flag | publish, transfer, close | lost replies, redelivery, duplicate window, delivery limit |
| Audit worker (`root/audit.rs`) | the loop's stop signal and task | start, tick, close | stages that end the tick, close with a tick still running, crash |
| Audit records (`domains/audit`) | `n2f_audit_records` | insert (in consume), list | at most once per event |
| Identity store (`domains/identity/infra/postgres`) | principals, credentials, auth_state, sessions, tickets, challenges | twelve transactions, each under the lock of the principal's auth_state row | what a command read before its slow hash is stale at commit |
| Identity commands (`domains/identity/app`) | none | register, login, logout, challenges, reset, tickets | order of clock reading, hashing and commit; mail after a certain commit only |
| Browser sessions (`identity/transport/http`) | the browser's cookies, CSRF tokens | the admission of each route, the cookies each answer sets | two tabs, answers in any order, lifetimes in different units |
| Mail (`identity/infra/smtp`, `infra/local`) | none | send verification, send reset | a server that stalls or accepts after the attempt's budget |
| Attempt limiters (`identity/infra/local`, `infra/redis`) | fixed windows in a bounded map or in Redis | admit | full store, partial counting, windows at their edge |
| Organisations (`domains/org`) | organisations, memberships, invitations | create, invite, accept, change role, list | row locks taken one at a time: deadlock, a check made without a lock |
| Database (`shared/postgres`) | pool, migration table | transaction, migrate, close | commit of uncertain outcome, several processes migrating at once |
| HTTP server and request lifecycle (`shared/http`) | active requests | admit, observe completion | a completion observed exactly once, panics, timeouts |
| WebSocket server (`shared/socket`) | 64 slots, closed flag, stop channel | upgrade, run, close | close racing an upgrade, revalidation racing the heartbeat |
| Outbound HTTP client (`shared/httpclient`) | 64 slots, closed flag, stop channel | send, close | close racing a request |
| Process, health gate (`root/http.rs`, `shared/health`) | what is open, 64 connection slots, one atomic state | startup in order, accept, probe, drain, shutdown | a failure at each step; drain while a readiness check runs; one budget spent in order |
| Settings (`shared/env`, `root/config.rs`, `root/http.rs`, `root/auth.rs`) | problems, what was read | read, check, construct, manifest | settings that are wrong only together; placeholders; what the log shows |
| Proxy policy (`root/proxy.rs`) | the configured networks | derive the source of a request | forged headers, masks of zero and full width |
| Logger delivery (`shared/logger`) | bounded channel, counters | emit, flush and close | the worker counts before the caller does; close with a deadline |
| Identifiers (`shared/id`) | last millisecond and counter | new_id | clock that steps back, counter that runs out |
| Password hashing (`identity/password_hash`) | semaphore, queue counter | hash, verify | bounded wait, dropped callers, panics in the work |
| Provenance (`shared/provenance`) | none; scopes and works are values | open, enter, child, prepare, execute, retry, replay | hints of callers, depth limits, long sequences |
| Errors, telemetry, values | none, or one value | pure functions | sizes |

How they interact: an identity command commits its rows *and* an outbox row in
one transaction.  The audit worker claims the row, publishes it (to the
broker, or without one straight into the mailbox), and marks it sent.  With a
broker, the worker also moves messages from the stream to the mailbox.  It
then consumes one mailbox envelope, writing the audit record and the processed
marker in one transaction.  The HTTP routes call commands; the WebSocket
server calls identity to revalidate a session; shutdown drains the health
gate, closes sockets, then the worker, the clients, the pool and the logger.

What makes each component correct:

* outbox: a committed event is never lost or changed, and ends sent or dead; a
  lease excludes everybody but its holder; a late finish changes nothing;
* mailbox: each consumer handles an envelope at most once, and its effect
  commits with the marker or not at all;
* broker: nothing is acknowledged before the mailbox has it;
* worker: no stage starves the others, whoever crashes; close ends the loop;
* identity: a password change, reset or logout-all wins against every command
  that started before it; a challenge or ticket is used at most once; at most
  one challenge per purpose is outstanding;
* limiters: never more admissions in a window than the limit;
* organisations: exactly one owner; nobody joins but by an invitation addressed
  to them; at most one invitation awaits a person; whoever grants has the
  authority when it commits;
* browser sessions: a POST acts only with a token issued for its session; a
  live session loses its cookie only to a request of the same browser that was
  overtaken by another one; stale cookies never lock a user out;
* HTTP: every request is answered and recorded once, as it was sent;
* sockets, client: no loop or attempt misses the close, nothing is handled for
  a session that had ended;
* process: never ready once draining; handlers do not outlive the pool, nothing
  outlives telemetry; every exit closes what was opened; a shutdown takes its
  budget and only what is known on top of it;
* logger: the counters explain every record, and a close that succeeds has
  written all accepted ones; ids: strictly increasing;
* migrations: a process that is up has its lists in the database, and a build
  is never locked out of its own;
* mail: nobody is sent a token the store does not have; nothing is sent twice;
  a link that works belongs to the current password;
* settings: what serves is safe as a whole; proxies: a client that is no proxy
  cannot choose its source.

## 2. The plan

In order of importance; each step is modules, runs, then proofs.

1. **Event delivery** (done): `Envelopes`, `Outbox`, `Mailbox`, `Broker`,
   composed in `AuditRuntime`, which refines `EventPromise`.  Proofs in
   `AuditRuntimeProofs`.
2. **Identity** (done): `Accounts` (the store's transactions)
   and `Identity` (the commands that read first, hash, and commit later),
   which refines `AccountPromise`.  Proofs in `IdentityProofs`.
3. **Organisations** (done, section 5): `Organizations`, with row locks taken
   one statement at a time.
4. **Attempt limiters** (done, section 6): `Limiters`, both adapters.
5. **Database** (done, section 12): `Migrations`, several processes and builds.
6. **Logger delivery** (done, section 10): `LogDelivery`.
7. **WebSocket server and HTTP client** (done, section 9): `Sockets`,
   `Outbound`.
8. **Process, health gate, shutdown order** (done, section 8): `Process`.
9. **Identifiers** (V7) and **provenance** (done, section 13): `Lineage`.
10. **HTTP request lifecycle, password hashing** (done, sections 7 and 11):
    `HttpRequests`, `Hashing`.
11. **Browser sessions, settings, proxy policy, mail** (done, sections 7, 11
    and 12): `Admissions`, `Settings`, `Sources`, `Mailing`.
12. **Proofs of those components** (done, section 14): `OrganizationsProofs`;
    `ServerProofs` and `AnswersProofs` about `Server`; `ServicesProofs` and
    `AdmissionsProofs` about `Services`; `SettingsProofs`.

What is left: the HTTP transport of the organisations (section 15).

Modules to be proved about use no RECURSIVE operator; constants come with
named assumptions; invariants are conjunctions of named parts.

## 3. Event delivery: model and code

| Module | Models |
| --- | --- |
| `Envelopes` | event ids, bodies, the limit of attempts (5 in the code) |
| `Outbox` | `n2f_outbox` and `Store`: `Enqueue`, `Claim`/`ClaimNone`, `Ack`, `Release`, one action per transaction, and `OutboxSpec`, the table among callers that present any token at any time |
| `Mailbox` | `n2f_mailbox`, the receipts, the audit table: `Deposit` (publish), `Process` and `Reject` (the two commits of consume) |
| `Broker` | stream, duplicate window, redelivery (external: what `provision` configures and the adapter relies on) |
| `AuditRuntime` | `Runtime::start`, `tick`, `close`, `dispatch`, `transfer`, `consume`, crash and restart of the process |
| `EventPromise` | the abstract specification: commit once, handle at most once per consumer, journal what was handled |
| `MCAuditRuntime` | instances for TLC |

State of a worker: `pc` is the point of the tick it has reached, `hold` what it
keeps in memory there (a `Lease`, a pulled message, the row `consume`
selected), `stop` and `closed` the two signals of `close`.  A step of `tick`
that awaits the database or the broker is an action with three kinds of
outcome: took effect and reported it, failed, or took effect and reported an
error (`Database::transaction` calls the last one uncertain; for the broker it
is a lost reply).  What happens to the tick after each outcome follows the
early returns of `dispatch`, `transfer` and `tick`.

Abstractions:

* An envelope is an id and a body; bodies are model values divided into those
  `audit::translate` records, skips and refuses.
* Timestamps are compared with the database clock only, so a row keeps the
  results of its comparisons (`ready`, `live`) and the clock is the actions
  `RetryDue`, `LeaseExpires`, `ReceiptDue`, `AckWaitPasses`, `WindowPasses`,
  each of which may happen at any moment.  This includes every real timing.
* `claim` and `consume` order candidates by `available_at`; the models let
  any candidate be chosen, which is more behaviours.
* A receipt row that does not exist is the default receipt, because `consume`
  inserts the default row before it reads.
* A transaction is one step, because its row locks are held to its end;
  `consume`, which runs the callback under its locks, is two steps and a lock
  (`Locked`, with SKIP LOCKED).  A claim that skips a row another claim has
  locked is a claim ordered after that one.
* Lease tokens are fresh (they are V7 ids; their generator is in `Lineage`).
* A request that times out at the client and takes effect at the server only
  later is folded into "took effect and reported an error": the effect and the
  report are one step.  For a transaction this is exact up to the moment of
  the commit; for a broker publish the late copy would be a second `Store` of
  the same envelope, which a publish after `WindowPasses` also produces.
* The broker stores at most `StreamMax` messages; a full stream refuses
  (discard new), as it does in the code at 64 MiB.

### What the runs check

| Run | Instance | Shows |
| --- | --- | --- |
| `local` | 2 workers (one crashes, one is stopped), 1 event, a recordable, a skipped and a malformed body, 2 attempts, no broker | direct delivery: `RecordsMatchReceipts`, `LeaseProtects`, `SettledIsFinal`, `KeepsPromise`, and with fairness `OutboxSettles`, `MailboxDrains`, `StopIsHonoured` |
| `broker` | 2 workers (one crashes, one is stopped), 1 event, 2 attempts, 2 stream slots, 2 deliveries | a broker between: `TypeOK`, `SentIsDurable`, `AckedIsInMailbox`, `KeepsPromise` |
| `broker_live` | 1 worker that may crash, 1 event, 2 deliveries | `StreamDrains`: how far liveness goes with a broker |

Safety properties (`AuditRuntime`): `SentIsDurable`, `AckedIsInMailbox`,
`RecordsMatchReceipts`, `LeaseProtects`, `SettledIsFinal`, and `KeepsPromise`,
the refinement of `EventPromise` (committed is the outbox, handled the number
of committed callbacks, journal the audit table).  Liveness:
`OutboxSettles`, `MailboxDrains`, `StreamDrains`, `StopIsHonoured`.

Why the bounds are enough to be interesting: with two attempts a row is
claimed, lost, swept, claimed again and given up; two workers are what a stale
token, a double claim or a double consume needs; a good, a skipped and a bad
body of one event are what mixing envelopes or a reused id needs; two stream slots hold a duplicate
stored after the window passed; two deliveries are a redelivery and giving up.
The limits are constants, and the proofs hold for all of their values.

Fairness (`Fairness` in `AuditRuntime`).  Weak fairness of a worker's next
step (tokio polls a ready task), of restart (a supervisor restarts the
process) and of the clocks.  Strong fairness of the outcomes in which a claim,
a pull, a SELECT or the commit of consume takes effect, since an operation
that is retried on every interval is not refused for ever by a database that
works again; of `Leave`, since tokio's `select!` picks at random among ready
branches.  Publishing, acknowledging and the callback itself may fail
every time: the attempt limits bound these.  `broker_live` shows exactly how
far the promise goes with a broker: an event is in the mailbox unless the
broker used up all deliveries of every copy.

### What is proved

For any numbers of events, bodies, workers, consumers, attempts, deliveries
and stream slots, with and without a broker, under the named assumptions of
`Envelopes`, `Mailbox`, `Broker` and `AuditRuntime` (limits are positive
naturals, null values are not ids or bodies, each worker has a consumer name):

`AuditRuntimeProofs` has

* of the outbox alone, among arbitrary callers: `OutboxTypes`, `OutboxRows`,
  and `OutboxIsSafe` (rows are never lost or changed, sent and dead are final,
  an unexpired lease excludes all but its owner);
* of the whole: `Invariance` (the inductive invariant), and from it
  `TypesHold`, `SentIsDurableHolds`, `AckedIsInMailboxHolds`,
  `RecordsMatchReceiptsHolds`, `LeaseProtectsHolds`, `SettledIsFinalHolds` and
  the refinement `KeepsPromiseHolds`.

The argument.  None of the properties is inductive: whether an ack is right
depends on what the worker was told two steps earlier.  `IInv` therefore says
what every stage may rely on: a worker at publish, ack or release holds the
committed envelope and a token that was handed out (`LeaseHeld`); at sink and
+ACK it holds a message that is in the stream (`MessageHeld`); in the callback
it holds the mailbox row, still pending, with the attempts it read
(`RowHeld`), and no other worker holds that row (`OneHolder`); at ack the
transport has the envelope, at +ACK the mailbox has it (`ReceiptEarned`).
The copies agree: outbox, stream and mailbox hold one body per event
(`SlotsOK`, `MailboxOK`).  The proof first shows what each step is to each
part (`OutboxMoves`, `BrokerMoves`, `MailboxMoves`), then that each part keeps
its own conjuncts and only grows (`BrokerStep`, `MailboxStep`,
`DurableGrows`), then that what other workers rely on survives growth
(`HeldKept`) and that the worker that moved earns what its new stage relies on
(`DispatchMove`, `TransferMove`, `ConsumeMove`).  `InvStep` puts it together.

Only model-checked: the liveness properties (fairness is out of the prover's
reach).

## 4. Identity: model and code

| Module | Models |
| --- | --- |
| `Accounts` | the identity store: principal, credential and auth state of one e-mail address, its sessions, challenges and upgrade tickets; one action per transaction of `infra/postgres/mod.rs` |
| `Identity` | the commands of `app/command.rs`, `Authenticate` and `authorize_websocket`: for each request what it has read, then its commit |
| `AccountPromise` | the abstract specification: a command is one step, without snapshots, epochs, row versions or clocks |
| `IdentityProofs` | the theorems |
| `MCIdentity` | instances for TLC |

A request goes through stages in the order of the code: resolve the session
(if it is of an authenticated caller), read the clock and the snapshot (login
reads the clock first, a challenge request finds first), then, after any
number of steps of other requests, commit.  `Commit` runs the transaction with
the version, epoch and time the request holds; `Fail` is a transaction that
breaks although every guard its contract names is met; `GiveUp` is every way to
end without an effect (refused, stale, timed out, cancelled, crash).  A commit
whose outcome is unknown is a `Commit` whose result nobody learns.

Abstractions:

* One account.  Every mutation first locks the auth state of one principal and
  touches only rows of it, so accounts do not interact; registration of one
  address twice is the unique constraint (`Register` needs no account).
* A transaction is one step, because of that lock.
* A password is its version, a token its row.  A command that needs a password
  or token is started only by somebody who has it; any stored token may be
  presented at any time, used, expired or not.
* Limiters and mail have modules of their own: the first only refuse, the
  second happens after the commit and changes nothing here.
* The clock does not go backwards.  Requests still commit with old readings in
  any order, which is what the code has to survive.
* `proof`, `socket` and the count in `used` are history the tables do not have:
  the password a login verified, the session a WebSocket was admitted for, how
  many commits consumed a row.  No guard reads the first two.
* Versions and epochs end at `MaxVersion` (2147483647 in the code), where the
  code refuses with `version_exhausted`.
* `Suspend` and `Activate` are external: the code checks the status everywhere
  but has no operation that changes it.  A suspension moves the epoch, as the
  contract (A14) demands of whoever writes it.

### What the runs check

| Run | Instance | Shows |
| --- | --- | --- |
| `identity` | 2 requests, up to 2 sessions, 3 challenges, 1 ticket, 3 versions, 4 times; verification lasts 1, reset 2, idle 2, absolute 3, a ticket 1 | `SessionsAreCurrent` and `ChallengesAreCurrent` (the newest password wins over everything in flight), `UsedOnce`, `VerifiedByChallenge`, `ActivityMovesForward`, and `KeepsPromise`, the refinement of `AccountPromise` |
| `suspended`, `logout`, `change_password` | the smallest instances | disagreements with the contracts, below |

All commands at once have too many behaviours, so each behaviour of `identity`
takes one of six scenes of `MCIdentity`: a set of commands, and how many
sessions, challenges, tickets, versions and instants they may use.  A scene
restricts only what callers send; every step of a request that was sent is
possible.  The scenes are a new password against logins, resets and sessions in
flight; a changed password used at once; challenges that replace each other,
expire and race their own use; idle and absolute deadlines; and tickets against
both ways to end a session.

Two requests are enough for every race of the code, which is between one
command's reads and one other commit; a third actor, the operator, suspends and
reinstates at any time.  Two times order any two clock readings; the scene of
deadlines has four, so that idle and absolute expiry differ.  Challenge ids are
not reused; when they run out, requests for more are given up, so the number of
challenges bounds how many commits one behaviour has.

Where the code departs from its contracts (`findings` in `PROJECT.json`):

* `suspended`: U17 says every mutation reports an inactive principal as stale;
  `issue_challenge`, `verify_email` and the password mutations do not look at
  the status.  A challenge is stored (and mailed) for a principal suspended
  meanwhile.  It is harmless as long as `commit_login` and `resolve` do look.
* `logout`: U09 says logout is done.  If another request of the session read
  the clock later and was resolved earlier, `Session::revoke` refuses the older
  time: the caller gets an error and the session stays open.
* `change_password`: S13 knows stale and committed.  If a reset is requested
  while the new password is hashed, invalidating the newer challenge at the
  older time breaks a CHECK constraint and the change fails as internal.

Liveness is no question here: every command is a bounded sequence of steps
that may be refused, and nothing waits for it.

### What is proved

For any numbers of requests, sessions, challenges and tickets, any subset of
the commands, any lifetimes, any largest version and any clock, under
`AccountAssumption` and `CommandAssumption` (lifetimes are positive, idle is
not longer than absolute, no session has the null id), `IdentityProofs` proves
every property the passing runs check: `TypesHold`, `SessionsAreCurrentHolds`,
`ChallengesAreCurrentHolds`, `UsedOnceHolds`, `VerifiedByChallengeHolds`,
`ActivityMovesForwardHolds` and the refinement `KeepsPromiseHolds`.

The argument.  The store is safe whatever its callers pass, almost: `StoreOK`
is inductive under `StoreStep`, the disjunction of the transactions with
arbitrary arguments of their types (any stale version, epoch or time), apart
from what the commands must get right: all sessions are revoked, and a
password is changed, only of an account that exists; a reset that does not set
verified is of an account already verified; a challenge is asked for with a
version that exists; and the socket of a ticket is for its own session or for
nobody.  `CommandsOK` says why they do: what a request holds names rows that
exist, and an account it saw verified stays so.  `StoreMoves` shows that the
commands take only such steps, `StoreKeeps` that these keep the store (one
lemma per table: `AccountStep`, `SessionsStep`, `ChallengesStep`,
`TicketsStep`, `VerifiedStep`), `CommandsStep` that what one request relies on
survives the steps of all others.

The strengthening is what the tables promise each other: an account exists
completely or not at all, no session is ahead of the account's epoch and no
challenge ahead of its version (otherwise a later change would admit an old
row), and a session or challenge level with the account is of its password.
For the refinement each variable of the promise is a set computed from a table
(`OpenNow`, `PendingNow`, `SocketsNow`, ...); `SessionViews` shows that a new
epoch closes all sessions at once, `PendingAsked` and `PendingWithdrawn` what
issuing and withdrawing do to the challenges.


## 5. Organisations

| Module | Models |
| --- | --- |
| `Organizations` | `app.rs` and `infra/postgres` of `domains/org`: create, invite, accept, change role, list |
| `OrganizationsProofs` | the theorems |
| `MCOrganizations` | instances for TLC |

A request reads the clock and its input, then runs one READ COMMITTED
transaction whose statements are actions: `LockActor`, `CheckMember`,
`InsertInvitation`, `LockInvitation`, `InsertMembership`, `LockTarget`,
`InsertOrganization`.  `Holds` and `Wants` are the rows a transaction has
locked and the row its next statement locks; `SELECT EXISTS` locks nothing and
sees what has committed.  The last write and the commit are one action, since
no statement that waits lies between them; a commit may be reported as
uncertain.  `Deadlocked` is a cycle of the waits-for graph, and PostgreSQL
aborts one of its members.

`organizations` has up to 3 people, 2 invitations, 2 requests, 3 organisations
and 2 instants, in four scenes: two invitations for one person that expire
while clocks are read out of order; identity suspends people meanwhile; owners
and admins who change each other (this one deadlocks); lists of organisations
created in one instant.

* `OrganizationsAreSound`: exactly one owner (`OneOwner`), at most one pending
  invitation of anybody (`OnePending`), full pages (`PagesAreFull`).
* `MembershipIsGranted`: nobody becomes a member but as the founder or by an
  invitation, at its role and in its lifetime; a resolved invitation stays so.
* `AuthorityAtCommit`: who grants a role still has the authority at the commit.

`RequestsEnd` for organisations is checked in `server`.  Its fairness: a
statement that may run does (SF, because a row may be free and taken again
many times while PostgreSQL's queue gets to the request), and the deadlock
detector runs (WF).

What is proved, for any sets of people, organisations, invitations and
requests, any lifetime and any clock, under `OrgAssumption` (organisations are
numbers in the order of their ids, lifetimes are positive, no row has the null
id): `EveryOrganizationIsSound`, `MembersAreInvited` and `AuthorityLasts`, all
three properties of the run.  The inductive invariant `OrgInv` says what the
rows promise together (`OwnersAreAlone`, `InvitationsAreApart`) and what a
request that has locked rows may rely on until it commits: who acts keeps the
role that was checked (`ActorsKeepTheirRole`), the invitation being accepted is
pending, unexpired and nobody else's (`AcceptedArePending`), an invitation
being written has a fresh id (`IdsAreFresh`).  `WhatIsHeld` shows that two
transactions never hold one row, `WhatIsWritten` what each step may write; from
it follow the two action properties.  `PagesFill` counts the organisations that
are newer than the last of a page.

Only described: the statement that looks for a member before an invitation is
created (`infra/postgres/mod.rs:264`) sees what has committed, so an acceptance
that commits between it and the insert leaves an invitation pending for a
member, which `app/CONTRACT.md:17` does not foresee.  It cannot be accepted
(`member_exists`).

## 6. Attempt limiters

`Limiters` is both adapters of identity's limiter: `infra/local` (a bounded map
of one process, `AdmitLocal`) and `infra/redis` (`AdmitRedis`, the script,
shared by processes whose clocks differ).  `adapter` says which one the server
was started with and never changes.  An attempt names one or two buckets, reads
the clock (`Ask`) and counts in all of them later (`Count`); redis may also be
unreachable or lose its answer (`Unavailable`).  The local map is read by the
clock of its own process only, so skew matters to redis alone (`Ahead`).
`permits[k]` is a history: the instants at which permits of `k` were given.
`LimiterIsHonest` groups

* `PermitsAreBounded`: a permit of a bucket and the one of twice its limit later
  are at least a window apart, less what the code pays for: the delay between
  the clock and the counting, and clock skew.  In a shorter span there are at
  most twice as many permits as the limit, the factor of fixed windows;
* `FullMeansLive`: "store full" is said only when live windows fill it;
* `RefusalIsHonest`: a refused attempt was counted everywhere, and retry-after
  outlasts every window that refused it.

A limit is below the bound at which counts saturate (`u32::MAX`): the code's
limits are 3 to 100 (`LimiterConfig::defaults`), and a count that saturates at
its limit would never be over it.

The variables are part of `Services`; parts `local` and `redis` of the run
`parts` are the two adapters: two subjects that share a source, room for two of
the three keys, one attempt that names one key twice, windows of 4 instants,
delay and skew of 1, the clock to 4 and 5.  A window lapses, is evicted and
opened again within that, a limit of 1 or 2 is passed, and a full store finds
both live and lapsed windows.

## 7. HTTP exchanges and browser sessions

`HttpRequests` is `handle` and `ObservedBody` of `shared/http/axum`: routing,
body, cookies, admission, scope, handler, response, completion.  The future may
be dropped at each await (`Awaits`), an admission may panic, a timer may fire,
the body of the answer may be dropped unread.  `ExchangeIsTold` groups
`HandlerIsAdmitted` (a handler runs only for an accepted request, in the scope
of the actor its admission established), `ProblemOfFailure` and
`FirstFailureWins` (what is sent is decided by the first failure),
`RecordedAsSent` and `ObservedOnce` (the completion record is exact and there
is exactly one).  A value of the handler or of a refusal that does not validate
fails the request: with `http.invalid_response`, or, when only its cookie does
not serialize, with `http.invalid_cookie` (`Rejection`).  `Answered`: everybody
is answered or dropped, whoever stalls.  Fairness: timers fire and runnable tasks run; nothing obliges a body to
arrive, an admission or a handler to return, or a peer to read.  The instance
has every method (a HEAD on a GET route and an unknown one too) on two
templates and a path without a route, every kind of body, and responses that
are refused for each reason.

Only described: `http.invalid_cookie` is the error of a malformed Cookie header,
of `Kind::Invalid`, so a cookie that the server itself got wrong is answered with
400 and recorded as refused.  The comment at
`shared/http/axum/mod.rs:255` and `shared/http/CONTRACT.md` (H06, H16) call it a
handler error, which is a 500 and failed; `ExchangeIsTold` says what the code does.

`Admissions` is the identity transport seen from a browser: two tabs share a
cookie jar; `Admit` is the admission of each mode of route, one action per
handler says what it does to sessions and which cookies it sets, `Receive`
delivers answers in any order and `Lose` not at all.

Every command reads the clock before it awaits the store.  `since` is the
earliest time the next step of a request may have read, `Readings` are the
times from there to now, and a step picks one; `seen` is the reading with which
a session was last touched.  The store takes a session only if it is live and
was not touched with a later reading (`Usable`: `resolve`, the commit of a
ticket; `Logout` for `Session::revoke`).  A session leaves "live" in two ways:
it has "ended" (logged out, expired, suspended) or is "outdated", when the epoch
of its owner has moved on (`Outdated`: logout everywhere, another password), by
this browser or by another device (`MoveOn`).  `EndAll` commits under the epoch
that was resolved: if that has moved on, logout-all and a change are a version
conflict; a change also looks at the account first, and then says
`session_rejected`.

`BrowserIsGuarded` groups `PostIsGuarded` (the CSRF token belongs to the session
it acts with), `RefusalIsExplained` (and is not refused without a reason),
`ClearedSessionIsOver` (an answer clears the cookie it was sent, once, only if
the session is over, or if a request with a later reading overtook this one; a
reset of the password clears it for whichever account its token names),
`CookieLastsAsLongAsToken` and `RetryAfterIsEnough`; `LoginIsReachable` says that
stale cookies never lock a user out.  Fairness: the server answers, what is not
lost is delivered, and the user keeps trying (SF of `Send`, because sessions may
end between two tries).  Faults and lost answers are bounded by `Faults`, for a
user whose every answer is lost has no login.

Only described: R07 (`identity/transport/http/CONTRACT.md:82-84`) names the cookies
that are cleared, and does not foresee the overtaken request.  Two tabs are enough:
one reads the clock, the other reads it later and is resolved first, and the first
is then answered `session_rejected` and clears the cookie of the live session.

The parts are all routes in one tab, with faults, foreign pages, doubled cookies
and another device at time 0, and then contexts and logouts until the token is
too old (`routes`); a login in one tab, once, and logouts in the other, and,
when both are on their way, one tick of the clock and sessions and logouts after
it, so that every pair of readings meets the store in either order (`tabs`); the
limiter's answers (`retry after`); and `browser` in the run `server`, for
liveness, where the clock moves only between requests (one tab overtakes nobody)
and nothing moves on elsewhere (it ends a session as expiry does).  A lifetime
of 3 with 2 units in a second is one that is no multiple of a second.

Only described: the cookie's Max-Age is in whole seconds, rounded down
(`identity/transport/http/mod.rs:567`), so with a lifetime that is no multiple
of a second the cookie ends up to a second before the token, where
`CONTRACT.md:65` of that directory has them equal; a lifetime below a second
makes a cookie that ends at once.  `CookieLastsAsLongAsToken` states what does
hold for every lifetime: the cookie outlasts the token's whole seconds.

## 8. Process

`Process` is `run_http` and the readiness gate: `Startup` opens each resource
in the order of the code or fails and releases what `ReleasedOnFailure` says;
`Bind`, `Accept`, `Disconnect`; `ProbeStart` and `ProbeEnd` are a readiness
check with its two looks at the state; `Drain`; then the steps of `Shutdown`,
each spending some of one remaining budget.

Two things of a connection may outlast it.  `Upgrade` makes it a socket session
(`loops`), a task that `CloseSockets` waits for but does not abort: a session
that misses the budget goes on, pool and all, until the runtime is dropped.  And
a handler's hash or limiter call runs on a blocking thread (`blocking`), which
goes on when the handler is aborted.  `DropRuntime` ends the tasks where they are
and waits for the blocking work; `overrun` is what it waits, and nothing of it is
taken from `left`.

* `ShutdownInOrder` groups `DatabaseOutlivesHandlers` (a session may outlive the
  pool only when the sessions used up the budget), `NothingOutlivesRuntime` (no
  handler, session, blocking work or worker is left when telemetry closes),
  `ExitReleases`, `OneEvaluation` and `ShutdownWithinBudget`, which says what
  does hold of the time: the budget; with jetstream the timeout of
  `NatsTransport::close` (`events/jetstream/mod.rs:82`) on top of it; and with
  authentication what the blocking work of abandoned requests still needs.
* `ReadyIsCurrent`: no probe is answered ready once the listener is gone.
* `Exits`, a part of `ShutdownEnds`: no step of the shutdown lasts for ever.  Its
  fairness is weak: the main thread runs, its waits are bounded by the budget, and
  blocking work that has started returns (a hash ends by itself, a limiter call at
  its timeouts), within `WorkTime`.

The budget is 2 units, the broker's timeout and the blocking work 1 each, so that
each step can spend nothing, a part or all; two connections share one slot, and
two probes the gate.

Only described: that the elapsed time stays within the budget (`AUTH_BUILD.md:80`,
T11 of `shared/telemetry/CONTRACT.md`) does not hold, even without a broker,
because of the wait in `drop(tokio)` at `root/http.rs:630`; `ShutdownWithinBudget`
says how far it goes beyond.

## 9. Sockets and the outbound client

`Sockets` is `upgrade`, the session loop and `Server::close`: flag, signal and
slots are read and written in separate steps, a session may be revoked and a
peer fall silent at any moment.  `SocketsAreSafe` groups `DrainedIsQuiet`,
`NobodyMissesTheSignal` and `NothingAfterRevocation`; `CloseEndsAll`,
`RevokedEnds` and `SilentIsCut` are the liveness.  Fairness: every await of the
loop has a timer (WF of `Serve`, `Signal`), and `select!` is fair to the signal
and the heartbeat while a peer keeps sending (SF of `Stop`, `Beat`).  The safety
part has two connections and one slot, the live one has one connection.

`Outbound` is `Client::execute` and `Client::close`, the same race without a
server: `ClientIsClosed` groups `CloseReachesAttempts`, `ResponseIsWhole` and,
in its type invariant, that a call that has returned holds no slot.

## 10. Logger delivery

`LogDelivery`: threads in `emit` and `write` (the mutex of the sender, the
bounded channel, the counter after it), the worker, and `close` with a timeout.
`LogIsExact` groups `Accounted`, an equation between the four counters and
where each record is, whatever the interleaving, and `CloseMeansWritten`;
`NothingAfterClose`; `WorkerEnds` under weak fairness of every thread and a sink
whose writes return.  Two threads, four records, one place in the queue, one
sink fault.

## 11. Password hashing, settings, proxy policy

`Hashing` is `Hasher::admit` and `run` over tokio's semaphore (external): a
caller tries, counts itself, checks, waits until a deadline; it may be dropped
at each await while its work keeps running on a blocking thread.
`NothingIsLeaked` groups `PermitsAreConserved`, `CounterIsExact` and
`NobodyWaitsForFree`; `CallersLeaveTheQueue` holds under weak fairness (hashing
ends).  Three callers, one slot, one place in the queue, are a caller that
hashes, one that waits and one that finds the queue full.

`Settings` is what `load_http_config` does, in its order (`Loading`): the reads
of `root/config.rs`, `root/http.rs` and `root/auth.rs` with their defaults and
bounds, the branches that select them, and the checks in between, then the
constructors that refuse later, and the manifest that is logged.  Reads between
two branches or checks touch only the reader and are one step.  `Read` keeps
what `Reader` keeps: keys seen, problems, entries of the manifest, and what was
returned, a placeholder for a wrong value.  `SettingsAreSafe` groups

* `ServedIsSafe`: what serves has secure cookies, or insecure ones on a loopback
  host by two explicit settings, cookie names that differ, a key that is long
  enough, lifetimes that fit, a database, and mail credentials that are a pair;
* `NoPlaceholderLeaves`: after the load every setting that the environment
  selects has the value that was set, or its default, and a legal one (`Legal`
  is what the parser of a row asks, stated apart from how it is asked);
* `EveryProblemIsNamed`: a refusal by the reader names every wrong setting;
* `ManifestHidesPrivate`: no secret or private text is in the start record.

The environments are a complete one and all that differ from it in up to two
settings, over 36 deviations, with one more for cookies on an open host: a pair
of settings is what the checks across settings look at.  Among them every check
of the load refuses one, and so does every constructor that can refuse what the
load has accepted.

`Sources` is `trusted_source` with a client that forges, and proxies that
append: `SourceIsHonest` groups `ContainsIsPrefix` and `ForgeryIsIgnored`, over
addresses of three bits in one family and four in the other, and masks of every
length in the first.

Findings: `no_peer` — the accept loop discards the peer's address, so every
request of the running server has an empty source, and limits by source are
shared by all clients.  Only described: some settings are refused by a
constructor after the process has opened the database and migrated
(`root/auth.rs:594`), where `root/CONTRACT.md:36` and `AUTH_BUILD.md:53` want
all configuration errors first.

## 12. Migrations and mail

`Migrations` is `Database::migrate` run by several processes of several builds:
advisory lock, comparison with the ledger, application, commit (also
uncertain), crashes.  The server migrates with the list of `root/auth.rs` and,
with the audit, once more with that of `root/audit.rs`, which is the same
(`MigrationsAssumption`); the example has the one of `root/events.rs`.  `LedgerIsSound` groups `NobodyCollides`,
`ServesItsLists`, `HistoryInOrder` and `DriftMeansDifference`.  Two processes
start three times between them, as any of six builds: with the audit, without,
older, edited, the example, and a list out of order.

Finding: `toggle_audit` — the list of `root/auth.rs` has the audit table's
migration in its middle only when the audit is enabled, so a database made
without the audit refuses the same build once the setting is turned on.

`Mailing` is `register` and `request_challenge` from commit to mail and the two
mailers, with a server that accepts late, never, or after the attempt's budget.
A request reads the account first (`found` is the password's version it read)
and stores its challenge in a later transaction, which refuses another version
(`Stale`).  A stored challenge is live until it is used (`Verify`, `Reset`, by
whoever has the mail), a newer one of its purpose replaces it, its time is over
(`Expire`), or the password is replaced, which invalidates whatever is
outstanding (`Replace`, in `Reset` and `Change`).
`MailIsHonest` groups

* `MailMeansCommitted`, `DeliveredWasAccepted`, `NeverTwice`: nobody has a token
  that the store does not, and what the caller is told of the mail is so;
* `LiveIsCurrent`: a link that works was asked for when the current password was
  the account's, so nothing mailed late is a way back;
* `LinkLasts`: a link that worked ends in one of those four ways only, and one
  that registering an address again is not among; what has ended stays so.

`StallingServerIsLeft` holds by the timers alone.  Two requests and one new
password (`Changes`) are enough for a request that reads before the change and
commits after it, and for a link of each kind that the change takes away.

## 13. Identifiers and provenance

`Lineage` composes the V7 generator (`NextStates`) with the provenance factory
that takes its ids: open, enter, child, prepare, execute, retry, replay.
The cause that a caller of `child`, `prepare` or `enter` names is any reference
(`Refs`): a scope or a work, of this lineage, of another one here or unknown, or
an event.  The depth is the parent's plus one whatever the cause, so it says
nothing of causes; `DepthCountsHops` says what it does count: every smaller depth
has an older scope of the same correlation, and it is unknown exactly where the
lineage came in from outside.  `LineageIsKept` groups it with `IdsIncrease`
(with a clock that is set back and a counter that runs out), `LocalLineage` and
`RetryKeepsWork`.  Part `ids` varies the clock over 3 milliseconds, a counter
of 3 values and its first value over 2; part `scopes` has up to 3 scopes, one
prepared work, a foreign id and 2 initiators; runs of three scopes keep to one
initiator, to hints and replays of scopes here, and to no events (`Narrow`).

## 14. The composed runs, and what is proved

Sections 6 to 13 describe components that share no state with each other; what
they pass on is a call and its result, which each module lets be any of its
outcomes.  Checking them in runs of their own would repeat the same question, so
two modules put them side by side: `Server` is the process, the exchange, the
logger, the hasher and the mailer, `Services` what a request relies on: the
proxy policy, migrations, lineage, the outbound client, the sockets, a
browser's admissions and the limiters.  A step of either is a step of one
component.  The theorems are about them, and about `Settings`, which is a
system of its own: the process loads them before it opens anything.  For TLC,
`MCServer` and `MCParts` give the constants and add what is there for its
liveness (`MCServer`) and the settings (`MCParts`).
`part` says which one a behaviour is about; it never changes, and the parts that
rest stay in one initial state.  The runs therefore check exactly the union of
the behaviours of the parts, and a property of one part holds trivially in the
others.  Since `part` is constant, actions of different parts share a fairness
condition (`Weak(i)`, `Strong(i)`): in a behaviour of one part each is that
part's own action.

| Run | Parts | Shows |
| --- | --- | --- |
| `server` | process, exchange, sockets, log, hashing, mail, organizations, browser | `ShutdownInOrder`, `NothingIsLeaked`, `ReadyIsCurrent`, `ExchangeIsTold`, `LogIsExact`, `MailIsHonest`; and with fairness `RequestsEnd`, `ShutdownEnds`, `ConnectionsEnd`, `LoginIsReachable` |
| `parts` | settings, sources, migrations, scopes, ids, local, redis, routes, tabs, retry after, outbound, sockets | `SettingsAreSafe`, `SourceIsHonest`, `LedgerIsSound`, `LineageIsKept`, `LimiterIsHonest`, `BrowserIsGuarded`, `ClientIsClosed`, `SocketsAreSafe` |
| `no_peer`, `toggle_audit` | sources; migrations | the findings of sections 11 and 12 |

Deadlock is not checked in them, because processes exit, callers come to their
end and bounded clocks stop; that nothing stops too early is what the liveness
properties say.  The delivery, identity and organisation runs check it.

### What is proved of them

Every safety property of the two runs is a theorem, for every value of the
constants.  A step leaves a component alone or is one step of it, so each
component has an inductive invariant of its own.

| Theorem | For any | From |
| --- | --- | --- |
| `ServerShutsDownInOrder`, `ServerIsReadyWhenItSaysSo` | connections and their slots, probes, budget, broker timeout, length of blocking work | `ProcessInv` |
| `HasherLeaksNothing` | finite set of callers, slots, length of the queue | `HashingInv` |
| `LoggerIsExact` | threads, records, capacity, sink faults | `LogInv` |
| `MailStaysHonest` | senders, changes of the password | `MailInv` |
| `ExchangeStaysTold` | routes, requests, responses | `ExchangeInv` |
| `SocketsStaySafe` | connections, slots | `SocketsInv` |
| `ClientStaysClosed` | calls, slots, lengths and their bound | `OutboundInv` |
| `LedgerStaysSound` | processes, builds, starts | `LedgerInv` |
| `SourceStaysHonest` | proxy lists, address widths, clients, forged headers, hops | `SourcesInv` |
| `LineageStaysKept` | clock, counter, foreign ids, initiators, bounds on scopes and works | `LineageInv` |
| `BrowserStaysGuarded` | tabs, sessions, owners, routes, origins, lifetimes, waits | `BrowserInv` |
| `LimiterStaysHonest` | keys, limits, window, store, requests, clock skews, delay, both adapters | `LimiterInv` |
| `SettingsStaySafe` | environments, texts that parsers refuse, that are loopback hosts, that are short | `SettingsInv` |

The theorems of the first five rows are in `ServerProofs` and `AnswersProofs`
under `ServerAssumption`, the last in `SettingsProofs` under
`SettingsAssumption`, the others in `ServicesProofs` and `AdmissionsProofs`
under `ServicesAssumption`. The assumptions are those of the components: sizes
are natural numbers, a slot exists where the code has a constant above zero,
null values are not data, two routes of one path and method are one route, ids
from elsewhere are none of ours, a build has one list of migrations, the callers
of the hasher and the tabs are finitely many, and there are more nonces than
tokens in sight (a nonce is 16 random bytes; the model takes one that is free),
a limit of attempts is below the count at which counters saturate, and the
largest time is at least a day of milliseconds and a safe integer, so that no
definition of a setting contradicts itself.

What the invariants add to the properties, which are not inductive:

* process: until the worker is closed, time spent and budget left add up to the
  budget; what a step of startup or shutdown has opened and released follows
  from its place (`ReleasedInOrder`), and the gate from the listener
  (`GateAgrees`); a session left behind by the sockets' step has cost the whole
  budget, and nothing runs once the runtime is dropped (`HandlersInside`); time
  spent and budget left never exceed the budget, the broker's timeout and what
  the drop has waited (`SpentInBudget`);
* hasher: a caller waits exactly if it is in the queue, once, or has been given
  a permit (`Line`, `Callings`); free, given and running permits add up to the
  limit, and each counter is the number of callers at certain places
  (`Counts`).  `CountFollows` is how a number of callers follows one of them;
* logger: the mutex is held by the thread between its check and its count,
  close has it before the channel closes, the worker leaves an empty channel
  (`LogStops`); the equations count the threads under way too (`LogCounts`);
* mail: what is sent has a row (`SentIsStored`), what was stored is for the
  purpose asked for, and a submission is made by the one step that leaves
  "sending" (`SubmittedOnce`); before the account exists its password was never
  replaced, and a registration reads no version (`NothingOfNobody`,
  `RegistersUnread`), so that what it stores is current;
* exchange: what a request without a failure has passed, stage by stage
  (`Passed`), what an override of the status and a deadline say of the failure,
  and that a response is the one its facts project (`SentAsProjected`);
* sockets and client: who is past the second look at the flag knows of the
  close once it was signalled (`LoopsKnow`, `CallsAreReached`), and the slots
  are those of the calls under way;
* migrations: history, what the open transaction has run and what it has left
  are together its list (`TheRestIsLeft`); histories are lists of builds and
  rise, so two builds that agree on a prefix cannot collide (`Prefixes`);
* sources: behind a client that is no proxy, everybody who passed the request
  on is one and has noted it (`PassedByProxies`); `MasksAgree` relates masking
  to equal leading bits;
* lineage: an id weighs less than a later millisecond (`IdsGrow`), and a
  prepared work, like a scope, has its root and every hop from it among the
  scopes (`IsKept`), those of a scope with smaller ids (`HopsAreOlder`);
* browser: what admission has established of a request holds until its handler
  runs (`Guarded`); every session and token in a cookie, a request or an answer
  was issued (`Sound`, `JarSound`), for a session that was issued stays so
  (`Moves`).  `PresentedIs` says which readings an
  admission accepts and `ClearingHasAReason` what excuses a cleared cookie;
  `ANonceIsFree` counts the tokens in sight, and `RetryIsEnough` and
  `MaxAgeIsShort` are the divisions;
* limiters: every bucket remembers when its last window opened and how many
  permits it had by then (`LastWindow`): those since are counted by the window
  while it is stored, those more than a limit before are a span older than its
  opening, and a window is gone only when the span has passed; a reading of the
  clock is recent (`ReadingsAreRecent`).  An attempt either leaves a window,
  evicts a lapsed one or counts in it (`LocalEffects`, `RedisEffects`), and
  `WindowFollows` and `PermitFits` carry the remembered instant over each;
* settings: a place in `Loading` means something: what was read came from a
  place that was passed and selected (`GotFromPassed`), whatever such a place
  reads is legal and as it was set or is named (`PassedAreRead`), and what was
  checked still holds (`ChecksPassed`), although the load goes on and reads
  more.  That needs the table: `Home` is the place that reads a key,
  `PlacesAreSound` goes over all of it, `ControlsAreEarlier` says that a branch
  looks only at what was read before it, and `KeyIsNew` that no key is read
  twice in any environment.

Writing these proofs found three places where a definition said less than the
code: in the classification of completions, the reasons of a wrong setting and
the admission, several arms of a `CASE` applied at once, which TLC takes in
order and TLA+ does not.  They are now in the order of the code by
`IF ... ELSE`.

Only model-checked: the liveness properties, for which the prover has neither
fairness nor ENABLED.

## 15. Not modelled

* The example loop (`root/events.rs`): the same outbox and mailbox, driven once
  by a demonstration; its migration list is a build in `Migrations`.
* The organisations' HTTP transport: it parses, calls one command and maps its
  error; its admissions are the modes of `Admissions` (`org_list`,
  `org_write`), its effects `Organizations`.
* Telemetry export, logger formatting, error types, small values, the
  demonstrations: pure functions or output nobody in the process reads.
* Wire formats, SQL text, cryptography, TLS and socket I/O: a token is its row, a
  digest its key, a statement its effect, an address a few bits.
* Envelopes that another version of the program wrote: today's writers produce
  only what its decoder takes, and the models know one version.

Modelled in part: audit records (their insertion and translation, not the
query that lists them), envelopes (identity and equality, not their fields),
the identity domain (the state transitions the transactions apply, not the
validation of texts), identifiers (time and counter, not the random bits or the
text form), the token codec (the binding and lifetime of CSRF tokens, not the
digests).
