# TLA+ models of pointswallet

pointswallet is a Go service that keeps loyalty-point wallets in PostgreSQL: admins
and members post credits and debits, admins upload CSV batches of them, accounts are
administered and soft-deleted, and users sign in with tokens that can be revoked.
This directory models the parts whose correctness depends on the order in which
statements of different requests run, on what happens when one fails, and on integer
widths. Paths below are relative to `src/`.

## The system

| Component | Where | State it keeps | Operations | Modules |
|---|---|---|---|---|
| Points, directions | `internal/models/points.go`, `direction.go` | none | conversion, addition, subtraction, kind/direction rules | `Points` |
| Wallet transactions | `internal/service/wallet`, `internal/dao/postgres/wallet_dao.go`, `transaction_controller.go` | `accounts.balance_points`, `ledger_entries` | `ApplyTransaction` | `PointsLedger` (abstract), `WalletTx`, `WalletTxProofs` |
| Batch jobs | `internal/service/batch`, `batch_dao.go`, `audit_dao.go`, `batch_controller.go` | `batch_jobs`, `audit_events`, a channel, a worker pool and a summary in memory | upload, process, complete, recover at start-up | `Batch`, `BatchProofs`, `BatchCsv` |
| Account administration | `internal/service/wallet`, `wallet_dao.go`, `auth_dao.go` | `accounts` (role, email, `deleted_at`) | create, member and admin update, soft delete, seed of the first admin | `Directory` (abstract), `DirectoryProofs`, `Accounts`, `AccountsProofs` |
| Sessions, password reset | `internal/service/auth`, `auth_dao.go` | `auth_tokens`, `password_reset_tokens`, `password_hash` | login, token validation, logout, forgot, reset, revocation at deletion, expiry | `Sessions`, `SessionsProofs` |
| Paginated lists | `ledger_dao.go`, `audit_dao.go`, `wallet_dao.go`, their controllers, `dto/pagination.go` | none (reads `ledger_entries`, `audit_events`, `accounts`) | pages of entries, audit events, accounts | `Listing`, `ListingProofs` |
| Routing, middleware | `internal/router`, controllers | the claims in the tokens; token buckets of the rate limiter | choose a route, check method, body, session, account and role, call the handler | `HttpRoutes`, `HttpGate`, `HttpGateProofs` |
| Request bodies | `dto/requests.go`, `transaction_controller.go` | none | sanitize, validate, resolve the ref from body and header | `Requests` |
| CSV parsing | `internal/service/batch` (`ParseCSV`) | none | parse and check a file | `BatchCsv` |
| Migrations, pool | `migrations`, `pool.go` | schema | start-up | not modelled; its constraints are in the modules of the tables |
| Configuration, logging, JWT encoding | `internal/config`, `logging.go`, `jwt.go` | none | I/O, cryptography | not modelled |

How they interact. A request passes the middleware chain (log, rate limit, method,
JSON, token, role) and reaches a controller, which calls one service method; the
service issues SQL statements. Only `ApplyTransaction` puts its statements in one
database transaction; every other operation is a sequence of autocommit statements, so
concurrent requests meet between them. The batch controller writes the job row and
starts a goroutine that outlives the request; its workers call the same
`ApplyTransaction` as the HTTP handler and so compete with it for account rows and
refs. Soft deletion touches the wallet (no further postings), the account table (role
and email) and the sessions (revocation, whose error is ignored). A token carries the
role its account had at the login, and the middleware asks for that role, so roles
that change meet sessions that do not. At start-up the
server seeds an admin and marks interrupted batch jobs as failed before it listens.

What is hard, and what would make each component correct:

- **Wallet.** Two calls on one account, two calls with one ref on different accounts,
  deletion while a call is open, an acknowledgement of COMMIT that is lost, a crash
  between statements, int64 wrap-around in `PointsFromWhole` and the sums. Correct
  means: the calls behave as one atomic ledger that posts each ref at most once; the
  balance column is the last entry's balance; entries of an account chain without gaps
  in exact integers; an answer of `accepted` or `duplicate_ref` is true; waiting ends.
- **Batch.** Workers sharing a channel and a summary, ignored errors of three writes, a
  crash at any point, the same file uploaded again. Correct means: every row is
  processed exactly once and counted once; a completed job has a verdict on each row; a
  ref is accepted once over all jobs; what the audit trail says of a row is true of the
  ledger; recovery leaves no zombie in `processing`.
- **Accounts.** Check-then-write without a transaction. Correct means: one active
  account per email, deletion is final, roles change only by an admin, and an admin
  remains.
- **Sessions.** Flows of several statements that interleave or stop half way. Correct
  means: a reset token works once, ended sessions stay ended, a new login (in
  single-session mode) and a reset end what came before.
- **Lists.** A count, a page cut by offset and the next page are separate statements,
  and rows are written between them; entries are sorted by the time their transaction
  began and not by that of its commit. Correct means: a client that pages to the end
  has seen every row that was there, sees none twice unless something was written, and
  comes to an end.
- **Gate.** Overlapping route patterns, a role that is read at the login and asked for
  later, checks that a deletion overtakes. Correct means: only admins act on
  other accounts or post adjustments, whatever path, body and spelling a request comes
  in, and nobody is served after his deletion.

`PROJECT.json` lists these hazards line by line with the properties that cover them.

## Modules and their correspondence to the code

`Points` holds the pure functions. `Int64` is the range `-HalfRange .. HalfRange-1`
with `HalfRange` standing for 2^63; `PointsFromWhole` multiplies by `PointsScale` and
wraps, `Add` and `Sub` wrap. A kind or direction the code does not know is `"other"`.

`PointsLedger` is the abstract specification of the wallet: `Open`, `Close` and an
atomic `Post`, with exact integers and no calls, locks or failures.

`WalletTx` is `ApplyTransaction` statement by statement. A *call* is a database
connection serving one request at a time, in state `pc`:

| `pc` before the step | Action | Code |
|---|---|---|
| `idle` | `Begin` | `ValidateWithResolvedRef`, then BEGIN |
| `lock` | `LockAccount` | `SELECT balance_points ... FOR UPDATE` |
| `exists` | `CheckRef` | `SELECT EXISTS(... ref)`, then the balance check |
| `insert` | `InsertRow` | `INSERT INTO ledger_entries`: CHECKs, unique index on ref |
| `fkey` | `CheckActor` | the INSERT's foreign-key check on the actor's account |
| `update` | `UpdateBalance` | `UPDATE accounts SET balance_points`, row count unread |
| `commit` | `Commit`, `CommitUnacknowledged` | COMMIT, acknowledged or not |

`status`, `balance` and `ledger` are the committed tables; what a call has written and
not committed is in its own `stored`, and in the row `Row(in, current)` that its INSERT
wrote. `Fail`, `DeadlockAbort` and `Crash` end transactions without effect;
`CreateAccount` and `SoftDelete` are the other writers of these tables. PostgreSQL is
external: `WaitsFor` says which statement waits for which transaction, `WaitPath` follows
such waits, and `Deadlocked` is a path that comes back. Because locks
last to the end of the transaction, who holds a lock is a function of `pc` and `in`,
and no lock table is needed. The source code's other columns (`occurred_at`,
`recorded_at`, `kind`, `source`) are not read by any of these statements and are left out.

`BatchCsv` is `ParseCSV` over abstract records: which files are accepted, and the rows
they become (the direction a kind implies when none is given). A record whose field
count differs from the header's, whose number or whose time does not parse is "not well
formed"; the Go reader refuses the first of these itself, so the `continue` on short
records in the code is never taken. Nothing in `ParseCSV` looks at refs and accounts, so
an empty one is one more ref or account here.

`Batch` composes jobs with the wallet. A row is posted by a step of `PointsLedger`
(`PL!Post`): `WalletTx` implements that module, so one atomic step is what a worker's
call amounts to, with four outcomes: accepted, accepted with the answer lost, refused
(`Refusal`, in the order of the checks), failed, which includes an amount or a sum that
wraps and fails a CHECK. The goroutine is `Start`, `Feed`, `Close`, `Complete`; a worker is `Receive`,
`Apply`, `InsertAuditEvent`, `Record`, `Exit`. `Start`, `InsertAuditEvent` and
`Complete` include the failure whose error the code discards. `Crash` empties memory
and keeps the tables, `Restart` runs `RecoverStaleJobs`. Other writers of the wallet
are reduced to accounts that open and close.

`Directory` is the abstract specification of account administration: an id is enrolled
once, changes roles while it is active, and is removed for good, each in one atomic step.
Seen through it (`Dir`), the rows of `Accounts` change statement by statement and those
of `HttpGate` request by request. Its instance `Wallet` maps it on to the `Open` and `Close` of
`PointsLedger`: this is what `WalletTx` (`CreateAccount`, `SoftDelete`) and `Batch`
(`Environment`) take of administration.

`Accounts` has one step per statement of a request (`read`, `count`, `write`), the
partial unique index on email, the column's CHECK on the form of an email (`Formatted`;
the anonymized address of a deletion contains the id, and passes only for `PlainIDs`),
and a restart that runs `SeedAdminIfMissing`. Its
history variable `overtaken` marks a request about to write on a check that another
request's write has made stale; no action reads it.

`Sessions` has one step per statement of login, forgot, reset, the revocation after
deletion, and of a request that presents a session: look up the token, check the
account, run the handler. Handlers other than sign-out change nothing here. A session records the password that opened it, and `settled` that the last
reset of an account was answered with success: both are history, read by no action.

`Listing` is the three paginated endpoints (`ListLedger`, `Audit`, `List`) and one client
of them. `row` is the table read from: a row's `Key` is what the list is sorted by, taken
when its transaction (entry), its statement (account) or its sequence number (event)
begins, and it becomes visible at the commit, later and in any order. A request is
`Open` (`WithDefaults`, `Validate`), `CountRows`, `FetchPage`; `has_more` is computed in
`FetchPage` from the count of the statement before. The filters of the lists select rows
and are left out. `Follow` is a client that asks for the
next page as long as it is told there is one. `walk` is history: what the client is owed and what it has been
shown. The clock may stand still between two transactions and does not
go back.

`HttpRoutes` is the route table, with the mux's rule that the most specific pattern wins
(external: Go's `net/http`). `Requests` is `Sanitize` and `Validate` of the bodies and
the resolution of the ref; texts are a few representatives (blank, another case,
leading space), on which trimming and lowering do what the code's do.

`HttpGate` puts the chain in front of the handlers: `Arrive` is route, method, JSON and
the lookup of the session; `CheckAccount` the statement on the account and then the
role in the claims; each handler that writes accounts or entries is one action (their
statements are apart in `Accounts` and `WalletTx`), and `Answer` stands for every other handler and every refusal. `LoginRead` and
`LoginCreate` are apart because the claims are those of the first. `Late`,
`posted` and `onceAdmin` are history. `Upload` posts a row in the step of the request, under the
rules of a JSON body; that rows are posted later, by a job and under the rules of
`ParseCSV`, is in `Batch`. No property of `HttpGate` depends on the difference: they ask who
posts on which account, and uploads are for admins.

MC modules (`MCWalletTx`, `MCBatch`, `MCAccounts`, `MCSessions`, `MCListing`, `MCHttpGate`) define the requests,
files, paths and bodies of the small instances.

An operator named `X_Something` beside `X` is a plausible bug in the code of `X`. It is
used by no specification; it documents, for each property, a change that breaks it.

## Runs

`tlc -config <run>.cfg <module>` in this directory; each takes under five minutes on two
workers. A run that is said to fail refutes a claim of the documents.

| Run | What it shows | Instance |
|---|---|---|
| `WalletTx_mixed` | the chains and sums of the ledger, what open transactions and answers may rely on, the refinement `Implements` of `PointsLedger`, where waits lead (`WaitsLeadToProgress`, `DeadlockThroughActor`), and that calls end (`EveryCallEnds`) | 2 calls, 2 accounts (the second is created on the way), 3 refs, 7 requests |
| `WalletTx_actorlock` | fails: transactions on different accounts do wait | 2 calls of two admins who post to each other's account |
| `WalletTx_amount` | fails: an amount that wraps is accepted as a smaller one | as `mixed` |
| `Batch_one` | accounting of the rows of a job, what its audit trail says, that each step is one of those left (`WorkShrinks`), and that the pool drains | 1 job of 3 rows, 2 workers, a repeated ref; an empty file and five to refuse |
| `Batch_two` | promises across jobs, re-uploads, crashes and recoveries | 2 jobs of 1 worker each, a file and its re-upload |
| `Batch_stuck` | fails: a job that never reaches a terminal status | 1 job of 2 rows, 2 workers |
| `Accounts_race` | deletion, roles; the last admin goes only by a race; the refinement `Implements` of `Directory` | 2 requests at a time, 3 ids, 3 emails, every request |
| `Accounts_lastadmin` | fails: the race leaves no admin | as `race` |
| `Sessions_race` | reset tokens work once; sessions left over by races are bounded by the flows that raced | 2 flows at a time, 1 account, 3 sessions, 2 reset tokens |
| `Sessions_resetlogin` | fails: a session of the old password survives a reset | as `race` |
| `Listing_walks` | what a client who pages to the end misses or sees twice is bounded by the writes that raced it, and it gets there | each of the three lists, 3 rows, limits 1 and 2 |
| `Gate_reach` | who can reach whose account with which request, over the whole route table; the refinement `Implements` of `Directory` | 2 requests at a time, 2 accounts (one is called `me`), 2 sessions, 11 paths |

The properties worth a word:

- `Implements` is the refinement with the identity mapping: a commit is one `Post`, and
  every other step, including a lost acknowledgement and a crash, leaves the abstract
  ledger as it is. It is false if a CHECK is dropped, because a wrapped sum is not the
  exact one.
- `BalanceChain` and `BalanceIsSum` look at the tables alone, as an auditor would: the
  balances that an account's entries record follow from one another, and its column is the
  sum of them all from the first (`RunningSum`), whatever the entries say of themselves.
- Some properties are proved and in no run. Most follow from others that are run: `LockedReadFresh`
  (part of `TransactionsApart`), `RefUnique` and `AppendOnly` (of `Implements`),
  `BalanceIsLast` (of the chain and the sum), and `PagesAdvance` (which `WalkEnds` needs). The
  other two are near to one statement or one index: `TerminalIsFinal`, that a
  completed or failed job stays as it is, and `EmailIdentifies`.
- `DeadlockThroughActor`: every cycle of waits passes the foreign-key check of an actor who is not the
  owner of the account, so members who act on themselves never deadlock; the claim
  of the documents that is refuted (divergence 1) is true of them.
- `WaitsLeadToProgress`: from every call the waits lead to one that can run, or
  into a cycle, which PostgreSQL ends. A lock that outlived its transaction, or a return
  without the deferred rollback, would leave a call waiting for nobody.
- `Implements` of `Accounts` and `HttpGate` is the same promise from both sides: no race of
  statements and no restart, and no path or body, does more to the accounts than
  one step of `Directory`. A seed that looked only for an active admin would enrol the
  seeded id a second time.
- `WorkShrinks`: a started job has 5 steps for each row, one for each worker and three
  of its own, never more, and is done when none is left.
- `PagesAdvance`: a page with `has_more` gets the client further unless a deletion came
  between its count and it.
- `TransactionsApart` is the inductive invariant's core (below).
- `CompletedCountsEveryRow` relates three records of the same rows that different
  statements write, each of which may silently fail: the counts of a completed job add up
  to its rows, and its audit trail never shows more of a verdict than was counted. (It may show
  less, contrary to SOLUTION.md:137 "Every row logged to `audit_events`": the error of
  `InsertAuditEvent` is discarded.)
- `RejectedLeavesNoRow` is what is left of PLAN.md:378 (a rejected attempt leaves no
  ledger row) when an acknowledgement may be lost: it is true of every reason but
  `internal_error`. It is about refs that one row carries (`Sole`), as another row may
  post the same ref before or after.
- `NoRowInvalid` says that the rules of `ParseCSV` and those of `ApplyTransaction`, written
  twice, agree: `auditReason`'s `validation_error` is not reached (see the divergences).
- `LastAdminGoesOnlyByRace`, `SessionsBoundedByRace` and `OldSessionsBoundedByRace` say
  what the code does guarantee where its documents claim more. The first: an admin
  remains unless one request wrote between another's check and write. The second: an
  account has at most as many sessions as calls that can race, so with one call at a
  time exactly the single session of README.md:64, and with two racing logins two. The
  third: sessions of an older password survive a successful reset only from a login
  that was under way, so fewer than there are calls.
- `OrderedUnlessConcurrent`: the ledger list is sorted by the start of the transaction, so
  entries of transactions that overlapped can stand in another order than their balances
  followed each other, and only those.
- `MissedBoundedByRaces`, `RepeatsBoundedByCommits` relate the whole of a walk to the
  writes since its first page. Rows missed: at most one per row deleted meanwhile (the
  later ones move up under the offset) and one per row committed between the count and
  the page of the last request (`has_more` is then false too early). Rows repeated: at
  most one per row committed. Ledger entries with equal `recorded_at` have no order at
  all, and are excluded by `NoTies`.
- `OthersOnlyByAdmins` follows a request from the route that wins to what its handler
  writes: who never was an admin changes no account but by deleting his own, posts on no
  account but his own, and no adjustment, in whatever spelling. It says "ever was"
  because the role is the token's: an admin who was demoted keeps admin requests until
  the token ends. SOLUTION.md:159 ("role in JWT + DB") claims more.
- `ChangesNamedAccount`: who changes or deletes an account has named it in the path, by its
  id or, for his own, by `me`: route and handler agree on which of the two a path means. An
  account may have the id `me`; then the literal routes win, and admins cannot
  reach it (see the divergences below).
- `AcceptedIsDurable` is about a transaction's later life: it is in the ledger when it is answered
  as accepted, and no step takes it out again. `reply` alone could not say so, as a crash
  and the next request forget it. `AcceptedForGood`, proved only, is the conclusion:
  `[](Accepted(req) => []InLedger(req))`. An ignored error of COMMIT would break both.
- `ProcessingIsAlive`: a job shown as `processing` has its goroutine at work, or that has
  counted every row and only the write of `CompleteJob` failed (divergence 3 is what
  a polling client makes of the latter). No restart leaves one behind.
- `DeletedNeverServed`: a deletion is felt by the next request, although the revocation of
  sessions may fail or be overtaken by a login, because the chain asks for the account too.

### Bounds

- `PointsScale = 100`, `HalfRange = 512`. The scale is the code's; the width keeps
  the shape of 2^63/100: 5 whole points is the largest amount that fits, 6 wraps to a
  negative amount (refused by a CHECK), 11 wraps to a small positive one (accepted),
  and sums of two fitting amounts overflow. The proofs hold for every width and scale.
- Two calls: locks, refs and foreign keys relate pairs of transactions, and two calls
  reach each wait, both deadlocks and each race. The safety properties are proved for any number
  of calls, so the instance has to exhibit situations, not to stand in for larger ones.
- Refs bound the ledger: each is recorded once.
- `Batch`: three rows on two workers give a row in each worker and one in the channel;
  one amount wraps and fails its CHECK. Two jobs with one worker each give the same
  ref in flight twice. A job id is used once; crashes and restarts are unbounded. The
  safety properties are proved for any jobs, files and pools.
- `Accounts`: the table and the requests are finite, so the state space is complete
  for three ids; restarts are unbounded.
- `Sessions`: the pools of session and reset tokens are finite and used up, after which
  nothing more can happen, hence `CHECK_DEADLOCK FALSE` there. Three
  sessions are one more than two racing calls may leave; tokens are interchangeable
  and declared symmetric, and the properties checked with symmetry are safety properties.
- `Listing`: three rows are two pages or three at limits 2 and 1, with a row before, between and after
  them. The query string asks for a missing limit and one above the maximum, a
  negative offset and a positive one. The clock moves only when a row is begun, so `Rows`
  bounds it. A client's history is dropped with the first write after it is done, as
  nothing more is claimed of it.
- `Gate`: one account is seeded as admin, the other comes and goes in either role;
  sessions bound the logins. Every method, and every kind of path of the table;
  requests and tokens are interchangeable. Once both accounts are deleted nobody can log in, hence
  `CHECK_DEADLOCK FALSE`.

### Fairness

- `WalletTx!Fairness`: a statement that stays enabled is executed (WF), since
  each call has a goroutine and a backend process of its own. Statements that may wait
  for a lock (`LockAccount`, `InsertRow`, `CheckActor`) have SF: PostgreSQL queues lock
  waiters, so one that is unblocked again and again is granted in its turn. The
  deadlock detector runs (WF). Nothing forces a client to submit, a statement to fail or
  the server to crash. With three or more calls an unbroken stream of KEY SHARE locks
  on one row could keep a FOR UPDATE waiter from its turn, and this code does nothing
  to prevent it; liveness is claimed and checked for two calls, where no such stream exists.
- `Batch!Fairness`: the Go scheduler runs every goroutine that can run, and a server that
  is down is started again. Database calls of a worker return (each returns with a
  result or an error), and nothing forces a write to succeed.
- `Listing!Fairness`: a request that was made is executed and the client goes on (WF);
  `FetchPage` has SF, as a client that asks again after every failure is not refused
  for ever. Writers are under no obligation.

`Accounts`, `Sessions` and `HttpGate` claim no liveness.

## Where the code and its documents part

Shown by a run:

1. `WalletTx_actorlock`. SOLUTION.md:131 and PLAN.md:263 say different accounts proceed
   concurrently. The foreign key on `actor_account_id` makes an INSERT wait for a
   transaction that holds the actor's row; two admins who adjust each other's
   account deadlock and one of them gets `internal_error`.
2. `WalletTx_amount`. `PointsFromWhole` has no bound; whole amounts past 2^63/100 wrap, and
   some of them are accepted as a smaller amount.
3. `Batch_stuck`. PLAN.md:1544: poll until completed or failed. Recovery only looks for
   `processing`; a job left in `queued` by a crash stays there, and one whose
   `CompleteJob` failed stays in `processing` until a restart.
4. `Accounts_lastadmin`. SOLUTION.md:119: the last admin cannot be deleted or demoted. The
   count and the write are two statements; two requests remove both admins.
5. `Sessions_resetlogin`. README.md:318: a reset revokes all sessions. A login that
   compared the old password inserts its session afterwards.

Met while modelling, and part of the models as the code has them:

- PLAN.md:378: a rejected attempt leaves no ledger row. When the acknowledgement of
  COMMIT is lost the row is there, audited as rejected with `internal_error`, and counted
  as rejected (`Apply` in `Batch`; the exception in `RejectedLeavesNoRow`).
- SOLUTION.md:118, on deletion: the email is anonymized and all sessions are revoked. The
  anonymized address contains the id, so an account whose id has a character outside
  `accounts_email_format` (an upper-case letter, a space) can never be deleted; and the
  revocation is a separate statement whose error is ignored.
- PLAN.md:1211: a negative offset is a 400. PLAN.md:385: so is a limit above the maximum.
  `WithDefaults` makes the one 0 and the other the maximum, before `Validate` (`Listing`).
- README.md:322-323, SOLUTION.md:121-125, PLAN.md:165-166: admins PATCH and DELETE
  `/accounts/{id}`, whatever the id. Nothing reserves the id `me`, and PATCH and DELETE
  `/accounts/me`, and GET of its balance and ledger, are literal routes that want a
  member and mean the caller: an account called `me` is never changed or deleted by an admin, not
  even by itself if it is one, while the other routes of admins reach it (`ChangesNamedAccount`).
- PLAN.md:553 gives `validation_error` as a reason of a rejected row. `ParseCSV` lets no
  row through that `ApplyTransaction` would refuse for it (`NoRowInvalid`).
- PLAN.md:1142: requests per second per IP. `RateLimit` is called once per route, so each
  route has a limiter of its own.
- SOLUTION.md:159: the role is in the JWT and the database. The middleware reads the JWT's.

## Proofs

`tlapm M.tla` for the seven `*Proofs` modules. Every safety property of the passing runs,
the action properties and the refinements included, is proved; the theorems are listed in `PROJECT.json`.

**Wallet** (`WalletTxProofs`), from the assumptions on constants: `PointsAssumption` (scale and half range are positive),
`RequestsAssumption` (requests are well-formed records; no other restriction on
amounts or accounts) and, for the waits, `CallsAssumption` (the connections are finitely many). They hold for any number of calls, accounts and refs.

1. *Amounts.* `WrapInRange`, `DeltaInRange`: conversions stay in the type.
   `CheckedIsExact`: a row that passes `points > 0` and `balance_after_points >= 0`,
   computed from a stored balance, moved it by exact integers. A sum of two
   non-negative int64 values that overflows is negative, so the CHECK catches it; this
   is the only protection the code has and it suffices for the sums (not for the
   multiplication, which has happened before: divergence 2). `ExactWhereItFits` is the
   other side of that divergence: where the product fits, `PointsFromWhole` is exact and
   `WholePoints` of it is what was posted.
2. *The inductive invariant.* `IInv == TypeOK /\ TransactionsApart`. `TypeOK` alone is
   not inductive: that the balance written at the commit fits its column follows from
   CHECKs evaluated at the INSERT on a balance read at the first SELECT. `TransactionsApart` carries this over: for each open transaction, `CallOK`
   (the account is still active, `current` is still the committed balance, the
   row passed its CHECKs, the ref is still unrecorded, `stored` is the row's
   balance), and for each pair, `Apart` (different accounts once locked, different
   refs once inserted). One `...Keeps` lemma per action, on three frame lemmas: `CallFramed`
   (a call whose database and variables did not change), `IdleOK`, and `StepKeeps`
   (a step of one call that leaves the tables alone).
   `Invariant` concludes `Spec => []IInv`; `TypeCorrect`, `Isolation` and `NoLostUpdate` follow.
3. *Steps of the ledger.* `LedgerSteps`: a step either leaves the ledger and every
   balance alone, or appends one entry as `Posted` describes. From it and `IInv`:
   `RefsUnique`, `LedgerAppendOnly`, `AcceptedDurable` (an entry `EntryStays`), `DuplicateTruthful`,
   `BalanceAgrees`, and `LedgerChains`, which uses `BalanceIsLast` to find the predecessor's balance in
   the column the transaction read. `AcceptedForGood` is the stability of an answer's entry:
   `Accepted(req) => InLedger(req)` is an invariant and `InLedger(req)` is kept by every step.
4. *Sums.* `BalanceSums`: the column is the running sum of the account's entries.
   `RunningSum` is a recursive function on the ledger's length. That it exists, and what it is at each length, needs
   induction, which the prover does not do with operators; `NatInduct` states it with a
   set of numbers instead, from `Least`, the least element of a set of naturals (`WFMin`). `RunningSumAppends`
   then says that an appended entry adds itself to one account and leaves every prefix.
5. *Waits.* `WaitEnds`: a call waits for another one, which has locked its account; at the
   INSERT it waits for one that has inserted. So in a cycle (`CyclesMeetActor`) each call
   has locked its account and is at the INSERT or at a foreign-key check, and one at the INSERT
   waits for one at a foreign-key check. By `ActorIsAnother`, from `Apart`, that check is of an actor
   who is not the owner (`DeadlocksThroughActor`). `WaitsAlwaysLead`: from a call
   whose waits never reach one that can run, the path can be prolonged for ever
   (`OneMoreWait`), with finitely many calls two places of it are the same call (`PathCloses`, by counting), and that is a deadlock.
6. *Refinement.* `Implementation`: `Spec => PL!Spec`. `Init` implies the abstract `Init`;
   a commit is `PL!Post` by `CheckedIsExact` and `IInv`; creation and deletion are `Open`
   and `Close`; everything else stutters.

**Batch** (`BatchProofs`), from `BatchAssumption` (the files are CSV files, the pool is a
finite set with at least one worker, the uploader is an account) and
`PointsAssumption`. `IInv` has four parts, each proved inductive on the ones before it.

1. `Jobwise`: types; per job, the row in `batch_jobs` against the goroutine (`Runs`), the channel
   (`Channel`: what was taken is counted or in a worker's hands) and the rows
   held (`Held`: each by one worker). Steps concern one job, `JobFramed` keeps the
   others. A pool of no worker would complete a job without looking at its rows, hence the assumption.
   `RowsCounted`, `NoneLeftProcessing` and `TerminalRowsFinal` need no more; for the second, when all
   workers have left, nothing is held, so `Channel` makes what is counted the rows of the job.
2. `Audited`: an event is of a row that was taken and is held by nobody who would write it again
   (`EventOK`), so each row has one event (`Once`), and `Tally`: the events of a verdict are
   no more than the rows counted with it plus those about to be. `RecordAudited` moves one from
   the second to the first; `OneMore` is the arithmetic of sets it rests on.
   `CompletedIsCounted` is `Tally` at the completion, `ParserAgreesWithWallet` is in `EventOK`,
   from `ParsedRows`: a row the parser lets through is none the wallet calls invalid.
3. `Accepts`: an acceptance is in the ledger and of one row only, from the worker
   that was told of it (`Won`) to the event. A second acceptance of a ref would need
   `~Recorded` of a ref that `InLedger` holds. `AcceptedOnce`, `AcceptedIsRecorded`.
4. `Refused`: a ref that one row alone carries is not in the ledger while the row is
   still to be judged (`Pending`), so `duplicate_ref` is never its verdict, nor after it
   was refused (`Turned`, then the event); `SoleHolder` shows that whoever posts that ref
   holds that row. `RejectedIsAbsent`.

`WorkIsBounded` is by arithmetic on `Left`: a worker that moves leaves one of the
places that `Left` counts and enters another (`WorkerMoves`), so each kind of step takes exactly one
(`WorkLeft`, `GoroutineLeft`); `Channel` and `Held` of the first part make it zero exactly at the end (`DoneLeft`).

That jobs move points only by steps of `PointsLedger` needs no proof: `Batch` is written with
`PL!Post`, `PL!Open` and `PL!Close`. What justifies it is the wallet's `Implementation`.

**Accounts** (`AccountsProofs`), from `AccountsAssumption` (requests are well-formed records, the
seeded id and email are among the others, the anonymized email is nobody's), for any
ids, emails and number of requests in progress.

1. *What a step may do.* `NextKeeps` shows, one lemma per action, that `IInv == TypeOK /\
   Serving` is inductive (`Serving`: a request in progress has a server and is one of
   `Requests`) and that each step satisfies `TableSteps`: it leaves the table alone or
   writes one row that was not deleted before and whose email, if it is active after,
   no other active row has. `EmailsIdentify` and `DeletionFinal` follow from it.
2. *The last admin.* `LastAdminOnlyByRace` needs `Counted`: a request that is about to remove
   an admin and was not overtaken since its count still finds more than one. It is
   inductive with `IInv` because every write marks the requests it overtakes; `AtMostOne`
   turns the count into a second admin that the write leaves.
3. `RolesByUpdate` looks at the writers one by one.
4. `Implementation`: `Spec => Dir!Spec`. `RowImplements` takes the one row that `TableSteps`
   allows a step to write: where it was absent the step is `Enrol`, where it stays active
   `SetRole`, where it becomes deleted `Remove`, and nothing else can happen to it.

**Directory** (`DirectoryProofs`), from no assumption. `Lifecycle`: `Spec => Wallet!Spec`, so an
account opens once and closes once. With the `Implementation` theorems of `Accounts` and `HttpGate` it closes the circle: the
wallet's proofs assume of the other writers of `accounts` what administration is
proved to do.

**Sessions** (`SessionsProofs`), from `SessionsAssumption`, for any accounts, passwords,
tokens and finite number of flows. `IInv` adds to the types that live rows have an owner
(`RowsOwned`), what a flow knows in each of its states (`FlowOK`) and that no two flows hold
one used reset token (`ResetsApart`), which gives `ResetsUsedOnce`. The two bounds are inductive
as sums: the live sessions of an account plus the logins about to add one stay
below what calls there are (`RaceSteps`, `OldSteps`: a step passes one login from the
second set to the first, or a revocation empties the first while its own call is no login).

**Lists** (`ListingProofs`), from `ListingAssumption`; that both configured limits are
at least 1 is part of it, and not checked by the code. `DefaultsAreValid`: nothing that
`WithDefaults` returns is refused by `Validate`. `Ordered` needs `Clocked`: a row's
key is the time it began, which is neither later than now nor than its commit. The two
bounds rest on `WInv`. Where no two rows tie, each visible row has a rank, the number of rows
`Ahead` of it, no two the same, so the first rows of a list are those of low rank
(`FirstRanks`). `Walked` counts, while a client is on its way, the rows it has seen that
are at or beyond its offset (they will repeat) and the rows owed to it that are before the offset
and unseen (they are lost): a commit moves at most one row up over the offset, a delete
at most one down, and a page turns the first into repeats. `Known` says why a row that
becomes visible is neither: it was not there before. `PagesLeadOn` needs of the invariant only that limits are positive: a page is
empty beyond the last row only, and then `has_more` can only come from a count of rows that are gone.

**Gate** (`HttpGateProofs`), from `HttpGateAssumption`, for any ids, paths and
bodies.

1. *The table.* `TableShape`: an id stands in the second segment behind `accounts`, in the third behind
   `batch`, and nowhere else. So the patterns that take a path differ in one segment at
   most, and `OnePattern` follows: for any method and path exactly one pattern is
   the most specific, and Go's mux, which refuses patterns that conflict, starts. `OneRole`: a handler has one chain.
2. *The chain.* `IInv` says what a request may rely on behind each check (`RequestOK`): the
   claims' role was the account's once, a request in an admin handler has the admin role,
   one that came late is not served, `Update` or `Delete` never has the target `me`, and `DeleteMe` no other. The last two are
   `MeRoutes` and `OwnRoute`, from the table: where the pattern of an id fits, so does the literal one,
   which is more specific. `NamedOnly` (`ChangesNamedAccount`) rests on them.
3. *The accounts.* `Implementation`: `Spec => Dir!Spec`, handler by handler.

Model-checked only, being liveness under fairness: `EveryCallEnds`, `JobDrains` and
`WalkEnds`. What safety can say of each is proved: `WaitsAlwaysLead`, `WorkIsBounded`
and `PagesLeadOn`. What is left to TLC is fairness: that a step which stays possible is taken.

## Plan

Done: the wallet with its refinement, batches on top of it, accounts, sessions, the
lists, the gate, the directory between accounts, gate and wallet, and the proofs of all of them. Left, most useful first:

1. The reads beside the writes: a balance and a ledger page of one account are two requests, so a
   client may see an entry whose balance it has not.
2. Fairness of `WalletTx` for three calls, with PostgreSQL's queue of lock waiters as state.
3. A specification of sessions, as `Directory` is of accounts, that `Sessions` and `HttpGate` both implement.

## Not modelled

- Names, password hashes, email normalisation, formatting of answers and logs, the
  compression of answers and the mapping of errors to status codes: no property is about them.
- The rate limiter: its buckets fill in real time, inside a library.
- The endpoints that read one row (balance, account, job, health): one statement that
  changes nothing.
- Bodies of login, forgot and reset beyond what their flows use: what is left of them
  is in `Sessions` as the values that reach the service.
- Migrations, the backfill in them included: run once before the server listens.
- Configuration and logging; JWT encoding, HMAC and bcrypt: taken to be what they are used for.
- PostgreSQL itself beyond row locks, unique and foreign keys, CHECKs, rollback and
  deadlock detection under READ COMMITTED.
- Several servers on one database: `RecoverStaleJobs` would fail another server's jobs;
  the documents run a single one.
