# A TLA+ project for the Hormoz backend

This directory models the server in `src/backend` (TypeScript, Fastify, PostgreSQL) and the voice
chat of its page, model-checks the models with TLC on small instances and proves theorems about
them with TLAPS.

- `X.tla` is a component, `MCX.tla` gives it a small instance, `X.cfg` says what is checked, `XProofs.tla`
  holds the theorems. `MCVoice`, `MCSite` and `MCOrderPayments` (also the order desk) check several
  components in one run, and `VoiceProofs` and `SiteProofs` prove about them. `PROJECT.json` lists
  components, runs, theorems, hazards and, under `map`, the source lines each definition stands for.
- Model-check: `tlc -config OrderPayments.cfg MCOrderPayments.tla`. Prove: `tlapm OrderDeskProofs.tla`.

## 1. The system

One Node process serves HTTP. A handler runs without interruption between two `await`s; at each
`await` of a query, a timer or an external call other handlers run. State is of two kinds:

- **PostgreSQL tables**, which survive a restart. Outside `markPaymentVerified` there are no
  transactions: each statement commits by itself. A statement is atomic; a handler is not.
- **Maps and flags in memory** (sessions, rate limits, "table is ready" flags), which a restart
  forgets.

A query may fail without effect, or take effect and lose its answer. Nothing is retried by the
server except the completion request to OpenRouter; clients and administrators retry by hand.

### Inventory

| Component | State | Operations | Makes it correct | Hard because |
|---|---|---|---|---|
| Payment ledger `payments/ledger.ts` | `hormoz_payment_transactions`, `hormoz_payment_events` | `createPaymentIntent`, `markPaymentVerified` | a key or a provider transaction is used once; one audit event per payment; retries are safe | row locks, unique-key waits, lost COMMIT answers, crashes |
| Payment gateways `payments/gateway.ts`, `bluepal.ts` | registry Map | register, select, validate, verify | amounts and references match before a payment is settled | external provider |
| Team accounts `routes/admin.ts` | `hormoz_team_members`, `sessions` Map, login limiter | login, me, logout, create, enable/disable, change password | a disabled member has no access | sessions are written from rows read earlier |
| Service orders `routes/admin.ts` | `hormoz_service_orders`, ready flag | submit, track, list, two status routes, token backfill | status and history agree; tokens never change; history is complete | read-modify-write across awaits; overlapping first requests |
| Payment intents of orders `routes/admin.ts` | orders and ledger | `POST /admin/payments/intents` | payments are for stored orders; orders are called paid only when paid | two tables, no transaction |
| Providers and leads `routes/admin.ts` | `hormoz_service_providers`, `hormoz_marketing_leads` | apply, review, list; follow up | only approved, consenting providers are listed and ordered from | check in one statement, insert in another |
| Team work and payroll `routes/admin.ts` | `hormoz_team_work_items`, `_submissions` | define, submit, review, payroll, mark paid | a report is reviewed once and paid once, for the amount approved | payroll read and mark-paid are far apart |
| Finance, feedback, opportunities, statistics, ads | one table each | insert, list | rows as sent | single statements |
| Global orders and invoices `routes/global-orders.ts` | `hormoz_global_orders` | submit, track, verify invoice | fee + share = amount; histories complete | two histories written back after an await |
| Global office members | `hormoz_global_members`, sessions | register, login, review, reset, (de)activate | a reset or deactivated member's sessions end | as team accounts |
| Organizations | `hormoz_organization_connections`, `_services` | intake, review, issue key, publish | only connected organizations act; what is public is what the owner published (not always what the owner had read) | status, key and version change independently |
| Image upload `routes/admin.ts` | files of `public/`, the repository on GitHub | write, rename, GET, PUT | "persistent: true" survives a deployment | one temporary name, optimistic `sha`, other committers |
| Speech service `app.ts` | `ttsRequests` Map | `POST /tts`: limiter, four providers in turn | every request is answered in bounded time; bounded bursts | an abort that some calls are not bound to; nested retries |
| Voice chat of the page `public/hormoz.js` | flags, one timer, recognition, pending fetches and audio | session, message, reply, replay | the page does not listen while it answers, and comes back to listening | callbacks of several sessions share the flags |
| Rate limiters | Maps | check, note, clear | bounded memory, bounded rate | clock, bound reached |
| Conversations and chat `modules/conversation`, `routes/chat.ts` | `hormoz_conversations` | create, append, update, close, chat loop | nothing is added to a closed conversation; every answer follows its question | the engine runs for seconds between two appends |
| Identity and recovery | users, sessions, credentials | create, authenticate, invalidate, register, login, rotate | a shown code works; an old one does not | three statements, no transaction |
| Memory | `hormoz_memories`, `hormoz_session_memories` | CRUD, merge | an update loses nothing it was not asked to change | read-modify-write |
| Intelligence providers | none | generate with retry | at most two attempts, never after an abort or a refusal | timeouts |
| Light action, ESP32 transport | device | turn on | an answer of success means the light is on | timeout against late effect |
| Other pages, discovery, images, health, firmware | none or external | I/O | | |

Interactions: `POST /admin/payments/intents` reads the order desk's table and calls the ledger; the
status routes and member routes share the `sessions` Map; the chat loop calls identity,
conversations, memory and the engine in turn; the organization portal and the office share a table.

## 2. The modules

### PaymentJournal (abstract) and PaymentLedger

`PaymentJournal` is what the ledger promises: a payment is opened at most once under a key of its
own, its details never change, it is settled at most once, by a transaction that settles no other
payment of that provider. It has no calls, no locks, no failures.

`PaymentLedger` is the code. `Callers` are concurrent calls; `step[c]` is the `await` a call stands
at; `request[c]` its argument.

| Model | Code (`ledger.ts`) |
|---|---|
| `CallCreate`, `InsertIntent`, `SendIntentEvent` and `LogIntent`, `Recover` | `createPaymentIntent`: argument checks, INSERT ON CONFLICT, the separate event INSERT (sent on a connection, which it keeps while it waits), SELECT and comparison |
| `CallVerify`, `Connect`, `LockRow`, `UpdateRow`, `LogVerified`, `Commit`, `Confirm`, `Rollback` | `markPaymentVerified`: argument checks, `pool.connect` and BEGIN, SELECT FOR UPDATE with its checks, UPDATE, event INSERT, COMMIT (first or repeated verification), catch block |
| `rowLock`, `staged`, `BeingClaimed`, `EventKeyStaged` | the row lock, and what an open transaction has written: invisible, and yet making writers of the same unique keys wait |
| `Holding`, `ConnectionFree` | the connections of the pool: kept through a transaction's waits, and by an event INSERT that waits for a row or a key |
| `QueryFails`, `TxnFails`, and the second outcome of `InsertIntent`, `LogIntent`, `Commit`, `Confirm` | a rejected query; one that took effect and lost its answer |
| `Crash` | the process dies, PostgreSQL rolls back |

Data abstracted: names are model values, `Canonical` is `trim().toLowerCase()`, `Blank` any string
of spaces, the currency (always IRT) and timestamps are left out. The DDL of
`ensurePaymentLedgerTables` is idempotent and is taken as done. A deadlock that PostgreSQL breaks
by failing a statement is one of the failures `QueryFails` and `TxnFails` allow at every step.

### TeamAccounts

`members` is the table (absent, active, disabled), `sessions` the Map. Each request is a call, a
statement and a continuation: `CallLogin`/`SelectMember`/`Grant`, `CallMe`/`CheckActive`/`PurgeStale`,
`CallSetActive`/`Disable`/`Close`, and so on. `Restart` empties the Map. A password either matches
or does not; changing it and listing members leave this state alone and are left out; the login limiter is in
`LoginLockout`.

### OrderDesk

`orders` holds status and history, `tracking` the token column, `ready` the flag
`serviceOrdersTableReady`, `live` the sessions `getSessionInfo` finds. Every request passes `FindMissing`,
`GiveToken`*, `FinishEnsure` (the whole of `ensureServiceOrdersTable`, by as many requests at once as
arrive before the flag is set), then works: `Insert` (submission), `Find` (tracking and lists), or
`ReadHistory`, `Compose`, `Write` (both status routes). `Compose` looks the session up again, as the code
does. A history entry is its status and its actor; `Unknown` is the "a team member" of line 854. Notes and
times are left out; the provider an order names is in `Providers`, the tracking limiter in
`RequestLimiter`.

### OrderPayments

Composes `OrderDesk` with the journal (an INSTANCE of `PaymentJournal`, which `PaymentLedger` is
proved to implement): `CallIntent`, `FindOrder` and `OpenPayment` are
`POST /admin/payments/intents`. No route calls `markPaymentVerified` yet; `SettlePayment` stands for
the gateway that will, so that an order *can* be paid in the model. `DeskStep` is every other step
of the order desk.

### Conversations

`rows` is the table; a request is a call (`call`), the await it stands at (`step`) and what it holds:
the message of its `appendMessage` (`draft`), the messages the engine is asked with (`context`), the
provider's attempt.

| Model | Code |
|---|---|
| `CallCreate`, `CallRead`, `CallSay`, `CallClose`, `CallChat` | the five routes of `routes/conversation.ts` that name a conversation, and `runConversationLoop` of `routes/chat.ts`; the session has been validated |
| `Find` | `getOwned` as `get` and `update` call it |
| `Select`, `AppendMessage` | `appendMessage`: `getOwned` with its checks, and the UPDATE; a chat passes both twice, for the question and for the answer |
| `Recall`, `Answer`, `Fail`, `Retry`, `GiveUp`, `Abort` | `listMemories` and `generate`: an answer, a failure that is retried, the half second before the retry, a failure that is not, the 25-second abort |
| second outcome of `AppendMessage`; `QueryFails` | an UPDATE whose answer is lost; a rejected query |

A message is a role and words. Words are names: what is said in one call is different from what is
said in another, as message ids are, and what the engine answers to `w` is `Reply(w)`. `late` is a
history variable: what was stored in a conversation that had been closed. Titles, timestamps, the
memories put into the context, the chat limiter, and chats without a conversation are left out.

### TeamWork

`reports` is `hormoz_team_work_submissions`, `request` one request per browser tab, `month` the clock.
`CallSubmit`/`FindWork`/`InsertReport`, `CallReview`/`Review` and `CallPayroll`/`ReadPayroll` are the
routes of the same names; a review is dated at some moment between its request and its effect, as
`NOW()` is. `ReadPayroll` leaves a `sheet` on the screen: the reports in the unpaid sum.
`CallMarkPaid` is the administrator who has transferred that sum and enters the receipt (the panel's
button), `CallMarkAgain` the receipt sent again, `MarkPaid` the UPDATE. `transfers` is outside the
system: what was really paid under each receipt. A month is `Closed` when it is over and no review
sent in it is under way.

A payroll line is modelled by the set of reports it sums, so the amounts need no arithmetic. A
restart loses nothing but requests, which `Fails` covers.

### GlobalOffice

`staff` is `hormoz_global_members` (status, role, `active`), `officeSession` the Map of the sessions,
`failures` the count of the address the member logins come from, `history` the names in
`status_history` and `invoice_history` of an order, `call` the handlers.

| Model | Code (`global-orders.ts`) |
|---|---|
| `CallLogin`, `SelectAccount`, `GrantAccess`, `BlockEnds` | `member-login`: `isLoginBlocked`, the SELECT and the password, `noteLoginFailure` or a session and `clearLoginFailures` |
| `Register`, `CreateMember` | `member-register`, `POST /members`: one INSERT |
| `ReviewMember`, `SetMemberActive`, `ResetPassword`, `DeleteTestAccount`, then `PurgeSessions` | the owner's UPDATE or DELETE and, after its answer, the loop over `sessions` |
| `PlaceOrder`, `ReadHistories`, `WriteQuote` | `POST /global-orders`; `verify-invoice`: SELECT of both histories, UPDATE of the quote and both |
| `SessionEnds`, `OfficeRestarts`, `CallFails` | expiry, restart, a rejected statement or a lost answer |

Passwords, amounts, dates and notes are left out; the two histories of an order, which the code
writes together, are one. The owner's own login is a comparison with the environment.

### OrganizationPortal

`connection` is the organizations' table (a status and whether the row holds a key's hash), `service`
the services' (a status, the organization, and its columns as one `text`). A portal request is the SELECT
that authorizes its key (`CallPortal`) and the INSERT or UPDATE (`InsertService`, `UpdateService`); a key is
issued by a SELECT (`CallIssueKey`) and an UPDATE (`IssueKey`). The review of a file is one statement. That
of a service is two requests of the owner's page: `ReadServices` is the GET that puts the text on the
screen, `ReviewService` the button pressed later, whose UPDATE names the service by its id alone;
organizations write in between. `publication` is a history variable: the text the owner had read and the
text that was stored when a service was published last. A key that was replaced finds no row, so keys are
not told apart.

### Visitors

`users`, `credential`, `session` and `memory` are the tables of identity, recovery and memories;
`visit` the handlers of `routes/recovery.ts`, `routes/memory.ts` and the context a chat reads.
Registration is `CreateUser`, `InsertCredential`, `CreateSession` and the answer (`TellCode`), each of
which may fail and leave the earlier ones done; rotation is one UPDATE and its answer; a change or
removal of a memory is a SELECT with its checks (`ReadMemory`) and a statement (`UpdateMemory`,
`RemoveMemory`). A code is drawn at random, never guessed and never drawn twice, so it is
`"current"` (its hash is stored) or `"other"`; a rotation turns every copy of the old one into
`"other"`. The limiters of these routes and what a memory says are left out.

### Uploads

`disk`, `temp` and `repo` are the file in `public/`, its `.uploading` file and the committed file, each
named by the upload whose bytes it holds; `Torn` is a mixture of two. `BeginUpload`, `FinishWrite` and
`Rename` are `fs.writeFile` and `fs.rename`; a writer holds the *file*, not the name, so a rename by
another upload carries it along (`name`). `GetSha` and `PutFile` are `persistToGitHub`, with GitHub's
comparison of the `sha` (external). `Push` is anybody else's commit, `Redeploy` a restart from the
repository.

### VoiceClient

The chat page. JavaScript runs each callback to its end, so a callback is an action.

| Model | Code (`public/hormoz.js`) |
|---|---|
| `OpenSession`, `CloseSession`, `ToggleReplies` | the buttons |
| `OnStart`, `OnResult`, `OnRefused`, `OnEnd` | the handlers of the speech recognition; `mic` is the browser's, whose `start()` throws unless it is off |
| `Restart`, `Retry` | the 450 ms timer of `resumeVoiceListening` and its 700 ms retry (one variable in the code: `voiceRestartTimer`) |
| `TypeMessage`, `Answered`, `NotAnswered` | `sendMessage`: fetch, answer, error or 40 s abort |
| `FetchSettles`, `RetryPlays`, `RetryFails`, `AudioEnds`, `AudioBreaks`, `Replay` | `speakNava` and `playOnlinePersianAudio`, chunk by chunk |

An answer is its number of chunks. The browser's own synthesis, and the flag `speaking` with it, stands
after an unconditional return and never runs. `here` and `crossed` are history variables: which
messages were heard in the present session, and whether a reply to an earlier one has released it.

### SpeechService

`POST /api/v1/tts`: `Arrive` is the limiter with the text check; `Google`, `Edge`, `Post`/`Get`/
`Alternative` (Pollinations), `Discover`/`Submitted`/`Poll`/`Download` (TTS.ai) the providers in the
order they are tried; `Audio` the success of any of them. `Tick` passes time for everything at once,
and not past a fetch that the abort signal has to end. Once `Aborted`, a fetch bound to the signal can
only reject. The Edge client is not bound to it.

`MCVoice` puts the page beside the service (and the two limiters below). A fetch of the page may end in
any way the service answers, so they share no state.

### Providers

`provider` is `hormoz_service_providers` (status, consent to be listed, whether a rate was agreed), `ordering`
the order requests, `placed` what they stored. `Apply` and `ReviewProvider` are one statement each; an
order is `FindProvider` (the SELECT and the checks of the body), `EnsureTable` and `StoreOrder` (the
INSERT), with reviews in between. Orders that name no provider are only in `OrderDesk`.

### RequestLimiter and LoginLockout

`RequestLimiter` is `InMemoryRateLimiter`, which order tracking uses: `OpenWindow`, `FindNoPlace`, `CountUp` and
`Refuse` are the four ways through `check`; an expired window stays in the Map until its key returns or
a full Map is purged. `told` is a history variable: what a refused client was told, and who took a place
since. `LoginLockout` is `loginFailures` of `routes/admin.ts` with logins that await their SELECT
(`pending`); `guesses` is the history of the failures. Both keep an expiry as the ticks that are left.
They are checked in the run of `MCVoice`, the providers in that of `MCSite`. `Tallies` adds up what such a
history (also the speech limiter's) says of the last ticks; it models no code.

## 3. The runs

| Run | Checks | Instance and bounds |
|---|---|---|
| `ledger` (152,371 states) | type invariant; `OneVerifiedEvent`, `NoTransactionPaysTwice`, `AnswersHold`, `EverySuccessAudited`; `ImplementsJournal`; `EveryCallReturns` | 2 payments, 2 keys, 2 provider transactions, pool of 2. Either 2 callers with the inputs: an intent, its retry in another spelling, an id reused under another key, an amount above the limit; a verification, its retry under another event key, another transaction, a wrong amount, a transaction that already paid. Or a crowd of 3 callers, two for one payment and one for the other, which is verified under the same event key. Calls repeat without bound. |
| `accounts` (105,168) | `LockoutHolds`, `DisabledMembersLeave` | 2 members, 2 requests, 3 sessions |
| `orders` (1,043,938) | order desk: `HistoryEndsInStatus`, `AllTrackedBeforeWork`, `TokensAreKept`; payments: `PaymentsAreForStoredOrders` | 2 orders (one of them old), 2 requests. Either the desk alone: 3 sessions of 3 roles, history limit 3 so that `slice` drops entries. Or the desk beside 2 payments: 1 session, at most one change of each order |
| `conversations` (29,135) | `AskedInContext`, `AnswersFollowQuestions`, `NoAnswerAfterClose`; `TranscriptsGrow`; `EveryRequestEnds` | 1 conversation, 2 users, 2 requests, 3 things to say, 2 attempts |
| `team_work` (372,142) | `OneReportPerWork`, `ClosedMonthsPaidInFull`; `SettledReportsStand`, `ClosedPayslipsStand` | 2 members, 2 works, 2 reports, 2 tabs, 2 receipts, 2 months; rewards of nothing, at the limit and above it |
| `voice` (236,386) | type invariant; page: `TurnTaking`, `ClosedStaysClosed`, `SessionsResume`; service: `BurstBound`, `AnsweredInTime`; limiters: `WaitingHelps`, `GuessRate` | 2 messages or replays in flight, 2 chunks; 2 requests of 1 address, quota 2, window, abort and Edge limit of 2 ticks, 2 alternatives, 2 polls, 2 voices; tracking limiter: 4 clients for 2 places, quota 2, windows of 3 ticks; lockout: 3 logins, limit 3, blocks of 3 ticks |
| `site` (697,066) | type invariant; office: `SessionsMatchAccounts`, `QuotesByApprovers`, `GuessesAreBounded`; portal: `CatalogueAsPublished`; visitors: `SessionsAreRecoverable`, `LastCodeWorks`, `MemoriesArePrivate`; uploads: `PersistentUploadsLast`; providers: `OrdersNameOffers` | office: 1 member account per behaviour (an ordinary one, and the one that can be deleted), 2 sessions, 2 calls, 1 order, login limit 1, history limit 2; portal: 2 organizations, 1 service, 2 texts, 2 calls or open pages; visitors: 2 users, 2 sessions, 1 memory, 2 requests; uploads: 1 kind, 2 uploads; providers: 2 providers, 2 order requests |
| `accounts_closed` | violated: `DisablingClosesSessions` | 1 member, 2 requests, 2 sessions |
| `desk_history` | violated: `HistoryKeepsEveryChange` | as `orders` |
| `paid_status` | violated: `SaidPaidOnlyWhenPaid` | as `orders` |
| `team_work_paid` | violated: `PaidRewardsWerePaid` | as `team_work` |
| `catalogue_unread` | violated: `CatalogueIsReviewed` | 1 organization, 1 service, 2 texts, 2 calls or open pages |

The bounds suffice because each hazard needs two actors and one object they fight over: two verifications
of one payment, one transaction for two payments, a login and a disabling, two status changes of one
order, two backfills, two chats of one conversation, a chat and a close, or an approval between a payroll
and its receipt; in the later runs, a reset against a login, two quotes of one order, an edit between the
owner's reading and the publication, two rotations of one code, two uploads of one kind, a reply against
the next session. The abort is reached in `voice` from every stage, and a limiter's window ends between
any two requests. The proofs remove the bounds for all safety properties. No proof does for
`EveryCallReturns`, so its run has the waits themselves: in the crowd there are more callers than
connections, so calls wait for the pool while those that hold a connection wait for a row or for a staged
event key (and, between the two callers, for a claimed transaction). The mutant `HoldingOn`, in which a connection is not released, is
caught only there.

The components of `MCVoice` and of `MCSite` write nothing of one another. A variable (`side`, `part`)
chosen at the start says which of them a behaviour exercises, so a run has the sum of their states and not
the product. In the same way `crowd` chooses in `MCPaymentLedger` between many inputs and many callers,
and `side` in `MCOrderPayments` between the order desk with all its sessions and the desk beside payments.
In the office `part` names the one member that has an account: a login, a review, a purge and a session
are of one member, and what members share (the count of failures, an order's history) two calls of the
same member, or of a member and the owner, fight over just as well.

Requests and tracking tokens are interchangeable in the order desk, and everything is in team work, so
their runs use symmetry (none of them checks liveness). The artificial bounds in actions are on names
of sessions: in `TeamAccounts` a login begins only if one will be left for it (`TokenToSpare`), in
`GlobalOffice` and `Visitors` it waits for one.

Every property of a passing run is paired in `PROJECT.json` with a mutant of the code (marked
`mutant` in the modules: a lock not taken, a unique index missing, a flag set too early, ...) under
which TLC finds it violated.

### What the violated properties say

- `HistoryKeepsEveryChange`: two status changes that overlap lose an entry. The columns still agree
  (`HistoryEndsInStatus` holds), which is why the loss is silent.
- `DisablingClosesSessions`: a login in flight survives the disabling of its account. The session
  ends by `GET /team/me`, logout or expiry: `DisabledMembersLeave` holds.
- `SaidPaidOnlyWhenPaid`: `payment_confirmed` is an ordinary status, and the tracking page words it
  as a payment confirmed by the system.
- `CatalogueIsReviewed`: the owner's button publishes whatever is stored under the id. An edit of a
  submitted service that arrives after the page was loaded goes public unread. What the code does keep is
  `CatalogueAsPublished`: once published, no edit is public before the owner publishes again.
- `PaidRewardsWerePaid`: mark-paid is not told what was paid. A reward approved after the payroll was
  read is recorded as paid and never shown as unpaid again. For closed months this cannot happen
  (`ClosedMonthsPaidInFull`): read, transfer and receipt may then be as far apart as one likes.

### What the properties except

A property that is false as one would first write it, because of what the code does, names the case it
excepts, so that the rest is still checked:

- `EverySuccessAudited` allows one way of losing an audit event: the verification's event key is held by
  another event of the table, and ON CONFLICT DO NOTHING skips the INSERT.
- `CatalogueAsPublished` says nothing of what the owner had read: see `CatalogueIsReviewed` above.
- `LockoutHolds` forbids sessions of locked-out members only: that `GET /team/me` may purge the new session
  of a member who has just been enabled again is no error it knows of.
- `SessionsMatchAccounts` compares the role and the approval. `active` is left out, because a login
  that overlaps a deactivation keeps its session, as `DisablingClosesSessions` shows for the team.
- `QuotesByApprovers` is about who entered what a history holds. Overlapping quotes lose entries as
  overlapping status changes do (`HistoryKeepsEveryChange`).
- `WaitingHelps` is about the room made for clients that were told to come back. That a live window is
  evicted at `maxKeys`, which resets its client's count, is in the model and forbidden by no property.
- `SessionsMatchAccounts` and `QuotesByApprovers` except the one username that can be deleted
  (`hormoztest777`): registered again while its old session lives, it keeps the old role.
- `TurnTaking` excepts a session that was released by a reply to a message of an earlier one
  (`crossed`): `finish` clears `voiceBusy` whichever session is open.
- `LastCodeWorks` excepts users whose rotations overlapped or went unanswered (`clouded`): one code
  works, and the user may hold the other.
- `PersistentUploadsLast` excepts uploads of one kind that overlapped: their writes, renames and
  commits may come in different orders.
- `OrdersNameOffers` says "at some moment while the order was served": a suspension between the SELECT and
  the INSERT does not stop the order.
- `GuessRate` is the tight bound: with one less TLC finds a counterexample. A right password clears the
  count, so the bound is between two of them.
- `BurstBound` is twice the quota, which two adjacent fixed windows can reach.
- `AnsweredInTime` is the abort plus the Edge client's limits (25 s + 21 s): Edge, which is asked
  once, is not bound to the signal, and the 1.2 s of a poll may pass after it.

### Properties that are proved and not in a run

`SubmissionKept` and `OnlyTheDeskWrites` (order desk), `OnlyTheOwnerSpeaks` (conversations) and the type
invariants of the order desk, the conversations, team work and the team accounts say plain things; they
are theorems the stronger ones rest on, and the runs spend no time on them.

### Fairness

- `ledger`: strong fairness of each caller's `Advance` (`FairSpec`, and `MCSpec` with `crowd`). The pool
  hands out connections, and PostgreSQL its row and key locks, in the order they were asked for, so a call
  that can proceed again and again does. No fairness of calls or faults: a fault ends a call, it does not
  delay it.
- `accounts`: weak fairness of serving each request (the event loop and the pool) and of expiry
  (time passes; a session past its four hours is never honoured).
- `conversations`: weak fairness of what the process does by itself for each request (queries,
  timers: `Proceed`), and none of what the provider does: it may never answer, and the abort ends the
  wait.
- `voice`: weak fairness of what the page waits for. The chat fetch is aborted after 40 s, the fetches
  of audio settle, an audio ends or breaks (`SettleTurn`), timers fire (`Restart`, `Retry`), and the
  recognition, which is not continuous, ends by itself (`OnEnd`). No click is owed, and neither is any
  outcome: a reply may always fail. The service's run checks no liveness: `AnsweredInTime` is a bound
  on its clock.
- The other runs check safety only.

## 4. The proofs

Every invariant that a run checks is proved, and every action property. All theorems are for arbitrary
constants satisfying the named assumptions, one per component (`LedgerAssumption`, `DeskAssumption`,
`OfficeAssumption`, ...): disjoint sentinels, inputs of the right type, `Role[Admin] = "admin"`, limits,
windows and pools of at least 1 (a lockout's limit of at least 2: the code's is 5), and finite sets where a
property counts: clients of the limiter, logins and calls that may be in flight. `TestAccount \in Staff`
says that the username which can be deleted is one that can be registered.


**PaymentLedgerProofs.** `TypeCorrect` strengthens the type invariant with `RequestInv`: at which
step a call has which kind of validated request. The inductive invariant `IInv` adds
`RowInv` (a row is settled iff it has a transaction), `LockInv` (a call between the SELECT and the
COMMIT holds its row, which still is what it checked), `ClaimInv` (no two open transactions claim
one provider transaction, and none claims a committed one), `StageInv` and `KeyInv` (what is staged
by whom, and that event keys are unique) `AnswerInv` and `SettledKeyInv` (whatever settled a row was
called with an event key the table now holds). The lock is what makes it inductive: what
`LockRow` saw is still true when `Commit` writes. `OneVerifiedEvent`, `NoTransactionPaysTwice`,
`AnswersHold` and `EverySuccessAudited` follow. `LedgerImplementsJournal` maps a payment's row to a
journal entry; INSERT is `Open`, COMMIT is `Settle`, everything else stutters. `ApartKeysAudited`
adds to `EverySuccessAudited` what callers are to see to: if different payments are verified under
different event keys, and none under the key of an intent's event, every succeeded payment has its event.

**TeamAccountsProofs.** `LockoutIsKept`: a locked-out member has no session *and* no login past its
SELECT, so only an enabling can lead back; each action is checked against the three conjuncts.

**OrderDeskProofs.** The invariant `DeskInv` says what a request in flight holds: a history it has
read, or composed, is a well-kept one, and a composed one ends in the requested status. That makes
`HistoryEndsInStatus` survive lost updates: `Write` replaces both columns together. `BackfillInv`
says that an untracked order is one that every request in the loop has still to visit, for as long
as the flag is unset, however many run the loop. `KeepLastKeeps` is the lemma about `slice(-n)`.

**ConversationsProofs.** A message is stored by an UPDATE that checks nothing, so the invariant says of
every request in flight what its check has established and no other request can undo: `StageInv` (what
it may still append, and that it has passed the owner check), `AskedInv` (once a question is stored,
it stays in the transcript and the engine's context is a prefix of it), `PendingInv` (what has not been
answered yet has no answer anywhere; an answer past its check is to a question asked in time).
`Distinct` keeps requests from interfering, and `LateInv` turns "not closed at the check" into "not
late". Steps that add no message are handled at once (`QuietStep`); `AppendStep` is the rest.

**TeamWorkProofs.** `ReportStep` says all a step may do to a report: insert, decide or mark it. From it
come `ReportsAreSingle`, `ReportsAreFinal` and, with `ClosedStays` (no review can be dated into a
closed month), `ClosedPayslipsAreFinal`. `ReceiptInv` is the inductive invariant of the receipts:
every sheet and receipt of a closed month is `Sound`, it holds all that is still unpaid of that month,
so a marking under it finds nothing else however late it comes.

**OrderPaymentsProofs.** `DeskBesidePayments`: every step of the two is a step of the order desk or
leaves it alone, so what is proved of the desk holds beside the payments (`OrdersSafety`).
`JournalBesideOrders`: the desk calls the ledger only as `PaymentJournal` allows. `PaymentsInv` carries the
answer of the SELECT to the INSERT: what is being opened is for a stored order, and `OrdersStay`, which
needs the desk's own invariant, says that no step un-stores one. `JournalUsesOnce` and `PaidStaysPaid` show
that the journal is a specification worth implementing: from it alone follow that keys and transactions are
used once and that no order's payment is ever taken back.

**SiteProofs.**

- *Office.* `SessionsMatchAccounts` is inductive once two facts are known: approvals of members stand
  (`ApprovalsStand`: reviews are of pending members), and whoever acts in a call or a session was read
  from an approved account (`ActorStep`). `QuotesInv` extends `QuotesByApprovers` to the histories that
  calls have read and will write back. `GuessesAreBounded` is inductive by itself: a login leaves
  `InFlight` when it counts its failure.
- *Portal.* `PublishedInv`: a published service, connected or not, has the text that was stored when the
  owner published it, because a write to it resubmits it in the same statement. Nothing relates that text to
  the one the owner had read.
- *Uploads.* `Kept` says, for each step of an upload that nobody overlapped, where its bytes are: the
  temporary file, then the disk, at last the repository too; `AloneInv` adds that nobody else is at work on
  what lasts.
- *Providers.* An order past its SELECT has seen the provider on offer, whatever the reviews do since.
- *Visitors.* `AccountsInv`: at which step of a registration the user, the credential and the session
  exist. `Owns`: what a request has checked of a memory stays so until its statement, because owners never
  change and what is removed does not come back. `CodesInv`: of the codes stored or on their way to a user
  without overlapping rotations, the current one is the last.
- *Together.* `SiteParts`: no part writes what another reads, so each of the five specifications is
  implemented; `SiteTypes` and `SiteSafety` collect what follows.

**VoiceProofs.**

- *Counting.* The two rate properties are about sums over the last ticks. `Tallies` counts events as a set,
  the n-th of i ticks ago being `<<i, n>>`, so that the sums need no induction: `TallyAdds` is one
  event more, `TallyShrinks` the passing of a tick as an injection, `TallyParts` a split in two.
- *Speech.* `Fits`: a handler is later than the abort only by the time Edge took. `WindowFits`: what the
  current window let through is at most its count and the quota, and what came before it, as far as still in
  sight, is of one earlier window; `BurstBound` is the sum.
- *Login limiter.* `RecordFits` distinguishes no record (all but two of the limit in sight: the first is
  too old, the last never came), a record that counts (its first failure is as old as the record), and a
  block (nothing newer than its refresh, and every pending login may still add one). The bound is the one
  TLC found to be exact.
- *Tracking limiter.* `Reliable`: the client's own window is over when its wait is; if the Map was full, so is
  every window that was there, and if not, there is a place until somebody else takes it. With the bound of
  the Map this gives `WaitingHelps`.
- *Page.* `TurnsTaken`: at most one message holds the turn, it is every one that was heard in this session,
  and while it does the page is busy and the microphone rests. `ReleaseStep` is where the exception
  (`crossed`) is needed: only a reply of this session frees a turn that is its own.
- *Together.* `VoiceSides`, `VoiceTypes` and `VoiceSafety`, as for the site.

**Model-checked only:** liveness (`EveryCallReturns`, `DisabledMembersLeave`, `EveryRequestEnds`,
`SessionsResume`), which needs ENABLED and is out of the prover's reach, and the violated properties.

## 5. Not modelled

- **Marketing leads, finance invoices, feedback, opportunities, statistics, market ads**: each route
  is one statement over one table with nothing kept between statements; a model would restate the SQL.
- **The other rate limiters** (chat, global orders, recovery): windows of the form modelled in
  `SpeechService`; they check and count in one step and interact with nothing.
- **Amounts of global invoices**: fee and share are computed and stored by one handler; what NUMERIC(5,2)
  rounds is a matter of PostgreSQL.
- **Gateway registry and BluePal adapter**: no route uses them yet; what the ledger expects of them is
  in `PaymentLedger`.
- **Session invalidation, disabling of users, session memories**: written, and called by no route.
- **Light actions and the ESP32 transport, the firmware**: one request to a device, with no state in the
  server; the device's own state is not in this repository's reach.
- **Discovery, image generation, health, static pages, the other browser pages**: stateless calls and
  user interface.

What is left of the plan: nothing of the components above. The proofs could still be joined further, the
ledger itself in the place of the journal in `OrderPayments`, which today rests on two theorems
(`LedgerImplementsJournal` and `JournalBesideOrders`) that meet in `PaymentJournal`.
