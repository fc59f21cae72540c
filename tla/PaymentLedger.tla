---------------------------- MODULE PaymentLedger ----------------------------
(***************************************************************************)
(* payments/ledger.ts: createPaymentIntent and markPaymentVerified, run by *)
(* any number of concurrent callers of one Node process over a PostgreSQL  *)
(* pool.  Every `await` of a query is a point where other callers run, so  *)
(* a call is a sequence of steps; what one SQL statement does is atomic.   *)
(*                                                                         *)
(* createPaymentIntent has no transaction: its two INSERTs are two         *)
(* autocommit statements.  markPaymentVerified holds one connection and    *)
(* the row lock of SELECT ... FOR UPDATE from its BEGIN to its COMMIT or   *)
(* ROLLBACK; what it wrote is invisible until COMMIT, but the unique       *)
(* indexes already make other writers of the same keys wait for it.        *)
(* A query may fail, its answer may be lost after it took effect, and the  *)
(* process may crash between any two steps (PostgreSQL then rolls the open *)
(* transactions back).                                                     *)
(***************************************************************************)
EXTENDS Integers, FiniteSets

CONSTANTS
  Callers,         \* concurrent calls the server is executing
  PaymentIds,      \* non-blank payment ids
  Orders, Keys,    \* non-blank order ids and idempotency keys
  Providers,       \* non-blank provider names, as callers spell them
  Canonical,       \* name.trim().toLowerCase()
  Transactions,    \* non-blank provider transaction ids
  EventKeys,       \* values of hormoz_payment_events.event_key
  IntentEvent,     \* `intent:${idempotencyKey}`
  Intents,         \* inputs createPaymentIntent is called with
  Verifications,   \* inputs markPaymentVerified is called with
  MaxAmount,       \* the limit of validatePaymentAmount
  PoolSize,        \* max connections of the pg Pool
  Blank,           \* a string that is empty once trimmed
  NoRow, NoTransaction, NoCaller, NoRequest

IntentInput == [id: PaymentIds \cup {Blank}, key: Keys \cup {Blank}, amount: Int,
                order: Orders \cup {Blank}, provider: Providers \cup {Blank}]

VerificationInput == [id: PaymentIds, amount: Int, provider: Providers,
                      transaction: Transactions \cup {Blank},
                      eventKey: EventKeys \cup {Blank}]

Details == [key: Keys, amount: 1..MaxAmount, order: Orders, provider: Providers]

Status == {"created", "pending", "succeeded", "failed", "cancelled"}

Row == [transaction: Transactions \cup {NoTransaction}, details: Details, status: Status]

Event == [key: EventKeys, payment: PaymentIds, type: {"intent_created", "payment_verified"}]

ASSUME LedgerAssumption ==
  /\ Intents \subseteq IntentInput
  /\ Verifications \subseteq VerificationInput
  /\ Canonical \in [Providers -> Providers]
  /\ IntentEvent \in [Keys -> EventKeys]
  /\ MaxAmount \in Nat
  /\ PoolSize \in Nat \ {0}
  /\ NoRow \notin Row \cup [details: Details, paidBy: Transactions \cup {NoTransaction}]
  /\ NoTransaction \notin Transactions
  /\ NoCaller \notin Callers
  /\ NoRequest \notin Intents \cup Verifications
  /\ Intents \cap Verifications = {}
  /\ Blank \notin PaymentIds \cup Orders \cup Keys \cup Transactions \cup EventKeys

VARIABLES
  payments,   \* hormoz_payment_transactions, by id
  events,     \* hormoz_payment_events, committed
  step,       \* where each call stands
  request,    \* the input of each call
  rowLock,    \* which call holds a payment row FOR UPDATE
  staged      \* events a transaction has inserted and not committed

db   == <<payments, events>>
txn  == <<rowLock, staged>>
vars == <<payments, events, step, request, rowLock, staged>>

Resting    == {"idle", "done", "failed"}
CreateStep == {"insert", "logIntent", "intentSent", "recover"}
TxnStep    == {"lock", "update", "logVerified", "commit", "confirm", "rollback"}
Steps      == Resting \cup CreateStep \cup {"connect"} \cup TxnStep

TypeOK ==
  /\ payments \in [PaymentIds -> Row \cup {NoRow}]
  /\ events \subseteq Event
  /\ step \in [Callers -> Steps]
  /\ request \in [Callers -> Intents \cup Verifications \cup {NoRequest}]
  /\ rowLock \in [PaymentIds -> Callers \cup {NoCaller}]
  /\ staged \in [Callers -> SUBSET Event]

Init ==
  /\ payments = [p \in PaymentIds |-> NoRow]
  /\ events = {}
  /\ step = [c \in Callers |-> "idle"]
  /\ request = [c \in Callers |-> NoRequest]
  /\ rowLock = [p \in PaymentIds |-> NoCaller]
  /\ staged = [c \in Callers |-> {}]

-----------------------------------------------------------------------------
Recorded == {p \in PaymentIds : payments[p] # NoRow}

\* mutant: client.release() is left out of markPaymentVerified
HoldingOn == {c \in Callers : \/ step[c] \in TxnStep \cup {"intentSent"}
                              \/ request[c] \in Verifications /\ step[c] # "connect"}

\* Calls that keep a connection from one step to the next: a transaction does,
\* and so does the INSERT of an event while it waits for a lock.
Holding == {c \in Callers : step[c] \in TxnStep \cup {"intentSent"}}

\* pool.query and pool.connect wait until one of the pool's connections is free.
ConnectionFree == Cardinality(Holding) < PoolSize

Goto(c, s) == step' = [step EXCEPT ![c] = s]

ValidAmountUnbounded(a) == a > 0    \* mutant: no upper limit
ValidAmount(a) == a \in 1..MaxAmount

DetailsOf(r) == [order |-> r.order, provider |-> Canonical[r.provider],
                 amount |-> r.amount, key |-> r.key]

NewRow(r) == [details |-> DetailsOf(r), status |-> "created", transaction |-> NoTransaction]

KeyUnseen(k) == FALSE    \* mutant: no unique index on idempotency_key
KeyInUse(k) == \E p \in Recorded : payments[p].details.key = k

EventKeyTaken(k)  == \E e \in events : e.key = k
EventKeyStaged(k) == \E c \in Callers : \E e \in staged[c] : e.key = k

-----------------------------------------------------------------------------
(* createPaymentIntent *)

ValidIntent(r) == ValidAmount(r.amount) /\ Blank \notin {r.id, r.order, r.provider, r.key}

\* Arguments are checked before anything is awaited; a bad one throws.
CallCreate(c, r) ==
  /\ step[c] \in Resting
  /\ request' = [request EXCEPT ![c] = r]
  /\ Goto(c, IF ValidIntent(r) THEN "insert" ELSE "failed")
  /\ UNCHANGED <<db, txn>>

\* INSERT ... ON CONFLICT (idempotency_key) DO NOTHING RETURNING *.  Another
\* payment under the same id is not the arbiter's conflict and raises an error.
InsertIntent(c) ==
  LET r == request[c] IN
  /\ step[c] = "insert"
  /\ ConnectionFree
  /\ \/ /\ KeyInUse(r.key)
        /\ Goto(c, "recover")
        /\ UNCHANGED payments
     \/ /\ ~KeyInUse(r.key)
        /\ r.id \in Recorded
        /\ Goto(c, "failed")
        /\ UNCHANGED payments
     \/ /\ ~KeyInUse(r.key)
        /\ r.id \notin Recorded
        /\ payments' = [payments EXCEPT ![r.id] = NewRow(r)]
        /\ \E s \in {"logIntent", "failed"} : Goto(c, s)
  /\ UNCHANGED <<events, request, txn>>

\* The separate INSERT of the intent_created event takes a connection.
SendIntentEvent(c) ==
  /\ step[c] = "logIntent"
  /\ ConnectionFree
  /\ Goto(c, "intentSent")
  /\ UNCHANGED <<db, request, txn>>

\* Its foreign key needs the payment row, so it waits, with its connection,
\* while a verification holds that row FOR UPDATE.
LogIntent(c) ==
  LET r == request[c] IN
  /\ step[c] = "intentSent"
  /\ rowLock[r.id] = NoCaller
  /\ ~EventKeyStaged(IntentEvent[r.key])
  /\ events' = IF EventKeyTaken(IntentEvent[r.key]) THEN events
               ELSE events \cup {[payment |-> r.id, type |-> "intent_created",
                                  key |-> IntentEvent[r.key]]}
  /\ \E s \in {"done", "failed"} : Goto(c, s)
  /\ UNCHANGED <<payments, request, txn>>

SameKeyOnly(r) == r.id \in Recorded    \* mutant: details are not compared
SameIntent(r)  == r.id \in Recorded /\ payments[r.id].details = DetailsOf(r)

\* SELECT by key after a conflict: the original is returned only if the id and
\* all its details are the caller's.
Recover(c) ==
  LET r == request[c] IN
  /\ step[c] = "recover"
  /\ ConnectionFree
  /\ Goto(c, IF SameIntent(r) THEN "done" ELSE "failed")
  /\ UNCHANGED <<db, request, txn>>

\* A rejected query of createPaymentIntent, without effect on the database, or
\* a pool.connect that fails before the try block of markPaymentVerified.
QueryFails(c) ==
  /\ step[c] \in CreateStep \cup {"connect"}
  /\ Goto(c, "failed")
  /\ UNCHANGED <<db, request, txn>>

-----------------------------------------------------------------------------
(* markPaymentVerified *)

ValidVerification(v) == ValidAmount(v.amount) /\ Blank \notin {v.transaction, v.eventKey}

CallVerify(c, v) ==
  /\ step[c] \in Resting
  /\ request' = [request EXCEPT ![c] = v]
  /\ Goto(c, IF ValidVerification(v) THEN "connect" ELSE "failed")
  /\ UNCHANGED <<db, txn>>

\* pool.connect() and BEGIN.
Connect(c) ==
  /\ step[c] = "connect"
  /\ ConnectionFree
  /\ Goto(c, "lock")
  /\ UNCHANGED <<db, request, txn>>

\* The checks on the locked row; a mismatch throws inside the transaction.
Matches(row, v) ==
  /\ row.details.provider = Canonical[v.provider]
  /\ row.details.amount = v.amount
  /\ row.transaction \in {NoTransaction, v.transaction}
  /\ row.status \notin {"failed", "cancelled"}

AlreadySettled(row, v) == row.status = "succeeded" /\ row.transaction = v.transaction

RowReadUnlocked(p) == TRUE    \* mutant: SELECT without FOR UPDATE
RowFree(p) == rowLock[p] = NoCaller

\* SELECT ... FOR UPDATE returns the latest committed row once no one holds it.
LockRow(c) ==
  LET v == request[c]
      row == payments[v.id] IN
  /\ step[c] = "lock"
  /\ \/ /\ v.id \notin Recorded
        /\ Goto(c, "rollback")
        /\ UNCHANGED rowLock
     \/ /\ v.id \in Recorded
        /\ RowFree(v.id)
        /\ rowLock' = [rowLock EXCEPT ![v.id] = c]
        /\ Goto(c, IF ~Matches(row, v) THEN "rollback"
                   ELSE IF row.status # "succeeded" THEN "update"
                   ELSE IF AlreadySettled(row, v) THEN "confirm" ELSE "rollback")
  /\ UNCHANGED <<db, request, staged>>

\* Calls whose transaction has updated its payment row and not yet ended.
Updated == {c \in Callers : step[c] \in {"logVerified", "commit"}}

ClaimIgnored(v) == {}    \* mutant: no UNIQUE (provider, provider_transaction_id)

\* Who else, committed or about to be, has the provider transaction of v.
ClaimedBy(v) == {p \in Recorded : /\ payments[p].details.provider = Canonical[v.provider]
                                  /\ payments[p].transaction = v.transaction}
BeingClaimed(v) == \E d \in Updated :
                     /\ request[d].transaction = v.transaction
                     /\ Canonical[request[d].provider] = Canonical[v.provider]

\* UPDATE to succeeded: waits for an open transaction that is writing the same
\* UNIQUE (provider, provider_transaction_id), and fails if one is committed.
UpdateRow(c) ==
  LET v == request[c] IN
  /\ step[c] = "update"
  /\ ~BeingClaimed(v)
  /\ Goto(c, IF ClaimedBy(v) \subseteq {v.id} THEN "logVerified" ELSE "rollback")
  /\ UNCHANGED <<db, request, txn>>

\* mutant: the event is logged under the key of the intent's event
EventUnderIntentKey(v) == [payment |-> v.id, type |-> "payment_verified",
                           key |-> IntentEvent[payments[v.id].details.key]]
VerifiedEvent(v) == [payment |-> v.id, type |-> "payment_verified", key |-> v.eventKey]

\* INSERT of the payment_verified event ON CONFLICT (event_key) DO NOTHING.
LogVerified(c) ==
  LET e == VerifiedEvent(request[c]) IN
  /\ step[c] = "logVerified"
  /\ ~EventKeyStaged(e.key)
  /\ staged' = [staged EXCEPT ![c] = IF EventKeyTaken(e.key) THEN {} ELSE {e}]
  /\ Goto(c, "commit")
  /\ UNCHANGED <<db, request, rowLock>>

Unlock(c) == rowLock' = [p \in PaymentIds |-> IF rowLock[p] = c THEN NoCaller ELSE rowLock[p]]

\* COMMIT of the update and its event.  If its answer is lost the catch block
\* still sends ROLLBACK and the caller sees an error.
Commit(c) ==
  LET v == request[c] IN
  /\ step[c] = "commit"
  /\ payments' = [payments EXCEPT ![v.id].status = "succeeded",
                                  ![v.id].transaction = v.transaction]
  /\ events' = events \cup staged[c]
  /\ staged' = [staged EXCEPT ![c] = {}]
  /\ Unlock(c)
  /\ \E s \in {"done", "rollback"} : Goto(c, s)
  /\ UNCHANGED request

\* COMMIT of a repeated verification, which wrote nothing.
Confirm(c) ==
  /\ step[c] = "confirm"
  /\ Unlock(c)
  /\ \E s \in {"done", "rollback"} : Goto(c, s)
  /\ UNCHANGED <<db, request, staged>>

\* Any query of the transaction may fail; the catch block rolls back.
TxnFails(c) ==
  /\ step[c] \in TxnStep \ {"rollback"}
  /\ Goto(c, "rollback")
  /\ UNCHANGED <<db, request, txn>>

Rollback(c) ==
  /\ step[c] = "rollback"
  /\ Unlock(c)
  /\ staged' = [staged EXCEPT ![c] = {}]
  /\ Goto(c, "failed")
  /\ UNCHANGED <<db, request>>

-----------------------------------------------------------------------------
\* The process dies: its calls are gone and its transactions are rolled back.
Crash ==
  /\ \E c \in Callers : step[c] # "idle"
  /\ step' = [c \in Callers |-> "idle"]
  /\ request' = [c \in Callers |-> NoRequest]
  /\ rowLock' = [p \in PaymentIds |-> NoCaller]
  /\ staged' = [c \in Callers |-> {}]
  /\ UNCHANGED db

Call(c) ==
  \/ \E r \in Intents : CallCreate(c, r)
  \/ \E v \in Verifications : CallVerify(c, v)

Advance(c) ==
  \/ InsertIntent(c) \/ SendIntentEvent(c) \/ LogIntent(c) \/ Recover(c)
  \/ Connect(c) \/ LockRow(c) \/ UpdateRow(c) \/ LogVerified(c)
  \/ Commit(c) \/ Confirm(c) \/ Rollback(c)

Fault(c) == QueryFails(c) \/ TxnFails(c)

Next ==
  \/ \E c \in Callers : Call(c) \/ Advance(c) \/ Fault(c)
  \/ Crash

Spec == Init /\ [][Next]_vars

\* The pool hands out connections, and PostgreSQL row and key locks, in the
\* order they were asked for, so a call that can advance again and again does.
FairSpec == Spec /\ \A c \in Callers : SF_vars(Advance(c))

-----------------------------------------------------------------------------
(* Properties *)

Succeeded == {p \in Recorded : payments[p].status = "succeeded"}

VerifiedEvents(p) == {e \in events : e.payment = p /\ e.type = "payment_verified"}

\* "Repeated successful verification is safe and does not create duplicate
\* events" (markPaymentVerified): however many verifications of a payment run
\* at once, under whatever event keys, and are retried after lost commits and
\* crashes, the audit table holds at most one payment_verified event for it,
\* and none for a payment that is not succeeded.
OneVerifiedEvent ==
  \A e, f \in events :
    e.type = "payment_verified" =>
      /\ e.payment \in Succeeded
      /\ f.type = "payment_verified" /\ f.payment = e.payment => f = e

\* One provider transaction never pays for two payments: two payments of one
\* provider are never settled by the same provider transaction id.
NoTransactionPaysTwice ==
  \A p, q \in Succeeded :
    /\ payments[p].transaction = payments[q].transaction
    /\ payments[p].details.provider = payments[q].details.provider
    => p = q

\* A call that returned without throwing told its caller the truth, and goes
\* on telling it whatever other calls, retries and crashes do afterwards: the
\* intent is recorded with exactly the caller's details; the verified payment
\* is succeeded with the caller's provider, amount and transaction id.
AnswersHold ==
  \A c \in Callers :
    step[c] = "done" =>
      LET r == request[c] IN
      /\ r.id \in Recorded
      /\ r \in Intents => payments[r.id].details = DetailsOf(r)
      /\ r \in Verifications =>
           /\ r.id \in Succeeded
           /\ payments[r.id].transaction = r.transaction
           /\ payments[r.id].details.provider = Canonical[r.provider]
           /\ payments[r.id].details.amount = r.amount

\* The audit table explains every succeeded payment: it has its own
\* payment_verified event, or the verification that settled it was called with
\* an event key that another event of the table holds (ON CONFLICT DO NOTHING
\* then skips the event silently, and nothing else may lose it).
KeyHeldElsewhere(p) ==
  \E v \in Verifications, e \in events :
    /\ v.id = p /\ v.transaction = payments[p].transaction
    /\ e.key = v.eventKey
    /\ e \notin VerifiedEvents(p)

EverySuccessAudited ==
  \A p \in Succeeded : VerifiedEvents(p) # {} \/ KeyHeldElsewhere(p)

\* Every call ends, in an answer or an error (or with the process): no order
\* of row locks, unique-key waits and pool connections leaves calls waiting
\* for each other for ever.
EveryCallReturns == \A c \in Callers : step[c] \notin Resting ~> step[c] \in Resting

\* The ledger implements the journal, each COMMIT and each INSERT of a payment
\* being one step of it and everything else a stutter.
Journal == INSTANCE PaymentJournal WITH
  NoEntry <- NoRow,
  journal <- [p \in PaymentIds |->
                IF payments[p] = NoRow THEN NoRow
                ELSE [details |-> payments[p].details, paidBy |-> payments[p].transaction]]

ImplementsJournal == Journal!Spec

=============================================================================
