----------------------------- MODULE OrderPayments -----------------------------
(***************************************************************************)
(* The order desk beside the payment ledger: what an order's status says   *)
(* of its payment, and what the ledger knows.  POST /admin/payments/intents*)
(* finds the order and then awaits createPaymentIntent; the ledger appears *)
(* here as the journal that PaymentLedger implements, one step per call.   *)
(*                                                                         *)
(* markPaymentVerified is exported and no route calls it yet.  Settle      *)
(* stands for the gateway that will: an order can be paid here.            *)
(***************************************************************************)
EXTENDS OrderDesk, Integers

CONSTANTS
  PaymentIds, Keys,
  MaxAmount,      \* the limit of the amount, in toman
  Inputs,         \* [order, key, amount, provider]: what the route is called with
  PaymentOf,      \* `pay_${sha256(idempotencyKey)}`
  Provider,       \* "unconfigured"
  Transactions,
  PaidStatus,     \* payment_confirmed
  NoEntry, NoTransaction, NoIntent

Details == [order: Orders, key: Keys, amount: 1..MaxAmount, provider: {Provider}]

ASSUME PaymentsAssumption ==
  /\ PaymentOf \in [Keys -> PaymentIds]
  /\ PaidStatus \in OrderStatuses
  /\ MaxAmount \in Nat
  /\ Inputs \subseteq [order: Orders, key: Keys, amount: Int, provider: {Provider}]
  /\ NoIntent \notin Inputs \cup Details

VARIABLES
  journal,    \* the ledger
  intent,     \* the payment record each request of the order desk asks for
  opening     \* requests past the order check, awaiting createPaymentIntent

Journal == INSTANCE PaymentJournal

payVars == <<vars, journal, intent, opening>>

PaymentsTypeOK ==
  /\ Journal!JournalType
  /\ intent \in [Requests -> Details \cup {NoIntent}]
  /\ opening \subseteq Details

PaymentsInit ==
  /\ Init
  /\ Journal!Init
  /\ intent = [q \in Requests |-> NoIntent]
  /\ opening = {}

-----------------------------------------------------------------------------
ValidAmount(a) == a \in 1..MaxAmount

CallIntent(q, d) ==
  /\ ValidAmount(d.amount)
  /\ \E s \in live : Role[Owner[s]] = "admin"
  /\ CallFind(q)
  /\ intent' = [intent EXCEPT ![q] = d]
  /\ UNCHANGED <<journal, opening>>

FoundAny(d) == TRUE    \* mutant: no 404 for an order that is not stored
Found(d) == d.order \in Stored

\* SELECT id FROM hormoz_service_orders.
FindOrder(q) ==
  /\ intent[q] # NoIntent
  /\ step[q] = "find"
  /\ Leave(q)
  /\ \/ Found(intent[q]) /\ opening' = opening \cup {intent[q]}
     \/ UNCHANGED opening
  /\ intent' = [intent EXCEPT ![q] = NoIntent]
  /\ UNCHANGED <<table, journal>>

\* createPaymentIntent inserts the row, finds the same one, or throws.
OpenPayment(d) ==
  /\ opening' = opening \ {d}
  /\ \/ Journal!Open(PaymentOf[d.key], d)
     \/ UNCHANGED journal
  /\ UNCHANGED <<vars, intent>>

SettlePayment ==
  /\ \E p \in PaymentIds, t \in Transactions : Journal!Settle(p, t)
  /\ UNCHANGED <<vars, intent, opening>>

\* Any other step of the order desk; a request that ended asks for nothing.
DeskStep ==
  /\ \/ \E q \in Requests :
          \/ Call(q)
          \/ ~(intent[q] # NoIntent /\ step[q] = "find") /\ Serve(q)
     \/ \E s \in Sessions : SessionEnds(s) \/ SessionOpens(s)
  /\ intent' = [q \in Requests |-> IF step'[q] = "idle" THEN NoIntent ELSE intent[q]]
  /\ UNCHANGED <<journal, opening>>

RestartAll ==
  /\ Restart
  /\ intent' = [q \in Requests |-> NoIntent]
  /\ opening' = {}
  /\ UNCHANGED journal

PaymentsNext ==
  \/ \E q \in Requests, d \in Inputs : CallIntent(q, d)
  \/ \E q \in Requests : FindOrder(q)
  \/ \E d \in opening : OpenPayment(d)
  \/ SettlePayment
  \/ DeskStep
  \/ RestartAll

PaymentsSpec == PaymentsInit /\ [][PaymentsNext]_payVars

-----------------------------------------------------------------------------
(* Properties *)

\* The order is looked up before the payment is recorded, in another
\* statement: still every payment of the ledger is for an order that exists.
PaymentsAreForStoredOrders ==
  \A p \in Journal!Opened : journal[p].details.order \in Stored

Paid(o) == \E p \in Journal!Opened : /\ journal[p].details.order = o
                                     /\ journal[p].paidBy # NoTransaction

\* safeMessages: what the tracking page says of payment_confirmed is "the
\* payment has been confirmed by the system".
SaidPaid(o) == orders[o].status = PaidStatus

\* docs/team-orders-accountability.md:22: "The system must never describe an
\* order as paid merely because someone changed a general order status."
SaidPaidOnlyWhenPaid == \A o \in Stored : SaidPaid(o) => Paid(o)

=============================================================================
