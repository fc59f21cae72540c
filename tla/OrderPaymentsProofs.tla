-------------------------- MODULE OrderPaymentsProofs --------------------------
(***************************************************************************)
(* Proofs about the order desk beside the payment ledger: neither disturbs *)
(* the other, so what is proved of each alone holds of the two together;   *)
(* and a payment is opened for stored orders only, because an order, once  *)
(* it was found, is never deleted while the payment is being opened.       *)
(***************************************************************************)
EXTENDS OrderPayments, OrderDeskProofs

-----------------------------------------------------------------------------
(* The parts *)

\* Every step of the two is one of the order desk alone, or none.
LEMMA StepsOfTheDesk == [PaymentsNext]_payVars => [Next]_vars
<1> SUFFICES ASSUME [PaymentsNext]_payVars PROVE [Next]_vars
  OBVIOUS
<1>1. ASSUME NEW q \in Requests, NEW d \in Inputs, CallIntent(q, d) PROVE [Next]_vars
  BY <1>1 DEF CallIntent, Next, Call
<1>2. ASSUME NEW q \in Requests, FindOrder(q) PROVE [Next]_vars
  <2>1. Find(q)
    BY <1>2 DEF FindOrder, Find
  <2> QED BY <2>1 DEF Next, Serve
<1>3. ASSUME NEW d \in opening, OpenPayment(d) PROVE [Next]_vars
  BY <1>3 DEF OpenPayment
<1>4. CASE SettlePayment
  BY <1>4 DEF SettlePayment
<1>5. CASE DeskStep
  BY <1>5 DEF DeskStep, Next
<1>6. CASE RestartAll
  BY <1>6 DEF RestartAll, Next
<1>7. CASE UNCHANGED payVars
  BY <1>7 DEF payVars
<1> QED BY <1>1, <1>2, <1>3, <1>4, <1>5, <1>6, <1>7 DEF PaymentsNext

\* Payments do not disturb the order desk: what its theorems say of it alone
\* (the history of an order, its tokens, who may write) holds beside them.
THEOREM DeskBesidePayments == PaymentsSpec => Spec
<1>1. PaymentsInit => Init
  BY DEF PaymentsInit
<1> QED BY <1>1, StepsOfTheDesk, PTL DEF PaymentsSpec, Spec

-----------------------------------------------------------------------------
(* The invariant *)

\* An order is looked up before its payment is opened, and found.
OpeningInv == \A d \in opening : d.order \in Stored

PaymentsInv == PaymentsTypeOK /\ OpeningInv /\ PaymentsAreForStoredOrders

\* No step of the two deletes an order.
LEMMA OrdersStay == DeskInv /\ [PaymentsNext]_payVars => Stored \subseteq Stored'
<1> SUFFICES ASSUME DeskInv, [PaymentsNext]_payVars PROVE Stored \subseteq Stored'
  OBVIOUS
<1>1. [Next]_vars
  BY StepsOfTheDesk
<1>2. ASSUME NEW q \in Requests, Serve(q) PROVE Stored \subseteq Stored'
  BY <1>2, StoredGrows DEF DeskInv
<1>3. ASSUME UNCHANGED table PROVE Stored \subseteq Stored'
  BY <1>3 DEF table, Stored
<1>4. ASSUME NEW q \in Requests, Call(q) PROVE UNCHANGED table
  BY <1>4 DEF Call, CallSubmit, CallFind, CallChange, Enter
<1>5. ASSUME NEW s \in Sessions, SessionEnds(s) \/ SessionOpens(s) PROVE UNCHANGED table
  BY <1>5 DEF SessionEnds, SessionOpens
<1>6. Restart => UNCHANGED table
  BY DEF Restart
<1>7. UNCHANGED vars => UNCHANGED table
  BY DEF vars, table
<1> QED BY <1>1, <1>2, <1>3, <1>4, <1>5, <1>6, <1>7 DEF Next

\* A payment is in the ledger with the details it was opened with.
LEMMA OpenEffect ==
  ASSUME PaymentsTypeOK, NEW p \in PaymentIds, NEW d \in Details, Journal!Open(p, d)
  PROVE  /\ Journal!JournalType'
         /\ \A r \in Journal!Opened' :
              IF r = p THEN journal'[r].details = d
              ELSE r \in Journal!Opened /\ journal'[r].details = journal[r].details
<1> DEFINE e == [details |-> d, paidBy |-> NoTransaction]
<1>1. e \in Journal!Entry /\ e.details = d
  BY DEF Journal!Entry
<1>2. journal' = [journal EXCEPT ![p] = e]
  BY DEF Journal!Open
<1> HIDE DEF e
<1>3. journal \in [PaymentIds -> Journal!Entry \cup {NoEntry}]
  BY DEF PaymentsTypeOK, Journal!JournalType
<1>4. journal'[p] = e /\ \A r \in PaymentIds : r # p => journal'[r] = journal[r]
  BY <1>2, <1>3
<1>5. Journal!JournalType'
  BY <1>1, <1>2, <1>3 DEF Journal!JournalType
<1> QED BY <1>1, <1>4, <1>5 DEF Journal!Opened

\* A payment is settled with the details it was opened with.
LEMMA SettleEffect ==
  ASSUME PaymentsTypeOK, NEW p \in PaymentIds, NEW t \in Transactions, Journal!Settle(p, t)
  PROVE  /\ Journal!JournalType'
         /\ \A r \in Journal!Opened' :
              r \in Journal!Opened /\ journal'[r].details = journal[r].details
<1>1. journal \in [PaymentIds -> Journal!Entry \cup {NoEntry}] /\ journal[p] \in Journal!Entry
  BY DEF PaymentsTypeOK, Journal!JournalType, Journal!Settle, Journal!Opened
<1>2. journal'[p] = [journal[p] EXCEPT !.paidBy = t] /\ \A r \in PaymentIds : r # p => journal'[r] = journal[r]
  BY <1>1 DEF Journal!Settle
<1>3. journal'[p] \in Journal!Entry /\ journal'[p].details = journal[p].details
  BY <1>1, <1>2 DEF Journal!Entry
<1>4. journal' \in [PaymentIds -> Journal!Entry \cup {NoEntry}]
  BY <1>1, <1>3 DEF Journal!Settle
<1>5. p \in Journal!Opened
  BY DEF Journal!Settle
<1> QED BY <1>2, <1>3, <1>4, <1>5 DEF Journal!JournalType, Journal!Opened

\* Every step preserves the invariant, as the order desk keeps its own.
LEMMA PaymentsStep == DeskInv /\ PaymentsInv /\ [PaymentsNext]_payVars => PaymentsInv'
<1> SUFFICES ASSUME DeskInv, PaymentsInv, [PaymentsNext]_payVars PROVE PaymentsInv'
  OBVIOUS
<1>1. /\ Journal!JournalType /\ intent \in [Requests -> Details \cup {NoIntent}]
      /\ opening \subseteq Details /\ OpeningInv /\ PaymentsAreForStoredOrders /\ PaymentsTypeOK
      /\ Stored \subseteq Stored'
  BY OrdersStay DEF PaymentsInv, PaymentsTypeOK
<1>2. ASSUME UNCHANGED journal PROVE Journal!JournalType' /\ PaymentsAreForStoredOrders'
  BY <1>1, <1>2 DEF Journal!JournalType, Journal!Opened, Journal!Entry, PaymentsAreForStoredOrders
<1>3. ASSUME opening' \subseteq opening PROVE OpeningInv' /\ opening' \subseteq Details
  BY <1>1, <1>3 DEF OpeningInv
<1>4. ASSUME NEW q \in Requests, NEW d \in Inputs, CallIntent(q, d) PROVE PaymentsInv'
  <2>1. d \in Details
    BY <1>4, PaymentsAssumption DEF CallIntent, ValidAmount, Details
  <2>2. intent' \in [Requests -> Details \cup {NoIntent}] /\ UNCHANGED <<journal, opening>>
    BY <1>1, <1>4, <2>1 DEF CallIntent
  <2> QED BY <1>2, <1>3, <2>2 DEF PaymentsInv, PaymentsTypeOK
<1>5. ASSUME NEW q \in Requests, FindOrder(q) PROVE PaymentsInv'
  <2>1. intent' \in [Requests -> Details \cup {NoIntent}] /\ UNCHANGED journal /\ intent[q] \in Details
    BY <1>1, <1>5 DEF FindOrder
  <2>2. OpeningInv' /\ opening' \subseteq Details
    <3>1. CASE UNCHANGED opening
      BY <1>3, <3>1
    <3>2. CASE Found(intent[q]) /\ opening' = opening \cup {intent[q]}
      BY <1>1, <2>1, <3>2 DEF Found, OpeningInv
    <3> QED BY <1>5, <3>1, <3>2 DEF FindOrder
  <2> QED BY <1>2, <2>1, <2>2 DEF PaymentsInv, PaymentsTypeOK
<1>6. ASSUME NEW d \in opening, OpenPayment(d) PROVE PaymentsInv'
  <2>1. UNCHANGED intent /\ opening' \subseteq opening /\ d \in Details /\ d.order \in Stored
    BY <1>1, <1>6 DEF OpenPayment, OpeningInv
  <2>2. Journal!JournalType' /\ PaymentsAreForStoredOrders'
    <3>1. CASE UNCHANGED journal
      BY <1>2, <3>1
    <3>2. CASE Journal!Open(PaymentOf[d.key], d)
      <4>1. PaymentOf[d.key] \in PaymentIds
        BY <2>1, PaymentsAssumption DEF Details
      <4>2. Journal!JournalType'
        BY <1>1, <2>1, <3>2, <4>1, OpenEffect
      <4>3. ASSUME NEW r \in Journal!Opened' PROVE journal'[r].details.order \in Stored
        <5>1. \/ journal'[r].details = d
              \/ r \in Journal!Opened /\ journal'[r].details = journal[r].details
          BY <1>1, <2>1, <3>2, <4>1, OpenEffect
        <5> QED BY <1>1, <2>1, <5>1 DEF PaymentsAreForStoredOrders
      <4> QED BY <1>1, <4>2, <4>3 DEF PaymentsAreForStoredOrders
    <3> QED BY <1>6, <3>1, <3>2 DEF OpenPayment
  <2> QED BY <1>1, <1>3, <2>1, <2>2 DEF PaymentsInv, PaymentsTypeOK
<1>7. CASE SettlePayment
  <2>1. PICK p \in PaymentIds, t \in Transactions : Journal!Settle(p, t)
    BY <1>7 DEF SettlePayment
  <2>2. UNCHANGED <<intent, opening>>
    BY <1>7 DEF SettlePayment
  <2>3. PaymentsAreForStoredOrders'
    BY <1>1, <2>1, SettleEffect DEF PaymentsAreForStoredOrders
  <2> QED BY <1>1, <1>3, <2>1, <2>2, <2>3, SettleEffect DEF PaymentsInv, PaymentsTypeOK
<1>8. CASE DeskStep \/ RestartAll
  <2>1. UNCHANGED journal /\ opening' \subseteq opening
    BY <1>8 DEF DeskStep, RestartAll
  <2>2. intent' \in [Requests -> Details \cup {NoIntent}]
    BY <1>1, <1>8 DEF DeskStep, RestartAll
  <2> QED BY <1>2, <1>3, <2>1, <2>2 DEF PaymentsInv, PaymentsTypeOK
<1>9. CASE UNCHANGED payVars
  BY <1>1, <1>2, <1>3, <1>9 DEF payVars, PaymentsInv, PaymentsTypeOK
<1> QED BY <1>4, <1>5, <1>6, <1>7, <1>8, <1>9 DEF PaymentsNext

\* The ledger, the requests and the payments being opened are well formed.
THEOREM PaymentsInvariant == PaymentsSpec => []PaymentsInv
<1>1. PaymentsInit => PaymentsInv
  <2> SUFFICES ASSUME PaymentsInit PROVE PaymentsInv
    OBVIOUS
  <2>1. journal = [p \in PaymentIds |-> NoEntry] /\ opening = {} /\ intent = [q \in Requests |-> NoIntent]
    BY DEF PaymentsInit, Journal!Init
  <2>2. Journal!Opened = {}
    BY <2>1 DEF Journal!Opened
  <2> QED BY <2>1, <2>2
          DEF PaymentsInv, PaymentsTypeOK, Journal!JournalType, OpeningInv, PaymentsAreForStoredOrders
<1> QED BY <1>1, PaymentsStep, DeskBesidePayments, DeskInvariant, PTL DEF PaymentsSpec

-----------------------------------------------------------------------------
(* What it shows *)

\* PaymentsAreForStoredOrders, of POST /admin/payments/intents: the order is
\* found in one statement and the payment recorded in another, with restarts
\* and every other request in between.
THEOREM StoredOrdersArePaid == PaymentsSpec => []PaymentsAreForStoredOrders
<1>1. PaymentsInv => PaymentsAreForStoredOrders
  BY DEF PaymentsInv
<1> QED BY <1>1, PaymentsInvariant, PTL

\* The order desk uses the ledger only as its journal allows: what was opened
\* keeps its details, and is settled once, whatever the desk does.
THEOREM JournalBesideOrders == PaymentsSpec => Journal!Spec
<1>1. PaymentsInit => Journal!Init
  BY DEF PaymentsInit
<1>2. PaymentsInv /\ [PaymentsNext]_payVars => [Journal!Next]_journal
  <2> SUFFICES ASSUME PaymentsInv, [PaymentsNext]_payVars PROVE [Journal!Next]_journal
    OBVIOUS
  <2>1. ASSUME NEW d \in opening, OpenPayment(d) PROVE [Journal!Next]_journal
    <3>1. d \in Details /\ PaymentOf[d.key] \in PaymentIds
      BY PaymentsAssumption DEF PaymentsInv, PaymentsTypeOK, Details
    <3> QED BY <2>1, <3>1 DEF OpenPayment, Journal!Next
  <2>2. CASE SettlePayment
    BY <2>2 DEF SettlePayment, Journal!Next
  <2>3. ASSUME NEW q \in Requests, NEW d \in Inputs, CallIntent(q, d) PROVE UNCHANGED journal
    BY <2>3 DEF CallIntent
  <2>4. ASSUME NEW q \in Requests, FindOrder(q) PROVE UNCHANGED journal
    BY <2>4 DEF FindOrder
  <2>5. DeskStep \/ RestartAll \/ UNCHANGED payVars => UNCHANGED journal
    BY DEF DeskStep, RestartAll, payVars
  <2> QED BY <2>1, <2>2, <2>3, <2>4, <2>5 DEF PaymentsNext
<1> QED BY <1>1, <1>2, PaymentsInvariant, PTL DEF PaymentsSpec, Journal!Spec


-----------------------------------------------------------------------------
(* What the journal is worth to the order desk *)

\* An idempotency key opens one payment, and a transaction settles one payment
\* of its provider.
UsedOnce ==
  \A p, r \in Journal!Opened :
    /\ journal[p].details.key = journal[r].details.key => p = r
    /\ /\ journal[p].details.provider = journal[r].details.provider
       /\ journal[p].paidBy = journal[r].paidBy
       /\ journal[p].paidBy # NoTransaction
       => p = r

\* The journal promises enough: keys and transactions are used once, whatever
\* the order desk calls it with.
THEOREM JournalUsesOnce == PaymentsSpec => []UsedOnce
<1>1. PaymentsInit => UsedOnce
  BY DEF PaymentsInit, Journal!Init, Journal!Opened, UsedOnce
<1>2. PaymentsInv /\ UsedOnce /\ [Journal!Next]_journal => UsedOnce'
  <2> SUFFICES ASSUME PaymentsInv, UsedOnce, [Journal!Next]_journal PROVE UsedOnce'
    OBVIOUS
  <2>1. journal \in [PaymentIds -> Journal!Entry \cup {NoEntry}]
    BY DEF PaymentsInv, PaymentsTypeOK, Journal!JournalType
  <2>2. ASSUME NEW p \in PaymentIds, NEW d \in Details, Journal!Open(p, d) PROVE UsedOnce'
    <3> DEFINE e == [details |-> d, paidBy |-> NoTransaction]
    <3>1. e.details = d /\ e.paidBy = NoTransaction
      OBVIOUS
    <3>2. journal' = [journal EXCEPT ![p] = e] /\ \A r \in Journal!Opened : journal[r].details.key # d.key
      BY <2>2 DEF Journal!Open
    <3> HIDE DEF e
    <3>3. journal'[p] = e /\ \A r \in PaymentIds : r # p => journal'[r] = journal[r]
      BY <2>1, <3>2
    <3>4. \A r \in Journal!Opened' : r # p => r \in Journal!Opened /\ journal'[r] = journal[r]
      BY <3>3 DEF Journal!Opened
    <3> QED BY <3>1, <3>2, <3>3, <3>4 DEF UsedOnce
  <2>3. ASSUME NEW p \in PaymentIds, NEW t \in Transactions, Journal!Settle(p, t) PROVE UsedOnce'
    <3>1. journal[p] \in Journal!Entry /\ p \in Journal!Opened
      BY <2>1, <2>3 DEF Journal!Settle, Journal!Opened
    <3>2. journal'[p] = [journal[p] EXCEPT !.paidBy = t] /\ \A r \in PaymentIds : r # p => journal'[r] = journal[r]
      BY <2>1, <2>3 DEF Journal!Settle
    <3>3. journal'[p].details = journal[p].details /\ journal'[p].paidBy = t
      BY <3>1, <3>2 DEF Journal!Entry
    <3>4. \A r \in Journal!Opened' : r # p => r \in Journal!Opened /\ journal'[r] = journal[r]
      BY <3>2 DEF Journal!Opened
    <3>5. \A r \in Journal!Opened : journal[r].details.provider = journal[p].details.provider
                                      => journal[r].paidBy # t
      BY <2>3 DEF Journal!Settle
    <3> QED BY <3>1, <3>3, <3>4, <3>5 DEF UsedOnce
  <2>4. UNCHANGED journal => UsedOnce'
    BY DEF UsedOnce, Journal!Opened
  <2> QED BY <2>2, <2>3, <2>4 DEF Journal!Next
<1> QED BY <1>1, <1>2, PaymentsInvariant, JournalBesideOrders, PTL DEF PaymentsSpec, Journal!Spec

\* An order that is paid stays paid: no status change, restart, lost answer or
\* later payment takes that back (Paid of the order, not what its status says).
THEOREM PaidStaysPaid == PaymentsSpec => [][\A o \in Orders : Paid(o) => Paid(o)']_journal
<1> DEFINE Stays == \A o \in Orders : Paid(o) => Paid(o)'
<1>1. PaymentsInv /\ [Journal!Next]_journal => [Stays]_journal
  <2> SUFFICES ASSUME PaymentsInv, Journal!Next, NEW o \in Orders, Paid(o) PROVE Paid(o)'
    OBVIOUS
  <2>1. journal \in [PaymentIds -> Journal!Entry \cup {NoEntry}] /\ PaymentsTypeOK /\ Journal!JournalType'
    BY OpenEffect, SettleEffect DEF PaymentsInv, PaymentsTypeOK, Journal!JournalType, Journal!Next
  <2>2. PICK p \in Journal!Opened : journal[p].details.order = o /\ journal[p].paidBy # NoTransaction
    BY DEF Paid
  <2>3. journal'[p] = journal[p]
    <3>1. ASSUME NEW r \in PaymentIds, NEW d \in Details, Journal!Open(r, d) PROVE journal'[p] = journal[p]
      BY <2>1, <2>2, <3>1 DEF Journal!Open, Journal!Opened
    <3>2. ASSUME NEW r \in PaymentIds, NEW t \in Transactions, Journal!Settle(r, t) PROVE journal'[p] = journal[p]
      BY <2>1, <2>2, <3>2 DEF Journal!Settle, Journal!Opened
    <3> QED BY <3>1, <3>2 DEF Journal!Next
  <2> QED BY <2>2, <2>3 DEF Paid, Journal!Opened
<1>2. PaymentsSpec => [][Stays]_journal
  BY <1>1, PaymentsInvariant, JournalBesideOrders, PTL DEF Journal!Spec
<1> QED BY <1>2

\* The promises of the order desk, beside the payments.
THEOREM OrdersSafety ==
  PaymentsSpec => /\ [](HistoryEndsInStatus /\ AllTrackedBeforeWork)
                  /\ TokensAreKept
                  /\ []PaymentsAreForStoredOrders
BY DeskBesidePayments, StatusAndHistoryAgree, BackfillBeforeWork, TokensStay, StoredOrdersArePaid, PTL

=============================================================================
