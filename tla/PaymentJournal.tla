---------------------------- MODULE PaymentJournal ----------------------------
(***************************************************************************)
(* What the payment ledger promises its callers, with no calls, no         *)
(* connections and no SQL: a journal in which every payment is opened at   *)
(* most once, with details that never change afterwards, and is settled at *)
(* most once, by a provider transaction that settles nothing else.         *)
(* PaymentLedger is shown to implement this module.                        *)
(***************************************************************************)
CONSTANTS PaymentIds,      \* primary keys of payments
          Details,         \* [order, provider, amount, key] records
          Transactions,    \* the provider's transaction ids
          NoEntry,         \* a payment that was never opened
          NoTransaction    \* an opened payment that is not settled yet

VARIABLE journal

Entry == [details: Details, paidBy: Transactions \cup {NoTransaction}]

JournalType == journal \in [PaymentIds -> Entry \cup {NoEntry}]

Opened == {p \in PaymentIds : journal[p] # NoEntry}

Init == journal = [p \in PaymentIds |-> NoEntry]

\* A payment is opened under an idempotency key that no other payment has.
Open(p, d) ==
  /\ journal[p] = NoEntry
  /\ \A q \in Opened : journal[q].details.key # d.key
  /\ journal' = [journal EXCEPT ![p] = [details |-> d, paidBy |-> NoTransaction]]

\* An open payment is settled by a transaction its provider used for no other.
Settle(p, t) ==
  /\ p \in Opened
  /\ journal[p].paidBy = NoTransaction
  /\ \A q \in Opened : journal[q].details.provider = journal[p].details.provider
                         => journal[q].paidBy # t
  /\ journal' = [journal EXCEPT ![p].paidBy = t]

Next ==
  \E p \in PaymentIds :
    \/ \E d \in Details : Open(p, d)
    \/ \E t \in Transactions : Settle(p, t)

Spec == Init /\ [][Next]_journal

=============================================================================
