------------------------- MODULE PaymentLedgerProofs -------------------------
(***************************************************************************)
(* Proofs about PaymentLedger, for any callers, payments, keys and pool:   *)
(* its type invariant, its safety invariants from one inductive invariant, *)
(* and that it implements PaymentJournal.                                  *)
(***************************************************************************)
EXTENDS PaymentLedger, TLAPS

\* What a call's step says of its input.
RequestInv ==
  \A c \in Callers :
    /\ step[c] \in CreateStep => request[c] \in Intents /\ ValidIntent(request[c])
    /\ step[c] \in {"connect"} \cup TxnStep =>
         request[c] \in Verifications /\ ValidVerification(request[c])
    /\ step[c] \in {"update", "logVerified", "commit", "confirm"} =>
         request[c].id \in Recorded

TypeInv == TypeOK /\ RequestInv

\* An intent that passed validation has an id, a key and details of the table.
LEMMA IntentFields ==
  ASSUME NEW r \in Intents, ValidIntent(r)
  PROVE  r.id \in PaymentIds /\ r.key \in Keys /\ DetailsOf(r) \in Details
BY LedgerAssumption DEF ValidIntent, ValidAmount, IntentInput, DetailsOf, Details

\* A verification that passed validation has an id, a transaction and an event.
LEMMA VerificationFields ==
  ASSUME NEW v \in Verifications, ValidVerification(v)
  PROVE  v.id \in PaymentIds /\ v.transaction \in Transactions /\ VerifiedEvent(v) \in Event
BY LedgerAssumption DEF ValidVerification, VerificationInput, VerifiedEvent, Event

\* Every step keeps the types, and a call's step in agreement with its input.
LEMMA TypeStep == TypeInv /\ [Next]_vars => TypeInv'
<1> SUFFICES ASSUME TypeInv, [Next]_vars PROVE TypeInv'
  OBVIOUS
<1> USE DEF TypeInv, TypeOK, RequestInv, Goto, Steps, Resting, CreateStep, TxnStep, db, txn, Recorded
<1>1. ASSUME NEW c \in Callers, Call(c) PROVE TypeInv'
  BY <1>1 DEF Call, CallCreate, CallVerify
<1>2. ASSUME NEW c \in Callers, InsertIntent(c) PROVE TypeInv'
  <2>1. request[c] \in Intents /\ request[c].id \in PaymentIds /\ DetailsOf(request[c]) \in Details
    BY <1>2, IntentFields DEF InsertIntent
  <2>2. NewRow(request[c]) \in Row
    BY <2>1 DEF NewRow, Row, Status
  <2>3. \A p \in PaymentIds : p \in Recorded => p \in Recorded'
    BY <1>2, <2>1, <2>2, LedgerAssumption DEF InsertIntent
  <2> QED BY <1>2, <2>1, <2>2, <2>3 DEF InsertIntent
<1>3. ASSUME NEW c \in Callers, LogIntent(c) PROVE TypeInv'
  <2>1. request[c].id \in PaymentIds /\ IntentEvent[request[c].key] \in EventKeys
    BY <1>3, IntentFields, LedgerAssumption DEF LogIntent
  <2>2. events' \subseteq Event
    BY <1>3, <2>1 DEF LogIntent, Event
  <2> QED BY <1>3, <2>2 DEF LogIntent
<1>4. ASSUME NEW c \in Callers,
             SendIntentEvent(c) \/ Recover(c) \/ Connect(c) \/ UpdateRow(c) \/ Fault(c)
      PROVE TypeInv'
  BY <1>4 DEF SendIntentEvent, Recover, Connect, UpdateRow, Fault, QueryFails, TxnFails
<1>5. ASSUME NEW c \in Callers, LockRow(c) PROVE TypeInv'
  BY <1>5 DEF LockRow
<1>6. ASSUME NEW c \in Callers, LogVerified(c) PROVE TypeInv'
  BY <1>6, VerificationFields DEF LogVerified
<1>7. ASSUME NEW c \in Callers, Commit(c) PROVE TypeInv'
  <2> DEFINE v == request[c]
  <2>1. v.id \in PaymentIds /\ v.transaction \in Transactions /\ payments[v.id] \in Row
    BY <1>7, VerificationFields DEF Commit
  <2>2. [payments[v.id] EXCEPT !.status = "succeeded", !.transaction = v.transaction] \in Row
    BY <2>1 DEF Row, Status
  <2>3. payments' = [payments EXCEPT ![v.id] =
                       [payments[v.id] EXCEPT !.status = "succeeded", !.transaction = v.transaction]]
    BY <1>7, <2>1 DEF Commit, Row
  <2>4. payments' \in [PaymentIds -> Row \cup {NoRow}]
    BY <2>1, <2>2, <2>3
  <2>5. \A p \in PaymentIds : p \in Recorded => p \in Recorded'
    BY <2>1, <2>2, <2>3, LedgerAssumption
  <2> QED BY <1>7, <2>4, <2>5 DEF Commit, Unlock
<1>8. ASSUME NEW c \in Callers, Confirm(c) \/ Rollback(c) PROVE TypeInv'
  BY <1>8 DEF Confirm, Rollback, Unlock
<1>9. CASE Crash
  BY <1>9 DEF Crash
<1>10. CASE UNCHANGED vars
  BY <1>10 DEF vars
<1> QED
  BY <1>1, <1>2, <1>3, <1>4, <1>5, <1>6, <1>7, <1>8, <1>9, <1>10 DEF Next, Advance

\* Every state is well typed, and a call's step agrees with its input.
THEOREM TypeCorrect == Spec => []TypeOK
<1>1. Init => TypeInv
  BY LedgerAssumption DEF Init, TypeInv, TypeOK, RequestInv, Steps, Resting, CreateStep, TxnStep
<1> QED BY <1>1, TypeStep, PTL DEF Spec, TypeInv

-----------------------------------------------------------------------------
(* What the steps do to the table of payments *)

\* INSERT ... ON CONFLICT adds one new payment, under a key no other has, or nothing.
LEMMA InsertEffect ==
  ASSUME TypeInv, NEW c \in Callers, InsertIntent(c)
  PROVE  LET r == request[c] IN
         /\ r \in Intents /\ r.id \in PaymentIds /\ DetailsOf(r) \in Details
         /\ \/ UNCHANGED payments /\ step'[c] # "logIntent"
            \/ /\ ~KeyInUse(r.key)
               /\ r.id \notin Recorded
               /\ Recorded' = Recorded \cup {r.id}
               /\ payments'[r.id] = NewRow(r)
               /\ \A p \in PaymentIds : p # r.id => payments'[p] = payments[p]
<1>1. request[c] \in Intents /\ request[c].id \in PaymentIds /\ DetailsOf(request[c]) \in Details
  BY IntentFields DEF InsertIntent, TypeInv, RequestInv, CreateStep
<1>2. NewRow(request[c]) \in Row
  BY <1>1 DEF NewRow, Row, Status
<1> QED
  BY <1>1, <1>2, LedgerAssumption DEF InsertIntent, TypeInv, TypeOK, Recorded, Goto

\* COMMIT changes the status and the transaction of the one payment it verified.
LEMMA CommitEffect ==
  ASSUME TypeInv, NEW c \in Callers, Commit(c)
  PROVE  LET v == request[c] IN
         /\ v \in Verifications /\ v.id \in Recorded /\ v.transaction \in Transactions
         /\ payments'[v.id].details = payments[v.id].details
         /\ payments'[v.id].status = "succeeded"
         /\ payments'[v.id].transaction = v.transaction
         /\ \A p \in PaymentIds : p # v.id => payments'[p] = payments[p]
         /\ Recorded' = Recorded
<1> DEFINE v == request[c]
           new == [payments[v.id] EXCEPT !.status = "succeeded", !.transaction = v.transaction]
<1>1. v \in Verifications /\ v.id \in PaymentIds /\ v.transaction \in Transactions /\ v.id \in Recorded
  BY VerificationFields DEF Commit, TypeInv, RequestInv, TxnStep
<1>2. payments[v.id] \in Row
  BY <1>1 DEF TypeInv, TypeOK, Recorded
<1>3. new \in Row /\ new.details = payments[v.id].details
      /\ new.status = "succeeded" /\ new.transaction = v.transaction
  BY <1>1, <1>2 DEF Row, Status
<1>4. payments' = [payments EXCEPT ![v.id] = new]
  BY <1>1, <1>2 DEF Commit, TypeInv, TypeOK, Row
<1>5. payments'[v.id] = new /\ \A p \in PaymentIds : p # v.id => payments'[p] = payments[p]
  BY <1>1, <1>4 DEF TypeInv, TypeOK
<1>6. Recorded' = Recorded
  BY <1>1, <1>2, <1>3, <1>5, LedgerAssumption DEF Recorded
<1> QED BY <1>1, <1>3, <1>5, <1>6

\* No other step writes hormoz_payment_transactions.
LEMMA OtherSteps ==
  ASSUME [Next]_vars
  PROVE  \/ \E c \in Callers : InsertIntent(c)
         \/ \E c \in Callers : Commit(c)
         \/ UNCHANGED payments
BY DEF Next, vars, Call, CallCreate, CallVerify, Advance, SendIntentEvent, LogIntent, Recover, Connect, LockRow,
       UpdateRow, LogVerified, Confirm, Rollback, Fault, QueryFails, TxnFails, Crash, db

-----------------------------------------------------------------------------
(* The row lock *)

\* A row is created or succeeded, and has a transaction exactly when succeeded.
RowInv ==
  \A p \in Recorded :
    /\ payments[p].status \in {"created", "succeeded"}
    /\ payments[p].status = "succeeded" <=> payments[p].transaction # NoTransaction

\* A transaction past its checks holds its row, and what it checked still holds.
LockInv ==
  \A c \in Callers :
    LET v == request[c] IN
    /\ step[c] \in {"update", "logVerified", "commit", "confirm"} =>
         rowLock[v.id] = c /\ Matches(payments[v.id], v)
    /\ step[c] \in {"update", "logVerified", "commit"} => payments[v.id].status # "succeeded"
    /\ step[c] = "confirm" => AlreadySettled(payments[v.id], v)

\* No step leaves a payment succeeded without its transaction, or the reverse.
LEMMA RowStep == TypeInv /\ RowInv /\ [Next]_vars => RowInv'
<1> SUFFICES ASSUME TypeInv, RowInv, [Next]_vars PROVE RowInv'
  OBVIOUS
<1>1. ASSUME NEW c \in Callers, InsertIntent(c) PROVE RowInv'
  <2> DEFINE r == request[c]
  <2>1. CASE UNCHANGED payments
    BY <2>1 DEF RowInv, Recorded
  <2>2. CASE /\ r.id \notin Recorded /\ Recorded' = Recorded \cup {r.id}
             /\ payments'[r.id] = NewRow(r)
             /\ \A p \in PaymentIds : p # r.id => payments'[p] = payments[p]
    <3>1. NewRow(r).status = "created" /\ NewRow(r).transaction = NoTransaction
      BY DEF NewRow
    <3>2. Recorded \subseteq PaymentIds
      BY DEF Recorded
    <3> QED BY <2>2, <3>1, <3>2 DEF RowInv
  <2> QED BY <1>1, <2>1, <2>2, InsertEffect
<1>2. ASSUME NEW c \in Callers, Commit(c) PROVE RowInv'
  BY <1>2, CommitEffect, LedgerAssumption DEF RowInv, Recorded
<1>3. CASE UNCHANGED payments
  BY <1>3 DEF RowInv, Recorded
<1> QED BY <1>1, <1>2, <1>3, OtherSteps

\* A transaction past its SELECT holds its row's lock, and what it checked stays
\* true of the row until the transaction ends, whatever the others do.
LEMMA LockStep == TypeInv /\ RowInv /\ LockInv /\ [Next]_vars => LockInv'
<1> SUFFICES ASSUME TypeInv, RowInv, LockInv, [Next]_vars PROVE LockInv'
  OBVIOUS
<1> DEFINE Past == {"update", "logVerified", "commit", "confirm"}
<1>t. /\ step \in [Callers -> Steps] /\ rowLock \in [PaymentIds -> Callers \cup {NoCaller}]
      /\ \A c \in Callers : step[c] \in Past => request[c].id \in PaymentIds /\ request[c].id \in Recorded
      /\ request \in [Callers -> Intents \cup Verifications \cup {NoRequest}]
  BY DEF TypeInv, TypeOK, RequestInv, Recorded
<1> USE DEF LockInv, Goto
<1>1. ASSUME NEW c \in Callers, Call(c) PROVE LockInv'
  BY <1>1, <1>t DEF Call, CallCreate, CallVerify, db, txn
<1>2. ASSUME NEW c \in Callers, InsertIntent(c) PROVE LockInv'
  <2>1. \A d \in Callers : step[d] \in Past => payments'[request[d].id] = payments[request[d].id]
    BY <1>2, <1>t, InsertEffect
  <2>2. \A d \in Callers : step'[d] \in Past => step'[d] = step[d]
    BY <1>2, <1>t DEF InsertIntent
  <2>3. UNCHANGED <<request, rowLock>>
    BY <1>2 DEF InsertIntent, txn
  <2> QED BY <2>1, <2>2, <2>3, <1>t
<1>3. ASSUME NEW c \in Callers,
             SendIntentEvent(c) \/ LogIntent(c) \/ Recover(c) \/ Connect(c) \/ Fault(c)
      PROVE LockInv'
  BY <1>3, <1>t DEF SendIntentEvent, LogIntent, Recover, Connect, Fault, QueryFails, TxnFails, db, txn
<1>4. ASSUME NEW c \in Callers, UpdateRow(c) \/ LogVerified(c) PROVE LockInv'
  BY <1>4, <1>t DEF UpdateRow, LogVerified, db, txn
<1>5. ASSUME NEW c \in Callers, LockRow(c) PROVE LockInv'
  <2> DEFINE v == request[c]
  <2>1. UNCHANGED <<payments, request>>
    BY <1>5 DEF LockRow, db
  <2>2. \A d \in Callers : d # c => step'[d] = step[d]
    BY <1>5, <1>t DEF LockRow
  <2>3. CASE v.id \notin Recorded
    <3>1. step'[c] = "rollback" /\ UNCHANGED rowLock
      BY <1>5, <1>t, <2>3 DEF LockRow
    <3> QED BY <2>1, <2>2, <3>1
  <2>4. CASE v.id \in Recorded
    <3>1. rowLock[v.id] = NoCaller /\ rowLock' = [rowLock EXCEPT ![v.id] = c]
      BY <1>5, <2>4 DEF LockRow, RowFree
    <3>2. v.id \in PaymentIds
      BY <2>4 DEF Recorded
    <3>3. \A d \in Callers : d # c /\ step[d] \in Past => rowLock'[request[d].id] = rowLock[request[d].id]
      BY <3>1, <3>2, <1>t, LedgerAssumption
    <3>4. /\ step'[c] \in Past => Matches(payments[v.id], v)
          /\ step'[c] \in {"update", "logVerified", "commit"} => payments[v.id].status # "succeeded"
          /\ step'[c] = "confirm" => AlreadySettled(payments[v.id], v)
      BY <1>5, <1>t, <2>4 DEF LockRow
    <3>5. rowLock'[v.id] = c
      BY <3>1, <3>2, <1>t
    <3> QED BY <2>1, <2>2, <3>3, <3>4, <3>5
  <2> QED BY <2>3, <2>4
<1>6. ASSUME NEW c \in Callers, Confirm(c) \/ Rollback(c) PROVE LockInv'
  BY <1>6, <1>t DEF Confirm, Rollback, Unlock, db
<1>7. ASSUME NEW c \in Callers, Commit(c) PROVE LockInv'
  <2>1. \A d \in Callers : d # c /\ step[d] \in Past => request[d].id # request[c].id
    BY <1>7, <1>t DEF Commit
  <2>2. \A d \in Callers : d # c /\ step[d] \in Past => payments'[request[d].id] = payments[request[d].id]
    BY <1>7, <2>1, <1>t, CommitEffect
  <2>3. \A d \in Callers : step'[d] \in Past => d # c /\ step'[d] = step[d]
    BY <1>7, <1>t DEF Commit
  <2>4. \A d \in Callers : d # c /\ step[d] \in Past => rowLock'[request[d].id] = rowLock[request[d].id]
    BY <1>7, <1>t DEF Commit, Unlock
  <2>5. UNCHANGED request
    BY <1>7 DEF Commit
  <2> QED BY <2>2, <2>3, <2>4, <2>5, <1>t
<1>8. CASE Crash
  BY <1>8, <1>t DEF Crash
<1>9. CASE UNCHANGED vars
  BY <1>9 DEF vars
<1> QED
  BY <1>1, <1>2, <1>3, <1>4, <1>5, <1>6, <1>7, <1>8, <1>9 DEF Next, Advance

-----------------------------------------------------------------------------
(* Provider transactions *)

SameClaim(v, w) == v.transaction = w.transaction /\ Canonical[v.provider] = Canonical[w.provider]

\* Between its UPDATE and its COMMIT a verification alone claims its
\* provider transaction, which no committed payment has.
ClaimInv ==
  /\ NoTransactionPaysTwice
  /\ \A c \in Updated : ClaimedBy(request[c]) = {}
  /\ \A c, d \in Updated : SameClaim(request[c], request[d]) => c = d

SafetyInv == TypeInv /\ RowInv /\ LockInv

\* Steps that leave the payments alone and do not pass an UPDATE.
LEMMA ClaimFrame ==
  ASSUME ClaimInv, UNCHANGED payments, Updated' \subseteq Updated,
         \A c \in Updated' : request'[c] = request[c]
  PROVE  ClaimInv'
BY DEF ClaimInv, NoTransactionPaysTwice, ClaimedBy, Recorded, Succeeded

\* Two updates of one provider's payments never carry the same transaction id:
\* the second waits for the first, then finds it committed.
LEMMA ClaimStep == SafetyInv /\ ClaimInv /\ [Next]_vars => ClaimInv'
<1> SUFFICES ASSUME SafetyInv, ClaimInv, [Next]_vars PROVE ClaimInv'
  OBVIOUS
<1>t. /\ step \in [Callers -> Steps] /\ Recorded \subseteq PaymentIds
      /\ \A c \in Updated : /\ request[c].transaction \in Transactions
                            /\ request[c].id \in Recorded
                            /\ payments[request[c].id].details.provider = Canonical[request[c].provider]
  BY VerificationFields
     DEF SafetyInv, TypeInv, TypeOK, RequestInv, LockInv, Matches, Updated, Recorded, TxnStep
<1>1. ASSUME NEW c \in Callers, Call(c) \/ SendIntentEvent(c) \/ LogIntent(c) \/ Recover(c) \/ Connect(c)
             \/ Fault(c) \/ LockRow(c) \/ LogVerified(c) \/ Confirm(c) \/ Rollback(c)
      PROVE ClaimInv'
  <2>1. UNCHANGED payments /\ Updated' \subseteq Updated
    BY <1>1, <1>t DEF Updated, Call, CallCreate, CallVerify, SendIntentEvent, LogIntent, Recover, Connect, Fault, QueryFails,
       TxnFails, LockRow, LogVerified, Confirm, Rollback, Goto, db, ValidIntent, ValidVerification
  <2>2. \A d \in Updated' : request'[d] = request[d]
    BY <1>1, <1>t DEF Updated, Call, CallCreate, CallVerify, SendIntentEvent, LogIntent, Recover, Connect, Fault, QueryFails,
       TxnFails, LockRow, LogVerified, Confirm, Rollback, Goto, SafetyInv, TypeInv, TypeOK
  <2> QED BY <2>1, <2>2, ClaimFrame
<1>2. ASSUME NEW c \in Callers, InsertIntent(c) PROVE ClaimInv'
  <2> DEFINE r == request[c]
  <2>1. Updated' = Updated /\ UNCHANGED request
    BY <1>2, <1>t DEF InsertIntent, Updated, Goto
  <2>2. CASE UNCHANGED payments
    BY <2>1, <2>2, ClaimFrame
  <2>3. CASE /\ r.id \in PaymentIds \ Recorded /\ Recorded' = Recorded \cup {r.id}
             /\ payments'[r.id] = NewRow(r)
             /\ \A p \in PaymentIds : p # r.id => payments'[p] = payments[p]
    <3>1. NewRow(r).status = "created" /\ NewRow(r).transaction = NoTransaction
      BY DEF NewRow
    <3>2. Succeeded' = Succeeded
      BY <2>3, <3>1, <1>t DEF Succeeded
    <3>3. NoTransactionPaysTwice'
      BY <2>3, <3>2, <1>t DEF ClaimInv, NoTransactionPaysTwice, Succeeded
    <3>4. \A d \in Updated : ClaimedBy(request[d])' = ClaimedBy(request[d])
      BY <2>1, <2>3, <3>1, <1>t, LedgerAssumption DEF ClaimedBy
    <3> QED BY <2>1, <3>3, <3>4 DEF ClaimInv
  <2> QED BY <1>2, <2>2, <2>3, InsertEffect DEF SafetyInv
<1>3. ASSUME NEW c \in Callers, UpdateRow(c) PROVE ClaimInv'
  <2> DEFINE v == request[c]
  <2>1. UNCHANGED <<payments, request>> /\ Updated' \subseteq Updated \cup {c}
    BY <1>3, <1>t DEF UpdateRow, Updated, Goto, db
  <2>2. NoTransactionPaysTwice'
    BY <2>1 DEF ClaimInv, NoTransactionPaysTwice, Succeeded, Recorded
  <2>3. \A d \in Updated : ClaimedBy(request[d])' = {}
    BY <2>1 DEF ClaimInv, ClaimedBy, Recorded
  <2>4. c \in Updated' => ClaimedBy(v) \subseteq {v.id}
    BY <1>3, <1>t DEF UpdateRow, Updated, Goto
  <2>5. v.id \in Recorded /\ payments[v.id].transaction = NoTransaction /\ v.transaction \in Transactions
    BY <1>3, VerificationFields
       DEF SafetyInv, TypeInv, RequestInv, LockInv, RowInv, UpdateRow, TxnStep
  <2>6. c \in Updated' => ClaimedBy(v)' = {}
    BY <2>1, <2>4, <2>5, LedgerAssumption DEF ClaimedBy, Recorded
  <2>7. \A d \in Updated : ~SameClaim(request[d], v)
    BY <1>3 DEF UpdateRow, BeingClaimed, SameClaim
  <2>8. \A d, e \in Updated' : SameClaim(request[d], request[e]) => d = e
    BY <2>1, <2>7 DEF ClaimInv, SameClaim
  <2> QED BY <2>1, <2>2, <2>3, <2>6, <2>8 DEF ClaimInv
<1>4. ASSUME NEW c \in Callers, Commit(c) PROVE ClaimInv'
  <2> DEFINE v == request[c]
  <2>1. c \in Updated /\ Updated' = Updated \ {c} /\ UNCHANGED request
    BY <1>4, <1>t DEF Commit, Updated, Goto
  <2>2. /\ v.id \in Recorded /\ Recorded' = Recorded
        /\ payments'[v.id].details = payments[v.id].details
        /\ payments'[v.id].status = "succeeded" /\ payments'[v.id].transaction = v.transaction
        /\ \A p \in Recorded : p # v.id => payments'[p] = payments[p]
    BY <1>4, <1>t, CommitEffect DEF SafetyInv
  <2>3. Succeeded' = Succeeded \cup {v.id}
    BY <2>2 DEF Succeeded
  <2>4. \A p \in Recorded : payments[p].details.provider = Canonical[v.provider] => payments[p].transaction # v.transaction
    BY <2>1 DEF ClaimInv, ClaimedBy
  <2>5. payments[v.id].details.provider = Canonical[v.provider]
    BY <2>1, <1>t
  <2>6. NoTransactionPaysTwice'
    BY <2>2, <2>3, <2>4, <2>5 DEF ClaimInv, NoTransactionPaysTwice, Succeeded
  <2>7. \A d \in Updated' : ClaimedBy(request[d])' = {}
    BY <2>1, <2>2, <2>5 DEF ClaimInv, ClaimedBy, SameClaim
  <2> QED BY <2>1, <2>6, <2>7 DEF ClaimInv
<1>5. CASE Crash
  BY <1>5, ClaimFrame, <1>t DEF Crash, Updated, db
<1>6. CASE UNCHANGED vars
  BY <1>6, ClaimFrame DEF vars, Updated
<1> QED
  BY <1>1, <1>2, <1>3, <1>4, <1>5, <1>6 DEF Next, Advance

-----------------------------------------------------------------------------
(* The audit table *)

\* A transaction stages at most the event of its own verification, unless the
\* key is already in the table.
StageInv ==
  \A c \in Callers :
    /\ staged[c] \subseteq {VerifiedEvent(request[c])}
    /\ staged[c] # {} => step[c] \in {"commit", "rollback"}
    /\ step[c] = "commit" => staged[c] # {} \/ EventKeyTaken(request[c].eventKey)

\* Where the keys in the table come from.
KeyInv ==
  \A e \in events :
    /\ e.type = "payment_verified" =>
         \E v \in Verifications : v.id = e.payment /\ v.eventKey = e.key
    /\ e.type = "intent_created" => \E k \in Keys : e.key = IntentEvent[k]

\* The event key of the verification that settled a payment is in the table.
SettledKeyInv ==
  \A p \in Succeeded :
    \E v \in Verifications :
      v.id = p /\ v.transaction = payments[p].transaction /\ EventKeyTaken(v.eventKey)

AuditInv == StageInv /\ KeyInv /\ OneVerifiedEvent /\ SettledKeyInv

KeepsStage(c) ==
  /\ staged'[c] # {} => /\ staged'[c] = staged[c] /\ request'[c] = request[c]
                        /\ step'[c] \in {"commit", "rollback"}
  /\ step'[c] = "commit" => /\ step[c] = "commit" /\ staged'[c] = staged[c]
                            /\ request'[c] = request[c]

\* Steps that leave events, staged events and the succeeded payments alone.
LEMMA AuditFrame ==
  ASSUME AuditInv, UNCHANGED events, Succeeded' = Succeeded,
         \A p \in Succeeded : payments'[p].transaction = payments[p].transaction,
         \A c \in Callers : KeepsStage(c)
  PROVE  AuditInv'
<1>1. StageInv'
  BY DEF AuditInv, StageInv, KeepsStage, EventKeyTaken, VerifiedEvent
<1>2. KeyInv' /\ OneVerifiedEvent'
  BY DEF AuditInv, KeyInv, OneVerifiedEvent
<1>3. SettledKeyInv'
  BY DEF AuditInv, SettledKeyInv, EventKeyTaken
<1> QED BY <1>1, <1>2, <1>3 DEF AuditInv

\* A verification's event is staged with the row locked and committed with the
\* payment, so it stays the only one, and its key is then in the table.
LEMMA AuditStep == SafetyInv /\ AuditInv /\ [Next]_vars => AuditInv'
<1> SUFFICES ASSUME SafetyInv, AuditInv, [Next]_vars PROVE AuditInv'
  OBVIOUS
<1>t. /\ step \in [Callers -> Steps] /\ staged \in [Callers -> SUBSET Event]
      /\ request \in [Callers -> Intents \cup Verifications \cup {NoRequest}]
      /\ events \subseteq Event /\ Recorded \subseteq PaymentIds
      /\ \A c \in Callers : staged[c] # {} => step[c] \in {"commit", "rollback"}
  BY DEF SafetyInv, TypeInv, TypeOK, Recorded, AuditInv, StageInv
<1>1. ASSUME NEW c \in Callers, Call(c) \/ SendIntentEvent(c) \/ Recover(c) \/ Connect(c) \/ Fault(c)
             \/ LockRow(c) \/ UpdateRow(c) \/ Confirm(c)
      PROVE AuditInv'
  <2>1. UNCHANGED <<payments, events, staged>>
    BY <1>1 DEF Call, CallCreate, CallVerify, SendIntentEvent, Recover, Connect, Fault, QueryFails,
       TxnFails, LockRow, UpdateRow, Confirm, db, txn
  <2>2. \A d \in Callers :
          /\ staged[d] # {} => request'[d] = request[d] /\ step'[d] \in {"commit", "rollback"}
          /\ step'[d] = "commit" => step[d] = "commit" /\ request'[d] = request[d]
    BY <1>1, <1>t DEF Call, CallCreate, CallVerify, SendIntentEvent, Recover, Connect, Fault, QueryFails,
       TxnFails, LockRow, UpdateRow, Confirm, Goto, Resting, CreateStep
  <2>3. Succeeded' = Succeeded
    BY <2>1 DEF Succeeded, Recorded
  <2>4. \A d \in Callers : KeepsStage(d)
    BY <2>1, <2>2 DEF KeepsStage
  <2> QED BY <2>1, <2>3, <2>4, AuditFrame
<1>2. ASSUME NEW c \in Callers, InsertIntent(c) PROVE AuditInv'
  <2> DEFINE r == request[c]
  <2>1. /\ Succeeded' = Succeeded
        /\ \A p \in Succeeded : payments'[p].transaction = payments[p].transaction
    <3>1. CASE UNCHANGED payments
      BY <3>1 DEF Succeeded, Recorded
    <3>2. CASE /\ r.id \in PaymentIds \ Recorded /\ Recorded' = Recorded \cup {r.id}
               /\ payments'[r.id] = NewRow(r)
               /\ \A p \in PaymentIds : p # r.id => payments'[p] = payments[p]
      <4>1. NewRow(r).status = "created"
        BY DEF NewRow
      <4> QED BY <3>2, <4>1, <1>t DEF Succeeded
    <3> QED BY <1>2, <3>1, <3>2, InsertEffect DEF SafetyInv
  <2>2. /\ UNCHANGED <<events, staged, request>>
        /\ \A d \in Callers : /\ staged'[d] = staged[d] /\ request'[d] = request[d]
                              /\ staged[d] # {} => step'[d] \in {"commit", "rollback"}
                              /\ step'[d] = "commit" => step[d] = "commit"
    BY <1>2, <1>t DEF InsertIntent, Goto, txn
  <2>3. \A d \in Callers : KeepsStage(d)
    BY <2>2, <1>t DEF KeepsStage
  <2> QED BY <2>1, <2>2, <2>3, AuditFrame
<1>3. ASSUME NEW c \in Callers, LogIntent(c) PROVE AuditInv'
  <2> DEFINE e == [payment |-> request[c].id, type |-> "intent_created",
                   key |-> IntentEvent[request[c].key]]
  <2>1. request[c].key \in Keys
    BY <1>3, IntentFields DEF LogIntent, SafetyInv, TypeInv, RequestInv, CreateStep
  <2>2. /\ UNCHANGED <<payments, staged, request>> /\ events \subseteq events'
        /\ events' \subseteq events \cup {e}
        /\ \A d \in Callers : /\ staged[d] # {} => step'[d] = step[d]
                              /\ step'[d] = "commit" => step[d] = "commit"
    BY <1>3, <1>t DEF LogIntent, Goto, txn
  <2>k. \A k : EventKeyTaken(k) => EventKeyTaken(k)'
    BY <2>2 DEF EventKeyTaken
  <2>3. StageInv'
    BY <2>2, <2>k, <1>t DEF AuditInv, StageInv, VerifiedEvent
  <2>4. e.type = "intent_created" /\ e.key = IntentEvent[request[c].key]
    OBVIOUS
  <2>5. KeyInv'
    BY <2>1, <2>2, <2>4 DEF AuditInv, KeyInv
  <2>6. Succeeded' = Succeeded
    BY <2>2 DEF Succeeded, Recorded
  <2>7. OneVerifiedEvent'
    BY <2>2, <2>4, <2>6 DEF AuditInv, OneVerifiedEvent
  <2>8. SettledKeyInv'
    BY <2>2, <2>k, <2>6 DEF AuditInv, SettledKeyInv
  <2> QED BY <2>3, <2>5, <2>7, <2>8 DEF AuditInv
<1>4. ASSUME NEW c \in Callers, LogVerified(c) PROVE AuditInv'
  <2> DEFINE e == VerifiedEvent(request[c])
  <2>1. UNCHANGED <<payments, events, request>>
    BY <1>4 DEF LogVerified, db
  <2>2. /\ step'[c] = "commit"
        /\ staged'[c] = IF EventKeyTaken(e.key) THEN {} ELSE {e}
        /\ \A d \in Callers \ {c} : step'[d] = step[d] /\ staged'[d] = staged[d]
    BY <1>4, <1>t DEF LogVerified, Goto
  <2>3. e.key = request[c].eventKey
    BY DEF VerifiedEvent
  <2>4. StageInv'
    BY <2>1, <2>2, <2>3, <1>t DEF AuditInv, StageInv, EventKeyTaken, VerifiedEvent
  <2>5. Succeeded' = Succeeded
    BY <2>1 DEF Succeeded, Recorded
  <2>6. KeyInv' /\ OneVerifiedEvent'
    BY <2>1, <2>5 DEF AuditInv, KeyInv, OneVerifiedEvent
  <2>7. SettledKeyInv'
    BY <2>1, <2>5 DEF AuditInv, SettledKeyInv, EventKeyTaken
  <2> QED BY <2>4, <2>6, <2>7 DEF AuditInv
<1>5. ASSUME NEW c \in Callers, Commit(c) PROVE AuditInv'
  <2> DEFINE v == request[c]
             e == VerifiedEvent(v)
  <2>1. /\ v \in Verifications /\ v.id \in Recorded /\ Recorded' = Recorded
        /\ payments'[v.id].status = "succeeded"
        /\ \A p \in PaymentIds : p # v.id => payments'[p] = payments[p]
    BY <1>5, CommitEffect DEF SafetyInv
  <2>s. payments[v.id].status # "succeeded"
    BY <1>5 DEF Commit, SafetyInv, LockInv
  <2>2. Succeeded' = Succeeded \cup {v.id} /\ v.id \notin Succeeded
    BY <2>1, <2>s, <1>t DEF Succeeded
  <2>3. events' = events \cup staged[c] /\ staged[c] \subseteq {e} /\ UNCHANGED request
    BY <1>5 DEF Commit, AuditInv, StageInv
  <2>4. e.payment = v.id /\ e.type = "payment_verified" /\ e.key = v.eventKey
    BY DEF VerifiedEvent
  <2>5. \A d \in Callers : /\ staged'[d] \subseteq staged[d]
                           /\ staged'[d] # {} => step'[d] = step[d]
                           /\ step'[d] = "commit" => step[d] = "commit" /\ staged'[d] = staged[d]
    BY <1>5, <1>t DEF Commit, Goto
  <2>k. \A k : EventKeyTaken(k) => EventKeyTaken(k)'
    BY <2>3 DEF EventKeyTaken
  <2>6. StageInv'
    BY <2>3, <2>5, <2>k, <1>t DEF AuditInv, StageInv, VerifiedEvent
  <2>7. KeyInv'
    BY <2>1, <2>3, <2>4 DEF AuditInv, KeyInv
  <2>8. OneVerifiedEvent'
    BY <2>2, <2>3, <2>4 DEF AuditInv, OneVerifiedEvent
  <2>9. EventKeyTaken(v.eventKey)'
    <3>1. CASE staged[c] # {}
      BY <3>1, <2>3, <2>4 DEF EventKeyTaken
    <3>2. CASE staged[c] = {}
      BY <1>5, <3>2, <2>k DEF Commit, AuditInv, StageInv
    <3> QED BY <3>1, <3>2
  <2>10. SettledKeyInv'
    <3>1. ASSUME NEW p \in Succeeded, p # v.id
          PROVE  \E w \in Verifications :
                   w.id = p /\ w.transaction = payments'[p].transaction /\ EventKeyTaken(w.eventKey)'
      BY <3>1, <2>1, <2>k, <1>t DEF AuditInv, SettledKeyInv, Succeeded
    <3>2. v.transaction = payments'[v.id].transaction
      BY <1>5, CommitEffect DEF SafetyInv
    <3> DEFINE Keyed(p) == \E w \in Verifications :
                             w.id = p /\ w.transaction = payments[p].transaction /\ EventKeyTaken(w.eventKey)
    <3>3. ASSUME NEW p, p = v.id PROVE Keyed(p)'
      BY <3>3, <2>1, <2>3, <2>9, <3>2
    <3>4. \A p \in Succeeded : p # v.id => Keyed(p)'
      BY <3>1
    <3>5. ASSUME NEW p \in Succeeded' PROVE Keyed(p)'
      <4>1. p \in Succeeded \/ p = v.id
        BY <2>2
      <4> HIDE DEF Keyed
      <4> QED BY <4>1, <3>3, <3>4
    <3> QED BY <3>5 DEF SettledKeyInv
  <2> QED BY <2>6, <2>7, <2>8, <2>10 DEF AuditInv
<1>6. ASSUME NEW c \in Callers, Rollback(c) PROVE AuditInv'
  <2>1. Succeeded' = Succeeded /\ UNCHANGED payments
    BY <1>6 DEF Rollback, db, Succeeded, Recorded
  <2>2. /\ UNCHANGED <<events, request>>
        /\ \A d \in Callers : /\ request'[d] = request[d]
                              /\ staged'[d] # {} => /\ staged'[d] = staged[d]
                                                   /\ step'[d] \in {"commit", "rollback"}
                              /\ step'[d] = "commit" => step[d] = "commit" /\ staged'[d] = staged[d]
    BY <1>6, <1>t DEF Rollback, db, Goto
  <2>3. \A d \in Callers : KeepsStage(d)
    BY <2>2, <1>t DEF KeepsStage
  <2> QED BY <2>1, <2>2, <2>3, AuditFrame
<1>7. CASE Crash
  <2>1. Succeeded' = Succeeded /\ UNCHANGED <<payments, events>>
    BY <1>7 DEF Crash, db, Succeeded, Recorded
  <2>2. \A d \in Callers : staged'[d] = {} /\ step'[d] = "idle"
    BY <1>7 DEF Crash
  <2>3. \A d \in Callers : KeepsStage(d)
    BY <2>2, <1>t DEF KeepsStage
  <2> QED BY <2>1, <2>3, AuditFrame
<1>8. CASE UNCHANGED vars
  <2>1. Succeeded' = Succeeded /\ UNCHANGED <<payments, events>>
    BY <1>8 DEF vars, Succeeded, Recorded
  <2>2. \A d \in Callers : KeepsStage(d)
    BY <1>8, <1>t DEF vars, KeepsStage
  <2> QED BY <2>1, <2>2, AuditFrame
<1> QED
  BY <1>1, <1>2, <1>3, <1>4, <1>5, <1>6, <1>7, <1>8 DEF Next, Advance

-----------------------------------------------------------------------------
(* What a payment keeps, and the answers that rest on it *)

\* No step takes a payment, its details or its settlement back.
Persists ==
  \A p \in Recorded :
    /\ p \in Recorded'
    /\ payments'[p].details = payments[p].details
    /\ p \in Succeeded => p \in Succeeded' /\ payments'[p].transaction = payments[p].transaction

\* No step deletes a payment, changes its details or undoes its settlement.
LEMMA PaymentsPersist == SafetyInv /\ [Next]_vars => Persists
<1> SUFFICES ASSUME SafetyInv, [Next]_vars PROVE Persists
  OBVIOUS
<1>1. ASSUME NEW c \in Callers, InsertIntent(c) PROVE Persists
  <2>1. Recorded \subseteq PaymentIds
    BY DEF Recorded
  <2>2. CASE UNCHANGED payments
    BY <2>2 DEF Persists, Recorded, Succeeded
  <2>3. CASE ~UNCHANGED payments
    BY <1>1, <2>1, <2>3, InsertEffect DEF SafetyInv, Persists, Succeeded
  <2> QED BY <2>2, <2>3
<1>2. ASSUME NEW c \in Callers, Commit(c) PROVE Persists
  <2>1. request[c].id \notin Succeeded
    BY <1>2 DEF Commit, SafetyInv, LockInv, Succeeded
  <2>2. Recorded \subseteq PaymentIds
    BY DEF Recorded
  <2> QED BY <1>2, <2>1, <2>2, CommitEffect DEF SafetyInv, Persists, Succeeded
<1>3. CASE UNCHANGED payments
  BY <1>3 DEF Persists, Recorded, Succeeded
<1> QED BY <1>1, <1>2, <1>3, OtherSteps

\* The answer of one call.
AnswerHolds(r) ==
  /\ r.id \in Recorded
  /\ r \in Intents => payments[r.id].details = DetailsOf(r)
  /\ r \in Verifications =>
       /\ r.id \in Succeeded
       /\ payments[r.id].transaction = r.transaction
       /\ payments[r.id].details.provider = Canonical[r.provider]
       /\ payments[r.id].details.amount = r.amount

AnswerInv ==
  \A c \in Callers :
    /\ step[c] = "done" => AnswerHolds(request[c])
    /\ step[c] \in {"logIntent", "intentSent"} => AnswerHolds(request[c])

\* What a call may go on to answer is already true, and stays true.
LEMMA AnswerStep == SafetyInv /\ AnswerInv /\ [Next]_vars => AnswerInv'
<1> SUFFICES ASSUME SafetyInv, AnswerInv, [Next]_vars PROVE AnswerInv'
  OBVIOUS
<1>p. Persists
  BY PaymentsPersist
<1>t. /\ step \in [Callers -> Steps]
      /\ request \in [Callers -> Intents \cup Verifications \cup {NoRequest}]
      /\ \A c \in Callers : step[c] \in CreateStep => request[c] \in Intents /\ request[c] \notin Verifications
      /\ \A c \in Callers : step[c] \in TxnStep => request[c] \in Verifications /\ request[c] \notin Intents
  BY LedgerAssumption DEF SafetyInv, TypeInv, TypeOK, RequestInv
\* It is enough that a call which comes to an answer has it right.
<1>a. ASSUME NEW c \in Callers,
             \A d \in Callers : d # c => step'[d] = step[d] /\ request'[d] = request[d],
             step'[c] \in {"done", "logIntent", "intentSent"} => AnswerHolds(request[c])'
      PROVE  AnswerInv'
  BY <1>a, <1>p DEF AnswerInv, AnswerHolds, Persists
<1>1. ASSUME NEW c \in Callers, Call(c) \/ Connect(c) \/ Fault(c) \/ LockRow(c) \/ UpdateRow(c)
             \/ LogVerified(c) \/ Rollback(c)
      PROVE AnswerInv'
  <2>1. \A d \in Callers : d # c => step'[d] = step[d] /\ request'[d] = request[d]
    BY <1>1, <1>t DEF Call, CallCreate, CallVerify, Connect, Fault, QueryFails, TxnFails, LockRow,
       UpdateRow, LogVerified, Rollback, Goto
  <2>2. step'[c] \notin {"done", "logIntent", "intentSent"}
    BY <1>1, <1>t DEF Call, CallCreate, CallVerify, Connect, Fault, QueryFails, TxnFails, LockRow,
       UpdateRow, LogVerified, Rollback, Goto
  <2> QED BY <2>1, <2>2, <1>a
<1>2. ASSUME NEW c \in Callers, InsertIntent(c) PROVE AnswerInv'
  <2> DEFINE r == request[c]
  <2>1. UNCHANGED request /\ \A d \in Callers : d # c => step'[d] = step[d]
    BY <1>2, <1>t DEF InsertIntent, Goto
  <2>2. r \in Intents /\ r \notin Verifications /\ step'[c] \notin {"done", "intentSent"}
    BY <1>2, <1>t DEF InsertIntent, Goto, CreateStep
  <2>3. step'[c] = "logIntent" => r.id \in Recorded' /\ payments'[r.id].details = DetailsOf(r)
    <3>1. NewRow(r).details = DetailsOf(r)
      BY DEF NewRow
    <3> QED BY <1>2, <3>1, InsertEffect DEF SafetyInv
  <2>4. step'[c] \in {"done", "logIntent", "intentSent"} => AnswerHolds(request[c])'
    BY <2>1, <2>2, <2>3 DEF AnswerHolds
  <2> QED BY <2>1, <2>4, <1>a
<1>3. ASSUME NEW c \in Callers, SendIntentEvent(c) \/ LogIntent(c) PROVE AnswerInv'
  <2>1. UNCHANGED request /\ \A d \in Callers : d # c => step'[d] = step[d]
    BY <1>3, <1>t DEF SendIntentEvent, LogIntent, Goto
  <2>2. AnswerHolds(request[c])'
    BY <1>3, <1>p, <2>1 DEF SendIntentEvent, LogIntent, AnswerInv, AnswerHolds, Persists
  <2> QED BY <2>1, <2>2, <1>a
<1>4. ASSUME NEW c \in Callers, Recover(c) PROVE AnswerInv'
  <2>1. UNCHANGED request /\ \A d \in Callers : d # c => step'[d] = step[d]
    BY <1>4, <1>t DEF Recover, Goto
  <2>2. /\ request[c] \in Intents /\ request[c] \notin Verifications
        /\ step'[c] \notin {"logIntent", "intentSent"}
        /\ step'[c] = "done" => SameIntent(request[c])
    BY <1>4, <1>t DEF Recover, Goto, CreateStep
  <2>3. step'[c] = "done" => AnswerHolds(request[c])'
    BY <2>1, <2>2, <1>p DEF SameIntent, AnswerHolds, Persists
  <2> QED BY <2>1, <2>2, <2>3, <1>a
<1>5. ASSUME NEW c \in Callers, Commit(c) PROVE AnswerInv'
  <2> DEFINE v == request[c]
  <2>1. UNCHANGED request /\ \A d \in Callers : d # c => step'[d] = step[d]
    BY <1>5, <1>t DEF Commit, Goto
  <2>2. v \notin Intents /\ Matches(payments[v.id], v)
    BY <1>5, <1>t DEF Commit, TxnStep, SafetyInv, LockInv
  <2>3. AnswerHolds(v)'
    BY <1>5, <2>1, <2>2, CommitEffect DEF SafetyInv, AnswerHolds, Matches, Succeeded
  <2> QED BY <2>1, <2>3, <1>a
<1>6. ASSUME NEW c \in Callers, Confirm(c) PROVE AnswerInv'
  <2> DEFINE v == request[c]
  <2>1. UNCHANGED request /\ \A d \in Callers : d # c => step'[d] = step[d]
    BY <1>6, <1>t DEF Confirm, Goto
  <2>2. v \notin Intents /\ v.id \in Recorded /\ Matches(payments[v.id], v) /\ AlreadySettled(payments[v.id], v)
    BY <1>6, <1>t DEF Confirm, TxnStep, SafetyInv, TypeInv, RequestInv, LockInv
  <2>3. AnswerHolds(v)
    BY <2>2 DEF AnswerHolds, Matches, AlreadySettled, Succeeded
  <2>4. AnswerHolds(v)'
    BY <2>1, <2>3, <1>p DEF AnswerHolds, Persists
  <2> QED BY <2>1, <2>4, <1>a
<1>7. CASE Crash
  BY <1>7 DEF Crash, AnswerInv
<1>8. CASE UNCHANGED vars
  BY <1>8, <1>p DEF vars, AnswerInv, AnswerHolds, Persists
<1> QED
  BY <1>1, <1>2, <1>3, <1>4, <1>5, <1>6, <1>7, <1>8 DEF Next, Advance

-----------------------------------------------------------------------------
(* The inductive invariant and what follows from it *)

IInv == SafetyInv /\ ClaimInv /\ AuditInv /\ AnswerInv

\* The inductive invariant of the ledger, from which the theorems below follow.
THEOREM LedgerInvariant == Spec => []IInv
<1>1. Init => IInv
  <2> SUFFICES ASSUME Init PROVE IInv
    OBVIOUS
  <2>1. TypeInv
    BY LedgerAssumption DEF Init, TypeInv, TypeOK, RequestInv, Steps, Resting, CreateStep, TxnStep
  <2>2. Recorded = {} /\ Succeeded = {} /\ Updated = {}
    BY DEF Init, Recorded, Succeeded, Updated
  <2>3. RowInv /\ LockInv /\ ClaimInv /\ AnswerInv
    BY <2>2 DEF Init, RowInv, LockInv, ClaimInv, NoTransactionPaysTwice, AnswerInv
  <2>4. AuditInv
    BY <2>2 DEF Init, AuditInv, StageInv, KeyInv, OneVerifiedEvent, SettledKeyInv
  <2> QED BY <2>1, <2>3, <2>4 DEF IInv, SafetyInv
<1>2. IInv /\ [Next]_vars => IInv'
  BY TypeStep, RowStep, LockStep, ClaimStep, AuditStep, AnswerStep DEF IInv, SafetyInv
<1> QED BY <1>1, <1>2, PTL DEF Spec

\* Repeated, concurrent and retried verifications log one payment_verified
\* event, and only of succeeded payments (markPaymentVerified).
THEOREM VerifiedOnce == Spec => []OneVerifiedEvent
<1>1. IInv => OneVerifiedEvent
  BY DEF IInv, AuditInv
<1> QED BY <1>1, LedgerInvariant, PTL

\* No two payments of a provider are settled by one of its transactions.
THEOREM PaysOnce == Spec => []NoTransactionPaysTwice
<1>1. IInv => NoTransactionPaysTwice
  BY DEF IInv, ClaimInv
<1> QED BY <1>1, LedgerInvariant, PTL

\* What a call returned stays true of the table.
THEOREM AnswersStayTrue == Spec => []AnswersHold
<1>1. IInv => AnswersHold
  BY DEF IInv, AnswerInv, AnswerHolds, AnswersHold
<1> QED BY <1>1, LedgerInvariant, PTL

\* A succeeded payment without its own event is one whose verification came
\* with an event key of another event: nothing else loses it.
THEOREM SuccessesAudited == Spec => []EverySuccessAudited
<1>1. IInv => EverySuccessAudited
  BY DEF IInv, AuditInv, SettledKeyInv, EventKeyTaken, EverySuccessAudited, KeyHeldElsewhere
<1> QED BY <1>1, LedgerInvariant, PTL

\* Callers give different payments different event keys, none of an intent.
EventKeysApart ==
  /\ \A v, w \in Verifications : v.eventKey = w.eventKey => v.id = w.id
  /\ \A v \in Verifications, k \in Keys : v.eventKey # IntentEvent[k]

AllAudited == \A p \in Succeeded : VerifiedEvents(p) # {}

\* With event keys kept apart, every succeeded payment has its event.
THEOREM ApartKeysAudited ==
  ASSUME EventKeysApart
  PROVE  Spec => []AllAudited
<1>1. IInv => AllAudited
  <2> SUFFICES ASSUME IInv, NEW p \in Succeeded PROVE VerifiedEvents(p) # {}
    BY DEF AllAudited
  <2>1. PICK v \in Verifications, e \in events : v.id = p /\ e.key = v.eventKey
    BY DEF IInv, AuditInv, SettledKeyInv, EventKeyTaken
  <2>2. e \in Event
    BY DEF IInv, SafetyInv, TypeInv, TypeOK
  <2>3. e.type = "payment_verified"
    BY <2>1, <2>2 DEF Event, EventKeysApart, IInv, AuditInv, KeyInv
  <2>4. e.payment = p
    BY <2>1, <2>3 DEF EventKeysApart, IInv, AuditInv, KeyInv
  <2> QED BY <2>3, <2>4 DEF VerifiedEvents
<1> QED BY <1>1, LedgerInvariant, PTL

-----------------------------------------------------------------------------
(* The ledger implements the journal *)

\* The journal that a table of payments shows.
Shown == [p \in PaymentIds |->
            IF payments[p] = NoRow THEN NoRow
            ELSE [details |-> payments[p].details, paidBy |-> payments[p].transaction]]

\* How the journal's entry of a payment follows from its row.
LEMMA ShownEntries ==
  ASSUME TypeOK
  PROVE  /\ Journal!Opened = Recorded
         /\ Recorded \subseteq PaymentIds
         /\ \A p \in Recorded : /\ Shown[p] \in [details: Details, paidBy: Transactions \cup {NoTransaction}]
                                /\ Shown[p].details = payments[p].details
                                /\ Shown[p].paidBy = payments[p].transaction
         /\ \A p \in PaymentIds \ Recorded : Shown[p] = NoRow
<1>1. ASSUME NEW p \in Recorded
      PROVE  /\ Shown[p] = [details |-> payments[p].details, paidBy |-> payments[p].transaction]
             /\ Shown[p] \in [details: Details, paidBy: Transactions \cup {NoTransaction}]
             /\ Shown[p].details = payments[p].details
             /\ Shown[p].paidBy = payments[p].transaction
             /\ Shown[p] # NoRow
  <2>1. p \in PaymentIds /\ payments[p] \in Row /\ payments[p] # NoRow
    BY DEF TypeOK, Recorded
  <2>2. Shown[p] = [details |-> payments[p].details, paidBy |-> payments[p].transaction]
    BY <2>1 DEF Shown
  <2>3. payments[p].details \in Details /\ payments[p].transaction \in Transactions \cup {NoTransaction}
    BY <2>1 DEF Row
  <2> QED BY <2>2, <2>3, LedgerAssumption
<1>2. \A p \in PaymentIds \ Recorded : Shown[p] = NoRow
  BY DEF Shown, Recorded
<1>3. Journal!Opened = {p \in PaymentIds : Shown[p] # NoRow}
  BY DEF Journal!Opened, Shown
<1>4. Recorded \subseteq PaymentIds
  BY DEF Recorded
<1> QED BY <1>1, <1>2, <1>3, <1>4

\* Inserting a payment opens it in the journal.
LEMMA InsertOpens ==
  ASSUME IInv, IInv', NEW c \in Callers, InsertIntent(c), ~UNCHANGED payments
  PROVE  Journal!Open(request[c].id, DetailsOf(request[c]))
<1> DEFINE r == request[c]
<1>1. /\ ~KeyInUse(r.key) /\ r.id \in PaymentIds \ Recorded /\ Recorded' = Recorded \cup {r.id}
      /\ payments'[r.id] = NewRow(r)
      /\ \A p \in PaymentIds : p # r.id => payments'[p] = payments[p]
  BY InsertEffect DEF IInv, SafetyInv
<1>2. payments'[r.id] # NoRow /\ payments'[r.id].details = DetailsOf(r) /\ payments'[r.id].transaction = NoTransaction
  BY <1>1 DEF NewRow, Recorded
<1>3. Shown' = [Shown EXCEPT ![r.id] = [details |-> DetailsOf(r), paidBy |-> NoTransaction]]
  BY <1>1, <1>2 DEF Shown
<1>4. \A q \in Journal!Opened : Shown[q].details.key # DetailsOf(r).key
  BY <1>1, ShownEntries DEF KeyInUse, DetailsOf, IInv, SafetyInv, TypeInv
<1>5. Shown[r.id] = NoRow
  BY <1>1, ShownEntries DEF IInv, SafetyInv, TypeInv
<1> QED BY <1>3, <1>4, <1>5 DEF Journal!Open, Shown

\* Committing a verification settles its payment in the journal.
LEMMA CommitSettles ==
  ASSUME IInv, NEW c \in Callers, Commit(c)
  PROVE  Journal!Settle(request[c].id, request[c].transaction)
<1> DEFINE v == request[c]
<1>t. TypeOK
  BY DEF IInv, SafetyInv, TypeInv
<1>1. /\ v.id \in Recorded /\ v.transaction \in Transactions /\ Recorded' = Recorded
      /\ payments'[v.id].details = payments[v.id].details
      /\ payments'[v.id].transaction = v.transaction
      /\ \A p \in PaymentIds : p # v.id => payments'[p] = payments[p]
  BY CommitEffect DEF IInv, SafetyInv
<1>2. payments[v.id].transaction = NoTransaction /\ payments[v.id].details.provider = Canonical[v.provider]
  BY <1>1 DEF Commit, IInv, SafetyInv, LockInv, RowInv, Matches
<1>3. \A p \in Recorded : payments[p].details.provider = Canonical[v.provider] => payments[p].transaction # v.transaction
  BY DEF Commit, IInv, ClaimInv, ClaimedBy, Updated
<1>4. \A q \in Journal!Opened : Shown[q].details.provider = Shown[v.id].details.provider
                                 => Shown[q].paidBy # v.transaction
  BY <1>t, <1>1, <1>2, <1>3, ShownEntries
<1>5. v.id \in Journal!Opened /\ Shown[v.id].paidBy = NoTransaction
  BY <1>t, <1>1, <1>2, ShownEntries
<1>6. [Shown[v.id] EXCEPT !.paidBy = v.transaction] = [details |-> payments[v.id].details, paidBy |-> v.transaction]
  BY <1>t, <1>1, ShownEntries
<1>7. \A p \in PaymentIds : (payments'[p] = NoRow) <=> (payments[p] = NoRow)
  BY <1>1 DEF Recorded
<1>8. Shown' = [Shown EXCEPT ![v.id] = [details |-> payments[v.id].details, paidBy |-> v.transaction]]
  BY <1>1, <1>7 DEF Shown, Recorded
<1> QED BY <1>4, <1>5, <1>6, <1>8 DEF Journal!Settle, Shown

\* createPaymentIntent and markPaymentVerified, with all their interleavings,
\* failures, lost answers and crashes, only ever open a payment once under its
\* key and settle it once by a transaction of its own.
THEOREM LedgerImplementsJournal == Spec => ImplementsJournal
<1>1. Init => Journal!Init
  BY DEF Init, Journal!Init
<1>2. IInv /\ IInv' /\ [Next]_vars => [Journal!Next]_Shown
  <2> SUFFICES ASSUME IInv, IInv', [Next]_vars PROVE [Journal!Next]_Shown
    OBVIOUS
  <2>1. ASSUME NEW c \in Callers, InsertIntent(c), ~UNCHANGED payments PROVE Journal!Next
    <3>1. request[c].id \in PaymentIds /\ DetailsOf(request[c]) \in Details
      BY <2>1, InsertEffect DEF IInv, SafetyInv
    <3> QED BY <2>1, <3>1, InsertOpens DEF Journal!Next, Journal!Open
  <2>2. ASSUME NEW c \in Callers, Commit(c) PROVE Journal!Next
    <3>1. request[c].id \in PaymentIds /\ request[c].transaction \in Transactions
      BY <2>2, CommitEffect DEF IInv, SafetyInv, Recorded
    <3> QED BY <2>2, <3>1, CommitSettles DEF Journal!Next, Journal!Settle
  <2>3. CASE UNCHANGED payments
    BY <2>3 DEF Shown
  <2> QED BY <2>1, <2>2, <2>3, OtherSteps
<1> QED BY <1>1, <1>2, LedgerInvariant, PTL DEF Spec, ImplementsJournal, Journal!Spec, Shown

=============================================================================
