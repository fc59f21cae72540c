---------------------------- MODULE OrderDeskProofs ----------------------------
(***************************************************************************)
(* Proofs about OrderDesk, for any orders, sessions, requests and limit:   *)
(* its type invariant, that status and history agree, that the submission  *)
(* is kept, who writes entries, and what the backfill guarantees.          *)
(***************************************************************************)
EXTENDS OrderDesk, TLAPS

-----------------------------------------------------------------------------
(* The history *)

\* A history as an order may hold it, or a handler may have read it.
WellKept(h) ==
  /\ h # <<>>
  /\ Len(h) <= HistoryLimit
  /\ Len(h) < HistoryLimit => h[1] = FirstEntry
  /\ \A i \in 1..Len(h) : h[i].actor \in Accounts => Role[h[i].actor] # "marketing"

EndsIn(h, status) == h # <<>> /\ h[Len(h)].status = status

\* slice(-HistoryLimit) after one entry more: the result ends in that entry,
\* and is as well kept as the history it was made from.
LEMMA KeepLastKeeps ==
  ASSUME NEW h \in Seq(Entry), WellKept(h), NEW e \in Entry,
         e.actor \in Accounts => Role[e.actor] # "marketing"
  PROVE  LET k == KeepLast(Append(h, e)) IN
         k \in Seq(Entry) /\ WellKept(k) /\ EndsIn(k, e.status)
<1> DEFINE a == Append(h, e)
<1>1. a \in Seq(Entry) /\ Len(a) = Len(h) + 1 /\ a[Len(a)] = e /\ Len(h) \in Nat /\ Len(h) > 0
  BY DEF WellKept
<1>2. \A i \in 1..Len(h) : a[i] = h[i]
  OBVIOUS
<1>3. \A i \in 1..Len(a) : a[i].actor \in Accounts => Role[a[i].actor] # "marketing"
  BY <1>1, <1>2 DEF WellKept
<1>4. HistoryLimit \in Nat \ {0}
  BY DeskAssumption
<1> HIDE DEF a
<1>5. CASE Len(a) > HistoryLimit
  <2> DEFINE n == Len(a) - HistoryLimit
             k == SubSeq(a, n + 1, Len(a))
  <2>1. n \in Nat /\ n + HistoryLimit = Len(a)
    BY <1>1, <1>4, <1>5
  <2>2. k \in Seq(Entry) /\ Len(k) = HistoryLimit
    BY <1>1, <1>4, <2>1
  <2>3. \A i \in 1..HistoryLimit : k[i] = a[n + i]
    BY <1>1, <1>4, <2>1
  <2>4. KeepLast(a) = k
    BY <1>5 DEF KeepLast
  <2>5. k # <<>>
    BY <1>4, <2>2
  <2> HIDE DEF k
  <2>6. k[Len(k)] = e
    BY <1>1, <1>4, <2>1, <2>2, <2>3
  <2>7. \A i \in 1..Len(k) : k[i].actor \in Accounts => Role[k[i].actor] # "marketing"
    <3> SUFFICES ASSUME NEW i \in 1..HistoryLimit
                 PROVE  k[i].actor \in Accounts => Role[k[i].actor] # "marketing"
      BY <2>2
    <3>1. n + i \in 1..Len(a)
      BY <1>1, <1>4, <2>1
    <3> HIDE DEF n
    <3> QED BY <1>3, <2>3, <3>1
  <2> QED BY <1>4, <2>2, <2>4, <2>5, <2>6, <2>7 DEF WellKept, EndsIn, a
<1>6. CASE Len(a) <= HistoryLimit
  <2>1. KeepLast(a) = a
    BY <1>1, <1>4, <1>6 DEF KeepLast
  <2>2. Len(a) < HistoryLimit => a[1] = FirstEntry
    BY <1>1, <1>2, <1>4 DEF WellKept
  <2>3. a # <<>>
    BY <1>1
  <2> QED BY <1>1, <1>3, <1>6, <2>1, <2>2, <2>3 DEF WellKept, EndsIn, a
<1> QED BY <1>1, <1>4, <1>5, <1>6

-----------------------------------------------------------------------------
(* Types *)

\* A new order is well formed.
LEMMA NewOrderType == NewOrder \in Order /\ FirstEntry \in Entry
  BY DeskAssumption DEF NewOrder, FirstEntry, Order, Entry

\* The entry of a status change is well formed, whether or not the session it
\* was requested with is still there.
LEMMA EntryType == ASSUME NEW ch \in Changes PROVE EntryOf(ch) \in Entry
  BY DeskAssumption DEF EntryOf, Actor, Entry, Change, Accounts

\* Ending a request leaves its variables well formed.
LEMMA LeaveType == ASSUME TypeOK, NEW q \in Requests, Leave(q),
                          orders' \in [Orders -> Order \cup {NoOrder}],
                          tracking' \in [Orders -> TrackingTokens \cup {NoToken}]
                   PROVE  TypeOK'
<1>1. draft' \in [Requests -> Seq(Entry)]
  BY DEF Leave, TypeOK
<1> QED BY <1>1 DEF Leave, Goto, TypeOK, Steps, Goals

\* What one step of a request that goes on does to the types.
LEMMA GoOnType ==
  ASSUME TypeOK, NEW q \in Requests, NEW s \in Steps, Goto(q, s), step[q] # "idle",
         UNCHANGED <<live, goal, request>>,
         orders' \in [Orders -> Order \cup {NoOrder}],
         tracking' \in [Orders -> TrackingTokens \cup {NoToken}],
         ready' \in BOOLEAN,
         missing' \in [Requests -> SUBSET Orders],
         draft' \in [Requests -> Seq(Entry)]
  PROVE  TypeOK'
  BY DEF Goto, TypeOK

\* A call leaves the types intact.
LEMMA CallType == ASSUME TypeOK, NEW q \in Requests, Call(q) PROVE TypeOK'
<1>1. PICK g \in Goals, ch \in Changes \cup {NoChange} :
        Enter(q, g, ch) /\ (g = "change" => ch \in Changes)
  BY DEF Call, CallSubmit, CallFind, CallChange, Goals
<1> QED BY <1>1 DEF Enter, Goto, TypeOK, Steps, table

\* Every statement and continuation leaves the types intact; it needs that a
\* request that is changing an order has a change to make.
LEMMA ServeType ==
  ASSUME TypeOK, NEW q \in Requests, Serve(q),
         step[q] \in {"change", "compose", "write"} => request[q] \in Changes
  PROVE  TypeOK'
<1> USE DEF table
<1>1. CASE FindMissing(q)
  <2>1. PICK s \in Steps : Goto(q, s)
    <3>1. goal[q] \in Steps /\ "backfill" \in Steps
      BY DEF TypeOK, Steps
    <3>2. Goto(q, goal[q]) \/ Goto(q, "backfill")
      BY <1>1 DEF FindMissing
    <3> QED BY <3>1, <3>2
  <2>2. missing' \in [Requests -> SUBSET Orders]
    BY <1>1 DEF FindMissing, Stored, TypeOK
  <2> QED BY <1>1, <2>1, <2>2, GoOnType DEF FindMissing, TypeOK
<1>2. CASE GiveToken(q)
  <2>1. PICK o \in missing[q] : missing' = [missing EXCEPT ![q] = @ \ {o}]
    BY <1>2 DEF GiveToken
  <2>2. missing' \in [Requests -> SUBSET Orders]
    BY <2>1 DEF TypeOK
  <2>3. tracking' \in [Orders -> TrackingTokens \cup {NoToken}]
    BY <1>2 DEF GiveToken, Unused, TypeOK
  <2>4. UNCHANGED <<orders, ready, live, step, goal, request, draft>>
    BY <1>2 DEF GiveToken
  <2> QED BY <2>2, <2>3, <2>4 DEF TypeOK
<1>3. CASE FinishEnsure(q)
  BY <1>3, GoOnType DEF FinishEnsure, TypeOK, Steps
<1>4. CASE Insert(q)
  <2>1. /\ orders' \in [Orders -> Order \cup {NoOrder}]
        /\ tracking' \in [Orders -> TrackingTokens \cup {NoToken}]
    BY <1>4, NewOrderType DEF Insert, Unused, TypeOK
  <2> QED BY <1>4, <2>1, LeaveType DEF Insert
<1>5. CASE Find(q)
  BY <1>5, LeaveType DEF Find, TypeOK
<1>6. CASE ReadHistory(q)
  <2>1. CASE Leave(q)
    BY <1>6, <2>1, LeaveType DEF ReadHistory, TypeOK
  <2>2. CASE ~Leave(q)
    <3>1. request[q].order \in Stored /\ orders[request[q].order] \in Order
      BY <1>6, <2>2 DEF ReadHistory, Stored, TypeOK
    <3>2. draft' \in [Requests -> Seq(Entry)]
      BY <1>6, <2>2, <3>1 DEF ReadHistory, Order, TypeOK
    <3> QED BY <1>6, <2>2, <3>2, GoOnType DEF ReadHistory, TypeOK, Steps
  <2> QED BY <2>1, <2>2
<1>7. CASE Compose(q)
  <2>1. request[q] \in Changes /\ draft[q] \in Seq(Entry)
    BY <1>7 DEF Compose, TypeOK
  <2> DEFINE a == Append(draft[q], EntryOf(request[q]))
  <2>2. a \in Seq(Entry) /\ Len(a) \in Nat
    BY <2>1, EntryType
  <2>3. KeepLast(a) \in Seq(Entry)
    <3> HIDE DEF a
    <3> QED BY <2>2, DeskAssumption DEF KeepLast
  <2>4. draft' \in [Requests -> Seq(Entry)]
    BY <1>7, <2>3 DEF Compose, TypeOK
  <2> QED BY <1>7, <2>4, GoOnType DEF Compose, TypeOK, Steps
<1>8. CASE Write(q)
  <2>1. request[q] \in Changes /\ request[q].order \in Orders /\ request[q].status \in OrderStatuses
    BY <1>8, DeskAssumption DEF Write, Change
  <2>2. orders' \in [Orders -> Order \cup {NoOrder}]
    BY <1>8, <2>1 DEF Write, Order, TypeOK
  <2> QED BY <1>8, <2>2, LeaveType DEF Write, TypeOK
<1>9. CASE QueryFails(q)
  BY <1>9, LeaveType DEF QueryFails, TypeOK
<1> QED BY <1>1, <1>2, <1>3, <1>4, <1>5, <1>6, <1>7, <1>8, <1>9 DEF Serve

-----------------------------------------------------------------------------
(* The inductive invariant *)

\* What is true of a request at each of its steps: the goal it has, whose
\* change it makes, what it has read, and that the table is ready.
Changing(q) == step[q] \in {"change", "compose", "write"}

RequestInv ==
  \A q \in Requests :
    /\ step[q] \in Goals => step[q] = goal[q]
    /\ step[q] \in {"compose", "write"} => goal[q] = "change"
    /\ request[q] # NoChange => Role[Owner[request[q].session]] # "marketing"
    /\ step[q] = "compose" => WellKept(draft[q])
    /\ step[q] = "write" => WellKept(draft[q]) /\ EndsIn(draft[q], request[q].status)

OrderInv ==
  \A o \in Stored : WellKept(History(o)) /\ EndsIn(History(o), orders[o].status)

Untracked == {o \in Stored : tracking[o] = NoToken}

BackfillInv ==
  /\ \A o \in Orders \ Stored : tracking[o] = NoToken
  /\ \A q \in Requests : missing[q] \subseteq Stored
  /\ ready => Untracked = {}
  /\ \A q \in Requests :
       /\ step[q] = "backfill" => Untracked \subseteq missing[q]
       /\ step[q] \notin {"idle", "ensure", "backfill"} => ready

\* An order whose history was read is still there: none is ever deleted.
FoundInv ==
  \A q \in Requests : step[q] \in {"compose", "write"} => request[q].order \in Stored

DeskInv == TypeOK /\ RequestInv /\ OrderInv /\ BackfillInv /\ FoundInv

\* The history an order is stored with: its submission.
LEMMA NewOrderKept == WellKept(NewOrder.history) /\ EndsIn(NewOrder.history, NewOrder.status)
<1>1. NewOrder.history = <<FirstEntry>> /\ NewOrder.status = Submitted
  BY DEF NewOrder
<1>2. Len(<<FirstEntry>>) = 1 /\ <<FirstEntry>>[1] = FirstEntry
  OBVIOUS
<1>3. FirstEntry.actor \notin Accounts /\ FirstEntry.status = Submitted
  BY DeskAssumption DEF FirstEntry
<1> QED BY <1>1, <1>2, <1>3, DeskAssumption DEF WellKept, EndsIn

\* The orders of earlier versions are well kept, and no request has begun.
LEMMA DeskInit == Init => DeskInv
<1> SUFFICES ASSUME Init PROVE DeskInv
  OBVIOUS
<1>1. TypeOK
  <2>1. draft \in [Requests -> Seq(Entry)]
    BY DEF Init
  <2>2. orders \in [Orders -> Order \cup {NoOrder}]
    BY NewOrderType DEF Init
  <2> QED BY <2>1, <2>2 DEF Init, TypeOK, Steps, Goals
<1>2. WellKept(NewOrder.history) /\ EndsIn(NewOrder.history, NewOrder.status)
  BY NewOrderKept
<1>3. RequestInv /\ BackfillInv /\ FoundInv
  BY DEF Init, RequestInv, BackfillInv, FoundInv, Goals
<1>4. OrderInv
  BY <1>2 DEF Init, OrderInv, Stored, History
<1> QED BY <1>1, <1>3, <1>4 DEF DeskInv

-----------------------------------------------------------------------------
(* Its steps *)

\* A request that is changing an order has the change to make.
LEMMA HasChange ==
  ASSUME TypeOK, RequestInv, NEW q \in Requests, Changing(q)
  PROVE  request[q] \in Changes /\ goal[q] = "change"
  BY DEF TypeOK, RequestInv, Changing, Goals

\* A call meets the request invariant: the role is checked on arrival.
LEMMA CallRequestInv ==
  ASSUME TypeOK, RequestInv, NEW q \in Requests, Call(q)
  PROVE  RequestInv'
<1>1. PICK g \in Goals, ch \in Changes \cup {NoChange} :
        /\ Enter(q, g, ch)
        /\ ch # NoChange => Role[Owner[ch.session]] # "marketing"
  BY DEF Call, CallSubmit, CallFind, CallChange, Goals, AllowedRoles
<1> QED BY <1>1 DEF Enter, Goto, RequestInv, TypeOK, Goals

\* A request that ends meets the request invariant.
LEMMA LeaveRequestInv ==
  ASSUME TypeOK, RequestInv, NEW q \in Requests, Leave(q)
  PROVE  RequestInv'
  BY DEF Leave, Goto, RequestInv, TypeOK, Goals

\* While the table is made ready a request holds no history yet.
LEMMA EarlyStep ==
  ASSUME TypeOK, RequestInv, NEW q \in Requests, NEW s \in {goal[q], "backfill"},
         UNCHANGED <<goal, request, draft>>, step' = [step EXCEPT ![q] = s]
  PROVE  RequestInv'
<1> SUFFICES ASSUME NEW p \in Requests
    PROVE  /\ step'[p] \in Goals => step'[p] = goal[p]
           /\ step'[p] \in {"compose", "write"} => goal[p] = "change"
           /\ request[p] # NoChange => Role[Owner[request[p].session]] # "marketing"
           /\ step'[p] = "compose" => WellKept(draft[p])
           /\ step'[p] = "write" => WellKept(draft[p]) /\ EndsIn(draft[p], request[p].status)
  BY DEF RequestInv
<1>1. step \in [Requests -> Steps] /\ goal[q] \in Goals
  BY DEF TypeOK
<1>2. CASE p = q
  BY <1>1, <1>2 DEF RequestInv, Goals
<1>3. CASE p # q
  <2>1. step'[p] = step[p]
    BY <1>1, <1>3
  <2> QED BY <2>1 DEF RequestInv
<1> QED BY <1>2, <1>3

\* Every statement and continuation keeps what its request relies on: the
\* history it read was well kept, and so is the one it composes.
LEMMA ServeRequestInv ==
  ASSUME TypeOK, RequestInv, OrderInv, NEW q \in Requests, Serve(q)
  PROVE  RequestInv'
<1>1. CASE FindMissing(q)
  <2>1. UNCHANGED <<table, goal, request, draft>>
    BY <1>1 DEF FindMissing
  <2>2. \E s \in {goal[q], "backfill"} : step' = [step EXCEPT ![q] = s]
    BY <1>1 DEF FindMissing, Goto
  <2> QED BY <2>1, <2>2, EarlyStep
<1>2. CASE GiveToken(q)
  BY <1>2 DEF GiveToken, RequestInv
<1>3. CASE FinishEnsure(q)
  <2>1. UNCHANGED <<goal, request, draft>> /\ step' = [step EXCEPT ![q] = goal[q]]
    BY <1>3 DEF FinishEnsure, Goto
  <2> QED BY <2>1, EarlyStep
<1>4. CASE ReadHistory(q) /\ ~Leave(q)
  <2>1. goal[q] = "change" /\ WellKept(orders[request[q].order].history)
    BY <1>4, HasChange DEF ReadHistory, OrderInv, History, Changing
  <2> QED BY <1>4, <2>1 DEF ReadHistory, Goto, RequestInv, TypeOK, Goals
<1>5. CASE Compose(q)
  <2>1. /\ request[q] \in Changes /\ goal[q] = "change"
        /\ draft[q] \in Seq(Entry) /\ WellKept(draft[q])
    BY <1>5, HasChange DEF Compose, Changing, RequestInv, TypeOK
  <2> DEFINE e == EntryOf(request[q])
             k == KeepLast(Append(draft[q], e))
  <2>2. Owner[request[q].session] \in Accounts /\ Role[Owner[request[q].session]] # "marketing"
    BY <2>1, DeskAssumption DEF Change, RequestInv
  <2>3. /\ e \in Entry /\ e.status = request[q].status
        /\ e.actor \in Accounts => Role[e.actor] # "marketing"
    BY <2>1, <2>2, EntryType, DeskAssumption DEF EntryOf, Actor
  <2>4. WellKept(k) /\ EndsIn(k, request[q].status)
    BY <2>1, <2>3, KeepLastKeeps
  <2>5. draft' = [draft EXCEPT ![q] = k]
    BY <1>5 DEF Compose
  <2> HIDE DEF k
  <2> QED BY <1>5, <2>1, <2>4, <2>5 DEF Compose, Goto, RequestInv, TypeOK, Goals
<1>6. CASE Leave(q)
  BY <1>6, LeaveRequestInv
<1> QED BY <1>1, <1>2, <1>3, <1>4, <1>5, <1>6
        DEF Serve, Insert, Find, Write, QueryFails

\* Orders change in two ways: an insertion, and an UPDATE of both columns.
LEMMA ServeOrderInv ==
  ASSUME TypeOK, RequestInv, OrderInv, NEW q \in Requests, Serve(q)
  PROVE  OrderInv'
<1>1. CASE UNCHANGED orders
  BY <1>1 DEF OrderInv, Stored, History
<1>2. CASE Insert(q)
  <2>1. WellKept(NewOrder.history) /\ EndsIn(NewOrder.history, NewOrder.status)
    BY NewOrderKept
  <2>2. PICK o \in Orders : orders' = [orders EXCEPT ![o] = NewOrder]
    BY <1>2 DEF Insert
  <2> QED BY <2>1, <2>2 DEF OrderInv, Stored, History, TypeOK
<1>3. CASE Write(q)
  <2> DEFINE row == [status |-> request[q].status, history |-> draft[q]]
  <2>1. WellKept(row.history) /\ EndsIn(row.history, row.status)
    BY <1>3 DEF Write, RequestInv
  <2>2. orders' = [orders EXCEPT ![request[q].order] = row]
    BY <1>3 DEF Write
  <2> HIDE DEF row
  <2> QED BY <2>1, <2>2 DEF OrderInv, Stored, History, TypeOK
<1> QED BY <1>1, <1>2, <1>3
        DEF Serve, FindMissing, GiveToken, FinishEnsure, Find, ReadHistory, Compose, QueryFails, table

\* No order is ever deleted.
LEMMA StoredGrows ==
  ASSUME TypeOK, RequestInv, NEW q \in Requests, Serve(q)
  PROVE  Stored \subseteq Stored'
<1> USE DEF Stored, TypeOK, table
<1>1. CASE UNCHANGED orders
  BY <1>1
<1>2. CASE Insert(q)
  <2>1. PICK o \in Orders : orders' = [orders EXCEPT ![o] = NewOrder]
    BY <1>2 DEF Insert
  <2>2. NewOrder # NoOrder
    BY NewOrderType, DeskAssumption DEF Order
  <2> QED BY <2>1, <2>2
<1>3. CASE Write(q)
  <2> DEFINE row == [status |-> request[q].status, history |-> draft[q]]
  <2>1. request[q] \in Changes /\ request[q].status \in OrderStatuses
    BY <1>3, HasChange, DeskAssumption DEF Write, Changing, Change
  <2>2. row \in Order /\ row # NoOrder
    BY <2>1, DeskAssumption DEF Order
  <2>3. orders' = [orders EXCEPT ![request[q].order] = row]
    BY <1>3 DEF Write
  <2> HIDE DEF row
  <2> QED BY <2>2, <2>3
<1> QED BY <1>1, <1>2, <1>3
        DEF Serve, FindMissing, GiveToken, FinishEnsure, Find, ReadHistory, Compose, QueryFails

\* No order is left without a token once the flag is set, what a request still
\* has to visit covers the orders without one, and only orders have tokens.
LEMMA ServeBackfillInv ==
  ASSUME TypeOK, RequestInv, BackfillInv, FoundInv, NEW q \in Requests, Serve(q)
  PROVE  BackfillInv'
<1> USE DEF BackfillInv, Untracked, Stored, Goto, TypeOK, Goals
<1>1. CASE FindMissing(q)
  <2>1. CASE ready
    BY <1>1, <2>1 DEF FindMissing, table
  <2>2. CASE ~ready
    <3>1. /\ step' = [step EXCEPT ![q] = "backfill"]
          /\ missing' = [missing EXCEPT ![q] = Untracked]
          /\ UNCHANGED <<orders, tracking, ready>>
      BY <1>1, <2>2 DEF FindMissing, table
    <3>2. Stored' = Stored /\ Untracked' = Untracked /\ Untracked \subseteq Stored
      BY <3>1
    <3> HIDE DEF Untracked, Stored
    <3> QED BY <2>2, <3>1, <3>2
  <2> QED BY <2>1, <2>2
<1>2. CASE GiveToken(q)
  <2>1. PICK o \in missing[q] :
          /\ missing' = [missing EXCEPT ![q] = missing[q] \ {o}]
          /\ \/ tracking[o] = NoToken /\ \E k \in TrackingTokens : tracking' = [tracking EXCEPT ![o] = k]
             \/ tracking[o] # NoToken /\ tracking' = tracking
    BY <1>2 DEF GiveToken, NeedsToken, Unused
  <2>2. o \in Orders /\ tracking'[o] # NoToken
    BY <2>1, DeskAssumption
  <2>3. Untracked' \subseteq Untracked \ {o}
    BY <1>2, <2>1, <2>2 DEF GiveToken
  <2> QED BY <1>2, <2>1, <2>3 DEF GiveToken
<1>3. CASE FinishEnsure(q)
  BY <1>3 DEF FinishEnsure, AllVisited, table
<1>4. CASE Insert(q)
  <2>1. PICK o \in Orders, k \in TrackingTokens :
          /\ orders' = [orders EXCEPT ![o] = NewOrder]
          /\ tracking' = [tracking EXCEPT ![o] = k]
    BY <1>4 DEF Insert, Unused
  <2>2. Untracked' \subseteq Untracked
    BY <2>1, DeskAssumption
  <2>3. Stored' = Stored \cup {o}
    BY <2>1, NewOrderType, DeskAssumption DEF Order
  <2> QED BY <1>4, <2>1, <2>2, <2>3 DEF Insert, Leave
<1>5. CASE Leave(q) /\ UNCHANGED table
  BY <1>5 DEF Leave, table
<1>6. CASE ReadHistory(q) /\ ~Leave(q)
  <2>1. /\ step[q] = "change" /\ step' = [step EXCEPT ![q] = "compose"]
        /\ UNCHANGED <<orders, tracking, ready, missing>>
    BY <1>6 DEF ReadHistory, table
  <2>2. Stored' = Stored /\ Untracked' = Untracked
    BY <2>1
  <2>3. ready
    BY <2>1
  <2> HIDE DEF Untracked, Stored
  <2> QED BY <2>1, <2>2, <2>3
<1>7. CASE Compose(q)
  BY <1>7 DEF Compose, table
<1>8. CASE Write(q)
  <2>1. request[q].order \in Stored
    BY <1>8 DEF Write, FoundInv
  <2>2. Untracked' \subseteq Untracked
    BY <1>8, <2>1 DEF Write
  <2>3. Stored \subseteq Stored'
    BY StoredGrows
  <2> QED BY <1>8, <2>2, <2>3 DEF Write, Leave
<1> QED BY <1>1, <1>2, <1>3, <1>4, <1>5, <1>6, <1>7, <1>8
        DEF Serve, Find, ReadHistory, QueryFails

\* Orders are only ever added, and a history is read from one that is there.
LEMMA ServeFoundInv ==
  ASSUME TypeOK, RequestInv, FoundInv, NEW q \in Requests, Serve(q)
  PROVE  FoundInv'
<1> USE DEF Stored, Goto, TypeOK, Goals, table
<1>1. Stored \subseteq Stored'
  BY StoredGrows
<1>2. CASE FindMissing(q) \/ FinishEnsure(q)
  BY <1>1, <1>2 DEF FindMissing, FinishEnsure, FoundInv, RequestInv
<1>3. CASE GiveToken(q)
  BY <1>1, <1>3 DEF GiveToken, FoundInv
<1>4. CASE Leave(q)
  BY <1>1, <1>4 DEF Leave, FoundInv
<1>5. CASE ReadHistory(q) /\ ~Leave(q)
  BY <1>1, <1>5 DEF ReadHistory, FoundInv
<1>6. CASE Compose(q)
  BY <1>1, <1>6 DEF Compose, FoundInv
<1> QED BY <1>2, <1>3, <1>4, <1>5, <1>6 DEF Serve, Insert, Find, Write, QueryFails

\* Every step of the order desk, and of the sessions and restarts around it,
\* preserves the invariant.
LEMMA DeskPreserved == DeskInv /\ [Next]_vars => DeskInv'
<1> SUFFICES ASSUME DeskInv, [Next]_vars PROVE DeskInv'
  OBVIOUS
<1> USE DEF DeskInv
<1>1. ASSUME NEW q \in Requests, Call(q) PROVE DeskInv'
  <2>1. TypeOK' /\ RequestInv'
    BY <1>1, CallType, CallRequestInv
  <2>2. PICK g \in Goals, ch \in Changes \cup {NoChange} : Enter(q, g, ch)
    BY <1>1 DEF Call, CallSubmit, CallFind, CallChange, Goals
  <2>3. OrderInv'
    BY <2>2 DEF Enter, table, OrderInv, Stored, History
  <2>4. BackfillInv' /\ FoundInv'
    BY <2>2 DEF Enter, Goto, table, BackfillInv, FoundInv, Untracked, Stored, TypeOK
  <2> QED BY <2>1, <2>3, <2>4
<1>2. ASSUME NEW q \in Requests, Serve(q) PROVE DeskInv'
  BY <1>2, ServeType, HasChange, ServeRequestInv, ServeOrderInv, ServeBackfillInv, ServeFoundInv
     DEF Changing
<1>3. ASSUME UNCHANGED <<table, ready, step, goal, request, missing, draft>>,
             live' \subseteq Sessions
      PROVE  DeskInv'
  BY <1>3 DEF table, TypeOK, RequestInv, OrderInv, BackfillInv, FoundInv, Untracked, Stored, History
<1>4. ASSUME NEW s \in Sessions, SessionEnds(s) \/ SessionOpens(s) PROVE DeskInv'
  BY <1>3, <1>4 DEF SessionEnds, SessionOpens, TypeOK
<1>5. CASE Restart
  <2>1. draft' \in [Requests -> Seq(Entry)]
    BY <1>5 DEF Restart
  <2>2. TypeOK'
    BY <1>5, <2>1 DEF Restart, table, TypeOK, Steps, Goals
  <2>3. OrderInv'
    BY <1>5 DEF Restart, table, OrderInv, Stored, History
  <2>4. RequestInv' /\ BackfillInv' /\ FoundInv'
    BY <1>5 DEF Restart, table, RequestInv, BackfillInv, FoundInv, Untracked, Stored, Goals
  <2> QED BY <2>2, <2>3, <2>4
<1>6. CASE UNCHANGED vars
  BY <1>3, <1>6 DEF vars, table, TypeOK
<1> QED BY <1>1, <1>2, <1>4, <1>5, <1>6 DEF Next

\* The inductive invariant, from which the theorems below follow.
THEOREM DeskInvariant == Spec => []DeskInv
  BY DeskInit, DeskPreserved, PTL DEF Spec

-----------------------------------------------------------------------------
(* What it shows *)

\* Orders, requests and what they have read are well formed.
THEOREM DeskTypeCorrect == Spec => []TypeOK
<1>1. DeskInv => TypeOK
  BY DEF DeskInv
<1> QED BY <1>1, DeskInvariant, PTL

\* However status changes overlap, status_history ends in the order's status.
THEOREM StatusAndHistoryAgree == Spec => []HistoryEndsInStatus
<1>1. DeskInv => HistoryEndsInStatus
  BY DEF DeskInv, OrderInv, EndsIn, HistoryEndsInStatus
<1> QED BY <1>1, DeskInvariant, PTL

\* However status changes overlap, the submission is only dropped by the limit.
THEOREM SubmissionIsKept == Spec => []SubmissionKept
<1>1. DeskInv => SubmissionKept
  BY DEF DeskInv, OrderInv, WellKept, SubmissionKept
<1> QED BY <1>1, DeskInvariant, PTL

\* No entry of a history is by an account that may not change orders.
THEOREM OnlyDeskEntries == Spec => []OnlyTheDeskWrites
<1>1. DeskInv => OnlyTheDeskWrites
  BY DEF DeskInv, OrderInv, WellKept, OnlyTheDeskWrites
<1> QED BY <1>1, DeskInvariant, PTL

\* No request works on orders before the backfill is over.
THEOREM BackfillBeforeWork == Spec => []AllTrackedBeforeWork
<1>1. DeskInv => AllTrackedBeforeWork
  BY DEF DeskInv, BackfillInv, Untracked, AllTrackedBeforeWork
<1> QED BY <1>1, DeskInvariant, PTL

\* A tracking token is given once, by the insertion of its order or by the one
\* UPDATE of the backfill that finds the column NULL.
LEMMA TokenStep ==
  ASSUME DeskInv, [Next]_vars, NEW o \in Orders, tracking[o] # NoToken
  PROVE  tracking'[o] = tracking[o]
<1>1. CASE UNCHANGED tracking
  BY <1>1
<1>2. ASSUME NEW q \in Requests, GiveToken(q) PROVE tracking'[o] = tracking[o]
  BY <1>2 DEF GiveToken, NeedsToken, DeskInv, TypeOK
<1>3. ASSUME NEW q \in Requests, Insert(q) PROVE tracking'[o] = tracking[o]
  <2>1. PICK p \in Orders \ Stored, k \in Unused : tracking' = [tracking EXCEPT ![p] = k]
    BY <1>3 DEF Insert
  <2>2. o # p
    BY DEF DeskInv, BackfillInv
  <2> QED BY <2>1, <2>2
<1> QED BY <1>1, <1>2, <1>3
        DEF Next, Call, Serve, CallSubmit, CallFind, CallChange, Enter, FindMissing, FinishEnsure,
            Find, ReadHistory, Compose, Write, QueryFails, SessionEnds, SessionOpens, Restart,
            table, vars

\* Concurrent backfills, restarts and status changes never replace a token.
THEOREM TokensStay == Spec => TokensAreKept
<1>1. DeskInv /\ [Next]_vars
        => [\A o \in Orders : tracking[o] # NoToken => tracking'[o] = tracking[o]]_vars
  BY TokenStep
<1> QED BY <1>1, DeskInvariant, PTL DEF Spec, TokensAreKept

=============================================================================
