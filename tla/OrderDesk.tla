------------------------------- MODULE OrderDesk -------------------------------
(***************************************************************************)
(* Service orders in routes/admin.ts: customers submit and track them, the *)
(* team changes their status.  Every handler first awaits                  *)
(* ensureServiceOrdersTable, which gives the orders of earlier versions a  *)
(* tracking token; then it awaits its own statements.  Between two awaits  *)
(* any other handler may run, a session may end, and the process may       *)
(* restart: it keeps the table and forgets the rest.                       *)
(*                                                                         *)
(* A status change is a SELECT of status_history, a continuation that      *)
(* looks the session up AGAIN and appends an entry, and an UPDATE of both  *)
(* status and status_history.                                              *)
(*                                                                         *)
(* Left out: what an order says besides its status, the provider it names, *)
(* timestamps and notes, and the rate limiter in front of the tracking     *)
(* route.  Sessions are only what these handlers see of them: present or   *)
(* gone; TeamAccounts models how they begin and end.                       *)
(***************************************************************************)
EXTENDS Naturals, Sequences, FiniteSets

CONSTANTS
  Orders,         \* orders, stored or still to be submitted
  OldOrders,      \* stored by a version without tracking tokens
  TrackingTokens, \* random, never drawn twice
  OrderStatuses,  \* the set orderStatuses
  Submitted,      \* the status an order is stored with
  Sessions,       \* bearer tokens
  Owner,          \* the account each session belongs to
  Role,           \* the role of each account
  Admin,          \* the display name of the administrator
  Unknown,        \* the entry's actor when the session has gone
  Customer,       \* the actor of an order's first entry
  Changes,        \* status changes that may be requested
  HistoryLimit,   \* the 100 of slice(-100)
  Requests,       \* requests the process is serving at the same time
  NoOrder, NoToken, NoChange

Accounts == {Owner[s] : s \in Sessions} \cup {Admin}

Entry == [status: OrderStatuses, actor: Accounts \cup {Unknown, Customer}]

Change == [route: {"team", "admin"}, session: Sessions,
           order: Orders, status: OrderStatuses]

ASSUME DeskAssumption ==
  /\ OldOrders \subseteq Orders
  /\ Submitted \in OrderStatuses
  /\ Owner \in [Sessions -> Accounts]
  /\ Role \in [Accounts -> {"admin", "service_coordinator", "marketing"}]
  /\ Role[Admin] = "admin"
  /\ Changes \subseteq Change
  /\ HistoryLimit \in Nat \ {0}
  /\ NoToken \notin TrackingTokens
  /\ NoChange \notin Changes
  /\ NoOrder \notin [status: OrderStatuses, history: Seq(Entry)]
  /\ {Unknown, Customer} \cap Accounts = {}
  /\ Unknown # Customer

VARIABLES
  orders,     \* hormoz_service_orders, by id
  tracking,   \* their column tracking_token
  ready,      \* serviceOrdersTableReady
  live,       \* the sessions getSessionInfo finds
  step, goal, \* where each request stands, and what it does once the table is ready
  request,    \* the status change it asks for
  missing,    \* missingTokens.rows it has still to visit
  draft       \* the history it has read, then the one it will write

table == <<orders, tracking>>
vars  == <<orders, tracking, ready, live, step, goal, request, missing, draft>>

Order == [status: OrderStatuses, history: Seq(Entry)]

\* "insert": POST /orders; "find": a route that only reads orders; "change":
\* one of the two PATCH routes.
Goals == {"insert", "find", "change"}

Steps == {"idle", "ensure", "backfill", "compose", "write"} \cup Goals

TypeOK ==
  /\ orders \in [Orders -> Order \cup {NoOrder}]
  /\ tracking \in [Orders -> TrackingTokens \cup {NoToken}]
  /\ ready \in BOOLEAN
  /\ live \subseteq Sessions
  /\ step \in [Requests -> Steps]
  /\ goal \in [Requests -> Goals]
  /\ request \in [Requests -> Changes \cup {NoChange}]
  /\ \A q \in Requests : goal[q] = "change" /\ step[q] # "idle" => request[q] \in Changes
  /\ missing \in [Requests -> SUBSET Orders]
  /\ draft \in [Requests -> Seq(Entry)]

FirstEntry == [status |-> Submitted, actor |-> Customer]
NewOrder   == [status |-> Submitted, history |-> <<FirstEntry>>]

\* Orders of a version without tokens hold what its INSERT wrote, like the
\* legacy order of test/order-tracking.integration.test.ts.
Init ==
  /\ orders = [o \in Orders |-> IF o \in OldOrders THEN NewOrder ELSE NoOrder]
  /\ tracking = [o \in Orders |-> NoToken]
  /\ ready = FALSE
  /\ live \in SUBSET Sessions
  /\ step = [q \in Requests |-> "idle"]
  /\ goal = [q \in Requests |-> "find"]
  /\ request = [q \in Requests |-> NoChange]
  /\ missing = [q \in Requests |-> {}]
  /\ draft = [q \in Requests |-> <<>>]

-----------------------------------------------------------------------------
Stored  == {o \in Orders : orders[o] # NoOrder}
Unused  == TrackingTokens \ {tracking[o] : o \in Orders}
Goto(q, s) == step' = [step EXCEPT ![q] = s]

Enter(q, g, ch) ==
  /\ step[q] = "idle"
  /\ Goto(q, "ensure")
  /\ goal' = [goal EXCEPT ![q] = g]
  /\ request' = [request EXCEPT ![q] = ch]
  /\ UNCHANGED <<table, ready, live, missing, draft>>

\* An answer or an error.
Leave(q) ==
  /\ Goto(q, "idle")
  /\ goal' = [goal EXCEPT ![q] = "find"]
  /\ request' = [request EXCEPT ![q] = NoChange]
  /\ missing' = [missing EXCEPT ![q] = {}]
  /\ draft' = [draft EXCEPT ![q] = <<>>]
  /\ UNCHANGED <<ready, live>>

CallSubmit(q) == Enter(q, "insert", NoChange)
CallFind(q)   == Enter(q, "find", NoChange)

\* isServiceCoordinator and isAdmin look at the session on arrival only.
AllowedRoles(route) == IF route = "admin" THEN {"admin"} ELSE {"admin", "service_coordinator"}

CallChange(q, ch) ==
  /\ ch.session \in live
  /\ Role[Owner[ch.session]] \in AllowedRoles(ch.route)
  /\ Enter(q, "change", ch)

-----------------------------------------------------------------------------
(* ensureServiceOrdersTable *)

\* The flag is read, or else the ids of the orders without a token.
FindMissing(q) ==
  /\ step[q] = "ensure"
  /\ \/ /\ ready
        /\ Goto(q, goal[q])
        /\ UNCHANGED missing
     \/ /\ ~ready
        /\ missing' = [missing EXCEPT ![q] = {o \in Stored : tracking[o] = NoToken}]
        /\ Goto(q, "backfill")
  /\ UNCHANGED <<table, ready, live, goal, request, draft>>

NeedsTokenStill(o) == TRUE    \* mutant: no "AND tracking_token IS NULL"
NeedsToken(o) == tracking[o] = NoToken

\* UPDATE ... WHERE id AND tracking_token IS NULL, for one of the rows.
GiveToken(q) ==
  /\ step[q] = "backfill"
  /\ \E o \in missing[q] :
       /\ missing' = [missing EXCEPT ![q] = @ \ {o}]
       /\ \/ /\ NeedsToken(o)
             /\ \E k \in Unused : tracking' = [tracking EXCEPT ![o] = k]
          \/ /\ ~NeedsToken(o)
             /\ UNCHANGED tracking
  /\ UNCHANGED <<orders, ready, live, step, goal, request, draft>>

ReadyAtOnce(q) == TRUE    \* mutant: the flag is set before the loop has ended
AllVisited(q) == missing[q] = {}

\* CREATE UNIQUE INDEX, and the flag.
FinishEnsure(q) ==
  /\ step[q] = "backfill"
  /\ AllVisited(q)
  /\ ready' = TRUE
  /\ Goto(q, goal[q])
  /\ UNCHANGED <<table, live, goal, request, missing, draft>>

-----------------------------------------------------------------------------
Insert(q) ==
  /\ step[q] = "insert"
  /\ \E o \in Orders \ Stored, k \in Unused :
       /\ orders' = [orders EXCEPT ![o] = NewOrder]
       /\ tracking' = [tracking EXCEPT ![o] = k]
  /\ Leave(q)

Find(q) == step[q] = "find" /\ Leave(q) /\ UNCHANGED table

(* PATCH /team/orders/:id/status and PATCH /admin/orders/:id/status *)

ReadHistory(q) ==
  LET o == request[q].order IN
  /\ step[q] = "change"
  /\ \/ o \notin Stored /\ Leave(q)
     \/ /\ o \in Stored
        /\ draft' = [draft EXCEPT ![q] = orders[o].history]
        /\ Goto(q, "compose")
        /\ UNCHANGED <<ready, live, goal, request, missing>>
  /\ UNCHANGED table

\* Who made the change, as far as the session tells by now.
Actor(ch) == IF ch.session \in live THEN Owner[ch.session]
             ELSE IF ch.route = "admin" THEN Admin ELSE Unknown

KeepFirst(h) == IF Len(h) > HistoryLimit THEN SubSeq(h, 1, HistoryLimit) ELSE h  \* mutant
KeepLast(h) ==
  IF Len(h) > HistoryLimit THEN SubSeq(h, Len(h) - HistoryLimit + 1, Len(h)) ELSE h

EntryOf(ch) == [status |-> ch.status, actor |-> Actor(ch)]

\* The continuation: the new history from the one that was read.
Compose(q) ==
  /\ step[q] = "compose"
  /\ draft' = [draft EXCEPT ![q] = KeepLast(Append(@, EntryOf(request[q])))]
  /\ Goto(q, "write")
  /\ UNCHANGED <<table, ready, live, goal, request, missing>>

\* UPDATE ... SET status, status_history.
Write(q) ==
  /\ step[q] = "write"
  /\ orders' = [orders EXCEPT ![request[q].order] =
                  [status |-> request[q].status, history |-> draft[q]]]
  /\ Leave(q)
  /\ UNCHANGED tracking

-----------------------------------------------------------------------------
\* A query is rejected: the handler answers 503.  (One whose answer is lost
\* after it took effect changes what Insert and Write change.)
QueryFails(q) ==
  /\ step[q] \notin {"idle", "compose"}
  /\ Leave(q)
  /\ UNCHANGED table

\* A session is closed, expires, or is opened with a token nobody has used.
SessionEnds(s) ==
  /\ s \in live
  /\ live' = live \ {s}
  /\ UNCHANGED <<table, ready, step, goal, request, missing, draft>>

SessionOpens(s) ==
  /\ s \notin live
  /\ \A q \in Requests : request[q] # NoChange => request[q].session # s
  /\ live' = live \cup {s}
  /\ UNCHANGED <<table, ready, step, goal, request, missing, draft>>

Restart ==
  /\ ready' = FALSE
  /\ live' = {}
  /\ step' = [q \in Requests |-> "idle"]
  /\ goal' = [q \in Requests |-> "find"]
  /\ request' = [q \in Requests |-> NoChange]
  /\ missing' = [q \in Requests |-> {}]
  /\ draft' = [q \in Requests |-> <<>>]
  /\ UNCHANGED table

Call(q) ==
  \/ CallSubmit(q) \/ CallFind(q)
  \/ \E ch \in Changes : CallChange(q, ch)

Serve(q) ==
  \/ FindMissing(q) \/ GiveToken(q) \/ FinishEnsure(q)
  \/ Insert(q) \/ Find(q)
  \/ ReadHistory(q) \/ Compose(q) \/ Write(q)
  \/ QueryFails(q)

Next ==
  \/ \E q \in Requests : Call(q) \/ Serve(q)
  \/ \E s \in Sessions : SessionEnds(s) \/ SessionOpens(s)
  \/ Restart

Spec == Init /\ [][Next]_vars

-----------------------------------------------------------------------------
(* Properties *)

History(o) == orders[o].history

\* Lost updates included (see HistoryKeepsEveryChange), the two columns never
\* contradict each other: the last entry of status_history is the status that
\* the customer is shown, also after slice(-100) has dropped entries.
HistoryEndsInStatus ==
  \A o \in Stored : LET h == History(o) IN h # <<>> /\ h[Len(h)].status = orders[o].status

\* Until the limit is reached a history still begins with the submission,
\* whatever overlapping changes have overwritten each other.
SubmissionKept ==
  \A o \in Stored : Len(History(o)) < HistoryLimit => History(o)[1] = FirstEntry

\* Later entries are the administrator's, a service coordinator's, or by no
\* known account: a session of another role leaves no trace in an order.
OnlyTheDeskWrites ==
  \A o \in Stored : \A i \in 1..Len(History(o)) :
    History(o)[i].actor \in Accounts => Role[History(o)[i].actor] # "marketing"

\* A tracking token, once a customer may have it, is never replaced: not by
\* two first requests backfilling the same order at once, not by the backfill
\* after a restart.
TokensAreKept ==
  [][\A o \in Orders : tracking[o] # NoToken => tracking'[o] = tracking[o]]_vars

\* "Backfill older orders ... before public lookup is enabled" (admin.ts:227):
\* no request works on orders before every stored order has a token.
AllTrackedBeforeWork ==
  \A q \in Requests :
    step[q] \notin {"idle", "ensure", "backfill"} =>
      \A o \in Stored : tracking[o] # NoToken

\* docs/team-orders-accountability.md:10, "Status history records the staff
\* display name, role, timestamp, and note": a status change adds its entry to
\* the history that is there, if need be dropping the oldest.
HistoryKeepsEveryChange ==
  [][\A o \in Stored :
       \/ History(o)' = History(o)
       \/ \E e \in Entry : History(o)' = KeepLast(Append(History(o), e))]_vars

=============================================================================
