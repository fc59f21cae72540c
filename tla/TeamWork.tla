------------------------------- MODULE TeamWork -------------------------------
(***************************************************************************)
(* Team work and its payroll in routes/admin.ts.  The administrator        *)
(* defines work, members report it, the administrator approves a report    *)
(* with a reward or rejects it.  At the end of a month he reads the        *)
(* payroll, transfers each member's unpaid sum OUTSIDE the system, and     *)
(* records the receipt: payroll/mark-paid marks what is approved and       *)
(* unpaid WHEN IT RUNS.                                                    *)
(*                                                                         *)
(* Requests are browser tabs, each with at most one request under way; the *)
(* statement of a request takes effect at one moment, and others run       *)
(* between two of them.  Nothing is kept in memory, so a restart is no     *)
(* more than requests that fail.                                           *)
(*                                                                         *)
(* A payroll line is the set of reports it sums up: its three amounts are  *)
(* sums over that set and over those of its reports that are paid or not.  *)
(* Left out: what works and reports say, and the sessions (TeamAccounts).  *)
(***************************************************************************)
EXTENDS Naturals

CONSTANTS
  Works, Members,
  ReportIds,   \* random, never drawn twice
  Rewards,     \* amounts an administrator may type
  MaxReward,   \* the limit of the review route
  LastMonth,   \* bound: months that pass
  References,  \* receipts of transfers
  Requests,
  NoReport, NoReference, NoTransfer

Idle == [at |-> "idle"]

ASSUME TeamWorkAssumption ==
  /\ Rewards \subseteq Nat /\ MaxReward \in Nat /\ LastMonth \in Nat \ {0}
  /\ NoReference \notin References
  /\ NoReport  \notin [work: Works, member: Members, reward: Nat, month: Nat,
                       status: {"submitted", "approved", "rejected"},
                       reference: References \cup {NoReference}]
  /\ NoTransfer \notin [member: Members, month: Nat, reports: SUBSET ReportIds, closed: BOOLEAN]

VARIABLES
  month,      \* the clock
  works,      \* hormoz_team_work_items
  reports,    \* hormoz_team_work_submissions, by id
  request,    \* where each request stands, and what it holds
  transfers   \* what was really paid under each receipt (outside the system)

vars == <<month, works, reports, request, transfers>>

Months == 1..LastMonth

\* month: that of reviewed_at, 0 when not reviewed; reference: NoReference when not paid.
Report == [work: Works, member: Members, reward: 0..MaxReward, month: 0..LastMonth,
           status: {"submitted", "approved", "rejected"},
           reference: References \cup {NoReference}]

\* What the administrator sees of a member's month and then transfers: the
\* reports in the unpaid sum.  closed: no review could still join that month.
Sheet == [member: Members, month: Months, reports: SUBSET ReportIds, closed: BOOLEAN]

Request ==
  {Idle}
  \cup [at: {"find", "insert"}, work: Works, member: Members]
  \cup [at: {"review"}, reward: 0..MaxReward, status: {"approved", "rejected"},
        report: ReportIds, since: Months]
  \cup [at: {"payroll"}, member: Members, month: Months]
  \cup [at: {"sheet"}, sheet: Sheet]
  \cup [at: {"mark"}, reference: References]

TypeOK ==
  /\ month \in Months
  /\ works \subseteq Works
  /\ reports \in [ReportIds -> Report \cup {NoReport}]
  /\ request \in [Requests -> Request]
  /\ transfers \in [References -> Sheet \cup {NoTransfer}]

Init ==
  /\ month = 1
  /\ works = {}
  /\ reports = [r \in ReportIds |-> NoReport]
  /\ request = [q \in Requests |-> Idle]
  /\ transfers = [f \in References |-> NoTransfer]

-----------------------------------------------------------------------------
At(q, s) == request[q].at = s

Goto(q, s) == request' = [request EXCEPT ![q] = s]

\* A request is sent: nothing has happened yet.
Send(q, s) ==
  /\ At(q, "idle")
  /\ Goto(q, s)
  /\ UNCHANGED <<month, works, reports, transfers>>

Stored == {r \in ReportIds : reports[r] # NoReport}

-----------------------------------------------------------------------------
(* POST /admin/work: one INSERT *)

DefineWork(w) ==
  /\ works' = works \cup {w}
  /\ UNCHANGED <<month, reports, request, transfers>>

(* POST /team/work/:id/submit *)

CallSubmit(q, w, m) == Send(q, [at |-> "find", work |-> w, member |-> m])

\* SELECT of the work item: a 404 unless it is there.  No route closes one.
FindWork(q) ==
  /\ At(q, "find")
  /\ Goto(q, IF request[q].work \in works THEN [request[q] EXCEPT !.at = "insert"] ELSE Idle)
  /\ UNCHANGED <<month, works, reports, transfers>>

Submission(w, m) == [work |-> w, member |-> m, reward |-> 0, month |-> 0,
                     status |-> "submitted", reference |-> NoReference]

TakenPending(w, m) ==    \* mutant: the index only covers reports not reviewed yet
  \E r \in Stored : reports[r].work = w /\ reports[r].member = m /\ reports[r].status = "submitted"
Taken(w, m) == \E r \in Stored : reports[r].work = w /\ reports[r].member = m

\* INSERT: a 409 when UNIQUE (work_id, member_id) refuses it.
InsertReport(q) ==
  /\ At(q, "insert")
  /\ LET w == request[q].work
         m == request[q].member
     IN IF Taken(w, m) THEN UNCHANGED reports
        ELSE \E r \in ReportIds \ Stored : reports' = [reports EXCEPT ![r] = Submission(w, m)]
  /\ Goto(q, Idle)
  /\ UNCHANGED <<month, works, transfers>>

-----------------------------------------------------------------------------
(* PATCH /admin/work/submissions/:id *)

ValidReward(n) == n <= MaxReward

CallReview(q, r, status, n) ==
  /\ ValidReward(n)
  /\ Send(q, [at |-> "review", reward |-> IF status = "approved" THEN n ELSE 0,
              status |-> status, report |-> r, since |-> month])

Reviewable(r) == r \in Stored /\ reports[r].status = "submitted"

\* UPDATE ... WHERE status='submitted'; reviewed_at is the time the statement
\* began, which is not before the request.
Review(q) ==
  /\ At(q, "review")
  /\ LET v == request[q]
     IN IF ~Reviewable(v.report) THEN UNCHANGED reports
        ELSE \E now \in v.since..month :
               reports' = [reports EXCEPT ![v.report].status = v.status,
                                          ![v.report].reward = v.reward,
                                          ![v.report].month = now]
  /\ Goto(q, Idle)
  /\ UNCHANGED <<month, works, transfers>>

-----------------------------------------------------------------------------
(* GET /admin/payroll *)

InMonthOrLater(r, mo) == reports[r].month >= mo    \* mutant: the upper end of the interval is missing
InMonth(r, mo) == reports[r].month = mo

Approved(m, mo) == {r \in Stored : /\ reports[r].member = m
                                   /\ reports[r].status = "approved"
                                   /\ InMonth(r, mo)}

Unpaid(r) == reports[r].reference = NoReference

\* No review can be dated in that month any more: it is over, and every review
\* sent in it has been answered or has failed.
Closed(mo) == mo < month /\ \A q \in Requests : At(q, "review") => mo < request[q].since

CallPayroll(q, m, mo) == Send(q, [at |-> "payroll", member |-> m, month |-> mo])

ReadPayroll(q) ==
  /\ At(q, "payroll")
  /\ LET m == request[q].member
         mo == request[q].month
     IN Goto(q, [at |-> "sheet", sheet |->
                  [member |-> m, month |-> mo,
                   reports |-> {r \in Approved(m, mo) : Unpaid(r)},
                   closed |-> Closed(mo)]])
  /\ UNCHANGED <<month, works, reports, transfers>>

(* POST /admin/payroll/mark-paid *)

\* The panel offers the button when the unpaid sum is positive.  The
\* administrator transfers it, types the receipt and presses the button.
CallMarkPaid(q, f) ==
  /\ At(q, "sheet")
  /\ \E r \in request[q].sheet.reports : reports[r].reward > 0
  /\ transfers[f] = NoTransfer
  /\ transfers' = [transfers EXCEPT ![f] = request[q].sheet]
  /\ Goto(q, [at |-> "mark", reference |-> f])
  /\ UNCHANGED <<month, works, reports>>

\* No answer came, or an error: the same receipt is sent again.
CallMarkAgain(q, f) == transfers[f] # NoTransfer /\ Send(q, [at |-> "mark", reference |-> f])

MarkableSince(r, m, mo) ==    \* mutant: the upper end of the interval is missing
  r \in Stored /\ reports[r].member = m /\ reports[r].status = "approved" /\ reports[r].month >= mo /\ Unpaid(r)
MarkableAgain(r, m, mo) == r \in Approved(m, mo)    \* mutant: paid_at IS NULL is not asked
Markable(r, m, mo) == r \in Approved(m, mo) /\ Unpaid(r)

\* UPDATE of every row that qualifies now.  It may take effect and lose its answer.
MarkPaid(q) ==
  /\ At(q, "mark")
  /\ LET f == request[q].reference
         t == transfers[f]
     IN reports' = [r \in ReportIds |->
                     IF Markable(r, t.member, t.month)
                     THEN [reports[r] EXCEPT !.reference = f] ELSE reports[r]]
  /\ Goto(q, Idle)
  /\ UNCHANGED <<month, works, transfers>>

-----------------------------------------------------------------------------
\* A statement is rejected without effect, the process dies, or the
\* administrator leaves the sheet.
Fails(q) ==
  /\ ~At(q, "idle")
  /\ Goto(q, Idle)
  /\ UNCHANGED <<month, works, reports, transfers>>

MonthPasses ==
  /\ month < LastMonth
  /\ month' = month + 1
  /\ UNCHANGED <<works, reports, request, transfers>>

Call(q) ==
  \/ \E w \in Works, m \in Members : CallSubmit(q, w, m)
  \/ \E r \in ReportIds, s \in {"approved", "rejected"}, n \in Rewards : CallReview(q, r, s, n)
  \/ \E m \in Members, mo \in Months : CallPayroll(q, m, mo)
  \/ \E f \in References : CallMarkPaid(q, f) \/ CallMarkAgain(q, f)

Serve(q) ==
  FindWork(q) \/ InsertReport(q) \/ Review(q) \/ ReadPayroll(q) \/ MarkPaid(q) \/ Fails(q)

Next ==
  \/ MonthPasses
  \/ \E w \in Works : DefineWork(w)
  \/ \E q \in Requests : Call(q) \/ Serve(q)

Spec == Init /\ [][Next]_vars

-----------------------------------------------------------------------------
(* Properties *)

\* However many tabs submit at once, and however often a member submits again
\* after a lost answer or a rejection: one report per member and work item.
OneReportPerWork ==
  \A r, s \in Stored :
    reports[r].work = reports[s].work /\ reports[r].member = reports[s].member => r = s

\* What payroll and receipts rest on never moves: a decided report keeps its
\* verdict, reward and month whatever reviews of it are still under way, and a
\* paid one its receipt whatever is marked again.
SettledReportsStand ==
  [][\A r \in Stored :
       LET old == reports[r]
           new == reports'[r]
       IN /\ old.status # "submitted" =>
               /\ new.status = old.status
               /\ new.reward = old.reward
               /\ new.month = old.month
          /\ ~Unpaid(r) => new.reference = old.reference]_vars

\* What the total of a payroll line is the sum of.
Payslip(m, mo) == [r \in Approved(m, mo) |-> reports[r].reward]

\* The payroll of a month that is over, and whose last reviews have landed, is
\* the same whenever it is read: no later review, submission or payment moves a
\* total that has been paid by.
ClosedPayslipsStand ==
  [][\A m \in Members, mo \in Months : Closed(mo) => Payslip(m, mo)' = Payslip(m, mo)]_vars

Covered(r) == r \in transfers[reports[r].reference].reports

\* For closed months, read and mark-paid may be as far apart as they like: a
\* report is recorded as paid only under a receipt whose transfer contained its
\* reward, whatever is approved, marked by others or sent again in between.
ClosedMonthsPaidInFull ==
  \A r \in Stored : ~Unpaid(r) =>
    LET t == transfers[reports[r].reference]
    IN t # NoTransfer /\ (t.closed => Covered(r))

\* What mark-paid says of itself (admin.ts:1773), "this operation only records
\* the real payment", and the panel asks to be confirmed: every reward recorded
\* as paid was part of the sum that was transferred under its receipt.
PaidRewardsWerePaid == \A r \in Stored : ~Unpaid(r) /\ reports[r].reward > 0 => Covered(r)

=============================================================================
