---------------------------- MODULE TeamWorkProofs ----------------------------
(***************************************************************************)
(* Proofs about TeamWork, for any members, works, receipts, rewards,       *)
(* requests and months: its type invariant and its four safety properties. *)
(***************************************************************************)
EXTENDS TeamWork, TLAPS

\* A request holds what its kind of request holds.
LEMMA Holds ==
  ASSUME TypeOK, NEW q \in Requests
  PROVE  /\ At(q, "find") \/ At(q, "insert") =>
              request[q].work \in Works /\ request[q].member \in Members
         /\ At(q, "review") =>
              /\ request[q].report \in ReportIds
              /\ request[q].status \in {"approved", "rejected"}
              /\ request[q].reward \in 0..MaxReward
              /\ request[q].since \in Months
         /\ At(q, "payroll") => request[q].member \in Members /\ request[q].month \in Months
         /\ At(q, "sheet") => request[q].sheet \in Sheet
         /\ At(q, "mark") => request[q].reference \in References
<1>1. request[q] \in Request
  BY DEF TypeOK
<1> QED BY <1>1 DEF Request, Idle, At

\* A stored report is a row of the table, and only a stored one is.
LEMMA Rows ==
  ASSUME TypeOK, NEW r \in ReportIds
  PROVE  r \in Stored <=> reports[r] \in Report
<1>1. NoReport \notin Report
  BY TeamWorkAssumption DEF Report
<1> QED BY <1>1 DEF TypeOK, Stored

-----------------------------------------------------------------------------
(* What a step may do to a report *)

Inserted(r) == /\ r \notin Stored
               /\ \E w \in Works, m \in Members :
                    ~Taken(w, m) /\ reports' = [reports EXCEPT ![r] = Submission(w, m)]

Decided(r) == \E q \in Requests :
  /\ At(q, "review")
  /\ request[q].report = r
  /\ Reviewable(r)
  /\ \E now \in request[q].since..month :
       reports' = [reports EXCEPT ![r].status = request[q].status,
                                  ![r].reward = request[q].reward,
                                  ![r].month = now]

Marked(r) == \E q \in Requests :
  /\ At(q, "mark")
  /\ LET f == request[q].reference
     IN /\ Markable(r, transfers[f].member, transfers[f].month)
        /\ reports'[r] = [reports[r] EXCEPT !.reference = f]

\* A report is inserted, decided or marked as paid, or left alone.
LEMMA ReportStep ==
  ASSUME TypeOK, [Next]_vars, NEW r \in ReportIds
  PROVE  reports'[r] = reports[r] \/ Inserted(r) \/ Decided(r) \/ Marked(r)
<1>1. CASE \E q \in Requests : InsertReport(q)
  <2>1. PICK q \in Requests : InsertReport(q)
    BY <1>1
  <2>2. request[q].work \in Works /\ request[q].member \in Members
    BY <2>1, Holds DEF InsertReport
  <2>3. CASE UNCHANGED reports
    BY <2>3
  <2>4. CASE /\ ~Taken(request[q].work, request[q].member)
             /\ \E s \in ReportIds \ Stored :
                  reports' = [reports EXCEPT ![s] = Submission(request[q].work, request[q].member)]
    BY <2>2, <2>4 DEF Inserted, TypeOK
  <2> QED BY <2>1, <2>3, <2>4 DEF InsertReport
<1>2. CASE \E q \in Requests : Review(q)
  <2>1. PICK q \in Requests : Review(q)
    BY <1>2
  <2>2. CASE UNCHANGED reports
    BY <2>2
  <2>3. CASE /\ Reviewable(request[q].report)
             /\ \E now \in request[q].since..month :
                  reports' = [reports EXCEPT ![request[q].report].status = request[q].status,
                                             ![request[q].report].reward = request[q].reward,
                                             ![request[q].report].month = now]
    <3>1. CASE request[q].report = r
      BY <2>1, <2>3, <3>1 DEF Decided, Review
    <3>2. CASE request[q].report # r
      BY <2>3, <3>2 DEF TypeOK
    <3> QED BY <3>1, <3>2
  <2> QED BY <2>1, <2>2, <2>3 DEF Review
<1>3. CASE \E q \in Requests : MarkPaid(q)
  BY <1>3 DEF MarkPaid, Marked
<1>4. CASE UNCHANGED reports
  BY <1>4
<1> QED BY <1>1, <1>2, <1>3, <1>4
  DEF Next, Call, Serve, DefineWork, MonthPasses, Fails, Send, CallSubmit, CallReview,
      CallPayroll, CallMarkPaid, CallMarkAgain, FindWork, ReadPayroll, vars

-----------------------------------------------------------------------------
(* Types *)

\* What a step writes into the table is a row.
LEMMA RowStep ==
  ASSUME TypeOK, [Next]_vars, NEW r \in ReportIds
  PROVE  reports'[r] \in Report \cup {NoReport}
<1>1. CASE reports'[r] = reports[r]
  BY <1>1 DEF TypeOK
<1>2. CASE Inserted(r)
  <2>1. PICK w \in Works, m \in Members : reports' = [reports EXCEPT ![r] = Submission(w, m)]
    BY <1>2 DEF Inserted
  <2>2. reports'[r] = Submission(w, m)
    BY <2>1 DEF TypeOK
  <2> QED BY <2>2, TeamWorkAssumption DEF Submission, Report
<1>3. CASE Decided(r)
  <2> PICK q \in Requests :
          /\ At(q, "review")
          /\ Reviewable(r)
          /\ \E now \in request[q].since..month :
               reports' = [reports EXCEPT ![r].status = request[q].status,
                                          ![r].reward = request[q].reward,
                                          ![r].month = now]
    BY <1>3 DEF Decided
  <2>1. PICK now \in request[q].since..month :
          reports' = [reports EXCEPT ![r].status = request[q].status,
                                     ![r].reward = request[q].reward,
                                     ![r].month = now]
    OBVIOUS
  <2>2. /\ request[q].status \in {"approved", "rejected"}
        /\ request[q].reward \in 0..MaxReward
        /\ now \in 0..LastMonth
    BY Holds, TeamWorkAssumption DEF TypeOK, Months
  <2>3. reports[r] \in Report
    BY Rows DEF Reviewable
  <2>4. reports'[r] = [reports[r] EXCEPT !.status = request[q].status,
                                         !.reward = request[q].reward,
                                         !.month = now]
    BY <2>1 DEF TypeOK
  <2> QED BY <2>2, <2>3, <2>4 DEF Report
<1>4. CASE Marked(r)
  <2>1. PICK q \in Requests :
          /\ At(q, "mark")
          /\ r \in Stored
          /\ reports'[r] = [reports[r] EXCEPT !.reference = request[q].reference]
    BY <1>4 DEF Marked, Markable, Approved
  <2>2. reports[r] \in Report /\ request[q].reference \in References
    BY <2>1, Rows, Holds
  <2> QED BY <2>1, <2>2 DEF Report
<1> QED BY <1>1, <1>2, <1>3, <1>4, ReportStep

\* The table has the same ids after a step.
LEMMA TableStep == ASSUME TypeOK, [Next]_vars
                   PROVE  reports' = [r \in ReportIds |-> reports'[r]]
  BY DEF TypeOK, Next, Call, Serve, DefineWork, MonthPasses, Fails, Send, CallSubmit, CallReview,
      CallPayroll, CallMarkPaid, CallMarkAgain, FindWork, InsertReport, Review, ReadPayroll, MarkPaid, vars

\* Everything but the rows of the table.
RestType == /\ month \in Months
            /\ works \subseteq Works
            /\ request \in [Requests -> Request]
            /\ transfers \in [References -> Sheet \cup {NoTransfer}]

\* Every step leaves the table, the requests and the receipts well formed.
LEMMA TypeStep == TypeOK /\ [Next]_vars => TypeOK'
<1> SUFFICES ASSUME TypeOK, [Next]_vars PROVE TypeOK'
  OBVIOUS
<1>1. reports' \in [ReportIds -> Report \cup {NoReport}]
  BY RowStep, TableStep
<1>2. ASSUME NEW q \in Requests, NEW s \in Request, Goto(q, s)
      PROVE  request' \in [Requests -> Request]
  BY <1>2 DEF Goto, TypeOK
<1>3. Idle \in Request
  BY DEF Request
<1>4. ASSUME NEW q \in Requests, Call(q) PROVE RestType'
  <2>1. ASSUME NEW s \in Request, Send(q, s) PROVE RestType'
    BY <1>2, <2>1 DEF Send, RestType, TypeOK
  <2>2. ASSUME NEW w \in Works, NEW m \in Members, CallSubmit(q, w, m) PROVE RestType'
    BY <2>1, <2>2 DEF CallSubmit, Request
  <2>3. ASSUME NEW r \in ReportIds, NEW s \in {"approved", "rejected"}, NEW n \in Rewards,
               CallReview(q, r, s, n)
        PROVE  RestType'
    <3>1. (IF s = "approved" THEN n ELSE 0) \in 0..MaxReward
      BY <2>3, TeamWorkAssumption DEF CallReview, ValidReward
    <3>2. month \in Months
      BY DEF TypeOK
    <3>3. [at |-> "review", reward |-> IF s = "approved" THEN n ELSE 0,
           status |-> s, report |-> r, since |-> month] \in Request
      BY <3>1, <3>2 DEF Request
    <3> QED BY <2>1, <2>3, <3>3 DEF CallReview
  <2>4. ASSUME NEW m \in Members, NEW mo \in Months, CallPayroll(q, m, mo) PROVE RestType'
    BY <2>1, <2>4 DEF CallPayroll, Request
  <2>5. ASSUME NEW f \in References, CallMarkPaid(q, f) PROVE RestType'
    <3>1. request[q].sheet \in Sheet
      BY <2>5, Holds DEF CallMarkPaid
    <3>2. [at |-> "mark", reference |-> f] \in Request
      BY DEF Request
    <3> QED BY <1>2, <2>5, <3>1, <3>2 DEF CallMarkPaid, RestType, TypeOK
  <2>6. ASSUME NEW f \in References, CallMarkAgain(q, f) PROVE RestType'
    BY <2>1, <2>6 DEF CallMarkAgain, Request
  <2> QED BY <1>4, <2>2, <2>3, <2>4, <2>5, <2>6 DEF Call
<1>5. ASSUME NEW q \in Requests, Serve(q) PROVE RestType'
  <2>1. CASE FindWork(q)
    <3>1. At(q, "find") => [request[q] EXCEPT !.at = "insert"] \in Request
      <4>1. request[q] \in Request
        BY DEF TypeOK
      <4> QED BY <4>1 DEF Request, At, Idle
    <3> QED BY <1>2, <1>3, <2>1, <3>1 DEF FindWork, RestType, TypeOK
  <2>2. CASE InsertReport(q)
    BY <1>2, <1>3, <2>2 DEF InsertReport, RestType, TypeOK
  <2>3. CASE Review(q)
    BY <1>2, <1>3, <2>3 DEF Review, RestType, TypeOK
  <2>4. CASE ReadPayroll(q)
    <3> DEFINE sheet == [member |-> request[q].member, month |-> request[q].month,
                         reports |-> {r \in Approved(request[q].member, request[q].month) : Unpaid(r)},
                         closed |-> Closed(request[q].month)]
    <3>1. Closed(request[q].month) \in BOOLEAN
      BY DEF Closed
    <3>2. sheet \in Sheet
      BY <2>4, <3>1, Holds DEF Sheet, ReadPayroll, Approved, Stored
    <3>3. Goto(q, [at |-> "sheet", sheet |-> sheet])
      BY <2>4 DEF ReadPayroll
    <3> HIDE DEF sheet
    <3>4. [at |-> "sheet", sheet |-> sheet] \in Request
      BY <3>2 DEF Request
    <3> QED BY <1>2, <2>4, <3>3, <3>4 DEF ReadPayroll, RestType, TypeOK
  <2>5. CASE MarkPaid(q)
    BY <1>2, <1>3, <2>5 DEF MarkPaid, RestType, TypeOK
  <2>6. CASE Fails(q)
    BY <1>2, <1>3, <2>6 DEF Fails, RestType, TypeOK
  <2> QED BY <1>5, <2>1, <2>2, <2>3, <2>4, <2>5, <2>6 DEF Serve
<1>6. ASSUME MonthPasses PROVE RestType'
  BY <1>6, TeamWorkAssumption DEF MonthPasses, RestType, TypeOK, Months
<1>7. ASSUME NEW w \in Works, DefineWork(w) PROVE RestType'
  BY <1>7 DEF DefineWork, RestType, TypeOK
<1>8. ASSUME UNCHANGED vars PROVE RestType'
  BY <1>8 DEF vars, RestType, TypeOK
<1>9. RestType'
  BY <1>4, <1>5, <1>6, <1>7, <1>8 DEF Next
<1> QED BY <1>1, <1>9 DEF RestType, TypeOK

\* Every reachable state is well formed: rewards stay within the limit of the
\* review route, and every request holds what its kind needs.
THEOREM TeamWorkTypeCorrect == Spec => []TypeOK
<1>1. Init => TypeOK
  BY TeamWorkAssumption DEF Init, TypeOK, Months, Request
<1> QED BY <1>1, TypeStep, PTL DEF Spec

-----------------------------------------------------------------------------
(* Reports *)

\* A submission that the unique index admits is the only one of its member and
\* work; no other step changes who reported what.
THEOREM ReportsAreSingle == Spec => []OneReportPerWork
<1>1. Init => OneReportPerWork
  BY DEF Init, OneReportPerWork, Stored
<1>2. TypeOK /\ OneReportPerWork /\ [Next]_vars => OneReportPerWork'
  <2> SUFFICES ASSUME TypeOK, OneReportPerWork, [Next]_vars,
                      NEW r \in ReportIds, NEW s \in ReportIds, r # s,
                      reports'[r] # NoReport, reports'[s] # NoReport,
                      reports'[r].work = reports'[s].work,
                      reports'[r].member = reports'[s].member
               PROVE  FALSE
    BY DEF OneReportPerWork, Stored
  \* Besides an insertion, a step keeps the work and the member of a report.
  <2>1. ASSUME NEW t \in ReportIds, reports'[t] # NoReport, ~Inserted(t)
        PROVE  t \in Stored /\ reports'[t].work = reports[t].work
                            /\ reports'[t].member = reports[t].member
    <3>1. CASE reports'[t] = reports[t]
      BY <2>1, <3>1 DEF Stored
    <3>2. CASE Decided(t)
      <4>1. t \in Stored /\ reports[t] \in Report
        BY <3>2, Rows DEF Decided, Reviewable
      <4> QED BY <3>2, <4>1 DEF Decided, Report, TypeOK
    <3>3. CASE Marked(t)
      <4>1. t \in Stored /\ reports[t] \in Report
        BY <3>3, Rows DEF Marked, Markable, Approved
      <4> QED BY <3>3, <4>1 DEF Marked, Report
    <3> QED BY <2>1, <3>1, <3>2, <3>3, ReportStep
  <2>2. ASSUME NEW t \in ReportIds, NEW u \in ReportIds, t # u, Inserted(t),
               reports'[u] # NoReport
        PROVE  reports'[t].work # reports'[u].work \/ reports'[t].member # reports'[u].member
    <3>1. PICK w \in Works, m \in Members :
            ~Taken(w, m) /\ reports' = [reports EXCEPT ![t] = Submission(w, m)]
      BY <2>2 DEF Inserted
    <3>2. reports'[t] = Submission(w, m) /\ reports'[u] = reports[u]
      BY <2>2, <3>1 DEF TypeOK
    <3>3. u \in Stored
      BY <2>2, <3>2 DEF Stored
    <3> QED BY <3>1, <3>2, <3>3 DEF Taken, Submission
  <2>3. ~Inserted(r) /\ ~Inserted(s)
    BY <2>2
  <2> QED BY <2>1, <2>3 DEF OneReportPerWork
<1> QED BY <1>1, <1>2, TeamWorkTypeCorrect, PTL DEF Spec

\* A decided report is not reviewable and a paid one is not markable, whatever
\* reviews and markings are still under way.
LEMMA SettledStep ==
  ASSUME TypeOK, [Next]_vars, NEW r \in Stored
  PROVE  /\ reports[r].status # "submitted" =>
              /\ reports'[r].status = reports[r].status
              /\ reports'[r].reward = reports[r].reward
              /\ reports'[r].month = reports[r].month
         /\ ~Unpaid(r) => reports'[r].reference = reports[r].reference
<1>1. r \in ReportIds /\ reports[r] \in Report
  BY Rows DEF Stored
<1>2. CASE Decided(r)
  <2> PICK q \in Requests :
          /\ Reviewable(r)
          /\ \E now \in request[q].since..month :
               reports' = [reports EXCEPT ![r].status = request[q].status,
                                          ![r].reward = request[q].reward,
                                          ![r].month = now]
    BY <1>2 DEF Decided
  <2>1. PICK now \in request[q].since..month :
          reports' = [reports EXCEPT ![r].status = request[q].status,
                                     ![r].reward = request[q].reward,
                                     ![r].month = now]
    OBVIOUS
  <2>2. reports'[r] = [reports[r] EXCEPT !.status = request[q].status,
                                         !.reward = request[q].reward,
                                         !.month = now]
    BY <1>1, <2>1 DEF TypeOK
  <2> QED BY <1>1, <2>2 DEF Reviewable, Report
<1>3. CASE Marked(r)
  BY <1>1, <1>3 DEF Marked, Markable, Approved, Report
<1> QED BY <1>1, <1>2, <1>3, ReportStep DEF Inserted

\* Verdicts, rewards, months and receipts are final.
THEOREM ReportsAreFinal == Spec => SettledReportsStand
<1>1. TypeOK /\ [Next]_vars =>
        [\A r \in Stored :
           LET old == reports[r]
               new == reports'[r]
           IN /\ old.status # "submitted" =>
                   /\ new.status = old.status
                   /\ new.reward = old.reward
                   /\ new.month = old.month
              /\ ~Unpaid(r) => new.reference = old.reference]_vars
  BY SettledStep
<1> QED BY <1>1, TeamWorkTypeCorrect, PTL DEF Spec, SettledReportsStand

-----------------------------------------------------------------------------
(* Closed months *)

\* A month that is closed stays closed: a new review is sent in the current
\* month, which is later, and no other step changes when a review was sent.
LEMMA ClosedStays ==
  ASSUME TypeOK, [Next]_vars, NEW mo \in Months, Closed(mo)
  PROVE  Closed(mo)'
<1>1. month \in Nat /\ month' \in Nat /\ mo \in Nat /\ mo < month
  BY TypeStep, TeamWorkAssumption DEF TypeOK, Months, Closed
<1>2. month' = month \/ MonthPasses
  BY DEF Next, Call, Serve, DefineWork, MonthPasses, Fails, Send, CallSubmit, CallReview, CallPayroll,
      CallMarkPaid, CallMarkAgain, FindWork, InsertReport, Review, ReadPayroll, MarkPaid, vars
<1>3. month' >= month
  BY <1>1, <1>2 DEF MonthPasses
<1>4. ASSUME NEW q \in Requests, request'[q].at = "review"
      PROVE  request'[q] = request[q] \/ request'[q].since = month
  <2>1. ASSUME NEW p \in Requests, NEW s, Goto(p, s), s.at # "review"
        PROVE  request'[q] = request[q]
    BY <1>4, <2>1 DEF Goto, TypeOK
  <2>2. ASSUME NEW p \in Requests, Call(p)
        PROVE  request'[q] = request[q] \/ request'[q].since = month
    <3>1. ASSUME NEW r \in ReportIds, NEW s \in {"approved", "rejected"}, NEW n \in Rewards,
                 CallReview(p, r, s, n)
          PROVE  request'[q] = request[q] \/ request'[q].since = month
      BY <3>1 DEF CallReview, Send, Goto, TypeOK
    <3> QED BY <2>1, <2>2, <3>1
            DEF Call, CallSubmit, CallPayroll, CallMarkPaid, CallMarkAgain, Send
  <2>3. ASSUME NEW p \in Requests, Serve(p)
        PROVE  request'[q] = request[q]
    <3>1. At(p, "find") => [request[p] EXCEPT !.at = "insert"].at # "review"
      <4>1. request[p] \in Request
        BY DEF TypeOK
      <4> QED BY <4>1 DEF Request, At, Idle
    <3>2. Idle.at # "review"
      BY DEF Idle
    <3>3. CASE FindWork(p)
      BY <2>1, <3>1, <3>2, <3>3 DEF FindWork
    <3>4. CASE ReadPayroll(p)
      BY <2>1, <3>4 DEF ReadPayroll
    <3> QED BY <2>1, <2>3, <3>2, <3>3, <3>4 DEF Serve, InsertReport, Review, MarkPaid, Fails
  <2>4. ASSUME UNCHANGED request PROVE request'[q] = request[q]
    BY <2>4
  <2> QED BY <2>2, <2>3, <2>4 DEF Next, MonthPasses, DefineWork, vars
<1>5. \A q \in Requests : request'[q].at = "review" => mo < request'[q].since
  BY <1>1, <1>4 DEF Closed, At
<1> QED BY <1>1, <1>3, <1>5 DEF Closed, At

\* The approved reports of a closed month and their rewards are the same after
\* a step, and none of them becomes unpaid.
LEMMA ClosedRows ==
  ASSUME TypeOK, [Next]_vars, NEW mo \in Months, Closed(mo), NEW m \in Members, NEW r \in ReportIds
  PROVE  /\ r \in Approved(m, mo)' <=> r \in Approved(m, mo)
         /\ r \in Approved(m, mo) => /\ reports'[r].reward = reports[r].reward
                                     /\ reports'[r].reference = NoReference => Unpaid(r)
<1> USE DEF Approved, InMonth, Stored, Unpaid
<1>1. CASE reports'[r] = reports[r]
  BY <1>1
<1>2. CASE Inserted(r)
  <2>1. PICK w \in Works, n \in Members : reports' = [reports EXCEPT ![r] = Submission(w, n)]
    BY <1>2 DEF Inserted
  <2>2. reports'[r] = Submission(w, n)
    BY <2>1 DEF TypeOK
  <2> QED BY <1>2, <2>2 DEF Inserted, Submission
<1>3. CASE Decided(r)
  <2> PICK q \in Requests :
          /\ At(q, "review")
          /\ Reviewable(r)
          /\ \E now \in request[q].since..month :
               reports' = [reports EXCEPT ![r].status = request[q].status,
                                          ![r].reward = request[q].reward,
                                          ![r].month = now]
    BY <1>3 DEF Decided
  <2>1. PICK now \in request[q].since..month :
          reports' = [reports EXCEPT ![r].status = request[q].status,
                                     ![r].reward = request[q].reward,
                                     ![r].month = now]
    OBVIOUS
  <2>2. reports[r] \in Report
    BY Rows DEF Reviewable
  <2>3. reports'[r].month = now
    BY <2>1, <2>2 DEF TypeOK, Report
  <2>4. now # mo
    <3>1. mo < request[q].since /\ request[q].since \in Months
      BY Holds DEF Closed
    <3> QED BY <2>1, <3>1 DEF Months, TypeOK
  <2> QED BY <2>3, <2>4 DEF Reviewable
<1>4. CASE Marked(r)
  <2>1. PICK q \in Requests :
          /\ At(q, "mark")
          /\ r \in Stored
          /\ reports'[r] = [reports[r] EXCEPT !.reference = request[q].reference]
    BY <1>4 DEF Marked, Markable
  <2>2. reports[r] \in Report
    BY <2>1, Rows
  <2>3. request[q].reference \in References /\ request[q].reference # NoReference
    BY <2>1, Holds, TeamWorkAssumption
  <2>4. reports'[r] # NoReport
    <3>1. reports'[r] \in Report
      BY <2>1, <2>2, <2>3 DEF Report
    <3>2. NoReport \notin Report
      BY TeamWorkAssumption DEF Report
    <3> QED BY <3>1, <3>2
  <2> QED BY <2>1, <2>2, <2>3, <2>4 DEF Report
<1> QED BY <1>1, <1>2, <1>3, <1>4, ReportStep

\* The payroll of a closed month never changes.
THEOREM ClosedPayslipsAreFinal == Spec => ClosedPayslipsStand
<1>1. ASSUME TypeOK, [Next]_vars, NEW m \in Members, NEW mo \in Months, Closed(mo)
      PROVE  Payslip(m, mo)' = Payslip(m, mo)
  <2>1. Approved(m, mo)' = Approved(m, mo)
    <3>1. Approved(m, mo) \subseteq ReportIds /\ Approved(m, mo)' \subseteq ReportIds
      BY DEF Approved, Stored
    <3> QED BY <1>1, <3>1, ClosedRows
  <2>2. \A r \in Approved(m, mo) : reports'[r].reward = reports[r].reward
    BY <1>1, ClosedRows DEF Approved, Stored
  <2> QED BY <2>1, <2>2 DEF Payslip
<1>2. TypeOK /\ [Next]_vars =>
        [\A m \in Members, mo \in Months : Closed(mo) => Payslip(m, mo)' = Payslip(m, mo)]_vars
  BY <1>1
<1> QED BY <1>2, TeamWorkTypeCorrect, PTL DEF Spec, ClosedPayslipsStand

-----------------------------------------------------------------------------
(* Receipts *)

\* What makes a sheet of a closed month good for as long as it is held: nothing
\* that a marking under it could find is missing from it.
Sound(t) == t.closed => /\ Closed(t.month)
                        /\ \A r \in Approved(t.member, t.month) : Unpaid(r) => r \in t.reports

ReceiptInv ==
  /\ \A q \in Requests : At(q, "sheet") => Sound(request[q].sheet)
  /\ \A f \in References : transfers[f] # NoTransfer => Sound(transfers[f])
  /\ \A q \in Requests : At(q, "mark") => transfers[request[q].reference] # NoTransfer
  /\ ClosedMonthsPaidInFull

\* A sound sheet stays sound: its month stays closed, and no report of it that
\* was paid becomes unpaid.
LEMMA SoundStays ==
  ASSUME TypeOK, [Next]_vars, NEW t \in Sheet, Sound(t)
  PROVE  Sound(t)'
<1> SUFFICES ASSUME t.closed
             PROVE  /\ Closed(t.month)'
                    /\ \A r \in Approved(t.member, t.month)' : Unpaid(r)' => r \in t.reports
  BY DEF Sound
<1>1. t.month \in Months /\ t.member \in Members
  BY DEF Sheet
<1>2. Closed(t.month) /\ \A r \in Approved(t.member, t.month) : Unpaid(r) => r \in t.reports
  BY DEF Sound
<1>3. Closed(t.month)'
  BY <1>1, <1>2, ClosedStays
<1>4. ASSUME NEW r \in Approved(t.member, t.month)', Unpaid(r)'
      PROVE  r \in t.reports
  <2>1. r \in ReportIds
    BY <1>4 DEF Approved, Stored
  <2>2. r \in Approved(t.member, t.month) /\ Unpaid(r)
    BY <1>1, <1>2, <1>4, <2>1, ClosedRows DEF Unpaid
  <2> QED BY <1>2, <2>2
<1> QED BY <1>3, <1>4

\* A receipt is entered once, from the sheet that was paid.
LEMMA ReceiptStep ==
  ASSUME TypeOK, ReceiptInv, [Next]_vars, NEW f \in References
  PROVE  \/ transfers'[f] = transfers[f]
         \/ /\ transfers[f] = NoTransfer
            /\ transfers'[f] \in Sheet /\ Sound(transfers'[f])
<1>1. CASE \E q \in Requests, g \in References : CallMarkPaid(q, g)
  <2> PICK q \in Requests, g \in References : CallMarkPaid(q, g)
    BY <1>1
  <2>1. request[q].sheet \in Sheet /\ Sound(request[q].sheet)
    BY Holds DEF CallMarkPaid, ReceiptInv
  <2> QED BY <2>1 DEF CallMarkPaid, TypeOK
<1>2. CASE UNCHANGED transfers
  BY <1>2
<1> QED BY <1>1, <1>2
  DEF Next, Call, Serve, DefineWork, MonthPasses, Fails, Send, CallSubmit, CallReview, CallPayroll,
      CallMarkAgain, FindWork, InsertReport, Review, ReadPayroll, MarkPaid, vars

\* What a request becomes, as far as sheets and receipts go.
LEMMA RequestStep ==
  ASSUME TypeOK, [Next]_vars, NEW q \in Requests
  PROVE  /\ request'[q].at = "sheet" =>
              \/ request'[q] = request[q]
              \/ request'[q].sheet \in Sheet /\ Sound(request'[q].sheet)
         /\ request'[q].at = "mark" =>
              \/ request'[q] = request[q]
              \/ /\ request'[q].reference \in References
                 /\ transfers'[request'[q].reference] # NoTransfer
<1> DEFINE Fine(x) == /\ x.at = "sheet" => x.sheet \in Sheet /\ Sound(x.sheet)
                      /\ x.at = "mark" => /\ x.reference \in References
                                          /\ transfers'[x.reference] # NoTransfer
<1> SUFFICES request'[q] = request[q] \/ Fine(request'[q])
  OBVIOUS
<1>1. ASSUME NEW p \in Requests, NEW s, Goto(p, s), Fine(s)
      PROVE  request'[q] = request[q] \/ Fine(request'[q])
  BY <1>1 DEF Goto, TypeOK
<1>2. ASSUME NEW s, s.at \notin {"sheet", "mark"} PROVE Fine(s)
  BY <1>2
<1>3. Idle.at = "idle"
  BY DEF Idle
<1>4. NoTransfer \notin Sheet
  BY TeamWorkAssumption DEF Sheet, Months
<1>5. ASSUME NEW p \in Requests, Call(p)
      PROVE  request'[q] = request[q] \/ Fine(request'[q])
  <2>1. ASSUME NEW f \in References, CallMarkPaid(p, f)
        PROVE  request'[q] = request[q] \/ Fine(request'[q])
    <3>1. transfers'[f] # NoTransfer
      BY <1>4, <2>1, Holds DEF CallMarkPaid, TypeOK
    <3>2. Fine([at |-> "mark", reference |-> f])
      BY <3>1
    <3> HIDE DEF Fine
    <3> QED BY <1>1, <2>1, <3>2 DEF CallMarkPaid
  <2>2. ASSUME NEW f \in References, CallMarkAgain(p, f)
        PROVE  request'[q] = request[q] \/ Fine(request'[q])
    <3>1. Fine([at |-> "mark", reference |-> f])
      BY <2>2 DEF CallMarkAgain, Send
    <3> HIDE DEF Fine
    <3> QED BY <1>1, <2>2, <3>1 DEF CallMarkAgain, Send
  <2> HIDE DEF Fine
  <2> QED BY <1>1, <1>2, <1>5, <2>1, <2>2 DEF Call, CallSubmit, CallReview, CallPayroll, Send
<1>6. ASSUME NEW p \in Requests, Serve(p)
      PROVE  request'[q] = request[q] \/ Fine(request'[q])
  <2>1. CASE FindWork(p)
    <3>1. At(p, "find") => [request[p] EXCEPT !.at = "insert"].at = "insert"
      <4>1. request[p] \in Request
        BY DEF TypeOK
      <4> QED BY <4>1 DEF Request, At, Idle
    <3> HIDE DEF Fine
    <3> QED BY <1>1, <1>2, <1>3, <2>1, <3>1 DEF FindWork
  <2>2. CASE ReadPayroll(p)
    <3> DEFINE sheet == [member |-> request[p].member, month |-> request[p].month,
                         reports |-> {r \in Approved(request[p].member, request[p].month) : Unpaid(r)},
                         closed |-> Closed(request[p].month)]
    <3>1. Closed(request[p].month) \in BOOLEAN
      BY DEF Closed
    <3>2. sheet \in Sheet
      BY <2>2, <3>1, Holds DEF Sheet, ReadPayroll, Approved, Stored
    <3>3. Sound(sheet)
      BY DEF Sound
    <3>4. Goto(p, [at |-> "sheet", sheet |-> sheet])
      BY <2>2 DEF ReadPayroll
    <3> HIDE DEF sheet
    <3>5. Fine([at |-> "sheet", sheet |-> sheet])
      BY <3>2, <3>3
    <3> HIDE DEF Fine
    <3> QED BY <1>1, <3>4, <3>5
  <2> HIDE DEF Fine
  <2> QED BY <1>1, <1>2, <1>3, <1>6, <2>1, <2>2 DEF Serve, InsertReport, Review, MarkPaid, Fails
<1>7. CASE UNCHANGED request
  BY <1>7
<1> HIDE DEF Fine
<1> QED BY <1>5, <1>6, <1>7 DEF Next, MonthPasses, DefineWork, vars

\* A marking under a closed sheet finds only reports of that sheet, so it
\* records as paid only what its transfer contained.
LEMMA CoverStep ==
  ASSUME TypeOK, ReceiptInv, [Next]_vars, NEW r \in ReportIds,
         reports'[r] # NoReport, reports'[r].reference # NoReference
  PROVE  LET t == transfers'[reports'[r].reference]
         IN t # NoTransfer /\ (t.closed => r \in t.reports)
<1>1. ASSUME NEW f \in References, transfers[f] # NoTransfer PROVE transfers'[f] = transfers[f]
  BY <1>1, ReceiptStep
<1>2. ASSUME r \in Stored, reports'[r].reference = reports[r].reference
      PROVE  LET t == transfers'[reports'[r].reference]
             IN t # NoTransfer /\ (t.closed => r \in t.reports)
  <2>1. reports[r].reference \in References
    BY <1>2, Rows DEF Report
  <2> QED BY <1>1, <1>2, <2>1 DEF ReceiptInv, ClosedMonthsPaidInFull, Covered, Unpaid
<1>3. CASE reports'[r] = reports[r]
  BY <1>2, <1>3 DEF Stored
<1>4. CASE Inserted(r)
  BY <1>4 DEF Inserted, Submission, TypeOK
<1>5. CASE Decided(r)
  <2>1. r \in Stored /\ reports[r] \in Report
    BY <1>5, Rows DEF Decided, Reviewable
  <2> QED BY <1>2, <1>5, <2>1 DEF Decided, Report, TypeOK
<1>6. CASE Marked(r)
  <2> PICK q \in Requests :
        /\ At(q, "mark")
        /\ Markable(r, transfers[request[q].reference].member, transfers[request[q].reference].month)
        /\ reports'[r] = [reports[r] EXCEPT !.reference = request[q].reference]
    BY <1>6 DEF Marked
  <2> DEFINE f == request[q].reference
  <2>1. f \in References /\ transfers[f] # NoTransfer
    BY Holds DEF ReceiptInv
  <2>2. transfers'[f] = transfers[f] /\ Sound(transfers[f])
    BY <1>1, <2>1 DEF ReceiptInv
  <2>3. transfers[f].closed => r \in transfers[f].reports
    BY <2>2 DEF Sound, Markable
  <2>4. reports'[r].reference = f
    BY Rows DEF Markable, Approved, Report
  <2> QED BY <2>1, <2>2, <2>3, <2>4
<1> QED BY <1>3, <1>4, <1>5, <1>6, ReportStep

\* The inductive invariant of the receipts: every sheet and every receipt of a
\* closed month holds all that is still unpaid of it.
THEOREM ReceiptInvariant == Spec => []ReceiptInv
<1>1. Init => ReceiptInv
  BY DEF Init, ReceiptInv, ClosedMonthsPaidInFull, At, Idle, Stored
<1>2. TypeOK /\ ReceiptInv /\ [Next]_vars => ReceiptInv'
  <2> SUFFICES ASSUME TypeOK, ReceiptInv, [Next]_vars PROVE ReceiptInv'
    OBVIOUS
  <2>1. ASSUME NEW q \in Requests, request'[q].at = "sheet" PROVE Sound(request[q].sheet)'
    <3>1. PICK t \in Sheet : t = request'[q].sheet /\ Sound(t)
      BY <2>1, RequestStep, Holds DEF ReceiptInv, At
    <3>2. Sound(t)'
      BY <3>1, SoundStays
    <3> QED BY <3>1, <3>2 DEF Sound, Closed, Approved
  <2>2. ASSUME NEW f \in References, transfers'[f] # NoTransfer PROVE Sound(transfers[f])'
    <3>1. PICK t \in Sheet : t = transfers'[f] /\ Sound(t)
      BY <2>2, ReceiptStep DEF ReceiptInv, TypeOK
    <3>2. Sound(t)'
      BY <3>1, SoundStays
    <3> QED BY <3>1, <3>2 DEF Sound, Closed, Approved
  <2>3. ASSUME NEW q \in Requests, request'[q].at = "mark"
        PROVE  transfers'[request'[q].reference] # NoTransfer
    <3>1. CASE request'[q] = request[q]
      BY <2>3, <3>1, ReceiptStep, Holds DEF ReceiptInv, At
    <3> QED BY <2>3, <3>1, RequestStep
  <2>4. ClosedMonthsPaidInFull'
    BY CoverStep DEF ClosedMonthsPaidInFull, Covered, Unpaid, Stored
  <2> QED BY <2>1, <2>2, <2>3, <2>4 DEF ReceiptInv, At
<1> QED BY <1>1, <1>2, TeamWorkTypeCorrect, PTL DEF Spec

\* A report of a month that was closed when its payroll was read is recorded as
\* paid only under a receipt whose transfer contained it.
THEOREM ClosedMonthsArePaid == Spec => []ClosedMonthsPaidInFull
<1>1. ReceiptInv => ClosedMonthsPaidInFull
  BY DEF ReceiptInv
<1> QED BY <1>1, ReceiptInvariant, PTL

=============================================================================
