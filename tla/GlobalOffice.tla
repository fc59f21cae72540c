----------------------------- MODULE GlobalOffice -----------------------------
(***************************************************************************)
(* The global office of routes/global-orders.ts: its members (registered   *)
(* by themselves and reviewed by the owner, or created by the owner), the  *)
(* sessions in the memory of the process, and the quotes that the owner    *)
(* and the invoice approvers write into orders.                            *)
(*                                                                         *)
(* A handler is a call, its statements and what follows their answers, as  *)
(* in TeamAccounts.  Passwords are abstracted: whether the one that is     *)
(* sent matches the stored hash is a choice.  The owner, whose password is *)
(* not a row, can log in whenever it likes and be logged out by nothing    *)
(* but time: its requests need no session here.  Amounts, dates and notes  *)
(* are left out: an order is the history of who wrote into it.             *)
(***************************************************************************)
EXTENDS Naturals, Sequences, FiniteSets

CONSTANTS
  Staff,        \* usernames of members
  TestAccount,  \* the one username that can be deleted (hormoztest777)
  Owner, Customer,
  OfficeTokens, \* bound: sessions open at the same time
  Calls,        \* requests of the office served at the same time
  Orders,       \* bound: orders that are placed
  LoginLimit,   \* failures that block an address (5 in the code)
  MaxHistory,   \* entries a history keeps (100 in the code)
  NoOne

\* No member is registered under the owner's name, which no code prevents.
ASSUME OfficeAssumption ==
  /\ TestAccount \in Staff
  /\ Owner \notin Staff /\ Customer \notin Staff \cup {Owner}
  /\ NoOne \notin Staff \cup {Owner, Customer}
  /\ LoginLimit \in Nat \ {0} /\ MaxHistory \in Nat \ {0}
  /\ IsFiniteSet(Calls)

VARIABLES
  staff,          \* hormoz_global_members
  officeSession,  \* the Map `sessions`, by token
  history,        \* of each order: status_history and invoice_history
  failures,       \* loginFailures of the address the member logins come from
  call            \* the handler of each request

officeVars == <<staff, officeSession, history, failures, call>>

MemberRole == {"invoice_approver", "viewer"}
Account    == [status: {"absent", "pending", "approved", "rejected"}, role: MemberRole, active: BOOLEAN]
Actor      == [role: MemberRole \cup {"owner"}, who: Staff \cup {Owner, NoOne}]
Nobody     == [role |-> "viewer", who |-> NoOne]
\* The session POST /global-admin/login opens.
OwnerActor == [role |-> "owner", who |-> Owner]
Absent     == [status |-> "absent", role |-> "viewer", active |-> FALSE]

CallStep == {"idle", "login", "grant", "purge", "write"}

\* `member`: who it is about.  `actor`: whose session it was called with, or
\* will open.  `read`: the history it read.
OfficeCall == [step: CallStep, member: Staff \cup {NoOne}, actor: Actor,
               order: Orders \cup {NoOne}, read: Seq(Staff \cup {Owner, Customer})]

NoCall == [step |-> "idle", member |-> NoOne, actor |-> Nobody, order |-> NoOne, read |-> <<>>]

OfficeTypeOK ==
  /\ staff \in [Staff -> Account]
  /\ officeSession \in [OfficeTokens -> Actor]
  /\ history \in [Orders -> Seq(Staff \cup {Owner, Customer})]
  /\ \A o \in Orders : Len(history[o]) <= MaxHistory
  /\ failures \in Nat
  /\ call \in [Calls -> OfficeCall]

OfficeInit ==
  /\ staff = [m \in Staff |-> Absent]
  /\ officeSession = [t \in OfficeTokens |-> Nobody]
  /\ history = [o \in Orders |-> <<>>]
  /\ failures = 0
  /\ call = [c \in Calls |-> NoCall]

-----------------------------------------------------------------------------
\* A fresh token: which one says nothing, so it is any that is not in use.
OpenTo(a) ==
  LET Unused == {t \in OfficeTokens : officeSession[t] = Nobody} IN
  Unused # {} /\ officeSession' = [officeSession EXCEPT ![CHOOSE t \in Unused : TRUE] = a]

StartCall(c, h) == call[c] = NoCall /\ call' = [call EXCEPT ![c] = h]
Step(c, s) == call' = [call EXCEPT ![c].step = s]
Done(c)    == call' = [call EXCEPT ![c] = NoCall]

About(c) == call[c].member
With(t)  == officeSession[t]

\* adminSession deletes a session past SESSION_TTL when it meets it.
SessionEnds(t) ==
  /\ With(t) # Nobody
  /\ officeSession' = [officeSession EXCEPT ![t] = Nobody]
  /\ UNCHANGED <<staff, history, failures, call>>

-----------------------------------------------------------------------------
(* POST /global-admin/member-login *)

InFlight == {c \in Calls : call[c].step \in {"login", "grant"}}

NotBlocked == TRUE    \* mutant: isLoginBlocked is not called
Admitted   == failures < LoginLimit

\* Bound: a login waits for a token that is not in use.
CallLogin(c) ==
  /\ Admitted
  /\ \E m \in Staff : StartCall(c, [NoCall EXCEPT !.step = "login", !.member = m])
  /\ UNCHANGED <<staff, officeSession, history, failures>>

\* The row decides, with the password; the role is read with it.
SelectAccount(c) ==
  /\ call[c].step = "login"
  /\ LET m == About(c) IN
     \/ /\ staff[m].status = "approved" /\ staff[m].active
        /\ call' = [call EXCEPT ![c].step = "grant", ![c].actor = [role |-> staff[m].role, who |-> m]]
        /\ UNCHANGED failures
     \/ failures' = failures + 1 /\ Done(c)
  /\ UNCHANGED <<staff, officeSession, history>>

GrantAccess(c) ==
  /\ call[c].step = "grant"
  /\ OpenTo(call[c].actor)
  /\ failures' = 0
  /\ Done(c)
  /\ UNCHANGED <<staff, history>>

\* The block of 15 minutes is over, or the first failure is that old.
BlockEnds ==
  /\ failures > 0
  /\ failures' = 0
  /\ UNCHANGED <<staff, officeSession, history, call>>

-----------------------------------------------------------------------------
(* Members *)

Become(m, row) == staff' = [staff EXCEPT ![m] = row]

\* POST /global-admin/member-register: INSERT; a taken username is a 409.
Register(m) ==
  /\ staff[m].status = "absent"
  /\ Become(m, [status |-> "pending", role |-> "viewer", active |-> FALSE])
  /\ UNCHANGED <<officeSession, history, failures, call>>

\* POST /members: INSERT with the defaults of the table, active and approved.
CreateMember(m) ==
  /\ staff[m].status = "absent"
  /\ \E r \in MemberRole : Become(m, [status |-> "approved", role |-> r, active |-> TRUE])
  /\ UNCHANGED <<officeSession, history, failures, call>>

AnyRow(m)  == staff[m].status # "absent"    \* mutant: no AND status='pending'
Pending(m) == staff[m].status = "pending"

\* The owner's UPDATE or DELETE of a row that is found goes on to the sessions.
\* (Nothing the handler read before the statement is used by it.)
Changes(c, m, row) ==
  /\ StartCall(c, [NoCall EXCEPT !.step = "purge", !.member = m])
  /\ Become(m, row)
  /\ UNCHANGED <<officeSession, history, failures>>

ReviewMember(c, m) ==
  /\ Pending(m)
  /\ \E s \in {"approved", "rejected"}, r \in MemberRole :
       Changes(c, m, [status |-> s, role |-> r, active |-> s = "approved"])

SetMemberActive(c, m) ==
  /\ AnyRow(m)
  /\ \E a \in BOOLEAN : Changes(c, m, [staff[m] EXCEPT !.active = a])

\* The hash is replaced, which the row here does not show.
ResetPassword(c, m) == AnyRow(m) /\ Changes(c, m, staff[m])

DeleteTestAccount(c) == AnyRow(TestAccount) /\ Changes(c, TestAccount, Absent)

\* The continuation: for (const [token, value] of sessions) ...
PurgeSessions(c) ==
  /\ call[c].step = "purge"
  /\ officeSession' = [t \in OfficeTokens |-> IF With(t).who = About(c) THEN Nobody ELSE With(t)]
  /\ Done(c)
  /\ UNCHANGED <<staff, history, failures>>

-----------------------------------------------------------------------------
(* Orders *)

\* POST /global-orders: INSERT with the first entry of both histories.
PlaceOrder(o) ==
  /\ history[o] = <<>>
  /\ history' = [history EXCEPT ![o] = <<Customer>>]
  /\ UNCHANGED <<staff, officeSession, failures, call>>

EveryoneQuotes == {"owner", "invoice_approver", "viewer"}    \* mutant: no role is checked
Quoting        == {"owner", "invoice_approver"}
MayQuote(a)    == a # Nobody /\ a.role \in Quoting

\* POST /orders/:id/verify-invoice reads the session, once, and both histories.
ReadHistories(c) ==
  /\ \E a \in {With(t) : t \in OfficeTokens} \cup {OwnerActor}, o \in Orders :
       /\ MayQuote(a) /\ history[o] # <<>>
       /\ StartCall(c, [step |-> "write", member |-> NoOne, actor |-> a, order |-> o, read |-> history[o]])
  /\ UNCHANGED <<staff, officeSession, history, failures>>

KeepAll(s)  == s    \* mutant: no slice(-100)
KeepLast(s) == IF Len(s) > MaxHistory THEN Tail(s) ELSE s

\* UPDATE of the quote and both histories: entries written since are lost.
WriteQuote(c) ==
  /\ call[c].step = "write"
  /\ history' = [history EXCEPT ![call[c].order] = KeepLast(Append(call[c].read, call[c].actor.who))]
  /\ Done(c)
  /\ UNCHANGED <<staff, officeSession, failures>>

-----------------------------------------------------------------------------
\* A statement is rejected, or its answer is lost after it took effect: the
\* handler ends in its catch block, and no session is opened or closed.
CallFails(c) ==
  /\ call[c].step # "idle"
  /\ Done(c)
  /\ UNCHANGED <<staff, officeSession, history, failures>>

OfficeRestarts ==
  /\ officeSession' = [t \in OfficeTokens |-> Nobody]
  /\ failures' = 0
  /\ call' = [c \in Calls |-> NoCall]
  /\ UNCHANGED <<staff, history>>

OfficeNext ==
  \/ BlockEnds \/ OfficeRestarts
  \/ \E t \in OfficeTokens : SessionEnds(t)
  \/ \E m \in Staff : Register(m) \/ CreateMember(m)
  \/ \E o \in Orders : PlaceOrder(o)
  \/ \E c \in Calls :
       \/ CallLogin(c) \/ SelectAccount(c) \/ GrantAccess(c)
       \/ \E m \in Staff : ReviewMember(c, m) \/ SetMemberActive(c, m) \/ ResetPassword(c, m)
       \/ DeleteTestAccount(c) \/ PurgeSessions(c)
       \/ ReadHistories(c) \/ WriteQuote(c) \/ CallFails(c)

OfficeSpec == OfficeInit /\ [][OfficeNext]_officeVars

-----------------------------------------------------------------------------
(* Properties *)

Speaks(a) == a.who \in Staff \ {TestAccount}

\* Every session of a member, open or about to be, carries the role the owner
\* gave an approved account, whatever reviews, resets and logins overlap.  The
\* one account that can be deleted and registered again is excepted.
SessionsMatchAccounts ==
  \A a \in {With(t) : t \in OfficeTokens} \cup {call[c].actor : c \in Calls} :
    Speaks(a) => staff[a.who].status = "approved" /\ staff[a.who].role = a.role

\* Nobody stands in the history of an order but its customer, the owner and
\* members the owner approved as invoice approvers, even when the session a
\* quote was sent with has ended by the time it is written.
QuotesByApprovers ==
  \A o \in Orders : \A i \in 1..Len(history[o]) :
    LET m == history[o][i] IN
    m \in Staff \ {TestAccount} => staff[m].status = "approved" /\ staff[m].role = "invoice_approver"

\* The limiter is read before an await and written after it, so logins that
\* overlap are all admitted; no more passwords than those are tried above the
\* limit before the block ends.
GuessesAreBounded ==
  failures + Cardinality(InFlight) <= LoginLimit - 1 + Cardinality(Calls)

=============================================================================
