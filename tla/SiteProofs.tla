------------------------------ MODULE SiteProofs ------------------------------
(***************************************************************************)
(* Proofs about the components of the site, for any accounts, sessions,    *)
(* requests, orders, services, memories, uploads and providers: the global *)
(* office, the organizations, the visitors, the uploads, the providers,    *)
(* and then the site they form.                                            *)
(***************************************************************************)
EXTENDS MCSite, FiniteSetTheorems, TLAPS

-----------------------------------------------------------------------------
(* The global office *)

People == Staff \cup {Owner, Customer}

\* A history stays one of at most MaxHistory people when it is written.
LEMMA HistoryGrows ==
  ASSUME NEW s \in Seq(People), Len(s) <= MaxHistory, NEW m \in People
  PROVE  /\ KeepLast(Append(s, m)) \in Seq(People)
         /\ Len(KeepLast(Append(s, m))) <= MaxHistory
         /\ \A i \in 1..Len(KeepLast(Append(s, m))) :
              KeepLast(Append(s, m))[i] = m \/ \E j \in 1..Len(s) : KeepLast(Append(s, m))[i] = s[j]
<1> DEFINE a == Append(s, m)
<1>1. a \in Seq(People) /\ Len(a) = Len(s) + 1 /\ a # <<>>
  OBVIOUS
<1>2. \A i \in 1..Len(a) : a[i] = m \/ \E j \in 1..Len(s) : a[i] = s[j]
  OBVIOUS
<1>3. CASE Len(a) > MaxHistory
  <2>1. Tail(a) \in Seq(People) /\ Len(Tail(a)) = Len(s)
    BY <1>1
  <2>2. \A i \in 1..Len(Tail(a)) : Tail(a)[i] = a[i + 1] /\ i + 1 \in 1..Len(a)
    BY <1>1
  <2> QED BY <1>2, <1>3, <2>1, <2>2 DEF KeepLast
<1>4. CASE ~(Len(a) > MaxHistory)
  BY <1>1, <1>2, <1>4, OfficeAssumption DEF KeepLast
<1> QED BY <1>3, <1>4

\* What the handlers know between their statements: whom a call is about; who
\* may quote, in which order, and the history it read; that only members log in.
Carries(h) ==
  /\ h.step \in {"login", "grant", "purge"} => h.member \in Staff
  /\ h.step = "grant" => h.actor.who \in Staff
  /\ h.step = "write" =>
       /\ h.order \in Orders
       /\ Len(h.read) <= MaxHistory
       /\ h.actor.role \in Quoting
       /\ h.actor.who \in Staff \cup {Owner}

CallsCarry == \A c \in Calls : Carries(call[c])

SessionsOfMembers == \A t \in OfficeTokens : With(t) = Nobody \/ With(t).who \in Staff

OfficeInv == OfficeTypeOK /\ CallsCarry /\ SessionsOfMembers

\* Statements and continuations leave accounts, sessions, histories and calls
\* well formed.
LEMMA OfficeTypeStep == OfficeInv /\ [OfficeNext]_officeVars => OfficeInv'
<1> SUFFICES ASSUME OfficeInv, [OfficeNext]_officeVars PROVE OfficeInv'
  OBVIOUS
<1> USE OfficeAssumption DEF OfficeInv, OfficeTypeOK, CallsCarry, SessionsOfMembers
<1> DEFINE Fitting(h) == h \in OfficeCall /\ Carries(h)
<1>1. Fitting(NoCall) /\ Nobody \in Actor
  BY DEF NoCall, Nobody, OfficeCall, Actor, CallStep, MemberRole, Carries
<1>2. ASSUME NEW c \in Calls, NEW h, Fitting(h), call' = [call EXCEPT ![c] = h],
             UNCHANGED <<staff, officeSession, history, failures>>
      PROVE  OfficeInv'
  BY <1>2 DEF With
<1>3. \A c \in Calls : Fitting(call[c])
  OBVIOUS
<1> HIDE DEF Fitting
<1>4. CASE BlockEnds
  BY <1>4 DEF BlockEnds, With
<1>5. CASE OfficeRestarts
  BY <1>1, <1>5 DEF OfficeRestarts, With, Fitting
<1>6. ASSUME NEW t \in OfficeTokens, SessionEnds(t) PROVE OfficeInv'
  BY <1>1, <1>6 DEF SessionEnds, With
<1>7. ASSUME NEW m \in Staff, Register(m) \/ CreateMember(m) PROVE OfficeInv'
  <2>1. PICK row \in Account : Become(m, row)
    BY <1>7 DEF Register, CreateMember, Account, MemberRole
  <2> QED BY <1>7, <2>1 DEF Register, CreateMember, Become, With
<1>8. ASSUME NEW o \in Orders, PlaceOrder(o) PROVE OfficeInv'
  <2>1. <<Customer>> \in Seq(Staff \cup {Owner, Customer}) /\ Len(<<Customer>>) = 1
    OBVIOUS
  <2>2. history' \in [Orders -> Seq(Staff \cup {Owner, Customer})]
    BY <1>8, <2>1 DEF PlaceOrder
  <2>3. \A p \in Orders : Len(history'[p]) <= MaxHistory
    BY <1>8, <2>1 DEF PlaceOrder
  <2> QED BY <1>8, <2>2, <2>3 DEF PlaceOrder, With
<1>9. ASSUME NEW c \in Calls, CallLogin(c) PROVE OfficeInv'
  <2>1. PICK m \in Staff : StartCall(c, [NoCall EXCEPT !.step = "login", !.member = m])
    BY <1>9 DEF CallLogin
  <2>2. Fitting([NoCall EXCEPT !.step = "login", !.member = m])
    BY <1>1 DEF Fitting, NoCall, OfficeCall, CallStep, Carries
  <2> QED BY <1>2, <1>9, <2>1, <2>2 DEF CallLogin, StartCall
<1>10. ASSUME NEW c \in Calls, SelectAccount(c) PROVE OfficeInv'
  <2>1. CASE failures' = failures + 1 /\ Done(c)
    BY <1>1, <1>10, <2>1 DEF SelectAccount, Done, With, Fitting
  <2>2. CASE ~(failures' = failures + 1 /\ Done(c))
    <3> DEFINE a == [role |-> staff[About(c)].role, who |-> About(c)]
    <3> DEFINE h == [call[c] EXCEPT !.step = "grant", !.actor = a]
    <3>1. About(c) \in Staff
      BY <1>3, <1>10 DEF SelectAccount, Fitting, Carries, About
    <3>2. a \in Actor
      BY <3>1 DEF Actor, Account
    <3>3. Fitting(h)
      BY <1>3, <3>1, <3>2 DEF Fitting, OfficeCall, CallStep, Carries, About
    <3>4. call' = [call EXCEPT ![c] = h] /\ UNCHANGED <<staff, officeSession, history, failures>>
      BY <1>10, <2>2 DEF SelectAccount
    <3> QED BY <1>2, <3>3, <3>4
  <2> QED BY <2>1, <2>2
<1>11. ASSUME NEW c \in Calls, GrantAccess(c) PROVE OfficeInv'
  <2>1. call[c].actor \in Actor /\ call[c].actor.who \in Staff
    BY <1>3, <1>11 DEF GrantAccess, Fitting, Carries, OfficeCall
  <2> QED BY <1>1, <1>11, <2>1 DEF GrantAccess, OpenTo, Done, With, Fitting
<1>12. ASSUME NEW c \in Calls, NEW m \in Staff, NEW row \in Account, Changes(c, m, row) PROVE OfficeInv'
  <2>1. Fitting([NoCall EXCEPT !.step = "purge", !.member = m])
    BY <1>1 DEF Fitting, NoCall, OfficeCall, CallStep, Carries
  <2> QED BY <1>12, <2>1 DEF Changes, StartCall, Become, With, Fitting
<1>13. ASSUME NEW c \in Calls, NEW m \in Staff,
              ReviewMember(c, m) \/ SetMemberActive(c, m) \/ ResetPassword(c, m)
       PROVE  OfficeInv'
  <2>1. \E row \in Account : Changes(c, m, row)
    BY <1>13 DEF ReviewMember, SetMemberActive, ResetPassword, Account
  <2> QED BY <1>12, <2>1
<1>14. ASSUME NEW c \in Calls, DeleteTestAccount(c) PROVE OfficeInv'
  BY <1>12, <1>14 DEF DeleteTestAccount, Absent, Account, MemberRole
<1>15. ASSUME NEW c \in Calls, PurgeSessions(c) PROVE OfficeInv'
  BY <1>1, <1>15 DEF PurgeSessions, Done, With, Fitting
<1>16. ASSUME NEW c \in Calls, ReadHistories(c) PROVE OfficeInv'
  <2>1. PICK a \in {With(t) : t \in OfficeTokens} \cup {OwnerActor}, o \in Orders :
          /\ MayQuote(a) /\ history[o] # <<>>
          /\ StartCall(c, [step |-> "write", member |-> NoOne, actor |-> a, order |-> o, read |-> history[o]])
    BY <1>16 DEF ReadHistories
  <2>2. a \in Actor /\ a.who \in Staff \cup {Owner} /\ a.role \in Quoting
    BY <2>1 DEF MayQuote, OwnerActor, Actor, With
  <2>3. Fitting([step |-> "write", member |-> NoOne, actor |-> a, order |-> o, read |-> history[o]])
    BY <2>2 DEF Fitting, OfficeCall, CallStep, Carries
  <2> QED BY <1>2, <1>16, <2>1, <2>3 DEF ReadHistories, StartCall
<1>17. ASSUME NEW c \in Calls, WriteQuote(c) PROVE OfficeInv'
  <2> DEFINE s == KeepLast(Append(call[c].read, call[c].actor.who))
  <2>1. /\ call[c].order \in Orders /\ call[c].read \in Seq(People)
        /\ Len(call[c].read) <= MaxHistory /\ call[c].actor.who \in People
    BY <1>3, <1>17 DEF WriteQuote, Fitting, Carries, OfficeCall, People
  <2>2. s \in Seq(Staff \cup {Owner, Customer}) /\ Len(s) <= MaxHistory
    BY <2>1, HistoryGrows DEF People
  <2> HIDE DEF s
  <2>3. history' = [history EXCEPT ![call[c].order] = s]
    BY <1>17 DEF WriteQuote, s
  <2> QED BY <1>1, <1>17, <2>1, <2>2, <2>3 DEF WriteQuote, Done, With, Fitting
<1>18. ASSUME NEW c \in Calls, CallFails(c) PROVE OfficeInv'
  BY <1>1, <1>2, <1>18 DEF CallFails, Done
<1>19. CASE UNCHANGED officeVars
  BY <1>19 DEF officeVars, With
<1> QED BY <1>4, <1>5, <1>6, <1>7, <1>8, <1>9, <1>10, <1>11, <1>13, <1>14, <1>15, <1>16,
           <1>17, <1>18, <1>19 DEF OfficeNext

\* Accounts, sessions, histories and calls are well formed in every state.
THEOREM OfficeInvariant == OfficeSpec => []OfficeInv
<1>1. OfficeInit => OfficeInv
  <2> SUFFICES ASSUME OfficeInit PROVE OfficeInv
    OBVIOUS
  <2>1. Absent \in Account /\ Nobody \in Actor /\ NoCall \in OfficeCall /\ NoCall.step = "idle"
    BY DEF Absent, Account, MemberRole, Nobody, Actor, NoCall, OfficeCall, CallStep
  <2>2. <<>> \in Seq(Staff \cup {Owner, Customer}) /\ Len(<<>>) = 0
    OBVIOUS
  <2> QED BY <2>1, <2>2, OfficeAssumption
          DEF OfficeInit, OfficeInv, OfficeTypeOK, CallsCarry, Carries, SessionsOfMembers, With
<1> QED BY <1>1, OfficeTypeStep, PTL DEF OfficeSpec

\* No step takes the approval of a member back, or changes the role: reviews
\* are of pending members, and only the test account is ever deleted.
LEMMA ApprovalsStand ==
  ASSUME OfficeInv, [OfficeNext]_officeVars,
         NEW m \in Staff \ {TestAccount}, staff[m].status = "approved"
  PROVE  staff'[m].status = "approved" /\ staff'[m].role = staff[m].role
<1> USE DEF OfficeInv, OfficeTypeOK, Account
<1>1. ASSUME NEW n \in Staff, Register(n) \/ CreateMember(n)
      PROVE  staff'[m].status = "approved" /\ staff'[m].role = staff[m].role
  BY <1>1 DEF Register, CreateMember, Become
<1>2. ASSUME NEW c \in Calls, NEW n \in Staff,
             ReviewMember(c, n) \/ SetMemberActive(c, n) \/ ResetPassword(c, n)
      PROVE  staff'[m].status = "approved" /\ staff'[m].role = staff[m].role
  <2>1. CASE ReviewMember(c, n)
    BY <2>1 DEF ReviewMember, Changes, Become, Pending
  <2>2. CASE SetMemberActive(c, n)
    BY <2>2 DEF SetMemberActive, Changes, Become
  <2>3. CASE ResetPassword(c, n)
    BY <2>3 DEF ResetPassword, Changes, Become
  <2> QED BY <1>2, <2>1, <2>2, <2>3
<1>3. ASSUME NEW c \in Calls, DeleteTestAccount(c)
      PROVE  staff'[m].status = "approved" /\ staff'[m].role = staff[m].role
  BY <1>3 DEF DeleteTestAccount, Changes, Become
<1>4. CASE UNCHANGED staff
  BY <1>4
<1> QED BY <1>1, <1>2, <1>3, <1>4
        DEF OfficeNext, officeVars, BlockEnds, OfficeRestarts, SessionEnds, PlaceOrder, CallLogin,
            SelectAccount, GrantAccess, PurgeSessions, ReadHistories, WriteQuote, CallFails

\* A session or the actor of a call is an earlier one's, nobody, the owner, or
\* one a login has just read from an approved account.
LEMMA ActorStep ==
  ASSUME OfficeInv, [OfficeNext]_officeVars,
         NEW a \in {officeSession'[t] : t \in OfficeTokens} \cup {call'[c].actor : c \in Calls}
  PROVE  \/ a \in {officeSession[t] : t \in OfficeTokens} \cup {call[c].actor : c \in Calls} \cup {Nobody, OwnerActor}
         \/ \E m \in Staff : /\ a = [role |-> staff[m].role, who |-> m]
                             /\ staff[m].status = "approved" /\ UNCHANGED staff
<1> DEFINE Old == {officeSession[t] : t \in OfficeTokens} \cup {call[c].actor : c \in Calls} \cup {Nobody, OwnerActor}
<1> USE DEF OfficeInv, OfficeTypeOK, With
<1>1. CASE UNCHANGED officeVars \/ BlockEnds
  BY <1>1 DEF officeVars, BlockEnds
<1>2. CASE OfficeRestarts
  BY <1>2 DEF OfficeRestarts, NoCall
<1>3. ASSUME NEW t \in OfficeTokens, SessionEnds(t) PROVE a \in Old
  BY <1>3 DEF SessionEnds
<1>4. ASSUME NEW m \in Staff, Register(m) \/ CreateMember(m) PROVE a \in Old
  BY <1>4 DEF Register, CreateMember
<1>5. ASSUME NEW o \in Orders, PlaceOrder(o) PROVE a \in Old
  BY <1>5 DEF PlaceOrder
<1>6. ASSUME NEW c \in Calls, CallLogin(c) PROVE a \in Old
  BY <1>6 DEF CallLogin, StartCall, NoCall
<1>7. ASSUME NEW c \in Calls, SelectAccount(c)
      PROVE  a \in Old \/ \E m \in Staff : /\ a = [role |-> staff[m].role, who |-> m]
                                           /\ staff[m].status = "approved" /\ UNCHANGED staff
  <2>1. CASE Done(c)
    BY <1>7, <2>1 DEF SelectAccount, Done, NoCall
  <2>2. CASE ~Done(c)
    <3>1. About(c) \in Staff /\ staff[About(c)].status = "approved"
      BY <1>7, <2>2 DEF SelectAccount, CallsCarry, Carries, About
    <3>2. call' = [call EXCEPT ![c].step = "grant", ![c].actor = [role |-> staff[About(c)].role, who |-> About(c)]]
      BY <1>7, <2>2 DEF SelectAccount
    <3>3. a \in Old \/ a = [role |-> staff[About(c)].role, who |-> About(c)]
      BY <1>7, <3>2 DEF SelectAccount, OfficeCall
    <3> QED BY <1>7, <3>1, <3>3 DEF SelectAccount
  <2> QED BY <2>1, <2>2
<1>8. ASSUME NEW c \in Calls, GrantAccess(c) PROVE a \in Old
  BY <1>8 DEF GrantAccess, OpenTo, Done, NoCall
<1>9. ASSUME NEW c \in Calls, NEW m, NEW row, Changes(c, m, row) PROVE a \in Old
  BY <1>9 DEF Changes, StartCall, NoCall
<1>10. ASSUME NEW c \in Calls, PurgeSessions(c) PROVE a \in Old
  BY <1>10 DEF PurgeSessions, Done, NoCall
<1>11. ASSUME NEW c \in Calls, ReadHistories(c) PROVE a \in Old
  BY <1>11 DEF ReadHistories, StartCall
<1>12. ASSUME NEW c \in Calls, WriteQuote(c) \/ CallFails(c) PROVE a \in Old
  <2>1. Done(c) /\ UNCHANGED officeSession
    BY <1>12 DEF WriteQuote, CallFails
  <2> QED BY <2>1 DEF Done, NoCall
<1> QED BY <1>1, <1>2, <1>3, <1>4, <1>5, <1>6, <1>7, <1>8, <1>9, <1>10, <1>11, <1>12
        DEF OfficeNext, ReviewMember, SetMemberActive, ResetPassword, DeleteTestAccount

\* Every step keeps sessions and calls true to the accounts.
LEMMA MatchStep ==
  OfficeInv /\ SessionsMatchAccounts /\ [OfficeNext]_officeVars => SessionsMatchAccounts'
<1> SUFFICES ASSUME OfficeInv, SessionsMatchAccounts, [OfficeNext]_officeVars,
                    NEW a \in {officeSession'[t] : t \in OfficeTokens} \cup {call'[c].actor : c \in Calls},
                    Speaks(a)
             PROVE  staff'[a.who].status = "approved" /\ staff'[a.who].role = a.role
  BY DEF SessionsMatchAccounts, With, Speaks
<1>1. a \in {officeSession[t] : t \in OfficeTokens} \cup {call[c].actor : c \in Calls}
        => staff[a.who].status = "approved" /\ staff[a.who].role = a.role
  BY DEF SessionsMatchAccounts, With
<1>2. ~Speaks(Nobody) /\ ~Speaks(OwnerActor)
  BY OfficeAssumption DEF Speaks, Nobody, OwnerActor
<1>3. CASE \E m \in Staff : /\ a = [role |-> staff[m].role, who |-> m]
                            /\ staff[m].status = "approved" /\ UNCHANGED staff
  BY <1>3
<1>4. CASE a \in {officeSession[t] : t \in OfficeTokens} \cup {call[c].actor : c \in Calls}
  BY <1>1, <1>4, ApprovalsStand DEF Speaks
<1> QED BY <1>2, <1>3, <1>4, ActorStep

\* Every session of a member, open or about to be, has the role the owner gave
\* an approved account, for any interleaving of logins, reviews and resets.
THEOREM SessionsFollowAccounts == OfficeSpec => []SessionsMatchAccounts
<1>1. OfficeInit => SessionsMatchAccounts
  BY OfficeAssumption DEF OfficeInit, SessionsMatchAccounts, Speaks, With, Nobody, NoCall
<1> QED BY <1>1, MatchStep, OfficeInvariant, PTL DEF OfficeSpec

\* Everybody who stands in a history is its customer, the owner or an approver.
ByApprovers(s) ==
  \A i \in 1..Len(s) :
    s[i] \in Staff \ {TestAccount} =>
      staff[s[i]].status = "approved" /\ staff[s[i]].role = "invoice_approver"

\* A quote is written from a history that was read: it must hold there too.
QuotesInv ==
  /\ \A o \in Orders : ByApprovers(history[o])
  /\ \A c \in Calls : call[c].step = "write" => ByApprovers(call[c].read)

\* Approvers stay approvers, so what was written by them stays so.
LEMMA ApproversStand ==
  ASSUME OfficeInv, [OfficeNext]_officeVars, NEW s, ByApprovers(s)
  PROVE  ByApprovers(s)'
BY ApprovalsStand DEF ByApprovers

\* Who may quote and is a member was approved as an approver.
LEMMA QuotingMembers ==
  ASSUME OfficeInv, SessionsMatchAccounts, NEW c \in Calls, call[c].step = "write",
         call[c].actor.who \in Staff \ {TestAccount}
  PROVE  LET m == call[c].actor.who IN staff[m].status = "approved" /\ staff[m].role = "invoice_approver"
<1>1. Speaks(call[c].actor) /\ call[c].actor.role \in Quoting
  BY DEF Speaks, OfficeInv, CallsCarry, Carries
<1>2. staff[call[c].actor.who].role \in MemberRole
  BY DEF OfficeInv, OfficeTypeOK, Account
<1> QED BY <1>1, <1>2 DEF SessionsMatchAccounts, Quoting, MemberRole

\* Every step keeps histories, stored or read, to approvers.
LEMMA QuotesStep ==
  ASSUME OfficeInv, SessionsMatchAccounts, QuotesInv, [OfficeNext]_officeVars
  PROVE  QuotesInv'
<1> USE DEF OfficeInv, OfficeTypeOK
<1>1. ASSUME NEW c \in Calls, WriteQuote(c) PROVE QuotesInv'
  <2> DEFINE s == KeepLast(Append(call[c].read, call[c].actor.who))
  <2>1. /\ call[c].order \in Orders /\ call[c].read \in Seq(People) /\ call[c].step = "write"
        /\ Len(call[c].read) <= MaxHistory /\ call[c].actor.who \in People
    BY <1>1 DEF WriteQuote, CallsCarry, Carries, OfficeCall, People
  <2>2. ByApprovers(call[c].read)
    BY <2>1 DEF QuotesInv
  <2>3. ByApprovers(s)
    <3> SUFFICES ASSUME NEW i \in 1..Len(s), s[i] \in Staff \ {TestAccount}
                 PROVE  staff[s[i]].status = "approved" /\ staff[s[i]].role = "invoice_approver"
      BY DEF ByApprovers
    <3>1. s[i] = call[c].actor.who \/ \E j \in 1..Len(call[c].read) : s[i] = call[c].read[j]
      BY <2>1, HistoryGrows
    <3> QED BY <2>1, <2>2, <3>1, QuotingMembers DEF ByApprovers
  <2> HIDE DEF s
  <2>4. history' = [history EXCEPT ![call[c].order] = s]
    BY <1>1 DEF WriteQuote, s
  <2>5. \A d \in Calls : call'[d].step = "write" => call'[d] = call[d]
    BY <1>1 DEF WriteQuote, Done, NoCall
  <2> QED BY <2>1, <2>3, <2>4, <2>5, ApproversStand DEF QuotesInv
<1>2. ASSUME NEW c \in Calls, ReadHistories(c) PROVE QuotesInv'
  <2>1. history' = history /\ \A d \in Calls : call'[d] = call[d] \/ \E o \in Orders : call'[d].read = history[o]
    BY <1>2 DEF ReadHistories, StartCall
  <2> QED BY <2>1, ApproversStand DEF QuotesInv
<1>3. ASSUME NEW o \in Orders, PlaceOrder(o) PROVE QuotesInv'
  <2>1. <<Customer>> \in Seq(People) /\ Len(<<Customer>>) = 1 /\ <<Customer>>[1] = Customer
    BY DEF People
  <2>2. ByApprovers(<<Customer>>)
    BY <2>1, OfficeAssumption DEF ByApprovers
  <2>3. call' = call /\ history' = [history EXCEPT ![o] = <<Customer>>]
    BY <1>3 DEF PlaceOrder
  <2> QED BY <2>2, <2>3, ApproversStand DEF QuotesInv
<1>4. CASE UNCHANGED history /\ \A d \in Calls : call'[d].step = "write" => call'[d] = call[d]
  BY <1>4, ApproversStand DEF QuotesInv
<1>5. ASSUME NEW c \in Calls, NEW m, NEW row, Changes(c, m, row)
      PROVE  UNCHANGED history /\ \A d \in Calls : call'[d].step = "write" => call'[d] = call[d]
  BY <1>5 DEF Changes, StartCall, NoCall
<1>6. ASSUME NEW c \in Calls, CallLogin(c) \/ SelectAccount(c) \/ GrantAccess(c) \/ PurgeSessions(c) \/ CallFails(c)
      PROVE  UNCHANGED history /\ \A d \in Calls : call'[d].step = "write" => call'[d] = call[d]
  <2>1. CASE CallLogin(c)
    BY <2>1 DEF CallLogin, StartCall, NoCall
  <2>2. CASE SelectAccount(c)
    BY <2>2 DEF SelectAccount, Done, NoCall, OfficeCall
  <2>3. CASE GrantAccess(c)
    BY <2>3 DEF GrantAccess, Done, NoCall
  <2>4. CASE PurgeSessions(c) \/ CallFails(c)
    BY <2>4 DEF PurgeSessions, CallFails, Done, NoCall
  <2> QED BY <1>6, <2>1, <2>2, <2>3, <2>4
<1>7. CASE OfficeRestarts
  BY <1>4, <1>7 DEF OfficeRestarts, NoCall
<1> QED BY <1>1, <1>2, <1>3, <1>4, <1>5, <1>6, <1>7
        DEF OfficeNext, officeVars, BlockEnds, SessionEnds, Register, CreateMember,
            ReviewMember, SetMemberActive, ResetPassword, DeleteTestAccount

\* Members stand in the history of an order only if the owner approved them as
\* invoice approvers, even when the session of the quote has ended meanwhile.
THEOREM QuotesAreByApprovers == OfficeSpec => []QuotesByApprovers
<1>1. OfficeInit => QuotesInv
  BY DEF OfficeInit, QuotesInv, ByApprovers, NoCall
<1>2. QuotesInv => QuotesByApprovers
  BY DEF QuotesInv, ByApprovers, QuotesByApprovers
<1>3. OfficeInv /\ SessionsMatchAccounts /\ QuotesInv /\ [OfficeNext]_officeVars => QuotesInv'
  BY QuotesStep
<1> QED BY <1>1, <1>2, <1>3, OfficeInvariant, SessionsFollowAccounts, PTL DEF OfficeSpec

\* The logins in flight are counted by a number.
LEMMA InFlightIsFinite ==
  /\ IsFiniteSet(InFlight) /\ Cardinality(InFlight) \in Nat
  /\ Cardinality(InFlight) <= Cardinality(Calls) /\ Cardinality(Calls) \in Nat
<1>1. InFlight \in SUBSET Calls
  BY DEF InFlight
<1> QED BY <1>1, OfficeAssumption, FS_Subset, FS_CardinalityType

\* A step notes a failure only of a login that is over with it, and lets a
\* login in only below the limit; any other step adds neither.
LEMMA GuessStep ==
  ASSUME OfficeInv, [OfficeNext]_officeVars
  PROVE  \/ failures' < LoginLimit
         \/ failures' = failures /\ InFlight' \subseteq InFlight
         \/ failures' = failures + 1 /\ \E c \in InFlight : InFlight' = InFlight \ {c}
<1> USE DEF OfficeInv, OfficeTypeOK, InFlight
<1>1. ASSUME NEW c \in Calls, SelectAccount(c)
      PROVE  \/ failures' = failures /\ InFlight' \subseteq InFlight
             \/ failures' = failures + 1 /\ \E d \in InFlight : InFlight' = InFlight \ {d}
  <2>1. CASE failures' = failures + 1 /\ Done(c)
    <3>1. c \in InFlight /\ InFlight' = InFlight \ {c}
      BY <1>1, <2>1 DEF SelectAccount, Done, NoCall
    <3> QED BY <2>1, <3>1
  <2>2. CASE ~(failures' = failures + 1 /\ Done(c))
    BY <1>1, <2>2 DEF SelectAccount
  <2> QED BY <2>1, <2>2
<1>2. ASSUME NEW c \in Calls, CallLogin(c) \/ GrantAccess(c) PROVE failures' < LoginLimit
  <2>1. CASE CallLogin(c)
    BY <2>1 DEF CallLogin, Admitted
  <2>2. CASE GrantAccess(c)
    BY <2>2, OfficeAssumption DEF GrantAccess
  <2> QED BY <1>2, <2>1, <2>2
<1>3. CASE BlockEnds \/ OfficeRestarts
  BY <1>3, OfficeAssumption DEF BlockEnds, OfficeRestarts
<1>4. ASSUME NEW c \in Calls, NEW m, NEW row, Changes(c, m, row)
      PROVE  failures' = failures /\ InFlight' \subseteq InFlight
  BY <1>4 DEF Changes, StartCall, NoCall
<1>5. ASSUME NEW c \in Calls, ReadHistories(c)
      PROVE  failures' = failures /\ InFlight' \subseteq InFlight
  BY <1>5 DEF ReadHistories, StartCall
<1>6. ASSUME NEW c \in Calls, PurgeSessions(c) \/ WriteQuote(c) \/ CallFails(c)
      PROVE  failures' = failures /\ InFlight' \subseteq InFlight
  <2>1. Done(c) /\ UNCHANGED failures
    BY <1>6 DEF PurgeSessions, WriteQuote, CallFails
  <2> QED BY <2>1 DEF Done, NoCall
<1> QED BY <1>1, <1>2, <1>3, <1>4, <1>5, <1>6
        DEF OfficeNext, officeVars, SessionEnds, Register, CreateMember, PlaceOrder,
            ReviewMember, SetMemberActive, ResetPassword, DeleteTestAccount

\* Overlapping logins are all admitted by one count, yet no more passwords are
\* tried before a block than the limit and the other logins in flight.
THEOREM GuessesBounded == OfficeSpec => []GuessesAreBounded
<1>1. OfficeInit => GuessesAreBounded
  <2> SUFFICES ASSUME OfficeInit PROVE GuessesAreBounded
    OBVIOUS
  <2>1. InFlight = {} /\ failures = 0
    BY DEF OfficeInit, InFlight, NoCall
  <2> QED BY <2>1, InFlightIsFinite, OfficeAssumption, FS_EmptySet DEF GuessesAreBounded
<1>2. OfficeInv /\ GuessesAreBounded /\ [OfficeNext]_officeVars => GuessesAreBounded'
  <2> SUFFICES ASSUME OfficeInv, GuessesAreBounded, [OfficeNext]_officeVars
               PROVE  failures' + Cardinality(InFlight') <= LoginLimit - 1 + Cardinality(Calls)
    BY DEF GuessesAreBounded
  <2>1. InFlight' \in SUBSET Calls
    BY DEF InFlight
  <2>2. /\ Cardinality(InFlight') \in Nat /\ Cardinality(InFlight') <= Cardinality(Calls)
        /\ Cardinality(Calls) \in Nat /\ LoginLimit \in Nat
    BY <2>1, OfficeAssumption, FS_Subset, FS_CardinalityType
  <2>3. failures \in Nat /\ failures' \in Nat
    BY OfficeTypeStep DEF OfficeInv, OfficeTypeOK
  <2>4. CASE failures' < LoginLimit
    BY <2>2, <2>3, <2>4
  <2>5. CASE failures' = failures /\ InFlight' \subseteq InFlight
    <3>1. Cardinality(InFlight') <= Cardinality(InFlight)
      BY <2>5, InFlightIsFinite, FS_Subset
    <3> QED BY <2>2, <2>3, <2>5, <3>1, InFlightIsFinite DEF GuessesAreBounded
  <2>6. CASE failures' = failures + 1 /\ \E c \in InFlight : InFlight' = InFlight \ {c}
    <3>1. Cardinality(InFlight') = Cardinality(InFlight) - 1
      BY <2>6, InFlightIsFinite, FS_RemoveElement
    <3> QED BY <2>2, <2>3, <2>6, <3>1, InFlightIsFinite DEF GuessesAreBounded
  <2> QED BY <2>4, <2>5, <2>6, GuessStep
<1> QED BY <1>1, <1>2, OfficeInvariant, PTL DEF OfficeSpec

-----------------------------------------------------------------------------
(* The organizations *)

\* A request that will update a service names one; files, services and requests
\* are well formed.
PortalInv ==
  /\ PortalTypeOK
  /\ \A p \in PortalCalls : portalCall[p].step \in {"update", "page"} => portalCall[p].service \in Services

\* Files, services and requests of the portal are well formed in every state.
THEOREM PortalInvariant == PortalSpec => []PortalInv
<1> USE PortalAssumption DEF PortalInv, PortalTypeOK
<1>1. PortalInit => PortalInv
  BY DEF PortalInit, Connection, Service, Publication, PortalCall, NoPortalCall
<1>2. PortalInv /\ [PortalNext]_portalVars => PortalInv'
  <2> SUFFICES ASSUME PortalInv, [PortalNext]_portalVars PROVE PortalInv'
    OBVIOUS
  <2> USE DEF Connection, Service, Publication, PortalCall, NoPortalCall, Called, Answered
  <2>1. ASSUME NEW o \in Orgs, SubmitFile(o) \/ ReviewFile(o) PROVE PortalInv'
    BY <2>1 DEF SubmitFile, ReviewFile
  <2>2. ASSUME NEW p \in PortalCalls, ReadServices(p) PROVE PortalInv'
    <3>1. PICK s \in Services :
            Called(p, [NoPortalCall EXCEPT !.step = "page", !.service = s, !.text = service[s].text])
      BY <2>2 DEF ReadServices
    <3> QED BY <2>2, <3>1 DEF ReadServices
  <2>3. ASSUME NEW p \in PortalCalls, CallIssueKey(p) PROVE PortalInv'
    <3>1. PICK o \in Orgs : Called(p, [NoPortalCall EXCEPT !.step = "key", !.org = o])
      BY <2>3 DEF CallIssueKey
    <3> QED BY <2>3, <3>1 DEF CallIssueKey
  <2>4. ASSUME NEW p \in PortalCalls, IssueKey(p) PROVE PortalInv'
    <3>1. connection' = [connection EXCEPT ![portalCall[p].org].keyed = TRUE]
      BY <2>4 DEF IssueKey
    <3>2. connection' \in [Orgs -> Connection]
      BY <3>1
    <3>3. portalCall' = [portalCall EXCEPT ![p] = NoPortalCall] /\ UNCHANGED <<service, publication>>
      BY <2>4 DEF IssueKey
    <3> QED BY <3>2, <3>3
  <2>5. ASSUME NEW p \in PortalCalls, CallPortal(p) PROVE PortalInv'
    <3>1. PICK o \in Orgs :
            \/ Called(p, [NoPortalCall EXCEPT !.step = "insert", !.org = o])
            \/ \E s \in Services :
                 Called(p, [NoPortalCall EXCEPT !.step = "update", !.service = s, !.org = o])
      BY <2>5 DEF CallPortal
    <3>2. CASE Called(p, [NoPortalCall EXCEPT !.step = "insert", !.org = o])
      BY <2>5, <3>2 DEF CallPortal
    <3>3. ASSUME NEW s \in Services,
                 Called(p, [NoPortalCall EXCEPT !.step = "update", !.service = s, !.org = o])
          PROVE  PortalInv'
      BY <2>5, <3>3 DEF CallPortal
    <3> QED BY <3>1, <3>2, <3>3
  <2>6. ASSUME NEW p \in PortalCalls, InsertService(p) PROVE PortalInv'
    <3> DEFINE s == CHOOSE s \in NewServices : TRUE
    <3>1. s \in Services
      BY <2>6 DEF InsertService, NewServices
    <3> HIDE DEF s
    <3>2. PICK x \in Texts :
            service' = [service EXCEPT ![s] = [status |-> "submitted", org |-> portalCall[p].org, text |-> x]]
      BY <2>6 DEF InsertService, s
    <3> QED BY <2>6, <3>1, <3>2 DEF InsertService
  <2>7. ASSUME NEW p \in PortalCalls, UpdateService(p) PROVE PortalInv'
    <3>1. portalCall' = [portalCall EXCEPT ![p] = NoPortalCall] /\ UNCHANGED <<connection, publication>>
      BY <2>7 DEF UpdateService
    <3>2. CASE UNCHANGED service
      BY <3>1, <3>2
    <3>3. CASE ~UNCHANGED service
      <4> DEFINE s == portalCall[p].service
      <4>1. PICK x \in Texts : service' = [service EXCEPT ![s].status = Resubmitted(@), ![s].text = x]
        BY <2>7, <3>3 DEF UpdateService
      <4>2. s \in Services
        BY <2>7 DEF UpdateService
      <4> QED BY <3>1, <4>1, <4>2 DEF Resubmitted
    <3> QED BY <3>2, <3>3
  <2>8. ASSUME NEW p \in PortalCalls, ReviewService(p) PROVE PortalInv'
    <3> DEFINE s == portalCall[p].service
    <3>1. s \in Services /\ service[s].text \in Texts \cup {NoText}
      BY <2>8 DEF ReviewService
    <3>2. PICK r \in {"published", "rejected", "submitted"} :
            /\ service' = [service EXCEPT ![s].status = r]
            /\ publication' = IF r # "published" THEN publication
                 ELSE [publication EXCEPT ![s] = [read |-> portalCall[p].text, stored |-> service[s].text]]
      BY <2>8 DEF ReviewService
    <3>3. publication' \in [Services -> Publication]
      BY <3>1, <3>2
    <3>4. service' \in [Services -> Service]
      <4> HIDE DEF s, PortalCall, Publication, Connection
      <4>1. service' = [service EXCEPT ![s] = [service[s] EXCEPT !.status = r]]
        BY <3>1, <3>2
      <4>2. [service[s] EXCEPT !.status = r] \in Service
        BY <3>1
      <4> QED BY <3>1, <4>1, <4>2
    <3> QED BY <2>8, <3>3, <3>4 DEF ReviewService
  <2>9. ASSUME NEW p \in PortalCalls, PortalFails(p) PROVE PortalInv'
    BY <2>9 DEF PortalFails
  <2>10. CASE UNCHANGED portalVars
    BY <2>10 DEF portalVars
  <2> QED BY <2>1, <2>2, <2>3, <2>4, <2>5, <2>6, <2>7, <2>8, <2>9, <2>10 DEF PortalNext
<1> QED BY <1>1, <1>2, PTL DEF PortalSpec

\* A published service has the text that was stored when it was published,
\* connected or not.
PublishedInv ==
  \A s \in Services : service[s].status = "published" => service[s].text = publication[s].stored

\* What the catalogue shows is the text that was stored at the publication,
\* whatever requests authorized before it write after it.
THEOREM CatalogueStands == PortalSpec => []CatalogueAsPublished
<1>1. PortalInit => PublishedInv
  BY DEF PortalInit, PublishedInv
<1>2. PortalInv /\ PublishedInv /\ [PortalNext]_portalVars => PublishedInv'
  <2> SUFFICES ASSUME PortalInv, PublishedInv, [PortalNext]_portalVars PROVE PublishedInv'
    OBVIOUS
  <2> USE DEF PortalInv, PortalTypeOK, Service, PublishedInv
  <2>1. ASSUME NEW p \in PortalCalls, ReviewService(p) PROVE PublishedInv'
    <3> DEFINE s == portalCall[p].service
    <3>1. s \in Services
      BY <2>1 DEF ReviewService
    <3>2. PICK r \in {"published", "rejected", "submitted"} :
            /\ service' = [service EXCEPT ![s].status = r]
            /\ publication' = IF r # "published" THEN publication
                 ELSE [publication EXCEPT ![s] = [read |-> portalCall[p].text, stored |-> service[s].text]]
      BY <2>1 DEF ReviewService
    <3> QED BY <3>1, <3>2 DEF Publication
  <2>2. ASSUME NEW p \in PortalCalls, InsertService(p) PROVE PublishedInv'
    <3> DEFINE s == CHOOSE s \in NewServices : TRUE
    <3>1. s \in Services
      BY <2>2 DEF InsertService, NewServices
    <3> HIDE DEF s
    <3>2. PICK x \in Texts :
            service' = [service EXCEPT ![s] = [status |-> "submitted", org |-> portalCall[p].org, text |-> x]]
      BY <2>2 DEF InsertService, s
    <3> QED BY <2>2, <3>1, <3>2 DEF InsertService
  <2>3. ASSUME NEW p \in PortalCalls, UpdateService(p) PROVE PublishedInv'
    <3> DEFINE s == portalCall[p].service
    <3>1. CASE UNCHANGED service
      BY <2>3, <3>1 DEF UpdateService
    <3>2. CASE ~UNCHANGED service
      <4>1. PICK x \in Texts : service' = [service EXCEPT ![s].status = Resubmitted(@), ![s].text = x]
        BY <2>3, <3>2 DEF UpdateService
      <4>2. \A t \in Services : service'[t].status = "published" => t # s /\ service'[t] = service[t]
        BY <4>1 DEF Resubmitted
      <4> QED BY <2>3, <4>2 DEF UpdateService
    <3> QED BY <3>1, <3>2
  <2>4. CASE UNCHANGED <<service, publication>>
    BY <2>4
  <2> QED BY <2>1, <2>2, <2>3, <2>4
          DEF PortalNext, portalVars, SubmitFile, ReviewFile, CallIssueKey, IssueKey, CallPortal, ReadServices,
              PortalFails
<1>3. PublishedInv => CatalogueAsPublished
  BY DEF PublishedInv, CatalogueAsPublished, Catalogue
<1> QED BY <1>1, <1>2, <1>3, PortalInvariant, PTL DEF PortalSpec

-----------------------------------------------------------------------------
(* The uploads *)

\* A handler names the kind of its upload while it is at work.
WellFormed(h) ==
  /\ h \in Upload
  /\ h.step = "idle" => h = NoUpload
  /\ h.step # "idle" => h.kind \in Kinds

UploadsInv ==
  /\ UploadsTypeOK
  /\ \A u \in Uploading : WellFormed(upload[u])

\* Files and uploads are well formed in every state.
THEOREM UploadsInvariant == UploadsSpec => []UploadsInv
<1> USE UploadsAssumption DEF UploadsInv, UploadsTypeOK
<1>1. WellFormed(NoUpload)
  BY DEF WellFormed, NoUpload, Upload, Repository
<1>2. \A h : WellFormed(h) => h \in Upload
  BY DEF WellFormed
<1>3. UploadsInit => UploadsInv
  BY <1>1, <1>2 DEF UploadsInit, Content, Repository
<1>4. UploadsInv /\ [UploadsNext]_uploadVars => UploadsInv'
  <2> SUFFICES ASSUME UploadsInv, [UploadsNext]_uploadVars PROVE UploadsInv'
    OBVIOUS
  <2> DEFINE Fitting(f) == f \in [Uploading -> Upload] /\ \A u \in Uploading : WellFormed(f[u])
  <2>1. ASSUME NEW u \in Uploading, Leaves(u) PROVE Fitting(upload')
    BY <1>1, <1>2, <2>1 DEF Leaves
  <2>2. ASSUME NEW u \in Uploading, upload[u].step # "idle",
               NEW s \in {"write", "rename", "get", "put", "answer"}, Goes(u, s)
        PROVE  Fitting(upload')
    <3>1. WellFormed([upload[u] EXCEPT !.step = s])
      BY <2>2 DEF WellFormed, Upload
    <3> QED BY <1>2, <2>2, <3>1 DEF Goes
  <2> DEFINE Weakened(v, b) == [upload[v] EXCEPT !.alone = @ /\ b]
  <2>3. ASSUME NEW v \in Uploading, NEW b \in BOOLEAN PROVE WellFormed(Weakened(v, b))
    <3>1. (upload[v].alone /\ b) \in BOOLEAN
      OBVIOUS
    <3>2. Weakened(v, b) = [upload[v] EXCEPT !.alone = (upload[v].alone /\ b)]
      OBVIOUS
    <3>3. CASE upload[v].step = "idle"
      <4>1. upload[v] = NoUpload /\ upload[v].alone = FALSE
        BY <3>3 DEF WellFormed, NoUpload
      <4>2. [upload[v] EXCEPT !.alone = upload[v].alone] = upload[v]
        BY DEF Upload
      <4>3. (upload[v].alone /\ b) = upload[v].alone
        BY <4>1, Zenon
      <4> QED BY <1>1, <3>2, <4>1, <4>2, <4>3
    <3>4. CASE upload[v].step # "idle"
      BY <3>1, <3>2, <3>4 DEF WellFormed, Upload
    <3> QED BY <3>3, <3>4
  <2> HIDE DEF Weakened
  <2>4. ASSUME NEW u \in Uploading, NEW k \in Kinds, BeginUpload(u, k) PROVE UploadsInv'
    <3> DEFINE h == [step |-> "write", kind |-> k, name |-> "temp", sha |-> None, alone |-> Of(k) = {}]
    <3>1. WellFormed(h)
      BY DEF WellFormed, Upload, Repository, NoUpload
    <3>2. \A v \in Uploading : WellFormed(Weakened(v, upload[v].kind # k))
      BY <2>3
    <3>3. upload' = [v \in Uploading |-> IF v = u THEN h ELSE Weakened(v, upload[v].kind # k)]
      BY <2>4 DEF BeginUpload, Weakened
    <3> HIDE DEF h
    <3>4. Fitting(upload')
      BY <1>2, <3>1, <3>2, <3>3
    <3> QED BY <2>4, <3>4 DEF BeginUpload, Content
  <2>5. ASSUME NEW u \in Uploading, FinishWrite(u) PROVE UploadsInv'
    <3>1. Fitting(upload')
      BY <2>2, <2>5 DEF FinishWrite
    <3>2. \A c \in Content : Filled(c, u) \in Content
      BY DEF Filled, Content
    <3> QED BY <2>5, <3>1, <3>2 DEF FinishWrite
  <2>6. ASSUME NEW u \in Uploading, Rename(u) PROVE UploadsInv'
    <3>1. WellFormed([upload[u] EXCEPT !.step = "get", !.name = "none"])
      BY <2>6 DEF WellFormed, Upload, Rename
    <3>2. ASSUME NEW v \in Uploading, v \in Of(upload[u].kind) PROVE WellFormed(Moved(upload[v]))
      <4>1. upload[u].kind \in Kinds /\ upload[v].kind = upload[u].kind
        BY <2>6, <3>2 DEF Rename, Of, WellFormed
      <4>2. upload[v].step # "idle"
        BY <4>1 DEF WellFormed, NoUpload
      <4> QED BY <4>1, <4>2 DEF WellFormed, Upload, Moved
    <3>3. Fitting(upload')
      BY <1>2, <2>6, <3>1, <3>2 DEF Rename
    <3> QED BY <2>6, <3>3 DEF Rename, Content
  <2>7. ASSUME NEW u \in Uploading, GetSha(u) PROVE UploadsInv'
    <3>1. repo[upload[u].kind] \in Repository
      BY <2>7 DEF GetSha, WellFormed
    <3>2. WellFormed([upload[u] EXCEPT !.step = "put", !.sha = repo[upload[u].kind]])
      BY <2>7, <3>1 DEF WellFormed, Upload, GetSha
    <3>3. Fitting(upload')
      BY <1>2, <2>7, <3>2 DEF GetSha
    <3> QED BY <2>7, <3>3 DEF GetSha
  <2>8. ASSUME NEW u \in Uploading, PutFile(u) PROVE UploadsInv'
    <3>1. Fitting(upload')
      BY <2>1, <2>2, <2>8 DEF PutFile, Refused
    <3> QED BY <2>8, <3>1 DEF PutFile, Repository
  <2>9. ASSUME NEW u \in Uploading, AnswerUpload(u) PROVE UploadsInv'
    <3>1. upload[u].kind \in Kinds
      BY <2>9 DEF AnswerUpload, WellFormed
    <3> QED BY <2>1, <2>9, <3>1 DEF AnswerUpload
  <2>10. ASSUME NEW u \in Uploading, UploadFails(u) PROVE UploadsInv'
    BY <2>1, <2>10 DEF UploadFails
  <2>11. ASSUME NEW k \in Kinds, Push(k) PROVE UploadsInv'
    <3> DEFINE g(v) == Weakened(v, ~(v \in Of(k) /\ upload[v].step = "answer"))
    <3>1. \A v \in Uploading : WellFormed(g(v))
      BY <2>3
    <3>2. upload' = [v \in Uploading |-> g(v)]
      BY <2>11 DEF Push, Weakened
    <3>3. Fitting(upload')
      BY <1>2, <3>1, <3>2
    <3> QED BY <2>11, <3>3 DEF Push, Repository
  <2>12. CASE Redeploy
    BY <1>1, <1>2, <2>12 DEF Redeploy, Content, Repository
  <2>13. CASE UNCHANGED uploadVars
    BY <2>13 DEF uploadVars
  <2> QED BY <2>4, <2>5, <2>6, <2>7, <2>8, <2>9, <2>10, <2>11, <2>12, <2>13 DEF UploadsNext
<1> QED BY <1>3, <1>4, PTL DEF UploadsSpec

\* Where the bytes of an upload are that no other of its kind overlaps: alone in
\* the temporary file, then on the disk, and at last in the repository too.
Kept(u) ==
  LET k == upload[u].kind IN
  CASE upload[u].step = "write"        -> upload[u].name = "temp" /\ temp[k] = Partial
    [] upload[u].step = "rename"       -> temp[k] = u
    [] upload[u].step \in {"get", "put"} -> disk[k] = u
    [] upload[u].step = "answer"       -> disk[k] = u /\ repo[k] = u
    [] OTHER                           -> FALSE

AloneInv ==
  /\ \A u \in Uploading : upload[u].alone => Of(upload[u].kind) = {u} /\ Kept(u)
  /\ \A k \in lasting : Of(k) = {} /\ repo[k] \in Uploading /\ disk[k] = repo[k]

\* An upload's own kind is the only one its steps write.
LEMMA UploadsStep == UploadsInv /\ AloneInv /\ [UploadsNext]_uploadVars => AloneInv'
<1> SUFFICES ASSUME UploadsInv, AloneInv, [UploadsNext]_uploadVars PROVE AloneInv'
  OBVIOUS
<1> USE UploadsAssumption DEF UploadsInv, UploadsTypeOK
<1>1. ASSUME NEW u \in Uploading, upload[u].step # "idle"
      PROVE  upload[u].kind \in Kinds /\ u \in Of(upload[u].kind)
  BY <1>1 DEF WellFormed, Of
<1>2. ASSUME NEW u \in Uploading, NEW k \in Kinds, BeginUpload(u, k) PROVE AloneInv'
  <2>1. upload[u] = NoUpload /\ u \notin Of(k)
    BY <1>2 DEF BeginUpload, NoUpload, Of
  <2>2. /\ upload'[u].kind = k /\ upload'[u].step = "write" /\ upload'[u].name = "temp"
        /\ upload'[u].alone = (Of(k) = {})
        /\ \A v \in Uploading \ {u} :
             /\ upload'[v].kind = upload[v].kind /\ upload'[v].step = upload[v].step
             /\ upload'[v].name = upload[v].name
             /\ upload'[v].alone => upload[v].alone /\ upload[v].kind # k
    BY <1>2 DEF BeginUpload, Upload
  <2>3. Of(k)' = Of(k) \cup {u} /\ \A j \in Kinds \ {k} : Of(j)' = Of(j)
    BY <2>1, <2>2 DEF Of, NoUpload
  <2>4. Of(k) = {} => temp'[k] = Partial
    BY <1>2 DEF BeginUpload, Writers
  <2>5. \A j \in Kinds \ {k} : temp'[j] = temp[j]
    BY <1>2 DEF BeginUpload
  <2>6. UNCHANGED <<disk, repo>> /\ lasting' = lasting \ {k}
    BY <1>2 DEF BeginUpload
  <2>7. ASSUME NEW v \in Uploading, upload'[v].alone PROVE (Of(upload[v].kind) = {v})' /\ Kept(v)'
    <3>1. CASE v = u
      BY <2>2, <2>3, <2>4, <2>7, <3>1 DEF Kept
    <3>2. CASE v # u
      <4>1. upload[v].alone /\ upload[v].kind # k /\ upload[v].step # "idle"
        BY <2>2, <2>7, <3>2 DEF AloneInv, Kept
      <4>2. upload[v].kind \in Kinds \ {k}
        BY <1>1, <4>1
      <4>3. Of(upload[v].kind) = {v} /\ Kept(v)
        BY <4>1 DEF AloneInv
      <4>4. (Of(upload[v].kind) = {v})'
        BY <2>2, <2>3, <3>2, <4>2, <4>3
      <4>5. Kept(v)'
        BY <2>2, <2>5, <2>6, <3>2, <4>2, <4>3 DEF Kept
      <4> QED BY <4>4, <4>5
    <3> QED BY <3>1, <3>2
  <2> QED BY <2>3, <2>6, <2>7 DEF AloneInv
<1>3. ASSUME NEW u \in Uploading, upload[u].step # "idle"
      PROVE  /\ \A v \in Uploading \ {u} : upload[v].alone =>
                  /\ upload[v].kind \in Kinds /\ upload[v].kind # upload[u].kind
                  /\ upload[v].step # "idle"
             /\ upload[u].kind \notin lasting
  <2>1. ASSUME NEW v \in Uploading \ {u}, upload[v].alone
        PROVE  upload[v].step # "idle" /\ Of(upload[v].kind) = {v}
    BY <2>1 DEF AloneInv, Kept
  <2>2. u \in Of(upload[u].kind)
    BY <1>1, <1>3
  <2>3. upload[u].kind \notin lasting
    BY <2>2 DEF AloneInv
  <2>4. ASSUME NEW v \in Uploading \ {u}, upload[v].alone
        PROVE  upload[v].kind \in Kinds /\ upload[v].kind # upload[u].kind
    <3>1. v \in Uploading /\ upload[v].step # "idle"
      BY <2>1, <2>4
    <3>2. upload[v].kind = upload[u].kind => u \in {v}
      BY <2>1, <2>2, <2>4
    <3> QED BY <1>1, <3>1, <3>2
  <2> QED BY <2>1, <2>3, <2>4
<1> DEFINE Steps(u, s) ==
      /\ upload'[u].kind = upload[u].kind /\ upload'[u].step = s
      /\ upload'[u].alone = upload[u].alone
      /\ \A v \in Uploading : v \notin Of(upload[u].kind) => upload'[v] = upload[v]
      /\ \A v \in Uploading : upload'[v].kind = upload[v].kind /\ upload'[v].alone = upload[v].alone
      /\ UNCHANGED lasting
<1> DEFINE Elsewhere(k) == \A j \in Kinds \ {k} :
      temp'[j] = temp[j] /\ disk'[j] = disk[j] /\ repo'[j] = repo[j]
<1>4. ASSUME NEW u \in Uploading, NEW s, upload[u].step # "idle", Steps(u, s),
             Elsewhere(upload[u].kind), upload[u].alone => Kept(u)'
      PROVE  AloneInv'
  <2>1. \A j : Of(j)' = Of(j)
    BY <1>4 DEF Of
  <2>2. ASSUME NEW v \in Uploading, upload'[v].alone PROVE (Of(upload[v].kind) = {v})' /\ Kept(v)'
    <3>1. CASE v = u
      BY <1>4, <2>1, <2>2, <3>1 DEF AloneInv
    <3>2. CASE v # u
      <4>1. upload[v].alone /\ upload[v].kind \in Kinds \ {upload[u].kind}
        BY <1>3, <1>4, <2>2, <3>2
      <4>2. upload'[v] = upload[v]
        BY <1>4, <4>1 DEF Of
      <4>3. Of(upload[v].kind) = {v} /\ Kept(v)
        BY <4>1 DEF AloneInv
      <4>4. (Of(upload[v].kind) = {v})'
        BY <2>1, <4>2, <4>3
      <4>5. Kept(v)'
        BY <1>4, <4>1, <4>2, <4>3 DEF Kept
      <4> QED BY <4>4, <4>5
    <3> QED BY <3>1, <3>2
  <2> QED BY <1>3, <1>4, <2>1, <2>2 DEF AloneInv
<1>5. ASSUME NEW u \in Uploading, upload[u].step # "idle", Leaves(u),
             UNCHANGED <<disk, temp, repo>>,
             \A k \in lasting' : k \in lasting \/ (k = upload[u].kind /\ upload[u].alone /\ upload[u].step = "answer")
      PROVE  AloneInv'
  <2>1. /\ upload'[u] = NoUpload
        /\ \A v \in Uploading \ {u} : upload'[v] = upload[v]
    BY <1>5 DEF Leaves
  <2>2. \A j \in Kinds : Of(j)' = Of(j) \ {u}
    BY <2>1 DEF Of, NoUpload
  <2>3. ASSUME NEW v \in Uploading, upload'[v].alone PROVE (Of(upload[v].kind) = {v})' /\ Kept(v)'
    <3>1. v # u
      BY <2>1, <2>3 DEF NoUpload
    <3>2. upload'[v] = upload[v] /\ upload[v].kind \in Kinds
      BY <1>3, <1>5, <2>1, <2>3, <3>1
    <3> QED BY <1>5, <2>2, <2>3, <3>1, <3>2 DEF AloneInv, Kept
  <2>4. ASSUME NEW k \in lasting' PROVE Of(k)' = {} /\ repo'[k] \in Uploading /\ disk'[k] = repo'[k]
    <3>1. CASE k \in lasting
      BY <1>3, <1>5, <2>2, <3>1 DEF AloneInv
    <3>2. CASE k = upload[u].kind /\ upload[u].alone /\ upload[u].step = "answer"
      <4>1. Of(k) = {u} /\ disk[k] = u /\ repo[k] = u /\ k \in Kinds
        BY <1>1, <1>5, <3>2 DEF AloneInv, Kept
      <4> QED BY <1>5, <2>2, <4>1
    <3> QED BY <1>5, <2>4, <3>1, <3>2
  <2> QED BY <2>3, <2>4 DEF AloneInv
<1>6. ASSUME NEW u \in Uploading, FinishWrite(u) PROVE AloneInv'
  <2>1. upload[u].step # "idle" /\ upload[u].kind \in Kinds
    BY <1>1, <1>6 DEF FinishWrite
  <2>2. Steps(u, "rename")
    BY <1>1, <1>6, <2>1 DEF FinishWrite, Goes, Upload, Of
  <2>3. Elsewhere(upload[u].kind)
    BY <1>6, <2>1 DEF FinishWrite
  <2>4. upload[u].alone => Kept(u)'
    BY <1>6, <2>1, <2>2 DEF FinishWrite, AloneInv, Kept, Filled
  <2> HIDE DEF Steps, Elsewhere
  <2> QED BY <1>4, <2>1, <2>2, <2>3, <2>4
<1>7. ASSUME NEW u \in Uploading, Rename(u) PROVE AloneInv'
  <2>1. upload[u].step # "idle" /\ upload[u].kind \in Kinds
    BY <1>1, <1>7 DEF Rename
  <2>2. Steps(u, "get")
    BY <1>1, <1>7, <2>1 DEF Rename, Upload, Of, Moved
  <2>3. Elsewhere(upload[u].kind)
    BY <1>7, <2>1 DEF Rename
  <2>4. upload[u].alone => Kept(u)'
    BY <1>7, <2>1, <2>2 DEF Rename, AloneInv, Kept
  <2> HIDE DEF Steps, Elsewhere
  <2> QED BY <1>4, <2>1, <2>2, <2>3, <2>4
<1>8. ASSUME NEW u \in Uploading, GetSha(u) PROVE AloneInv'
  <2>1. upload[u].step # "idle" /\ upload[u].kind \in Kinds
    BY <1>1, <1>8 DEF GetSha
  <2>2. Steps(u, "put")
    BY <1>1, <1>8, <2>1 DEF GetSha, Upload, Of
  <2>3. Elsewhere(upload[u].kind)
    BY <1>8 DEF GetSha
  <2>4. upload[u].alone => Kept(u)'
    BY <1>8, <2>1, <2>2 DEF GetSha, AloneInv, Kept
  <2> HIDE DEF Steps, Elsewhere
  <2> QED BY <1>4, <2>1, <2>2, <2>3, <2>4
<1>9. ASSUME NEW u \in Uploading, PutFile(u) PROVE AloneInv'
  <2>1. upload[u].step # "idle" /\ upload[u].kind \in Kinds
    BY <1>1, <1>9 DEF PutFile
  <2>2. CASE repo[upload[u].kind] = upload[u].sha
    <3>1. Steps(u, "answer")
      BY <1>1, <1>9, <2>1, <2>2 DEF PutFile, Goes, Upload, Of
    <3>2. Elsewhere(upload[u].kind)
      BY <1>9, <2>1, <2>2 DEF PutFile
    <3>3. upload[u].alone => Kept(u)'
      BY <1>9, <2>1, <2>2, <3>1 DEF PutFile, AloneInv, Kept
    <3> HIDE DEF Steps, Elsewhere
    <3> QED BY <1>4, <2>1, <3>1, <3>2, <3>3
  <2>3. CASE repo[upload[u].kind] # upload[u].sha
    BY <1>5, <1>9, <2>1, <2>3 DEF PutFile, Refused
  <2> QED BY <2>2, <2>3
<1>10. ASSUME NEW u \in Uploading, AnswerUpload(u) PROVE AloneInv'
  BY <1>5, <1>10 DEF AnswerUpload
<1>11. ASSUME NEW u \in Uploading, UploadFails(u) PROVE AloneInv'
  BY <1>5, <1>11 DEF UploadFails
<1>12. ASSUME NEW k \in Kinds, Push(k) PROVE AloneInv'
  <2>1. \A v \in Uploading :
          /\ upload'[v].kind = upload[v].kind /\ upload'[v].step = upload[v].step
          /\ upload'[v].name = upload[v].name
          /\ upload'[v].alone => upload[v].alone /\ ~(upload[v].kind = k /\ upload[v].step = "answer")
    BY <1>12 DEF Push, Upload, Of
  <2>2. \A j : Of(j)' = Of(j)
    BY <2>1 DEF Of
  <2>3. /\ UNCHANGED <<disk, temp>> /\ lasting' = lasting \ {k}
        /\ \A j \in Kinds \ {k} : repo'[j] = repo[j]
    BY <1>12 DEF Push
  <2>4. ASSUME NEW v \in Uploading, upload'[v].alone PROVE (Of(upload[v].kind) = {v})' /\ Kept(v)'
    <3>1. upload[v].step # "idle"
      BY <2>1, <2>4 DEF AloneInv, Kept
    <3>2. upload[v].kind \in Kinds
      BY <1>1, <3>1
    <3>3. Of(upload[v].kind) = {v} /\ Kept(v)
      BY <2>1, <2>4 DEF AloneInv
    <3>4. (Of(upload[v].kind) = {v})'
      BY <2>1, <2>2, <3>3
    <3>5. Kept(v)'
      BY <2>1, <2>3, <2>4, <3>2, <3>3 DEF Kept
    <3> QED BY <3>4, <3>5
  <2> QED BY <2>2, <2>3, <2>4 DEF AloneInv
<1>13. CASE Redeploy
  <2>1. \A v \in Uploading : upload'[v] = NoUpload
    BY <1>13 DEF Redeploy
  <2>2. \A j \in Kinds : Of(j)' = {}
    BY <2>1 DEF Of, NoUpload
  <2> QED BY <1>13, <2>1, <2>2 DEF Redeploy, AloneInv, NoUpload
<1>14. CASE UNCHANGED uploadVars
  BY <1>14 DEF uploadVars, AloneInv, Kept, Of
<1> QED BY <1>2, <1>6, <1>7, <1>8, <1>9, <1>10, <1>11, <1>12, <1>13, <1>14 DEF UploadsNext

\* PersistentUploadsLast, of the uploads routes/admin.ts answers persistent: true.
THEOREM UploadsLast == UploadsSpec => []PersistentUploadsLast
<1> USE UploadsAssumption
<1>1. UploadsInit => AloneInv
  BY DEF UploadsInit, AloneInv, NoUpload
<1>2. AloneInv => PersistentUploadsLast
  BY DEF AloneInv, PersistentUploadsLast
<1> QED BY <1>1, <1>2, UploadsInvariant, UploadsStep, PTL DEF UploadsSpec

-----------------------------------------------------------------------------
(* Providers *)

\* No provider is approved but on agreed terms, so whoever is on the list is
\* offered; an order that found its provider on the list has seen the offer.
Found(h) == h.step \in {"ensure", "insert"} \/ (h.step = "select" /\ OnList(h.named))

ProvidersInv ==
  /\ ProvidersTypeOK
  /\ \A p \in Applicants : provider[p].status = "approved" => provider[p].agreed
  /\ \A c \in Customers : Found(ordering[c]) => ordering[c].seen
  /\ \A o \in placed : o.seen

\* Providers and their orders are well formed, and an order that may still be
\* stored was on offer while it was served.
THEOREM ProvidersInvariant == ProvidersSpec => []ProvidersInv
<1> USE ProvidersAssumption
<1>1. ProvidersInit => ProvidersInv
  BY DEF ProvidersInit, ProvidersInv, ProvidersTypeOK, NotApplied, NotOrdering, Provider, Ordering,
         ProviderStatus, Found
<1>2. ProvidersInv /\ [ProvidersNext]_providersVars => ProvidersInv'
  <2> SUFFICES ASSUME ProvidersInv, [ProvidersNext]_providersVars PROVE ProvidersInv'
    OBVIOUS
  <2> USE DEF ProvidersInv, ProvidersTypeOK
  <2> DEFINE Fitting(h) ==
        h \in Ordering /\ (h.step = "idle" <=> h.named = NoApplicant) /\ (Found(h) => h.seen)
  <2>1. Fitting(NotOrdering)
    BY DEF NotOrdering, Ordering, Found
  <2>2. ASSUME NEW c \in Customers, NEW h, Fitting(h), ordering' = [ordering EXCEPT ![c] = h],
               UNCHANGED provider, placed' \subseteq [named: Applicants, seen: BOOLEAN],
               \A o \in placed' : o.seen
        PROVE  ProvidersInv'
    <3>1. /\ ordering' \in [Customers -> Ordering]
          /\ \A d \in Customers : ordering'[d] = IF d = c THEN h ELSE ordering[d]
      BY <2>2
    <3>2. \A x : Found(x)' <=> Found(x)
      BY <2>2 DEF Found, OnList
    <3> QED BY <2>2, <3>1, <3>2
  <2>3. ASSUME NEW c \in Customers, LeaveOrder(c) PROVE ProvidersInv'
    <3> HIDE DEF Fitting
    <3> QED BY <2>1, <2>2, <2>3 DEF LeaveOrder
  <2>4. ASSUME NEW p \in Applicants, NEW row \in Provider, row.status = "approved" => row.agreed,
               WriteProvider(p, row)
        PROVE  ProvidersInv'
    <3>1. provider' \in [Applicants -> Provider] /\ provider'[p] = row
          /\ \A r \in Applicants \ {p} : provider'[r] = provider[r]
      BY <2>4 DEF WriteProvider
    <3>2. Offered(p)' <=> row.status = "approved" /\ row.listed /\ row.agreed
      BY <3>1 DEF Offered
    <3>3. ASSUME NEW c \in Customers
          PROVE  /\ ordering'[c] \in Ordering
                 /\ ordering'[c].step = ordering[c].step /\ ordering'[c].named = ordering[c].named
                 /\ ordering'[c].seen <=> ordering[c].seen \/ (ordering[c].named = p /\ Offered(p)')
      <4> DEFINE b == ordering[c].seen \/ (ordering[c].named = p /\ Offered(p)')
      <4>1. b \in BOOLEAN
        BY DEF Offered
      <4>2. ordering'[c] = [ordering[c] EXCEPT !.seen = b]
        BY <2>4 DEF WriteProvider
      <4> HIDE DEF b
      <4>3. ordering'[c] \in Ordering /\ ordering'[c].step = ordering[c].step
            /\ ordering'[c].named = ordering[c].named /\ ordering'[c].seen = b
        BY <4>1, <4>2 DEF Ordering
      <4> QED BY <4>3 DEF b
    <3>4. ordering' \in [Customers -> Ordering]
      BY <2>4, <3>3 DEF WriteProvider
    <3>5. ASSUME NEW c \in Customers, Found(ordering[c])' PROVE ordering'[c].seen
      <4>1. CASE Found(ordering[c])
        BY <3>3, <4>1
      <4>2. CASE ~Found(ordering[c])
        <5>1. ordering[c].step = "select" /\ OnList(ordering[c].named)' /\ ~OnList(ordering[c].named)
          BY <3>3, <3>5, <4>2 DEF Found
        <5>2. ordering[c].named \in Applicants
          BY <5>1 DEF Ordering
        <5>3. ordering[c].named = p
          BY <3>1, <3>3, <5>1, <5>2 DEF OnList
        <5> QED BY <2>4, <3>1, <3>2, <3>3, <5>1, <5>3 DEF OnList
      <4> QED BY <4>1, <4>2
    <3>6. \A q \in Applicants : provider'[q].status = "approved" => provider'[q].agreed
      BY <2>4, <3>1
    <3>7. \A c \in Customers : ordering'[c].step = "idle" <=> ordering'[c].named = NoApplicant
      BY <3>3
    <3>8. UNCHANGED placed
      BY <2>4 DEF WriteProvider
    <3>9. \A c \in Customers : Found(ordering[c])' => ordering'[c].seen
      BY <3>5
    <3> QED BY <3>1, <3>4, <3>6, <3>7, <3>8, <3>9
  <2>5. ASSUME NEW p \in Applicants, Apply(p) PROVE ProvidersInv'
    <3>1. PICK l \in BOOLEAN : WriteProvider(p, [status |-> "pending_review", listed |-> l, agreed |-> FALSE])
      BY <2>5 DEF Apply
    <3> QED BY <2>4, <3>1 DEF Provider, ProviderStatus
  <2>6. ASSUME NEW p \in Applicants, ReviewProvider(p) PROVE ProvidersInv'
    <3>1. PICK s \in ProviderStatus, a \in BOOLEAN :
            (s = "approved" => a) /\ WriteProvider(p, [provider[p] EXCEPT !.status = s, !.agreed = a])
      BY <2>6 DEF ReviewProvider
    <3> DEFINE row == [provider[p] EXCEPT !.status = s, !.agreed = a]
    <3>2. row \in Provider /\ row.status = s /\ row.agreed = a
      BY DEF Provider
    <3> HIDE DEF row
    <3> QED BY <2>4, <3>1, <3>2 DEF row
  <2>7. ASSUME NEW c \in Customers, NEW p \in Applicants, CallOrder(c, p) PROVE ProvidersInv'
    <3> DEFINE h == [step |-> "select", named |-> p, seen |-> Offered(p)]
    <3>1. Fitting(h)
      BY DEF Ordering, Found, OnList, Offered
    <3> HIDE DEF Fitting, h
    <3>2. ordering' = [ordering EXCEPT ![c] = h] /\ UNCHANGED <<provider, placed>>
      BY <2>7 DEF CallOrder, h
    <3> QED BY <2>2, <3>1, <3>2
  <2>8. ASSUME NEW c \in Customers, NEW s \in {"ensure", "insert"}, Found(ordering[c]),
               ordering' = [ordering EXCEPT ![c].step = s], UNCHANGED <<provider, placed>>
        PROVE  ProvidersInv'
    <3> DEFINE h == [ordering[c] EXCEPT !.step = s]
    <3>1. Fitting(h)
      BY <2>8 DEF Ordering, Found
    <3> HIDE DEF Fitting, h
    <3>2. ordering' = [ordering EXCEPT ![c] = h]
      BY <2>8 DEF h
    <3> QED BY <2>2, <2>8, <3>1, <3>2
  <2>9. ASSUME NEW c \in Customers, FindProvider(c) PROVE ProvidersInv'
    BY <2>3, <2>8, <2>9 DEF FindProvider, Found
  <2>10. ASSUME NEW c \in Customers, EnsureTable(c) PROVE ProvidersInv'
    BY <2>3, <2>8, <2>10 DEF EnsureTable, Found
  <2>11. ASSUME NEW c \in Customers, StoreOrder(c) PROVE ProvidersInv'
    <3>1. CASE LeaveOrder(c)
      BY <2>3, <3>1
    <3>2. CASE /\ placed' = placed \cup {[named |-> ordering[c].named, seen |-> ordering[c].seen]}
               /\ ordering' = [ordering EXCEPT ![c] = NotOrdering]
               /\ UNCHANGED provider
      <4>1. ordering[c].named \in Applicants /\ ordering[c].seen = TRUE
        BY <2>11 DEF StoreOrder, Ordering, Found
      <4> DEFINE o == [named |-> ordering[c].named, seen |-> TRUE]
      <4>2. o \in [named: Applicants, seen: BOOLEAN] /\ o.seen
        BY <4>1
      <4>3. placed' = placed \cup {o}
        BY <3>2, <4>1
      <4> HIDE DEF o
      <4>4. placed' \subseteq [named: Applicants, seen: BOOLEAN] /\ \A x \in placed' : x.seen
        BY <4>2, <4>3
      <4> HIDE DEF Fitting
      <4> QED BY <2>1, <2>2, <3>2, <4>4
    <3> QED BY <2>11, <3>1, <3>2 DEF StoreOrder
  <2>12. CASE UNCHANGED providersVars
    BY <2>12 DEF providersVars, Found, OnList
  <2> QED BY <2>5, <2>6, <2>7, <2>9, <2>10, <2>11, <2>12 DEF ProvidersNext
<1> QED BY <1>1, <1>2, PTL DEF ProvidersSpec

\* OrdersNameOffers, of the orders that name a provider of routes/admin.ts.
THEOREM OrdersNameOffered == ProvidersSpec => []OrdersNameOffers
<1>1. ProvidersInv => OrdersNameOffers
  BY DEF ProvidersInv, OrdersNameOffers
<1> QED BY <1>1, ProvidersInvariant, PTL

-----------------------------------------------------------------------------
(* Visitors *)

MemorySteps == {"get", "patch", "delete", "update", "remove"}

\* Whose a request is, and what is stored of that account by now.
Stands(v) ==
  /\ v.step # "idle" => v.user \in Users
  /\ v.step \in MemorySteps => v.memory \in MemoryIds
  /\ v.step \notin {"idle", "user"} => v.user \in users
  /\ v.step \notin {"idle", "user", "code"} => v.user \in credential

AccountsInv ==
  /\ VisitorsTypeOK
  /\ \A q \in Visits : Stands(visit[q])
  /\ \A u \in Users : told[u] # "none" => u \in users \cap credential
  /\ \A s \in SessionIds : Valid(s) => session[s] \in users \cap credential

\* A handler that ends leaves nothing behind but what it showed.
LEMMA Ending ==
  ASSUME VisitorsTypeOK, NEW q \in Visits, NEW shown \in SUBSET MemoryIds, End(q, shown)
  PROVE  /\ visit' \in [Visits -> Visit]
         /\ visit'[q].step = "idle" /\ visit'[q].code = "none" /\ visit'[q].shown = shown
         /\ shown # {} => visit'[q].user = visit[q].user
         /\ \A p \in Visits \ {q} : visit'[p] = visit[p]
<1> USE DEF VisitorsTypeOK
<1> DEFINE h == IF shown = {} THEN NoVisit ELSE [NoVisit EXCEPT !.user = visit[q].user, !.shown = shown]
<1>1. /\ h \in Visit /\ h.step = "idle" /\ h.code = "none" /\ h.shown = shown
      /\ shown # {} => h.user = visit[q].user
  BY DEF NoVisit, Visit, VisitStep, Code
<1>2. visit' = [visit EXCEPT ![q] = h]
  BY DEF End
<1> HIDE DEF h
<1> QED BY <1>1, <1>2

\* A handler that goes on keeps what it holds.
LEMMA Proceeding ==
  ASSUME VisitorsTypeOK, NEW q \in Visits, NEW s \in VisitStep, Proceed(q, s)
  PROVE  /\ visit' \in [Visits -> Visit]
         /\ visit'[q].step = s /\ visit'[q].memory = visit[q].memory /\ visit'[q].user = visit[q].user
         /\ visit'[q].code = visit[q].code /\ visit'[q].shown = visit[q].shown
         /\ \A p \in Visits \ {q} : visit'[p] = visit[p]
BY DEF VisitorsTypeOK, Proceed, Visit

\* A step of one handler that only adds to what is stored.
LEMMA VisitSteps ==
  ASSUME AccountsInv, NEW q \in Visits, visit' \in [Visits -> Visit],
         \A p \in Visits \ {q} : visit'[p] = visit[p] \/ (visit'[p].step = visit[p].step /\ visit'[p].user = visit[p].user /\ visit'[p].memory = visit[p].memory),
         users \subseteq users', users' \subseteq Users,
         credential \subseteq credential', credential' \subseteq Users,
         Stands(visit[q])'
  PROVE  \A p \in Visits : Stands(visit[p])'
BY DEF AccountsInv, Stands

\* Requests, accounts and sessions are well formed in every state.
THEOREM AccountsInvariant == VisitorsSpec => []AccountsInv
<1> USE VisitorsAssumption
<1>1. VisitorsInit => AccountsInv
  BY DEF VisitorsInit, AccountsInv, VisitorsTypeOK, Stands, NoVisit, Visit, VisitStep, MemorySteps,
         Memory, Code, Valid
<1>2. AccountsInv /\ [VisitorsNext]_visitorVars => AccountsInv'
  <2> SUFFICES ASSUME AccountsInv, [VisitorsNext]_visitorVars PROVE AccountsInv'
    OBVIOUS
  <2> USE DEF AccountsInv, VisitorsTypeOK
  <2>1. ASSUME NEW q \in Visits, CallRegister(q) PROVE AccountsInv'
    <3>1. PICK u \in Users \ users : Begin(q, [NoVisit EXCEPT !.step = "user", !.user = u, !.code = "other"])
      BY <2>1 DEF CallRegister
    <3> DEFINE h == [NoVisit EXCEPT !.step = "user", !.user = u, !.code = "other"]
    <3>2. h \in Visit /\ h.step = "user" /\ h.user = u
      BY DEF NoVisit, Visit, VisitStep, Code
    <3> HIDE DEF h
    <3>3. visit' = [visit EXCEPT ![q] = h]
      BY <3>1 DEF Begin, h
    <3>4. UNCHANGED <<users, credential, session, memory, told, clouded>>
      BY <2>1 DEF CallRegister
    <3>5. Stands(visit[q])'
      BY <3>2, <3>3 DEF Stands, MemorySteps
    <3> QED BY <3>2, <3>3, <3>4, <3>5, VisitSteps DEF Valid
  <2>2. ASSUME NEW q \in Visits, CreateUser(q) PROVE AccountsInv'
    <3>1. visit[q].step = "user" /\ visit[q].user \in Users /\ Proceed(q, "code")
          /\ users' = users \cup {visit[q].user}
          /\ UNCHANGED <<credential, session, memory, told, clouded>>
      BY <2>2 DEF CreateUser, Stands
    <3>2. Stands(visit[q])'
      BY <3>1, Proceeding DEF Stands, MemorySteps, VisitStep
    <3> QED BY <3>1, <3>2, Proceeding, VisitSteps DEF Valid, VisitStep
  <2>3. ASSUME NEW q \in Visits, InsertCredential(q) PROVE AccountsInv'
    <3>1. visit[q].step = "code" /\ visit[q].user \in Users \cap users
          /\ credential' = credential \cup {visit[q].user}
          /\ UNCHANGED <<users, session, memory, told, clouded>>
      BY <2>3 DEF InsertCredential, Stands
    <3> DEFINE h == [visit[q] EXCEPT !.step = "open", !.code = "current"]
    <3>2. h \in Visit /\ h.step = "open" /\ h.user = visit[q].user
      BY DEF Visit, VisitStep, Code
    <3>3. visit' = [visit EXCEPT ![q] = h]
      BY <2>3 DEF InsertCredential
    <3> HIDE DEF h
    <3>4. /\ visit' \in [Visits -> Visit] /\ visit'[q].step = "open" /\ visit'[q].user = visit[q].user
          /\ \A p \in Visits \ {q} : visit'[p] = visit[p]
      BY <3>2, <3>3
    <3>5. Stands(visit[q])'
      BY <3>1, <3>4 DEF Stands, MemorySteps
    <3> QED BY <3>1, <3>4, <3>5, VisitSteps DEF Valid
  <2>4. ASSUME NEW q \in Visits, CreateSession(q) PROVE AccountsInv'
    <3>1. visit[q].step = "open" /\ visit[q].user \in users \cap credential
          /\ UNCHANGED <<users, credential, memory, told, clouded>>
      BY <2>4 DEF CreateSession, Stands
    <3>2. PICK s \in SessionIds : session' = [session EXCEPT ![s] = visit[q].user]
      BY <2>4 DEF CreateSession
    <3>3. CASE End(q, {})
      BY <3>1, <3>2, <3>3, Ending, VisitSteps DEF Valid, Stands, MemorySteps
    <3>4. CASE Proceed(q, "registered")
      <4>1. Stands(visit[q])'
        BY <3>1, <3>4, Proceeding DEF Stands, MemorySteps, VisitStep
      <4> QED BY <3>1, <3>2, <3>4, <4>1, Proceeding, VisitSteps DEF Valid, VisitStep
    <3> QED BY <2>4, <3>3, <3>4 DEF CreateSession
  <2>5. ASSUME NEW q \in Visits, TellCode(q) PROVE AccountsInv'
    <3>1. visit[q].user \in users \cap credential /\ End(q, {})
          /\ UNCHANGED <<users, credential, session, memory, clouded>>
          /\ told' = [told EXCEPT ![visit[q].user] = visit[q].code]
      BY <2>5 DEF TellCode, Stands
    <3>2. visit[q].code \in Code
      BY DEF Visit
    <3>3. \A p \in Visits : Stands(visit[p])'
      BY <3>1, Ending, VisitSteps DEF Stands, MemorySteps
    <3> QED BY <3>1, <3>2, <3>3, Ending DEF Valid
  <2>6. ASSUME NEW q \in Visits, Login(q) PROVE AccountsInv'
    <3>1. PICK u \in users \cap credential : Begin(q, [NoVisit EXCEPT !.step = "open", !.user = u])
      BY <2>6 DEF Login
    <3> DEFINE h == [NoVisit EXCEPT !.step = "open", !.user = u]
    <3>2. h \in Visit /\ h.step = "open" /\ h.user = u
      BY DEF NoVisit, Visit, VisitStep, Code
    <3> HIDE DEF h
    <3>3. visit' = [visit EXCEPT ![q] = h]
      BY <3>1 DEF Begin, h
    <3>4. UNCHANGED <<users, credential, session, memory, told, clouded>>
      BY <2>6 DEF Login
    <3>5. Stands(visit[q])'
      BY <3>2, <3>3, <3>4 DEF Stands, MemorySteps
    <3> QED BY <3>2, <3>3, <3>4, <3>5, VisitSteps DEF Valid
  <2>7. ASSUME NEW q \in Visits, Authenticate(q) PROVE AccountsInv'
    <3>1. PICK s \in SessionIds, m \in MemoryIds,
               op \in {"rotate", "create", "list", "chat", "get", "patch", "delete"} :
            /\ Valid(s)
            /\ Begin(q, [NoVisit EXCEPT !.step = op, !.user = session[s],
                           !.memory = IF op \in {"get", "patch", "delete"} THEN m ELSE NoMemory])
      BY <2>7 DEF Authenticate
    <3> DEFINE h == [NoVisit EXCEPT !.step = op, !.user = session[s],
                       !.memory = IF op \in {"get", "patch", "delete"} THEN m ELSE NoMemory]
    <3>2. h \in Visit /\ h.step = op /\ h.user = session[s] /\ (op \in MemorySteps => h.memory \in MemoryIds)
      BY DEF NoVisit, Visit, VisitStep, Code, MemorySteps
    <3> HIDE DEF h
    <3>3. visit' = [visit EXCEPT ![q] = h]
      BY <3>1 DEF Begin, h
    <3>4. UNCHANGED <<users, credential, session, memory, told, clouded>>
      BY <2>7 DEF Authenticate
    <3>5. Stands(visit[q])'
      BY <3>1, <3>2, <3>3, <3>4 DEF Stands, MemorySteps
    <3> QED BY <3>2, <3>3, <3>4, <3>5, VisitSteps DEF Valid
  <2>8. ASSUME NEW q \in Visits, UpdateCredential(q) PROVE AccountsInv'
    <3> DEFINE u == visit[q].user
    <3>1. visit[q].step = "rotate" /\ u \in Users /\ u \in users \cap credential
          /\ UNCHANGED <<users, credential, session, memory>>
      BY <2>8 DEF UpdateCredential, Stands
    <3>2. \A c \in Code : Outdated(c) \in Code /\ (Outdated(c) = "none" <=> c = "none")
      BY DEF Outdated, Code
    <3>3. told' = [told EXCEPT ![u] = Outdated(@)] /\ clouded' \subseteq Users
      BY <2>8, <3>1 DEF UpdateCredential
    <3>4. [visit[q] EXCEPT !.step = "rotated", !.code = "current"] \in Visit
      BY DEF Visit, VisitStep, Code
    <3>5. \A p \in Visits : /\ Outdated(visit[p].code) \in Code
                            /\ [visit[p] EXCEPT !.code = Outdated(@)] \in Visit
      BY <3>2 DEF Visit
    <3>6. visit' = [p \in Visits |->
               IF p = q THEN [visit[q] EXCEPT !.step = "rotated", !.code = "current"]
               ELSE IF visit[p].user = u THEN [visit[p] EXCEPT !.code = Outdated(@)] ELSE visit[p]]
      BY <2>8, <3>1 DEF UpdateCredential
    <3>7. visit' \in [Visits -> Visit]
      BY <3>4, <3>5, <3>6
    <3>8. /\ visit'[q].step = "rotated" /\ visit'[q].user = u
          /\ \A p \in Visits \ {q} :
               visit'[p].step = visit[p].step /\ visit'[p].user = visit[p].user /\ visit'[p].memory = visit[p].memory
      BY <3>6 DEF Visit
    <3>9. \A p \in Visits : Stands(visit[p])'
      BY <3>1, <3>7, <3>8, VisitSteps DEF Stands, MemorySteps
    <3>10. told' \in [Users -> Code] /\ \A v \in Users : told'[v] # "none" => told[v] # "none"
      BY <3>1, <3>2, <3>3
    <3> HIDE DEF u
    <3> QED BY <3>1, <3>3, <3>7, <3>9, <3>10 DEF Valid
  <2>9. ASSUME NEW q \in Visits, NEW shown \in SUBSET MemoryIds, End(q, shown),
               UNCHANGED <<users, credential, session, told, clouded>>, memory' \in [MemoryIds -> Memory]
        PROVE  AccountsInv'
    <3>1. \A p \in Visits : Stands(visit[p])'
      BY <2>9, Ending, VisitSteps DEF Stands, MemorySteps
    <3> QED BY <2>9, <3>1, Ending DEF Valid
  <2>10. ASSUME NEW m \in MemoryIds, NEW s \in {"absent", "live", "expired", "deleted"}, Becomes(m, s)
         PROVE  memory' \in [MemoryIds -> Memory]
    BY <2>10 DEF Becomes, Memory
  <2>11. ASSUME NEW q \in Visits, CreateMemory(q) PROVE AccountsInv'
    <3>1. [owner |-> visit[q].user, state |-> "live"] \in Memory
      BY DEF Memory, Visit
    <3> QED BY <2>9, <2>11, <3>1 DEF CreateMemory
  <2>12. ASSUME NEW q \in Visits, ListMemories(q) PROVE AccountsInv'
    BY <2>9, <2>12 DEF ListMemories, Listed
  <2>13. ASSUME NEW q \in Visits, ReadMemory(q) PROVE AccountsInv'
    <3>1. visit[q].step \in {"get", "patch", "delete"} /\ visit[q].memory \in MemoryIds
          /\ UNCHANGED <<users, credential, session, memory, told, clouded>>
      BY <2>13 DEF ReadMemory, Stands, MemorySteps
    <3>2. ASSUME NEW s \in {"update", "remove"}, Proceed(q, s) PROVE AccountsInv'
      <4>1. Stands(visit[q])'
        BY <3>1, <3>2, Proceeding DEF Stands, MemorySteps, VisitStep
      <4> QED BY <3>1, <3>2, <4>1, Proceeding, VisitSteps DEF Valid, VisitStep
    <3>3. ASSUME NEW shown \in {{}, {visit[q].memory}}, End(q, shown) PROVE AccountsInv'
      BY <2>9, <3>1, <3>3
    <3>4. \/ End(q, {}) \/ End(q, {visit[q].memory}) \/ Proceed(q, "update") \/ Proceed(q, "remove")
      BY <2>13, <3>1 DEF ReadMemory
    <3> QED BY <3>2, <3>3, <3>4
  <2>14. ASSUME NEW q \in Visits, UpdateMemory(q) PROVE AccountsInv'
    <3>1. visit[q].memory \in MemoryIds /\ UNCHANGED <<users, credential, session, told, clouded>>
      BY <2>14 DEF UpdateMemory, Stands, MemorySteps
    <3>2. memory[visit[q].memory].state \in {"absent", "live", "expired", "deleted"}
      BY <3>1 DEF Memory
    <3>3. memory' \in [MemoryIds -> Memory] /\ (End(q, {}) \/ End(q, {visit[q].memory}))
      BY <2>10, <2>14, <3>1, <3>2 DEF UpdateMemory
    <3> QED BY <2>9, <3>1, <3>3
  <2>15. ASSUME NEW q \in Visits, RemoveMemory(q) PROVE AccountsInv'
    <3>1. visit[q].memory \in MemoryIds
      BY <2>15 DEF RemoveMemory, Stands, MemorySteps
    <3> QED BY <2>9, <2>10, <2>15, <3>1 DEF RemoveMemory
  <2>16. NoVisit \in Visit /\ Stands(NoVisit)'
    BY DEF NoVisit, Visit, VisitStep, Code, Stands, MemorySteps
  <2>17. ASSUME NEW q \in Visits, Fails(q) PROVE AccountsInv'
    <3>1. visit'[q] = NoVisit /\ visit' \in [Visits -> Visit]
          /\ (\A p \in Visits \ {q} : visit'[p] = visit[p])
          /\ UNCHANGED <<users, credential, session, memory, told>>
      BY <2>16, <2>17 DEF Fails
    <3>2. clouded' \subseteq Users
      BY <2>17 DEF Fails, Stands
    <3> QED BY <2>16, <3>1, <3>2, VisitSteps DEF Valid
  <2>18. CASE Crash
    <3>1. clouded' \subseteq Users
      BY <2>18 DEF Crash, Stands
    <3> QED BY <2>16, <2>18, <3>1 DEF Crash, Valid
  <2>19. ASSUME NEW s \in SessionIds, SessionExpires(s) PROVE AccountsInv'
    BY <2>19 DEF SessionExpires, Valid, Stands
  <2>20. ASSUME NEW m \in MemoryIds, MemoryExpires(m) PROVE AccountsInv'
    BY <2>10, <2>20 DEF MemoryExpires, Valid, Stands
  <2>21. CASE UNCHANGED visitorVars
    BY <2>21 DEF visitorVars, Valid, Stands
  <2> QED BY <2>1, <2>2, <2>3, <2>4, <2>5, <2>6, <2>7, <2>8, <2>11, <2>12, <2>13, <2>14, <2>15, <2>17,
             <2>18, <2>19, <2>20, <2>21 DEF VisitorsNext
<1> QED BY <1>1, <1>2, PTL DEF VisitorsSpec

\* SessionsAreRecoverable, of the sessions routes/recovery.ts opens.
THEOREM SessionsRecoverable == VisitorsSpec => []SessionsAreRecoverable
<1>1. AccountsInv => SessionsAreRecoverable
  BY DEF AccountsInv, SessionsAreRecoverable, Known
<1> QED BY <1>1, AccountsInvariant, PTL

\* What a request showed, or is about to write, belongs to its user.
Owns(v) ==
  /\ \A m \in v.shown : memory[m].owner = v.user /\ memory[m].state # "absent"
  /\ v.step \in {"update", "remove"} =>
       memory[v.memory].owner = v.user /\ memory[v.memory].state # "absent"

MemoriesInv == AccountsInv /\ \A q \in Visits : Owns(visit[q])

\* Memory m is written for a request of its owner, or it expires.
Privately(m) ==
  memory'[m] # memory[m] /\ ~MemoryExpires(m) =>
    \E q \in Visits : visit[q] # visit'[q] /\ memory'[m].owner = visit[q].user

\* Once a memory exists, its owner never changes.
LEMMA MemoriesStep ==
  ASSUME MemoriesInv, [VisitorsNext]_visitorVars
  PROVE  /\ \A q \in Visits : Owns(visit[q])'
         /\ \A m \in MemoryIds : Privately(m)
<1> USE DEF MemoriesInv
<1> DEFINE Keeps == \A m \in MemoryIds : memory[m].state # "absent" =>
                      memory'[m].owner = memory[m].owner /\ memory'[m].state # "absent"
<1>1. VisitorsTypeOK
  BY DEF AccountsInv
<1>2. ASSUME NEW v, v.shown \subseteq MemoryIds, v.step \in {"update", "remove"} => v.memory \in MemoryIds, Owns(v), Keeps
      PROVE  Owns(v)'
  BY <1>2 DEF Owns
<1>3. \A q \in Visits : /\ visit[q].shown \subseteq MemoryIds
                        /\ visit[q].step \in {"update", "remove"} => visit[q].memory \in MemoryIds
  BY <1>1 DEF AccountsInv, VisitorsTypeOK, Visit, Stands, MemorySteps
<1>4. ASSUME NEW q \in Visits, NEW shown \in SUBSET MemoryIds, End(q, shown), Keeps,
             \A m \in shown : memory'[m].owner = visit[q].user /\ memory'[m].state # "absent"
      PROVE  \A p \in Visits : Owns(visit[p])'
  <2>1. Owns(visit[q])'
    BY <1>1, <1>4, Ending DEF Owns
  <2>2. \A p \in Visits \ {q} : visit'[p] = visit[p]
    BY <1>1, <1>4, Ending
  <2> HIDE DEF Keeps
  <2>3. \A p \in Visits \ {q} : Owns(visit[p])'
    BY <1>2, <1>3, <1>4, <2>2 DEF Owns
  <2> QED BY <2>1, <2>3
<1>5. ASSUME NEW q \in Visits, NEW s \in {"update", "remove"}, Proceed(q, s), UNCHANGED memory,
             memory[visit[q].memory].owner = visit[q].user, memory[visit[q].memory].state # "absent"
      PROVE  \A p \in Visits : Owns(visit[p])'
  BY <1>1, <1>5, Proceeding DEF Owns, VisitStep
<1>6. ASSUME UNCHANGED memory,
             \A q \in Visits : visit'[q].shown \subseteq visit[q].shown,
             \A q \in Visits : visit'[q].shown = {} \/ visit'[q].user = visit[q].user,
             \A q \in Visits : visit'[q].step \in {"update", "remove"} =>
               visit'[q].step = visit[q].step /\ visit'[q].memory = visit[q].memory /\ visit'[q].user = visit[q].user
      PROVE  \A q \in Visits : Owns(visit[q])'
  BY <1>6 DEF Owns
<1>7. ASSUME UNCHANGED memory PROVE \A m \in MemoryIds : Privately(m)
  BY <1>7 DEF Privately
<1>8. ASSUME NEW q \in Visits, NEW h \in Visit, visit' = [visit EXCEPT ![q] = h], UNCHANGED memory,
             h.shown = {}, h.step \notin {"update", "remove"}
      PROVE  \A p \in Visits : Owns(visit[p])'
  <2>1. visit'[q] = h /\ \A p \in Visits \ {q} : visit'[p] = visit[p]
    BY <1>1, <1>8 DEF VisitorsTypeOK
  <2> QED BY <1>6, <1>8, <2>1
<1>9. NoVisit \in Visit /\ NoVisit.shown = {} /\ NoVisit.step = "idle"
  BY VisitorsAssumption DEF NoVisit, Visit, VisitStep, Code
<1>10. ASSUME NEW q \in Visits, CallRegister(q) \/ Login(q) \/ Authenticate(q)
       PROVE  \A p \in Visits : Owns(visit[p])'
  <2>1. UNCHANGED memory
    BY <1>10 DEF CallRegister, Login, Authenticate
  <2>2. CASE CallRegister(q)
    <3>1. PICK u \in Users : Begin(q, [NoVisit EXCEPT !.step = "user", !.user = u, !.code = "other"])
      BY <2>2 DEF CallRegister
    <3> DEFINE h == [NoVisit EXCEPT !.step = "user", !.user = u, !.code = "other"]
    <3>2. h \in Visit /\ h.shown = {} /\ h.step = "user"
      BY DEF NoVisit, Visit, VisitStep, Code
    <3> HIDE DEF h
    <3>3. visit' = [visit EXCEPT ![q] = h]
      BY <3>1 DEF Begin, h
    <3> QED BY <1>8, <2>1, <3>2, <3>3
  <2>3. CASE Login(q)
    <3>1. PICK u \in Users : Begin(q, [NoVisit EXCEPT !.step = "open", !.user = u])
      BY <2>3 DEF Login
    <3> DEFINE h == [NoVisit EXCEPT !.step = "open", !.user = u]
    <3>2. h \in Visit /\ h.shown = {} /\ h.step = "open"
      BY DEF NoVisit, Visit, VisitStep, Code
    <3> HIDE DEF h
    <3>3. visit' = [visit EXCEPT ![q] = h]
      BY <3>1 DEF Begin, h
    <3> QED BY <1>8, <2>1, <3>2, <3>3
  <2>4. CASE Authenticate(q)
    <3>1. PICK s \in SessionIds, m \in MemoryIds,
               op \in {"rotate", "create", "list", "chat", "get", "patch", "delete"} :
            /\ Valid(s)
            /\ Begin(q, [NoVisit EXCEPT !.step = op, !.user = session[s],
                           !.memory = IF op \in {"get", "patch", "delete"} THEN m ELSE NoMemory])
      BY <2>4 DEF Authenticate
    <3> DEFINE h == [NoVisit EXCEPT !.step = op, !.user = session[s],
                       !.memory = IF op \in {"get", "patch", "delete"} THEN m ELSE NoMemory]
    <3>2. session[s] \in Users
      BY <1>1, <3>1 DEF VisitorsTypeOK, Valid
    <3>3. h \in Visit /\ h.shown = {} /\ h.step = op
      BY <3>2 DEF NoVisit, Visit, VisitStep, Code
    <3> HIDE DEF h
    <3>4. visit' = [visit EXCEPT ![q] = h]
      BY <3>1 DEF Begin, h
    <3> QED BY <1>8, <2>1, <3>3, <3>4
  <2> QED BY <1>10, <2>2, <2>3, <2>4
<1>11. ASSUME NEW q \in Visits, CreateUser(q) \/ InsertCredential(q) \/ CreateSession(q) \/ TellCode(q)
       PROVE  \A p \in Visits : Owns(visit[p])'
  <2>1. UNCHANGED memory
    BY <1>11 DEF CreateUser, InsertCredential, CreateSession, TellCode
  <2>2. ASSUME End(q, {}) PROVE \A p \in Visits : Owns(visit[p])'
    BY <1>4, <2>1, <2>2
  <2>3. ASSUME NEW s \in {"code", "registered"}, Proceed(q, s) PROVE \A p \in Visits : Owns(visit[p])'
    BY <1>1, <1>6, <2>1, <2>3, Proceeding DEF VisitStep
  <2>4. ASSUME InsertCredential(q) PROVE \A p \in Visits : Owns(visit[p])'
    <3>1. /\ visit'[q].step = "open" /\ visit'[q].user = visit[q].user /\ visit'[q].shown = visit[q].shown
          /\ \A p \in Visits \ {q} : visit'[p] = visit[p]
      BY <1>1, <2>4 DEF InsertCredential, VisitorsTypeOK, Visit
    <3> QED BY <1>6, <2>1, <3>1
  <2> QED BY <1>11, <2>2, <2>3, <2>4 DEF CreateUser, CreateSession, TellCode
<1>12. ASSUME NEW q \in Visits, UpdateCredential(q) PROVE \A p \in Visits : Owns(visit[p])'
  <2>1. /\ visit'[q].step = "rotated" /\ UNCHANGED memory
        /\ \A p \in Visits : visit'[p].user = visit[p].user /\ visit'[p].shown = visit[p].shown
                             /\ visit'[p].memory = visit[p].memory
        /\ \A p \in Visits \ {q} : visit'[p].step = visit[p].step
    <3>1. CASE visit[q].user \in credential
      <4>1. visit' = [p \in Visits |->
               IF p = q THEN [visit[q] EXCEPT !.step = "rotated", !.code = "current"]
               ELSE IF visit[p].user = visit[q].user THEN [visit[p] EXCEPT !.code = Outdated(@)] ELSE visit[p]]
        BY <1>12, <3>1 DEF UpdateCredential
      <4>2. UNCHANGED memory
        BY <1>12 DEF UpdateCredential
      <4> QED BY <1>1, <4>1, <4>2 DEF VisitorsTypeOK, Visit
    <3>2. CASE visit[q].user \notin credential
      <4> DEFINE h == [visit[q] EXCEPT !.step = "rotated", !.code = "other"]
      <4>1. h.step = "rotated" /\ h.user = visit[q].user /\ h.shown = visit[q].shown /\ h.memory = visit[q].memory
        BY <1>1 DEF VisitorsTypeOK, Visit
      <4>2. visit' = [visit EXCEPT ![q] = h] /\ UNCHANGED memory
        BY <1>12, <3>2 DEF UpdateCredential
      <4> HIDE DEF h
      <4> QED BY <1>1, <4>1, <4>2 DEF VisitorsTypeOK
    <3> QED BY <3>1, <3>2
  <2> QED BY <1>6, <2>1
<1>13. ASSUME NEW q \in Visits, CreateMemory(q)
       PROVE  (\A p \in Visits : Owns(visit[p])') /\ \A m \in MemoryIds : Privately(m)
  <2>1. PICK m \in MemoryIds :
          /\ memory[m].state = "absent"
          /\ memory' = [memory EXCEPT ![m] = [owner |-> visit[q].user, state |-> "live"]]
    BY <1>13 DEF CreateMemory
  <2>2. End(q, {}) /\ visit[q].step = "create"
    BY <1>13 DEF CreateMemory
  <2>3. memory'[m].owner = visit[q].user /\ \A n \in MemoryIds \ {m} : memory'[n] = memory[n]
    BY <1>1, <2>1 DEF VisitorsTypeOK
  <2>4. Keeps
    BY <2>1, <2>3
  <2>5. visit'[q].step # visit[q].step
    BY <1>1, <2>2, Ending
  <2>6. \A n \in MemoryIds : Privately(n)
    BY <2>3, <2>5 DEF Privately
  <2> HIDE DEF Keeps
  <2> QED BY <1>4, <2>2, <2>4, <2>6
<1>14. ASSUME NEW q \in Visits, ListMemories(q) PROVE \A p \in Visits : Owns(visit[p])'
  <2>1. \A m \in Listed(visit[q].user) :
          m \in MemoryIds /\ memory[m].owner = visit[q].user /\ memory[m].state # "absent"
    BY DEF Listed, Owned, Live
  <2>2. End(q, Listed(visit[q].user)) /\ UNCHANGED memory
    BY <1>14 DEF ListMemories
  <2> QED BY <1>4, <2>1, <2>2
<1>15. ASSUME NEW q \in Visits, ReadMemory(q) PROVE \A p \in Visits : Owns(visit[p])'
  <2>1. visit[q].memory \in MemoryIds /\ UNCHANGED memory
    BY <1>15 DEF ReadMemory, AccountsInv, Stands, MemorySteps
  <2>2. ASSUME End(q, {}) PROVE \A p \in Visits : Owns(visit[p])'
    BY <1>4, <2>1, <2>2
  <2>3. ASSUME memory[visit[q].memory].owner = visit[q].user, memory[visit[q].memory].state # "absent",
               End(q, {visit[q].memory})
        PROVE  \A p \in Visits : Owns(visit[p])'
    BY <1>4, <2>1, <2>3
  <2> QED BY <1>5, <1>15, <2>1, <2>2, <2>3 DEF ReadMemory, Owned, Live
<1>16. ASSUME NEW q \in Visits, NEW s \in {"live", "expired", "deleted"}, Becomes(visit[q].memory, s),
              visit[q].step \in {"update", "remove"}, NEW shown \in {{}, {visit[q].memory}}, End(q, shown)
       PROVE  (\A p \in Visits : Owns(visit[p])') /\ \A m \in MemoryIds : Privately(m)
  <2>1. visit[q].memory \in MemoryIds /\ memory[visit[q].memory].owner = visit[q].user
        /\ memory[visit[q].memory].state # "absent"
    BY <1>3, <1>16 DEF Owns
  <2>2. /\ memory'[visit[q].memory].owner = visit[q].user /\ memory'[visit[q].memory].state = s
        /\ \A n \in MemoryIds \ {visit[q].memory} : memory'[n] = memory[n]
    BY <1>1, <1>16, <2>1 DEF VisitorsTypeOK, Memory, Becomes
  <2>3. Keeps
    BY <1>16, <2>1, <2>2
  <2>4. visit'[q].step # visit[q].step
    BY <1>1, <1>16, <2>1, Ending
  <2>5. \A n \in MemoryIds : Privately(n)
    BY <2>2, <2>4 DEF Privately
  <2> HIDE DEF Keeps
  <2> QED BY <1>4, <1>16, <2>1, <2>2, <2>3, <2>5
<1>17. ASSUME NEW q \in Visits, UpdateMemory(q)
       PROVE  (\A p \in Visits : Owns(visit[p])') /\ \A m \in MemoryIds : Privately(m)
  <2>1. CASE Owned(visit[q].memory, visit[q].user) /\ memory[visit[q].memory].state # "deleted"
    <3>1. PICK s \in {"live", memory[visit[q].memory].state} : Becomes(visit[q].memory, s)
      BY <1>17, <2>1 DEF UpdateMemory
    <3>2. s \in {"live", "expired", "deleted"}
      <4>1. visit[q].memory \in MemoryIds /\ memory[visit[q].memory].state # "absent"
        BY <1>3, <1>17 DEF UpdateMemory, Owns
      <4> QED BY <1>1, <3>1, <4>1 DEF VisitorsTypeOK, Memory
    <3> QED BY <1>16, <1>17, <2>1, <3>1, <3>2 DEF UpdateMemory
  <2>2. CASE ~(Owned(visit[q].memory, visit[q].user) /\ memory[visit[q].memory].state # "deleted")
    BY <1>4, <1>7, <1>17, <2>2 DEF UpdateMemory
  <2> QED BY <2>1, <2>2
<1>18. ASSUME NEW q \in Visits, RemoveMemory(q)
       PROVE  (\A p \in Visits : Owns(visit[p])') /\ \A m \in MemoryIds : Privately(m)
  BY <1>16, <1>18 DEF RemoveMemory
<1>19. ASSUME NEW q \in Visits, Fails(q) PROVE \A p \in Visits : Owns(visit[p])'
  BY <1>8, <1>9, <1>19 DEF Fails
<1>20. CASE Crash
  BY <1>6, <1>7, <1>9, <1>20 DEF Crash
<1>21. ASSUME NEW s \in SessionIds, SessionExpires(s) PROVE \A p \in Visits : Owns(visit[p])'
  BY <1>6, <1>21 DEF SessionExpires
<1>22. ASSUME NEW m \in MemoryIds, MemoryExpires(m)
       PROVE  (\A p \in Visits : Owns(visit[p])') /\ \A n \in MemoryIds : Privately(n)
  <2>1. /\ memory'[m].owner = memory[m].owner /\ memory'[m].state = "expired"
        /\ \A n \in MemoryIds \ {m} : memory'[n] = memory[n]
        /\ UNCHANGED visit
    BY <1>1, <1>22 DEF MemoryExpires, Becomes, VisitorsTypeOK, Memory
  <2>2. \A q \in Visits : Owns(visit[q])'
    BY <1>2, <1>3, <2>1 DEF Owns
  <2> QED BY <1>22, <2>1, <2>2 DEF Privately
<1>23. CASE UNCHANGED visitorVars
  BY <1>6, <1>7, <1>23 DEF visitorVars
<1>24. ASSUME NEW q \in Visits,
              \/ CallRegister(q) \/ Login(q) \/ Authenticate(q) \/ CreateUser(q) \/ InsertCredential(q)
              \/ CreateSession(q) \/ TellCode(q) \/ UpdateCredential(q) \/ ListMemories(q) \/ ReadMemory(q) \/ Fails(q)
       PROVE  \A m \in MemoryIds : Privately(m)
  BY <1>7, <1>24 DEF CallRegister, Login, Authenticate, CreateUser, InsertCredential, CreateSession,
     TellCode, UpdateCredential, ListMemories, ReadMemory, Fails
<1>25. ASSUME NEW s \in SessionIds, SessionExpires(s) PROVE \A m \in MemoryIds : Privately(m)
  BY <1>7, <1>25 DEF SessionExpires
<1> QED BY <1>10, <1>11, <1>12, <1>13, <1>14, <1>15, <1>17, <1>18, <1>19, <1>20, <1>21, <1>22, <1>23, <1>24, <1>25
        DEF VisitorsNext

\* MemoriesArePrivate, of modules/memory, routes/memory.ts and the context of a chat.
THEOREM MemoriesPrivate == VisitorsSpec => MemoriesArePrivate
<1>1. VisitorsInit => \A q \in Visits : Owns(visit[q])
  BY DEF VisitorsInit, NoVisit, Owns
<1>2. AccountsInv /\ AccountsInv' /\ (\A q \in Visits : Owns(visit[q])) /\ [VisitorsNext]_visitorVars
      => (\A q \in Visits : Owns(visit[q]))'
  BY MemoriesStep DEF MemoriesInv
<1>3. AccountsInv /\ (\A q \in Visits : Owns(visit[q])) /\ (\A q \in Visits : Owns(visit[q]))' /\ [VisitorsNext]_visitorVars
      => [\A m \in MemoryIds :
            /\ \A q \in Visits : m \in visit'[q].shown => memory'[m].owner = visit'[q].user
            /\ memory'[m] # memory[m] /\ ~MemoryExpires(m) =>
                 \E q \in Visits : visit[q] # visit'[q] /\ memory'[m].owner = visit[q].user]_visitorVars
  <2> SUFFICES ASSUME AccountsInv, \A q \in Visits : Owns(visit[q]), (\A q \in Visits : Owns(visit[q]))',
                      [VisitorsNext]_visitorVars, NEW m \in MemoryIds
               PROVE  /\ \A q \in Visits : m \in visit'[q].shown => memory'[m].owner = visit'[q].user
                      /\ Privately(m)
    BY DEF Privately
  <2>1. Privately(m)
    BY MemoriesStep DEF MemoriesInv
  <2> QED BY <2>1 DEF Owns
<1> QED BY <1>1, <1>2, <1>3, AccountsInvariant, PTL DEF VisitorsSpec, MemoriesArePrivate

\* A registration is not answered yet: its user has been told no code.
Registering(v) == v.step \in {"user", "code", "registered"} \/ (v.step = "open" /\ v.code # "none")

CodeFits(v) ==
  /\ v.step = "user" => v.user \notin users
  /\ v.step \in {"user", "code"} => v.code = "other"
  /\ v.step \in {"open", "registered"} /\ v.code # "none" => v.code = "current"
  /\ v.step = "registered" => v.code = "current"
  /\ v.step = "rotated" => v.code # "none"
  /\ Registering(v) => told[v.user] = "none"
  /\ v.step # "idle" /\ ~Registering(v) => told[v.user] # "none"

Rotating(q, u) == visit[q].step = "rotated" /\ visit[q].user = u

\* Of a user's codes that are stored or on the way, the last one drawn is known.
LastCode(u) ==
  /\ \A q \in Visits : Rotating(q, u) =>
       visit[q].code = "current" /\ \A p \in Visits : Rotating(p, u) => p = q
  /\ (\A q \in Visits : ~Rotating(q, u)) => told[u] = "current"

CodesInv ==
  /\ \A q \in Visits : CodeFits(visit[q])
  /\ \A p, q \in Visits : Registering(visit[p]) /\ Registering(visit[q]) /\ visit[p].user = visit[q].user => p = q
  /\ \A u \in Users \ clouded : told[u] # "none" => LastCode(u)

\* A user is registered once, and rotates a code only after being told one.
LEMMA CodesStep == AccountsInv /\ CodesInv /\ [VisitorsNext]_visitorVars => CodesInv'
<1> SUFFICES ASSUME AccountsInv, CodesInv, [VisitorsNext]_visitorVars PROVE CodesInv'
  OBVIOUS
<1> USE VisitorsAssumption
<1>1. VisitorsTypeOK /\ \A q \in Visits : Stands(visit[q])
  BY DEF AccountsInv
\* One handler that neither comes from nor goes to an unanswered rotation.
<1>2. ASSUME NEW q \in Visits, visit' \in [Visits -> Visit], \A p \in Visits \ {q} : visit'[p] = visit[p],
             users' = users, UNCHANGED <<told, clouded>>,
             visit[q].step # "rotated", visit'[q].step # "rotated", CodeFits(visit'[q]),
             Registering(visit'[q]) =>
               \A p \in Visits \ {q} : Registering(visit[p]) => visit[p].user # visit'[q].user
      PROVE  CodesInv'
  <2>1. \A v : CodeFits(v)' <=> CodeFits(v)
    BY <1>2 DEF CodeFits
  <2>2. \A p \in Visits : CodeFits(visit[p])'
    <3> SUFFICES ASSUME NEW p \in Visits PROVE CodeFits(visit'[p])
      BY <1>2 DEF CodeFits
    <3> QED BY <1>2 DEF CodesInv
  <2>3. \A p, r \in Visits : Registering(visit'[p]) /\ Registering(visit'[r]) /\ visit'[p].user = visit'[r].user => p = r
    BY <1>2 DEF CodesInv
  <2>4. \A u : \A p \in Visits : Rotating(p, u)' <=> Rotating(p, u)
    BY <1>2 DEF Rotating
  <2>5. \A u : LastCode(u) => LastCode(u)'
    <3> SUFFICES ASSUME NEW u, LastCode(u) PROVE LastCode(u)'
      OBVIOUS
    <3>1. \A p \in Visits : Rotating(p, u) => visit'[p] = visit[p]
      BY <1>2 DEF Rotating
    <3> QED BY <1>2, <2>4, <3>1 DEF LastCode
  <2>6. \A u \in Users \ clouded' : told'[u] # "none" => LastCode(u)'
    BY <1>2, <2>5 DEF CodesInv
  <2> QED BY <2>2, <2>3, <2>6 DEF CodesInv, Registering
<1>3. ASSUME NEW q \in Visits, visit[q].step \notin {"rotated"}, NEW shown \in SUBSET MemoryIds, End(q, shown),
             users' = users, UNCHANGED <<told, clouded>>
      PROVE  CodesInv'
  <2>1. CodeFits(visit'[q]) /\ ~Registering(visit'[q])
    BY <1>1, <1>3, Ending DEF CodeFits, Registering
  <2> QED BY <1>1, <1>2, <1>3, <2>1, Ending
<1>4. ASSUME NEW q \in Visits, NEW s \in VisitStep \ {"rotated"}, visit[q].step # "rotated", Proceed(q, s),
             users' = users, UNCHANGED <<told, clouded>>,
             CodeFits([visit[q] EXCEPT !.step = s]),
             Registering([visit[q] EXCEPT !.step = s]) => Registering(visit[q])
      PROVE  CodesInv'
  <2> DEFINE h == [visit[q] EXCEPT !.step = s]
  <2>1. h \in Visit /\ h.step = s /\ h.user = visit[q].user /\ visit' = [visit EXCEPT ![q] = h]
    BY <1>1, <1>4 DEF VisitorsTypeOK, Visit, Proceed
  <2>2. CodeFits(h) /\ (Registering(h) => Registering(visit[q]))
    BY <1>4
  <2> HIDE DEF h
  <2>3. visit'[q] = h /\ visit' \in [Visits -> Visit] /\ \A p \in Visits \ {q} : visit'[p] = visit[p]
    BY <1>1, <2>1 DEF VisitorsTypeOK
  <2>4. Registering(visit'[q]) =>
          \A p \in Visits \ {q} : Registering(visit[p]) => visit[p].user # visit'[q].user
    BY <2>1, <2>2, <2>3 DEF CodesInv
  <2> QED BY <1>2, <1>4, <2>1, <2>2, <2>3, <2>4
<1>5. ASSUME NEW q \in Visits, CallRegister(q) PROVE CodesInv'
  <2>1. PICK u \in Users \ users :
          /\ \A p \in Visits : visit[p].step = "user" => visit[p].user # u
          /\ Begin(q, [NoVisit EXCEPT !.step = "user", !.user = u, !.code = "other"])
    BY <1>5 DEF CallRegister
  <2> DEFINE h == [NoVisit EXCEPT !.step = "user", !.user = u, !.code = "other"]
  <2>2. h \in Visit /\ h.step = "user" /\ h.user = u /\ h.code = "other"
    BY DEF NoVisit, Visit, VisitStep, Code
  <2> HIDE DEF h
  <2>3. visit[q].step = "idle" /\ visit' = [visit EXCEPT ![q] = h]
    BY <2>1 DEF Begin, h
  <2>4. UNCHANGED <<users, told, clouded>>
    BY <1>5 DEF CallRegister
  <2>5. told[u] = "none"
    BY DEF AccountsInv
  <2>6. CodeFits(h)
    BY <2>2, <2>5 DEF CodeFits, Registering
  <2>7. \A p \in Visits \ {q} : Registering(visit[p]) => visit[p].user # u
    BY <1>1, <2>1 DEF Registering, Stands
  <2>8. visit'[q] = h /\ visit' \in [Visits -> Visit] /\ \A p \in Visits \ {q} : visit'[p] = visit[p]
    BY <1>1, <2>2, <2>3 DEF VisitorsTypeOK
  <2> QED BY <1>2, <2>2, <2>3, <2>4, <2>6, <2>7, <2>8
<1>6. ASSUME NEW q \in Visits, NEW h \in Visit, h.step \notin {"idle", "user", "code", "registered", "rotated"},
             h.code = "none", h.user \in Users, told[h.user] # "none", Begin(q, h),
             UNCHANGED <<users, told, clouded>>
      PROVE  CodesInv'
  <2>1. visit[q].step = "idle" /\ visit'[q] = h /\ visit' \in [Visits -> Visit]
        /\ \A p \in Visits \ {q} : visit'[p] = visit[p]
    BY <1>1, <1>6 DEF Begin, VisitorsTypeOK
  <2>2. CodeFits(h) /\ ~Registering(h)
    BY <1>6 DEF CodeFits, Registering
  <2> QED BY <1>2, <1>6, <2>1, <2>2
<1>7. ASSUME NEW q \in Visits, Login(q) PROVE CodesInv'
  <2>1. PICK u \in Users : told[u] # "none" /\ Begin(q, [NoVisit EXCEPT !.step = "open", !.user = u])
    BY <1>7 DEF Login
  <2> DEFINE h == [NoVisit EXCEPT !.step = "open", !.user = u]
  <2>2. h \in Visit /\ h.step = "open" /\ h.user = u /\ h.code = "none"
    BY DEF NoVisit, Visit, VisitStep, Code
  <2>3. Begin(q, h)
    BY <2>1
  <2> HIDE DEF h
  <2> QED BY <1>6, <1>7, <2>1, <2>2, <2>3 DEF Login
<1>8. ASSUME NEW q \in Visits, Authenticate(q) PROVE CodesInv'
  <2>1. PICK s \in SessionIds, m \in MemoryIds,
             op \in {"rotate", "create", "list", "chat", "get", "patch", "delete"} :
          /\ Valid(s) /\ told[session[s]] # "none"
          /\ Begin(q, [NoVisit EXCEPT !.step = op, !.user = session[s],
                         !.memory = IF op \in {"get", "patch", "delete"} THEN m ELSE NoMemory])
    BY <1>8 DEF Authenticate
  <2> DEFINE h == [NoVisit EXCEPT !.step = op, !.user = session[s],
                     !.memory = IF op \in {"get", "patch", "delete"} THEN m ELSE NoMemory]
  <2>2. session[s] \in Users
    BY <1>1, <2>1 DEF VisitorsTypeOK, Valid
  <2>3. h \in Visit /\ h.step = op /\ h.user = session[s] /\ h.code = "none"
    BY <2>2 DEF NoVisit, Visit, VisitStep, Code
  <2>4. Begin(q, h)
    BY <2>1
  <2> HIDE DEF h
  <2> QED BY <1>6, <1>8, <2>1, <2>2, <2>3, <2>4 DEF Authenticate
<1>9. ASSUME NEW q \in Visits, CreateUser(q) PROVE CodesInv'
  <2>1. visit[q].step = "user" /\ Proceed(q, "code") /\ users' = users \cup {visit[q].user}
        /\ UNCHANGED <<told, clouded>>
    BY <1>9 DEF CreateUser
  <2>2. /\ visit'[q].step = "code" /\ visit'[q].user = visit[q].user /\ visit'[q].code = visit[q].code
        /\ \A p \in Visits \ {q} : visit'[p] = visit[p]
    BY <1>1, <2>1, Proceeding DEF VisitStep
  <2>3. \A p \in Visits : (Registering(visit[p]))' <=> Registering(visit[p])
    BY <2>1, <2>2 DEF Registering
  <2>4. \A p \in Visits : visit'[p].user = visit[p].user /\ visit'[p].code = visit[p].code
    BY <2>2
  <2>5. CodeFits(visit[q])'
    BY <2>1, <2>2 DEF CodesInv, CodeFits, Registering
  <2>6. ASSUME NEW p \in Visits \ {q} PROVE CodeFits(visit[p])'
    <3>1. CodeFits(visit[p])
      BY DEF CodesInv
    <3>2. visit[p].step = "user" => visit[p].user # visit[q].user
      BY <2>1 DEF CodesInv, Registering
    <3> QED BY <2>1, <2>2, <3>1, <3>2 DEF CodeFits, Registering
  <2>7. \A u : \A p \in Visits : Rotating(p, u)' <=> Rotating(p, u)
    BY <2>1, <2>2 DEF Rotating
  <2>8. \A u : LastCode(u) => LastCode(u)'
    BY <2>1, <2>4, <2>7 DEF LastCode
  <2> QED BY <2>1, <2>3, <2>4, <2>5, <2>6, <2>8 DEF CodesInv
<1>10. ASSUME NEW q \in Visits, InsertCredential(q) PROVE CodesInv'
  <2> DEFINE h == [visit[q] EXCEPT !.step = "open", !.code = "current"]
  <2>1. h \in Visit /\ h.step = "open" /\ h.code = "current" /\ h.user = visit[q].user
    BY <1>1 DEF VisitorsTypeOK, Visit, VisitStep, Code
  <2>2. visit[q].step = "code" /\ visit' = [visit EXCEPT ![q] = h] /\ UNCHANGED <<users, told, clouded>>
    BY <1>10 DEF InsertCredential
  <2> HIDE DEF h
  <2>3. visit'[q] = h /\ visit' \in [Visits -> Visit] /\ \A p \in Visits \ {q} : visit'[p] = visit[p]
    BY <1>1, <2>1, <2>2 DEF VisitorsTypeOK
  <2>4. Registering(visit[q]) /\ CodeFits(visit[q])
    BY <2>2 DEF Registering, CodesInv
  <2>5. CodeFits(h)
    BY <2>1, <2>4 DEF CodeFits, Registering
  <2>6. \A p \in Visits \ {q} : Registering(visit[p]) => visit[p].user # h.user
    BY <2>1, <2>4 DEF CodesInv
  <2> QED BY <1>2, <2>1, <2>2, <2>3, <2>5, <2>6
<1>11. ASSUME NEW q \in Visits, CreateSession(q) PROVE CodesInv'
  <2>1. visit[q].step = "open" /\ CodeFits(visit[q]) /\ UNCHANGED <<users, told, clouded>>
    BY <1>11 DEF CreateSession, CodesInv
  <2>2. CASE visit[q].code = "none"
    BY <1>3, <1>11, <2>1, <2>2 DEF CreateSession
  <2>3. CASE visit[q].code # "none"
    <3> DEFINE h == [visit[q] EXCEPT !.step = "registered"]
    <3>1. h.step = "registered" /\ h.user = visit[q].user /\ h.code = visit[q].code
      BY <1>1 DEF VisitorsTypeOK, Visit
    <3>2. Registering(visit[q]) /\ CodeFits(h)
      BY <2>1, <2>3, <3>1 DEF CodeFits, Registering
    <3>3. Proceed(q, "registered")
      BY <1>11, <2>3 DEF CreateSession
    <3> HIDE DEF h
    <3>4. CodeFits([visit[q] EXCEPT !.step = "registered"])
      BY <3>2 DEF h
    <3> QED BY <1>4, <2>1, <3>2, <3>3, <3>4 DEF VisitStep
  <2> QED BY <2>2, <2>3
<1>12. ASSUME NEW q \in Visits, TellCode(q) PROVE CodesInv'
  <2> DEFINE u == visit[q].user
  <2>1. /\ visit[q].step \in {"registered", "rotated"} /\ u \in Users /\ visit[q].code # "none"
        /\ visit[q].step = "registered" => visit[q].code = "current" /\ Registering(visit[q])
        /\ UNCHANGED <<users, clouded>> /\ told' = [told EXCEPT ![u] = visit[q].code] /\ End(q, {})
    BY <1>1, <1>12 DEF TellCode, CodesInv, CodeFits, Stands, Registering
  <2>2. /\ visit'[q].step = "idle" /\ visit'[q].code = "none"
        /\ \A p \in Visits \ {q} : visit'[p] = visit[p]
    BY <1>1, <2>1, Ending
  <2>3. told'[u] = visit[q].code /\ \A v \in Users \ {u} : told'[v] = told[v]
    BY <1>1, <2>1 DEF VisitorsTypeOK
  <2> HIDE DEF u
  <2>4. ~Registering(visit'[q])
    BY <2>2 DEF Registering
  <2>5. \A p, r \in Visits : Registering(visit'[p]) /\ Registering(visit'[r]) /\ visit'[p].user = visit'[r].user => p = r
    BY <2>2, <2>4 DEF CodesInv
  <2>6. \A p \in Visits \ {q} : Registering(visit[p]) => visit[p].user # u
    <3>1. CASE visit[q].step = "registered"
      BY <2>1, <3>1 DEF CodesInv, u
    <3>2. CASE visit[q].step = "rotated"
      <4>1. told[u] # "none"
        BY <3>2 DEF CodesInv, CodeFits, Registering, u
      <4> QED BY <4>1 DEF CodesInv, CodeFits
    <3> QED BY <2>1, <3>1, <3>2
  <2>7. ASSUME NEW p \in Visits \ {q} PROVE CodeFits(visit[p])'
    <3>1. CodeFits(visit[p]) /\ visit'[p] = visit[p]
      BY <2>2 DEF CodesInv
    <3>2. visit[p].step # "idle" => visit[p].user \in Users
      BY <1>1 DEF Stands
    <3>3. CASE visit[p].user = u
      <4>1. ~Registering(visit[p])
        BY <2>6, <3>3
      <4>2. told'[visit[p].user] # "none"
        BY <2>1, <2>3, <3>3
      <4> QED BY <2>1, <3>1, <4>1, <4>2 DEF CodeFits, Registering
    <3>4. CASE visit[p].user # u
      <4>1. visit[p].step # "idle" => told'[visit[p].user] = told[visit[p].user]
        BY <2>3, <3>2, <3>4
      <4> QED BY <2>1, <3>1, <4>1 DEF CodeFits, Registering
    <3> QED BY <3>3, <3>4
  <2>8. CodeFits(visit[q])'
    BY <2>2 DEF CodeFits, Registering
  <2>9. ASSUME NEW v \in Users \ clouded', told'[v] # "none" PROVE LastCode(v)'
    <3>1. CASE v # u
      <4>1. \A p \in Visits : Rotating(p, v)' <=> Rotating(p, v)
        BY <2>2, <3>1 DEF Rotating, u
      <4>2. \A p \in Visits : Rotating(p, v) => visit'[p] = visit[p]
        BY <2>2, <3>1 DEF Rotating, u
      <4>3. LastCode(v) /\ told'[v] = told[v]
        BY <2>1, <2>3, <2>9, <3>1 DEF CodesInv
      <4> QED BY <4>1, <4>2, <4>3 DEF LastCode
    <3>2. CASE v = u /\ visit[q].step = "registered"
      <4>1. told[u] = "none"
        BY <2>1, <3>2 DEF CodesInv, CodeFits, u
      <4>2. \A p \in Visits : ~Rotating(p, u)
        BY <4>1 DEF CodesInv, CodeFits, Registering, Rotating
      <4>3. \A p \in Visits : ~Rotating(p, v)'
        BY <2>2, <3>2, <4>2 DEF Rotating
      <4> QED BY <2>1, <2>3, <3>2, <4>3 DEF LastCode
    <3>3. CASE v = u /\ visit[q].step = "rotated"
      <4>1. told[u] # "none" /\ Rotating(q, u)
        BY <3>3 DEF CodesInv, CodeFits, Registering, Rotating, u
      <4>2. visit[q].code = "current" /\ \A p \in Visits \ {q} : ~Rotating(p, u)
        BY <2>1, <2>9, <3>3, <4>1 DEF CodesInv, LastCode
      <4>3. \A p \in Visits : ~Rotating(p, v)'
        BY <2>2, <3>3, <4>2 DEF Rotating
      <4> QED BY <2>3, <3>3, <4>2, <4>3 DEF LastCode
    <3> QED BY <2>1, <3>1, <3>2, <3>3
  <2> QED BY <2>5, <2>7, <2>8, <2>9 DEF CodesInv, Registering
<1>13. ASSUME NEW q \in Visits, UpdateCredential(q) PROVE CodesInv'
  <2> DEFINE u == visit[q].user
  <2>1. visit[q].step = "rotate" /\ u \in Users /\ u \in credential /\ told[u] # "none"
    BY <1>1, <1>13 DEF UpdateCredential, Stands, CodesInv, CodeFits, Registering
  <2>2. /\ visit' = [p \in Visits |->
             IF p = q THEN [visit[q] EXCEPT !.step = "rotated", !.code = "current"]
             ELSE IF visit[p].user = u THEN [visit[p] EXCEPT !.code = Outdated(@)] ELSE visit[p]]
        /\ told' = [told EXCEPT ![u] = Outdated(@)]
        /\ clouded' = IF Unanswered(u) THEN clouded \cup {u} ELSE clouded \ {u}
        /\ UNCHANGED users
    BY <1>13, <2>1 DEF UpdateCredential
  <2>3. /\ visit'[q].step = "rotated" /\ visit'[q].code = "current" /\ visit'[q].user = u
        /\ \A p \in Visits \ {q} :
             /\ visit'[p].step = visit[p].step /\ visit'[p].user = visit[p].user
             /\ visit'[p].code = "none" <=> visit[p].code = "none"
             /\ visit[p].user # u => visit'[p] = visit[p]
    BY <1>1, <2>2 DEF VisitorsTypeOK, Visit, Outdated
  <2>4. told'[u] # "none" /\ \A v \in Users \ {u} : told'[v] = told[v]
    BY <1>1, <2>1, <2>2 DEF VisitorsTypeOK, Outdated
  <2>5. \A p \in Visits : Registering(visit[p]) => visit[p].user # u
    BY <2>1 DEF CodesInv, CodeFits
  <2>6. \A p \in Visits : visit[p].user = u /\ visit[p].step # "idle" => told[u] # "none" /\ ~Registering(visit[p])
    BY <2>1, <2>5
  <2> HIDE DEF u
  <2>7. ~Registering(visit[q]) /\ ~Registering(visit'[q])
    BY <2>1, <2>3 DEF Registering
  <2>8. \A p \in Visits \ {q} : Registering(visit'[p]) <=> Registering(visit[p])
    BY <2>3 DEF Registering
  <2>9. \A p, r \in Visits : Registering(visit'[p]) /\ Registering(visit'[r]) /\ visit'[p].user = visit'[r].user => p = r
    BY <2>3, <2>7, <2>8 DEF CodesInv
  <2>10. ASSUME NEW p \in Visits \ {q} PROVE CodeFits(visit[p])'
    <3>1. CodeFits(visit[p])
      BY DEF CodesInv
    <3>2. visit[p].step # "idle" => visit[p].user \in Users
      BY <1>1 DEF Stands
    <3>3. CASE visit[p].user = u
      <4>1. ~Registering(visit[p]) /\ ~Registering(visit'[p])
        BY <2>5, <2>8, <3>3
      <4>2. told'[visit'[p].user] # "none"
        BY <2>3, <2>4, <3>3
      <4> QED BY <2>2, <2>3, <3>1, <4>1, <4>2 DEF CodeFits, Registering
    <3>4. CASE visit[p].user # u
      <4>1. visit'[p] = visit[p]
        BY <2>3, <3>4
      <4>2. visit[p].step # "idle" => told'[visit[p].user] = told[visit[p].user]
        BY <2>4, <3>2, <3>4
      <4>3. users' = users
        BY <2>2
      <4> QED BY <3>1, <4>1, <4>2, <4>3 DEF CodeFits, Registering
    <3> QED BY <3>3, <3>4
  <2>11. CodeFits(visit[q])'
    BY <2>3, <2>4, <2>7 DEF CodeFits
  <2>12. ASSUME NEW v \in Users \ clouded', told'[v] # "none" PROVE LastCode(v)'
    <3>1. CASE v # u
      <4>1. \A p \in Visits : Rotating(p, v)' <=> Rotating(p, v)
        BY <2>1, <2>3, <3>1 DEF Rotating, u
      <4>2. \A p \in Visits : Rotating(p, v) => visit'[p] = visit[p]
        BY <2>1, <2>3, <3>1 DEF Rotating, u
      <4>3. v \notin clouded /\ told'[v] = told[v]
        BY <2>2, <2>4, <3>1
      <4>4. LastCode(v)
        BY <2>12, <4>3 DEF CodesInv
      <4> QED BY <4>1, <4>2, <4>3, <4>4 DEF LastCode
    <3>2. CASE v = u
      <4>1. ~Unanswered(u)
        BY <2>2, <2>12, <3>2
      <4>2. \A p \in Visits \ {q} : ~Rotating(p, v)'
        BY <2>3, <3>2, <4>1 DEF Unanswered, Rotating
      <4>3. Rotating(q, v)' /\ visit'[q].code = "current"
        BY <2>3, <3>2 DEF Rotating
      <4> QED BY <4>2, <4>3 DEF LastCode
    <3> QED BY <3>1, <3>2
  <2> QED BY <2>9, <2>10, <2>11, <2>12 DEF CodesInv, Registering
<1>14. ASSUME NEW q \in Visits,
              CreateMemory(q) \/ ListMemories(q) \/ UpdateMemory(q) \/ RemoveMemory(q)
       PROVE  CodesInv'
  <2>1. visit[q].step # "rotated" /\ UNCHANGED <<users, told, clouded>>
    BY <1>14 DEF CreateMemory, ListMemories, UpdateMemory, RemoveMemory
  <2>2. End(q, {}) \/ End(q, Listed(visit[q].user)) \/ (visit[q].step = "update" /\ End(q, {visit[q].memory}))
    BY <1>14 DEF CreateMemory, ListMemories, UpdateMemory, RemoveMemory
  <2>3. Listed(visit[q].user) \subseteq MemoryIds
    BY DEF Listed
  <2>4. visit[q].step = "update" => visit[q].memory \in MemoryIds
    BY <1>1 DEF Stands, MemorySteps
  <2> QED BY <1>3, <2>1, <2>2, <2>3, <2>4
<1>15. ASSUME NEW q \in Visits, ReadMemory(q) PROVE CodesInv'
  <2>1. visit[q].step \in {"get", "patch", "delete"} /\ visit[q].memory \in MemoryIds
        /\ UNCHANGED <<users, told, clouded>>
    BY <1>1, <1>15 DEF ReadMemory, Stands, MemorySteps
  <2>2. ASSUME NEW s \in {"update", "remove"}, Proceed(q, s) PROVE CodesInv'
    <3> DEFINE h == [visit[q] EXCEPT !.step = s]
    <3>1. h.step = s /\ h.user = visit[q].user
      BY <1>1 DEF VisitorsTypeOK, Visit
    <3>2. CodeFits(visit[q])
      BY DEF CodesInv
    <3>3. CodeFits(h) /\ ~Registering(h)
      BY <2>1, <3>1, <3>2 DEF CodeFits, Registering
    <3>4. CodeFits([visit[q] EXCEPT !.step = s]) /\ ~Registering([visit[q] EXCEPT !.step = s])
      BY <3>3
    <3> HIDE DEF h
    <3> QED BY <1>4, <2>1, <2>2, <3>4 DEF VisitStep
  <2>3. ASSUME NEW shown \in {{}, {visit[q].memory}}, End(q, shown) PROVE CodesInv'
    BY <1>3, <2>1, <2>3
  <2>4. \/ End(q, {}) \/ End(q, {visit[q].memory}) \/ Proceed(q, "update") \/ Proceed(q, "remove")
    BY <1>15, <2>1 DEF ReadMemory
  <2> QED BY <2>2, <2>3, <2>4
<1>16. NoVisit \in Visit /\ NoVisit.step = "idle" /\ CodeFits(NoVisit) /\ ~Registering(NoVisit)
  BY DEF NoVisit, Visit, VisitStep, Code, CodeFits, Registering
\* Handlers end without an answer; whoever waited for a new code has a clouded one.
<1>17. ASSUME NEW Q \in SUBSET Visits,
              visit' = [q \in Visits |-> IF q \in Q THEN NoVisit ELSE visit[q]],
              UNCHANGED <<users, told>>,
              clouded' = clouded \cup {visit[q].user : q \in {p \in Q : visit[p].step = "rotated"}}
       PROVE  CodesInv'
  <2>1. \A p \in Visits : visit'[p] = visit[p] \/ visit'[p] = NoVisit
    BY <1>17
  <2>2. \A p \in Visits : CodeFits(visit[p])'
    BY <1>16, <1>17, <2>1 DEF CodesInv, CodeFits, Registering
  <2>3. \A p, r \in Visits : Registering(visit'[p]) /\ Registering(visit'[r]) /\ visit'[p].user = visit'[r].user => p = r
    BY <1>16, <2>1 DEF CodesInv
  <2>4. ASSUME NEW u \in Users \ clouded', told'[u] # "none" PROVE LastCode(u)'
    <3>1. LastCode(u)
      BY <1>17, <2>4 DEF CodesInv
    <3>2. \A p \in Visits : Rotating(p, u) => visit'[p] = visit[p]
      BY <1>17, <2>4 DEF Rotating
    <3>3. \A p \in Visits : Rotating(p, u)' <=> Rotating(p, u)
      BY <1>16, <2>1, <3>2 DEF Rotating
    <3> QED BY <1>17, <3>1, <3>2, <3>3 DEF LastCode
  <2> QED BY <2>2, <2>3, <2>4 DEF CodesInv, Registering
<1>18. ASSUME NEW q \in Visits, Fails(q) PROVE CodesInv'
  <2>1. visit' = [p \in Visits |-> IF p \in {q} THEN NoVisit ELSE visit[p]]
    BY <1>1, <1>18 DEF Fails, VisitorsTypeOK
  <2>2. clouded' = clouded \cup {visit[r].user : r \in {p \in {q} : visit[p].step = "rotated"}}
    BY <1>18 DEF Fails
  <2> QED BY <1>17, <1>18, <2>1, <2>2 DEF Fails
<1>19. CASE Crash
  BY <1>17, <1>19 DEF Crash
<1>20. ASSUME UNCHANGED <<users, visit, told, clouded>> PROVE CodesInv'
  BY <1>20 DEF CodesInv, CodeFits, Registering, LastCode, Rotating
<1>21. ASSUME \/ \E s \in SessionIds : SessionExpires(s)
              \/ \E m \in MemoryIds : MemoryExpires(m)
              \/ UNCHANGED visitorVars
       PROVE  CodesInv'
  BY <1>20, <1>21 DEF SessionExpires, MemoryExpires, visitorVars
<1> QED BY <1>5, <1>7, <1>8, <1>9, <1>10, <1>11, <1>12, <1>13, <1>14, <1>15, <1>18, <1>19, <1>21
        DEF VisitorsNext

\* LastCodeWorks, of the codes routes/recovery.ts draws and answers.
THEOREM LastCodesWork == VisitorsSpec => []LastCodeWorks
<1>1. VisitorsInit => CodesInv
  BY DEF VisitorsInit, CodesInv, CodeFits, Registering, NoVisit
<1>2. CodesInv => LastCodeWorks
  BY DEF CodesInv, LastCodeWorks, LastCode, Unanswered, Rotating
<1> QED BY <1>1, <1>2, CodesStep, AccountsInvariant, PTL DEF VisitorsSpec

-----------------------------------------------------------------------------
(* The site: what each part promises, it keeps among the others *)

\* No part writes a table or a file of another's.
THEOREM SiteParts ==
  MCSpec => OfficeSpec /\ PortalSpec /\ VisitorsSpec /\ UploadsSpec /\ ProvidersSpec
<1>1. MCInit => OfficeInit /\ PortalInit /\ VisitorsInit /\ UploadsInit /\ ProvidersInit
  BY DEF MCInit
<1>2. [MCNext]_siteVars => [OfficeNext]_officeVars
  BY DEF MCNext, siteVars
<1>3. [MCNext]_siteVars => [PortalNext]_portalVars
  BY DEF MCNext, siteVars
<1>4. [MCNext]_siteVars => [VisitorsNext]_visitorVars
  BY DEF MCNext, siteVars
<1>5. [MCNext]_siteVars => [UploadsNext]_uploadVars
  BY DEF MCNext, siteVars
<1>6. [MCNext]_siteVars => [ProvidersNext]_providersVars
  BY DEF MCNext, siteVars
<1> QED BY <1>1, <1>2, <1>3, <1>4, <1>5, <1>6, PTL
        DEF MCSpec, OfficeSpec, PortalSpec, VisitorsSpec, UploadsSpec, ProvidersSpec

\* MCTypeOK: every part stays within its declared values.
THEOREM SiteTypes == MCSpec => []MCTypeOK
<1>1. OfficeInv /\ PortalInv /\ AccountsInv /\ UploadsInv /\ ProvidersInv => MCTypeOK
  BY DEF MCTypeOK, OfficeInv, PortalInv, AccountsInv, UploadsInv, ProvidersInv
<1> QED BY <1>1, SiteParts, OfficeInvariant, PortalInvariant, AccountsInvariant, UploadsInvariant,
           ProvidersInvariant, PTL

\* What the run of the site checks, of any number of members, visitors, uploads,
\* customers and requests: all of the invariants, and the privacy of memories.
THEOREM SiteSafety ==
  MCSpec => /\ [](SessionsMatchAccounts /\ QuotesByApprovers /\ GuessesAreBounded)
            /\ []CatalogueAsPublished
            /\ [](SessionsAreRecoverable /\ LastCodeWorks) /\ MemoriesArePrivate
            /\ []PersistentUploadsLast
            /\ []OrdersNameOffers
BY SiteParts, SessionsFollowAccounts, QuotesAreByApprovers, GuessesBounded, CatalogueStands,
   SessionsRecoverable, LastCodesWork, MemoriesPrivate, UploadsLast, OrdersNameOffered, PTL

=============================================================================
