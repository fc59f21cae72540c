-------------------------- MODULE TeamAccountsProofs --------------------------
(***************************************************************************)
(* Proofs about TeamAccounts, for any members, tokens and requests: its    *)
(* type invariant, and that a locked-out member stays locked out.          *)
(***************************************************************************)
EXTENDS TeamAccounts, TLAPS

\* A request is about a member from its call to its answer.
LEMMA Concerned == ASSUME TypeOK, NEW q \in Requests, step[q] # "idle"
                   PROVE  about[q] \in Members
  BY DEF TypeOK

\* Every statement and every continuation of a handler leaves the accounts,
\* the sessions and the requests well formed.
LEMMA TypeStep == TypeOK /\ [Next]_vars => TypeOK'
<1> SUFFICES ASSUME TypeOK, [Next]_vars PROVE TypeOK'
  OBVIOUS
<1> DEFINE SessionsType == sessions \in [Tokens -> Members \cup {Admin, NoSession}]
<1>1. ASSUME NEW a \in Members \cup {Admin}, Open(a) PROVE SessionsType'
  BY <1>1 DEF Open, SessionsOf, TypeOK
<1>2. ASSUME NEW m \in Members, Purge(m) PROVE SessionsType'
  BY <1>2 DEF Purge, TypeOK
<1>3. ASSUME NEW q \in Requests, NEW s, Goto(q, s), UNCHANGED about, step[q] # "idle",
             s \in Statement \cup Continuation \cup Resting
      PROVE  /\ step' \in [Requests -> Statement \cup Continuation \cup Resting]
             /\ about' \in [Requests -> Members \cup {NoMember}]
             /\ \A r \in Requests : about'[r] = NoMember => step'[r] = "idle"
  BY <1>3, Concerned, AccountsAssumption DEF Goto, TypeOK
<1>4. CASE AdminLogin
  BY <1>1, <1>4 DEF AdminLogin, TypeOK
<1>5. ASSUME NEW t \in Tokens, EndSession(t) PROVE TypeOK'
  BY <1>5 DEF EndSession, TypeOK
<1>6. ASSUME NEW q \in Requests, Call(q) PROVE TypeOK'
  <2>1. PICK m \in Members, s \in Statement : Start(q, m, s)
    BY <1>6 DEF Call, CallMe, CallLogin, CallCreate, CallSetActive, Statement
  <2> QED BY <2>1, AccountsAssumption DEF Start, Goto, TypeOK
<1>7. ASSUME NEW q \in Requests, Serve(q) PROVE TypeOK'
  <2> USE DEF Statement, Continuation, Resting
  <2>1. CASE SelectMember(q)
    BY <1>3, <2>1 DEF SelectMember, TypeOK
  <2>2. CASE Grant(q)
    BY <1>1, <1>3, <2>2, Concerned DEF Grant, TypeOK
  <2>3. CASE CheckActive(q)
    BY <1>3, <2>3 DEF CheckActive, TypeOK
  <2>4. CASE PurgeStale(q)
    BY <1>2, <1>3, <2>4, Concerned DEF PurgeStale, TypeOK
  <2>5. CASE InsertMember(q)
    BY <1>3, <2>5 DEF InsertMember, Default, Account, TypeOK
  <2>6. CASE Enable(q)
    BY <1>3, <2>6 DEF Enable, Account, TypeOK
  <2>7. CASE Disable(q)
    BY <1>3, <2>7 DEF Disable, Account, TypeOK
  <2>8. CASE Close(q)
    BY <1>2, <1>3, <2>8, Concerned DEF Close, TypeOK
  <2>9. CASE QueryFails(q)
    BY <1>3, <2>9 DEF QueryFails, TypeOK
  <2> QED BY <1>7, <2>1, <2>2, <2>3, <2>4, <2>5, <2>6, <2>7, <2>8, <2>9 DEF Serve
<1>8. CASE Restart
  BY <1>8 DEF Restart, Resting, TypeOK
<1>9. CASE UNCHANGED vars
  BY <1>9 DEF vars, TypeOK
<1> QED BY <1>4, <1>5, <1>6, <1>7, <1>8, <1>9 DEF Next, Logout, Expire

\* The accounts, the sessions and the requests are well formed in every state:
\* in particular a session belongs to a member or to the administrator.
THEOREM AccountsTypeCorrect == Spec => []TypeOK
<1>1. Init => TypeOK
  BY DEF Init, TypeOK, Account, Resting
<1> QED BY <1>1, TypeStep, PTL DEF Spec

\* No step lets a locked-out member in, except the statement that enables the
\* account: a login must find the account active before it may be granted a
\* session, and what purges and ends sessions never adds one.
LEMMA LockoutStep ==
  ASSUME TypeOK, [Next]_vars, NEW m \in Members, LockedOut(m)
  PROVE  LockedOut(m)' \/ members'[m] = "active"
<1> USE DEF LockedOut, SessionsOf, Goto
<1>1. m # Admin /\ m # NoSession
  BY AccountsAssumption
<1>2. CASE AdminLogin
  BY <1>1, <1>2 DEF AdminLogin, Open, TypeOK
<1>3. ASSUME NEW t \in Tokens, EndSession(t) PROVE LockedOut(m)'
  BY <1>1, <1>3 DEF EndSession, TypeOK
<1>4. ASSUME NEW q \in Requests, Call(q) PROVE LockedOut(m)'
  <2>1. PICK n \in Members, s \in Statement : Start(q, n, s)
    BY <1>4 DEF Call, CallMe, CallLogin, CallCreate, CallSetActive, Statement
  <2> QED BY <2>1 DEF Start, Statement, TypeOK
<1>5. ASSUME NEW q \in Requests, Serve(q)
      PROVE  LockedOut(m)' \/ members'[m] = "active"
  <2>1. CASE SelectMember(q)
    BY <2>1 DEF SelectMember, Admits, TypeOK
  <2>2. CASE Grant(q)
    BY <1>1, <2>2 DEF Grant, Open, TypeOK
  <2>3. CASE CheckActive(q)
    BY <2>3 DEF CheckActive, TypeOK
  <2>4. CASE PurgeStale(q)
    BY <1>1, <2>4 DEF PurgeStale, Purge, TypeOK
  <2>5. CASE InsertMember(q)
    BY <2>5 DEF InsertMember, Default, TypeOK
  <2>6. CASE Enable(q)
    BY <2>6 DEF Enable, TypeOK
  <2>7. CASE Disable(q)
    BY <2>7 DEF Disable, TypeOK
  <2>8. CASE Close(q)
    BY <1>1, <2>8 DEF Close, Purge, TypeOK
  <2>9. CASE QueryFails(q)
    BY <2>9 DEF QueryFails, TypeOK
  <2> QED BY <1>5, <2>1, <2>2, <2>3, <2>4, <2>5, <2>6, <2>7, <2>8, <2>9 DEF Serve
<1>6. CASE Restart
  BY <1>1, <1>6 DEF Restart
<1>7. CASE UNCHANGED vars
  BY <1>7 DEF vars
<1> QED BY <1>2, <1>3, <1>4, <1>5, <1>6, <1>7 DEF Next, Logout, Expire

\* A member who has no session and no admitted login when disabled stays out
\* until an administrator enables the account, whatever overlaps.
THEOREM LockoutIsKept == Spec => LockoutHolds
<1>1. TypeOK /\ [Next]_vars
        => [\A m \in Members : LockedOut(m) => LockedOut(m)' \/ members'[m] = "active"]_vars
  BY LockoutStep
<1> QED BY <1>1, AccountsTypeCorrect, PTL DEF Spec, LockoutHolds

=============================================================================
