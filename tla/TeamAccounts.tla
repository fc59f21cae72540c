----------------------------- MODULE TeamAccounts -----------------------------
(***************************************************************************)
(* The team accounts of routes/admin.ts: the hormoz_team_members table in  *)
(* PostgreSQL, the `sessions` Map in the memory of the one Node process,   *)
(* and the handlers that read the one before they change the other.        *)
(*                                                                         *)
(* A handler runs without interruption up to an `await` of a query.  The   *)
(* statement takes effect in the database at one moment, the rest of the   *)
(* handler runs at a later one, and other handlers run in between: each    *)
(* request is a call, a statement and a continuation.                      *)
(*                                                                         *)
(* What a password contains is abstracted: whether the one a login sends   *)
(* matches the hash is a choice.  A session token is 32 random bytes, so a *)
(* login never meets a token someone holds; here the name of a token may   *)
(* be used again once its session is gone.                                 *)
(***************************************************************************)
EXTENDS Naturals, FiniteSets

CONSTANTS
  Members,    \* usernames that accounts are created for
  Admin,      \* the one administrator, who has no row in the table
  Tokens,     \* bound: sessions open at the same time
  Requests,   \* requests the process is serving at the same time
  NoSession, NoMember

ASSUME AccountsAssumption ==
  /\ Admin \notin Members
  /\ NoSession \notin Members \cup {Admin}
  /\ NoMember \notin Members

VARIABLES
  members,    \* hormoz_team_members: "absent", or by the column `active`
  sessions,   \* the Map, by token: whose session it is
  step,       \* where each request stands
  about       \* the member each request is about

vars == <<members, sessions, step, about>>

Account == {"absent", "active", "disabled"}

\* A request awaits its statement in the first set, its answer in the second.
Statement    == {"login", "me", "create", "enable", "disable"}
Continuation == {"grant", "purge", "close"}
Resting      == {"idle", "closed"}   \* "closed": answered that all is closed

TypeOK ==
  /\ members \in [Members -> Account]
  /\ sessions \in [Tokens -> Members \cup {Admin, NoSession}]
  /\ step \in [Requests -> Statement \cup Continuation \cup Resting]
  /\ about \in [Requests -> Members \cup {NoMember}]
  /\ \A q \in Requests : about[q] = NoMember => step[q] = "idle"

Init ==
  /\ members = [m \in Members |-> "absent"]
  /\ sessions = [t \in Tokens |-> NoSession]
  /\ step = [q \in Requests |-> "idle"]
  /\ about = [q \in Requests |-> NoMember]

-----------------------------------------------------------------------------
SessionsOf(a) == {t \in Tokens : sessions[t] = a}

Open(a) == \E t \in SessionsOf(NoSession) : sessions' = [sessions EXCEPT ![t] = a]

Goto(q, s) == step' = [step EXCEPT ![q] = s]

Start(q, m, s) ==
  /\ step[q] \in Resting
  /\ Goto(q, s)
  /\ about' = [about EXCEPT ![q] = m]
  /\ UNCHANGED <<members, sessions>>

\* Bound: no login begins that might find every token in use.
TokenToSpare ==
  Cardinality(SessionsOf(NoSession)) > Cardinality({q \in Requests : step[q] \in {"login", "grant"}})

\* POST /admin/login compares with an environment variable: nothing is awaited.
AdminLogin == TokenToSpare /\ Open(Admin) /\ UNCHANGED <<members, step, about>>

\* POST /team/logout deletes the session it is called with.  A session past
\* SESSION_TTL_MS is never honoured: getSessionInfo deletes it when it meets it.
EndSession(t) ==
  /\ sessions[t] # NoSession
  /\ sessions' = [sessions EXCEPT ![t] = NoSession]
  /\ UNCHANGED <<members, step, about>>

Logout(t) == EndSession(t)

NeverExpires(t) == FALSE    \* mutant: getSessionInfo does not look at expiresAt
Expire(t) == EndSession(t)

-----------------------------------------------------------------------------
(* POST /team/login *)

CallLogin(q, m) == TokenToSpare /\ Start(q, m, "login")

AdmitsAnyRow(m) == members[m] # "absent"    \* mutant: `active` is not looked at
Admits(m) == members[m] = "active"

\* SELECT ... WHERE username: the row decides, with the password.
SelectMember(q) ==
  /\ step[q] = "login"
  /\ \/ Admits(about[q]) /\ Goto(q, "grant")
     \/ Goto(q, "idle")
  /\ UNCHANGED <<members, sessions, about>>

\* The continuation sets the session from the row it read.
Grant(q) ==
  /\ step[q] = "grant"
  /\ Open(about[q])
  /\ Goto(q, "idle")
  /\ UNCHANGED <<members, about>>

-----------------------------------------------------------------------------
(* GET /team/me, with a member's session: is the account still active? *)

CallMe(q) == \E m \in Members : SessionsOf(m) # {} /\ Start(q, m, "me")

CheckActive(q) ==
  /\ step[q] = "me"
  /\ Goto(q, IF members[about[q]] = "active" THEN "idle" ELSE "purge")
  /\ UNCHANGED <<members, sessions, about>>

Purge(m) == sessions' = [t \in Tokens |-> IF sessions[t] = m THEN NoSession ELSE sessions[t]]

PurgeStale(q) ==
  /\ step[q] = "purge"
  /\ Purge(about[q])
  /\ Goto(q, "idle")
  /\ UNCHANGED <<members, about>>

-----------------------------------------------------------------------------
(* POST /admin/members and PATCH /admin/members/:id, with the admin's session *)

CallCreate(q, m) == SessionsOf(Admin) # {} /\ Start(q, m, "create")

Default      == "active"

\* INSERT, refused when the username is taken.  The answer may be lost.
InsertMember(q) ==
  /\ step[q] = "create"
  /\ members' = IF members[about[q]] = "absent"
                THEN [members EXCEPT ![about[q]] = Default] ELSE members
  /\ Goto(q, "idle")
  /\ UNCHANGED <<sessions, about>>

CallSetActive(q, m) ==
  /\ SessionsOf(Admin) # {}
  /\ \E s \in {"enable", "disable"} : Start(q, m, s)

\* UPDATE ... SET active RETURNING: no row is a 404.
Enable(q) ==
  /\ step[q] = "enable"
  /\ members' = IF members[about[q]] = "absent" THEN members
                ELSE [members EXCEPT ![about[q]] = "active"]
  /\ Goto(q, "idle")
  /\ UNCHANGED <<sessions, about>>

\* If the answer is lost the handler ends in its catch block and nothing is purged.
Disable(q) ==
  /\ step[q] = "disable"
  /\ \/ /\ members[about[q]] = "absent"
        /\ Goto(q, "idle")
        /\ UNCHANGED members
     \/ /\ members[about[q]] # "absent"
        /\ members' = [members EXCEPT ![about[q]] = "disabled"]
        /\ \E s \in {"close", "idle"} : Goto(q, s)
  /\ UNCHANGED <<sessions, about>>

\* The continuation closes the member's sessions and says so.
Close(q) ==
  /\ step[q] = "close"
  /\ Purge(about[q])
  /\ Goto(q, "closed")
  /\ UNCHANGED <<members, about>>

-----------------------------------------------------------------------------
\* A query is rejected without effect: every handler answers 503.
QueryFails(q) ==
  /\ step[q] \in Statement
  /\ Goto(q, "idle")
  /\ UNCHANGED <<members, sessions, about>>

\* The process restarts: requests and sessions are gone, the table is not.
Restart ==
  /\ sessions' = [t \in Tokens |-> NoSession]
  /\ step' = [q \in Requests |-> "idle"]
  /\ about' = [q \in Requests |-> NoMember]
  /\ UNCHANGED members

Call(q) ==
  \/ CallMe(q)
  \/ \E m \in Members : CallLogin(q, m) \/ CallCreate(q, m) \/ CallSetActive(q, m)

Serve(q) ==
  \/ SelectMember(q) \/ Grant(q) \/ CheckActive(q) \/ PurgeStale(q)
  \/ InsertMember(q) \/ Enable(q) \/ Disable(q) \/ Close(q) \/ QueryFails(q)

Next ==
  \/ AdminLogin
  \/ \E t \in Tokens : Logout(t) \/ Expire(t)
  \/ \E q \in Requests : Call(q) \/ Serve(q)
  \/ Restart

Spec == Init /\ [][Next]_vars

\* Node's event loop and the pool serve every request, and time passes.
FairSpec ==
  /\ Spec
  /\ \A q \in Requests : WF_vars(Serve(q))
  /\ \A t \in Tokens : WF_vars(Expire(t))

-----------------------------------------------------------------------------
(* Properties *)

\* Nothing is left through which a disabled member could come back: no session,
\* and no login whose SELECT already found the account active.
LockedOut(m) ==
  /\ members[m] = "disabled"
  /\ SessionsOf(m) = {}
  /\ \A q \in Requests : ~(step[q] = "grant" /\ about[q] = m)

\* A member who is locked out stays locked out until an administrator enables
\* the account again, whatever logins, purges, lost answers and restarts
\* follow: no step of anyone gives them a session (team/login, PATCH members).
LockoutHolds ==
  [][\A m \in Members : LockedOut(m) => LockedOut(m)' \/ members'[m] = "active"]_vars

\* A login that overlaps the disabling of its account can leave a session
\* behind it (see DisablingClosesSessions), and so can a lost answer.  Such a
\* session is not for ever: a disabled member is locked out in the end, unless
\* the account is enabled again.
DisabledMembersLeave ==
  \A m \in Members : members[m] = "disabled" ~> LockedOut(m) \/ members[m] = "active"

\* What PATCH /admin/members/:id answers: "the member's access was disabled and
\* his active sessions were closed".  While that answer stands and the account
\* is still disabled, the member has no session.
DisablingClosesSessions ==
  \A q \in Requests :
    step[q] = "closed" /\ members[about[q]] = "disabled" => SessionsOf(about[q]) = {}

=============================================================================
