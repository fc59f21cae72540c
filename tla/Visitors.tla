------------------------------- MODULE Visitors -------------------------------
(***************************************************************************)
(* People who use the public site with an account: recovery codes          *)
(* (routes/recovery.ts), identities and sessions (modules/identity),       *)
(* private memories (modules/memory, routes/memory.ts) and the stateless   *)
(* chat that is given them (routes/chat.ts), over the PostgreSQL           *)
(* repositories.  No statement is part of a transaction: a handler that    *)
(* fails, or dies, leaves behind whatever its earlier statements did.      *)
(*                                                                         *)
(* A request comes to life with the statement that finds its session or    *)
(* its code; one that is refused changes nothing.  No route disables a     *)
(* user or invalidates a session, so a session ends when it expires.  What *)
(* a memory says is abstracted, and so are the limiters of these routes; a *)
(* recovery code, drawn at random, is abstracted to whether it is the one  *)
(* whose hash is stored ("current") or not ("other").                      *)
(***************************************************************************)
EXTENDS Naturals

CONSTANTS
  Users,       \* bound: accounts that are registered
  SessionIds,  \* bound: sessions that are open at the same time
  MemoryIds,   \* bound: memories ever created
  Visits,      \* requests served at the same time
  NoUser, NoMemory

ASSUME VisitorsAssumption == NoUser \notin Users /\ NoMemory \notin MemoryIds

VARIABLES
  users,       \* hormoz_identity_users
  credential,  \* hormoz_recovery_credentials: users with a stored code
  session,     \* hormoz_identity_sessions: whose it is, while not expired
  memory,      \* hormoz_memories: its owner and what became of it
  visit,       \* the handler of each request
  told,        \* history: the last code a user was answered
  clouded      \* history: users whose last rotations overlapped, or went unanswered

visitorVars == <<users, credential, session, memory, visit, told, clouded>>

Code == {"none", "current", "other"}

VisitStep ==
  {"idle", "user", "code", "open", "registered", "rotate", "rotated",
   "create", "list", "chat", "get", "patch", "delete", "update", "remove"}

\* `shown`: the memories its last answer, or the engine's context, contained.
Visit == [step: VisitStep, memory: MemoryIds \cup {NoMemory}, user: Users \cup {NoUser},
          code: Code, shown: SUBSET MemoryIds]

NoVisit == [step |-> "idle", memory |-> NoMemory, user |-> NoUser, code |-> "none", shown |-> {}]

Memory == [owner: Users \cup {NoUser}, state: {"absent", "live", "expired", "deleted"}]

VisitorsTypeOK ==
  /\ users \subseteq Users
  /\ credential \subseteq Users
  /\ session \in [SessionIds -> Users \cup {NoUser}]
  /\ memory \in [MemoryIds -> Memory]
  /\ visit \in [Visits -> Visit]
  /\ told \in [Users -> Code]
  /\ clouded \subseteq Users

VisitorsInit ==
  /\ users = {}
  /\ credential = {}
  /\ session = [s \in SessionIds |-> NoUser]
  /\ memory = [m \in MemoryIds |-> [owner |-> NoUser, state |-> "absent"]]
  /\ visit = [q \in Visits |-> NoVisit]
  /\ told = [u \in Users |-> "none"]
  /\ clouded = {}

-----------------------------------------------------------------------------
Begin(q, v) == visit[q].step = "idle" /\ visit' = [visit EXCEPT ![q] = v]

Proceed(q, s) == visit' = [visit EXCEPT ![q].step = s]

End(q, shown) ==
  visit' = [visit EXCEPT ![q] =
    IF shown = {} THEN NoVisit ELSE [NoVisit EXCEPT !.user = visit[q].user, !.shown = shown]]

-----------------------------------------------------------------------------
(* POST /recovery/register: three statements, then the answer *)

CallRegister(q) ==
  /\ \E u \in Users \ users :
       /\ \A p \in Visits : visit[p].step = "user" => visit[p].user # u
       /\ Begin(q, [NoVisit EXCEPT !.step = "user", !.user = u, !.code = "other"])
  /\ UNCHANGED <<users, credential, session, memory, told, clouded>>

CreateUserThenSession(q) ==    \* mutant: the session is opened before the code is stored
  /\ visit[q].step = "user"
  /\ users' = users \cup {visit[q].user}
  /\ Proceed(q, "open")
  /\ UNCHANGED <<credential, session, memory, told, clouded>>

CreateUser(q) ==
  /\ visit[q].step = "user"
  /\ users' = users \cup {visit[q].user}
  /\ Proceed(q, "code")
  /\ UNCHANGED <<credential, session, memory, told, clouded>>

InsertCredential(q) ==
  /\ visit[q].step = "code"
  /\ credential' = credential \cup {visit[q].user}
  /\ visit' = [visit EXCEPT ![q].step = "open", ![q].code = "current"]
  /\ UNCHANGED <<users, session, memory, told, clouded>>

Known(u) == u \in users
Valid(s) == session[s] # NoUser

\* createSession, for a registration (which has a code to answer) or a login.
CreateSession(q) ==
  /\ visit[q].step = "open"
  /\ Known(visit[q].user)
  /\ LET Unused == {s \in SessionIds : ~Valid(s)} IN
       Unused # {} /\ session' = [session EXCEPT ![CHOOSE s \in Unused : TRUE] = visit[q].user]
  /\ IF visit[q].code = "none" THEN End(q, {}) ELSE Proceed(q, "registered")
  /\ UNCHANGED <<users, credential, memory, told, clouded>>

TellCode(q) ==
  /\ visit[q].step \in {"registered", "rotated"}
  /\ told' = [told EXCEPT ![visit[q].user] = visit[q].code]
  /\ End(q, {})
  /\ UNCHANGED <<users, credential, session, memory, clouded>>

\* POST /recovery/login: SELECT ... WHERE recovery_hash finds the user.  No one
\* sends a code that was not answered; of overlapping rotations any may be sent.
Login(q) ==
  /\ \E u \in Users :
       /\ told[u] = "current" \/ (told[u] = "other" /\ u \in clouded /\ u \in credential)
       /\ Begin(q, [NoVisit EXCEPT !.step = "open", !.user = u])
  /\ UNCHANGED <<users, credential, session, memory, told, clouded>>

-----------------------------------------------------------------------------
(* Visits with a session: identityService.authenticate *)

\* The session is found, not expired, and names the user of all that follows.
\* It was answered: one of a registration whose answer was lost is unknown.
Authenticate(q) ==
  /\ \E s \in SessionIds, m \in MemoryIds, op \in {"rotate", "create", "list", "chat", "get", "patch", "delete"} :
       /\ Valid(s) /\ told[session[s]] # "none"
       /\ Begin(q, [NoVisit EXCEPT !.step = op, !.user = session[s],
                      !.memory = IF op \in {"get", "patch", "delete"} THEN m ELSE NoMemory])
  /\ UNCHANGED <<users, credential, session, memory, told, clouded>>

UpdateNotAwaited(q) ==    \* mutant: the new code is answered without the UPDATE
  /\ visit[q].step = "rotate"
  /\ visit' = [visit EXCEPT ![q].step = "rotated", ![q].code = "other"]
  /\ UNCHANGED <<users, credential, session, memory, told, clouded>>

Unanswered(u) == \E p \in Visits : visit[p].step = "rotated" /\ visit[p].user = u

Outdated(code) == IF code = "current" THEN "other" ELSE code

\* POST /recovery/rotate: UPDATE ... WHERE user_id.  It would change no row of a
\* user without a credential, and answer a code all the same.
UpdateCredential(q) ==
  /\ visit[q].step = "rotate"
  /\ LET u == visit[q].user IN
     IF u \in credential
     THEN /\ told' = [told EXCEPT ![u] = Outdated(@)]
          /\ visit' = [p \in Visits |->
               IF p = q THEN [visit[q] EXCEPT !.step = "rotated", !.code = "current"]
               ELSE IF visit[p].user = u THEN [visit[p] EXCEPT !.code = Outdated(@)] ELSE visit[p]]
          /\ clouded' = IF Unanswered(u) THEN clouded \cup {u} ELSE clouded \ {u}
     ELSE /\ visit' = [visit EXCEPT ![q].step = "rotated", ![q].code = "other"]
          /\ UNCHANGED <<told, clouded>>
  /\ UNCHANGED <<users, credential, session, memory>>

-----------------------------------------------------------------------------
(* The memory routes, for the user of the session *)

Owned(m, u) == memory[m].owner = u
Live(m)     == memory[m].state = "live"

\* UPDATE and DELETE write the row of one memory.
Becomes(m, s) == memory' = [memory EXCEPT ![m].state = s]

CreateMemory(q) ==
  /\ visit[q].step = "create"
  /\ \E m \in MemoryIds :
       /\ memory[m].state = "absent"
       /\ memory' = [memory EXCEPT ![m] = [owner |-> visit[q].user, state |-> "live"]]
  /\ End(q, {})
  /\ UNCHANGED <<users, credential, session, told, clouded>>

ListedForAnyone(u) == {m \in MemoryIds : Live(m)}    \* mutant: no WHERE user_id
Listed(u) == {m \in MemoryIds : Owned(m, u) /\ Live(m)}

\* GET /memory, and the private context of a chat.
ListMemories(q) ==
  /\ visit[q].step \in {"list", "chat"}
  /\ End(q, Listed(visit[q].user))
  /\ UNCHANGED <<users, credential, session, memory, told, clouded>>

\* getMemory, and the check before an update or a removal: not found,
\* forbidden or expired ends the request.  An expired one may be removed.
ReadMemory(q) ==
  /\ visit[q].step \in {"get", "patch", "delete"}
  /\ LET m == visit[q].memory IN
     IF Owned(m, visit[q].user) /\ (Live(m) \/ (visit[q].step = "delete" /\ memory[m].state = "expired"))
     THEN CASE visit[q].step = "get"    -> End(q, {m})
            [] visit[q].step = "patch"  -> Proceed(q, "update")
            [] visit[q].step = "delete" -> Proceed(q, "remove")
     ELSE End(q, {})
  /\ UNCHANGED <<users, credential, session, memory, told, clouded>>

\* UPDATE ... WHERE id AND user_id: it may set a later expiry, and meet a
\* memory that expired, or was deleted, since it was read.
UpdateMemory(q) ==
  /\ visit[q].step = "update"
  /\ LET m == visit[q].memory IN
     IF Owned(m, visit[q].user) /\ memory[m].state # "deleted"
     THEN /\ \E s \in {"live", memory[m].state} : Becomes(m, s)
          /\ End(q, {m})
     ELSE End(q, {}) /\ UNCHANGED memory
  /\ UNCHANGED <<users, credential, session, told, clouded>>

\* DELETE ... WHERE id: whose it is was checked when it was read.
RemoveMemory(q) ==
  /\ visit[q].step = "remove"
  /\ Becomes(visit[q].memory, "deleted")
  /\ End(q, {})
  /\ UNCHANGED <<users, credential, session, told, clouded>>

-----------------------------------------------------------------------------
\* A statement is rejected, or the answer is lost: the handler ends here.
Fails(q) ==
  /\ visit[q].step # "idle"
  /\ visit' = [visit EXCEPT ![q] = NoVisit]
  /\ clouded' = IF visit[q].step = "rotated" THEN clouded \cup {visit[q].user} ELSE clouded
  /\ UNCHANGED <<users, credential, session, memory, told>>

\* The process restarts: every table is kept.
Crash ==
  /\ visit' = [q \in Visits |-> NoVisit]
  /\ clouded' = clouded \cup {visit[q].user : q \in {p \in Visits : visit[p].step = "rotated"}}
  /\ UNCHANGED <<users, credential, session, memory, told>>

SessionExpires(s) ==
  /\ Valid(s)
  /\ session' = [session EXCEPT ![s] = NoUser]
  /\ UNCHANGED <<users, credential, memory, visit, told, clouded>>

MemoryExpires(m) ==
  /\ Live(m)
  /\ Becomes(m, "expired")
  /\ UNCHANGED <<users, credential, session, visit, told, clouded>>

VisitorsNext ==
  \/ \E q \in Visits :
       \/ CallRegister(q) \/ CreateUser(q) \/ InsertCredential(q) \/ CreateSession(q) \/ TellCode(q)
       \/ Login(q) \/ Authenticate(q) \/ UpdateCredential(q)
       \/ CreateMemory(q) \/ ListMemories(q) \/ ReadMemory(q) \/ UpdateMemory(q) \/ RemoveMemory(q)
       \/ Fails(q)
  \/ Crash
  \/ \E s \in SessionIds : SessionExpires(s)
  \/ \E m \in MemoryIds : MemoryExpires(m)

VisitorsSpec == VisitorsInit /\ [][VisitorsNext]_visitorVars

-----------------------------------------------------------------------------
(* Properties *)

\* Whoever has a session has a stored recovery code, however registrations
\* fail between their statements: there is a way back into every account
\* someone is in, and a rotation always has a row to change.
SessionsAreRecoverable ==
  \A s \in SessionIds : Valid(s) => Known(session[s]) /\ session[s] \in credential

\* The code a user was told last is the one that logs in, unless rotations of
\* the user overlapped or a rotation's answer was lost (then only one of the
\* codes that were drawn works, and the user may not know which).
LastCodeWorks ==
  \A u \in Users : told[u] # "none" /\ u \notin clouded /\ ~Unanswered(u) => told[u] = "current"

\* A memory is shown to, given to the engine for, changed or deleted for no one
\* but its owner, whatever other requests do between the check of a memory and
\* the statement that follows it.
MemoriesArePrivate ==
  [][\A m \in MemoryIds :
       /\ \A q \in Visits : m \in visit'[q].shown => memory'[m].owner = visit'[q].user
       /\ memory'[m] # memory[m] /\ ~MemoryExpires(m) =>
            \E q \in Visits : visit[q] # visit'[q] /\ memory'[m].owner = visit[q].user]_visitorVars

=============================================================================
