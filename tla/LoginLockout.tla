----------------------------- MODULE LoginLockout ------------------------------
(***************************************************************************)
(* The login limiter of routes/admin.ts: five wrong passwords from one     *)
(* address within 15 minutes block the address for 15 minutes.             *)
(*                                                                         *)
(* POST /team/login asks the limiter, awaits the SELECT of the member, and *)
(* only then notes a failure or clears the count, so logins that overlap   *)
(* are admitted by one count and change it later.  (POST /admin/login does *)
(* all of it at once: it is a login that is resolved as soon as called.)   *)
(* Addresses do not interact: one is modelled.  Time passes in ticks.      *)
(***************************************************************************)
EXTENDS Naturals, FiniteSets, Tallies

CONSTANTS
  Logins,      \* logins of the address served at the same time
  FailLimit,   \* failures that block (5)
  BlockTicks   \* ticks of a block, and of the first failure's record (15 min)

ASSUME LockoutAssumption ==
  FailLimit \in Nat \ {0, 1} /\ BlockTicks \in Nat \ {0} /\ IsFiniteSet(Logins)

VARIABLES
  failed,   \* loginFailures: `count` is 0 without a record, `left` ticks until blockedUntil
  pending,  \* logins that await their SELECT
  guesses   \* history: failures noted 0, 1, ... ticks ago, since a success

lockoutVars == <<failed, pending, guesses>>

NoFailures == [left |-> 0, count |-> 0]

\* Above the limit the count is only compared with it: it stops there.
LockoutTypeOK ==
  /\ failed \in [left: 0..BlockTicks, count: 0..FailLimit]
  /\ pending \subseteq Logins
  /\ guesses \in [0..BlockTicks - 1 -> Nat]

LockoutInit ==
  /\ failed = NoFailures
  /\ pending = {}
  /\ guesses = [i \in 0..BlockTicks - 1 |-> 0]

-----------------------------------------------------------------------------
\* loginIsBlocked, which forgets a record past its time.
Forgotten == failed.left = 0
Blocked   == ~Forgotten /\ failed.count = FailLimit

CallTeamLogin(l) ==
  /\ l \notin pending /\ ~Blocked
  /\ pending' = pending \cup {l}
  /\ failed' = IF Forgotten THEN NoFailures ELSE failed
  /\ UNCHANGED guesses

CountOnly ==    \* mutant: the fifth failure does not move blockedUntil
  IF Forgotten THEN [left |-> BlockTicks, count |-> 1]
  ELSE [failed EXCEPT !.count = IF @ < FailLimit THEN @ + 1 ELSE @]

\* noteLoginFailure: a record of its own, one more, or the block (again).
Noted ==
  IF Forgotten THEN [left |-> BlockTicks, count |-> 1]
  ELSE IF failed.count + 1 < FailLimit THEN [failed EXCEPT !.count = @ + 1]
  ELSE [left |-> BlockTicks, count |-> FailLimit]

\* The SELECT is answered: no such member, a disabled one, or a wrong password.
WrongPassword(l) ==
  /\ l \in pending
  /\ pending' = pending \ {l}
  /\ failed' = Noted
  /\ guesses' = [guesses EXCEPT ![0] = @ + 1]

\* clearLoginFailures: even a block that began while this login was pending.
RightPassword(l) ==
  /\ l \in pending
  /\ pending' = pending \ {l}
  /\ failed' = NoFailures
  /\ guesses' = [i \in 0..BlockTicks - 1 |-> 0]

\* A query that is rejected is no failure to the limiter.
LoginQueryFails(l) == l \in pending /\ pending' = pending \ {l} /\ UNCHANGED <<failed, guesses>>

LockoutTick ==
  /\ failed.left > 0 \/ \E i \in 0..BlockTicks - 1 : guesses[i] > 0
  /\ failed' = [failed EXCEPT !.left = IF @ > 0 THEN @ - 1 ELSE 0]
  /\ guesses' = [i \in 0..BlockTicks - 1 |-> IF i = 0 THEN 0 ELSE guesses[i - 1]]
  /\ UNCHANGED pending

\* The process restarts and remembers no failure.
LockoutRestart ==
  /\ failed' = NoFailures /\ pending' = {}
  /\ guesses' = [i \in 0..BlockTicks - 1 |-> 0]

LockoutNext ==
  \/ \E l \in Logins :
       CallTeamLogin(l) \/ WrongPassword(l) \/ RightPassword(l) \/ LoginQueryFails(l)
  \/ LockoutTick \/ LockoutRestart

LockoutSpec == LockoutInit /\ [][LockoutNext]_lockoutVars

-----------------------------------------------------------------------------
(* Properties *)

Guessed == Total(guesses)

\* Between two successes (or restarts) no 15 minutes see more wrong passwords
\* than: all but two of the limit late in one record (its first is older, its
\* last would have blocked), the limit in the next one, and the logins that were
\* pending when the block began.
GuessRate == Guessed <= (FailLimit - 2) + FailLimit + (Cardinality(Logins) - 1)

=============================================================================
