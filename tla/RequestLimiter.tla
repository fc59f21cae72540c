---------------------------- MODULE RequestLimiter ----------------------------
(***************************************************************************)
(* InMemoryRateLimiter of utils/rate-limit.ts, which order tracking calls  *)
(* before it looks at anything else: fixed windows per client in a Map     *)
(* that never holds more than maxKeys of them.                             *)
(*                                                                         *)
(* A check runs without interruption.  What is hard is what a long         *)
(* sequence of checks by many clients does to the Map, in which expired    *)
(* windows stay until somebody needs their place.  Time passes in ticks,   *)
(* and a window's expiry is kept as the ticks left.                        *)
(***************************************************************************)
EXTENDS Naturals, FiniteSets

CONSTANTS
  Keys,         \* clients: address and browser
  MaxRequests,  \* checks a window admits (30 where the limiter is used)
  MaxKeys,      \* windows the Map may hold (10,000)
  Span          \* ticks of a window (60 s)

ASSUME LimiterAssumption ==
  /\ MaxRequests \in Nat \ {0} /\ MaxKeys \in Nat \ {0} /\ Span \in Nat \ {0}
  /\ IsFiniteSet(Keys)

VARIABLES
  windows,  \* the Map: `count` is 0 for a key it does not hold
  told      \* history: what each client was told when it was last refused

limiterVars == <<windows, told>>

\* `left`: ticks until expiresAt; 0 if the window has expired and is still there.
WindowRecord == [left: 0..Span, count: 0..MaxRequests]
NoWindow     == [left |-> 0, count |-> 0]

\* `full`: there was no place in the Map.  `wait`: ticks of its retryAfterMs
\* that are left.  `others`: clients whose windows were opened since.
Told     == [refused: BOOLEAN, full: BOOLEAN, wait: 0..Span, others: SUBSET Keys]
NotTold  == [refused |-> FALSE, full |-> FALSE, wait |-> 0, others |-> {}]

LimiterTypeOK ==
  /\ windows \in [Keys -> WindowRecord]
  /\ told \in [Keys -> Told]
  /\ \A k \in Keys : windows[k].count = 0 => windows[k].left = 0
  /\ Cardinality({k \in Keys : windows[k].count > 0}) <= MaxKeys

LimiterInit ==
  /\ windows = [k \in Keys |-> NoWindow]
  /\ told = [k \in Keys |-> NotTold]

-----------------------------------------------------------------------------
Stored == {k \in Keys : windows[k].count > 0}
Live   == {k \in Stored : windows[k].left > 0}

NeverPurged(k) == Stored \ {k}    \* mutant: expired windows are not looked for

\* The windows that stay when a client without a live one is checked: its own
\* expired one goes, and if the Map is full all expired ones do.
Kept(k) == IF Cardinality(Stored \ {k}) >= MaxKeys THEN Live ELSE Stored \ {k}

HasPlace(k) == Cardinality(Kept(k)) < MaxKeys

Refused(k, full, wait) ==
  told' = [told EXCEPT ![k] = [refused |-> TRUE, full |-> full, wait |-> wait, others |-> {}]]

\* check(): a first request, or one after the window expired.
OpenWindow(k) ==
  /\ k \notin Live /\ HasPlace(k)
  /\ windows' = [j \in Keys |-> CASE j = k       -> [left |-> Span, count |-> 1]
                                  [] j \in Kept(k) -> windows[j]
                                  [] OTHER         -> NoWindow]
  /\ told' = [j \in Keys |-> IF j = k THEN NotTold
                             ELSE IF told[j].refused THEN [told[j] EXCEPT !.others = @ \cup {k}]
                             ELSE told[j]]

\* Every place is taken by a live window: refused for a whole window.
FindNoPlace(k) ==
  /\ k \notin Live /\ ~HasPlace(k)
  /\ windows' = [j \in Keys |-> IF j \in Kept(k) THEN windows[j] ELSE NoWindow]
  /\ Refused(k, TRUE, Span)

\* One more of the quota.
CountUp(k) ==
  /\ k \in Live /\ windows[k].count < MaxRequests
  /\ windows' = [windows EXCEPT ![k].count = @ + 1]
  /\ told' = [told EXCEPT ![k] = NotTold]

\* The quota is used up: refused until the window expires.
Refuse(k) ==
  /\ k \in Live /\ windows[k].count = MaxRequests
  /\ UNCHANGED windows
  /\ Refused(k, FALSE, windows[k].left)

Sooner(n) == IF n > 0 THEN n - 1 ELSE 0

LimiterTick ==
  /\ \/ \E k \in Keys : windows[k].left > 0
     \/ \E k \in Keys : told[k].wait > 0
  /\ windows' = [k \in Keys |-> [windows[k] EXCEPT !.left = Sooner(@)]]
  /\ told' = [k \in Keys |-> [told[k] EXCEPT !.wait = Sooner(@)]]

LimiterNext ==
  \/ \E k \in Keys : OpenWindow(k) \/ FindNoPlace(k) \/ CountUp(k) \/ Refuse(k)
  \/ LimiterTick

LimiterSpec == LimiterInit /\ [][LimiterNext]_limiterVars

-----------------------------------------------------------------------------
(* Properties *)

Waited(k) == told[k].refused /\ told[k].wait = 0
RefusedAgain(k) == told'[k].refused /\ told'[k].wait > 0

\* retryAfterMs is to be trusted: a client that waited as it was told is refused
\* again only because others took the places since: one if it had used up its
\* own quota, as many as the Map has if it had found the Map full.
WaitingHelps ==
  [][\A k \in Keys : Waited(k) /\ RefusedAgain(k) =>
       Cardinality(told[k].others) >= IF told[k].full THEN MaxKeys ELSE 1]_limiterVars

=============================================================================
