----------------------------- MODULE VoiceProofs ------------------------------
(***************************************************************************)
(* Proofs about the two sides of Nava's voice and the limiters, for any    *)
(* messages, requests, addresses, clients and logins, and any limits: the  *)
(* speech route, the login limiter, the limiter of order tracking, the     *)
(* chat page, and then the four of them together.                          *)
(***************************************************************************)
EXTENDS MCVoice, FiniteSetTheorems, TLAPS

-----------------------------------------------------------------------------
(* Tallies: what is known of them whenever one event is added or time passes *)

\* The event <<i, n>> is one of the f[i] of i ticks ago.
LEMMA TallyMembers ==
  ASSUME NEW N \in Nat, NEW f \in [0..N - 1 -> Nat]
  PROVE  \A p : p \in Tally(f) <=> \E i \in 0..N - 1 : \E n \in 1..f[i] : p = <<i, n>>
BY DEF Tally

\* One more event now is one more element.
LEMMA TallyAdds ==
  ASSUME NEW N \in Nat \ {0}, NEW f \in [0..N - 1 -> Nat]
  PROVE  LET g == [f EXCEPT ![0] = @ + 1] IN
         /\ g \in [0..N - 1 -> Nat]
         /\ Tally(g) = Tally(f) \cup {<<0, f[0] + 1>>}
         /\ <<0, f[0] + 1>> \notin Tally(f)
<1> DEFINE g == [f EXCEPT ![0] = @ + 1]
<1>1. g \in [0..N - 1 -> Nat] /\ g[0] = f[0] + 1 /\ \A i \in 1..N - 1 : g[i] = f[i]
  OBVIOUS
<1> HIDE DEF g
<1>2. Tally(g) \subseteq Tally(f) \cup {<<0, f[0] + 1>>}
  <2> SUFFICES ASSUME NEW i \in 0..N - 1, NEW n \in 1..g[i]
               PROVE  <<i, n>> \in Tally(f) \cup {<<0, f[0] + 1>>}
    BY <1>1, TallyMembers
  <2>1. n \in 1..f[i] \/ (i = 0 /\ n = f[0] + 1)
    BY <1>1
  <2> QED BY <2>1, TallyMembers
<1>3. Tally(f) \cup {<<0, f[0] + 1>>} \subseteq Tally(g)
  <2>1. \A i \in 0..N - 1 : f[i] <= g[i]
    BY <1>1
  <2>2. \A i \in 0..N - 1 : \A n \in 1..f[i] : n \in 1..g[i]
    BY <1>1, <2>1
  <2>3. 0 \in 0..N - 1 /\ f[0] + 1 \in 1..g[0]
    BY <1>1
  <2>4. <<0, f[0] + 1>> \in Tally(g)
    BY <1>1, <2>3, TallyMembers
  <2> QED BY <1>1, <2>2, <2>4, TallyMembers
<1>4. <<0, f[0] + 1>> \notin Tally(f)
  <2> SUFFICES ASSUME NEW i \in 0..N - 1, NEW n \in 1..f[i], <<0, f[0] + 1>> = <<i, n>> PROVE FALSE
    BY TallyMembers
  <2> QED OBVIOUS
<1> QED BY <1>1, <1>2, <1>3, <1>4 DEF g

\* As time passes events become older and are forgotten, never more of them.
LEMMA TallyShrinks ==
  ASSUME NEW N \in Nat \ {0}, NEW f \in [0..N - 1 -> Nat], NEW g,
         g = [i \in 0..N - 1 |-> IF i = 0 THEN 0 ELSE f[i - 1]],
         NEW S, IsFiniteSet(S), NEW T \in SUBSET Tally(g),
         \A i \in 0..N - 2 : \A n \in 1..f[i] : <<i + 1, n>> \in T => <<i, n>> \in S
  PROVE  IsFiniteSet(T) /\ Cardinality(T) <= Cardinality(S)
<1>1. g \in [0..N - 1 -> Nat]
  OBVIOUS
<1> DEFINE h == [p \in T |-> <<p[1] - 1, p[2]>>]
<1>2. ASSUME NEW p \in T
      PROVE  \E i \in 0..N - 2 : \E n \in 1..f[i] : p = <<i + 1, n>>
  <2>1. PICK i \in 0..N - 1 : \E n \in 1..g[i] : p = <<i, n>>
    <3>1. p \in Tally(g)
      OBVIOUS
    <3>2. \A q : q \in Tally(g) <=> \E i \in 0..N - 1 : \E n \in 1..g[i] : q = <<i, n>>
      BY <1>1, TallyMembers
    <3> QED BY <3>1, <3>2
  <2>2. PICK n \in 1..g[i] : p = <<i, n>>
    BY <2>1
  <2>3. i # 0 /\ g[i] = f[i - 1]
    BY <2>2
  <2>4. i - 1 \in 0..N - 2 /\ n \in 1..f[i - 1] /\ p = <<(i - 1) + 1, n>>
    BY <2>2, <2>3
  <2> QED BY <2>4
<1>3. ASSUME NEW p \in T PROVE h[p] \in S
  <2>1. PICK i \in 0..N - 2 : \E n \in 1..f[i] : p = <<i + 1, n>>
    BY <1>2
  <2>2. PICK n \in 1..f[i] : p = <<i + 1, n>>
    BY <2>1
  <2>3. h[p] = <<i, n>>
    BY <2>2
  <2> QED BY <2>2, <2>3
<1>4. ASSUME NEW p \in T, NEW q \in T, h[p] = h[q] PROVE p = q
  <2>1. PICK i \in 0..N - 2 : \E n \in 1..f[i] : p = <<i + 1, n>>
    BY <1>2
  <2>2. PICK n \in 1..f[i] : p = <<i + 1, n>>
    BY <2>1
  <2>3. PICK j \in 0..N - 2 : \E m \in 1..f[j] : q = <<j + 1, m>>
    BY <1>2
  <2>4. PICK m \in 1..f[j] : q = <<j + 1, m>>
    BY <2>3
  <2>5. h[p] = <<i, n>> /\ h[q] = <<j, m>>
    BY <2>2, <2>4
  <2>6. i = j /\ m = n
    BY <1>4, <2>5
  <2> QED BY <2>2, <2>4, <2>6
<1>5. h \in Injection(T, S)
  BY <1>3, <1>4 DEF Injection, IsInjective
<1> QED BY <1>5, FS_Injection

\* Adding the parts of a tally.
LEMMA TallyParts ==
  ASSUME NEW S, NEW A, NEW B, IsFiniteSet(S), A \subseteq S, B \subseteq S, S \subseteq A \cup B
  PROVE  /\ IsFiniteSet(A) /\ IsFiniteSet(B)
         /\ Cardinality(A) \in Nat /\ Cardinality(B) \in Nat /\ Cardinality(S) \in Nat
         /\ Cardinality(S) <= Cardinality(A) + Cardinality(B)
<1>1. IsFiniteSet(A) /\ IsFiniteSet(B)
  BY FS_Subset
<1>2. Cardinality(A) \in Nat /\ Cardinality(B) \in Nat /\ Cardinality(S) \in Nat /\ Cardinality(A \cap B) \in Nat
  BY <1>1, FS_CardinalityType, FS_Intersection
<1>3. S = A \cup B
  OBVIOUS
<1>4. Cardinality(A \cup B) = Cardinality(A) + Cardinality(B) - Cardinality(A \cap B)
  BY <1>1, FS_Union
<1> QED BY <1>1, <1>2, <1>3, <1>4

-----------------------------------------------------------------------------
(* The speech route *)

\* A handler is late only by the time the Edge client took of it.
Fits(h) ==
  /\ h \in Handler
  /\ h.code # 0 <=> h.stage = "answered"
  /\ h.stage \notin {"idle", "answered"} => h.age <= AbortAfter + h.edge /\ h.edge <= EdgeLimit

\* What an address was granted since its window was opened, and before.
Recent(c)  == {p \in Tally(passed[c]) : p[1] <= Window - usage[c].left}
Earlier(c) == {p \in Tally(passed[c]) : p[1] > Window - usage[c].left}

WindowFits(c) ==
  /\ usage[c] \in [left: 0..Window, count: 0..Quota + 1]
  /\ passed[c] \in [0..Window - 1 -> 0..Quota]
  /\ IsFiniteSet(Tally(passed[c]))
  /\ Cardinality(Recent(c)) <= usage[c].count /\ Cardinality(Recent(c)) <= Quota
  /\ Cardinality(Earlier(c)) <= Quota
  /\ passed[c][0] <= usage[c].count
  /\ usage[c].left = 0 => passed[c][0] = 0

SpeechInv ==
  /\ SpeechTypeOK
  /\ \A r \in Requests : Fits(request[r])
  /\ \A c \in Clients : WindowFits(c)

\* A settled fetch, audio or poll changes one handler only, and no window.
LEMMA SettleStep ==
  ASSUME SpeechInv, NEW r \in Requests, SettleRequest(r)
  PROVE  /\ UNCHANGED <<usage, passed>>
         /\ request' \in [Requests -> Handler]
         /\ \A q \in Requests : Fits(request'[q])
<1> USE SpeechAssumption
<1> DEFINE Done == /\ UNCHANGED <<usage, passed>>
                   /\ request' \in [Requests -> Handler]
                   /\ \A q \in Requests : Fits(request'[q])
<1> SUFFICES Done
  OBVIOUS
<1>1. request \in [Requests -> Handler] /\ \A q \in Requests : Fits(request[q])
  BY DEF SpeechInv, SpeechTypeOK
<1>2. ASSUME NEW h, Fits(h), Become(r, h) PROVE Done
  BY <1>1, <1>2 DEF Become, Fits
<1>3. ASSUME NEW code \in Code \ {0}, Answer(r, code) PROVE Done
  <2>1. Idle \in Handler
    BY DEF Idle, Handler, SpeechStage, Code
  <2>2. Ended(code) \in Handler /\ Ended(code).stage = "answered" /\ Ended(code).code = code
    BY <2>1 DEF Ended, Handler, SpeechStage
  <2>3. Fits(Ended(code))
    BY <2>2 DEF Fits
  <2> HIDE DEF Done
  <2> QED BY <1>2, <1>3, <2>3 DEF Answer
<1> DEFINE Stages == {"google", "edge", "post", "get", "alternative", "discover", "submit", "poll", "download"}
<1>4. ASSUME Serving(r), NEW h \in Handler, h.stage \in Stages, h.code = request[r].code,
             h.age = request[r].age, h.edge = request[r].edge, Become(r, h)
      PROVE  Done
  <2>1. request[r].stage # "answered" /\ request[r].stage # "idle"
    BY <1>4 DEF Serving
  <2>2. Fits(h)
    BY <1>1, <1>4, <2>1 DEF Fits
  <2> HIDE DEF Done
  <2> QED BY <1>2, <1>4, <2>2
<1>5. request[r].keys \in 0..2 /\ request[r].tries \in Nat /\ request[r].voices \in 0..MaxVoices
  BY <1>1 DEF Handler
<1> HIDE DEF Done
<1>6. ASSUME Serving(r), NEW s \in Stages, Goto(r, s) PROVE Done
  <2> DEFINE h == [request[r] EXCEPT !.stage = s]
  <2>1. h \in Handler /\ h.stage = s /\ h.code = request[r].code /\ h.age = request[r].age /\ h.edge = request[r].edge
    BY <1>1 DEF Handler, SpeechStage
  <2>2. Become(r, h)
    BY <1>6 DEF Goto
  <2> HIDE DEF h
  <2> QED BY <1>4, <1>6, <2>1, <2>2
<1>7. ASSUME Serving(r), NextKey(r) PROVE Done
  <2>1. CASE request[r].keys > 0
    <3> DEFINE h == [request[r] EXCEPT !.stage = "post", !.keys = request[r].keys - 1]
    <3>1. request[r].keys - 1 \in 0..2
      BY <1>5, <2>1
    <3>2. h \in Handler /\ h.stage = "post" /\ h.code = request[r].code /\ h.age = request[r].age /\ h.edge = request[r].edge
      BY <1>1, <3>1 DEF Handler, SpeechStage
    <3>3. Become(r, h)
      BY <1>7, <2>1 DEF NextKey
    <3> HIDE DEF h
    <3> QED BY <1>4, <1>7, <3>2, <3>3
  <2>2. CASE ~(request[r].keys > 0)
    BY <1>6, <1>7, <2>2 DEF NextKey
  <2> QED BY <2>1, <2>2
<1>8. ASSUME Serving(r), NEW s \in Stages, NEW t \in Nat, Become(r, [request[r] EXCEPT !.stage = s, !.tries = t])
      PROVE  Done
  <2> DEFINE h == [request[r] EXCEPT !.stage = s, !.tries = t]
  <2>1. h \in Handler /\ h.stage = s /\ h.code = request[r].code /\ h.age = request[r].age /\ h.edge = request[r].edge
    BY <1>1 DEF Handler, SpeechStage
  <2>2. Become(r, h)
    BY <1>8
  <2> HIDE DEF h
  <2> QED BY <1>4, <1>8, <2>1, <2>2
<1>9. ASSUME Serving(r), request[r].stage \in Stages, NEW t \in Nat, Become(r, [request[r] EXCEPT !.tries = t])
      PROVE  Done
  <2> DEFINE h == [request[r] EXCEPT !.tries = t]
  <2>1. h \in Handler /\ h.stage = request[r].stage /\ h.code = request[r].code
        /\ h.age = request[r].age /\ h.edge = request[r].edge
    BY <1>1 DEF Handler
  <2>2. Become(r, h)
    BY <1>9
  <2> HIDE DEF h
  <2> QED BY <1>4, <1>9, <2>1, <2>2
<1>10. ASSUME Serving(r), NEW v \in 0..MaxVoices, Submit(r, v) PROVE Done
  <2>1. CASE v = 0
    BY <1>3, <1>10, <2>1 DEF Submit, Code
  <2>2. CASE v # 0
    <3> DEFINE h == [request[r] EXCEPT !.stage = "submit", !.voices = v - 1]
    <3>1. v - 1 \in 0..MaxVoices
      BY <2>2
    <3>2. h \in Handler /\ h.stage = "submit" /\ h.code = request[r].code /\ h.age = request[r].age /\ h.edge = request[r].edge
      BY <1>1, <3>1 DEF Handler, SpeechStage
    <3>3. Become(r, h)
      BY <1>10, <2>2 DEF Submit
    <3> HIDE DEF h
    <3> QED BY <1>4, <1>10, <3>2, <3>3
  <2> QED BY <2>1, <2>2
<1>11. ASSUME Serving(r), GiveUpOnAbort(r) PROVE Done
  BY <1>3, <1>5, <1>10, <1>11 DEF GiveUpOnAbort, NextVoice, Code
<1>12. CASE Audio(r)
  BY <1>3, <1>12 DEF Audio, Code
<1>13. CASE Google(r)
  BY <1>3, <1>6, <1>13 DEF Google, At, Serving, Code
<1>14. CASE Edge(r)
  BY <1>3, <1>7, <1>14 DEF Edge, At, Serving, Code
<1>15. CASE Post(r)
  BY <1>6, <1>7, <1>15 DEF Post, At, Serving
<1>16. CASE Get(r)
  <2>1. Alternatives - 1 \in Nat
    OBVIOUS
  <2>2. Serving(r) /\ (Goto(r, "discover") \/ Alternate(r))
    BY <1>16 DEF Get, At, Serving
  <2> QED BY <1>6, <1>8, <2>1, <2>2 DEF Alternate
<1>17. CASE Alternative(r)
  <2>1. CASE Aborted(r) \/ request[r].tries = 0
    BY <1>7, <1>17, <2>1 DEF Alternative, At, Serving
  <2>2. CASE ~(Aborted(r) \/ request[r].tries = 0)
    <3>1. Serving(r) /\ request[r].stage \in Stages
      BY <1>17 DEF Alternative, At, Serving
    <3>2. request[r].tries - 1 \in Nat /\ Become(r, [request[r] EXCEPT !.tries = request[r].tries - 1])
      BY <1>5, <1>17, <2>2, <3>1 DEF Alternative
    <3> QED BY <1>9, <3>1, <3>2
  <2> QED BY <2>1, <2>2
<1>18. CASE Discover(r)
  BY <1>3, <1>10, <1>18 DEF Discover, At, Serving, Code
<1>19. CASE Submitted(r)
  BY <1>6, <1>8, <1>11, <1>19 DEF Submitted, At, Serving
<1>20. CASE Poll(r)
  <2>1. Serving(r) /\ request[r].stage \in Stages
    BY <1>20 DEF Poll, At, Serving
  <2>2. CASE GiveUpOnAbort(r) \/ Goto(r, "download")
    BY <1>6, <1>11, <2>1, <2>2
  <2>3. CASE request[r].tries > 1 /\ Become(r, [request[r] EXCEPT !.tries = @ - 1])
    <3>1. request[r].tries - 1 \in Nat /\ Become(r, [request[r] EXCEPT !.tries = request[r].tries - 1])
      BY <1>5, <2>1, <2>3
    <3> QED BY <1>9, <2>1, <3>1
  <2> QED BY <1>20, <2>2, <2>3 DEF Poll
<1>21. CASE Download(r)
  BY <1>11, <1>21 DEF Download, At, Serving
<1> QED BY <1>12, <1>13, <1>14, <1>15, <1>16, <1>17, <1>18, <1>19, <1>20, <1>21 DEF SettleRequest

\* A request that arrives is counted in its window, and granted while there is quota.
LEMMA ArriveStep ==
  ASSUME SpeechInv, NEW r \in Requests, NEW c \in Clients, Arrive(r, c)
  PROVE  SpeechInv'
<1> USE SpeechAssumption
<1>1. /\ usage \in [Clients -> [left: 0..Window, count: 0..Quota + 1]]
      /\ passed \in [Clients -> [0..Window - 1 -> 0..Quota]]
      /\ request \in [Requests -> Handler]
      /\ \A q \in Requests : Fits(request[q])
      /\ \A d \in Clients : WindowFits(d)
  BY DEF SpeechInv, SpeechTypeOK
<1> DEFINE u == Counted(c)
<1>2. /\ u \in [left: 0..Window, count: 0..Quota + 1]
      /\ usage[c].left = 0 => u.left = Window /\ u.count = 1
      /\ usage[c].left # 0 => u.left = usage[c].left /\ u.count >= usage[c].count
      /\ usage[c].left # 0 /\ u.count <= Quota => u.count = usage[c].count + 1
      /\ u.left > 0
  <2>1. CASE usage[c].left = 0
    BY <1>1, <2>1 DEF Counted
  <2>2. CASE usage[c].left # 0
    <3> DEFINE n == IF usage[c].count > Quota THEN usage[c].count ELSE usage[c].count + 1
    <3>1. usage[c] \in [left: 0..Window, count: 0..Quota + 1]
      BY <1>1
    <3>2. n \in 0..Quota + 1 /\ n >= usage[c].count /\ (n <= Quota => n = usage[c].count + 1)
      BY <3>1
    <3>3. u = [usage[c] EXCEPT !.count = n]
      BY <2>2 DEF Counted
    <3> HIDE DEF n
    <3> QED BY <2>2, <3>1, <3>2, <3>3
  <2> QED BY <2>1, <2>2
<1>3. usage' = [usage EXCEPT ![c] = u]
  BY DEF Arrive
<1> HIDE DEF u
<1>4. usage' \in [Clients -> [left: 0..Window, count: 0..Quota + 1]] /\ usage'[c] = u
      /\ \A d \in Clients \ {c} : usage'[d] = usage[d]
  BY <1>1, <1>2, <1>3
<1>5. \E h : Fits(h) /\ request' = [request EXCEPT ![r] = h]
  <2>1. Idle \in Handler
    BY DEF Idle, Handler, SpeechStage, Code
  <2>2. ASSUME NEW code \in {400, 413, 429} PROVE Fits(Ended(code))
    <3>1. code \in Code /\ code # 0
      BY DEF Code
    <3>2. Ended(code) \in Handler /\ Ended(code).stage = "answered" /\ Ended(code).code = code
      BY <2>1, <3>1 DEF Ended, Handler, SpeechStage
    <3> QED BY <3>1, <3>2 DEF Fits
  <2>3. ASSUME NEW s \in {"google", "edge"}, NEW k \in 0..2 PROVE Fits([Idle EXCEPT !.stage = s, !.keys = k])
    <3> DEFINE h == [Idle EXCEPT !.stage = s, !.keys = k]
    <3>1. h \in Handler /\ h.stage = s /\ h.code = 0 /\ h.age = 0 /\ h.edge = 0
      BY <2>1 DEF Idle, Handler, SpeechStage
    <3> HIDE DEF h
    <3>2. Fits(h)
      BY <3>1 DEF Fits
    <3> QED BY <3>2 DEF h
  <2>4. CASE u.count > Quota
    BY <2>2, <2>4 DEF Arrive, u
  <2>5. CASE ~(u.count > Quota)
    BY <2>2, <2>3, <2>5 DEF Arrive, u
  <2> QED BY <2>4, <2>5
<1>6. request' \in [Requests -> Handler] /\ \A q \in Requests : Fits(request[q])'
  BY <1>1, <1>5 DEF Fits
<1>7. CASE u.count > Quota
  <2>1. UNCHANGED passed
    BY <1>7 DEF Arrive, u
  <2>2. usage[c].left # 0
    BY <1>2, <1>7
  <2>3. Recent(c)' = Recent(c) /\ Earlier(c)' = Earlier(c)
    BY <1>2, <1>4, <2>1, <2>2 DEF Recent, Earlier
  <2>4. WindowFits(c) /\ usage[c].count \in Nat /\ u.count \in Nat /\ Cardinality(Recent(c)) \in Nat
    <3>1. WindowFits(c) /\ IsFiniteSet(Recent(c))
      BY <1>1, FS_Subset DEF WindowFits, Recent
    <3> QED BY <1>1, <1>2, <3>1, FS_CardinalityType
  <2>5. WindowFits(c)'
    BY <1>1, <1>2, <1>4, <2>1, <2>2, <2>3, <2>4 DEF WindowFits
  <2>6. ASSUME NEW d \in Clients \ {c} PROVE WindowFits(d)'
    BY <1>1, <1>4, <2>1 DEF WindowFits, Recent, Earlier
  <2> QED BY <1>1, <1>4, <1>6, <2>1, <2>5, <2>6 DEF SpeechInv, SpeechTypeOK, Fits
<1>8. CASE ~(u.count > Quota)
  <2> DEFINE f == passed[c]
  <2> DEFINE g == [f EXCEPT ![0] = @ + 1]
  <2>1. passed' = [passed EXCEPT ![c] = g]
    BY <1>8 DEF Arrive, u
  <2>2. WindowFits(c) /\ f \in [0..Window - 1 -> Nat] /\ f \in [0..Window - 1 -> 0..Quota]
    BY <1>1
  <2>3. /\ g \in [0..Window - 1 -> Nat]
        /\ Tally(g) = Tally(f) \cup {<<0, f[0] + 1>>}
        /\ <<0, f[0] + 1>> \notin Tally(f)
    BY <2>2, TallyAdds
  <2>4. u.count <= Quota /\ u.count \in Nat /\ f[0] + 1 <= u.count
    BY <1>1, <1>2, <1>8, <2>2 DEF WindowFits
  <2>5. g \in [0..Window - 1 -> 0..Quota] /\ g[0] = f[0] + 1
    BY <2>2, <2>4
  <2> HIDE DEF f, g
  <2>6. passed' \in [Clients -> [0..Window - 1 -> 0..Quota]] /\ passed'[c] = g
        /\ \A d \in Clients \ {c} : passed'[d] = passed[d]
    BY <1>1, <2>1, <2>5
  <2>7. IsFiniteSet(Tally(g))
    <3>1. IsFiniteSet(Tally(f))
      BY <2>2 DEF WindowFits, f
    <3> QED BY <2>3, <3>1, FS_AddElement
  <2>8. ASSUME usage[c].left = 0 PROVE WindowFits(c)'
    <3>1. \A p \in Tally(f) : p[1] \in 1..Window - 1
      <4> SUFFICES ASSUME NEW i \in 0..Window - 1, NEW n \in 1..f[i] PROVE i # 0
        BY <2>2, TallyMembers
      <4>1. f[0] = 0
        BY <2>2, <2>8 DEF WindowFits, f
      <4> QED BY <4>1
    <3>2. Recent(c)' = {<<0, f[0] + 1>>} /\ Earlier(c)' = Tally(f)
      BY <1>2, <1>4, <2>3, <2>6, <2>8, <3>1 DEF Recent, Earlier
    <3>3. Recent(c) = Tally(f)
      BY <1>1, <2>8, <3>1 DEF Recent, f
    <3>4. Cardinality(Recent(c)') = 1 /\ Cardinality(Earlier(c)') <= Quota
      BY <2>2, <3>2, <3>3, FS_Singleton DEF WindowFits
    <3> QED BY <1>2, <1>4, <2>4, <2>5, <2>6, <2>7, <2>8, <3>4 DEF WindowFits
  <2>9. ASSUME usage[c].left # 0 PROVE WindowFits(c)'
    <3>1. Recent(c)' = Recent(c) \cup {<<0, f[0] + 1>>} /\ Earlier(c)' = Earlier(c)
      BY <1>1, <1>2, <1>4, <2>3, <2>6, <2>9 DEF Recent, Earlier, f
    <3>2. IsFiniteSet(Recent(c)) /\ Cardinality(Recent(c)) \in Nat /\ <<0, f[0] + 1>> \notin Recent(c)
      BY <2>2, <2>3, FS_Subset, FS_CardinalityType DEF WindowFits, Recent, f
    <3>3. Cardinality(Recent(c)') = Cardinality(Recent(c)) + 1
      BY <3>1, <3>2, FS_AddElement
    <3>4. u.count = usage[c].count + 1 /\ usage[c].count \in Nat
      BY <1>1, <1>2, <2>4, <2>9
    <3>5. Cardinality(Recent(c)') <= u.count /\ Cardinality(Recent(c)') <= Quota
      BY <2>2, <2>4, <3>2, <3>3, <3>4 DEF WindowFits
    <3>6. Cardinality(Earlier(c)') <= Quota
      BY <2>2, <3>1 DEF WindowFits
    <3>7. u.left # 0 /\ u \in [left: 0..Window, count: 0..Quota + 1]
      BY <1>2
    <3> QED BY <1>4, <2>4, <2>5, <2>6, <2>7, <3>5, <3>6, <3>7 DEF WindowFits
  <2>10. WindowFits(c)'
    BY <2>8, <2>9
  <2>11. ASSUME NEW d \in Clients \ {c} PROVE WindowFits(d)'
    BY <1>1, <1>4, <2>6 DEF WindowFits, Recent, Earlier
  <2> QED BY <1>4, <1>6, <2>6, <2>10, <2>11 DEF SpeechInv, SpeechTypeOK, Fits
<1> QED BY <1>7, <1>8

\* Time makes windows and what was granted in them older, and waits for fetches.
LEMMA TickStep == SpeechInv /\ Tick => SpeechInv'
<1> SUFFICES ASSUME SpeechInv, Tick PROVE SpeechInv'
  OBVIOUS
<1> USE SpeechAssumption
<1>1. /\ usage \in [Clients -> [left: 0..Window, count: 0..Quota + 1]]
      /\ passed \in [Clients -> [0..Window - 1 -> 0..Quota]]
      /\ request \in [Requests -> Handler]
      /\ \A q \in Requests : Fits(request[q])
      /\ \A c \in Clients : WindowFits(c)
  BY DEF SpeechInv, SpeechTypeOK
<1>2. ASSUME NEW r \in Requests PROVE Fits(Older(r))
  <2>1. Fits(request[r]) /\ request[r] \in Handler
    BY <1>1
  <2>2. CASE ~Serving(r)
    BY <2>1, <2>2 DEF Older
  <2>3. CASE At(r, "edge")
    <3> DEFINE h == [request[r] EXCEPT !.age = request[r].age + 1, !.edge = request[r].edge + 1]
    <3>1. h \in Handler /\ h.stage = "edge" /\ h.code = request[r].code
          /\ h.age = request[r].age + 1 /\ h.edge = request[r].edge + 1
          /\ request[r].age \in Nat /\ request[r].edge \in Nat
      <4>1. request[r].age + 1 \in Nat /\ request[r].edge + 1 \in Nat
            /\ request[r].age \in Nat /\ request[r].edge \in Nat
        BY <2>1 DEF Handler
      <4> QED BY <2>1, <2>3, <4>1 DEF Handler, At
    <3>2. request[r].edge < EdgeLimit
      BY <2>3 DEF Tick, MayWait
    <3>3. Older(r) = h
      BY <2>3 DEF Older, Serving, At
    <3> HIDE DEF h
    <3> QED BY <2>1, <2>3, <3>1, <3>2, <3>3 DEF Fits, At
  <2>4. CASE Serving(r) /\ ~At(r, "edge")
    <3> DEFINE h == [request[r] EXCEPT !.age = request[r].age + 1, !.edge = request[r].edge]
    <3>1. h \in Handler /\ h.stage = request[r].stage /\ h.code = request[r].code
          /\ h.age = request[r].age + 1 /\ h.edge = request[r].edge
          /\ request[r].age \in Nat /\ request[r].edge \in Nat
      <4>1. request[r].age + 1 \in Nat /\ request[r].age \in Nat /\ request[r].edge \in Nat
        BY <2>1 DEF Handler
      <4> QED BY <2>1, <4>1 DEF Handler
    <3>2. request[r].age < AbortAfter
      BY <2>1, <2>4, <3>1 DEF Tick, MayWait, Bound, Aborted, At, Serving, Handler
    <3>3. Older(r) = h
      BY <2>4 DEF Older
    <3> HIDE DEF h
    <3> QED BY <2>1, <3>1, <3>2, <3>3 DEF Fits
  <2> QED BY <2>2, <2>3, <2>4
<1>3. request' \in [Requests -> Handler] /\ \A r \in Requests : Fits(request[r])'
  <2>1. request' = [r \in Requests |-> Older(r)]
    BY DEF Tick
  <2>2. \A r \in Requests : Older(r) \in Handler
    BY <1>2 DEF Fits
  <2> QED BY <1>2, <2>1, <2>2 DEF Fits
<1>4. ASSUME NEW c \in Clients PROVE WindowFits(c)'
  <2> DEFINE f == passed[c]
             g == [i \in 0..Window - 1 |-> IF i = 0 THEN 0 ELSE f[i - 1]]
             left == IF usage[c].left > 0 THEN usage[c].left - 1 ELSE 0
  <2>1. WindowFits(c) /\ f \in [0..Window - 1 -> Nat] /\ f \in [0..Window - 1 -> 0..Quota]
    BY <1>1
  <2>2. usage'[c] = [usage[c] EXCEPT !.left = left] /\ passed'[c] = g
    BY DEF Tick
  <2>3. usage[c] \in [left: 0..Window, count: 0..Quota + 1] /\ left \in 0..Window
        /\ left <= usage[c].left /\ usage[c].left <= left + 1
    BY <1>1
  <2>4. usage'[c] \in [left: 0..Window, count: 0..Quota + 1] /\ usage'[c].left = left /\ usage'[c].count = usage[c].count
    BY <2>2, <2>3
  <2>5. g \in [0..Window - 1 -> 0..Quota] /\ g[0] = 0
    BY <2>1
  <2>6. IsFiniteSet(Tally(f)) /\ Recent(c) \in SUBSET Tally(f) /\ Earlier(c) \in SUBSET Tally(f)
    BY <2>1 DEF WindowFits, Recent, Earlier
  <2>7. IsFiniteSet(Recent(c)) /\ IsFiniteSet(Earlier(c))
    BY <2>6, FS_Subset
  <2> HIDE DEF f, left
  <2>8. \A i \in 0..Window - 2 : \A n \in 1..f[i] : <<i, n>> \in Tally(f)
    <3> SUFFICES ASSUME NEW i \in 0..Window - 2, NEW n \in 1..f[i] PROVE <<i, n>> \in Tally(f)
      OBVIOUS
    <3>1. i \in 0..Window - 1
      OBVIOUS
    <3> QED BY <2>1, <3>1, TallyMembers
  <2>9. IsFiniteSet(Tally(g))
    <3>1. Tally(g) \in SUBSET Tally(g)
      OBVIOUS
    <3> QED BY <2>1, <2>6, <2>8, <3>1, TallyShrinks
  <2>10. IsFiniteSet(Recent(c)') /\ Cardinality(Recent(c)') <= Cardinality(Recent(c))
    <3>1. Recent(c)' \in SUBSET Tally(g)
      BY <2>2 DEF Recent
    <3>2. ASSUME NEW i \in 0..Window - 2, NEW n \in 1..f[i], <<i + 1, n>> \in Recent(c)'
          PROVE  <<i, n>> \in Recent(c)
      <4>1. i + 1 <= Window - left
        BY <2>4, <3>2 DEF Recent
      <4>2. i <= Window - usage[c].left
        BY <2>3, <4>1
      <4>3. <<i, n>> \in Tally(f) /\ <<i, n>>[1] = i
        BY <2>8
      <4> QED BY <4>2, <4>3 DEF Recent, f
    <3> QED BY <2>1, <2>7, <3>1, <3>2, TallyShrinks
  <2>11. IsFiniteSet(Earlier(c)') /\ Cardinality(Earlier(c)') <= Cardinality(Earlier(c))
    <3>1. Earlier(c)' \in SUBSET Tally(g)
      BY <2>2 DEF Earlier
    <3>2. ASSUME NEW i \in 0..Window - 2, NEW n \in 1..f[i], <<i + 1, n>> \in Earlier(c)'
          PROVE  <<i, n>> \in Earlier(c)
      <4>1. i + 1 > Window - left /\ left # 0
        BY <2>3, <2>4, <3>2 DEF Earlier
      <4>2. i > Window - usage[c].left
        BY <2>3, <4>1 DEF left
      <4>3. <<i, n>> \in Tally(f) /\ <<i, n>>[1] = i
        BY <2>8
      <4> QED BY <4>2, <4>3 DEF Earlier, f
    <3> QED BY <2>1, <2>7, <3>1, <3>2, TallyShrinks
  <2>12. Cardinality(Recent(c)) \in Nat /\ Cardinality(Earlier(c)) \in Nat
         /\ Cardinality(Recent(c)') \in Nat /\ Cardinality(Earlier(c)') \in Nat
    BY <2>7, <2>10, <2>11, FS_CardinalityType
  <2>13. /\ Cardinality(Recent(c)') <= usage[c].count /\ Cardinality(Recent(c)') <= Quota
         /\ Cardinality(Earlier(c)') <= Quota
    <3>1. /\ Cardinality(Recent(c)) <= usage[c].count /\ Cardinality(Recent(c)) <= Quota
          /\ Cardinality(Earlier(c)) <= Quota
      BY <2>1 DEF WindowFits
    <3>2. usage[c].count \in Nat
      BY <2>3
    <3> HIDE DEF g
    <3> QED BY <2>10, <2>11, <2>12, <3>1, <3>2
  <2> HIDE DEF g
  <2> QED BY <2>2, <2>3, <2>4, <2>5, <2>9, <2>13 DEF WindowFits
<1>5. usage' \in [Clients -> [left: 0..Window, count: 0..Quota + 1]]
  <2>1. \A c \in Clients : usage'[c] \in [left: 0..Window, count: 0..Quota + 1]
    BY <1>4 DEF WindowFits
  <2> QED BY <2>1 DEF Tick
<1>6. passed' \in [Clients -> [0..Window - 1 -> 0..Quota]]
  <2>1. \A c \in Clients : passed'[c] \in [0..Window - 1 -> 0..Quota]
    BY <1>4 DEF WindowFits
  <2> QED BY <2>1 DEF Tick
<1> QED BY <1>3, <1>4, <1>5, <1>6 DEF SpeechInv, SpeechTypeOK, Fits

\* Handlers, windows and what they granted are well formed in every state.
THEOREM SpeechInvariant == SpeechSpec => []SpeechInv
<1> USE SpeechAssumption
<1>1. SpeechInit => SpeechInv
  <2> SUFFICES ASSUME SpeechInit PROVE SpeechInv
    OBVIOUS
  <2>1. Idle \in Handler /\ Idle.stage = "idle" /\ Idle.code = 0
    BY DEF Idle, Handler, SpeechStage, Code
  <2>2. Fits(Idle)
    BY <2>1 DEF Fits
  <2>3. ASSUME NEW c \in Clients PROVE WindowFits(c)
    <3>1. passed[c] \in [0..Window - 1 -> Nat] /\ passed[c] \in [0..Window - 1 -> 0..Quota]
          /\ \A i \in 0..Window - 1 : passed[c][i] = 0
      BY DEF SpeechInit
    <3>2. Tally(passed[c]) = {}
      <4>1. \A i \in 0..Window - 1 : 1..passed[c][i] = {}
        BY <3>1
      <4> QED BY <3>1, <4>1, TallyMembers
    <3>3. Recent(c) = {} /\ Earlier(c) = {}
      BY <3>2 DEF Recent, Earlier
    <3>4. usage[c] = [left |-> 0, count |-> 0]
      BY DEF SpeechInit
    <3> QED BY <3>1, <3>2, <3>3, <3>4, FS_EmptySet DEF WindowFits
  <2> QED BY <2>1, <2>2, <2>3 DEF SpeechInit, SpeechInv, SpeechTypeOK
<1>2. SpeechInv /\ [SpeechNext]_speechVars => SpeechInv'
  <2> SUFFICES ASSUME SpeechInv, [SpeechNext]_speechVars PROVE SpeechInv'
    OBVIOUS
  <2>1. ASSUME NEW r \in Requests, SettleRequest(r) PROVE SpeechInv'
    <3>1. /\ UNCHANGED <<usage, passed>>
          /\ request' \in [Requests -> Handler]
          /\ \A q \in Requests : Fits(request'[q])
      BY <2>1, SettleStep
    <3>2. \A c \in Clients : WindowFits(c)'
      BY <3>1 DEF SpeechInv, WindowFits, Recent, Earlier
    <3> QED BY <3>1, <3>2 DEF SpeechInv, SpeechTypeOK, Fits
  <2>2. CASE UNCHANGED speechVars
    BY <2>2 DEF speechVars, SpeechInv, SpeechTypeOK, Fits, WindowFits, Recent, Earlier
  <2> QED BY <2>1, <2>2, ArriveStep, TickStep DEF SpeechNext
<1> QED BY <1>1, <1>2, PTL DEF SpeechSpec

\* BurstBound, of the limiter of the speech route.
THEOREM BurstsBounded == SpeechSpec => []BurstBound
<1>1. SpeechInv => BurstBound
  <2> SUFFICES ASSUME SpeechInv, NEW c \in Clients PROVE Sent(c) <= 2 * Quota
    BY DEF BurstBound
  <2>1. WindowFits(c) /\ usage[c].left \in 0..Window
    BY DEF SpeechInv, WindowFits
  <2>2. \A p \in Tally(passed[c]) : p[1] \in 0..Window - 1
    <3>1. passed[c] \in [0..Window - 1 -> Nat]
      BY <2>1 DEF WindowFits
    <3> QED BY <3>1, SpeechAssumption, TallyMembers
  <2>3. Tally(passed[c]) \subseteq Recent(c) \cup Earlier(c)
    BY <2>1, <2>2, SpeechAssumption DEF Recent, Earlier
  <2>4. Recent(c) \subseteq Tally(passed[c]) /\ Earlier(c) \subseteq Tally(passed[c])
    BY DEF Recent, Earlier
  <2>5. Cardinality(Tally(passed[c])) <= Cardinality(Recent(c)) + Cardinality(Earlier(c))
        /\ Cardinality(Tally(passed[c])) \in Nat /\ Cardinality(Recent(c)) \in Nat /\ Cardinality(Earlier(c)) \in Nat
    BY <2>1, <2>3, <2>4, TallyParts DEF WindowFits
  <2> QED BY <2>1, <2>5, SpeechAssumption DEF WindowFits, Sent, Total
<1> QED BY <1>1, SpeechInvariant, PTL

\* AnsweredInTime, of the requests the speech route serves.
THEOREM SpeechAnsweredInTime == SpeechSpec => []AnsweredInTime
<1>1. SpeechInv => AnsweredInTime
  BY SpeechAssumption DEF SpeechInv, Fits, AnsweredInTime, Serving, Handler
<1> QED BY <1>1, SpeechInvariant, PTL

-----------------------------------------------------------------------------
(* The login limiter *)

\* Wrong passwords of the current record, and those noted before it.
InRecord     == {p \in Tally(guesses) : p[1] <= BlockTicks - failed.left}
BeforeRecord == {p \in Tally(guesses) : p[1] > BlockTicks - failed.left}

MostGuesses == (FailLimit - 2) + FailLimit + (Cardinality(Logins) - 1)

\* A record that has expired leaves all but two of the limit in sight: its first
\* is too old, its last was never noted.  One that counts has its first as far
\* back as it was opened.  A block has nothing newer than its last refresh, and
\* every login that is pending may still add one to it.
RecordFits ==
  CASE failed.left = 0 -> Cardinality(Tally(guesses)) <= FailLimit - 2 /\ guesses[0] = 0
    [] failed.left > 0 /\ failed.count < FailLimit ->
         /\ failed.count > 0
         /\ Cardinality(InRecord) <= failed.count
         /\ Cardinality(BeforeRecord) <= FailLimit - 2
         /\ guesses[BlockTicks - failed.left] > 0
    [] OTHER ->
         /\ Cardinality(Tally(guesses)) + Cardinality(pending) <= MostGuesses
         /\ \A i \in 0..BlockTicks - 1 : i < BlockTicks - failed.left => guesses[i] = 0

LockoutInv == LockoutTypeOK /\ IsFiniteSet(Tally(guesses)) /\ RecordFits

\* What the sizes of the sets in RecordFits are made of.
LEMMA LockoutSizes ==
  ASSUME LockoutInv
  PROVE  /\ IsFiniteSet(InRecord) /\ Cardinality(InRecord) \in Nat
         /\ IsFiniteSet(BeforeRecord) /\ Cardinality(BeforeRecord) \in Nat
         /\ Cardinality(Tally(guesses)) \in Nat
         /\ Cardinality(Tally(guesses)) <= Cardinality(InRecord) + Cardinality(BeforeRecord)
         /\ IsFiniteSet(pending) /\ Cardinality(pending) \in Nat
         /\ Cardinality(pending) <= Cardinality(Logins) /\ Cardinality(Logins) \in Nat
<1> USE LockoutAssumption
<1>1. failed.left \in 0..BlockTicks /\ guesses \in [0..BlockTicks - 1 -> Nat] /\ pending \in SUBSET Logins
  BY DEF LockoutInv, LockoutTypeOK
<1>2. \A p \in Tally(guesses) : p[1] \in 0..BlockTicks - 1
  BY <1>1, TallyMembers
<1>3. Tally(guesses) \subseteq InRecord \cup BeforeRecord
  BY <1>1, <1>2 DEF InRecord, BeforeRecord
<1>4. InRecord \subseteq Tally(guesses) /\ BeforeRecord \subseteq Tally(guesses) /\ IsFiniteSet(Tally(guesses))
  BY DEF InRecord, BeforeRecord, LockoutInv
<1>5. IsFiniteSet(pending) /\ Cardinality(pending) <= Cardinality(Logins)
  BY <1>1, FS_Subset
<1>6. Cardinality(pending) \in Nat /\ Cardinality(Logins) \in Nat
  BY <1>5, FS_CardinalityType
<1> QED BY <1>3, <1>4, <1>5, <1>6, TallyParts

\* No wrong password is remembered, nor any failure.
LEMMA LockoutForgets ==
  ASSUME failed' = NoFailures, guesses' = [i \in 0..BlockTicks - 1 |-> 0], pending' \subseteq Logins
  PROVE  LockoutInv'
<1> USE LockoutAssumption
<1>1. guesses' \in [0..BlockTicks - 1 -> Nat] /\ \A i \in 0..BlockTicks - 1 : guesses'[i] = 0
  OBVIOUS
<1>2. Tally(guesses)' = {}
  <2>1. \A i \in 0..BlockTicks - 1 : 1..guesses'[i] = {}
    BY <1>1
  <2>2. \A p : p \in Tally(guesses') <=> \E i \in 0..BlockTicks - 1 : \E n \in 1..guesses'[i] : p = <<i, n>>
    BY <1>1, TallyMembers
  <2> QED BY <2>1, <2>2
<1>3. IsFiniteSet(Tally(guesses)') /\ Cardinality(Tally(guesses)') = 0
  BY <1>2, FS_EmptySet
<1>4. failed' \in [left: 0..BlockTicks, count: 0..FailLimit] /\ failed'.left = 0
  BY DEF NoFailures
<1>5. RecordFits'
  BY <1>1, <1>3, <1>4 DEF RecordFits
<1> QED BY <1>1, <1>3, <1>4, <1>5 DEF LockoutInv, LockoutTypeOK

\* One more wrong password.
LEMMA WrongPasswordStep ==
  ASSUME LockoutInv, NEW l \in Logins, WrongPassword(l)
  PROVE  LockoutInv'
<1> USE LockoutAssumption
<1> DEFINE B == BlockTicks
           x == <<0, guesses[0] + 1>>
<1>1. /\ failed \in [left: 0..B, count: 0..FailLimit] /\ guesses \in [0..B - 1 -> Nat]
      /\ pending \subseteq Logins /\ IsFiniteSet(Tally(guesses)) /\ RecordFits
  BY DEF LockoutInv, LockoutTypeOK
<1>2. /\ guesses' = [guesses EXCEPT ![0] = @ + 1] /\ pending' = pending \ {l} /\ l \in pending
      /\ failed' = Noted
  BY DEF WrongPassword
<1>3. /\ guesses' \in [0..B - 1 -> Nat]
      /\ Tally(guesses') = Tally(guesses) \cup {x} /\ x \notin Tally(guesses)
  BY <1>1, <1>2, TallyAdds
<1>4. guesses'[0] = guesses[0] + 1 /\ \A i \in 1..B - 1 : guesses'[i] = guesses[i]
  BY <1>1, <1>2
<1>5. /\ IsFiniteSet(Tally(guesses'))
      /\ Cardinality(Tally(guesses')) = Cardinality(Tally(guesses)) + 1
  <2> DEFINE S == Tally(guesses)
             T == Tally(guesses')
  <2>1. IsFiniteSet(S) /\ T = S \cup {x} /\ x \notin S
    BY <1>1, <1>3
  <2> HIDE DEF S, T, x
  <2>2. IsFiniteSet(T) /\ Cardinality(T) = Cardinality(S) + 1
    BY <2>1, FS_AddElement
  <2> QED BY <2>2 DEF S, T
<1>6. /\ Cardinality(pending') = Cardinality(pending) - 1
      /\ Cardinality(pending') \in Nat /\ Cardinality(pending) <= Cardinality(Logins)
  BY <1>2, LockoutSizes, FS_RemoveElement, FS_CardinalityType
<1> DEFINE Fitting == failed' \in [left: 0..B, count: 0..FailLimit] /\ RecordFits'
<1>7. CASE failed.left = 0
  <2>1. failed' = [left |-> B, count |-> 1]
    BY <1>2, <1>7 DEF Noted, Forgotten
  <2>2. guesses[0] = 0 /\ Cardinality(Tally(guesses)) <= FailLimit - 2
    BY <1>1, <1>7 DEF RecordFits
  <2>3. \A p \in Tally(guesses) : p[1] \in 1..B - 1
    <3> SUFFICES ASSUME NEW i \in 0..B - 1, NEW n \in 1..guesses[i] PROVE i # 0
      BY <1>1, TallyMembers
    <3> QED BY <2>2
  <2>4. InRecord' = {x} /\ BeforeRecord' = Tally(guesses)
    BY <1>3, <2>1, <2>3 DEF InRecord, BeforeRecord
  <2>5. Cardinality(InRecord') = 1
    BY <2>4, FS_Singleton
  <2>6. guesses'[B - failed'.left] > 0
    BY <1>1, <1>4, <2>1
  <2>7. RecordFits'
    BY <2>1, <2>2, <2>4, <2>5, <2>6 DEF RecordFits
  <2> QED BY <1>1, <1>2, <1>3, <1>5, <2>1, <2>7 DEF LockoutInv, LockoutTypeOK
<1>8. CASE failed.left > 0 /\ failed.count + 1 < FailLimit
  <2>1. failed' = [failed EXCEPT !.count = failed.count + 1]
    BY <1>2, <1>8 DEF Noted, Forgotten
  <2>2. failed' \in [left: 0..B, count: 0..FailLimit] /\ failed'.left = failed.left /\ failed'.count = failed.count + 1
    BY <1>1, <1>8, <2>1
  <2>3. /\ Cardinality(InRecord) <= failed.count /\ Cardinality(BeforeRecord) <= FailLimit - 2
        /\ guesses[B - failed.left] > 0
    BY <1>1, <1>8 DEF RecordFits
  <2>4. InRecord' = InRecord \cup {x} /\ BeforeRecord' = BeforeRecord
    BY <1>1, <1>3, <2>2 DEF InRecord, BeforeRecord
  <2>5. x \notin InRecord
    BY <1>3 DEF InRecord
  <2>6. Cardinality(InRecord') = Cardinality(InRecord) + 1
    BY <2>4, <2>5, LockoutSizes, FS_AddElement
  <2>7. guesses'[B - failed'.left] > 0
    BY <1>1, <1>4, <1>8, <2>2, <2>3
  <2>8. Cardinality(InRecord') <= failed'.count
    BY <1>1, <2>2, <2>3, <2>6, LockoutSizes
  <2>9. RecordFits'
    BY <1>1, <1>8, <2>2, <2>3, <2>4, <2>7, <2>8 DEF RecordFits
  <2> QED BY <1>1, <1>2, <1>3, <1>5, <2>2, <2>9 DEF LockoutInv, LockoutTypeOK
<1>9. CASE failed.left > 0 /\ ~(failed.count + 1 < FailLimit)
  <2>1. failed' = [left |-> B, count |-> FailLimit]
    BY <1>2, <1>9 DEF Noted, Forgotten
  <2>2. Cardinality(Tally(guesses')) + Cardinality(pending') <= MostGuesses
    <3>1. CASE failed.count < FailLimit
      <4>1. Cardinality(InRecord) <= failed.count /\ Cardinality(BeforeRecord) <= FailLimit - 2
        BY <1>1, <1>9, <3>1 DEF RecordFits
      <4>2. failed.count \in Nat
        BY <1>1
      <4> QED BY <1>5, <1>6, <3>1, <4>1, <4>2, LockoutSizes DEF MostGuesses
    <3>2. CASE ~(failed.count < FailLimit)
      <4>1. Cardinality(Tally(guesses)) + Cardinality(pending) <= MostGuesses
        BY <1>1, <1>9, <3>2 DEF RecordFits
      <4> QED BY <1>5, <1>6, <4>1, LockoutSizes DEF MostGuesses
    <3> QED BY <3>1, <3>2
  <2>3. MostGuesses' = MostGuesses
    BY DEF MostGuesses
  <2>4. RecordFits'
    BY <2>1, <2>2, <2>3 DEF RecordFits
  <2> QED BY <1>1, <1>2, <1>3, <1>5, <2>1, <2>4 DEF LockoutInv, LockoutTypeOK
<1>10. failed.left \in Nat
  BY <1>1
<1> QED BY <1>7, <1>8, <1>9, <1>10

\* What was noted becomes older, and is forgotten with its record.
LEMMA LockoutTickStep == LockoutInv /\ LockoutTick => LockoutInv'
<1> SUFFICES ASSUME LockoutInv, LockoutTick PROVE LockoutInv'
  OBVIOUS
<1> USE LockoutAssumption
<1> DEFINE B == BlockTicks
           g == [i \in 0..B - 1 |-> IF i = 0 THEN 0 ELSE guesses[i - 1]]
<1>1. /\ failed \in [left: 0..B, count: 0..FailLimit] /\ guesses \in [0..B - 1 -> Nat]
      /\ pending \subseteq Logins /\ IsFiniteSet(Tally(guesses)) /\ RecordFits
  BY DEF LockoutInv, LockoutTypeOK
<1>2. guesses' = g /\ UNCHANGED pending /\ failed' = [failed EXCEPT !.left = IF @ > 0 THEN @ - 1 ELSE 0]
  BY DEF LockoutTick
<1>3. /\ failed' \in [left: 0..B, count: 0..FailLimit] /\ failed'.count = failed.count
      /\ failed'.left = IF failed.left > 0 THEN failed.left - 1 ELSE 0
  BY <1>1, <1>2
<1>4. g \in [0..B - 1 -> Nat] /\ g[0] = 0 /\ \A i \in 1..B - 1 : g[i] = guesses[i - 1]
  BY <1>1
<1>5. \A i \in 0..B - 2 : \A n \in 1..guesses[i] : <<i, n>> \in Tally(guesses)
  <2> SUFFICES ASSUME NEW i \in 0..B - 2, NEW n \in 1..guesses[i] PROVE <<i, n>> \in Tally(guesses)
    OBVIOUS
  <2>1. i \in 0..B - 1
    OBVIOUS
  <2> QED BY <1>1, <2>1, TallyMembers
<1>6. IsFiniteSet(Tally(g)) /\ Cardinality(Tally(g)) <= Cardinality(Tally(guesses))
  <2>1. Tally(g) \in SUBSET Tally(g)
    OBVIOUS
  <2> QED BY <1>1, <1>5, <2>1, TallyShrinks
<1>7. Cardinality(Tally(g)) \in Nat
  BY <1>6, FS_CardinalityType
<1>8. CASE failed.left = 0
  <2>1. RecordFits'
    BY <1>1, <1>2, <1>3, <1>4, <1>6, <1>7, <1>8, LockoutSizes DEF RecordFits
  <2> QED BY <1>1, <1>2, <1>3, <1>4, <1>6, <2>1 DEF LockoutInv, LockoutTypeOK
<1>9. CASE failed.left = 1 /\ failed.count < FailLimit
  <2>1. Cardinality(InRecord) <= failed.count /\ guesses[B - 1] > 0
    BY <1>1, <1>9 DEF RecordFits
  <2> DEFINE S == InRecord \ {<<B - 1, 1>>}
  <2>2. <<B - 1, 1>> \in InRecord
    <3>1. B - 1 \in 0..B - 1 /\ 1 \in 1..guesses[B - 1]
      BY <1>1, <2>1
    <3>2. <<B - 1, 1>> \in Tally(guesses)
      BY <1>1, <3>1, TallyMembers
    <3> QED BY <1>9, <3>2 DEF InRecord
  <2>3. IsFiniteSet(S) /\ Cardinality(S) = Cardinality(InRecord) - 1
    BY <2>2, LockoutSizes, FS_RemoveElement
  <2>4. \A i \in 0..B - 2 : \A n \in 1..guesses[i] : <<i, n>> \in S
    <3> SUFFICES ASSUME NEW i \in 0..B - 2, NEW n \in 1..guesses[i] PROVE <<i, n>> \in S
      OBVIOUS
    <3>1. <<i, n>> \in Tally(guesses) /\ <<i, n>>[1] = i /\ i <= B - 1 /\ i # B - 1
      BY <1>5
    <3> QED BY <1>9, <3>1 DEF InRecord
  <2>5. Cardinality(Tally(g)) <= Cardinality(S)
    <3>1. Tally(g) \in SUBSET Tally(g)
      OBVIOUS
    <3> HIDE DEF S
    <3> QED BY <1>1, <2>3, <2>4, <3>1, TallyShrinks
  <2>6. Cardinality(Tally(g)) <= FailLimit - 2
    BY <1>1, <1>7, <1>9, <2>1, <2>3, <2>5, LockoutSizes
  <2>7. RecordFits'
    BY <1>2, <1>3, <1>4, <1>9, <2>6 DEF RecordFits
  <2> QED BY <1>1, <1>2, <1>3, <1>4, <1>6, <2>7 DEF LockoutInv, LockoutTypeOK
<1>10. CASE failed.left > 1 /\ failed.count < FailLimit
  <2>1. /\ failed.count > 0 /\ Cardinality(InRecord) <= failed.count
        /\ Cardinality(BeforeRecord) <= FailLimit - 2 /\ guesses[B - failed.left] > 0
    BY <1>1, <1>10 DEF RecordFits
  <2>2. IsFiniteSet(InRecord') /\ Cardinality(InRecord') <= Cardinality(InRecord)
    <3>1. InRecord' \in SUBSET Tally(g)
      BY <1>2 DEF InRecord
    <3>2. ASSUME NEW i \in 0..B - 2, NEW n \in 1..guesses[i], <<i + 1, n>> \in InRecord' PROVE <<i, n>> \in InRecord
      <4>1. i + 1 <= B - failed'.left
        BY <3>2 DEF InRecord
      <4>2. i <= B - failed.left
        BY <1>1, <1>3, <1>10, <4>1
      <4> QED BY <1>5, <4>2 DEF InRecord
    <3> QED BY <1>1, <3>1, <3>2, LockoutSizes, TallyShrinks
  <2>3. IsFiniteSet(BeforeRecord') /\ Cardinality(BeforeRecord') <= Cardinality(BeforeRecord)
    <3>1. BeforeRecord' \in SUBSET Tally(g)
      BY <1>2 DEF BeforeRecord
    <3>2. ASSUME NEW i \in 0..B - 2, NEW n \in 1..guesses[i], <<i + 1, n>> \in BeforeRecord' PROVE <<i, n>> \in BeforeRecord
      <4>1. i + 1 > B - failed'.left
        BY <3>2 DEF BeforeRecord
      <4>2. i > B - failed.left
        BY <1>1, <1>3, <1>10, <4>1
      <4> QED BY <1>5, <4>2 DEF BeforeRecord
    <3> QED BY <1>1, <3>1, <3>2, LockoutSizes, TallyShrinks
  <2>4. g[B - failed'.left] > 0
    <3>1. B - failed'.left \in 1..B - 1 /\ (B - failed'.left) - 1 = B - failed.left
      <4>1. failed.left \in 0..B /\ failed'.left = failed.left - 1
        BY <1>1, <1>3, <1>10
      <4> QED BY <4>1, <1>10
    <3>2. g[B - failed'.left] = guesses[(B - failed'.left) - 1]
      BY <1>4, <3>1
    <3> QED BY <2>1, <3>1, <3>2
  <2>5. Cardinality(InRecord') \in Nat /\ Cardinality(BeforeRecord') \in Nat
    BY <2>2, <2>3, FS_CardinalityType
  <2>6. Cardinality(InRecord') <= failed'.count /\ Cardinality(BeforeRecord') <= FailLimit - 2
    BY <1>1, <1>3, <2>1, <2>2, <2>3, <2>5, LockoutSizes
  <2>7. failed'.left > 0 /\ failed'.count < FailLimit /\ failed'.count > 0
    BY <1>1, <1>3, <1>10, <2>1
  <2>8. RecordFits'
    BY <1>2, <2>4, <2>6, <2>7 DEF RecordFits
  <2> QED BY <1>1, <1>2, <1>3, <1>4, <1>6, <2>8 DEF LockoutInv, LockoutTypeOK
<1>11. CASE failed.left > 0 /\ ~(failed.count < FailLimit)
  <2>1. /\ Cardinality(Tally(guesses)) + Cardinality(pending) <= MostGuesses
        /\ \A i \in 0..B - 1 : i < B - failed.left => guesses[i] = 0
    BY <1>1, <1>11 DEF RecordFits
  <2>2. \A i \in 0..B - 1 : i < B - failed'.left => g[i] = 0
    BY <1>1, <1>3, <1>4, <1>11, <2>1
  <2>3. CASE failed'.left = 0
    <3>1. \A i \in 0..B - 1 : g[i] = 0
      BY <2>2, <2>3
    <3>2. Tally(g) = {}
      <4>1. \A i \in 0..B - 1 : 1..g[i] = {}
        BY <3>1
      <4>2. \A p : p \in Tally(g) <=> \E i \in 0..B - 1 : \E n \in 1..g[i] : p = <<i, n>>
        BY <1>4, TallyMembers
      <4> QED BY <4>1, <4>2
    <3>3. Cardinality(Tally(g)) = 0
      BY <3>2, FS_EmptySet
    <3>4. RecordFits'
      BY <1>2, <1>4, <2>3, <3>3 DEF RecordFits
    <3> QED BY <1>1, <1>2, <1>3, <1>4, <1>6, <3>4 DEF LockoutInv, LockoutTypeOK
  <2>4. CASE failed'.left # 0
    <3>1. Cardinality(Tally(g)) + Cardinality(pending) <= MostGuesses
      BY <1>6, <1>7, <2>1, LockoutSizes DEF MostGuesses
    <3>2. MostGuesses' = MostGuesses
      BY DEF MostGuesses
    <3>3. RecordFits'
      BY <1>2, <1>3, <1>11, <2>2, <2>4, <3>1, <3>2 DEF RecordFits
    <3> QED BY <1>1, <1>2, <1>3, <1>4, <1>6, <3>3 DEF LockoutInv, LockoutTypeOK
  <2> QED BY <2>3, <2>4
<1>12. failed.left \in Nat
  BY <1>1
<1> QED BY <1>8, <1>9, <1>10, <1>11, <1>12

\* The record and what it has noted are well formed in every state.
THEOREM LockoutInvariant == LockoutSpec => []LockoutInv
<1> USE LockoutAssumption
<1>1. LockoutInit => LockoutInv
  <2> SUFFICES ASSUME LockoutInit PROVE LockoutInv
    OBVIOUS
  <2>1. guesses \in [0..BlockTicks - 1 -> Nat] /\ \A i \in 0..BlockTicks - 1 : guesses[i] = 0
    BY DEF LockoutInit
  <2>2. Tally(guesses) = {}
    <3>1. \A i \in 0..BlockTicks - 1 : 1..guesses[i] = {}
      BY <2>1
    <3> QED BY <2>1, <3>1, TallyMembers
  <2>3. failed \in [left: 0..BlockTicks, count: 0..FailLimit] /\ failed.left = 0 /\ pending = {}
    BY DEF LockoutInit, NoFailures
  <2> QED BY <2>1, <2>2, <2>3, FS_EmptySet DEF LockoutInv, LockoutTypeOK, RecordFits
<1>2. LockoutInv /\ [LockoutNext]_lockoutVars => LockoutInv'
  <2> SUFFICES ASSUME LockoutInv, [LockoutNext]_lockoutVars PROVE LockoutInv'
    OBVIOUS
  <2>1. failed \in [left: 0..BlockTicks, count: 0..FailLimit] /\ pending \subseteq Logins
        /\ guesses \in [0..BlockTicks - 1 -> Nat] /\ RecordFits
    BY DEF LockoutInv, LockoutTypeOK
  <2>2. ASSUME NEW l \in Logins, CallTeamLogin(l) PROVE LockoutInv'
    <3>1. CASE failed.left = 0
      <4>1. failed' = NoFailures /\ UNCHANGED guesses /\ pending' \subseteq Logins
        BY <2>1, <2>2, <3>1 DEF CallTeamLogin, Forgotten
      <4>2. failed' \in [left: 0..BlockTicks, count: 0..FailLimit] /\ failed'.left = 0
        BY <4>1 DEF NoFailures
      <4>3. RecordFits'
        BY <2>1, <3>1, <4>1, <4>2 DEF RecordFits
      <4> QED BY <2>1, <4>1, <4>2, <4>3 DEF LockoutInv, LockoutTypeOK
    <3>2. CASE failed.left # 0
      <4>1. failed.left > 0 /\ failed.count < FailLimit /\ UNCHANGED <<failed, guesses>> /\ pending' \subseteq Logins
        BY <2>1, <2>2, <3>2 DEF CallTeamLogin, Forgotten, Blocked
      <4>2. RecordFits'
        BY <2>1, <4>1 DEF RecordFits, InRecord, BeforeRecord
      <4> QED BY <2>1, <4>1, <4>2 DEF LockoutInv, LockoutTypeOK
    <3> QED BY <3>1, <3>2
  <2>3. ASSUME NEW l \in Logins, LoginQueryFails(l) PROVE LockoutInv'
    <3>1. UNCHANGED <<failed, guesses>> /\ pending' \subseteq pending
      BY <2>3 DEF LoginQueryFails
    <3>2. Cardinality(pending') <= Cardinality(pending) /\ Cardinality(pending') \in Nat
      BY <3>1, LockoutSizes, FS_Subset, FS_CardinalityType
    <3>3. Cardinality(Tally(guesses)) + Cardinality(pending) <= MostGuesses
          => Cardinality(Tally(guesses)) + Cardinality(pending') <= MostGuesses
      BY <3>2, LockoutSizes DEF MostGuesses
    <3>4. MostGuesses' = MostGuesses
      BY DEF MostGuesses
    <3>5. RecordFits'
      BY <2>1, <3>1, <3>3, <3>4 DEF RecordFits, InRecord, BeforeRecord
    <3> QED BY <2>1, <3>1, <3>5 DEF LockoutInv, LockoutTypeOK
  <2>4. ASSUME NEW l \in Logins, RightPassword(l) PROVE LockoutInv'
    BY <2>1, <2>4, LockoutForgets DEF RightPassword
  <2>5. CASE LockoutRestart
    BY <2>5, LockoutForgets DEF LockoutRestart
  <2>6. CASE UNCHANGED lockoutVars
    BY <2>6 DEF lockoutVars, LockoutInv, LockoutTypeOK, RecordFits, InRecord, BeforeRecord, MostGuesses
  <2> QED BY <2>2, <2>3, <2>4, <2>5, <2>6, WrongPasswordStep, LockoutTickStep DEF LockoutNext
<1> QED BY <1>1, <1>2, PTL DEF LockoutSpec

\* GuessRate, of the login limiter of routes/admin.ts.
THEOREM GuessRateBounded == LockoutSpec => []GuessRate
<1>1. LockoutInv => GuessRate
  <2> SUFFICES ASSUME LockoutInv PROVE Cardinality(Tally(guesses)) <= MostGuesses
    BY DEF GuessRate, Guessed, Total, MostGuesses
  <2>1. failed.left \in Nat /\ failed.count \in Nat
    BY LockoutAssumption DEF LockoutInv, LockoutTypeOK
  <2>2. CASE failed.left = 0
    BY <2>2, LockoutSizes, LockoutAssumption DEF LockoutInv, RecordFits, MostGuesses
  <2>3. CASE failed.left > 0 /\ failed.count < FailLimit
    <3>1. Cardinality(InRecord) <= failed.count /\ Cardinality(BeforeRecord) <= FailLimit - 2
      BY <2>3 DEF LockoutInv, RecordFits
    <3> QED BY <2>1, <2>3, <3>1, LockoutSizes, LockoutAssumption DEF MostGuesses
  <2>4. CASE failed.left > 0 /\ ~(failed.count < FailLimit)
    <3>1. Cardinality(Tally(guesses)) + Cardinality(pending) <= MostGuesses
      BY <2>4 DEF LockoutInv, RecordFits
    <3> QED BY <3>1, LockoutSizes, LockoutAssumption DEF MostGuesses
  <2> QED BY <2>1, <2>2, <2>3, <2>4
<1> QED BY <1>1, LockoutInvariant, PTL

-----------------------------------------------------------------------------
(* The request limiter *)

\* What a refused client may rely on: its own window is over when its wait is.
\* If the Map was full, so is every window that was there; if it was not, there
\* is a place for its next window until another client takes it.
Reliable(k) ==
  told[k].refused =>
    /\ k \notin told[k].others
    /\ windows[k].left <= told[k].wait
    /\ told[k].full => \A j \in Keys \ told[k].others : windows[j].left <= told[k].wait
    /\ ~told[k].full /\ told[k].others = {} => Cardinality(Stored \ {k}) < MaxKeys

LimiterInv == LimiterTypeOK /\ \A k \in Keys : Reliable(k)

\* The Map and the parts of it that a check keeps are finite.
LEMMA StoredFits ==
  ASSUME LimiterTypeOK
  PROVE  /\ IsFiniteSet(Stored) /\ Cardinality(Stored) \in Nat /\ Cardinality(Stored) <= MaxKeys
         /\ \A k \in Keys : /\ IsFiniteSet(Kept(k)) /\ Cardinality(Kept(k)) \in Nat
                            /\ Kept(k) \subseteq Stored
                            /\ k \notin Live => k \notin Kept(k)
<1> USE LimiterAssumption
<1>1. Stored \subseteq Keys /\ Cardinality(Stored) <= MaxKeys
  BY DEF Stored, LimiterTypeOK
<1>2. IsFiniteSet(Stored)
  BY <1>1, FS_Subset
<1>3. ASSUME NEW k \in Keys
      PROVE  Kept(k) \subseteq Stored /\ (k \notin Live => k \notin Kept(k))
  BY DEF Kept, Live
<1>4. ASSUME NEW k \in Keys PROVE IsFiniteSet(Kept(k))
  BY <1>2, <1>3, FS_Subset
<1> QED BY <1>1, <1>2, <1>3, <1>4, FS_CardinalityType

\* A check that keeps some windows and perhaps opens one.
LEMMA StoredAfter ==
  ASSUME LimiterTypeOK, NEW S, S \subseteq Stored, NEW k \in Keys, k \notin S,
         NEW w \in WindowRecord, windows'[k] = w,
         \A j \in Keys : j # k => windows'[j] = IF j \in S THEN windows[j] ELSE NoWindow
  PROVE  /\ \A j \in Keys : j # k => windows'[j].left <= windows[j].left
         /\ Stored' = IF w.count > 0 THEN S \cup {k} ELSE S
<1> USE LimiterAssumption
<1>1. windows \in [Keys -> WindowRecord]
  BY DEF LimiterTypeOK
<1>2. NoWindow \in WindowRecord /\ NoWindow.left = 0 /\ NoWindow.count = 0
  BY DEF NoWindow, WindowRecord
<1>3. \A j \in Keys : windows[j] \in WindowRecord /\ windows[j].left \in Nat /\ windows[j].count \in Nat
  BY <1>1 DEF WindowRecord
<1>4. S \subseteq Keys /\ \A j \in S : windows[j].count > 0
  BY DEF Stored
<1>5. \A j \in Keys : j # k => windows'[j].left <= windows[j].left
  BY <1>2, <1>3
<1>6. \A j \in Keys : windows'[j].count > 0 <=> j \in S \/ (j = k /\ w.count > 0)
  BY <1>2, <1>3, <1>4
<1>7. Stored' = IF w.count > 0 THEN S \cup {k} ELSE S
  BY <1>4, <1>6 DEF Stored
<1> QED BY <1>5, <1>7

\* What is told of a client that another one's check does not concern.
LEMMA StillReliable ==
  ASSUME LimiterInv, NEW k \in Keys, told'[k] = told[k],
         windows'[k].left <= windows[k].left, windows'[k].left \in Nat,
         \A j \in Keys : j \in told[k].others \/ (windows'[j].left \in Nat /\ windows'[j].left <= windows[j].left),
         Stored' \subseteq Stored
  PROVE  Reliable(k)'
<1>1. LimiterTypeOK /\ Reliable(k) /\ windows \in [Keys -> WindowRecord] /\ told[k] \in Told
  BY DEF LimiterInv, LimiterTypeOK
<1>2. /\ told[k].wait \in Nat /\ \A j \in Keys : windows[j].left \in Nat
      /\ told[k].refused \in BOOLEAN /\ told[k].full \in BOOLEAN
  BY <1>1, LimiterAssumption DEF WindowRecord, Told
<1> SUFFICES ASSUME told[k].refused PROVE Reliable(k)'
  BY DEF Reliable
<1>3. /\ k \notin told[k].others
      /\ windows[k].left <= told[k].wait
      /\ told[k].full => \A j \in Keys \ told[k].others : windows[j].left <= told[k].wait
      /\ ~told[k].full /\ told[k].others = {} => Cardinality(Stored \ {k}) < MaxKeys
  BY <1>1 DEF Reliable
<1>4. Cardinality(Stored' \ {k}) <= Cardinality(Stored \ {k})
      /\ Cardinality(Stored' \ {k}) \in Nat /\ Cardinality(Stored \ {k}) \in Nat
  <2>1. IsFiniteSet(Stored \ {k}) /\ Stored' \ {k} \subseteq Stored \ {k}
    BY <1>1, StoredFits, FS_Subset
  <2> QED BY <2>1, FS_Subset, FS_CardinalityType
<1>5. windows'[k].left <= told[k].wait
  BY <1>2, <1>3
<1>6. told[k].full => \A j \in Keys \ told[k].others : windows'[j].left <= told[k].wait
  BY <1>2, <1>3
<1>7. ~told[k].full /\ told[k].others = {} => Cardinality(Stored' \ {k}) < MaxKeys
  BY <1>3, <1>4, LimiterAssumption
<1> QED BY <1>3, <1>5, <1>6, <1>7 DEF Reliable


\* A window is opened: the others are told of it.
LEMMA OpenWindowStep ==
  ASSUME LimiterInv, NEW k \in Keys, OpenWindow(k)
  PROVE  LimiterInv'
<1> USE LimiterAssumption
<1>1. /\ LimiterTypeOK /\ windows \in [Keys -> WindowRecord] /\ told \in [Keys -> Told]
      /\ \A j \in Keys : windows[j].left \in Nat
  BY DEF LimiterInv, LimiterTypeOK, WindowRecord
<1> DEFINE w == [left |-> Span, count |-> 1]
<1>2. w \in WindowRecord /\ w.count > 0 /\ w.left = Span
  BY DEF WindowRecord
<1>3. Kept(k) \subseteq Stored /\ k \notin Kept(k) /\ IsFiniteSet(Kept(k)) /\ Cardinality(Kept(k)) < MaxKeys
      /\ Cardinality(Kept(k)) \in Nat
  BY <1>1, StoredFits DEF OpenWindow, HasPlace
<1>4. windows' = [j \in Keys |-> CASE j = k       -> w
                                   [] j \in Kept(k) -> windows[j]
                                   [] OTHER         -> NoWindow]
  BY DEF OpenWindow
<1> HIDE DEF w
<1>5. /\ windows' \in [Keys -> WindowRecord] /\ windows'[k] = w
      /\ \A j \in Keys : j # k => windows'[j].left <= windows[j].left
      /\ Stored' = Kept(k) \cup {k}
  <2>1. NoWindow \in WindowRecord
    BY DEF NoWindow, WindowRecord
  <2> DEFINE S == Kept(k)
  <2>2. S \subseteq Stored /\ k \notin S
    BY <1>3
  <2>5. windows'[k] = w /\ \A j \in Keys : j # k => windows'[j] = IF j \in S THEN windows[j] ELSE NoWindow
    BY <1>4, <2>2
  <2>3. windows' \in [Keys -> WindowRecord] /\ windows'[k] = w
    <3>1. \A j \in Keys : windows'[j] \in WindowRecord
      BY <1>1, <1>2, <2>1, <2>5
    <3>2. windows' = [j \in Keys |-> windows'[j]]
      BY <1>4
    <3> QED BY <2>5, <3>1, <3>2
  <2> HIDE DEF S
  <2>4. /\ \A j \in Keys : j # k => windows'[j].left <= windows[j].left
        /\ Stored' = IF w.count > 0 THEN S \cup {k} ELSE S
    BY <1>1, <1>2, <2>2, <2>3, <2>5, StoredAfter
  <2> QED BY <1>2, <2>3, <2>4 DEF S
<1>6. Cardinality(Stored') <= MaxKeys
  <2>1. Cardinality(Kept(k) \cup {k}) = Cardinality(Kept(k)) + 1
    BY <1>3, FS_AddElement
  <2> QED BY <1>3, <1>5, <2>1
<1>7. \A j \in Keys : windows'[j].count = 0 => windows'[j].left = 0
  <2> SUFFICES ASSUME NEW j \in Keys, windows'[j].count = 0 PROVE windows'[j].left = 0
    OBVIOUS
  <2>1. j # k
    BY <1>2, <1>5
  <2>2. windows'[j] = windows[j] \/ windows'[j] = NoWindow
    BY <1>4, <2>1
  <2> QED BY <1>1, <2>2 DEF NoWindow, LimiterTypeOK
<1>8. \A j \in Keys : windows'[j].left \in Nat
  BY <1>5 DEF WindowRecord
<1>9. told' = [j \in Keys |-> IF j = k THEN NotTold
                              ELSE IF told[j].refused THEN [told[j] EXCEPT !.others = @ \cup {k}]
                              ELSE told[j]]
  BY DEF OpenWindow
<1>10. ASSUME NEW j \in Keys PROVE told'[j] \in Told /\ Reliable(j)'
  <2>1. CASE j = k
    <3>1. told'[j] = NotTold
      BY <1>9, <2>1
    <3>2. told'[j].refused = FALSE /\ told'[j] \in Told
      BY <3>1 DEF NotTold, Told
    <3> QED BY <3>2 DEF Reliable
  <2>2. CASE j # k /\ ~told[j].refused
    <3>1. told'[j] = told[j]
      BY <1>9, <2>2
    <3> QED BY <1>1, <2>2, <3>1 DEF Reliable
  <2>3. CASE j # k /\ told[j].refused
    <3>1. told'[j] = [told[j] EXCEPT !.others = @ \cup {k}] /\ told[j] \in Told
      BY <1>1, <1>9, <2>3
    <3>2. /\ told'[j] \in Told /\ told'[j].others = told[j].others \cup {k}
          /\ told'[j].wait = told[j].wait /\ told'[j].full = told[j].full
      BY <3>1 DEF Told
    <3>3. /\ j \notin told[j].others
          /\ windows[j].left <= told[j].wait
          /\ told[j].full => \A i \in Keys \ told[j].others : windows[i].left <= told[j].wait
      BY <2>3 DEF LimiterInv, Reliable
    <3>4. told[j].wait \in Nat
      BY <3>1 DEF Told
    <3>5. windows'[j].left <= told'[j].wait
      BY <1>1, <1>5, <1>8, <2>3, <3>2, <3>3, <3>4
    <3>6. told'[j].full => \A i \in Keys \ told'[j].others : windows'[i].left <= told'[j].wait
      BY <1>1, <1>5, <1>8, <3>2, <3>3, <3>4
    <3>7. j \notin told'[j].others /\ told'[j].others # {}
      BY <2>3, <3>2, <3>3
    <3> QED BY <3>2, <3>5, <3>6, <3>7 DEF Reliable
  <2> QED BY <2>1, <2>2, <2>3
<1>11. told' \in [Keys -> Told]
  BY <1>9, <1>10
<1> QED BY <1>5, <1>6, <1>7, <1>10, <1>11 DEF LimiterInv, LimiterTypeOK, Stored

\* A client is refused: it is told how long the windows that stop it last.
LEMMA RefusedStep ==
  ASSUME LimiterTypeOK, LimiterTypeOK', NEW k \in Keys, NEW full \in BOOLEAN, NEW n \in 0..Span,
         \A j \in Keys : Reliable(j),
         told' = [told EXCEPT ![k] = [refused |-> TRUE, full |-> full, wait |-> n, others |-> {}]],
         Stored' \subseteq Stored,
         \A j \in Keys : windows'[j].left <= windows[j].left,
         windows'[k].left <= n,
         full => n = Span,
         ~full => k \in Stored
  PROVE  LimiterInv'
<1> USE LimiterAssumption
<1>1. /\ windows \in [Keys -> WindowRecord] /\ windows' \in [Keys -> WindowRecord]
      /\ told \in [Keys -> Told]
      /\ \A j \in Keys : windows[j].left \in Nat /\ windows'[j].left \in 0..Span
  BY DEF LimiterTypeOK, WindowRecord
<1>2. ASSUME NEW j \in Keys, j # k PROVE Reliable(j)'
  <2>1. told'[j] = told[j]
    BY <1>1, <1>2
  <2>2. LimiterInv
    BY DEF LimiterInv
  <2> QED BY <1>1, <2>1, <2>2, StillReliable
<1>3. Reliable(k)'
  <2> DEFINE h == [refused |-> TRUE, full |-> full, wait |-> n, others |-> {}]
  <2>1. told'[k] = h /\ h.refused /\ h.full = full /\ h.wait = n /\ h.others = {}
    BY <1>1
  <2> HIDE DEF h
  <2>2. full => \A j \in Keys : windows'[j].left <= n
    BY <1>1
  <2>3. ~full => Cardinality(Stored' \ {k}) < MaxKeys
    <3> SUFFICES ASSUME ~full PROVE Cardinality(Stored' \ {k}) < MaxKeys
      OBVIOUS
    <3>1. IsFiniteSet(Stored) /\ k \in Stored /\ Cardinality(Stored) <= MaxKeys /\ Cardinality(Stored) \in Nat
      BY StoredFits
    <3>2. IsFiniteSet(Stored \ {k}) /\ Cardinality(Stored \ {k}) = Cardinality(Stored) - 1
      BY <3>1, FS_RemoveElement
    <3>3. Stored' \ {k} \subseteq Stored \ {k}
      OBVIOUS
    <3>4. Cardinality(Stored' \ {k}) <= Cardinality(Stored \ {k}) /\ IsFiniteSet(Stored' \ {k})
      BY <3>2, <3>3, FS_Subset
    <3>5. Cardinality(Stored' \ {k}) \in Nat
      BY <3>4, FS_CardinalityType
    <3> QED BY <3>1, <3>2, <3>4, <3>5
  <2>4. windows'[k].left <= told'[k].wait /\ k \notin told'[k].others
    BY <2>1
  <2> QED BY <2>1, <2>2, <2>3, <2>4 DEF Reliable
<1> QED BY <1>2, <1>3 DEF LimiterInv

\* There is no place for the client.
LEMMA FindNoPlaceStep ==
  ASSUME LimiterInv, NEW k \in Keys, FindNoPlace(k)
  PROVE  LimiterInv'
<1> USE LimiterAssumption
<1>1. /\ LimiterTypeOK /\ windows \in [Keys -> WindowRecord] /\ told \in [Keys -> Told]
      /\ \A j \in Keys : windows[j].left \in Nat
  BY DEF LimiterInv, LimiterTypeOK, WindowRecord
<1>2. Kept(k) \subseteq Stored /\ k \notin Kept(k) /\ IsFiniteSet(Stored)
  BY <1>1, StoredFits DEF FindNoPlace
<1>3. windows' = [j \in Keys |-> CASE j = k         -> NoWindow
                                   [] j \in Kept(k) -> windows[j]
                                   [] OTHER         -> NoWindow]
  BY <1>2 DEF FindNoPlace
<1>4. NoWindow \in WindowRecord /\ NoWindow.count = 0 /\ NoWindow.left = 0
  BY DEF NoWindow, WindowRecord
<1>5. /\ windows' \in [Keys -> WindowRecord] /\ windows'[k] = NoWindow
      /\ \A j \in Keys : j # k => windows'[j].left <= windows[j].left
      /\ Stored' = Kept(k)
  <2> DEFINE S == Kept(k)
  <2>1. S \subseteq Stored /\ k \notin S
    BY <1>2
  <2> HIDE DEF NoWindow
  <2>4. windows'[k] = NoWindow /\ \A j \in Keys : j # k => windows'[j] = IF j \in S THEN windows[j] ELSE NoWindow
    BY <1>3, <2>1
  <2>2. windows' \in [Keys -> WindowRecord] /\ windows'[k] = NoWindow
    <3>1. \A j \in Keys : windows'[j] \in WindowRecord
      BY <1>1, <1>4, <2>4
    <3>2. windows' = [j \in Keys |-> windows'[j]]
      BY <1>3
    <3> QED BY <2>4, <3>1, <3>2
  <2> HIDE DEF S
  <2>3. /\ \A j \in Keys : j # k => windows'[j].left <= windows[j].left
        /\ Stored' = S
    BY <1>1, <1>4, <2>1, <2>2, <2>4, StoredAfter
  <2> QED BY <2>2, <2>3 DEF S
<1>6. \A j \in Keys : windows'[j].left <= windows[j].left
  BY <1>1, <1>4, <1>5
<1>7. told' = [told EXCEPT ![k] = [refused |-> TRUE, full |-> TRUE, wait |-> Span, others |-> {}]]
  BY DEF FindNoPlace, Refused
<1>8. LimiterTypeOK'
  <2>1. Cardinality(Stored') <= MaxKeys
    <3>1. Cardinality(Kept(k)) <= Cardinality(Stored)
      BY <1>2, FS_Subset
    <3> QED BY <1>1, <1>5, <3>1, StoredFits
  <2>2. \A j \in Keys : windows'[j].count = 0 => windows'[j].left = 0
    BY <1>1, <1>3, <1>4 DEF LimiterTypeOK
  <2>3. told' \in [Keys -> Told]
    <3>1. [refused |-> TRUE, full |-> TRUE, wait |-> Span, others |-> {}] \in Told
      BY DEF Told
    <3> QED BY <1>1, <1>7, <3>1
  <2> QED BY <1>5, <2>1, <2>2, <2>3 DEF LimiterTypeOK, Stored
<1>9. windows'[k].left <= Span /\ Span \in 0..Span
  BY <1>4, <1>5
<1> QED BY <1>1, <1>2, <1>5, <1>6, <1>7, <1>8, <1>9, RefusedStep DEF LimiterInv

\* The client's quota is used up.
LEMMA RefuseStep ==
  ASSUME LimiterInv, NEW k \in Keys, Refuse(k)
  PROVE  LimiterInv'
<1> USE LimiterAssumption
<1>1. /\ LimiterTypeOK /\ windows \in [Keys -> WindowRecord] /\ told \in [Keys -> Told]
      /\ \A j \in Keys : windows[j].left \in 0..Span
  BY DEF LimiterInv, LimiterTypeOK, WindowRecord
<1> DEFINE n == windows[k].left
<1>2. told' = [told EXCEPT ![k] = [refused |-> TRUE, full |-> FALSE, wait |-> n, others |-> {}]]
      /\ windows' = windows /\ k \in Stored /\ n \in 0..Span
  BY <1>1 DEF Refuse, Refused, Live
<1>3. Stored' = Stored /\ windows'[k].left <= n /\ \A j \in Keys : windows'[j].left <= windows[j].left
  BY <1>1, <1>2 DEF Stored
<1> HIDE DEF n
<1>4. LimiterTypeOK'
  <2>1. told' \in [Keys -> Told]
    <3>1. [refused |-> TRUE, full |-> FALSE, wait |-> n, others |-> {}] \in Told
      BY <1>2 DEF Told
    <3> QED BY <1>1, <1>2, <3>1
  <2> QED BY <1>1, <1>2, <2>1 DEF LimiterTypeOK
<1> QED BY <1>1, <1>2, <1>3, <1>4, RefusedStep DEF LimiterInv


\* A client is admitted once more.
LEMMA CountUpStep ==
  ASSUME LimiterInv, NEW k \in Keys, CountUp(k)
  PROVE  LimiterInv'
<1> USE LimiterAssumption
<1>1. /\ LimiterTypeOK /\ windows \in [Keys -> WindowRecord] /\ told \in [Keys -> Told]
      /\ \A j \in Keys : windows[j].left \in Nat /\ windows[j].count \in Nat
  BY DEF LimiterInv, LimiterTypeOK, WindowRecord
<1>2. windows[k].count \in 0..MaxRequests - 1 /\ windows[k].count > 0 /\ windows[k] \in WindowRecord
  BY <1>1 DEF CountUp, Live, Stored
<1> DEFINE h == [windows[k] EXCEPT !.count = @ + 1]
<1>3. h \in WindowRecord /\ h.left = windows[k].left /\ h.count > 0
  BY <1>2 DEF WindowRecord
<1>4. windows' = [windows EXCEPT ![k] = h]
  BY <1>1, <1>2 DEF CountUp, WindowRecord
<1> HIDE DEF h
<1>5. /\ windows' \in [Keys -> WindowRecord] /\ windows'[k] = h
      /\ \A j \in Keys : j # k => windows'[j] = windows[j]
  BY <1>1, <1>3, <1>4
<1>6. /\ \A j \in Keys : windows'[j].left = windows[j].left
      /\ \A j \in Keys : windows'[j].count > 0 <=> windows[j].count > 0
  BY <1>2, <1>3, <1>5
<1>7. Stored' = Stored
  BY <1>6 DEF Stored
<1>8. told' = [told EXCEPT ![k] = NotTold] /\ NotTold \in Told /\ NotTold.refused = FALSE
  BY DEF CountUp, NotTold, Told
<1>9. told' \in [Keys -> Told]
  BY <1>1, <1>8
<1>10. ASSUME NEW j \in Keys PROVE Reliable(j)'
  <2>1. CASE j = k
    <3>1. ~told'[j].refused
      BY <1>1, <1>8, <2>1
    <3> QED BY <3>1 DEF Reliable
  <2>2. CASE j # k
    <3>1. told'[j] = told[j]
      BY <1>1, <1>8, <2>2
    <3>2. \A i \in Keys : windows'[i].left \in Nat /\ windows'[i].left <= windows[i].left
      BY <1>1, <1>6
    <3> QED BY <1>7, <3>1, <3>2, StillReliable
  <2> QED BY <2>1, <2>2
<1>11. \A j \in Keys : windows'[j].count = 0 => windows'[j].left = 0
  BY <1>1, <1>2, <1>3, <1>5 DEF LimiterTypeOK
<1>12. Cardinality(Stored') <= MaxKeys
  BY <1>1, <1>7, StoredFits
<1> QED BY <1>5, <1>9, <1>10, <1>11, <1>12 DEF LimiterInv, LimiterTypeOK, Stored

\* Windows and waits become shorter together.
LEMMA LimiterTickStep ==
  ASSUME LimiterInv, LimiterTick
  PROVE  LimiterInv'
<1> USE LimiterAssumption
<1>1. LimiterTypeOK /\ windows \in [Keys -> WindowRecord] /\ told \in [Keys -> Told]
  BY DEF LimiterInv, LimiterTypeOK
<1>2. \A n \in 0..Span : Sooner(n) \in 0..Span /\ \A m \in 0..Span : n <= m => Sooner(n) <= Sooner(m)
  BY DEF Sooner
<1>3. ASSUME NEW j \in Keys
      PROVE  /\ windows'[j] \in WindowRecord /\ windows[j].left \in 0..Span
             /\ windows'[j].left = Sooner(windows[j].left) /\ windows'[j].count = windows[j].count
  <2>1. windows'[j] = [windows[j] EXCEPT !.left = Sooner(@)] /\ windows[j] \in WindowRecord
    BY <1>1 DEF LimiterTick
  <2> QED BY <1>2, <2>1 DEF WindowRecord
<1>4. ASSUME NEW j \in Keys
      PROVE  /\ told'[j] \in Told /\ told[j].wait \in 0..Span
             /\ told'[j].wait = Sooner(told[j].wait) /\ told'[j].full = told[j].full
             /\ told'[j].refused = told[j].refused /\ told'[j].others = told[j].others
  <2>1. told'[j] = [told[j] EXCEPT !.wait = Sooner(@)] /\ told[j] \in Told
    BY <1>1 DEF LimiterTick
  <2> QED BY <1>2, <2>1 DEF Told
<1>5. windows' \in [Keys -> WindowRecord] /\ told' \in [Keys -> Told]
  <2>1. windows' = [j \in Keys |-> windows'[j]] /\ told' = [j \in Keys |-> told'[j]]
    BY DEF LimiterTick
  <2> QED BY <1>3, <1>4, <2>1
<1>6. Stored' = Stored
  BY <1>3 DEF Stored
<1>7. ASSUME NEW j \in Keys PROVE Reliable(j)'
  <2> SUFFICES ASSUME told[j].refused PROVE Reliable(j)'
    BY <1>4 DEF Reliable
  <2>1. /\ j \notin told[j].others
        /\ windows[j].left <= told[j].wait
        /\ told[j].full => \A i \in Keys \ told[j].others : windows[i].left <= told[j].wait
        /\ ~told[j].full /\ told[j].others = {} => Cardinality(Stored \ {j}) < MaxKeys
    BY DEF LimiterInv, Reliable
  <2>2. windows'[j].left <= told'[j].wait
    BY <1>2, <1>3, <1>4, <2>1
  <2>3. told'[j].full => \A i \in Keys \ told'[j].others : windows'[i].left <= told'[j].wait
    BY <1>2, <1>3, <1>4, <2>1
  <2> QED BY <1>4, <1>6, <2>1, <2>2, <2>3 DEF Reliable
<1>8. \A j \in Keys : windows'[j].count = 0 => windows'[j].left = 0
  BY <1>1, <1>3 DEF LimiterTypeOK, Sooner
<1> QED BY <1>1, <1>5, <1>6, <1>7, <1>8 DEF LimiterInv, LimiterTypeOK, Stored

\* The Map is well formed, and what its clients were told stays reliable.
THEOREM LimiterInvariant == LimiterSpec => []LimiterInv
<1>1. LimiterInit => LimiterInv
  <2> SUFFICES ASSUME LimiterInit PROVE LimiterInv
    OBVIOUS
  <2>1. windows \in [Keys -> WindowRecord] /\ \A k \in Keys : windows[k].left = 0 /\ windows[k].count = 0
    BY LimiterAssumption DEF LimiterInit, NoWindow, WindowRecord
  <2>2. told \in [Keys -> Told] /\ \A k \in Keys : ~told[k].refused
    BY LimiterAssumption DEF LimiterInit, NotTold, Told
  <2>3. {k \in Keys : windows[k].count > 0} = {}
    BY <2>1
  <2>4. Cardinality({k \in Keys : windows[k].count > 0}) <= MaxKeys
    BY <2>3, FS_EmptySet, LimiterAssumption
  <2> QED BY <2>1, <2>2, <2>4 DEF LimiterInv, LimiterTypeOK, Reliable
<1>2. LimiterInv /\ [LimiterNext]_limiterVars => LimiterInv'
  <2> SUFFICES ASSUME LimiterInv, [LimiterNext]_limiterVars PROVE LimiterInv'
    OBVIOUS
  <2>1. CASE UNCHANGED limiterVars
    BY <2>1 DEF limiterVars, LimiterInv, LimiterTypeOK, Reliable, Stored
  <2> QED BY <2>1, OpenWindowStep, FindNoPlaceStep, CountUpStep, RefuseStep, LimiterTickStep DEF LimiterNext
<1> QED BY <1>1, <1>2, PTL DEF LimiterSpec

\* WaitingHelps, of the limiter in front of order tracking: a client that has
\* waited is stopped only by the windows that were opened after it was refused.
THEOREM WaitingIsEnough == LimiterSpec => WaitingHelps
<1> USE LimiterAssumption
<1> DEFINE Helps == \A k \in Keys : Waited(k) /\ RefusedAgain(k) =>
                      Cardinality(told[k].others) >= IF told[k].full THEN MaxKeys ELSE 1
<1>1. LimiterInv /\ [LimiterNext]_limiterVars => [Helps]_limiterVars
  <2> SUFFICES ASSUME LimiterInv, LimiterNext, NEW k \in Keys, Waited(k), RefusedAgain(k)
               PROVE  Cardinality(told[k].others) >= IF told[k].full THEN MaxKeys ELSE 1
    OBVIOUS
  <2>1. /\ LimiterTypeOK /\ told \in [Keys -> Told] /\ told[k] \in Told
        /\ \A j \in Keys : windows[j].left \in Nat
    BY DEF LimiterInv, LimiterTypeOK, WindowRecord
  <2>2. told[k].refused /\ told[k].wait = 0 /\ told'[k].refused /\ told'[k].wait > 0
    BY DEF Waited, RefusedAgain
  <2>3. /\ windows[k].left = 0
        /\ told[k].full => \A j \in Keys \ told[k].others : windows[j].left = 0
        /\ ~told[k].full /\ told[k].others = {} => Cardinality(Stored \ {k}) < MaxKeys
    BY <2>1, <2>2 DEF LimiterInv, Reliable
  <2>4. k \notin Live
    BY <2>3 DEF Live
  <2>5. FindNoPlace(k)
    <3>1. ASSUME NEW j \in Keys, OpenWindow(j) PROVE FALSE
      <4>1. CASE j = k
        BY <2>2, <3>1, <4>1 DEF OpenWindow, NotTold
      <4>2. CASE j # k
        <5>1. told'[k] = [told[k] EXCEPT !.others = @ \cup {j}]
          BY <2>2, <3>1, <4>2 DEF OpenWindow
        <5> QED BY <2>1, <2>2, <5>1 DEF Told
      <4> QED BY <4>1, <4>2
    <3>2. ASSUME NEW j \in Keys, j # k, FindNoPlace(j) \/ CountUp(j) \/ Refuse(j) PROVE FALSE
      <4>1. told'[k] = told[k]
        BY <2>1, <3>2 DEF FindNoPlace, CountUp, Refuse, Refused
      <4> QED BY <2>2, <4>1
    <3>3. ASSUME LimiterTick PROVE FALSE
      <4>1. told'[k] = [told[k] EXCEPT !.wait = Sooner(@)]
        BY <2>1, <3>3 DEF LimiterTick
      <4>2. told'[k].wait = Sooner(0)
        BY <2>1, <2>2, <4>1 DEF Told
      <4> QED BY <2>2, <4>2 DEF Sooner
    <3>4. ~CountUp(k) /\ ~Refuse(k)
      BY <2>4 DEF CountUp, Refuse
    <3> QED BY <3>1, <3>2, <3>3, <3>4 DEF LimiterNext
  <2>6. /\ IsFiniteSet(Kept(k)) /\ Cardinality(Kept(k)) \in Nat /\ Cardinality(Kept(k)) >= MaxKeys
        /\ Kept(k) = IF Cardinality(Stored \ {k}) >= MaxKeys THEN Live ELSE Stored \ {k}
    BY <2>1, <2>5, StoredFits DEF FindNoPlace, HasPlace, Kept
  <2>7. IsFiniteSet(Stored \ {k}) /\ Cardinality(Stored \ {k}) \in Nat
    <3>1. IsFiniteSet(Stored \ {k})
      BY <2>1, StoredFits, FS_Subset
    <3> QED BY <3>1, FS_CardinalityType
  <2>8. Cardinality(Stored \ {k}) >= MaxKeys /\ Kept(k) = Live
    BY <2>6, <2>7
  <2>9. told[k].others \subseteq Keys /\ told[k].full \in BOOLEAN /\ IsFiniteSet(told[k].others)
    <3>1. told[k].others \subseteq Keys /\ told[k].full \in BOOLEAN
      BY <2>1 DEF Told
    <3> QED BY <3>1, FS_Subset
  <2>10. Cardinality(told[k].others) \in Nat
    BY <2>9, FS_CardinalityType
  <2>11. CASE told[k].full
    <3>1. Live \subseteq told[k].others
      BY <2>3, <2>11 DEF Live, Stored
    <3>2. Cardinality(Live) <= Cardinality(told[k].others)
      BY <2>9, <3>1, FS_Subset
    <3> QED BY <2>6, <2>8, <2>10, <2>11, <3>2
  <2>12. CASE ~told[k].full
    <3>1. told[k].others # {}
      BY <2>3, <2>7, <2>8, <2>12
    <3>2. Cardinality(told[k].others) # 0
      BY <2>9, <3>1, FS_EmptySet
    <3> QED BY <2>10, <2>12, <3>2
  <2> QED BY <2>11, <2>12
<1>2. LimiterSpec => [][Helps]_limiterVars
  BY <1>1, LimiterInvariant, PTL DEF LimiterSpec
<1> QED BY <1>2 DEF WaitingHelps

-----------------------------------------------------------------------------
(* The chat page *)

Owes(t) == t.here /\ (t.stage = "asked" \/ t.resumes)

\* A message that is over keeps nothing; speakNava comes after the answer.
TurnFits(t) ==
  /\ t.stage = "free" => ~t.here /\ ~t.resumes
  /\ t.here => t.heard
  /\ t.stage = "asked" => ~t.resumes

\* One message of this session at most holds the turn, and it is every one that
\* was heard: while it does, the page is busy and the microphone rests.
TurnsTaken ==
  /\ \A m \in Messages : Owes(turns[m]) => busy /\ mic \in {"off", "heard"}
  /\ \A m, n \in Messages : Owes(turns[m]) /\ Owes(turns[n]) => m = n
  /\ \A m \in Messages : turns[m].here => Owes(turns[m])

VoiceInv ==
  /\ VoiceTypeOK
  /\ \A m \in Messages : TurnFits(turns[m])
  /\ active /\ ~crossed => TurnsTaken

\* A step of one message that neither takes the turn nor gives it back.
LEMMA OtherTurn ==
  ASSUME VoiceInv, NEW m \in Messages, NEW t \in Turn, TurnFits(t),
         turns' \in [Messages -> Turn], turns'[m] = t,
         \A n \in Messages : n # m => turns'[n] = turns[n],
         active /\ ~crossed => (t.here => Owes(t)) /\ (Owes(t) => Owes(turns[m])),
         UNCHANGED <<active, busy, listening, timer, mic, crossed>>,
         replies' \in BOOLEAN, shown' \in BOOLEAN
  PROVE  VoiceInv'
<1>1. VoiceTypeOK'
  BY DEF VoiceInv, VoiceTypeOK
<1>2. \A n \in Messages : TurnFits(turns'[n])
  BY DEF VoiceInv
<1>3. ASSUME active, ~crossed PROVE TurnsTaken'
  <2>1. TurnsTaken /\ (t.here => Owes(t)) /\ (Owes(t) => Owes(turns[m]))
    BY <1>3 DEF VoiceInv
  <2>2. \A n \in Messages : Owes(turns'[n]) => Owes(turns[n])
    BY <2>1
  <2>3. \A n \in Messages : turns'[n].here => Owes(turns'[n])
    BY <2>1 DEF TurnsTaken
  <2> QED BY <2>1, <2>2, <2>3 DEF TurnsTaken
<1> QED BY <1>1, <1>2, <1>3 DEF VoiceInv

\* The end of a reply that gives the turn back, if it had it.
LEMMA ReleaseStep ==
  ASSUME VoiceInv, NEW m \in Messages, Release(m),
         turns' = [turns EXCEPT ![m] = Free], shown' \in BOOLEAN
  PROVE  VoiceInv'
<1>1. Free \in Turn /\ ~Free.here /\ TurnFits(Free)
  BY VoiceAssumption DEF Free, Turn, TurnStage, TurnFits
<1>2. turns' \in [Messages -> Turn] /\ turns'[m] = Free /\ \A n \in Messages : n # m => turns'[n] = turns[n]
  BY <1>1 DEF VoiceInv, VoiceTypeOK
<1>3. \A n \in Messages : turns[n].here \in BOOLEAN
  BY DEF VoiceInv, VoiceTypeOK, Turn
<1>4. VoiceTypeOK'
  BY <1>2, <1>3 DEF VoiceInv, VoiceTypeOK, Release, Resume
<1>5. \A n \in Messages : TurnFits(turns'[n])
  BY <1>1, <1>2 DEF VoiceInv
<1>6. ASSUME active', ~crossed' PROVE TurnsTaken'
  <2>1. TurnsTaken /\ turns[m].here
    BY <1>3, <1>6 DEF VoiceInv, Release
  <2>2. \A n \in Messages : ~turns'[n].here
    BY <1>1, <1>2, <2>1 DEF TurnsTaken
  <2> QED BY <2>2 DEF TurnsTaken, Owes
<1> QED BY <1>4, <1>5, <1>6 DEF VoiceInv

\* speakNava's finish, however it comes about.
LEMMA FinishStep ==
  ASSUME VoiceInv, NEW m \in Messages, turns[m].stage # "asked", Finish(m)
  PROVE  VoiceInv'
<1>1. Free \in Turn /\ ~Free.here /\ TurnFits(Free)
  BY VoiceAssumption DEF Free, Turn, TurnStage, TurnFits
<1>2. turns' = [turns EXCEPT ![m] = Free] /\ shown' \in BOOLEAN
  BY DEF Finish, VoiceInv, VoiceTypeOK
<1>3. CASE turns[m].resumes
  BY <1>2, <1>3, ReleaseStep DEF Finish
<1>4. CASE ~turns[m].resumes
  <2>1. UNCHANGED <<page, crossed>>
    BY <1>4 DEF Finish
  <2>2. turns' \in [Messages -> Turn] /\ turns'[m] = Free /\ \A n \in Messages : n # m => turns'[n] = turns[n]
    BY <1>1, <1>2 DEF VoiceInv, VoiceTypeOK
  <2> QED BY <1>1, <1>2, <2>1, <2>2, OtherTurn DEF page, Owes, VoiceInv, VoiceTypeOK
<1> QED BY <1>3, <1>4

\* An answer, or the error in its place, that is not voiced.
LEMMA SilentStep ==
  ASSUME VoiceInv, NEW m \in Messages, turns' = [turns EXCEPT ![m] = Free], shown' = TRUE,
         IF Continues(m) THEN Release(m) ELSE UNCHANGED <<page, crossed>>
  PROVE  VoiceInv'
<1>1. Free \in Turn /\ ~Free.here /\ TurnFits(Free)
  BY VoiceAssumption DEF Free, Turn, TurnStage, TurnFits
<1>2. CASE Continues(m)
  BY <1>2, ReleaseStep
<1>3. CASE ~Continues(m)
  <2>1. turns' \in [Messages -> Turn] /\ turns'[m] = Free /\ \A n \in Messages : n # m => turns'[n] = turns[n]
    BY <1>1 DEF VoiceInv, VoiceTypeOK
  <2> QED BY <1>1, <1>3, <2>1, OtherTurn DEF page, Owes, VoiceInv, VoiceTypeOK
<1> QED BY <1>2, <1>3


\* speakNava starts with an answer of at least one chunk.
LEMMA SpeakStep ==
  ASSUME VoiceInv, NEW m \in Messages, NEW n \in 1..MaxChunks, NEW resumes \in BOOLEAN,
         Speak(m, n, resumes),
         active /\ ~crossed /\ turns[m].here => resumes /\ Owes(turns[m]),
         UNCHANGED <<active, busy, listening, timer, mic, crossed>>,
         replies' \in BOOLEAN, shown' \in BOOLEAN
  PROVE  VoiceInv'
<1> USE VoiceAssumption
<1>1. turns[m] \in Turn /\ turns \in [Messages -> Turn] /\ TurnFits(turns[m])
  BY DEF VoiceInv, VoiceTypeOK
<1> DEFINE t == turns'[m]
<1>2. /\ t \in Turn /\ t.stage = "fetching" /\ t.resumes = resumes
      /\ t.here = turns[m].here /\ t.heard = turns[m].heard
  <2>1. n - 1 \in 0..MaxChunks
    OBVIOUS
  <2> QED BY <1>1, <2>1 DEF Speak, Turn, TurnStage
<1>3. turns' \in [Messages -> Turn] /\ \A i \in Messages : i # m => turns'[i] = turns[i]
  <2>1. turns' = [i \in Messages |-> turns'[i]] /\ \A i \in Messages : i # m => turns'[i] = turns[i]
    BY <1>1 DEF Speak
  <2> QED BY <1>1, <1>2, <2>1
<1>4. TurnFits(t)
  BY <1>1, <1>2 DEF TurnFits
<1>5. active /\ ~crossed => (t.here => Owes(t)) /\ (Owes(t) => Owes(turns[m]))
  BY <1>2 DEF Owes
<1> QED BY <1>2, <1>3, <1>4, <1>5, OtherTurn

\* The next stage of a reply that is being voiced.
LEMMA VoicingStep ==
  ASSUME VoiceInv, NEW m \in Messages, turns[m].stage \notin {"free", "asked"},
         NEW s \in {"fetching", "retrying", "playing"}, NEW n \in 0..MaxChunks,
         turns' = [turns EXCEPT ![m].stage = s, ![m].left = n],
         UNCHANGED <<page, shown, crossed>>
  PROVE  VoiceInv'
<1> USE VoiceAssumption
<1>1. turns[m] \in Turn /\ turns \in [Messages -> Turn] /\ TurnFits(turns[m])
      /\ replies \in BOOLEAN /\ shown \in BOOLEAN
  BY DEF VoiceInv, VoiceTypeOK
<1> DEFINE t == turns'[m]
<1>2. /\ t \in Turn /\ t.stage = s /\ t.resumes = turns[m].resumes
      /\ t.here = turns[m].here /\ t.heard = turns[m].heard
  BY <1>1 DEF Turn, TurnStage
<1>3. turns' \in [Messages -> Turn] /\ \A i \in Messages : i # m => turns'[i] = turns[i]
  <2>1. turns' = [i \in Messages |-> turns'[i]] /\ \A i \in Messages : i # m => turns'[i] = turns[i]
    BY <1>1
  <2> QED BY <1>1, <1>2, <2>1
<1>4. TurnFits(t)
  BY <1>1, <1>2 DEF TurnFits
<1>5. active /\ ~crossed => (t.here => Owes(t)) /\ (Owes(t) => Owes(turns[m]))
  <2>1. active /\ ~crossed /\ turns[m].here => Owes(turns[m])
    BY DEF VoiceInv, TurnsTaken
  <2> QED BY <1>2, <2>1 DEF Owes
<1> QED BY <1>1, <1>2, <1>3, <1>4, <1>5, OtherTurn DEF page

\* What a message's turn awaits has come.
LEMMA SettleTurnStep ==
  ASSUME VoiceInv, NEW m \in Messages, SettleTurn(m)
  PROVE  VoiceInv'
<1> USE VoiceAssumption
<1>1. turns[m] \in Turn /\ turns \in [Messages -> Turn] /\ TurnFits(turns[m])
      /\ replies \in BOOLEAN /\ active \in BOOLEAN
  BY DEF VoiceInv, VoiceTypeOK
<1>2. CASE Answered(m)
  <2>1. CASE turns' = [turns EXCEPT ![m] = Free] /\ IF Continues(m) THEN Release(m) ELSE UNCHANGED <<page, crossed>>
    BY <1>2, <2>1, SilentStep DEF Answered
  <2>2. CASE (\E n \in 1..MaxChunks : Speak(m, n, Continues(m))) /\ UNCHANGED <<page, crossed>>
    <3>1. PICK n \in 1..MaxChunks : Speak(m, n, Continues(m))
      BY <2>2
    <3>2. Continues(m) \in BOOLEAN /\ shown' \in BOOLEAN
      BY <1>1, <1>2 DEF Continues, Turn, Answered
    <3>3. active /\ ~crossed /\ turns[m].here => Continues(m) /\ Owes(turns[m])
      BY <1>1, <1>2 DEF Continues, TurnFits, Owes, Answered
    <3> HIDE DEF Continues
    <3> QED BY <1>1, <2>2, <3>1, <3>2, <3>3, SpeakStep DEF page
  <2> QED BY <1>2, <2>1, <2>2 DEF Answered
<1>3. CASE NotAnswered(m)
  BY <1>3, SilentStep DEF NotAnswered
<1>4. CASE FetchSettles(m)
  <2>1. PICK s \in {"playing", "retrying"} : turns' = [turns EXCEPT ![m].stage = s]
    BY <1>4 DEF FetchSettles
  <2>2. turns' = [turns EXCEPT ![m].stage = s, ![m].left = turns[m].left] /\ turns[m].left \in 0..MaxChunks
    BY <1>1, <2>1 DEF Turn
  <2> QED BY <1>4, <2>2, VoicingStep DEF FetchSettles
<1>5. CASE RetryPlays(m)
  <2>1. turns' = [turns EXCEPT ![m].stage = "playing", ![m].left = turns[m].left] /\ turns[m].left \in 0..MaxChunks
    BY <1>1, <1>5 DEF Turn, RetryPlays
  <2> QED BY <1>5, <2>1, VoicingStep DEF RetryPlays
<1>6. CASE RetryFails(m)
  BY <1>6, FinishStep DEF RetryFails
<1>7. CASE AudioEnds(m)
  <2>1. CASE turns[m].left = 0
    BY <1>7, <2>1, FinishStep DEF AudioEnds
  <2>2. CASE turns[m].left # 0
    <3>1. turns[m].left - 1 \in 0..MaxChunks
      BY <1>1, <2>2 DEF Turn
    <3>2. turns' = [turns EXCEPT ![m].stage = "fetching", ![m].left = turns[m].left - 1]
      BY <1>1, <1>7, <2>2 DEF AudioEnds
    <3> QED BY <1>7, <2>2, <3>1, <3>2, VoicingStep DEF AudioEnds
  <2> QED BY <2>1, <2>2
<1>8. CASE AudioBreaks(m)
  BY <1>8, FinishStep DEF AudioBreaks
<1> QED BY <1>2, <1>3, <1>4, <1>5, <1>6, <1>7, <1>8 DEF SettleTurn

\* A message that was heard takes the turn.
LEMMA OnResultStep ==
  ASSUME VoiceInv, NEW m \in Messages, OnResult(m)
  PROVE  VoiceInv'
<1> USE VoiceAssumption
<1>1. turns \in [Messages -> Turn] /\ listening
  BY DEF VoiceInv, VoiceTypeOK, OnResult
<1> DEFINE t == [Free EXCEPT !.stage = "asked", !.heard = TRUE, !.here = TRUE]
<1>2. t \in Turn /\ t.stage = "asked" /\ ~t.resumes /\ t.here /\ t.heard
  <2>1. Free \in Turn /\ "asked" \in TurnStage
    BY DEF Free, Turn, TurnStage
  <2>2. ~Free.resumes
    BY DEF Free
  <2> QED BY <2>1, <2>2 DEF Turn
<1>3. turns' = [turns EXCEPT ![m] = t]
  BY DEF OnResult, Ask
<1> HIDE DEF t
<1>4. turns' \in [Messages -> Turn] /\ turns'[m] = t /\ \A n \in Messages : n # m => turns'[n] = turns[n]
  BY <1>1, <1>2, <1>3
<1>5. VoiceTypeOK'
  BY <1>1, <1>4 DEF VoiceInv, VoiceTypeOK, OnResult
<1>6. \A n \in Messages : TurnFits(turns'[n])
  BY <1>2, <1>4 DEF VoiceInv, TurnFits
<1>7. ASSUME active', ~crossed' PROVE TurnsTaken'
  <2>1. TurnsTaken /\ mic = "on" /\ mic' = "heard" /\ busy'
    BY <1>7 DEF VoiceInv, OnResult
  <2>2. \A n \in Messages : ~Owes(turns[n]) /\ ~turns[n].here
    BY <2>1 DEF TurnsTaken
  <2>3. \A n \in Messages : n # m => ~Owes(turns'[n]) /\ ~turns'[n].here
    BY <1>4, <2>2
  <2>4. Owes(turns'[m])
    BY <1>2, <1>4 DEF Owes
  <2> QED BY <2>1, <2>3, <2>4 DEF TurnsTaken
<1> QED BY <1>5, <1>6, <1>7 DEF VoiceInv


\* A message is typed.
LEMMA TypeMessageStep ==
  ASSUME VoiceInv, NEW m \in Messages, TypeMessage(m)
  PROVE  VoiceInv'
<1> USE VoiceAssumption
<1> DEFINE t == [Free EXCEPT !.stage = "asked", !.heard = FALSE, !.here = FALSE]
<1>1. t \in Turn /\ t.stage = "asked" /\ ~t.resumes /\ ~t.here
  <2>1. Free \in Turn /\ "asked" \in TurnStage
    BY DEF Free, Turn, TurnStage
  <2>2. ~Free.resumes
    BY DEF Free
  <2> QED BY <2>1, <2>2 DEF Turn
<1>2. turns' = [turns EXCEPT ![m] = t]
  BY DEF TypeMessage, Ask
<1> HIDE DEF t
<1>3. turns' \in [Messages -> Turn] /\ turns'[m] = t /\ \A n \in Messages : n # m => turns'[n] = turns[n]
  BY <1>1, <1>2 DEF VoiceInv, VoiceTypeOK
<1>4. TurnFits(t) /\ ~Owes(t)
  BY <1>1 DEF TurnFits, Owes
<1>5. UNCHANGED <<page, shown, crossed>> /\ replies \in BOOLEAN /\ shown \in BOOLEAN
  BY DEF TypeMessage, VoiceInv, VoiceTypeOK
<1> QED BY <1>1, <1>3, <1>4, <1>5, OtherTurn DEF page

\* An answer is played once more.
LEMMA ReplayStep ==
  ASSUME VoiceInv, NEW m \in Messages, Replay(m)
  PROVE  VoiceInv'
<1>1. PICK n \in 1..MaxChunks : Speak(m, n, FALSE)
  BY DEF Replay
<1>2. ~turns[m].here
  BY DEF Replay, VoiceInv, TurnFits
<1>3. replies' \in BOOLEAN /\ shown' \in BOOLEAN
  BY DEF Replay, VoiceInv, VoiceTypeOK
<1> QED BY <1>1, <1>2, <1>3, SpeakStep DEF Replay

\* A click, a timer, an event of the recognition: no message's turn changes.
LEMMA PageStep ==
  ASSUME VoiceInv,
         \/ ToggleReplies \/ CloseSession
         \/ Restart \/ Retry \/ OnStart \/ OnRefused \/ OnEnd
  PROVE  VoiceInv'
<1>1. UNCHANGED <<turns, shown, crossed>>
  BY DEF ToggleReplies, CloseSession, Restart, Retry, OnStart, OnRefused, OnEnd
<1>2. VoiceTypeOK'
  <2> USE DEF VoiceInv, VoiceTypeOK
  <2>1. CASE ToggleReplies
    BY <2>1 DEF ToggleReplies
  <2>2. CASE CloseSession
    BY <2>2 DEF CloseSession
  <2>3. CASE OnRefused
    BY <2>3 DEF OnRefused
  <2>4. CASE Restart \/ Retry
    BY <2>4 DEF Restart, Retry
  <2>5. CASE OnStart
    BY <2>5 DEF OnStart
  <2>6. CASE OnEnd
    BY <2>6 DEF OnEnd, Resume
  <2> QED BY <2>1, <2>2, <2>3, <2>4, <2>5, <2>6
<1>3. \A m \in Messages : TurnFits(turns'[m])
  BY <1>1 DEF VoiceInv
<1>4. ASSUME active', ~crossed' PROVE TurnsTaken'
  <2>1. active /\ ~crossed /\ TurnsTaken
    BY <1>1, <1>4 DEF VoiceInv, ToggleReplies, CloseSession, Restart, Retry, OnStart, OnRefused, OnEnd
  <2>2. ASSUME NEW m \in Messages, Owes(turns[m]) PROVE busy' /\ mic' \in {"off", "heard"}
    <3>1. busy /\ mic \in {"off", "heard"}
      BY <2>1, <2>2 DEF TurnsTaken
    <3> QED BY <1>4, <3>1 DEF ToggleReplies, CloseSession, Restart, Retry, OnStart, OnRefused, OnEnd
  <2> QED BY <1>1, <2>1, <2>2 DEF TurnsTaken
<1> QED BY <1>2, <1>3, <1>4 DEF VoiceInv

\* The speech button: what was heard before belongs to an earlier session.
LEMMA OpenSessionStep ==
  ASSUME VoiceInv, OpenSession
  PROVE  VoiceInv'
<1>1. ASSUME NEW m \in Messages
      PROVE  turns'[m] \in Turn /\ TurnFits(turns'[m]) /\ ~turns'[m].here
  <2>1. turns[m] \in Turn /\ TurnFits(turns[m]) /\ turns'[m] = [turns[m] EXCEPT !.here = FALSE]
    BY DEF VoiceInv, VoiceTypeOK, OpenSession
  <2> QED BY <2>1 DEF Turn, TurnFits
<1>2. turns' \in [Messages -> Turn]
  <2>1. turns' = [m \in Messages |-> turns'[m]]
    BY DEF OpenSession
  <2> QED BY <1>1, <2>1
<1>3. VoiceTypeOK'
  BY <1>2 DEF VoiceInv, VoiceTypeOK, OpenSession
<1>4. TurnsTaken'
  BY <1>1 DEF TurnsTaken, Owes
<1> QED BY <1>1, <1>3, <1>4 DEF VoiceInv

\* In every state of the page at most one message holds the turn of the open
\* session, and the page knows it.
THEOREM VoiceInvariant == VoiceSpec => []VoiceInv
<1>1. VoiceInit => VoiceInv
  <2> SUFFICES ASSUME VoiceInit PROVE VoiceInv
    OBVIOUS
  <2>1. Free \in Turn /\ TurnFits(Free)
    BY VoiceAssumption DEF Free, Turn, TurnStage, TurnFits
  <2>2. turns \in [Messages -> Turn] /\ \A m \in Messages : TurnFits(turns[m])
    BY <2>1 DEF VoiceInit
  <2> QED BY <2>2 DEF VoiceInit, VoiceInv, VoiceTypeOK
<1>2. VoiceInv /\ [VoiceNext]_voiceVars => VoiceInv'
  <2> SUFFICES ASSUME VoiceInv, [VoiceNext]_voiceVars PROVE VoiceInv'
    OBVIOUS
  <2>1. CASE UNCHANGED voiceVars
    BY <2>1 DEF voiceVars, VoiceInv, VoiceTypeOK, TurnsTaken
  <2> QED BY <2>1, TypeMessageStep, OnResultStep, ReplayStep, SettleTurnStep, PageStep, OpenSessionStep DEF VoiceNext
<1> QED BY <1>1, <1>2, PTL DEF VoiceSpec

\* TurnTaking, of the hands-free session.
THEOREM TurnsAreTaken == VoiceSpec => []TurnTaking
<1>1. VoiceInv => TurnTaking
  BY DEF VoiceInv, TurnsTaken, TurnTaking, Owed, Owes
<1> QED BY <1>1, VoiceInvariant, PTL

\* ClosedStaysClosed, of the speech button.
THEOREM OnlyAClickOpens == VoiceSpec => ClosedStaysClosed
<1> DEFINE Clicked == ~active /\ mic = "off" /\ mic' # "off" => active'
<1>1. [VoiceNext]_voiceVars => [Clicked]_voiceVars
  <2> SUFFICES ASSUME VoiceNext, ~active, mic = "off", mic' # "off" PROVE active'
    OBVIOUS
  <2>1. ASSUME NEW m \in Messages, TypeMessage(m) \/ OnResult(m) \/ Replay(m) PROVE active'
    BY <2>1 DEF TypeMessage, OnResult, Replay, page
  <2>2. ASSUME NEW m \in Messages, SettleTurn(m) PROVE active'
    <3>1. mic' = mic
      BY <2>2 DEF SettleTurn, Answered, NotAnswered, FetchSettles, RetryPlays, RetryFails, AudioEnds, AudioBreaks,
                  Finish, Release, page
    <3> QED BY <3>1
  <2>3. ASSUME ToggleReplies \/ CloseSession \/ Restart \/ Retry \/ OnStart \/ OnRefused \/ OnEnd PROVE active'
    BY <2>3 DEF ToggleReplies, CloseSession, Restart, Retry, OnStart, OnRefused, OnEnd
  <2>4. ASSUME OpenSession PROVE active'
    BY <2>4 DEF OpenSession
  <2> QED BY <2>1, <2>2, <2>3, <2>4 DEF VoiceNext
<1>2. VoiceSpec => [][Clicked]_voiceVars
  BY <1>1, PTL DEF VoiceSpec
<1> QED BY <1>2 DEF ClosedStaysClosed

-----------------------------------------------------------------------------
(* The run of the four: each keeps among the others what it promises *)

\* The page, the speech route and the two limiters share no state.
THEOREM VoiceSides ==
  MCSpec => VoiceFairSpec /\ SpeechSpec /\ LimiterSpec /\ LockoutSpec
<1>1. MCInit => VoiceInit /\ SpeechInit /\ LimiterInit /\ LockoutInit
  BY DEF MCInit
<1>2. [MCNext]_sideVars => [VoiceNext]_voiceVars
  BY DEF MCNext, sideVars
<1>3. [MCNext]_sideVars => [SpeechNext]_speechVars
  BY DEF MCNext, sideVars
<1>4. [MCNext]_sideVars => [LimiterNext]_limiterVars
  BY DEF MCNext, sideVars
<1>5. [MCNext]_sideVars => [LockoutNext]_lockoutVars
  BY DEF MCNext, sideVars
<1> HIDE DEF VoiceFairness
<1> QED BY <1>1, <1>2, <1>3, <1>4, <1>5, PTL
        DEF MCSpec, VoiceFairSpec, VoiceSpec, SpeechSpec, LimiterSpec, LockoutSpec

\* MCTypeOK: every side stays within its declared values.
THEOREM VoiceTypes == MCSpec => []MCTypeOK
<1>1. VoiceInv /\ SpeechInv /\ LimiterInv /\ LockoutInv => MCTypeOK
  BY DEF MCTypeOK, VoiceInv, SpeechInv, LimiterInv, LockoutInv
<1> HIDE DEF VoiceFairness
<1> QED BY <1>1, VoiceSides, VoiceInvariant, SpeechInvariant, LimiterInvariant, LockoutInvariant, PTL
        DEF VoiceFairSpec

\* What the run checks but its liveness, of any number of messages, requests,
\* clients and logins, and any quota, window and limit.
THEOREM VoiceSafety ==
  MCSpec => /\ []TurnTaking /\ ClosedStaysClosed
            /\ [](BurstBound /\ AnsweredInTime)
            /\ WaitingHelps
            /\ []GuessRate
<1> HIDE DEF VoiceFairness
<1> QED BY VoiceSides, TurnsAreTaken, OnlyAClickOpens, BurstsBounded, SpeechAnsweredInTime, WaitingIsEnough,
           GuessRateBounded, PTL DEF VoiceFairSpec

=============================================================================
