---------------------------- MODULE SpeechService -----------------------------
(***************************************************************************)
(* POST /api/v1/tts of app.ts: a per-address limiter, then one provider    *)
(* after the other until one returns audio, under one 25 s abort.          *)
(*                                                                         *)
(* Google, Pollinations and TTS.ai are asked with fetches bound to the     *)
(* abort signal; the Edge client is not, and has limits of its own (10 s   *)
(* to connect, 11 s to stream).  What a provider answers is a choice; once *)
(* the signal is aborted every fetch bound to it rejects.  Time passes in  *)
(* ticks for all requests and all limiter windows together; the 1.2 s a    *)
(* poll may sleep past the abort are less than one.  The text is left out  *)
(* but for whether it is acceptable.                                       *)
(***************************************************************************)
EXTENDS Naturals, Tallies

CONSTANTS
  Requests,      \* requests served at the same time
  Clients,       \* addresses they come from
  Quota,         \* requests one window admits (30 in the code)
  Window,        \* ticks of a limiter window (60 s)
  AbortAfter,    \* ticks until the abort (25 s)
  EdgeLimit,     \* ticks the Edge client may take (21 s)
  Alternatives,  \* other models tried with a Pollinations key (3 in the code)
  MaxPolls,      \* polls of a TTS.ai job (8 in the code)
  MaxVoices      \* bound: Persian women's voices TTS.ai lists

ASSUME SpeechAssumption ==
  /\ Quota \in Nat \ {0} /\ Window \in Nat \ {0}
  /\ AbortAfter \in Nat \ {0} /\ EdgeLimit \in Nat
  /\ Alternatives \in Nat \ {0} /\ MaxPolls \in Nat \ {0}
  /\ MaxVoices \in Nat

VARIABLES
  usage,     \* ttsRequests, per address: [count, left], left ticks until resetAt
  passed,    \* history, per address: requests admitted 0, 1, ... ticks ago
  request    \* the handler of each request

speechVars == <<usage, passed, request>>

SpeechStage == {"idle", "google", "edge", "post", "get", "alternative", "discover",
          "submit", "poll", "download", "answered"}
Code  == {0, 200, 400, 413, 429, 503, 504}

BoundButTheGet == SpeechStage \ {"idle", "edge", "answered", "get"}    \* mutant: the GET has no signal
\* The stages whose fetch is given the abort signal.
Bound == SpeechStage \ {"idle", "edge", "answered"}

\* `keys`: Pollinations keys not yet given up (the server's, the browser's).
\* `tries`: alternatives or polls left.  `voices`: TTS.ai voices left to try.
\* `age`, `edge`: ticks since the request, and those the Edge client took.
Handler ==
  [stage: SpeechStage, code: Code, keys: 0..2, tries: Nat, voices: 0..MaxVoices, age: Nat, edge: Nat]

Idle == [stage |-> "idle", code |-> 0, keys |-> 0, tries |-> 0, voices |-> 0, age |-> 0, edge |-> 0]

\* Above the quota the count is only compared with it: it stops at Quota + 1.
SpeechTypeOK ==
  /\ usage \in [Clients -> [left: 0..Window, count: 0..Quota + 1]]
  /\ passed \in [Clients -> [0..Window - 1 -> 0..Quota]]
  /\ request \in [Requests -> Handler]
  /\ \A r \in Requests : request[r].code # 0 <=> request[r].stage = "answered"

SpeechInit ==
  /\ usage = [c \in Clients |-> [left |-> 0, count |-> 0]]
  /\ passed = [c \in Clients |-> [i \in 0..Window - 1 |-> 0]]
  /\ request = [r \in Requests |-> Idle]

-----------------------------------------------------------------------------
At(r, s) == request[r].stage = s
Serving(r) == request[r].stage \notin {"idle", "answered"}
Aborted(r) == request[r].age >= AbortAfter

Become(r, h) == request' = [request EXCEPT ![r] = h] /\ UNCHANGED <<usage, passed>>
Goto(r, s) == Become(r, [request[r] EXCEPT !.stage = s])

Ended(code) == [Idle EXCEPT !.stage = "answered", !.code = code]
Answer(r, code) == Become(r, Ended(code))

RestartsWindow(c) ==    \* mutant: the window is restarted when its quota is used up
  IF usage[c].left = 0 \/ usage[c].count >= Quota THEN [left |-> Window, count |-> 1]
  ELSE [usage[c] EXCEPT !.count = @ + 1]

\* The entry of an address is replaced when it expired, and counted up anyway.
Counted(c) ==
  IF usage[c].left = 0 THEN [left |-> Window, count |-> 1]
  ELSE [usage[c] EXCEPT !.count = IF @ > Quota THEN @ ELSE @ + 1]

\* The handler up to its first await: limiter, text check, first provider.
\* Refused requests count too.
Arrive(r, c) ==
  /\ ~Serving(r)
  /\ usage' = [usage EXCEPT ![c] = Counted(c)]
  /\ IF Counted(c).count > Quota
     THEN /\ request' = [request EXCEPT ![r] = Ended(429)]
          /\ UNCHANGED passed
     ELSE /\ passed' = [passed EXCEPT ![c][0] = @ + 1]
          /\ \/ \E code \in {400, 413} :     \* empty, or above 220 characters
                  request' = [request EXCEPT ![r] = Ended(code)]
             \/ \E s \in {"google", "edge"}, k \in 0..2 :    \* with Google's key, or without
                  request' = [request EXCEPT ![r] = [Idle EXCEPT !.stage = s, !.keys = k]]

-----------------------------------------------------------------------------
(* The providers *)

\* Audio from the provider that is asked: fetched before the abort.
Audio(r) ==
  /\ request[r].stage \in Bound \ {"discover", "poll"}
  /\ ~Aborted(r)
  /\ Answer(r, 200)

\* An answer without audio goes on to Edge; an error or the abort is a 504.
Google(r) ==
  /\ At(r, "google")
  /\ Answer(r, 504) \/ (~Aborted(r) /\ Goto(r, "edge"))

\* The next key, or the search for a voice of TTS.ai when none is left.
NextKey(r) ==
  IF request[r].keys > 0
  THEN Become(r, [request[r] EXCEPT !.stage = "post", !.keys = @ - 1])
  ELSE Goto(r, "discover")

\* Edge is not bound to the signal: its audio is sent even after the abort.
Edge(r) == At(r, "edge") /\ (Answer(r, 200) \/ NextKey(r))

Post(r) ==
  /\ At(r, "post")
  /\ \/ ~Aborted(r) /\ (Goto(r, "get") \/ NextKey(r))   \* no audio; an error
     \/ Aborted(r) /\ Goto(r, "discover")               \* break

Alternate(r) ==
  Become(r, [request[r] EXCEPT !.stage = "alternative", !.tries = Alternatives - 1])

Get(r) ==
  /\ At(r, "get")
  /\ IF Aborted(r) THEN Goto(r, "discover") ELSE Alternate(r)

\* The abort leaves only the inner loop: the next key is still asked, in vain.
Alternative(r) ==
  /\ At(r, "alternative")
  /\ IF Aborted(r) \/ request[r].tries = 0 THEN NextKey(r)
     ELSE Become(r, [request[r] EXCEPT !.tries = @ - 1])

\* The next voice of TTS.ai, or nobody speaks.
Submit(r, left) ==
  IF left = 0 THEN Answer(r, 503)
  ELSE Become(r, [request[r] EXCEPT !.stage = "submit", !.voices = left - 1])

NextVoice(r) == Submit(r, request[r].voices)

\* GET /v1/voices in three spellings of the language; only voices listed as
\* Persian women's are kept, and an error finds none.
Discover(r) ==
  /\ At(r, "discover")
  /\ IF Aborted(r) THEN Answer(r, 503) ELSE \E found \in 0..MaxVoices : Submit(r, found)

GiveUpOnAbort(r) == IF Aborted(r) THEN Answer(r, 503) ELSE NextVoice(r)

\* A job, the address of its audio, or a refusal or an error.
Submitted(r) ==
  /\ At(r, "submit")
  /\ \/ GiveUpOnAbort(r)
     \/ /\ ~Aborted(r)
        /\ Become(r, [request[r] EXCEPT !.stage = "poll", !.tries = MaxPolls]) \/ Goto(r, "download")

\* 1.2 s later: ready, not yet, refused or failed, or no attempt is left.
Poll(r) ==
  /\ At(r, "poll")
  /\ \/ GiveUpOnAbort(r)
     \/ /\ ~Aborted(r)
        /\ \/ Goto(r, "download")
           \/ request[r].tries > 1 /\ Become(r, [request[r] EXCEPT !.tries = @ - 1])

Download(r) == At(r, "download") /\ GiveUpOnAbort(r)

-----------------------------------------------------------------------------
\* A fetch bound to the signal settles when it is aborted, Edge within its own
\* limits: time does not pass them by.
MayWait(r) ==
  /\ request[r].stage \in Bound => ~Aborted(r)
  /\ At(r, "edge") => request[r].edge < EdgeLimit

Older(r) ==
  IF Serving(r)
  THEN [request[r] EXCEPT !.age = @ + 1, !.edge = IF At(r, "edge") THEN @ + 1 ELSE @]
  ELSE request[r]

Tick ==
  /\ \A r \in Requests : MayWait(r)
  /\ \/ \E r \in Requests : Serving(r)
     \/ \E c \in Clients : usage[c].left > 0 \/ \E i \in 0..Window - 1 : passed[c][i] > 0
  /\ usage' = [c \in Clients |-> [usage[c] EXCEPT !.left = IF @ > 0 THEN @ - 1 ELSE 0]]
  /\ passed' = [c \in Clients |->
       [i \in 0..Window - 1 |-> IF i = 0 THEN 0 ELSE passed[c][i - 1]]]
  /\ request' = [r \in Requests |-> Older(r)]

SettleRequest(r) ==
  \/ Audio(r) \/ Google(r) \/ Edge(r) \/ Post(r) \/ Get(r) \/ Alternative(r)
  \/ Discover(r) \/ Submitted(r) \/ Poll(r) \/ Download(r)

SpeechNext ==
  \/ \E r \in Requests : SettleRequest(r) \/ \E c \in Clients : Arrive(r, c)
  \/ Tick

SpeechSpec == SpeechInit /\ [][SpeechNext]_speechVars

-----------------------------------------------------------------------------
(* Properties *)

Sent(c) == Total(passed[c])

\* The windows of the limiter are fixed, so an address can use up two of them
\* one after the other; never more than that reaches the providers within any
\* time as long as a window, however refused and admitted requests alternate.
BurstBound == \A c \in Clients : Sent(c) <= 2 * Quota

\* Every request is answered within the abort and the Edge client's own limits
\* (25 s and 21 s), however many keys, models, polls and voices are tried: the
\* abort ends everything but Edge, and Edge is asked once.
AnsweredInTime ==
  \A r \in Requests : Serving(r) => request[r].age <= AbortAfter + EdgeLimit

=============================================================================
