----------------------------- MODULE VoiceClient ------------------------------
(***************************************************************************)
(* The chat page of public/hormoz.js: a hands-free voice session that      *)
(* listens, asks the server, voices the answer chunk by chunk and listens  *)
(* again, beside messages typed meanwhile and answers played once more.    *)
(*                                                                         *)
(* Every callback (a click, a timer, an event of the speech recognition,   *)
(* a settled fetch, the end of an audio) runs to its end before the next   *)
(* one, so each is one action; what is awaited between them is a stage of  *)
(* the message's turn.  The flag `speaking` is left out: the code that     *)
(* sets it comes after an unconditional return (396) and never runs.       *)
(* Texts and status lines are left out; an answer is its number of chunks. *)
(***************************************************************************)
EXTENDS Naturals

CONSTANTS
  Messages,   \* bound: messages and replays in flight at one time
  MaxChunks   \* bound: 170-character chunks of an answer

ASSUME VoiceAssumption == MaxChunks \in Nat

VARIABLES
  active,      \* voiceSessionActive
  busy,        \* voiceBusy: a heard message awaits the end of its reply
  listening,   \* set by onstart, cleared by onend
  replies,     \* voiceReplyEnabled
  timer,       \* voiceRestartTimer: the 450 ms restart or the 700 ms retry
  mic,         \* the browser's recognition: start() throws unless it is off
  turns,       \* for each message, what it awaits
  shown,       \* an answer with its speak button is on the page
  crossed      \* history: a reply of an earlier session released this one

page == <<active, busy, listening, replies, timer, mic>>
voiceVars == <<active, busy, listening, replies, timer, mic, turns, shown, crossed>>

TurnStage == {"free", "asked", "fetching", "retrying", "playing"}

\* `heard`: sent with fromVoice.  `resumes`: speakNava was given
\* resumeAfterResponse.  `left`: chunks still to be fetched.  History: `here`
\* tells that the message was heard since a session was last opened.
Turn == [stage: TurnStage, heard: BOOLEAN, resumes: BOOLEAN, here: BOOLEAN, left: 0..MaxChunks]

Free == [stage |-> "free", heard |-> FALSE, resumes |-> FALSE, here |-> FALSE, left |-> 0]

VoiceTypeOK ==
  /\ active \in BOOLEAN /\ busy \in BOOLEAN /\ listening \in BOOLEAN
  /\ replies \in BOOLEAN /\ shown \in BOOLEAN /\ crossed \in BOOLEAN
  /\ timer \in {"none", "restart", "retry"}
  /\ mic \in {"off", "starting", "on", "heard"}
  /\ turns \in [Messages -> Turn]
  /\ listening <=> mic \in {"on", "heard"}

VoiceInit ==
  /\ active = FALSE /\ busy = FALSE /\ listening = FALSE /\ replies = TRUE
  /\ timer = "none" /\ mic = "off" /\ shown = FALSE /\ crossed = FALSE
  /\ turns = [m \in Messages |-> Free]

-----------------------------------------------------------------------------
(* Asking and answering: sendMessage *)

Ask(m, heard) ==
  /\ turns[m].stage = "free"
  /\ turns' = [turns EXCEPT ![m] = [Free EXCEPT !.stage = "asked", !.heard = heard, !.here = heard]]

\* Enter sends whatever the send button's state, so several may be in flight.
TypeMessage(m) == Ask(m, FALSE) /\ UNCHANGED <<page, shown, crossed>>

\* resumeVoiceListening arms the restart only in an open session that is not busy.
Resume(b) == timer' = IF active /\ ~b THEN "restart" ELSE timer

\* resumeAfterResponse, and the same lines in the catch block: the flag is
\* cleared whichever session the message was heard in.
Release(m) ==
  /\ busy' = FALSE
  /\ Resume(FALSE)
  /\ crossed' = (crossed \/ ~turns[m].here)
  /\ UNCHANGED <<active, listening, replies, mic>>

\* speakNava's finish: onDone, if there is one, and nothing more is awaited.
Finish(m) ==
  /\ turns' = [turns EXCEPT ![m] = Free]
  /\ IF turns[m].resumes THEN Release(m) ELSE UNCHANGED <<page, crossed>>
  /\ UNCHANGED shown

\* speakNava fetches the first chunk; a blank text has none and is done at once.
Speak(m, n, resumes) ==
  turns' = [turns EXCEPT ![m].stage = "fetching", ![m].resumes = resumes, ![m].left = n - 1]

Continues(m) == turns[m].heard /\ active

\* The answer is shown, then voiced if replies are on; only a heard message
\* whose session is (again) open gives the turn back.
Answered(m) ==
  /\ turns[m].stage = "asked"
  /\ shown' = TRUE
  /\ \/ /\ replies
        /\ \E n \in 1..MaxChunks : Speak(m, n, Continues(m))
        /\ UNCHANGED <<page, crossed>>
     \/ /\ turns' = [turns EXCEPT ![m] = Free]   \* replies are off, or the text is blank
        /\ IF Continues(m) THEN Release(m) ELSE UNCHANGED <<page, crossed>>

\* An error answer, a broken connection or the 40 s abort: the error is shown.
NotAnswered(m) ==
  /\ turns[m].stage = "asked"
  /\ shown' = TRUE
  /\ turns' = [turns EXCEPT ![m] = Free]
  /\ IF Continues(m) THEN Release(m) ELSE UNCHANGED <<page, crossed>>

-----------------------------------------------------------------------------
(* Voicing an answer: playOnlinePersianAudio *)

\* The first request of a chunk: audio that plays, or (an error status, no
\* audio, play() refused without a gesture) the retry through the server.
FetchSettles(m) ==
  /\ turns[m].stage = "fetching"
  /\ \E s \in {"playing", "retrying"} : turns' = [turns EXCEPT ![m].stage = s]
  /\ UNCHANGED <<page, shown, crossed>>

\* The retry plays, or the voice is given up: the text has to do.
RetryPlays(m) ==
  /\ turns[m].stage = "retrying"
  /\ turns' = [turns EXCEPT ![m].stage = "playing"]
  /\ UNCHANGED <<page, shown, crossed>>

GiveUpSilently(m) ==   \* mutant: the voice is given up without finish
  /\ turns[m].stage = "retrying"
  /\ turns' = [turns EXCEPT ![m] = Free]
  /\ UNCHANGED <<page, shown, crossed>>

RetryFails(m) == turns[m].stage = "retrying" /\ Finish(m)

\* onended: the next chunk, or the end of the reply.
AudioEnds(m) ==
  /\ turns[m].stage = "playing"
  /\ IF turns[m].left = 0 THEN Finish(m)
     ELSE /\ turns' = [turns EXCEPT ![m].stage = "fetching", ![m].left = @ - 1]
          /\ UNCHANGED <<page, shown, crossed>>

AudioBreaks(m) == turns[m].stage = "playing" /\ Finish(m)

\* The speak button of an answer turns replies on and plays it again.
Replay(m) ==
  /\ shown /\ turns[m].stage = "free"
  /\ replies' = TRUE
  /\ \E n \in 1..MaxChunks : Speak(m, n, FALSE)
  /\ UNCHANGED <<active, busy, listening, timer, mic, shown, crossed>>

\* Turning replies off stops the browser's own speech only, which is never used.
ToggleReplies ==
  /\ replies' = ~replies
  /\ UNCHANGED <<active, busy, listening, timer, mic, turns, shown, crossed>>

-----------------------------------------------------------------------------
(* The speech button and the restart timer *)

\* start() throws while the recognition has not ended: no session then.
OpenSession ==
  /\ ~active
  /\ active' = (mic = "off")
  /\ busy' = FALSE
  /\ mic' = IF mic = "off" THEN "starting" ELSE mic
  /\ turns' = [m \in Messages |-> [turns[m] EXCEPT !.here = FALSE]]
  /\ crossed' = FALSE
  /\ UNCHANGED <<listening, replies, timer, shown>>

\* stop() lets the recognition end later, perhaps with a last result.  An
\* audio that plays is not paused.
CloseSession ==
  /\ active
  /\ active' = FALSE /\ busy' = FALSE /\ timer' = "none"
  /\ UNCHANGED <<listening, replies, mic, turns, shown, crossed>>

RestartUnguarded ==    \* mutant: the timer does not look at the flags again
  /\ timer = "restart"
  /\ IF listening THEN timer' = "none" /\ UNCHANGED mic
     ELSE IF mic = "off" THEN timer' = "none" /\ mic' = "starting"
     ELSE timer' = "retry" /\ UNCHANGED mic
  /\ UNCHANGED <<active, busy, listening, replies, turns, shown, crossed>>

\* 450 ms later the flags are read again; a start() that throws is retried.
Restart ==
  /\ timer = "restart"
  /\ IF ~active \/ busy \/ listening THEN timer' = "none" /\ UNCHANGED mic
     ELSE IF mic = "off" THEN timer' = "none" /\ mic' = "starting"
     ELSE timer' = "retry" /\ UNCHANGED mic
  /\ UNCHANGED <<active, busy, listening, replies, turns, shown, crossed>>

\* 700 ms later resumeVoiceListening is called again.
Retry ==
  /\ timer = "retry"
  /\ timer' = IF active /\ ~busy THEN "restart" ELSE "none"
  /\ UNCHANGED <<active, busy, listening, replies, mic, turns, shown, crossed>>

-----------------------------------------------------------------------------
(* The events of the recognition *)

StartsUnmarked ==    \* mutant: onstart does not set `listening`
  /\ mic = "starting"
  /\ mic' = "on"
  /\ UNCHANGED <<active, busy, listening, replies, timer, turns, shown, crossed>>

OnStart ==
  /\ mic = "starting"
  /\ mic' = "on" /\ listening' = TRUE
  /\ UNCHANGED <<active, busy, replies, timer, turns, shown, crossed>>

HearsUnflagged(m) ==    \* mutant: voiceBusy is not set with a heard message
  /\ mic = "on"
  /\ Ask(m, TRUE)
  /\ mic' = "heard"
  /\ UNCHANGED <<active, busy, listening, replies, timer, shown, crossed>>

\* A result, even a last one after the session was closed, is sent at once.
OnResult(m) ==
  /\ mic = "on"
  /\ Ask(m, TRUE)
  /\ busy' = TRUE /\ mic' = "heard"
  /\ UNCHANGED <<active, listening, replies, timer, shown, crossed>>

\* Without permission the session is over; other errors only set the status.
OnRefused ==
  /\ mic \in {"starting", "on"}
  /\ active' = FALSE /\ busy' = FALSE
  /\ UNCHANGED <<listening, replies, timer, mic, turns, shown, crossed>>

OnEnd ==
  /\ mic # "off"
  /\ mic' = "off" /\ listening' = FALSE
  /\ Resume(busy)
  /\ UNCHANGED <<active, busy, replies, turns, shown, crossed>>

-----------------------------------------------------------------------------
SettleTurn(m) ==
  \/ Answered(m) \/ NotAnswered(m)
  \/ FetchSettles(m) \/ RetryPlays(m) \/ RetryFails(m) \/ AudioEnds(m) \/ AudioBreaks(m)

VoiceNext ==
  \/ \E m \in Messages : TypeMessage(m) \/ OnResult(m) \/ Replay(m) \/ SettleTurn(m)
  \/ ToggleReplies \/ OpenSession \/ CloseSession
  \/ Restart \/ Retry \/ OnStart \/ OnRefused \/ OnEnd

VoiceSpec == VoiceInit /\ [][VoiceNext]_voiceVars

\* Whatever is awaited comes: the chat request is aborted after 40 s, a fetch
\* settles, an audio ends or breaks, a timer fires, the recognition (which is
\* not continuous) ends.  No click is owed by the user.
VoiceFairness ==
  /\ \A m \in Messages : WF_voiceVars(SettleTurn(m))
  /\ WF_voiceVars(Restart) /\ WF_voiceVars(Retry) /\ WF_voiceVars(OnEnd)

VoiceFairSpec == VoiceSpec /\ VoiceFairness

-----------------------------------------------------------------------------
(* Properties *)

\* A heard message of this session is still being answered or voiced.
Owed(m) ==
  /\ turns[m].here
  /\ turns[m].stage = "asked" \/ turns[m].resumes

\* Turns are taken: until the reply to a heard message is over, its session
\* does not listen again.  The one way around the flag is a reply that was
\* heard in an earlier session: it clears voiceBusy for this one (crossed).
TurnTaking ==
  active /\ ~crossed => \A m \in Messages : Owed(m) => mic \in {"off", "heard"}

\* Once the session is closed, by the user or by a refused permission, no late
\* reply, timer or retry opens the microphone: only a click starts it again.
ClosedStaysClosed == [][~active /\ mic = "off" /\ mic' # "off" => active']_voiceVars

\* Hands-free: an open session comes back to listening, whatever fails in
\* between (the answer, the voice, the microphone's start), or it is closed.
SessionsResume == active ~> (mic = "on" \/ mic = "starting" \/ ~active)

=============================================================================
