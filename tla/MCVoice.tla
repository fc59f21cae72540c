------------------------------- MODULE MCVoice --------------------------------
(***************************************************************************)
(* The two sides of Nava's voice, the chat page and the speech route of    *)
(* the server, and the limiters of two other routes (order tracking and    *)
(* logins).  A fetch of the page may end in any way the route answers, and *)
(* no limiter looks at another, so the four share no state: a behaviour    *)
(* exercises one of them, and the states of the run are those of all, not  *)
(* their product.                                                          *)
(***************************************************************************)
EXTENDS VoiceClient, SpeechService, RequestLimiter, LoginLockout

VARIABLE side

sideVars == <<voiceVars, speechVars, limiterVars, lockoutVars, side>>

MCInit ==
  /\ VoiceInit /\ SpeechInit /\ LimiterInit /\ LockoutInit
  /\ side \in {"page", "speech", "tracking", "login"}

MCNext ==
  \/ side = "page" /\ VoiceNext /\ UNCHANGED <<speechVars, limiterVars, lockoutVars, side>>
  \/ side = "speech" /\ SpeechNext /\ UNCHANGED <<voiceVars, limiterVars, lockoutVars, side>>
  \/ side = "tracking" /\ LimiterNext /\ UNCHANGED <<voiceVars, speechVars, lockoutVars, side>>
  \/ side = "login" /\ LockoutNext /\ UNCHANGED <<voiceVars, speechVars, limiterVars, side>>

\* The fairness of the page; nothing of it is enabled on the other sides.
MCSpec == MCInit /\ [][MCNext]_sideVars /\ VoiceFairness

\* All sides stay within the values their declarations list.
MCTypeOK == VoiceTypeOK /\ SpeechTypeOK /\ LimiterTypeOK /\ LockoutTypeOK

=============================================================================
