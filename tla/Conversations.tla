----------------------------- MODULE Conversations -----------------------------
(***************************************************************************)
(* Conversations: modules/conversation, its routes, and the chat loop of   *)
(* routes/chat.ts with the engine behind it.                               *)
(*                                                                         *)
(* A chat request reads the conversation, appends the user's message,      *)
(* waits up to two attempts of 25 seconds for the engine and appends its   *)
(* answer.  Each append is a SELECT with checks and then an UPDATE that    *)
(* checks nothing; meanwhile other requests append to the same             *)
(* conversation, or close it.                                              *)
(*                                                                         *)
(* A message is its role and its words.  Every call says words of its own, *)
(* as every message has an id of its own; what the engine answers to w is  *)
(* Reply(w).  Left out: titles, timestamps, the memories added to the      *)
(* context, the rate limit, and chats that name no conversation.  A call   *)
(* is one whose session has been validated for its user.                   *)
(***************************************************************************)
EXTENDS Naturals, SequencesExt

CONSTANTS
  Ids,           \* of conversations, created or still to be
  Users,
  Words,         \* what users say
  Author,        \* the user who says it
  Blank,         \* nothing but white space
  Roles,         \* of a message sent to the messages route, "user" among them
  Requests,      \* requests the process is serving at the same time
  MaxAttempts,   \* maxAttempts of the OpenRouter provider
  NoRow, NoWords

Reply(w) == [answers |-> w]
Replies  == {Reply(w) : w \in Words}

ASSUME ConversationsAssumption ==
  /\ Author \in [Words -> Users]
  /\ {"user", "assistant"} \subseteq Roles
  /\ MaxAttempts \in Nat \ {0}
  /\ {Blank, NoWords} \cap (Words \cup Replies) = {}
  /\ Blank # NoWords
  /\ Words \cap Replies = {}

VARIABLES
  rows,     \* hormoz_conversations, by id
  step,     \* the await each request stands at
  call,     \* what it was called with
  draft,    \* the message of its appendMessage
  context,  \* withUserMessage.messages
  attempt,  \* of the provider
  late      \* history variable: what was asked in a conversation that had been closed

vars == <<rows, step, call, draft, context, attempt, late>>

Message == [role: Roles, content: Words \cup Replies]
Row == [user: Users, status: {"active", "closed"}, messages: Seq(Message)]

ASSUME NoRowAssumption == NoRow \notin Row

Kinds == {"create", "read", "say", "close", "chat"}
Call  == [user: Users, kind: Kinds, id: Ids, words: Words \cup {Blank, NoWords}]
Idle  == [kind |-> "idle"]
Nothing == [role |-> "user", content |-> NoWords]

\* Where a request awaits a query, and where it awaits the engine.
Queries   == {"create", "read", "close", "select", "append", "recall", "find"}
AtEngine  == {"engine", "pause"}

TypeOK ==
  /\ rows \in [Ids -> Row \cup {NoRow}]
  /\ step \in [Requests -> {"idle"} \cup Queries \cup AtEngine]
  /\ call \in [Requests -> Call \cup {Idle}]
  /\ \A r \in Requests : step[r] = "idle" <=> call[r] = Idle
  /\ draft \in [Requests -> [role: Roles, content: Words \cup Replies \cup {Blank, NoWords}]]
  /\ context \in [Requests -> Seq(Message)]
  /\ attempt \in [Requests -> 0..MaxAttempts]
  /\ late \subseteq Ids \X Words

Init ==
  /\ rows = [i \in Ids |-> NoRow]
  /\ step = [r \in Requests |-> "idle"]
  /\ call = [r \in Requests |-> Idle]
  /\ draft = [r \in Requests |-> Nothing]
  /\ context = [r \in Requests |-> <<>>]
  /\ attempt = [r \in Requests |-> 0]
  /\ late = {}

-----------------------------------------------------------------------------
Created == {i \in Ids : rows[i] # NoRow}
Said(i) == IF i \in Created THEN {rows[i].messages[k].content : k \in DOMAIN rows[i].messages} ELSE {}

\* Words not said, nor about to be.
Unsaid == {w \in Words : /\ \A i \in Ids : w \notin Said(i)
                         /\ \A r \in Requests : step[r] # "idle" => call[r].words # w}

Goto(r, s) == step' = [step EXCEPT ![r] = s]

\* The handler answers, or throws.
Leave(r) ==
  /\ Goto(r, "idle")
  /\ call' = [call EXCEPT ![r] = Idle]
  /\ draft' = [draft EXCEPT ![r] = Nothing]
  /\ context' = [context EXCEPT ![r] = <<>>]
  /\ attempt' = [attempt EXCEPT ![r] = 0]

Enter(r, s, kind, user, id, words) ==
  /\ step[r] = "idle"
  /\ Goto(r, s)
  /\ call' = [call EXCEPT ![r] = [kind |-> kind, user |-> user, id |-> id, words |-> words]]
  /\ UNCHANGED <<rows, context, attempt, late>>

\* The id is a random UUID.
CallCreate(r) ==
  /\ \E u \in Users, i \in Ids \ Created :
       /\ \A q \in Requests : step[q] = "create" => call[q].id # i
       /\ Enter(r, "create", "create", u, i, NoWords)
  /\ UNCHANGED draft

CallRead(r) ==
  /\ \E u \in Users, i \in Ids : Enter(r, "find", "read", u, i, NoWords)
  /\ UNCHANGED draft

CallClose(r) ==
  /\ \E u \in Users, i \in Ids : Enter(r, "find", "close", u, i, NoWords)
  /\ UNCHANGED draft

\* POST /conversations/:id/messages takes the role from the body too.
CallSay(r) ==
  \E i \in Ids, role \in Roles :
    \/ \E w \in Unsaid :
         /\ Enter(r, "select", "say", Author[w], i, w)
         /\ draft' = [draft EXCEPT ![r] = [role |-> role, content |-> w]]
    \/ \E u \in Users :
         /\ Enter(r, "select", "say", u, i, Blank)
         /\ draft' = [draft EXCEPT ![r] = [role |-> role, content |-> Blank]]

\* The message is trimmed and not empty.
CallChat(r) ==
  /\ \E i \in Ids, w \in Unsaid : Enter(r, "find", "chat", Author[w], i, w)
  /\ UNCHANGED draft

-----------------------------------------------------------------------------
(* ConversationService *)

Create(r) ==
  /\ step[r] = "create"
  /\ rows' = [rows EXCEPT ![call[r].id] =
                [user |-> call[r].user, status |-> "active", messages |-> <<>>]]
  /\ Leave(r)
  /\ UNCHANGED late

Owned(r) == call[r].id \in Created /\ rows[call[r].id].user = call[r].user

\* get, the first statement of the chat loop and the whole of a read; and
\* update's own getOwned when it is called by close.  Closed to closed is no
\* transition.
Find(r) ==
  /\ step[r] = "find"
  /\ \/ /\ ~Owned(r) \/ call[r].kind = "read"
        /\ Leave(r)
     \/ /\ Owned(r)
        /\ call[r].kind = "close"
        /\ Goto(r, "close")
        /\ UNCHANGED <<call, draft, context, attempt>>
     \/ /\ Owned(r)
        /\ call[r].kind = "chat"
        /\ Goto(r, "select")
        /\ draft' = [draft EXCEPT ![r] = [role |-> "user", content |-> call[r].words]]
        /\ UNCHANGED <<call, context, attempt>>
  /\ UNCHANGED <<rows, late>>

Close(r) ==
  /\ step[r] = "close"
  /\ rows' = [rows EXCEPT ![call[r].id].status = "closed"]
  /\ Leave(r)
  /\ UNCHANGED late

AppendableUnclosed(r) == Owned(r) /\ draft[r].content # Blank    \* mutant: no CONVERSATION_CLOSED
Appendable(r) ==
  /\ Owned(r)
  /\ rows[call[r].id].status # "closed"
  /\ draft[r].content # Blank

\* appendMessage: getOwned and the checks ...
Select(r) ==
  /\ step[r] = "select"
  /\ \/ ~Appendable(r) /\ Leave(r)
     \/ /\ Appendable(r)
        /\ Goto(r, "append")
        /\ UNCHANGED <<call, draft, context, attempt>>
  /\ UNCHANGED <<rows, late>>

\* mutant: the answer is added to the messages the engine was sent
ExtendedContext(r) ==
  Append(IF context[r] = <<>> THEN rows[call[r].id].messages ELSE context[r], draft[r])
Extended(r) == Append(rows[call[r].id].messages, draft[r])    \* messages || $2

ContextBefore(r) == rows[call[r].id].messages    \* mutant: the row get has returned
ContextFor(r) == Extended(r)

IsQuestion(r) == call[r].kind = "chat" /\ draft[r].content = call[r].words

\* ... and its UPDATE, which neither looks at the status nor at the messages.
AppendMessage(r) ==
  LET i == call[r].id IN
  /\ step[r] = "append"
  /\ rows' = [rows EXCEPT ![i].messages = Extended(r)]
  /\ late' = IF rows[i].status = "closed" /\ draft[r].content \in Words
             THEN late \cup {<<i, draft[r].content>>} ELSE late
  /\ \/ Leave(r)    \* also when the chat loop loses the answer of its first append
     \/ /\ IsQuestion(r)
        /\ context' = [context EXCEPT ![r] = ContextFor(r)]
        /\ Goto(r, "recall")
        /\ UNCHANGED <<call, draft, attempt>>

-----------------------------------------------------------------------------
(* The engine: MockIntelligenceEngine over OpenRouterIntelligenceProvider *)

\* listMemories has answered, generate is called.
Recall(r) ==
  /\ step[r] = "recall"
  /\ attempt' = [attempt EXCEPT ![r] = 1]
  /\ Goto(r, "engine")
  /\ UNCHANGED <<rows, call, draft, context, late>>

\* What the engine answers: it is asked with the conversation so far.
QuestionStored(r) == Last(rows[call[r].id].messages).content    \* mutant: read again
Question(r) == Last(context[r]).content

\* The provider has an answer that passes both guards.
Answer(r) ==
  /\ step[r] = "engine"
  /\ draft' = [draft EXCEPT ![r] =
                 [role |-> "assistant", content |-> Reply(Question(r))]]
  /\ Goto(r, "select")
  /\ UNCHANGED <<rows, call, context, attempt, late>>

MayRetry(r) == attempt[r] < MaxAttempts

\* The network or the provider fails in a way that may pass.
Fail(r) ==
  /\ step[r] = "engine"
  /\ MayRetry(r)
  /\ Goto(r, "pause")
  /\ UNCHANGED <<rows, call, draft, context, attempt, late>>

SameAttempt(r) == attempt[r]    \* mutant: the retry is not counted
NextAttempt(r) == attempt[r] + 1

\* Half a second later.
Retry(r) ==
  /\ step[r] = "pause"
  /\ attempt' = [attempt EXCEPT ![r] = NextAttempt(r)]
  /\ Goto(r, "engine")
  /\ UNCHANGED <<rows, call, draft, context, late>>

\* The last attempt failed, the request was refused, the answer was cut off or
\* is held back by a guard: 502, and the question stays where it is.
GiveUp(r) == step[r] = "engine" /\ Leave(r) /\ UNCHANGED <<rows, late>>

\* 25 seconds have passed; not tried again.
Abort(r) == step[r] = "engine" /\ Leave(r) /\ UNCHANGED <<rows, late>>

-----------------------------------------------------------------------------
\* A query is rejected and the handler answers 401, 500 or 503.
QueryFails(r) == step[r] \in Queries /\ Leave(r) /\ UNCHANGED <<rows, late>>

Restart ==
  /\ step' = [r \in Requests |-> "idle"]
  /\ call' = [r \in Requests |-> Idle]
  /\ draft' = [r \in Requests |-> Nothing]
  /\ context' = [r \in Requests |-> <<>>]
  /\ attempt' = [r \in Requests |-> 0]
  /\ UNCHANGED <<rows, late>>

Arrive(r) == CallCreate(r) \/ CallRead(r) \/ CallClose(r) \/ CallSay(r) \/ CallChat(r)

\* What the process does on its own: queries, timers.
Proceed(r) ==
  \/ Create(r) \/ Find(r) \/ Close(r) \/ Select(r) \/ AppendMessage(r)
  \/ Recall(r) \/ Retry(r) \/ Abort(r) \/ QueryFails(r)

\* What the provider does, or never does.
Provide(r) == Answer(r) \/ Fail(r) \/ GiveUp(r)

Next ==
  \/ \E r \in Requests : Arrive(r) \/ Proceed(r) \/ Provide(r)
  \/ Restart

Spec == Init /\ [][Next]_vars

\* Queries end and timers fire.
Fairness == \A r \in Requests : WF_vars(Proceed(r))
FairSpec == Spec /\ Fairness

-----------------------------------------------------------------------------
(* Properties *)

Transcript(i) == rows[i].messages

\* Whatever overlaps, a conversation's messages are only ever added to: no
\* append loses another's message, and none is lost by closing.
TranscriptsGrow ==
  [][\A i \in Created : IsPrefix(Transcript(i), rows'[i].messages)]_vars

\* The engine is asked with a beginning of the conversation as it is stored, up
\* to the very question it is to answer: the Persian guard looks at the last
\* message of the request, and a question asked meanwhile is not in it.
AskedInContext ==
  \A r \in Requests : step[r] \in {"recall", "engine", "pause"} =>
    /\ context[r] # <<>>
    /\ Last(context[r]) = [role |-> "user", content |-> call[r].words]
    /\ IsPrefix(context[r], Transcript(call[r].id))

Places(i, c) == {k \in DOMAIN Transcript(i) : Transcript(i)[k].content = c}

\* An answer is in the conversation once, after the question it answers, however
\* chats of one conversation interleave and whatever is retried.
AnswersFollowQuestions ==
  \A i \in Created, w \in Words : \A k \in Places(i, Reply(w)) :
    /\ Places(i, Reply(w)) = {k}
    /\ \E j \in Places(i, w) : j < k

\* A message whose check overlaps a close is still stored in the closed
\* conversation; but the engine's answer to it is not.
NoAnswerAfterClose ==
  \A i \in Created, w \in Words : Places(i, Reply(w)) # {} => <<i, w>> \notin late

\* "CONVERSATION_FORBIDDEN" (service.ts:92): what is in a conversation was said
\* by its owner, or answered to its owner.
OnlyTheOwnerSpeaks ==
  \A i \in Created, w \in Words :
    Places(i, w) \cup Places(i, Reply(w)) # {} => Author[w] = rows[i].user

\* No request waits for ever, even if the provider never answers.
EveryRequestEnds == \A r \in Requests : step[r] # "idle" ~> step[r] = "idle"

=============================================================================
