-------------------------- MODULE ConversationsProofs --------------------------
(***************************************************************************)
(* Proofs about Conversations, for any conversations, users and requests:  *)
(* its type invariant, and its safety properties from one inductive        *)
(* invariant that says what a request in flight may still store.           *)
(***************************************************************************)
EXTENDS Conversations, SequenceTheorems, TLAPS

-----------------------------------------------------------------------------
(* Sequences *)

\* A prefix, element by element.
LEMMA PrefixByElements == ASSUME NEW S, NEW s \in Seq(S), NEW t \in Seq(S)
                  PROVE  IsPrefix(s, t) <=> /\ Len(s) <= Len(t)
                                            /\ \A k \in 1..Len(s) : s[k] = t[k]
<1> SUFFICES ASSUME Len(s) <= Len(t)
             PROVE  SubSeq(s, 1, Len(s)) = SubSeq(t, 1, Len(s)) <=> \A k \in 1..Len(s) : s[k] = t[k]
  BY Zenon DEF IsPrefix
<1>1. SubSeq(s, 1, Len(s)) = s
  BY SubSeqFull
<1>2. \A k \in 1..Len(s) : t[k] \in S
  BY ElementOfSeq
<1>3. SubSeq(t, 1, Len(s)) \in Seq(S) /\ Len(SubSeq(t, 1, Len(s))) = Len(s)
      /\ \A k \in 1..Len(s) : SubSeq(t, 1, Len(s))[k] = t[k]
  BY SubSeqProperties, <1>2
<1> QED BY <1>1, <1>3, SeqEqual

\* An appended message is the last, and the others stay where they are.
LEMMA Appended == ASSUME NEW S, NEW s \in Seq(S), NEW m \in S
                  PROVE  /\ Append(s, m) \in Seq(S)
                         /\ Append(s, m) # <<>>
                         /\ Last(Append(s, m)) = m
                         /\ Len(Append(s, m)) = Len(s) + 1
                         /\ \A k \in 1..Len(s) : Append(s, m)[k] = s[k]
  BY AppendProperties DEF Last

-----------------------------------------------------------------------------
(* The inductive invariant *)

Has(i, c) == i \in Created /\ \E k \in 1..Len(Transcript(i)) : Transcript(i)[k].content = c

Waiting(r) == step[r] \in {"recall", "engine", "pause"}
Appending(r) == step[r] \in {"select", "append"}

\* What a request appends: what it was called with, or the engine's reply.
Asking(r)    == Appending(r) /\ draft[r].content = call[r].words
Answering(r) == /\ Appending(r)
                /\ call[r].kind = "chat"
                /\ draft[r] = [role |-> "assistant", content |-> Reply(call[r].words)]

\* Which calls stand where.
StageInv(r) ==
  /\ step[r] = "create" => call[r].id \notin Created
  /\ step[r] = "find" /\ call[r].kind = "chat" => call[r].words \in Words
  /\ step[r] = "close" => Owned(r)
  /\ Appending(r) => /\ Asking(r) \/ Answering(r)
                     /\ call[r].words \in Words \cup {Blank}
                     /\ call[r].kind = "chat" => call[r].words \in Words
                     /\ call[r].kind = "chat" /\ Asking(r) => draft[r].role = "user"
  /\ step[r] = "append" => Owned(r) /\ draft[r].content # Blank
  /\ Waiting(r) => call[r].kind = "chat"
  /\ step[r] = "pause" => attempt[r] < MaxAttempts

\* A question that has been asked is in its user's conversation, and the engine
\* sees the conversation up to it.
AskedInv(r) ==
  /\ Waiting(r) \/ Answering(r) => /\ call[r].words \in Words
                                   /\ Owned(r)
                                   /\ Has(call[r].id, call[r].words)
  /\ Waiting(r) => /\ context[r] # <<>>
                   /\ Last(context[r]) = [role |-> "user", content |-> call[r].words]
                   /\ IsPrefix(context[r], Transcript(call[r].id))

\* What has not been said yet, or not been answered yet, is in no conversation;
\* and an answer about to be stored is to a question asked in time.
PendingInv(r) ==
  step[r] # "idle" /\ call[r].words \in Words =>
    /\ call[r].user = Author[call[r].words]
    /\ \A i \in Ids : ~Has(i, Reply(call[r].words))
    /\ ~Waiting(r) /\ ~Answering(r) => \A i \in Ids : ~Has(i, call[r].words)
    /\ Answering(r) /\ step[r] = "append" => <<call[r].id, call[r].words>> \notin late

\* Requests neither say the same words nor create the same conversation.
Distinct ==
  \A q, r \in Requests : step[q] # "idle" /\ step[r] # "idle" /\ q # r =>
    /\ call[q].words = call[r].words => call[q].words \notin Words
    /\ step[q] = "create" /\ step[r] = "create" => call[q].id # call[r].id

\* Only what is in a closed conversation is late.
LateInv == \A i \in Ids, w \in Words :
             <<i, w>> \in late => Has(i, w) /\ rows[i].status = "closed"

IInv ==
  /\ TypeOK
  /\ \A r \in Requests : StageInv(r) /\ AskedInv(r) /\ PendingInv(r)
  /\ Distinct
  /\ LateInv
  /\ AnswersFollowQuestions
  /\ NoAnswerAfterClose
  /\ OnlyTheOwnerSpeaks

-----------------------------------------------------------------------------
(* Types *)

RequestTypes ==
  /\ step \in [Requests -> {"idle"} \cup Queries \cup AtEngine]
  /\ call \in [Requests -> Call \cup {Idle}]
  /\ \A r \in Requests : step[r] = "idle" <=> call[r] = Idle
  /\ draft \in [Requests -> [role: Roles, content: Words \cup Replies \cup {Blank, NoWords}]]
  /\ context \in [Requests -> Seq(Message)]
  /\ attempt \in [Requests -> 0..MaxAttempts]

RowTypes ==
  /\ rows \in [Ids -> Row \cup {NoRow}]
  /\ late \subseteq Ids \X Words

\* The type invariant, of the requests and of the rows.
LEMMA Types == TypeOK <=> RequestTypes /\ RowTypes
  BY DEF TypeOK, RequestTypes, RowTypes

\* A request at work has a call, and a draft.
LEMMA AtWork == ASSUME TypeOK, NEW r \in Requests, step[r] # "idle"
                PROVE  /\ call[r] \in Call
                       /\ draft[r] \in [role: Roles, content: Words \cup Replies \cup {Blank, NoWords}]
  BY DEF TypeOK

\* A created conversation is a row.
LEMMA CreatedRow == ASSUME TypeOK, NEW i \in Created
                    PROVE  i \in Ids /\ rows[i] \in Row /\ Transcript(i) \in Seq(Message)
  BY DEF TypeOK, Created, Row, Transcript

\* A request that is answered leaves the requests well formed.
LEMMA LeaveTypes == ASSUME RequestTypes, NEW r \in Requests, Leave(r)
                    PROVE  RequestTypes'
<1>1. Nothing \in [role: Roles, content: Words \cup Replies \cup {Blank, NoWords}]
  BY ConversationsAssumption DEF Nothing
<1>2. <<>> \in Seq(Message)
  OBVIOUS
<1>3. context' \in [Requests -> Seq(Message)]
  BY <1>2 DEF Leave, RequestTypes
<1>4. attempt' \in [Requests -> 0..MaxAttempts]
  BY ConversationsAssumption DEF Leave, RequestTypes
<1>5. draft' \in [Requests -> [role: Roles, content: Words \cup Replies \cup {Blank, NoWords}]]
  BY <1>1 DEF Leave, RequestTypes
<1>6. /\ step' \in [Requests -> {"idle"} \cup Queries \cup AtEngine]
      /\ call' \in [Requests -> Call \cup {Idle}]
      /\ \A q \in Requests : step'[q] = "idle" <=> call'[q] = Idle
  BY DEF Leave, Goto, RequestTypes
<1> QED BY <1>3, <1>4, <1>5, <1>6 DEF RequestTypes

\* So does one that goes on to its next await: none begins or ends.
LEMMA GotoTypes == ASSUME RequestTypes, NEW r \in Requests, NEW s \in Queries \cup AtEngine,
                          Goto(r, s), step[r] # "idle"
                   PROVE  /\ step' \in [Requests -> {"idle"} \cup Queries \cup AtEngine]
                          /\ \A q \in Requests : step'[q] = "idle" <=> step[q] = "idle"
  BY DEF RequestTypes, Goto, Queries, AtEngine

\* So does one that arrives.
LEMMA EnterTypes == ASSUME RequestTypes, NEW r \in Requests, NEW s \in Queries,
                           NEW kind \in Kinds, NEW u \in Users, NEW i \in Ids,
                           NEW w \in Words \cup {Blank, NoWords}, Enter(r, s, kind, u, i, w),
                           draft' \in [Requests -> [role: Roles, content: Words \cup Replies \cup {Blank, NoWords}]]
                    PROVE  RequestTypes'
<1> DEFINE c == [kind |-> kind, user |-> u, id |-> i, words |-> w]
<1>1. c \in Call /\ c # Idle
  BY DEF Call, Idle, Kinds
<1> HIDE DEF c
<1>2. call' = [call EXCEPT ![r] = c]
  BY DEF Enter, c
<1>3. s # "idle"
  BY DEF Queries
<1> QED BY <1>1, <1>2, <1>3 DEF RequestTypes, Enter, Goto

\* The message that is appended is well formed.
LEMMA AppendTypes == ASSUME IInv, NEW r \in Requests, step[r] = "append"
                     PROVE  /\ call[r].id \in Created
                            /\ draft[r] \in Message
                            /\ Extended(r) \in Seq(Message)
<1>1. TypeOK /\ StageInv(r)
  BY DEF IInv
<1>2. call[r].id \in Created /\ draft[r].content \in Words \cup Replies
  BY <1>1, AtWork DEF StageInv, Owned, Asking, Answering, Appending, Replies, TypeOK
<1>3. draft[r] \in Message
  BY <1>1, <1>2, AtWork DEF Message
<1> QED BY <1>1, <1>2, <1>3, CreatedRow, AppendProperties DEF Extended, Transcript

\* A request that arrives leaves everything well formed.
LEMMA ArriveTypes == ASSUME TypeOK, NEW r \in Requests, Arrive(r)
                     PROVE  TypeOK'
<1> DEFINE Drafts == [role: Roles, content: Words \cup Replies \cup {Blank, NoWords}]
<1>1. RequestTypes /\ RowTypes /\ draft \in [Requests -> Drafts]
  BY Types DEF RequestTypes
<1>2. UNCHANGED <<rows, late>>
  BY DEF Arrive, CallCreate, CallRead, CallClose, CallSay, CallChat, Enter
<1>3. RowTypes'
  BY <1>1, <1>2 DEF RowTypes
<1>4. RequestTypes'
  <2> USE DEF Queries, Kinds
  <2>1. CASE CallCreate(r)
    BY <1>1, <2>1, EnterTypes DEF CallCreate
  <2>2. CASE CallRead(r)
    BY <1>1, <2>2, EnterTypes DEF CallRead
  <2>3. CASE CallClose(r)
    BY <1>1, <2>3, EnterTypes DEF CallClose
  <2>4. CASE CallChat(r)
    <3>1. PICK i \in Ids, w \in Unsaid : Enter(r, "find", "chat", Author[w], i, w)
      BY <2>4 DEF CallChat
    <3>2. w \in Words /\ Author[w] \in Users
      BY ConversationsAssumption DEF Unsaid
    <3>3. draft' \in [Requests -> Drafts]
      BY <1>1, <2>4 DEF CallChat
    <3> QED BY <1>1, <3>1, <3>2, <3>3, EnterTypes
  <2>5. CASE CallSay(r)
    <3>1. PICK i \in Ids, role \in Roles, u \in Users, w \in Words \cup {Blank} :
            /\ Enter(r, "select", "say", u, i, w)
            /\ draft' = [draft EXCEPT ![r] = [role |-> role, content |-> w]]
      BY <2>5, ConversationsAssumption DEF CallSay, Unsaid
    <3>2. draft' \in [Requests -> Drafts]
      BY <1>1, <3>1
    <3> QED BY <1>1, <3>1, <3>2, EnterTypes
  <2> QED BY <2>1, <2>2, <2>3, <2>4, <2>5 DEF Arrive
<1> QED BY <1>3, <1>4 DEF TypeOK, RequestTypes, RowTypes

\* So does a step of the process or of the provider.
LEMMA ServeTypes == ASSUME IInv, NEW r \in Requests, Proceed(r) \/ Provide(r)
                    PROVE  TypeOK'
<1> DEFINE Drafts == [role: Roles, content: Words \cup Replies \cup {Blank, NoWords}]
<1>1. TypeOK /\ RequestTypes /\ RowTypes /\ StageInv(r) /\ AskedInv(r)
  BY Types DEF IInv
<1>2. step[r] # "idle"
  BY DEF Proceed, Provide, Create, Find, Close, Select, AppendMessage, Recall, Retry, Abort,
         QueryFails, Answer, Fail, GiveUp, Queries
<1>3. call[r] \in Call /\ draft[r] \in Drafts
  BY <1>1, <1>2, AtWork
<1>4. RequestTypes'
  <2> USE DEF Queries, AtEngine
  <2>1. CASE Leave(r)
    BY <1>1, <2>1, LeaveTypes
  <2>2. ASSUME NEW s \in Queries \cup AtEngine, Goto(r, s), UNCHANGED call,
               draft' \in [Requests -> Drafts], context' \in [Requests -> Seq(Message)],
               attempt' \in [Requests -> 0..MaxAttempts]
        PROVE  RequestTypes'
    BY <1>1, <1>2, <2>2, GotoTypes DEF RequestTypes
  <2>3. CASE Find(r)
    <3>1. CASE Goto(r, "close") /\ UNCHANGED <<call, draft, context, attempt>>
      BY <1>1, <2>2, <3>1 DEF RequestTypes
    <3>2. CASE /\ step[r] = "find"
               /\ call[r].kind = "chat"
               /\ Goto(r, "select")
               /\ draft' = [draft EXCEPT ![r] = [role |-> "user", content |-> call[r].words]]
               /\ UNCHANGED <<call, context, attempt>>
      <4>1. [role |-> "user", content |-> call[r].words] \in Drafts
        BY <1>1, <3>2, ConversationsAssumption DEF StageInv
      <4>2. draft' \in [Requests -> Drafts]
        BY <1>1, <3>2, <4>1 DEF RequestTypes
      <4> QED BY <1>1, <2>2, <3>2, <4>2 DEF RequestTypes
    <3> QED BY <2>1, <2>3, <3>1, <3>2 DEF Find
  <2>4. CASE Select(r)
    BY <1>1, <2>1, <2>2, <2>4 DEF Select, RequestTypes
  <2>5. CASE AppendMessage(r)
    <3>1. CASE context' = [context EXCEPT ![r] = Extended(r)] /\ Goto(r, "recall")
               /\ UNCHANGED <<call, draft, attempt>>
      <4>1. context' \in [Requests -> Seq(Message)]
        BY <1>1, <2>5, <3>1, AppendTypes DEF AppendMessage, RequestTypes
      <4> QED BY <1>1, <2>2, <3>1, <4>1 DEF RequestTypes
    <3> QED BY <2>1, <2>5, <3>1 DEF AppendMessage, ContextFor
  <2>6. CASE Recall(r)
    BY <1>1, <2>2, <2>6, ConversationsAssumption DEF Recall, RequestTypes
  <2>7. CASE Retry(r)
    <3>1. attempt' \in [Requests -> 0..MaxAttempts]
      BY <1>1, <2>7, ConversationsAssumption DEF Retry, NextAttempt, RequestTypes, StageInv
    <3> QED BY <1>1, <2>2, <2>7, <3>1 DEF Retry, RequestTypes
  <2>8. CASE Answer(r)
    <3>1. Question(r) \in Words
      BY <1>1, <2>8 DEF Answer, AskedInv, Waiting, Question
    <3>2. [role |-> "assistant", content |-> Reply(Question(r))] \in Drafts
      BY <3>1, ConversationsAssumption DEF Replies
    <3>3. draft' \in [Requests -> Drafts]
      BY <1>1, <2>8, <3>2 DEF Answer, RequestTypes
    <3> QED BY <1>1, <2>2, <2>8, <3>3 DEF Answer, RequestTypes
  <2>9. CASE Fail(r)
    BY <1>1, <2>2, <2>9 DEF Fail, RequestTypes
  <2> QED
    BY <2>1, <2>3, <2>4, <2>5, <2>6, <2>7, <2>8, <2>9
    DEF Proceed, Provide, Create, Close, Abort, QueryFails, GiveUp
<1>5. RowTypes'
  <2>1. CASE Create(r)
    <3>1. [user |-> call[r].user, status |-> "active", messages |-> <<>>] \in Row
      <4>1. <<>> \in Seq(Message)
        OBVIOUS
      <4> QED BY <1>3, <4>1 DEF Row, Call
    <3> QED BY <1>1, <1>3, <2>1, <3>1 DEF Create, RowTypes, Call
  <2>2. CASE Close(r)
    <3>1. rows[call[r].id] \in Row
      BY <1>1, <2>2, CreatedRow DEF Close, StageInv, Owned
    <3>2. [rows[call[r].id] EXCEPT !.status = "closed"] \in Row
      BY <3>1 DEF Row
    <3> QED BY <1>1, <2>2, <3>2 DEF Close, RowTypes
  <2>3. CASE AppendMessage(r)
    <3>1. step[r] = "append"
      BY <2>3 DEF AppendMessage
    <3>2. call[r].id \in Created /\ Extended(r) \in Seq(Message)
      BY <3>1, AppendTypes
    <3>3. call[r].id \in Ids /\ rows[call[r].id] \in Row
      BY <1>1, <3>2, CreatedRow
    <3>4. [rows[call[r].id] EXCEPT !.messages = Extended(r)] \in Row
      BY <3>2, <3>3 DEF Row
    <3>5. rows' \in [Ids -> Row \cup {NoRow}]
      BY <1>1, <2>3, <3>4 DEF AppendMessage, RowTypes
    <3>6. late' \subseteq Ids \X Words
      BY <1>1, <2>3, <3>3 DEF AppendMessage, RowTypes
    <3> QED BY <3>5, <3>6 DEF RowTypes
  <2>4. CASE UNCHANGED <<rows, late>>
    BY <1>1, <2>4 DEF RowTypes
  <2> QED
    BY <2>1, <2>2, <2>3, <2>4
    DEF Proceed, Provide, Find, Select, Recall, Retry, Abort, QueryFails, Answer, Fail, GiveUp
<1> QED BY <1>4, <1>5 DEF TypeOK, RequestTypes, RowTypes

-----------------------------------------------------------------------------
(* Steps that add no message *)

RequestInv(r) == StageInv(r) /\ AskedInv(r) /\ PendingInv(r)

SpokenInv == LateInv /\ AnswersFollowQuestions /\ NoAnswerAfterClose /\ OnlyTheOwnerSpeaks

\* No message is added; a conversation may be created or closed.
Quiet ==
  /\ UNCHANGED late
  /\ \A i \in Created :
       /\ i \in Created'
       /\ rows'[i].user = rows[i].user
       /\ rows'[i].messages = rows[i].messages
       /\ rows[i].status = "closed" => rows'[i].status = "closed"
  /\ \A i \in Created' : i \in Created \/ rows'[i].messages = <<>>

\* Only r moves.
Moved(r) ==
  \A q \in Requests \ {r} : /\ step'[q] = step[q] /\ call'[q] = call[q] /\ draft'[q] = draft[q]
                            /\ context'[q] = context[q] /\ attempt'[q] = attempt[q]

\* The call that r has after the step is unlike the others'.
Apart(r) ==
  step'[r] # "idle" =>
    \A q \in Requests \ {r} : step[q] # "idle" =>
      /\ call'[r].words = call[q].words => call[q].words \notin Words
      /\ step'[r] = "create" /\ step[q] = "create" => call'[r].id # call[q].id

\* A step that says nothing changes nothing of who said what.
LEMMA QuietHas == ASSUME Quiet, NEW i \in Ids, NEW c
                  PROVE  Has(i, c)' <=> Has(i, c)
<1>1. Len(<<>>) = 0
  BY EmptySeq
<1> QED BY <1>1 DEF Quiet, Has, Transcript

\* A number of messages, wherever they are, is a range of places.
LEMMA HasPlaces == ASSUME TypeOK, NEW i \in Created, NEW c
                   PROVE  /\ Has(i, c) <=> Places(i, c) # {}
                          /\ Places(i, c) = {k \in 1..Len(Transcript(i)) : Transcript(i)[k].content = c}
  BY CreatedRow, LenProperties DEF Has, Places

\* A step that says nothing keeps what is promised of the transcripts.
LEMMA QuietSpoken == ASSUME TypeOK, SpokenInv, Quiet PROVE SpokenInv'
<1>1. ASSUME NEW i \in Created', NEW c
      PROVE  IF i \in Created THEN Places(i, c)' = Places(i, c) /\ rows'[i].user = rows[i].user
                              ELSE Places(i, c)' = {}
  <2>1. CASE i \in Created
    BY <1>1, <2>1 DEF Quiet, Places, Transcript
  <2>2. CASE i \notin Created
    BY <1>1, <2>2 DEF Quiet, Places, Transcript
  <2> QED BY <2>1, <2>2
<1>2. LateInv'
  BY QuietHas DEF SpokenInv, LateInv, Quiet, Has
<1>3. AnswersFollowQuestions'
  BY <1>1 DEF SpokenInv, AnswersFollowQuestions
<1>4. NoAnswerAfterClose'
  BY <1>1 DEF SpokenInv, NoAnswerAfterClose, Quiet
<1>5. OnlyTheOwnerSpeaks'
  BY <1>1 DEF SpokenInv, OnlyTheOwnerSpeaks
<1> QED BY <1>2, <1>3, <1>4, <1>5 DEF SpokenInv

\* A request that does not move does not notice.
LEMMA QuietOther == ASSUME Quiet, NEW r, NEW q \in Requests \ {r}, RequestInv(q), Moved(r), TypeOK,
                           step[q] = "create" => call[q].id \notin Created'
                    PROVE  RequestInv(q)'
<1>1. /\ step'[q] = step[q] /\ call'[q] = call[q] /\ draft'[q] = draft[q]
      /\ context'[q] = context[q] /\ attempt'[q] = attempt[q]
  BY DEF Moved
<1>2. (Waiting(q)' <=> Waiting(q)) /\ (Appending(q)' <=> Appending(q))
      /\ (Asking(q)' <=> Asking(q)) /\ (Answering(q)' <=> Answering(q))
  BY <1>1 DEF Waiting, Appending, Asking, Answering
<1>3. Owned(q) => Owned(q)' /\ Transcript(call[q].id)' = Transcript(call[q].id)
  BY <1>1 DEF Owned, Quiet, Transcript
<1>4. StageInv(q)'
  BY <1>1, <1>2, <1>3 DEF RequestInv, StageInv
<1>5. AskedInv(q)'
  <2> SUFFICES ASSUME NEW i, i = call[q].id, NEW w, w = call[q].words
               PROVE  AskedInv(q)'
    OBVIOUS
  <2>1. call'[q].id = i /\ call'[q].words = w
    BY <1>1
  <2>2. ASSUME Waiting(q) \/ Answering(q)
        PROVE  w \in Words /\ Owned(q)' /\ Has(i, w)'
    <3>1. w \in Words /\ Owned(q) /\ Has(i, w)
      BY <2>2 DEF RequestInv, AskedInv
    <3>2. i \in Ids
      BY <3>1 DEF Has, Created
    <3> QED BY <1>3, <3>1, <3>2, QuietHas
  <2>3. ASSUME Waiting(q)
        PROVE  /\ context'[q] # <<>>
               /\ Last(context'[q]) = [role |-> "user", content |-> w]
               /\ IsPrefix(context'[q], Transcript(i)')
    <3>1. Transcript(i)' = Transcript(i)
      BY <2>2, <2>3 DEF RequestInv, AskedInv, Owned, Quiet, Transcript
    <3> QED BY <1>1, <2>3, <3>1 DEF RequestInv, AskedInv
  <2> QED BY <1>2, <2>1, <2>2, <2>3 DEF AskedInv
<1>6. PendingInv(q)'
  <2> SUFFICES ASSUME NEW id, id = call[q].id, NEW w, w = call[q].words, step[q] # "idle", w \in Words
               PROVE  /\ call'[q].user = Author[w]
                      /\ \A i \in Ids : ~Has(i, Reply(w))'
                      /\ ~Waiting(q) /\ ~Answering(q) => \A i \in Ids : ~Has(i, w)'
                      /\ Answering(q) /\ step[q] = "append" => <<id, w>> \notin late'
    BY <1>1, <1>2 DEF PendingInv
  <2>1. /\ call[q].user = Author[w]
        /\ \A i \in Ids : ~Has(i, Reply(w))
        /\ ~Waiting(q) /\ ~Answering(q) => \A i \in Ids : ~Has(i, w)
        /\ Answering(q) /\ step[q] = "append" => <<id, w>> \notin late
    BY DEF RequestInv, PendingInv
  <2>2. \A i \in Ids : ~Has(i, Reply(w))'
    BY <2>1, QuietHas
  <2>3. ~Waiting(q) /\ ~Answering(q) => \A i \in Ids : ~Has(i, w)'
    BY <2>1, QuietHas
  <2> QED BY <1>1, <2>1, <2>2, <2>3 DEF Quiet
<1> QED BY <1>4, <1>5, <1>6 DEF RequestInv

\* A step that says nothing preserves the invariant, if the request that takes
\* it keeps its own part and stays apart from the others.
LEMMA QuietStep ==
  ASSUME IInv, TypeOK', NEW r \in Requests, Moved(r), Quiet, RequestInv(r)', Apart(r),
         \A q \in Requests \ {r} : step[q] = "create" => call[q].id \notin Created'
  PROVE  IInv'
<1>1. TypeOK /\ SpokenInv /\ Distinct /\ \A q \in Requests : RequestInv(q)
  BY DEF IInv, SpokenInv, RequestInv
<1>2. \A q \in Requests : RequestInv(q)'
  BY <1>1, QuietOther
<1>3. SpokenInv'
  BY <1>1, QuietSpoken
<1>4. Distinct'
  BY <1>1 DEF Moved, Apart, Distinct
<1> QED BY <1>2, <1>3, <1>4 DEF IInv, SpokenInv, RequestInv

\* A step that writes no row says nothing.
LEMMA Standing == ASSUME UNCHANGED <<rows, late>> PROVE Quiet /\ Created' = Created
  BY DEF Quiet, Created

\* A request that has been answered promises nothing.
LEMMA Leaving == ASSUME TypeOK, NEW r \in Requests, Leave(r)
                 PROVE  Moved(r) /\ Apart(r) /\ RequestInv(r)'
<1>1. step'[r] = "idle"
  BY DEF Leave, Goto, TypeOK
<1>2. Moved(r)
  BY DEF Moved, Leave, Goto, TypeOK
<1>3. RequestInv(r)'
  BY <1>1 DEF RequestInv, StageInv, AskedInv, PendingInv, Waiting, Appending, Asking, Answering
<1> QED BY <1>1, <1>2, <1>3 DEF Apart

\* What nobody has said is in no transcript, unanswered, and no request asks it.
LEMMA UnsaidIsNew == ASSUME IInv, NEW w \in Unsaid
                     PROVE  /\ w \in Words
                            /\ \A i \in Ids : ~Has(i, w) /\ ~Has(i, Reply(w))
                            /\ \A q \in Requests : step[q] # "idle" => call[q].words # w
<1>1. TypeOK /\ AnswersFollowQuestions /\ w \in Words
  BY DEF IInv, Unsaid
<1>2. ASSUME NEW i \in Created PROVE Places(i, w) = {}
  BY <1>2 DEF Unsaid, Said, Places, Created, Transcript
<1>3. ASSUME NEW i \in Created PROVE Places(i, Reply(w)) = {}
  BY <1>1, <1>2 DEF AnswersFollowQuestions
<1>4. \A i \in Ids : ~Has(i, w) /\ ~Has(i, Reply(w))
  BY <1>1, <1>2, <1>3, HasPlaces DEF Has
<1> QED BY <1>1, <1>4 DEF Unsaid

\* Requests that arrive preserve the invariant.
LEMMA Arriving == ASSUME IInv, NEW r \in Requests, Arrive(r) PROVE IInv'
<1>1. TypeOK /\ TypeOK'
  BY ArriveTypes DEF IInv
<1>2. UNCHANGED <<rows, late, context, attempt>>
  BY DEF Arrive, CallCreate, CallRead, CallClose, CallSay, CallChat, Enter
<1>3. Quiet /\ Created' = Created /\ \A i \in Ids : \A c : Has(i, c)' <=> Has(i, c)
  BY <1>2, Standing, QuietHas
<1>4. ASSUME NEW q \in Requests, step[q] = "create" PROVE call[q].id \notin Created'
  BY <1>3, <1>4 DEF IInv, StageInv
<1>5. ASSUME NEW s \in Queries, NEW kind \in Kinds, NEW u \in Users, NEW i \in Ids, NEW w,
             Enter(r, s, kind, u, i, w)
      PROVE  /\ step'[r] = s
             /\ call'[r] = [kind |-> kind, user |-> u, id |-> i, words |-> w]
             /\ \A q \in Requests \ {r} : step'[q] = step[q] /\ call'[q] = call[q]
  BY <1>1, <1>5 DEF Enter, Goto, TypeOK
<1>6. Moved(r)
  <2>1. \A q \in Requests \ {r} : step'[q] = step[q] /\ call'[q] = call[q]
    BY <1>1 DEF Arrive, CallCreate, CallRead, CallClose, CallSay, CallChat, Enter, Goto, TypeOK
  <2>2. \A q \in Requests \ {r} : draft'[q] = draft[q]
    BY <1>1 DEF Arrive, CallCreate, CallRead, CallClose, CallSay, CallChat, TypeOK
  <2> QED BY <1>2, <2>1, <2>2 DEF Moved
<1>7. RequestInv(r)' /\ Apart(r)
  <2> USE DEF Queries, Kinds
  <2> DEFINE Stands(s, kind, u, i, w) ==
        step'[r] = s /\ call'[r] = [kind |-> kind, user |-> u, id |-> i, words |-> w]
  <2>1. CASE CallCreate(r)
    <3>1. PICK u \in Users, i \in Ids \ Created :
            /\ \A q \in Requests : step[q] = "create" => call[q].id # i
            /\ Stands("create", "create", u, i, NoWords)
      BY <1>5, <2>1 DEF CallCreate
    <3>2. RequestInv(r)'
      BY <1>3, <3>1, ConversationsAssumption
      DEF RequestInv, StageInv, AskedInv, PendingInv, Waiting, Appending, Asking, Answering
    <3> QED BY <3>1, <3>2, ConversationsAssumption DEF Apart
  <2>2. CASE CallRead(r) \/ CallClose(r)
    <3>1. PICK kind \in {"read", "close"}, u \in Users, i \in Ids : Stands("find", kind, u, i, NoWords)
      BY <1>5, <2>2 DEF CallRead, CallClose
    <3>2. RequestInv(r)'
      BY <3>1, ConversationsAssumption
      DEF RequestInv, StageInv, AskedInv, PendingInv, Waiting, Appending, Asking, Answering
    <3> QED BY <3>1, <3>2, ConversationsAssumption DEF Apart
  <2>3. CASE CallChat(r)
    <3>1. PICK i \in Ids, w \in Unsaid : Enter(r, "find", "chat", Author[w], i, w)
      BY <2>3 DEF CallChat
    <3>2. /\ w \in Words
          /\ \A j \in Ids : ~Has(j, w) /\ ~Has(j, Reply(w))
          /\ \A q \in Requests : step[q] # "idle" => call[q].words # w
      BY UnsaidIsNew
    <3>3. Stands("find", "chat", Author[w], i, w)
      BY <1>5, <3>1, <3>2, ConversationsAssumption
    <3>4. \A j \in Ids : ~Has(j, w)' /\ ~Has(j, Reply(w))'
      BY <1>3, <3>2
    <3>5. PendingInv(r)'
      BY <3>2, <3>3, <3>4 DEF PendingInv, Answering, Appending
    <3>6. StageInv(r)' /\ AskedInv(r)'
      BY <3>2, <3>3 DEF StageInv, AskedInv, Waiting, Appending, Asking, Answering
    <3> QED BY <3>2, <3>3, <3>5, <3>6 DEF RequestInv, Apart
  <2>4. CASE CallSay(r)
    <3>1. PICK i \in Ids, role \in Roles, u \in Users, w \in Unsaid \cup {Blank} :
            /\ Enter(r, "select", "say", u, i, w)
            /\ draft' = [draft EXCEPT ![r] = [role |-> role, content |-> w]]
            /\ w # Blank => u = Author[w]
      BY <2>4, ConversationsAssumption DEF CallSay, Unsaid
    <3>2. w # Blank =>
            /\ w \in Words
            /\ \A j \in Ids : ~Has(j, w) /\ ~Has(j, Reply(w))
            /\ \A q \in Requests : step[q] # "idle" => call[q].words # w
      BY <3>1, UnsaidIsNew
    <3>3. Stands("select", "say", u, i, w) /\ draft'[r].content = w
      BY <1>1, <1>5, <3>1 DEF TypeOK
    <3>4. w # Blank => \A j \in Ids : ~Has(j, w)' /\ ~Has(j, Reply(w))'
      BY <1>3, <3>2
    <3>5. PendingInv(r)'
      BY <3>1, <3>2, <3>3, <3>4, ConversationsAssumption DEF PendingInv, Answering, Appending
    <3>6. StageInv(r)' /\ AskedInv(r)'
      BY <3>2, <3>3 DEF StageInv, AskedInv, Waiting, Appending, Asking, Answering
    <3>7. w \in Words => w # Blank
      BY ConversationsAssumption
    <3> QED BY <3>2, <3>3, <3>5, <3>6, <3>7 DEF RequestInv, Apart
  <2> QED BY <2>1, <2>2, <2>3, <2>4 DEF Arrive
<1> QED BY <1>1, <1>3, <1>4, <1>6, <1>7, QuietStep

\* From one await to the next, with nothing stored.
LEMMA Proceeding ==
  ASSUME IInv, TypeOK', NEW r \in Requests, step[r] # "idle", NEW s \in Queries \cup AtEngine, s # "create",
         Goto(r, s), UNCHANGED <<rows, call, late>>,
         \A q \in Requests \ {r} : draft'[q] = draft[q] /\ context'[q] = context[q] /\ attempt'[q] = attempt[q],
         RequestInv(r)'
  PROVE  IInv'
<1>1. TypeOK /\ Distinct
  BY DEF IInv
<1>2. Moved(r) /\ step'[r] = s
  BY <1>1 DEF Goto, Moved, TypeOK
<1>3. Apart(r)
  BY <1>1, <1>2 DEF Apart, Distinct
<1>4. Quiet /\ Created' = Created
  BY Standing
<1>5. \A q \in Requests : step[q] = "create" => call[q].id \notin Created'
  BY <1>4 DEF IInv, StageInv
<1> QED BY <1>2, <1>3, <1>4, <1>5, QuietStep

\* So does the check before a read or a close.
LEMMA FindStep == ASSUME IInv, NEW r \in Requests, Find(r) PROVE IInv'
<1>1. TypeOK /\ TypeOK' /\ RequestInv(r) /\ step[r] = "find"
  BY ServeTypes DEF IInv, RequestInv, Proceed, Find
<1>2. UNCHANGED <<rows, late>> /\ Quiet /\ Created' = Created /\ \A i \in Ids : \A c : Has(i, c)' <=> Has(i, c)
  BY Standing, QuietHas DEF Find
<1>3. \A q \in Requests : step[q] = "create" => call[q].id \notin Created'
  BY <1>2 DEF IInv, StageInv
<1>4. ASSUME NEW w, w = call[r].words, UNCHANGED call, step'[r] \in {"close", "select"},
             step'[r] = "select" => draft'[r].role = "user"
      PROVE  PendingInv(r)'
  <2>1. w \in Words => /\ call[r].user = Author[w]
                        /\ \A i \in Ids : ~Has(i, w) /\ ~Has(i, Reply(w))
    BY <1>1, <1>4 DEF RequestInv, PendingInv, Waiting, Answering, Appending
  <2>2. w \in Words => \A i \in Ids : ~Has(i, w)' /\ ~Has(i, Reply(w))'
    BY <1>2, <2>1
  <2>3. ~Answering(r)'
    BY <1>4 DEF Answering, Appending
  <2> QED BY <1>4, <2>1, <2>2, <2>3 DEF PendingInv
<1>5. CASE Leave(r)
  BY <1>1, <1>2, <1>3, <1>5, Leaving, QuietStep
<1>6. CASE Owned(r) /\ Goto(r, "close") /\ UNCHANGED <<call, draft, context, attempt>>
  <2>1. step'[r] = "close" /\ Owned(r)'
    BY <1>1, <1>2, <1>6 DEF Goto, TypeOK, Owned
  <2>2. RequestInv(r)'
    BY <1>4, <1>6, <2>1 DEF RequestInv, StageInv, AskedInv, Waiting, Appending, Asking, Answering
  <2> QED BY <1>1, <1>2, <1>6, <2>2, Proceeding DEF Queries
<1>7. CASE /\ Owned(r)
           /\ call[r].kind = "chat"
           /\ Goto(r, "select")
           /\ draft' = [draft EXCEPT ![r] = [role |-> "user", content |-> call[r].words]]
           /\ UNCHANGED <<call, context, attempt>>
  <2>1. step'[r] = "select" /\ draft'[r] = [role |-> "user", content |-> call[r].words]
    BY <1>1, <1>7 DEF Goto, TypeOK
  <2>2. call[r].words \in Words
    BY <1>1, <1>7 DEF RequestInv, StageInv
  <2>3. StageInv(r)' /\ AskedInv(r)'
    BY <1>7, <2>1, <2>2 DEF StageInv, AskedInv, Waiting, Appending, Asking, Answering
  <2>4. RequestInv(r)'
    BY <1>4, <1>7, <2>1, <2>3 DEF RequestInv
  <2>5. \A q \in Requests \ {r} : draft'[q] = draft[q] /\ context'[q] = context[q] /\ attempt'[q] = attempt[q]
    BY <1>1, <1>7 DEF TypeOK
  <2> QED BY <1>1, <1>2, <1>7, <2>4, <2>5, Proceeding DEF Queries
<1> QED BY <1>5, <1>6, <1>7 DEF Find

\* So does the check before a message is appended.
LEMMA SelectStep == ASSUME IInv, NEW r \in Requests, Select(r) PROVE IInv'
<1>1. TypeOK /\ TypeOK' /\ RequestInv(r) /\ step[r] = "select" /\ LateInv
  BY ServeTypes DEF IInv, RequestInv, Proceed, Select
<1>2. UNCHANGED <<rows, late>> /\ Quiet /\ Created' = Created /\ \A i \in Ids : \A c : Has(i, c)' <=> Has(i, c)
  BY Standing, QuietHas DEF Select
<1>3. \A q \in Requests : step[q] = "create" => call[q].id \notin Created'
  BY <1>2 DEF IInv, StageInv
<1>4. CASE Leave(r)
  BY <1>1, <1>2, <1>3, <1>4, Leaving, QuietStep
<1>5. CASE Appendable(r) /\ Goto(r, "append") /\ UNCHANGED <<call, draft, context, attempt>>
  <2>1. step'[r] = "append" /\ Owned(r) /\ Owned(r)' /\ call[r].id \in Ids
    BY <1>1, <1>2, <1>5 DEF Goto, TypeOK, Owned, Appendable, Created
  <2>2. (Asking(r)' <=> Asking(r)) /\ (Answering(r)' <=> Answering(r)) /\ Appending(r) /\ Appending(r)'
        /\ ~Waiting(r) /\ ~Waiting(r)'
    BY <1>1, <1>5, <2>1 DEF Asking, Answering, Appending, Waiting
  <2>3. StageInv(r)'
    BY <1>1, <1>5, <2>1, <2>2 DEF RequestInv, StageInv, Appendable
  <2> DEFINE w == call[r].words
  <2>4. AskedInv(r)'
    <3>1. Answering(r) => w \in Words /\ Has(call[r].id, w)
      BY <1>1 DEF RequestInv, AskedInv
    <3>2. Answering(r) => Has(call[r].id, w)'
      BY <1>2, <1>5, <3>1 DEF Has, Transcript, Created
    <3> QED BY <1>5, <2>1, <2>2, <3>1, <3>2 DEF AskedInv
  <2>5. PendingInv(r)'
    <3> SUFFICES ASSUME w \in Words, NEW v, v = w
                 PROVE  /\ call[r].user = Author[v]
                        /\ \A i \in Ids : ~Has(i, Reply(v))'
                        /\ ~Answering(r) => \A i \in Ids : ~Has(i, v)'
                        /\ Answering(r) => <<call[r].id, v>> \notin late
      BY <1>2, <1>5, <2>2 DEF PendingInv
    <3>1. /\ call[r].user = Author[v]
          /\ \A i \in Ids : ~Has(i, Reply(v))
          /\ ~Answering(r) => \A i \in Ids : ~Has(i, v)
      BY <1>1, <2>2 DEF RequestInv, PendingInv
    <3>2. <<call[r].id, v>> \notin late
      BY <1>1, <1>5, <2>1 DEF LateInv, Appendable
    <3> QED BY <1>2, <3>1, <3>2
  <2> QED BY <1>1, <1>2, <1>5, <2>3, <2>4, <2>5, Proceeding DEF RequestInv, Queries
<1> QED BY <1>4, <1>5 DEF Select

\* So does the end of a request, whatever ends it.
LEMMA LeaveStep == ASSUME IInv, NEW r \in Requests, GiveUp(r) \/ Abort(r) \/ QueryFails(r) PROVE IInv'
<1>1. TypeOK /\ TypeOK' /\ Leave(r)
  BY ServeTypes DEF IInv, Proceed, Provide, GiveUp, Abort, QueryFails
<1>2. Quiet /\ Created' = Created
  BY Standing DEF GiveUp, Abort, QueryFails
<1>3. \A q \in Requests : step[q] = "create" => call[q].id \notin Created'
  BY <1>2 DEF IInv, StageInv
<1> QED BY <1>1, <1>2, <1>3, Leaving, QuietStep

\* So do the steps of a chat around its engine.
LEMMA EngineStep == ASSUME IInv, NEW r \in Requests, Recall(r) \/ Answer(r) \/ Fail(r) \/ Retry(r)
                    PROVE  IInv'
<1>1. TypeOK /\ TypeOK' /\ RequestInv(r) /\ Waiting(r)
  BY ServeTypes DEF IInv, RequestInv, Proceed, Provide, Waiting, Recall, Answer, Fail, Retry
<1>2. UNCHANGED <<rows, late, call, context>> /\ \A i \in Ids : \A c : Has(i, c)' <=> Has(i, c)
  BY Standing, QuietHas DEF Recall, Answer, Fail, Retry
<1>3. ASSUME NEW w, w = call[r].words, step'[r] # "append", Waiting(r)' \/ Answering(r)'
      PROVE  AskedInv(r)' /\ PendingInv(r)'
  <2>1. /\ w \in Words /\ Owned(r) /\ Has(call[r].id, w)
        /\ context[r] # <<>>
        /\ Last(context[r]) = [role |-> "user", content |-> w]
        /\ IsPrefix(context[r], Transcript(call[r].id))
    BY <1>1, <1>3 DEF RequestInv, AskedInv
  <2>2. Owned(r)' /\ Has(call[r].id, w)' /\ Transcript(call[r].id)' = Transcript(call[r].id)
    BY <1>2, <2>1 DEF Owned, Has, Created, Transcript
  <2>3. AskedInv(r)'
    BY <1>2, <1>3, <2>1, <2>2 DEF AskedInv
  <2>4. step[r] # "idle"
    BY <1>1 DEF Waiting
  <2>5. call[r].user = Author[w] /\ \A i \in Ids : ~Has(i, Reply(w))
    BY <1>1, <1>3, <2>1, <2>4 DEF RequestInv, PendingInv
  <2>6. \A i \in Ids : ~Has(i, Reply(w))'
    BY <1>2, <2>5
  <2>7. PendingInv(r)'
    BY <1>2, <1>3, <2>5, <2>6 DEF PendingInv
  <2> QED BY <2>3, <2>7
<1>4. CASE Recall(r) \/ Fail(r) \/ Retry(r)
  <2>1. step'[r] \in {"engine", "pause"} /\ (step'[r] = "pause" => attempt'[r] < MaxAttempts)
    BY <1>1, <1>4 DEF Recall, Fail, Retry, Goto, TypeOK, MayRetry
  <2>2. StageInv(r)'
    BY <1>1, <1>2, <2>1 DEF RequestInv, StageInv, Waiting, Appending
  <2>3. AskedInv(r)' /\ PendingInv(r)'
    BY <1>3, <2>1 DEF Waiting
  <2>4. PICK s \in {"engine", "pause"} : Goto(r, s)
    BY <1>4 DEF Recall, Fail, Retry
  <2>5. \A q \in Requests \ {r} : draft'[q] = draft[q] /\ context'[q] = context[q] /\ attempt'[q] = attempt[q]
    BY <1>1, <1>4 DEF Recall, Fail, Retry, TypeOK
  <2> QED BY <1>1, <1>2, <2>2, <2>3, <2>4, <2>5, Proceeding DEF RequestInv, AtEngine, Waiting
<1>5. CASE Answer(r)
  <2>1. call[r].kind = "chat" /\ call[r].words \in Words /\ Question(r) = call[r].words
    BY <1>1 DEF RequestInv, StageInv, AskedInv, Question
  <2>2. step'[r] = "select" /\ draft'[r] = [role |-> "assistant", content |-> Reply(call[r].words)]
    BY <1>1, <1>5, <2>1 DEF Answer, Goto, TypeOK
  <2>3. Answering(r)' /\ ~Asking(r)' /\ ~Waiting(r)'
    BY <1>2, <2>1, <2>2, ConversationsAssumption DEF Answering, Asking, Appending, Waiting, Replies
  <2>4. StageInv(r)'
    BY <1>2, <2>1, <2>2, <2>3 DEF StageInv
  <2>5. AskedInv(r)' /\ PendingInv(r)'
    BY <1>3, <2>2, <2>3
  <2>6. \A q \in Requests \ {r} : draft'[q] = draft[q] /\ context'[q] = context[q] /\ attempt'[q] = attempt[q]
    BY <1>1, <1>5 DEF Answer, TypeOK
  <2>7. Goto(r, "select")
    BY <1>5 DEF Answer
  <2> QED BY <1>1, <1>2, <2>4, <2>5, <2>6, <2>7, Proceeding DEF RequestInv, Queries, Waiting
<1> QED BY <1>4, <1>5

\* So does the INSERT of a conversation.
LEMMA CreateStep == ASSUME IInv, NEW r \in Requests, Create(r) PROVE IInv'
<1>1. TypeOK /\ TypeOK' /\ Distinct /\ RequestInv(r)
  BY ServeTypes DEF IInv, RequestInv, Proceed
<1> DEFINE i == call[r].id
           new == [user |-> call[r].user, status |-> "active", messages |-> <<>>]
<1>2. i \in Ids \ Created /\ step[r] = "create" /\ call[r].user \in Users
  BY <1>1, AtWork DEF Create, Call, RequestInv, StageInv
<1>3. new \in Row
  <2>1. <<>> \in Seq(Message)
    OBVIOUS
  <2> QED BY <1>2, <2>1 DEF Row
<1>4. rows' = [rows EXCEPT ![i] = new] /\ UNCHANGED late /\ Leave(r)
  BY DEF Create
<1> HIDE DEF i
<1>5. new.messages = <<>>
  OBVIOUS
<1> HIDE DEF new
<1>6. Created' = Created \cup {i}
  BY <1>1, <1>2, <1>3, <1>4, NoRowAssumption DEF Created, TypeOK
<1>7. Quiet
  BY <1>1, <1>2, <1>4, <1>5, <1>6 DEF Quiet, TypeOK, Created
<1>8. \A q \in Requests \ {r} : step[q] = "create" => call[q].id \notin Created'
  BY <1>1, <1>2, <1>6 DEF IInv, StageInv, Distinct, i
<1> QED BY <1>1, <1>4, <1>7, <1>8, Leaving, QuietStep

\* So does the UPDATE that closes one.
LEMMA CloseStep == ASSUME IInv, NEW r \in Requests, Close(r) PROVE IInv'
<1>1. TypeOK /\ TypeOK'
  BY ServeTypes DEF IInv, Proceed
<1> DEFINE i == call[r].id
           new == [rows[i] EXCEPT !.status = "closed"]
<1>2. i \in Created /\ rows[i] \in Row
  BY <1>1, CreatedRow DEF IInv, StageInv, Owned, Close
<1>3. new \in Row /\ new.user = rows[i].user /\ new.messages = rows[i].messages /\ new.status = "closed"
  BY <1>2 DEF Row
<1>4. rows' = [rows EXCEPT ![i] = new] /\ UNCHANGED late /\ Leave(r)
  BY DEF Close
<1> HIDE DEF i, new
<1>5. Created' = Created
  BY <1>1, <1>2, <1>3, <1>4, NoRowAssumption DEF Created, TypeOK
<1>6. Quiet
  BY <1>1, <1>2, <1>3, <1>4, <1>5 DEF Quiet, TypeOK, Created
<1>7. \A q \in Requests \ {r} : step[q] = "create" => call[q].id \notin Created'
  BY <1>5 DEF IInv, StageInv
<1> QED BY <1>1, <1>4, <1>6, <1>7, Leaving, QuietStep

-----------------------------------------------------------------------------
(* The step that adds a message *)

\* What is appended, and by whom.
LEMMA AppendedMessage ==
  ASSUME IInv, NEW r \in Requests, AppendMessage(r)
  PROVE  /\ step[r] = "append" /\ Owned(r) /\ call[r].words \in Words /\ ~Waiting(r)
         /\ draft[r] \in Message
         /\ \/ Asking(r) /\ ~Answering(r) /\ draft[r].content = call[r].words
            \/ Answering(r) /\ ~Asking(r) /\ draft[r].content = Reply(call[r].words)
<1>1. step[r] = "append" /\ StageInv(r)
  BY DEF AppendMessage, IInv
<1>2. Owned(r) /\ draft[r].content # Blank /\ (Asking(r) \/ Answering(r)) /\ ~Waiting(r)
      /\ call[r].words \in Words \cup {Blank} /\ (call[r].kind = "chat" => call[r].words \in Words)
  BY <1>1 DEF StageInv, Appending, Waiting
<1>3. call[r].words \in Words
  BY <1>2 DEF Asking, Answering
<1>4. draft[r].content = call[r].words => draft[r].content # Reply(call[r].words)
  BY <1>3, ConversationsAssumption DEF Replies
<1> QED BY <1>1, <1>2, <1>3, <1>4, AppendTypes DEF Asking, Answering

\* An appended message is the last of its conversation; no other one changes.
LEMMA AppendedRow ==
  ASSUME IInv, NEW r \in Requests, AppendMessage(r), NEW i, i = call[r].id, NEW c, c = draft[r].content
  PROVE  /\ i \in Created /\ Created' = Created
         /\ \A j \in Created : rows'[j].user = rows[j].user /\ rows'[j].status = rows[j].status
         /\ \A j \in Created \ {i} : rows'[j] = rows[j]
         /\ rows'[i].messages = Extended(r)
         /\ \A j \in Created : \A d :
              Places(j, d)' = IF j = i /\ d = c THEN Places(j, d) \cup {Len(Transcript(i)) + 1}
                              ELSE Places(j, d)
         /\ \A j \in Ids : \A d : Has(j, d)' <=> Has(j, d) \/ (j = i /\ d = c)
<1>1. TypeOK /\ TypeOK'
  BY ServeTypes DEF IInv, Proceed
<1>2. i \in Created /\ draft[r] \in Message /\ Extended(r) \in Seq(Message)
  BY AppendTypes DEF AppendMessage
<1> DEFINE new == [rows[i] EXCEPT !.messages = Extended(r)]
<1>3. rows' = [rows EXCEPT ![i] = new] /\ i \in Ids /\ rows[i] \in Row
  BY <1>1, <1>2, CreatedRow DEF AppendMessage
<1>4. new \in Row /\ new.user = rows[i].user /\ new.status = rows[i].status /\ new.messages = Extended(r)
  BY <1>2, <1>3 DEF Row
<1> HIDE DEF new
<1>5. Created' = Created
  BY <1>1, <1>2, <1>3, <1>4, NoRowAssumption DEF Created, TypeOK
<1>6. rows'[i] = new /\ \A j \in Created \ {i} : rows'[j] = rows[j]
  BY <1>1, <1>3 DEF TypeOK, Created
<1>7. ASSUME NEW j \in Created, NEW d
      PROVE  Places(j, d)' = IF j = i /\ d = c THEN Places(j, d) \cup {Len(Transcript(i)) + 1}
                             ELSE Places(j, d)
  <2>1. CASE j # i
    BY <1>6, <2>1 DEF Places, Transcript
  <2>2. CASE j = i
    <3> DEFINE T == Transcript(i)
               n == Len(T)
    <3>1. T \in Seq(Message) /\ n \in Nat /\ DOMAIN T = 1..n
      BY <1>1, <1>2, CreatedRow, LenProperties
    <3>2. Extended(r) = Append(T, draft[r])
      BY DEF Extended, Transcript
    <3>3. /\ Len(Extended(r)) = n + 1
          /\ \A k \in 1..n : Extended(r)[k] = T[k]
          /\ Extended(r)[n + 1] = draft[r]
      BY <1>2, <3>1, <3>2, AppendProperties
    <3>4. DOMAIN Extended(r) = 1..(n + 1)
      BY <1>2, <3>3, LenProperties
    <3>5. Places(j, d) = {k \in 1..n : T[k].content = d}
      BY <2>2, <3>1 DEF Places
    <3>6. Places(j, d)' = {k \in 1..(n + 1) : Extended(r)[k].content = d}
      BY <1>4, <1>6, <2>2, <3>4 DEF Places, Transcript
    <3> HIDE DEF T, n
    <3>7. Places(j, d)' = IF d = c THEN Places(j, d) \cup {n + 1} ELSE Places(j, d)
      BY <3>1, <3>3, <3>5, <3>6
    <3> QED BY <2>2, <3>7 DEF n, T
  <2> QED BY <2>1, <2>2
<1>8. ASSUME NEW j \in Ids, NEW d
      PROVE  Has(j, d)' <=> Has(j, d) \/ (j = i /\ d = c)
  <2>1. CASE j \in Created
    <3>1. Has(j, d) <=> Places(j, d) # {}
      BY <1>1, <2>1, HasPlaces
    <3>2. Transcript(j)' \in Seq(Message)
      BY <1>1, <1>2, <1>4, <1>6, <2>1, CreatedRow DEF Transcript
    <3>3. Has(j, d)' <=> Places(j, d)' # {}
      BY <1>5, <2>1, <3>2, LenProperties DEF Has, Places
    <3> QED BY <1>7, <2>1, <3>1, <3>3
  <2>2. CASE j \notin Created
    BY <1>2, <1>5, <2>2 DEF Has
  <2> QED BY <2>1, <2>2
<1> QED BY <1>2, <1>4, <1>5, <1>6, <1>7, <1>8

\* What has been said stays in order: an answer comes once, after its question,
\* to its owner, and never to a question that came late.
LEMMA AppendSpoken == ASSUME IInv, NEW r \in Requests, AppendMessage(r) PROVE SpokenInv'
<1>1. TypeOK /\ SpokenInv /\ RequestInv(r)
  BY DEF IInv, SpokenInv, RequestInv
<1> SUFFICES ASSUME NEW i, i = call[r].id, NEW c, c = draft[r].content, NEW v, v = call[r].words
             PROVE  SpokenInv'
  OBVIOUS
<1>2. /\ step[r] = "append" /\ Owned(r) /\ v \in Words
      /\ \/ c = v /\ ~Answering(r) /\ ~Waiting(r)
         \/ c = Reply(v) /\ Answering(r)
  BY AppendedMessage
<1>2a. v # Reply(v) /\ \A w \in Words : w # Reply(v) /\ Reply(w) # v
  BY <1>2, ConversationsAssumption DEF Replies
<1>3. i \in Created /\ rows[i].user = call[r].user
  BY <1>2 DEF Owned
<1>4. /\ Created' = Created
      /\ \A j \in Created : rows'[j].user = rows[j].user /\ rows'[j].status = rows[j].status
      /\ \A j \in Created : \A d :
           Places(j, d)' = IF j = i /\ d = c THEN Places(j, d) \cup {Len(Transcript(i)) + 1} ELSE Places(j, d)
      /\ \A j \in Ids : \A d : Has(j, d)' <=> Has(j, d) \/ (j = i /\ d = c)
  BY AppendedRow
<1>5. /\ call[r].user = Author[v]
      /\ \A j \in Ids : ~Has(j, Reply(v))
      /\ c = v => \A j \in Ids : ~Has(j, v)
      /\ c = Reply(v) => <<i, v>> \notin late
  BY <1>1, <1>2, <1>2a DEF RequestInv, PendingInv
<1>6. \A j \in Created : Places(j, Reply(v)) = {}
  BY <1>1, <1>5, HasPlaces DEF Created
<1>7. c = Reply(v) => Places(i, v) # {} /\ \A k \in Places(i, v) : k < Len(Transcript(i)) + 1
  <2>1. c = Reply(v) => Has(i, v)
    BY <1>1, <1>2, <1>2a DEF RequestInv, AskedInv
  <2>2. Len(Transcript(i)) \in Nat
    BY <1>1, <1>3, CreatedRow, LenProperties
  <2> QED BY <1>1, <1>3, <2>1, <2>2, HasPlaces
<1>8. \A w \in Words : Reply(w) = Reply(v) => w = v
  BY DEF Reply
<1>10. late' = late \/ (late' = late \cup {<<i, v>>} /\ c = v /\ rows[i].status = "closed")
  BY <1>2, <1>2a, ConversationsAssumption DEF AppendMessage, Replies
<1> HIDE DEF Places
<1>11. AnswersFollowQuestions'
  <2> SUFFICES ASSUME NEW j \in Created, NEW w \in Words, NEW k \in Places(j, Reply(w))'
               PROVE  Places(j, Reply(w))' = {k} /\ \E l \in Places(j, w)' : l < k
    BY <1>4 DEF AnswersFollowQuestions
  <2>1. Places(j, w) \subseteq Places(j, w)'
    BY <1>4
  <2>2. CASE j = i /\ Reply(w) = c
    <3>1. w = v /\ c = Reply(v)
      BY <1>2, <1>8, <1>2a, <2>2
    <3>2. Places(j, Reply(w))' = {Len(Transcript(i)) + 1}
      BY <1>4, <1>6, <2>2, <3>1
    <3> QED BY <1>7, <2>1, <2>2, <3>1, <3>2
  <2>3. CASE ~(j = i /\ Reply(w) = c)
    BY <1>1, <1>4, <2>1, <2>3 DEF SpokenInv, AnswersFollowQuestions
  <2> QED BY <2>2, <2>3
<1>12. NoAnswerAfterClose'
  <2> SUFFICES ASSUME NEW j \in Created, NEW w \in Words, Places(j, Reply(w))' # {}
               PROVE  <<j, w>> \notin late'
    BY <1>4 DEF NoAnswerAfterClose
  <2>1. CASE j = i /\ Reply(w) = c
    <3>1. w = v /\ c = Reply(v)
      BY <1>2, <1>8, <1>2a, <2>1
    <3> QED BY <1>5, <1>2a, <1>10, <2>1, <3>1
  <2>2. CASE ~(j = i /\ Reply(w) = c)
    <3>1. Places(j, Reply(w)) # {}
      BY <1>4, <2>2
    <3>2. w # v
      BY <1>6, <3>1
    <3>3. <<j, w>> \notin late
      BY <1>1, <3>1 DEF SpokenInv, NoAnswerAfterClose
    <3> QED BY <1>10, <3>2, <3>3
  <2> QED BY <2>1, <2>2
<1>13. OnlyTheOwnerSpeaks'
  <2> SUFFICES ASSUME NEW j \in Created, NEW w \in Words, Places(j, w)' \cup Places(j, Reply(w))' # {}
               PROVE  Author[w] = rows[j].user
    BY <1>4 DEF OnlyTheOwnerSpeaks
  <2>1. CASE j = i /\ c \in {w, Reply(w)}
    <3>1. w = v
      BY <1>2, <1>8, <1>2a, <2>1
    <3> QED BY <1>3, <1>5, <2>1, <3>1
  <2>2. CASE ~(j = i /\ c \in {w, Reply(w)})
    <3>1. Places(j, w)' = Places(j, w) /\ Places(j, Reply(w))' = Places(j, Reply(w))
      BY <1>4, <2>2
    <3> QED BY <1>1, <3>1 DEF SpokenInv, OnlyTheOwnerSpeaks
  <2> QED BY <2>1, <2>2
<1>14. LateInv'
  <2> SUFFICES ASSUME NEW j \in Ids, NEW w \in Words, <<j, w>> \in late'
               PROVE  Has(j, w)' /\ rows'[j].status = "closed"
    BY DEF LateInv
  <2>1. CASE <<j, w>> \in late
    <3>1. Has(j, w) /\ rows[j].status = "closed"
      BY <1>1, <2>1 DEF SpokenInv, LateInv
    <3> QED BY <1>4, <3>1 DEF Has
  <2>2. CASE <<j, w>> \notin late
    <3>1. j = i /\ w = v /\ c = v /\ rows[i].status = "closed"
      BY <1>10, <2>2
    <3> QED BY <1>3, <1>4, <3>1
  <2> QED BY <2>1, <2>2
<1> QED BY <1>11, <1>12, <1>13, <1>14 DEF SpokenInv

\* The others see one more message, which is none of theirs.
LEMMA AppendOther == ASSUME IInv, NEW r \in Requests, AppendMessage(r), NEW q \in Requests \ {r}, Moved(r)
                     PROVE  RequestInv(q)'
<1>1. TypeOK /\ RequestInv(q) /\ Distinct
  BY DEF IInv, RequestInv
<1> SUFFICES ASSUME NEW i, i = call[r].id, NEW c, c = draft[r].content, NEW v, v = call[r].words,
                    NEW j, j = call[q].id, NEW w, w = call[q].words
             PROVE  RequestInv(q)'
  OBVIOUS
<1>2. /\ step[r] = "append" /\ Owned(r) /\ v \in Words /\ draft[r] \in Message
      /\ \/ c = v
         \/ c = Reply(v)
  BY AppendedMessage
<1>3. /\ i \in Created /\ Created' = Created
      /\ \A k \in Created : rows'[k].user = rows[k].user
      /\ \A k \in Created \ {i} : rows'[k] = rows[k]
      /\ rows'[i].messages = Extended(r)
      /\ \A k \in Ids : \A d : Has(k, d)' <=> Has(k, d) \/ (k = i /\ d = c)
  BY AppendedRow
<1>4. /\ step'[q] = step[q] /\ call'[q] = call[q] /\ draft'[q] = draft[q]
      /\ context'[q] = context[q] /\ attempt'[q] = attempt[q]
  BY DEF Moved
<1>5. (Waiting(q)' <=> Waiting(q)) /\ (Appending(q)' <=> Appending(q))
      /\ (Asking(q)' <=> Asking(q)) /\ (Answering(q)' <=> Answering(q))
  BY <1>4 DEF Waiting, Appending, Asking, Answering
<1>6. Owned(q)' <=> Owned(q)
  BY <1>3, <1>4 DEF Owned
<1>7. StageInv(q)'
  BY <1>1, <1>3, <1>4, <1>5, <1>6 DEF RequestInv, StageInv
<1>8. AskedInv(q)'
  <2>1. ASSUME Waiting(q) \/ Answering(q)
        PROVE  w \in Words /\ Owned(q)' /\ Has(j, w)'
    <3>1. w \in Words /\ Owned(q) /\ Has(j, w) /\ j \in Ids
      BY <1>1, <2>1 DEF RequestInv, AskedInv, Has, Created
    <3> QED BY <1>3, <1>6, <3>1
  <2>2. ASSUME Waiting(q)
        PROVE  /\ context'[q] # <<>>
               /\ Last(context'[q]) = [role |-> "user", content |-> w]
               /\ IsPrefix(context'[q], Transcript(j)')
    <3>1. j \in Created /\ IsPrefix(context[q], Transcript(j))
      BY <1>1, <2>2 DEF RequestInv, AskedInv, Owned
    <3>2. IsPrefix(context[q], Transcript(j)')
      <4>1. CASE j # i
        BY <1>3, <3>1, <4>1 DEF Transcript
      <4>2. CASE j = i
        <5> DEFINE T == Transcript(i)
        <5>1. context[q] \in Seq(Message) /\ T \in Seq(Message)
          BY <1>1, <1>3, CreatedRow DEF TypeOK
        <5>2. Transcript(i)' = Append(T, draft[r])
          BY <1>3 DEF Transcript, Extended
        <5>3. IsPrefix(context[q], Append(T, draft[r]))
          <6> HIDE DEF T
          <6>1. /\ Append(T, draft[r]) \in Seq(Message)
                /\ Len(Append(T, draft[r])) = Len(T) + 1
                /\ \A k \in 1..Len(T) : Append(T, draft[r])[k] = T[k]
            BY <1>2, <5>1, AppendProperties
          <6>2. Len(context[q]) \in Nat /\ Len(T) \in Nat
            BY <5>1, LenProperties
          <6>3. Len(context[q]) <= Len(T) /\ \A k \in 1..Len(context[q]) : context[q][k] = T[k]
            BY <3>1, <4>2, <5>1, PrefixByElements DEF T
          <6>4. /\ Len(context[q]) <= Len(Append(T, draft[r]))
                /\ \A k \in 1..Len(context[q]) : context[q][k] = Append(T, draft[r])[k]
            BY <6>1, <6>2, <6>3
          <6> QED BY <5>1, <6>1, <6>4, PrefixByElements
        <5> QED BY <4>2, <5>2, <5>3
      <4> QED BY <4>1, <4>2
    <3> QED BY <1>1, <1>4, <2>2, <3>2 DEF RequestInv, AskedInv
  <2>3. call'[q].id = j /\ call'[q].words = w
    BY <1>4
  <2> QED BY <1>5, <2>1, <2>2, <2>3 DEF AskedInv
<1>9. PendingInv(q)'
  <2> SUFFICES ASSUME step[q] # "idle", w \in Words
               PROVE  /\ call'[q].user = Author[w]
                      /\ \A k \in Ids : ~Has(k, Reply(w))'
                      /\ ~Waiting(q) /\ ~Answering(q) => \A k \in Ids : ~Has(k, w)'
                      /\ Answering(q) /\ step[q] = "append" => <<j, w>> \notin late'
    BY <1>4, <1>5 DEF PendingInv
  <2>1. /\ call[q].user = Author[w]
        /\ \A k \in Ids : ~Has(k, Reply(w))
        /\ ~Waiting(q) /\ ~Answering(q) => \A k \in Ids : ~Has(k, w)
        /\ Answering(q) /\ step[q] = "append" => <<j, w>> \notin late
    BY <1>1 DEF RequestInv, PendingInv
  <2>2. w # v
    BY <1>1, <1>2 DEF Distinct
  <2>3. c # w /\ c # Reply(w)
    BY <1>2, <2>2, ConversationsAssumption DEF Replies, Reply
  <2>4. <<j, w>> \in late' => <<j, w>> \in late
    BY <2>3 DEF AppendMessage
  <2> QED BY <1>3, <1>4, <2>1, <2>3, <2>4
<1> QED BY <1>7, <1>8, <1>9 DEF RequestInv

\* The UPDATE that appends a message preserves the invariant.
LEMMA AppendStep == ASSUME IInv, NEW r \in Requests, AppendMessage(r) PROVE IInv'
<1>1. TypeOK /\ TypeOK' /\ RequestInv(r) /\ Distinct
  BY ServeTypes DEF IInv, RequestInv, Proceed
<1>2. Moved(r) /\ (step'[r] # "idle" => step'[r] = "recall" /\ call'[r] = call[r])
  BY <1>1 DEF AppendMessage, Leave, Goto, Moved, TypeOK
<1>3. SpokenInv'
  BY AppendSpoken
<1>4. \A q \in Requests \ {r} : RequestInv(q)'
  BY <1>2, AppendOther
<1>5. RequestInv(r)'
  <2>1. CASE Leave(r)
    BY <1>1, <2>1, Leaving
  <2>2. CASE /\ IsQuestion(r)
             /\ context' = [context EXCEPT ![r] = Extended(r)]
             /\ Goto(r, "recall")
             /\ UNCHANGED <<call, draft, attempt>>
    <3> SUFFICES ASSUME NEW i, i = call[r].id, NEW v, v = call[r].words, NEW c, c = draft[r].content
                 PROVE  RequestInv(r)'
      OBVIOUS
    <3>1. step'[r] = "recall" /\ call'[r] = call[r] /\ context'[r] = Extended(r)
      BY <1>1, <2>2 DEF Goto, TypeOK
    <3>2. /\ step[r] = "append" /\ Owned(r) /\ v \in Words /\ draft[r] \in Message
          /\ Asking(r) /\ ~Answering(r) /\ c = v
      BY <2>2, AppendedMessage, ConversationsAssumption DEF IsQuestion, Replies
    <3>3. /\ i \in Created /\ Created' = Created
          /\ \A k \in Created : rows'[k].user = rows[k].user
          /\ rows'[i].messages = Extended(r)
          /\ \A k \in Ids : \A d : Has(k, d)' <=> Has(k, d) \/ (k = i /\ d = c)
      BY AppendedRow
    <3>4. Owned(r)' /\ Waiting(r)' /\ ~Appending(r)'
      BY <3>1, <3>2, <3>3 DEF Owned, Waiting, Appending
    <3>5. draft[r] = [role |-> "user", content |-> v] /\ call[r].kind = "chat"
      BY <1>1, <2>2, <3>2 DEF IsQuestion, RequestInv, StageInv, Message, Appending
    <3>6. StageInv(r)'
      BY <3>1, <3>4, <3>5 DEF StageInv
    <3>7. AskedInv(r)'
      <4>1. Has(i, v)'
        BY <3>2, <3>3 DEF Created
      <4>2. Transcript(i)' = Extended(r)
        BY <3>3 DEF Transcript
      <4>3. Extended(r) \in Seq(Message) /\ Extended(r) # <<>> /\ Last(Extended(r)) = draft[r]
        <5>1. Transcript(i) \in Seq(Message)
          BY <1>1, <3>3, CreatedRow
        <5> QED BY <3>2, <5>1, Appended DEF Extended, Transcript
      <4>4. Len(Extended(r)) \in Nat
        BY <4>3, LenProperties
      <4>5. IsPrefix(Extended(r), Extended(r))
        BY <4>3, <4>4, PrefixByElements
      <4>6. IsPrefix(context'[r], Transcript(i)')
        BY <3>1, <4>2, <4>5
      <4>7. call'[r].id = i /\ call'[r].words = v
        BY <3>1
      <4> QED BY <3>1, <3>2, <3>4, <3>5, <4>1, <4>3, <4>6, <4>7 DEF AskedInv, Answering
    <3>8. PendingInv(r)'
      <4>1. call[r].user = Author[v] /\ \A k \in Ids : ~Has(k, Reply(v))
        BY <1>1, <3>2 DEF RequestInv, PendingInv
      <4>2. c # Reply(v)
        BY <3>2, ConversationsAssumption DEF Replies
      <4>3. \A k \in Ids : ~Has(k, Reply(v))'
        BY <3>3, <4>1, <4>2
      <4>4. call'[r].id = i /\ call'[r].words = v /\ call'[r].user = Author[v] /\ ~Answering(r)'
        BY <3>1, <3>4, <4>1 DEF Answering
      <4> QED BY <3>4, <4>3, <4>4 DEF PendingInv
    <3> QED BY <3>6, <3>7, <3>8 DEF RequestInv
  <2> QED BY <2>1, <2>2 DEF AppendMessage, ContextFor
<1>6. Distinct'
  BY <1>1, <1>2 DEF Moved, Distinct, AppendMessage
<1> QED BY <1>1, <1>3, <1>4, <1>5, <1>6 DEF IInv, SpokenInv, RequestInv

-----------------------------------------------------------------------------
(* The theorems *)

\* No conversation and no request: the invariant holds.
LEMMA InvInit == Init => IInv
<1> SUFFICES ASSUME Init PROVE IInv
  OBVIOUS
<1>1. Created = {} /\ \A i \in Ids : \A c : ~Has(i, c)
  BY DEF Init, Created, Has
<1>2. TypeOK
  <2>1. Nothing \in [role: Roles, content: Words \cup Replies \cup {Blank, NoWords}]
    BY ConversationsAssumption DEF Nothing
  <2>2. <<>> \in Seq(Message)
    OBVIOUS
  <2>3. 0 \in 0..MaxAttempts
    BY ConversationsAssumption
  <2> QED BY <2>1, <2>2, <2>3 DEF Init, TypeOK
<1>3. \A r \in Requests : StageInv(r) /\ AskedInv(r) /\ PendingInv(r)
  BY DEF Init, StageInv, AskedInv, PendingInv, Waiting, Appending, Asking, Answering
<1>4. Distinct /\ LateInv
  BY DEF Init, Distinct, LateInv
<1> QED BY <1>1, <1>2, <1>3, <1>4 DEF IInv, AnswersFollowQuestions, NoAnswerAfterClose, OnlyTheOwnerSpeaks

\* Every step preserves the invariant.
LEMMA InvStep == IInv /\ [Next]_vars => IInv'
<1> SUFFICES ASSUME IInv, [Next]_vars PROVE IInv'
  OBVIOUS
<1>1. CASE UNCHANGED vars
  <2> USE <1>1 DEF vars
  <2>1. TypeOK' /\ Distinct'
    BY DEF IInv, TypeOK, Distinct
  <2>2. SpokenInv'
    BY Standing, QuietSpoken DEF IInv, SpokenInv
  <2>3. ASSUME NEW r \in Requests PROVE StageInv(r)'
    BY DEF IInv, StageInv, Waiting, Appending, Asking, Answering, Owned, Created
  <2>4. ASSUME NEW r \in Requests PROVE AskedInv(r)'
    BY DEF IInv, AskedInv, Waiting, Appending, Answering, Owned, Created, Has, Transcript
  <2>5. ASSUME NEW r \in Requests PROVE PendingInv(r)'
    BY DEF IInv, PendingInv, Waiting, Appending, Answering, Created, Has, Transcript
  <2> QED BY <2>1, <2>2, <2>3, <2>4, <2>5 DEF IInv, SpokenInv
<1>2. ASSUME NEW r \in Requests, Arrive(r) PROVE IInv'
  BY <1>2, Arriving
<1>3. ASSUME NEW r \in Requests, Proceed(r) \/ Provide(r) PROVE IInv'
  BY <1>3, CreateStep, FindStep, CloseStep, SelectStep, AppendStep, EngineStep, LeaveStep
  DEF Proceed, Provide
<1>4. CASE Restart
  <2>1. TypeOK /\ SpokenInv
    BY DEF IInv, SpokenInv
  <2>2. TypeOK'
    <3>1. Nothing \in [role: Roles, content: Words \cup Replies \cup {Blank, NoWords}]
      BY ConversationsAssumption DEF Nothing
    <3>2. <<>> \in Seq(Message)
      OBVIOUS
    <3>3. 0 \in 0..MaxAttempts
      BY ConversationsAssumption
    <3> QED BY <1>4, <2>1, <3>1, <3>2, <3>3 DEF Restart, TypeOK
  <2>3. SpokenInv'
    BY <1>4, <2>1, Standing, QuietSpoken DEF Restart
  <2>4. \A r \in Requests : RequestInv(r)'
    BY <1>4 DEF Restart, RequestInv, StageInv, AskedInv, PendingInv, Waiting, Appending, Asking, Answering
  <2>5. Distinct'
    BY <1>4 DEF Restart, Distinct
  <2> QED BY <2>2, <2>3, <2>4, <2>5 DEF IInv, SpokenInv, RequestInv
<1> QED BY <1>1, <1>2, <1>3, <1>4 DEF Next

\* The inductive invariant: what every request in flight has read, and what it
\* may still store.
THEOREM ConversationsInvariant == Spec => []IInv
  BY InvInit, InvStep, PTL DEF Spec

\* Every reachable state is type-correct: no blank message is ever stored, and
\* no more than MaxAttempts are made.
THEOREM ConversationsTypeCorrect == Spec => []TypeOK
<1>1. IInv => TypeOK
  BY DEF IInv
<1> QED BY <1>1, ConversationsInvariant, PTL

\* The engine is asked with a beginning of the stored conversation that ends in
\* the question.
THEOREM EngineSeesItsQuestion == Spec => []AskedInContext
<1>1. IInv => AskedInContext
  BY DEF IInv, AskedInv, AskedInContext, Waiting
<1> QED BY <1>1, ConversationsInvariant, PTL

\* Answers come once, and after their questions.
THEOREM AnswersInOrder == Spec => []AnswersFollowQuestions
<1>1. IInv => AnswersFollowQuestions
  BY DEF IInv
<1> QED BY <1>1, ConversationsInvariant, PTL

\* A question that was stored after the close is never answered.
THEOREM LateIsUnanswered == Spec => []NoAnswerAfterClose
<1>1. IInv => NoAnswerAfterClose
  BY DEF IInv
<1> QED BY <1>1, ConversationsInvariant, PTL

\* Nobody but its owner puts words into a conversation.
THEOREM OwnersOnly == Spec => []OnlyTheOwnerSpeaks
<1>1. IInv => OnlyTheOwnerSpeaks
  BY DEF IInv
<1> QED BY <1>1, ConversationsInvariant, PTL

\* Transcripts are append-only, for any number of overlapping requests.
THEOREM AppendOnly == Spec => TranscriptsGrow
<1>1. IInv /\ [Next]_vars => [\A i \in Created : IsPrefix(Transcript(i), rows'[i].messages)]_vars
  <2> SUFFICES ASSUME IInv, Next, NEW i \in Created
               PROVE  IsPrefix(Transcript(i), rows'[i].messages)
    OBVIOUS
  <2>1. TypeOK /\ Transcript(i) \in Seq(Message) /\ Len(Transcript(i)) \in Nat
    BY CreatedRow, LenProperties DEF IInv
  <2>2. CASE rows'[i].messages = Transcript(i)
    BY <2>1, <2>2, PrefixByElements
  <2>3. ASSUME NEW r \in Requests, AppendMessage(r)
        PROVE  IsPrefix(Transcript(i), rows'[i].messages)
    <3>1. CASE i = call[r].id
      <4>1. rows'[i].messages = Append(Transcript(i), draft[r]) /\ draft[r] \in Message
        BY <2>3, <3>1, AppendedRow, AppendedMessage DEF Extended, Transcript
      <4>2. /\ Append(Transcript(i), draft[r]) \in Seq(Message)
            /\ Len(Append(Transcript(i), draft[r])) = Len(Transcript(i)) + 1
            /\ \A k \in 1..Len(Transcript(i)) : Append(Transcript(i), draft[r])[k] = Transcript(i)[k]
        BY <2>1, <4>1, AppendProperties
      <4>3. Len(Transcript(i)) <= Len(Append(Transcript(i), draft[r]))
        BY <2>1, <4>2
      <4> QED BY <2>1, <4>1, <4>2, <4>3, PrefixByElements
    <3>2. CASE i # call[r].id
      BY <2>2, <2>3, <3>2, AppendedRow DEF Transcript
    <3> QED BY <3>1, <3>2
  <2>4. ASSUME NEW r \in Requests, Create(r) PROVE rows'[i].messages = Transcript(i)
    <3>1. call[r].id \notin Created
      BY <2>4 DEF IInv, StageInv, Create
    <3> QED BY <2>4, <3>1 DEF Create, Created, TypeOK, Transcript
  <2>5. ASSUME NEW r \in Requests, Close(r) PROVE rows'[i].messages = Transcript(i)
    <3>1. rows[i] \in Row /\ i \in Ids
      BY <2>1, CreatedRow
    <3>2. [rows[i] EXCEPT !.status = "closed"].messages = rows[i].messages
      BY <3>1 DEF Row
    <3>3. rows'[i] = rows[i] \/ rows'[i] = [rows[i] EXCEPT !.status = "closed"]
      BY <2>1, <2>5, <3>1 DEF Close, TypeOK
    <3> QED BY <3>2, <3>3 DEF Transcript
  <2>6. ASSUME UNCHANGED rows PROVE rows'[i].messages = Transcript(i)
    BY <2>6 DEF Transcript
  <2> QED
    BY <2>2, <2>3, <2>4, <2>5, <2>6
    DEF Next, Arrive, CallCreate, CallRead, CallClose, CallSay, CallChat, Enter, Proceed, Provide,
        Find, Select, Recall, Retry, Abort, QueryFails, Answer, Fail, GiveUp, Restart
<1> QED BY <1>1, ConversationsInvariant, PTL DEF Spec, TranscriptsGrow

=============================================================================
