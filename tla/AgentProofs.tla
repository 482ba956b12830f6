------------------------------ MODULE AgentProofs ------------------------------
(***************************************************************************)
(* Theorems about the agent's loop, for any number of iterations and of    *)
(* calls in a message, whatever the model answers and the network does.    *)
(***************************************************************************)
EXTENDS AgentLoop, SequenceTheorems, FiniteSetTheorems, TLAPS

CallSeqs == BoundedSeq(Tools, MaxCalls)
Texts    == {"result", "error", "accepted"}
Message  == {SystemMessage, UserMessage} \cup {Assistant(calls) : calls \in CallSeqs}
            \cup {ToolMessage(k, text) : k \in Nat, text \in Texts}

(* Position p holds the last assistant message of ms; 0 if there is none.    *)
LastAt(ms, p) ==
    \/ p = 0 /\ \A i \in 1..Len(ms) : ms[i].role # "assistant"
    \/ /\ p \in 1..Len(ms) /\ ms[p].role = "assistant"
       /\ \A i \in (p + 1)..Len(ms) : ms[i].role # "assistant"

LEMMA LastIsUnique ==
    ASSUME NEW ms \in Seq(Message), NEW p, LastAt(ms, p)
    PROVE  SelectLastInSeq(ms, AssistantAt) = p
<1> DEFINE I == {i \in 1..Len(ms) : AssistantAt(ms[i])}
<1>1. SelectLastInSeq(ms, AssistantAt) = IF I # {} THEN Max(I) ELSE 0
  BY DEF SelectLastInSeq
<1>2. Len(ms) \in Nat
  BY LenProperties
<1>3. CASE p = 0 /\ \A i \in 1..Len(ms) : ms[i].role # "assistant"
  BY <1>1, <1>3 DEF AssistantAt
<1>4. CASE /\ p \in 1..Len(ms) /\ ms[p].role = "assistant"
           /\ \A i \in (p + 1)..Len(ms) : ms[i].role # "assistant"
  <2>1. p \in I /\ \A i \in I : i <= p /\ i \in Nat
    BY <1>2, <1>4 DEF AssistantAt
  <2> HIDE DEF I
  <2>2. Max(I) = p
    <3>1. \A x \in I : (\A y \in I : x >= y) => x = p
      BY <2>1
    <3> QED
      BY <2>1, <3>1 DEF Max
  <2> QED
    BY <1>1, <2>1, <2>2
<1> QED
  BY <1>3, <1>4 DEF LastAt

LEMMA BoundedCalls ==
    ASSUME NEW calls \in CallSeqs
    PROVE  calls \in Seq(Tools) /\ Len(calls) \in Nat /\ Len(calls) <= MaxCalls
<1>1. PICK m \in 0..MaxCalls : calls \in [1..m -> Tools]
  BY DEF CallSeqs, BoundedSeq, SeqOf
<1>2. m \in Nat
  BY AgentAssumption
<1>3. calls \in Seq(Tools)
  BY <1>1, <1>2, SeqDef
<1>4. Len(calls) = m
  BY <1>1, <1>2, <1>3, LenProperties
<1> QED
  BY <1>1, <1>2, <1>3, <1>4, AgentAssumption

LEMMA AssistantFields ==
    ASSUME NEW m \in Message, m.role = "assistant"
    PROVE  m = Assistant(m.calls) /\ m.calls \in CallSeqs
BY DEF Message, SystemMessage, UserMessage, Assistant, ToolMessage

LEMMA MessageFields ==
    /\ \A calls : Assistant(calls).role = "assistant" /\ Assistant(calls).calls = calls
    /\ \A k, text : /\ ToolMessage(k, text).role = "tool"
                    /\ ToolMessage(k, text).answers = k /\ ToolMessage(k, text).text = text
    /\ UserMessage.role = "user" /\ SystemMessage.role = "system"
BY DEF Assistant, ToolMessage, UserMessage, SystemMessage

(* One more message. *)
OneMore(ms, m, more) == more = Append(ms, m)

LEMMA MessageAppended ==
    ASSUME NEW ms \in Seq(Message), NEW m \in Message, NEW more, OneMore(ms, m, more),
           NEW p, LastAt(ms, p)
    PROVE  /\ more \in Seq(Message) /\ Len(ms) \in Nat /\ Len(more) = Len(ms) + 1
           /\ more[Len(ms) + 1] = m
           /\ \A i \in 1..Len(ms) : more[i] = ms[i]
           /\ m.role = "assistant" => LastAt(more, Len(ms) + 1)
           /\ m.role # "assistant" => LastAt(more, p)
<1>1. /\ more \in Seq(Message) /\ Len(ms) \in Nat /\ Len(more) = Len(ms) + 1
      /\ more[Len(ms) + 1] = m
      /\ \A i \in 1..Len(ms) : more[i] = ms[i]
  BY AppendProperties, LenProperties DEF OneMore
<1>2. m.role = "assistant" => LastAt(more, Len(ms) + 1)
  BY <1>1 DEF LastAt
<1>3. m.role # "assistant" => LastAt(more, p)
  BY <1>1 DEF LastAt
<1> QED
  BY <1>1, <1>2, <1>3

-----------------------------------------------------------------------------
(* The invariant, in named parts.                                            *)

Stops == {"running", "raised", "SUBMITTED", "MAX_ITERATIONS", "NO_TOOL_CALL"}

(* Where the loop is in its own transcript.                                  *)
PlaceInv ==
    /\ messages \in Seq(Message)
    /\ LastAt(messages, LastAssistant)
    /\ answered \in 0..Len(Calls) /\ submitted \in 0..answered
    /\ InTools => Len(messages) = LastAssistant + answered
    /\ stop \in Stops /\ iterations \in 0..MaxIterations

(* A site the ERP heard of is a call the loop has already dealt with.        *)
DealtWith(s) ==
    \E i \in 1..LastAssistant, k \in 1..MaxCalls :
        s = <<i, k>> /\ (i = LastAssistant => k <= answered)
SitesInv == \A s \in posted \cup DOMAIN raised : DealtWith(s)

AgentInv == PlaceInv /\ TranscriptWellFormed /\ SitesInv /\ OneProposalPerCall

LEMMA PlaceFacts ==
    ASSUME PlaceInv
    PROVE  /\ Len(messages) \in Nat /\ LastAssistant \in 0..Len(messages)
           /\ Calls \in CallSeqs /\ Calls \in Seq(Tools) /\ Len(Calls) \in 0..MaxCalls
           /\ LastAssistant # 0 => /\ messages[LastAssistant].role = "assistant"
                                   /\ Calls = messages[LastAssistant].calls
           /\ LastAssistant = 0 => Len(Calls) = 0
           /\ \A i \in 1..Len(messages) : /\ messages[i] \in Message
                  /\ messages[i].role = "assistant" => i <= LastAssistant
<1>1. Len(messages) \in Nat /\ \A i \in 1..Len(messages) : messages[i] \in Message
  BY LenProperties, ElementOfSeq DEF PlaceInv
<1>2. /\ LastAssistant \in 0..Len(messages)
      /\ LastAssistant # 0 => messages[LastAssistant].role = "assistant"
      /\ \A i \in 1..Len(messages) : messages[i].role = "assistant" => i <= LastAssistant
  BY <1>1 DEF PlaceInv, LastAt
<1>3. CASE LastAssistant = 0
  <2>1. Calls = <<>>
    BY <1>3 DEF Calls
  <2>2. <<>> \in [1..0 -> Tools] /\ 0 \in 0..MaxCalls
    BY AgentAssumption
  <2>3. <<>> \in CallSeqs
    BY <2>2 DEF CallSeqs, BoundedSeq, SeqOf
  <2> QED
    BY <1>1, <1>2, <1>3, <2>1, <2>3, AgentAssumption
<1>4. CASE LastAssistant # 0
  <2>1. Calls = messages[LastAssistant].calls
    BY <1>4 DEF Calls
  <2>2. Calls \in CallSeqs
    BY <1>1, <1>2, <1>4, <2>1, AssistantFields
  <2> QED
    BY <1>1, <1>2, <1>4, <2>1, <2>2, BoundedCalls, AgentAssumption
<1> QED
  BY <1>3, <1>4

(* A completion with calls, or with prose, becomes the last assistant message. *)
LEMMA AssistantAppended ==
    ASSUME PlaceInv, NEW calls \in CallSeqs,
           messages' = Append(messages, Assistant(calls))
    PROVE  /\ messages' \in Seq(Message) /\ Len(messages') = Len(messages) + 1
           /\ messages'[Len(messages) + 1] = Assistant(calls)
           /\ \A i \in 1..Len(messages) : messages'[i] = messages[i]
           /\ LastAt(messages', Len(messages) + 1)
           /\ LastAssistant' = Len(messages) + 1 /\ Calls' = calls
<1> DEFINE m == Assistant(calls)
<1>0. m \in Message /\ m.role = "assistant"
  BY MessageFields DEF Message
<1>1. OneMore(messages, m, messages') /\ messages \in Seq(Message)
  BY DEF OneMore, PlaceInv
<1>a. LastAt(messages, LastAssistant)
  BY DEF PlaceInv
<1> HIDE DEF m
<1>2. /\ messages' \in Seq(Message) /\ Len(messages) \in Nat
      /\ Len(messages') = Len(messages) + 1
      /\ messages'[Len(messages) + 1] = m
      /\ \A i \in 1..Len(messages) : messages'[i] = messages[i]
      /\ LastAt(messages', Len(messages) + 1)
  BY ONLY <1>0, <1>1, <1>a, MessageAppended
<1>3. LastAssistant' = Len(messages) + 1
  BY <1>2, LastIsUnique DEF LastAssistant
<1>4. Calls' = calls
  BY <1>2, <1>3, MessageFields DEF Calls, m
<1> QED
  BY <1>2, <1>3, <1>4 DEF m

(* The answer to a call leaves the message it answers the last one.          *)
LEMMA AnswerAppended ==
    ASSUME PlaceInv, NEW k \in Nat, NEW text \in Texts,
           messages' = Append(messages, ToolMessage(k, text))
    PROVE  /\ messages' \in Seq(Message) /\ Len(messages') = Len(messages) + 1
           /\ messages'[Len(messages) + 1] = ToolMessage(k, text)
           /\ \A i \in 1..Len(messages) : messages'[i] = messages[i]
           /\ LastAt(messages', LastAssistant)
           /\ LastAssistant' = LastAssistant /\ Calls' = Calls
<1> DEFINE m == ToolMessage(k, text)
<1>0. m \in Message /\ m.role = "tool"
  BY MessageFields DEF Message
<1>1. OneMore(messages, m, messages') /\ messages \in Seq(Message)
  BY DEF OneMore, PlaceInv
<1>a. LastAt(messages, LastAssistant)
  BY DEF PlaceInv
<1> HIDE DEF m
<1>2. /\ messages' \in Seq(Message) /\ Len(messages) \in Nat
      /\ Len(messages') = Len(messages) + 1
      /\ messages'[Len(messages) + 1] = m
      /\ \A i \in 1..Len(messages) : messages'[i] = messages[i]
      /\ LastAt(messages', LastAssistant)
  BY ONLY <1>0, <1>1, <1>a, MessageAppended
<1>3. LastAssistant' = LastAssistant
  BY <1>2, LastIsUnique DEF LastAssistant
<1>4. Calls' = Calls
  BY <1>2, <1>3, PlaceFacts DEF Calls
<1> QED
  BY <1>2, <1>3, <1>4 DEF m

-----------------------------------------------------------------------------
LEMMA AgentStart == AgentInit => AgentInv
<1> SUFFICES ASSUME AgentInit PROVE AgentInv
  OBVIOUS
<1>1. /\ messages \in Seq(Message) /\ Len(messages) = 2
      /\ messages[1] = SystemMessage /\ messages[2] = UserMessage
  BY DEF AgentInit, Message
<1>2. LastAt(messages, 0)
  BY <1>1, MessageFields DEF LastAt
<1>3. LastAssistant = 0
  BY <1>1, <1>2, LastIsUnique DEF LastAssistant
<1>4. Calls = <<>> /\ ~InTools
  BY <1>3 DEF Calls, InTools, AgentInit
<1>5. PlaceInv
  BY <1>1, <1>2, <1>3, <1>4, AgentAssumption DEF PlaceInv, AgentInit, Stops
<1>6. \A i \in 1..Len(messages) : messages[i].role \notin {"assistant", "tool"}
  BY <1>1, MessageFields
<1>7. TranscriptWellFormed
  BY <1>1, <1>6 DEF TranscriptWellFormed
<1>8. DOMAIN raised = {} /\ posted = {}
  BY DEF AgentInit, EmptyBag, SetToBag
<1> QED
  BY <1>1, <1>5, <1>6, <1>7, <1>8 DEF AgentInv, SitesInv, OneProposalPerCall

-----------------------------------------------------------------------------
(* Between two completions every call in the transcript has its answer.      *)
LEMMA AllAnswered ==
    ASSUME PlaceInv, TranscriptWellFormed, ~InTools,
           NEW i \in 1..Len(messages), messages[i].role = "assistant",
           NEW k \in 1..Len(messages[i].calls)
    PROVE  /\ i + k <= Len(messages)
           /\ messages[i + k].role = "tool" /\ messages[i + k].answers = k
<1>1. i \in DOMAIN messages
  BY LenProperties DEF PlaceInv
<1>2. AnswersAfter(i)
  BY <1>1 DEF TranscriptWellFormed
<1> QED
  BY <1>2 DEF AnswersAfter

(* A completion keeps the place: the loop is at the new message, of which    *)
(* nothing is answered yet.                                                  *)
LEMMA CompleteKeepsPlace ==
    ASSUME AgentInv, NEW calls \in CallSeqs, Complete(calls)
    PROVE  /\ PlaceInv' /\ LastAssistant' = Len(messages) + 1 /\ Calls' = calls
           /\ messages' \in Seq(Message) /\ Len(messages') \in Nat
           /\ Len(messages') >= Len(messages) + 1
           /\ messages'[Len(messages) + 1] = Assistant(calls)
           /\ \A i \in 1..Len(messages) : messages'[i] = messages[i]
           /\ \A i \in 1..Len(messages') :
                  i > Len(messages) + 1 => messages'[i] = UserMessage
           /\ answered' = 0 /\ (calls # <<>> => stop' = "running")
<1>0. /\ PlaceInv /\ ~InTools /\ stop = "running"
      /\ answered' = 0 /\ submitted' = 0
      /\ iterations' \in 0..MaxIterations
  BY AgentAssumption DEF AgentInv, Complete, Ready, PlaceInv
<1>1. /\ Len(calls) \in Nat /\ calls \in Seq(Tools) /\ (calls = <<>> <=> Len(calls) = 0)
  BY BoundedCalls, EmptySeq
<1>2. CASE messages' = Append(messages, Assistant(calls))
  <2>1. /\ messages' \in Seq(Message) /\ Len(messages') = Len(messages) + 1
        /\ messages'[Len(messages) + 1] = Assistant(calls)
        /\ \A i \in 1..Len(messages) : messages'[i] = messages[i]
        /\ LastAt(messages', Len(messages) + 1)
        /\ LastAssistant' = Len(messages) + 1 /\ Calls' = calls
    BY ONLY <1>0, <1>2, calls \in CallSeqs, AssistantAppended
  <2>2. stop' \in Stops /\ (calls # <<>> => stop' = "running")
    BY <1>0, <1>2 DEF Complete, RoundOrEnd, Stops
  <2>3. Len(messages) \in Nat
    BY <1>0, PlaceFacts
  <2>4. PlaceInv'
    BY <1>0, <1>1, <2>1, <2>2, <2>3 DEF PlaceInv, InTools
  <2> QED
    BY <1>0, <2>1, <2>2, <2>3, <2>4
<1>3. CASE /\ calls = <<>> /\ RoundOrEnd
           /\ messages' = messages \o <<Assistant(calls), UserMessage>>
  <2>1. Assistant(calls) \in Message /\ UserMessage \in Message
    BY DEF Message
  <2>2. /\ messages \in Seq(Message) /\ Len(messages) \in Nat
        /\ LastAt(messages, LastAssistant)
    BY <1>0, LenProperties DEF PlaceInv
  <2>3. /\ messages' \in Seq(Message) /\ Len(messages') = Len(messages) + 2
        /\ messages'[Len(messages) + 1] = Assistant(calls)
        /\ messages'[Len(messages) + 2] = UserMessage
        /\ \A i \in 1..Len(messages) : messages'[i] = messages[i]
    <3> DEFINE a == Assistant(calls)
               u == UserMessage
    <3>1. a \in Message /\ u \in Message /\ messages' = messages \o <<a, u>>
      BY <1>3, <2>1
    <3> HIDE DEF a, u
    <3>2. <<a, u>> \in Seq(Message) /\ Len(<<a, u>>) = 2 /\ <<a, u>>[1] = a /\ <<a, u>>[2] = u
      BY <3>1
    <3>3. /\ messages' \in Seq(Message) /\ Len(messages') = Len(messages) + 2
          /\ messages'[Len(messages) + 1] = a /\ messages'[Len(messages) + 2] = u
          /\ \A i \in 1..Len(messages) : messages'[i] = messages[i]
      BY <2>2, <3>1, <3>2, ConcatProperties
    <3> QED
      BY <3>3 DEF a, u
  <2>4. LastAt(messages', Len(messages) + 1)
    BY <2>2, <2>3, MessageFields DEF LastAt
  <2>5. LastAssistant' = Len(messages) + 1
    BY <2>3, <2>4, LastIsUnique DEF LastAssistant
  <2>6. Calls' = calls
    BY <2>2, <2>3, <2>5, MessageFields DEF Calls
  <2>7. stop' \in Stops
    BY <1>3 DEF RoundOrEnd, Stops
  <2>8. PlaceInv'
    BY <1>0, <1>1, <1>3, <2>2, <2>3, <2>4, <2>5, <2>6, <2>7 DEF PlaceInv, InTools
  <2> QED
    BY <1>0, <1>3, <2>2, <2>3, <2>5, <2>6, <2>8
<1> QED
  BY <1>2, <1>3 DEF Complete

LEMMA CompleteKeepsAll ==
    ASSUME AgentInv, NEW calls \in CallSeqs, Complete(calls)
    PROVE  AgentInv'
<1> DEFINE n == Len(messages) + 1
<1>1. /\ PlaceInv /\ ~InTools /\ TranscriptWellFormed /\ SitesInv /\ OneProposalPerCall
  BY DEF AgentInv, Complete, Ready
<1>2. /\ PlaceInv' /\ LastAssistant' = n /\ Calls' = calls
      /\ messages' \in Seq(Message) /\ Len(messages') \in Nat /\ Len(messages') >= n
      /\ messages'[n] = Assistant(calls)
      /\ \A i \in 1..Len(messages) : messages'[i] = messages[i]
      /\ \A i \in 1..Len(messages') : i > n => messages'[i] = UserMessage
      /\ answered' = 0 /\ (calls # <<>> => stop' = "running")
  BY CompleteKeepsPlace
<1>3. /\ Len(messages) \in Nat /\ LastAssistant \in 0..Len(messages)
      /\ messages \in Seq(Message)
  BY <1>1, PlaceFacts DEF PlaceInv
<1>4. DOMAIN messages = 1..Len(messages) /\ DOMAIN messages' = 1..Len(messages')
  BY <1>2, <1>3, LenProperties
<1>5. /\ Len(calls) \in Nat /\ calls \in Seq(Tools) /\ (calls = <<>> <=> Len(calls) = 0)
  BY BoundedCalls, EmptySeq
<1>6. /\ messages'[n].role = "assistant" /\ messages'[n].calls = calls
      /\ \A i \in 1..Len(messages') : i > n => messages'[i].role = "user"
  BY <1>2, MessageFields
<1>7. n \in Nat /\ n = Len(messages) + 1
  BY <1>3
<1> HIDE DEF n
<1>8. UNCHANGED <<posted, raised>>
  BY DEF Complete
<1>9. TranscriptWellFormed'
  <2>1. ASSUME NEW i \in DOMAIN messages', messages'[i].role = "assistant"
        PROVE  AnswersAfter(i)'
    <3>1. CASE i = n
      <4>1. ASSUME NEW k \in 1..Len(messages'[i].calls)
            PROVE  InTools' /\ i = LastAssistant' /\ k > answered'
        BY <1>2, <1>5, <1>6, <3>1, <4>1 DEF InTools
      <4> QED
        BY <4>1 DEF AnswersAfter
    <3>2. CASE i # n
      <4>1. i \in 1..Len(messages) /\ messages'[i] = messages[i]
        BY <1>2, <1>3, <1>4, <1>6, <1>7, <2>1, <3>2
      <4>2. ASSUME NEW k \in 1..Len(messages[i].calls)
            PROVE  /\ i + k <= Len(messages')
                   /\ messages'[i + k].role = "tool" /\ messages'[i + k].answers = k
        <5>1. /\ i + k <= Len(messages)
              /\ messages[i + k].role = "tool" /\ messages[i + k].answers = k
          BY <1>1, <2>1, <4>1, AllAnswered
        <5>2. k >= 1 /\ (i + k) \in 1..Len(messages)
          <6>1. i + k \in Int
            BY <4>1, <4>2
          <6> QED
            BY <1>3, <4>1, <4>2, <5>1
        <5> QED
          BY <1>2, <1>3, <1>7, <5>1, <5>2
      <4> QED
        BY <4>1, <4>2 DEF AnswersAfter
    <3> QED
      BY <3>1, <3>2
  <2>2. ASSUME NEW j \in DOMAIN messages', messages'[j].role = "tool"
        PROVE  \E i \in 1..(j - 1) : /\ messages'[i].role = "assistant"
                                     /\ j = i + messages'[j].answers
                                     /\ messages'[j].answers <= Len(messages'[i].calls)
    <3>1. j \in 1..Len(messages) /\ messages'[j] = messages[j]
      BY <1>2, <1>3, <1>4, <1>6, <1>7, <2>2
    <3>2. PICK i \in 1..(j - 1) : /\ messages[i].role = "assistant"
                                 /\ j = i + messages[j].answers
                                 /\ messages[j].answers <= Len(messages[i].calls)
      BY <1>1, <1>4, <2>2, <3>1 DEF TranscriptWellFormed
    <3>3. i \in 1..Len(messages) /\ messages'[i] = messages[i]
      BY <1>2, <1>3, <3>1, <3>2
    <3> QED
      BY <3>1, <3>2, <3>3
  <2> QED
    BY <2>1, <2>2 DEF TranscriptWellFormed
<1>10. SitesInv'
  <2>1. ASSUME NEW s, DealtWith(s)
        PROVE  DealtWith(s)'
    <3>1. PICK i \in 1..LastAssistant, k \in 1..MaxCalls : s = <<i, k>>
      BY <2>1 DEF DealtWith
    <3>2. i \in 1..LastAssistant' /\ i # LastAssistant'
      BY <1>2, <1>3, <1>7, <3>1
    <3> QED
      BY <3>1, <3>2 DEF DealtWith
  <2> QED
    BY <1>1, <1>8, <2>1 DEF SitesInv
<1>11. OneProposalPerCall'
  <2>1. ASSUME NEW i \in DOMAIN messages', messages'[i].role = "assistant",
               NEW k \in DOMAIN messages'[i].calls, messages'[i].calls[k] = "propose",
               i + k <= Len(messages'), messages'[i + k].role = "tool",
               messages'[i + k].text = "result"
        PROVE  <<i, k>> \in DOMAIN raised'
    <3>1. i \in 1..n
      BY <1>4, <1>6, <1>7, <2>1
    <3>2. messages'[i] \in Message
      BY <1>2, <1>4, ElementOfSeq
    <3>3. messages'[i].calls \in Seq(Tools)
      BY <2>1, <3>2, AssistantFields, BoundedCalls
    <3>4. k \in Nat /\ k >= 1
      BY <3>3, LenProperties
    <3>5. i + k \in 1..Len(messages')
      BY <1>2, <2>1, <3>1, <3>4, <1>7
    <3>6. i + k \in 1..Len(messages)
      BY <1>3, <1>6, <1>7, <2>1, <3>5
    <3>7. i \in 1..Len(messages)
      BY <1>3, <1>7, <3>1, <3>4, <3>6
    <3>8. messages'[i] = messages[i] /\ messages'[i + k] = messages[i + k]
      BY <1>2, <3>6, <3>7
    <3> QED
      BY <1>1, <1>3, <1>4, <1>8, <2>1, <3>6, <3>7, <3>8 DEF OneProposalPerCall
  <2> QED
    BY <1>1, <1>8, <2>1 DEF OneProposalPerCall
<1> QED
  BY <1>2, <1>9, <1>10, <1>11 DEF AgentInv

-----------------------------------------------------------------------------
(* What every answer to a call does, whatever the tool.                      *)
AnswerStep(text, accepted) ==
    /\ InTools /\ text \in Texts /\ accepted \in {submitted, answered + 1}
    /\ Answer(text) /\ AfterAnswer(accepted)

LEMMA AnswerKeepsPlace ==
    ASSUME AgentInv, NEW text, NEW accepted, AnswerStep(text, accepted)
    PROVE  /\ PlaceInv' /\ LastAssistant' = LastAssistant /\ Calls' = Calls
           /\ messages' \in Seq(Message) /\ Len(messages') = Len(messages) + 1
           /\ Len(messages) = LastAssistant + answered /\ LastAssistant # 0
           /\ messages'[Len(messages) + 1] = ToolMessage(answered + 1, text)
           /\ \A i \in 1..Len(messages) : messages'[i] = messages[i]
           /\ answered' = answered + 1 /\ answered + 1 \in 1..Len(Calls)
           /\ (answered' < Len(Calls) => InTools')
<1>1. /\ PlaceInv /\ InTools /\ stop = "running" /\ text \in Texts
      /\ accepted \in {submitted, answered + 1}
      /\ messages' = Append(messages, ToolMessage(answered + 1, text))
      /\ answered' = answered + 1 /\ submitted' = accepted /\ iterations' = iterations
      /\ answered' < Len(Calls) => stop' = stop
  BY DEF AgentInv, AnswerStep, InTools, Answer, AfterAnswer
<1>2. /\ Len(Calls) \in Nat /\ answered \in Nat /\ answered < Len(Calls)
      /\ submitted \in 0..answered /\ iterations \in 0..MaxIterations
      /\ LastAssistant \in Nat /\ Len(messages) = LastAssistant + answered
      /\ LastAssistant # 0 /\ answered + 1 \in Nat
  BY <1>1, PlaceFacts, AgentAssumption DEF PlaceInv, InTools
<1>3. /\ messages' \in Seq(Message) /\ Len(messages') = Len(messages) + 1
      /\ messages'[Len(messages) + 1] = ToolMessage(answered + 1, text)
      /\ \A i \in 1..Len(messages) : messages'[i] = messages[i]
      /\ LastAt(messages', LastAssistant)
      /\ LastAssistant' = LastAssistant /\ Calls' = Calls
  <2> DEFINE k == answered + 1
  <2>1. PlaceInv /\ k \in Nat /\ text \in Texts
        /\ messages' = Append(messages, ToolMessage(k, text))
    BY <1>1, <1>2
  <2> HIDE DEF k
  <2>2. /\ messages' \in Seq(Message) /\ Len(messages') = Len(messages) + 1
        /\ messages'[Len(messages) + 1] = ToolMessage(k, text)
        /\ \A i \in 1..Len(messages) : messages'[i] = messages[i]
        /\ LastAt(messages', LastAssistant)
        /\ LastAssistant' = LastAssistant /\ Calls' = Calls
    BY ONLY <2>1, AnswerAppended
  <2> QED
    BY <2>2 DEF k
<1>4. stop' \in Stops
  BY <1>1 DEF AnswerStep, AfterAnswer, RoundOrEnd, Stops
<1>5. answered' < Len(Calls) => InTools'
  BY <1>1, <1>3 DEF InTools
<1>6. PlaceInv'
  BY <1>1, <1>2, <1>3, <1>4 DEF PlaceInv
<1> QED
  BY <1>1, <1>2, <1>3, <1>5, <1>6

LEMMA AnswerKeepsTranscript ==
    ASSUME AgentInv, NEW text, NEW accepted, AnswerStep(text, accepted)
    PROVE  TranscriptWellFormed'
<1> DEFINE n == Len(messages) + 1
<1>1. /\ PlaceInv /\ TranscriptWellFormed /\ messages \in Seq(Message)
      /\ Len(messages) \in Nat /\ LastAssistant \in 0..Len(messages)
      /\ messages[LastAssistant].role = "assistant"
      /\ Calls = messages[LastAssistant].calls /\ answered \in Nat
  BY AnswerKeepsPlace, PlaceFacts DEF AgentInv, PlaceInv
<1>2. /\ LastAssistant' = LastAssistant
      /\ messages' \in Seq(Message) /\ Len(messages') = n
      /\ n = LastAssistant + (answered + 1) /\ LastAssistant # 0
      /\ messages'[n] = ToolMessage(answered + 1, text)
      /\ \A i \in 1..Len(messages) : messages'[i] = messages[i]
      /\ answered' = answered + 1 /\ answered + 1 \in 1..Len(Calls)
      /\ (answered' < Len(Calls) => InTools')
  <2>1. Len(messages) = LastAssistant + answered
    BY AnswerKeepsPlace
  <2>2. n = LastAssistant + (answered + 1)
    BY <1>1, <2>1
  <2> QED
    BY <2>2, AnswerKeepsPlace
<1>3. /\ messages'[n].role = "tool" /\ messages'[n].answers = answered + 1
  BY <1>2, MessageFields
<1>4. n \in Nat /\ n = Len(messages) + 1
  BY <1>1
<1>5. DOMAIN messages = 1..Len(messages) /\ DOMAIN messages' = 1..n
  BY <1>1, <1>2, LenProperties
<1> HIDE DEF n
<1>6. ASSUME NEW i \in DOMAIN messages', messages'[i].role = "assistant"
      PROVE  AnswersAfter(i)'
  <2>1. i \in 1..Len(messages) /\ messages'[i] = messages[i]
    BY <1>1, <1>2, <1>3, <1>4, <1>5, <1>6
  <2>2. messages[i].calls \in Seq(Tools) /\ Len(messages[i].calls) \in Nat
    BY <1>1, <1>6, <2>1, ElementOfSeq, AssistantFields, BoundedCalls
  <2>3. AnswersAfter(i)
    BY <1>1, <1>5, <1>6, <2>1 DEF TranscriptWellFormed
  <2>4. ASSUME NEW k \in 1..Len(messages[i].calls)
        PROVE  \/ /\ i + k <= Len(messages')
                  /\ messages'[i + k].role = "tool" /\ messages'[i + k].answers = k
               \/ InTools' /\ i = LastAssistant' /\ k > answered'
    <3>1. CASE /\ i + k <= Len(messages)
               /\ messages[i + k].role = "tool" /\ messages[i + k].answers = k
      <4>1. (i + k) \in 1..Len(messages)
        BY <1>1, <2>1, <2>2, <2>4, <3>1
      <4> QED
        BY <1>1, <1>2, <1>4, <3>1, <4>1
    <3>2. CASE i = LastAssistant /\ k > answered
      <4>1. CASE k = answered + 1
        BY <1>2, <1>3, <3>2, <4>1, <1>4
      <4>2. CASE k # answered + 1
        BY <1>1, <1>2, <2>2, <2>4, <3>2, <4>2
      <4> QED
        BY <4>1, <4>2
    <3> QED
      BY <2>3, <3>1, <3>2 DEF AnswersAfter
  <2> QED
    BY <2>1, <2>4 DEF AnswersAfter
<1>7. ASSUME NEW j \in DOMAIN messages', messages'[j].role = "tool"
      PROVE  \E i \in 1..(j - 1) : /\ messages'[i].role = "assistant"
                                   /\ j = i + messages'[j].answers
                                   /\ messages'[j].answers <= Len(messages'[i].calls)
  <2>1. CASE j = n
    <3>1. /\ LastAssistant \in 1..(j - 1)
          /\ messages'[LastAssistant] = messages[LastAssistant]
      BY <1>1, <1>2, <1>4, <2>1
    <3>2. /\ messages'[LastAssistant].role = "assistant"
          /\ j = LastAssistant + messages'[j].answers
          /\ messages'[j].answers <= Len(messages'[LastAssistant].calls)
      <4>1. messages'[j].answers = answered + 1
        BY <1>3, <2>1
      <4>2. answered + 1 <= Len(Calls) /\ j = LastAssistant + (answered + 1)
        BY <1>1, <1>2, <2>1
      <4> QED
        BY <1>1, <3>1, <4>1, <4>2
    <3> QED
      BY <3>1, <3>2
  <2>2. CASE j # n
    <3>1. j \in 1..Len(messages) /\ messages'[j] = messages[j]
      BY <1>1, <1>2, <1>4, <1>5, <2>2
    <3>2. PICK i \in 1..(j - 1) : /\ messages[i].role = "assistant"
                                 /\ j = i + messages[j].answers
                                 /\ messages[j].answers <= Len(messages[i].calls)
      BY <1>1, <1>5, <1>7, <3>1 DEF TranscriptWellFormed
    <3>3. i \in 1..Len(messages) /\ messages'[i] = messages[i]
      BY <1>1, <1>2, <3>1, <3>2
    <3> QED
      BY <3>1, <3>2, <3>3
  <2> QED
    BY <2>1, <2>2
<1> QED
  BY <1>6, <1>7 DEF TranscriptWellFormed

(* One more copy of a proposal in the ERP.                                   *)
OnceMore(bag, site, more) == more = bag (+) Once(site)
AllOnce(bag) == \A s \in DOMAIN bag : bag[s] = 1

LEMMA OnceAdded ==
    ASSUME NEW bag, NEW site, NEW more, OnceMore(bag, site, more), AllOnce(bag)
    PROVE  /\ DOMAIN more = DOMAIN bag \cup {site}
           /\ \A s \in DOMAIN bag : s # site => more[s] = 1
           /\ site \notin DOMAIN bag => more[site] = 1
<1>1. DOMAIN Once(site) = {site} /\ Once(site)[site] = 1
  BY DEF Once, SetToBag
<1>2. DOMAIN more = DOMAIN bag \cup {site}
  BY <1>1 DEF (+), OnceMore
<1>3. \A s \in DOMAIN more :
          more[s] = (IF s \in DOMAIN bag THEN bag[s] ELSE 0)
                    + (IF s \in DOMAIN Once(site) THEN Once(site)[s] ELSE 0)
  BY <1>1 DEF (+), OnceMore
<1>4. ASSUME NEW s \in DOMAIN bag, s # site PROVE more[s] = 1
  <2>1. more[s] = 1 + 0
    BY <1>1, <1>2, <1>3, <1>4 DEF AllOnce
  <2> QED
    BY <2>1
<1>5. ASSUME site \notin DOMAIN bag PROVE more[site] = 1
  <2>1. more[site] = 0 + 1
    BY <1>1, <1>2, <1>3, <1>5
  <2> QED
    BY <2>1
<1> QED
  BY <1>2, <1>4, <1>5

(* The call being answered is new to the ERP, and is dealt with afterwards.  *)
LEMMA AnswerKeepsSites ==
    ASSUME AgentInv, NEW text, NEW accepted, AnswerStep(text, accepted)
    PROVE  /\ CallSite \notin posted \cup DOMAIN raised
           /\ \A s : s = CallSite => DealtWith(s)'
           /\ \A s : DealtWith(s) => DealtWith(s)'
<1>1. /\ LastAssistant' = LastAssistant /\ LastAssistant # 0
      /\ answered' = answered + 1 /\ answered + 1 \in 1..Len(Calls)
  BY AnswerKeepsPlace
<1>2. LastAssistant \in Nat /\ Len(Calls) \in 0..MaxCalls /\ answered \in Nat
  BY PlaceFacts, AgentAssumption DEF AgentInv, PlaceInv
<1>3. ~DealtWith(CallSite)
  BY <1>2 DEF DealtWith, CallSite
<1>4. ASSUME NEW s, DealtWith(s) PROVE DealtWith(s)'
  <2>1. PICK i \in 1..LastAssistant, k \in 1..MaxCalls :
            s = <<i, k>> /\ (i = LastAssistant => k <= answered)
    BY <1>4 DEF DealtWith
  <2>2. i \in 1..LastAssistant' /\ (i = LastAssistant' => k <= answered')
    BY <1>1, <1>2, <2>1
  <2> QED
    BY <2>1, <2>2 DEF DealtWith
<1>5. (CallSite = <<LastAssistant, answered + 1>>)
  BY DEF CallSite
<1>6. /\ LastAssistant \in 1..LastAssistant' /\ answered + 1 \in 1..MaxCalls
      /\ answered + 1 <= answered'
  BY <1>1, <1>2, AgentAssumption
<1>7. \A s : s = <<LastAssistant, answered + 1>> => DealtWith(s)'
  BY <1>1, <1>6 DEF DealtWith
<1>8. CallSite \notin posted \cup DOMAIN raised
  BY <1>3 DEF AgentInv, SitesInv
<1> QED
  BY <1>4, <1>5, <1>7, <1>8

LEMMA AnswerKeepsResults ==
    ASSUME AgentInv, NEW text, NEW accepted, AnswerStep(text, accepted),
           DOMAIN raised \subseteq DOMAIN raised',
           Calls[answered + 1] = "propose" /\ text = "result" => CallSite \in DOMAIN raised'
    PROVE  \A i \in DOMAIN messages' : messages'[i].role = "assistant" =>
               \A k \in DOMAIN messages'[i].calls :
                   /\ messages'[i].calls[k] = "propose"
                   /\ i + k <= Len(messages') /\ messages'[i + k].role = "tool"
                   /\ messages'[i + k].text = "result"
                   => <<i, k>> \in DOMAIN raised'
<1> SUFFICES ASSUME NEW i \in DOMAIN messages', messages'[i].role = "assistant",
                    NEW k \in DOMAIN messages'[i].calls, messages'[i].calls[k] = "propose",
                    i + k <= Len(messages'), messages'[i + k].role = "tool",
                    messages'[i + k].text = "result"
             PROVE  <<i, k>> \in DOMAIN raised'
  OBVIOUS
<1> DEFINE n == Len(messages) + 1
<1>1. /\ PlaceInv /\ messages \in Seq(Message) /\ Len(messages) \in Nat
      /\ LastAssistant \in 0..Len(messages) /\ answered \in Nat
      /\ LastAssistant # 0 => Calls = messages[LastAssistant].calls
      /\ TranscriptWellFormed /\ OneProposalPerCall
  BY PlaceFacts DEF AgentInv, PlaceInv
<1>2. /\ LastAssistant # 0 /\ messages' \in Seq(Message) /\ Len(messages') = n
      /\ Len(messages) = LastAssistant + answered
      /\ messages'[n] = ToolMessage(answered + 1, text)
      /\ \A m \in 1..Len(messages) : messages'[m] = messages[m]
  BY AnswerKeepsPlace
<1>3. messages'[n].role = "tool" /\ messages'[n].text = text
  BY <1>2, MessageFields
<1>4. n \in Nat /\ n = Len(messages) + 1
  BY <1>1
<1>5. DOMAIN messages = 1..Len(messages) /\ DOMAIN messages' = 1..n
  BY <1>1, <1>2, LenProperties
<1> HIDE DEF n
<1>6. i \in 1..Len(messages) /\ messages'[i] = messages[i]
  BY <1>1, <1>2, <1>3, <1>4, <1>5
<1>7. messages[i].calls \in Seq(Tools)
  BY <1>1, <1>6, ElementOfSeq, AssistantFields, BoundedCalls
<1>8. k \in 1..Len(messages[i].calls) /\ k \in Nat /\ k >= 1
  BY <1>6, <1>7, LenProperties
<1>9. CASE i + k <= Len(messages)
  <2>1. (i + k) \in 1..Len(messages)
    BY <1>1, <1>6, <1>8, <1>9
  <2>2. messages'[i + k] = messages[i + k]
    BY <1>2, <2>1
  <2> QED
    BY <1>1, <1>5, <1>6, <1>9, <2>2 DEF OneProposalPerCall
<1>10. CASE i + k = n
  <2>1. i = LastAssistant /\ k = answered + 1
    <3>1. AnswersAfter(i)
      BY <1>1, <1>5, <1>6 DEF TranscriptWellFormed
    <3>2. i = LastAssistant
      BY <1>1, <1>4, <1>8, <1>10, <3>1 DEF AnswersAfter
    <3> QED
      BY <1>1, <1>2, <1>4, <1>6, <1>8, <1>10, <3>2
  <2>2. Calls[answered + 1] = "propose" /\ text = "result"
    BY <1>1, <1>2, <1>3, <1>6, <1>10, <2>1
  <2> QED
    BY <2>1, <2>2 DEF CallSite
<1>11. i + k <= Len(messages) \/ i + k = n
  <2>1. i \in Nat /\ k \in Nat /\ i + k <= n
    BY <1>1, <1>2, <1>6, <1>8
  <2> QED
    BY <2>1, <1>1, <1>4
<1> QED
  BY <1>9, <1>10, <1>11

-----------------------------------------------------------------------------
(* The steps of the loop.                                                    *)

LEMMA FailureKeepsAll ==
    ASSUME AgentInv, CompletionFails
    PROVE  AgentInv'
<1>1. /\ UNCHANGED <<messages, answered, submitted, posted, raised>>
      /\ stop' \in Stops /\ ~InTools' /\ ~InTools /\ iterations' \in 0..MaxIterations
  BY AgentAssumption DEF CompletionFails, Ready, AgentInv, PlaceInv, InTools, Stops
<1>2. LastAssistant' = LastAssistant /\ Calls' = Calls
  BY <1>1 DEF LastAssistant, Calls
<1>3. PlaceInv'
  BY <1>1, <1>2 DEF AgentInv, PlaceInv
<1>4. TranscriptWellFormed'
  <2>1. \A i : AnswersAfter(i) => AnswersAfter(i)'
    BY <1>1, <1>2 DEF AnswersAfter
  <2> QED
    BY <1>1, <2>1 DEF AgentInv, TranscriptWellFormed
<1>5. SitesInv'
  BY <1>1, <1>2 DEF AgentInv, SitesInv, DealtWith
<1>6. OneProposalPerCall'
  BY <1>1 DEF AgentInv, OneProposalPerCall
<1> QED
  BY <1>3, <1>4, <1>5, <1>6 DEF AgentInv

(* An answer that writes nothing. *)
LEMMA QuietAnswerKeepsAll ==
    ASSUME AgentInv, NEW text, NEW accepted, AnswerStep(text, accepted),
           Calls[answered + 1] # "propose" \/ text # "result",
           UNCHANGED <<posted, raised>>
    PROVE  AgentInv'
<1>1. PlaceInv' /\ TranscriptWellFormed'
  BY AnswerKeepsPlace, AnswerKeepsTranscript
<1>2. SitesInv'
  BY AnswerKeepsSites DEF AgentInv, SitesInv
<1>3. OneProposalPerCall'
  <2>1. /\ \A s \in DOMAIN raised' : raised'[s] = 1
        /\ posted' \cap DOMAIN raised' = {}
    BY DEF AgentInv, OneProposalPerCall
  <2> QED
    BY <2>1, AnswerKeepsResults DEF OneProposalPerCall
<1> QED
  BY <1>1, <1>2, <1>3 DEF AgentInv

LEMMA ProposeKeepsAll ==
    ASSUME AgentInv, NEW fate \in {"stored", "refused", "silent", "late"},
           AnswerPropose(fate)
    PROVE  AgentInv'
<1> DEFINE text == IF fate = "stored" THEN "result" ELSE "error"
<1>1. AnswerStep(text, submitted)
  BY DEF AnswerPropose, AnswerStep, Texts
<1>2. text = "result" <=> fate = "stored"
  OBVIOUS
<1> HIDE DEF text
<1>3. CASE fate = "refused"
  <2>1. UNCHANGED <<posted, raised>> /\ text # "result"
    BY <1>2, <1>3 DEF AnswerPropose
  <2> QED
    BY <1>1, <2>1, QuietAnswerKeepsAll
<1>4. PlaceInv' /\ TranscriptWellFormed'
  BY <1>1, AnswerKeepsPlace, AnswerKeepsTranscript
<1>5. /\ CallSite \notin posted \cup DOMAIN raised
      /\ \A s : s = CallSite => DealtWith(s)'
      /\ \A s : DealtWith(s) => DealtWith(s)'
  BY <1>1, AnswerKeepsSites
<1>6. /\ \A s \in DOMAIN raised : raised[s] = 1
      /\ posted \cap DOMAIN raised = {}
      /\ \A s \in posted \cup DOMAIN raised : DealtWith(s)
  BY DEF AgentInv, OneProposalPerCall, SitesInv
<1>7. CASE fate = "late"
  <2>1. posted' = posted \cup {CallSite} /\ raised' = raised /\ text # "result"
    BY <1>2, <1>7 DEF AnswerPropose
  <2>2. SitesInv'
    BY <1>5, <1>6, <2>1 DEF SitesInv
  <2>3. OneProposalPerCall'
    <3>1. /\ \A s \in DOMAIN raised' : raised'[s] = 1
          /\ posted' \cap DOMAIN raised' = {}
      BY <1>5, <1>6, <2>1
    <3> QED
      BY <1>1, <2>1, <3>1, AnswerKeepsResults DEF OneProposalPerCall
  <2> QED
    BY <1>4, <2>2, <2>3 DEF AgentInv
<1>8. CASE fate \in {"stored", "silent"}
  <2>1. posted' = posted /\ raised' = raised (+) Once(CallSite)
    BY <1>8 DEF AnswerPropose
  <2>2. /\ DOMAIN raised' = DOMAIN raised \cup {CallSite}
        /\ \A s \in DOMAIN raised : s # CallSite => raised'[s] = 1
        /\ raised'[CallSite] = 1
    <3> DEFINE site == CallSite
    <3>1. OnceMore(raised, site, raised') /\ site \notin DOMAIN raised /\ AllOnce(raised)
      BY <1>5, <1>6, <2>1 DEF OnceMore, AllOnce
    <3> HIDE DEF site
    <3>2. /\ DOMAIN raised' = DOMAIN raised \cup {site}
          /\ \A s \in DOMAIN raised : s # site => raised'[s] = 1
          /\ raised'[site] = 1
      BY ONLY <3>1, OnceAdded
    <3> QED
      BY <3>2 DEF site
  <2>3. SitesInv'
    BY <1>5, <1>6, <2>1, <2>2 DEF SitesInv
  <2>4. OneProposalPerCall'
    <3>1. /\ \A s \in DOMAIN raised' : raised'[s] = 1
          /\ posted' \cap DOMAIN raised' = {}
      BY <1>5, <1>6, <2>1, <2>2
    <3> QED
      BY <1>1, <2>2, <3>1, AnswerKeepsResults DEF OneProposalPerCall
  <2> QED
    BY <1>4, <2>3, <2>4 DEF AgentInv
<1> QED
  BY <1>3, <1>7, <1>8

LEMMA ArrivalKeepsAll ==
    ASSUME AgentInv, NEW site \in posted, LateArrival(site)
    PROVE  AgentInv'
<1>1. /\ UNCHANGED <<messages, answered, submitted, iterations, stop>>
      /\ posted' = posted \ {site}
      /\ raised' = raised (+) Once(site) \/ raised' = raised
  BY DEF LateArrival
<1>2. LastAssistant' = LastAssistant /\ Calls' = Calls
  BY <1>1 DEF LastAssistant, Calls
<1>3. InTools' <=> InTools
  BY <1>1, <1>2 DEF InTools
<1>4. PlaceInv'
  BY <1>1, <1>2, <1>3 DEF AgentInv, PlaceInv
<1>5. TranscriptWellFormed'
  <2>1. \A i : AnswersAfter(i) => AnswersAfter(i)'
    BY <1>1, <1>2, <1>3 DEF AnswersAfter
  <2> QED
    BY <1>1, <2>1 DEF AgentInv, TranscriptWellFormed
<1>6. /\ \A s \in DOMAIN raised : raised[s] = 1
      /\ posted \cap DOMAIN raised = {}
      /\ \A s \in posted \cup DOMAIN raised : DealtWith(s)
  BY DEF AgentInv, OneProposalPerCall, SitesInv
<1>7. /\ DOMAIN raised \subseteq DOMAIN raised'
      /\ DOMAIN raised' \subseteq DOMAIN raised \cup {site}
      /\ \A s \in DOMAIN raised' : raised'[s] = 1
  <2>1. CASE raised' = raised (+) Once(site)
    <3>1. /\ DOMAIN raised' = DOMAIN raised \cup {site}
          /\ \A s \in DOMAIN raised : s # site => raised'[s] = 1
          /\ site \notin DOMAIN raised => raised'[site] = 1
      <4>1. OnceMore(raised, site, raised') /\ AllOnce(raised)
        BY <1>6, <2>1 DEF OnceMore, AllOnce
      <4> QED
        BY ONLY <4>1, OnceAdded
    <3> QED
      BY <1>6, <3>1
  <2> QED
    BY <1>1, <1>6, <2>1
<1>8. \A s : DealtWith(s) => DealtWith(s)'
  BY <1>1, <1>2 DEF DealtWith
<1>9. SitesInv'
  BY <1>1, <1>6, <1>7, <1>8 DEF SitesInv
<1>10. OneProposalPerCall'
  <2>1. posted' \cap DOMAIN raised' = {}
    BY <1>1, <1>6, <1>7
  <2> QED
    BY <1>1, <1>7, <2>1 DEF AgentInv, OneProposalPerCall
<1> QED
  BY <1>4, <1>5, <1>9, <1>10 DEF AgentInv

LEMMA LoopKeepsAll == AgentInv /\ [AgentNext]_agentVars => AgentInv'
<1> SUFFICES ASSUME AgentInv, [AgentNext]_agentVars PROVE AgentInv'
  OBVIOUS
<1>1. ASSUME NEW calls \in BoundedSeq(Tools, MaxCalls), Complete(calls) PROVE AgentInv'
  BY <1>1, CompleteKeepsAll DEF CallSeqs
<1>2. CASE CompletionFails
  BY <1>2, FailureKeepsAll
<1>3. ASSUME NEW valid \in BOOLEAN, AnswerSubmit(valid) PROVE AgentInv'
  <2> DEFINE text == IF valid THEN "accepted" ELSE "error"
             accepted == IF valid THEN answered + 1 ELSE submitted
  <2>1. AnswerStep(text, accepted)
    BY <1>3 DEF AnswerSubmit, AnswerStep, Texts
  <2>2. text # "result" /\ UNCHANGED <<posted, raised>>
    BY <1>3 DEF AnswerSubmit
  <2> HIDE DEF text, accepted
  <2> QED
    BY <2>1, <2>2, QuietAnswerKeepsAll
<1>4. ASSUME NEW text \in {"result", "error"}, AnswerOther(text) PROVE AgentInv'
  <2>1. AnswerStep(text, submitted)
    BY <1>4 DEF AnswerOther, AnswerStep, Texts
  <2>2. Calls[answered + 1] # "propose" /\ UNCHANGED <<posted, raised>>
    BY <1>4 DEF AnswerOther
  <2> QED
    BY <2>1, <2>2, QuietAnswerKeepsAll
<1>5. ASSUME NEW fate \in {"stored", "refused", "silent", "late"}, AnswerPropose(fate)
      PROVE  AgentInv'
  BY <1>5, ProposeKeepsAll
<1>6. ASSUME NEW site \in posted, LateArrival(site) PROVE AgentInv'
  BY <1>6, ArrivalKeepsAll
<1>7. CASE UNCHANGED agentVars
  <2>1. /\ UNCHANGED <<messages, answered, submitted, iterations, stop, posted, raised>>
    BY <1>7 DEF agentVars
  <2>2. LastAssistant' = LastAssistant /\ Calls' = Calls
    BY <2>1 DEF LastAssistant, Calls
  <2>3. InTools' <=> InTools
    BY <2>1, <2>2 DEF InTools
  <2>4. PlaceInv'
    BY <2>1, <2>2, <2>3 DEF AgentInv, PlaceInv
  <2>5. TranscriptWellFormed'
    <3>1. \A i : AnswersAfter(i) => AnswersAfter(i)'
      BY <2>1, <2>2, <2>3 DEF AnswersAfter
    <3> QED
      BY <2>1, <3>1 DEF AgentInv, TranscriptWellFormed
  <2>6. SitesInv'
    BY <2>1, <2>2 DEF AgentInv, SitesInv, DealtWith
  <2>7. OneProposalPerCall'
    BY <2>1 DEF AgentInv, OneProposalPerCall
  <2> QED
    BY <2>4, <2>5, <2>6, <2>7 DEF AgentInv
<1> QED
  BY <1>1, <1>2, <1>3, <1>4, <1>5, <1>6, <1>7 DEF AgentNext, LoopStep

LEMMA AgentInvariant == AgentSpec => []AgentInv
<1>1. AgentInit => AgentInv
  BY AgentStart
<1>2. AgentInv /\ [AgentNext]_agentVars => AgentInv'
  BY LoopKeepsAll
<1> QED
  BY <1>1, <1>2, PTL DEF AgentSpec

-----------------------------------------------------------------------------
(* What follows for every run of the agent.                                  *)

(* The loop's own bookkeeping stays within the transcript it is about, and   *)
(* what is on its way to the ERP comes from calls of that transcript.        *)
THEOREM AgentTypes == AgentSpec => []AgentTypeOK
<1>1. AgentInv => AgentTypeOK
  <2> SUFFICES ASSUME AgentInv PROVE AgentTypeOK
    OBVIOUS
  <2>1. LastAssistant \in 0..Len(messages) /\ Len(messages) \in Nat
    BY PlaceFacts DEF AgentInv
  <2>2. ASSUME NEW s \in posted PROVE s \in (1..Len(messages)) \X (1..MaxCalls)
    <3>1. PICK i \in 1..LastAssistant, k \in 1..MaxCalls : s = <<i, k>>
      BY DEF AgentInv, SitesInv, DealtWith
    <3>2. i \in 1..Len(messages)
      BY <2>1, <3>1
    <3> QED
      BY <3>1, <3>2
  <2> QED
    BY <2>2 DEF AgentInv, PlaceInv, AgentTypeOK, Stops
<1> QED
  BY <1>1, AgentInvariant, PTL

(* The transcript sent to the provider is one it accepts: every assistant    *)
(* message is followed by the answers to its own calls, in order, and there  *)
(* is no answer to anything else (agent/loop.py's append order).             *)
THEOREM TranscriptIsAccepted == AgentSpec => []TranscriptWellFormed
<1>1. AgentInv => TranscriptWellFormed
  BY DEF AgentInv
<1> QED
  BY <1>1, AgentInvariant, PTL

(* However often answers are lost or late, one call of the model raises at   *)
(* most one proposal, and a call told it succeeded has raised it.            *)
THEOREM CallsRaiseOnce == AgentSpec => []OneProposalPerCall
<1>1. AgentInv => OneProposalPerCall
  BY DEF AgentInv
<1> QED
  BY <1>1, AgentInvariant, PTL

(* A run that has ended appends nothing to its transcript and posts nothing: *)
(* the ERP can only still store what it was sent before.                     *)
QuietAfterwards ==
    Ended => /\ stop' = stop /\ posted' \subseteq posted
             /\ messages' = messages
             /\ \A s \in DOMAIN raised' :
                    s \in posted \/ (s \in DOMAIN raised /\ raised'[s] <= raised[s])

THEOREM SilentAfterwards == AgentSpec => NothingPostedAfterTheEnd
<1>1. AgentInv /\ [AgentNext]_agentVars => [QuietAfterwards]_agentVars
  <2> SUFFICES ASSUME AgentInv, AgentNext, Ended PROVE QuietAfterwards
    BY DEF QuietAfterwards
  <2>1. ~LoopStep
    BY DEF Ended, LoopStep, Complete, CompletionFails, AnswerSubmit, AnswerOther,
           AnswerPropose, Ready, InTools
  <2>2. PICK site \in posted : LateArrival(site)
    BY <2>1 DEF AgentNext
  <2>3. \A s \in DOMAIN raised : raised[s] = 1
    BY DEF AgentInv, OneProposalPerCall
  <2>4. ASSUME NEW s \in DOMAIN raised', s # site
        PROVE  s \in DOMAIN raised /\ raised'[s] <= raised[s]
    <3>1. CASE raised' = raised (+) Once(site)
      <4>1. OnceMore(raised, site, raised') /\ AllOnce(raised)
        BY <2>3, <3>1 DEF OnceMore, AllOnce
      <4>2. /\ DOMAIN raised' = DOMAIN raised \cup {site}
            /\ \A t \in DOMAIN raised : t # site => raised'[t] = 1
        BY ONLY <4>1, OnceAdded
      <4> QED
        BY <2>3, <2>4, <4>2
    <3>2. CASE raised' = raised
      BY <2>3, <2>4, <3>2
    <3> QED
      BY <2>2, <3>1, <3>2 DEF LateArrival
  <2> QED
    BY <2>2, <2>4 DEF LateArrival, QuietAfterwards
<1> QED
  BY <1>1, AgentInvariant, PTL DEF AgentSpec, NothingPostedAfterTheEnd, QuietAfterwards

-----------------------------------------------------------------------------
(* How a run ends, and what is recorded of it.  The invariant counts: the    *)
(* loop's own counters are the numbers of messages of each kind.             *)

Record == [tool : Tools, error : BOOLEAN]

CountsInv ==
    /\ nudged \in BOOLEAN
    /\ stop # "raised" => Cardinality(Completions) = iterations
    /\ Cardinality(ProseAnswers) = IF stop = "NO_TOOL_CALL" THEN 2
                                   ELSE IF nudged THEN 1 ELSE 0

(* What was accepted of the message being answered.                          *)
AcceptedInv ==
    /\ submitted # 0 => messages[LastAssistant + submitted].text = "accepted"
    /\ \A k \in (submitted + 1)..answered : messages[LastAssistant + k].text # "accepted"

EndInv ==
    /\ ~InTools => /\ answered = Len(Calls)
                   /\ stop = "SUBMITTED" <=> submitted # 0
    /\ stop = "MAX_ITERATIONS" => iterations = MaxIterations

RecordsInv == records \in Seq(Record) /\ RecordsMatchTranscript

OutcomeInv == CountsInv /\ AcceptedInv /\ EndInv /\ RecordsInv

(* Counting the messages of a kind, when one more is appended.               *)
LEMMA OneMoreCounted ==
    ASSUME NEW n \in Nat, NEW S \in SUBSET (1..n)
    PROVE  /\ IsFiniteSet(S) /\ Cardinality(S) \in 0..n
           /\ Cardinality(S \cup {n + 1}) = Cardinality(S) + 1
<1>1. IsFiniteSet(1..n) /\ Cardinality(1..n) = n
  BY FS_Interval
<1>2. IsFiniteSet(S) /\ Cardinality(S) \in Nat /\ Cardinality(S) <= n
  BY <1>1, FS_Subset, FS_CardinalityType
<1>3. n + 1 \notin S
  OBVIOUS
<1> QED
  BY <1>2, <1>3, FS_AddElement

LEMMA CountsStart == AgentInit => OutcomeInv
<1> SUFFICES ASSUME AgentInit PROVE OutcomeInv
  OBVIOUS
<1>1. AgentInv
  BY AgentStart
<1>2. /\ messages \in Seq(Message) /\ Len(messages) = 2 /\ DOMAIN messages = 1..2
      /\ messages[1] = SystemMessage /\ messages[2] = UserMessage
  BY DEF AgentInit, Message
<1>3. \A i \in 1..2 : messages[i].role \notin {"assistant", "tool"}
  BY <1>2, MessageFields
<1>4. Completions = {} /\ ProseAnswers = {} /\ ToolAnswersIn(2) = {}
  BY <1>2, <1>3 DEF Completions, ProseAnswers, ToolAnswersIn, AssistantAt, Prose
<1>5. Cardinality({}) = 0
  BY FS_EmptySet
<1>6. CountsInv
  BY <1>4, <1>5 DEF CountsInv, AgentInit
<1>7. LastAssistant = 0 /\ Calls = <<>>
  <2>1. LastAt(messages, LastAssistant)
    BY <1>1 DEF AgentInv, PlaceInv
  <2>2. LastAssistant = 0
    BY <1>2, <1>3, <2>1 DEF LastAt
  <2> QED
    BY <2>2 DEF Calls
<1>8. AcceptedInv /\ EndInv
  BY <1>7, AgentAssumption DEF AcceptedInv, EndInv, AgentInit, InTools
<1>9. RecordsInv
  <2>1. records = <<>> /\ Len(records) = 0 /\ records \in Seq(Record)
    BY EmptySeq DEF AgentInit
  <2>2. AnswersUpTo(Len(messages)) = 0
    BY <1>2, <1>4, <1>5 DEF AnswersUpTo
  <2> QED
    BY <1>2, <1>3, <2>1, <2>2 DEF RecordsInv, RecordsMatchTranscript
<1> QED
  BY <1>6, <1>8, <1>9 DEF OutcomeInv

LEMMA CompleteKeepsOutcome ==
    ASSUME AgentInv, OutcomeInv, NEW calls \in CallSeqs, Complete(calls)
    PROVE  OutcomeInv'
<1> DEFINE n == Len(messages) + 1
<1>1. /\ PlaceInv' /\ LastAssistant' = n /\ Calls' = calls
      /\ messages' \in Seq(Message) /\ Len(messages') \in Nat /\ Len(messages') >= n
      /\ messages'[n] = Assistant(calls)
      /\ \A i \in 1..Len(messages) : messages'[i] = messages[i]
      /\ \A i \in 1..Len(messages') : i > n => messages'[i] = UserMessage
      /\ answered' = 0 /\ (calls # <<>> => stop' = "running")
  BY CompleteKeepsPlace
<1>2. /\ Len(messages) \in Nat /\ messages \in Seq(Message) /\ iterations \in Nat
      /\ DOMAIN messages = 1..Len(messages) /\ DOMAIN messages' = 1..Len(messages')
  BY <1>1, PlaceFacts, LenProperties, AgentAssumption DEF AgentInv, PlaceInv
<1>3. Len(calls) \in Nat /\ (calls = <<>> <=> Len(calls) = 0)
  BY BoundedCalls, EmptySeq
<1>4. /\ messages'[n].role = "assistant" /\ messages'[n].calls = calls
      /\ \A i \in 1..Len(messages') : i > n => messages'[i].role = "user"
  BY <1>1, MessageFields
<1>5. n \in Nat /\ n = Len(messages) + 1 /\ n \in 1..Len(messages')
  BY <1>1, <1>2
<1> HIDE DEF n
<1>6. /\ stop = "running" /\ submitted' = 0 /\ iterations' = iterations + 1
      /\ records' = records /\ iterations' \in 0..MaxIterations
  <2>1. stop = "running" /\ iterations < MaxIterations
    BY DEF Complete, Ready
  <2>2. submitted' = 0 /\ iterations' = iterations + 1 /\ records' = records
    BY DEF Complete
  <2> QED
    BY <1>2, <2>1, <2>2, AgentAssumption
<1>7. CountsInv'
  <2>1. Completions' = Completions \cup {n}
    BY <1>1, <1>2, <1>4, <1>5 DEF Completions, AssistantAt
  <2>2. ProseAnswers' = IF calls = <<>> THEN ProseAnswers \cup {n} ELSE ProseAnswers
    BY <1>1, <1>2, <1>4, <1>5 DEF ProseAnswers, Prose
  <2>3. Completions \in SUBSET (1..Len(messages)) /\ ProseAnswers \in SUBSET (1..Len(messages))
    BY <1>2 DEF Completions, ProseAnswers
  <2>4. /\ Cardinality(Completions \cup {n}) = Cardinality(Completions) + 1
        /\ Cardinality(ProseAnswers \cup {n}) = Cardinality(ProseAnswers) + 1
    BY <1>2, <1>5, <2>3, OneMoreCounted
  <2>5. Cardinality(Completions') = iterations'
    BY <1>6, <2>1, <2>4 DEF OutcomeInv, CountsInv
  <2>6. Cardinality(ProseAnswers) = (IF nudged THEN 1 ELSE 0) /\ nudged \in BOOLEAN
    BY <1>6 DEF OutcomeInv, CountsInv
  <2>7. CASE calls # <<>>
    <3>1. nudged' = nudged /\ stop' = "running"
      BY <1>6, <2>7 DEF Complete
    <3> QED
      BY <2>2, <2>5, <2>6, <2>7, <3>1 DEF CountsInv
  <2>8. CASE calls = <<>> /\ nudged
    <3>1. nudged' = nudged /\ stop' = "NO_TOOL_CALL"
      BY <2>8 DEF Complete
    <3> QED
      BY <2>2, <2>4, <2>5, <2>6, <2>8, <3>1 DEF CountsInv
  <2>9. CASE calls = <<>> /\ ~nudged
    <3>1. nudged' = TRUE /\ stop' \in {"running", "MAX_ITERATIONS"}
      BY <2>9 DEF Complete, RoundOrEnd
    <3> QED
      BY <2>2, <2>4, <2>5, <2>6, <2>9, <3>1 DEF CountsInv
  <2> QED
    BY <2>6, <2>7, <2>8, <2>9
<1>8. AcceptedInv'
  BY <1>1, <1>6 DEF AcceptedInv
<1>9. EndInv'
  <2>1. CASE calls # <<>>
    BY <1>1, <1>3, <1>6, <2>1 DEF EndInv, InTools
  <2>2. CASE calls = <<>>
    <3>1. stop' # "SUBMITTED" /\ (stop' = "MAX_ITERATIONS" => ~(iterations' < MaxIterations))
      BY <2>2 DEF Complete, RoundOrEnd
    <3> QED
      BY <1>1, <1>3, <1>6, <2>2, <3>1, AgentAssumption DEF EndInv
  <2> QED
    BY <2>1, <2>2
<1>10. RecordsInv'
  <2>1. ASSUME NEW j \in 1..Len(messages) PROVE AnswersUpTo(j)' = AnswersUpTo(j)
    <3>1. ToolAnswersIn(j)' = ToolAnswersIn(j)
      BY <1>1, <1>2 DEF ToolAnswersIn
    <3> QED
      BY <3>1 DEF AnswersUpTo
  <2>2. AnswersUpTo(Len(messages))' = AnswersUpTo(Len(messages))
    <3>1. ToolAnswersIn(Len(messages))' = ToolAnswersIn(Len(messages))
      BY <1>1, <1>2, <1>4, <1>5 DEF ToolAnswersIn
    <3> QED
      BY <3>1 DEF AnswersUpTo
  <2>3. RecordsInv /\ TranscriptWellFormed
    BY DEF OutcomeInv, AgentInv
  <2>4. ASSUME NEW j \in DOMAIN messages', messages'[j].role = "tool"
        PROVE  LET k == messages'[j].answers
                   record == records'[AnswersUpTo(j)'] IN
               /\ record.error = (messages'[j].text = "error")
               /\ record.tool = messages'[j - k].calls[k]
    <3>1. j \in 1..Len(messages) /\ messages'[j] = messages[j]
      BY <1>1, <1>2, <1>4, <1>5, <2>4
    <3>2. PICK i \in 1..(j - 1) : j = i + messages[j].answers
      BY <1>2, <2>3, <2>4, <3>1 DEF TranscriptWellFormed
    <3>3. i \in 1..Len(messages) /\ messages'[i] = messages[i]
      BY <1>1, <1>2, <3>1, <3>2
    <3>4. messages[j] \in Message
      BY <1>2, <3>1, ElementOfSeq
    <3>5. messages[j].answers \in Nat
      BY <2>4, <3>1, <3>4, MessageFields DEF Message
    <3>6. j - messages[j].answers = i
      BY <3>1, <3>2, <3>3, <3>5
    <3> QED
      BY <1>2, <1>6, <2>1, <2>3, <2>4, <3>1, <3>3, <3>6 DEF RecordsInv, RecordsMatchTranscript
  <2> QED
    BY <1>6, <2>2, <2>3, <2>4 DEF RecordsInv, RecordsMatchTranscript
<1> QED
  BY <1>7, <1>8, <1>9, <1>10 DEF OutcomeInv

(* An answer adds a tool message and its record, and nothing else that is    *)
(* counted; the call just answered is the last one accepted, or is not.      *)
LEMMA AnswerKeepsOutcome ==
    ASSUME AgentInv, OutcomeInv, NEW text, NEW accepted, AnswerStep(text, accepted),
           text = "accepted" <=> accepted = answered + 1
    PROVE  OutcomeInv'
<1> DEFINE n == Len(messages) + 1
<1>1. /\ PlaceInv' /\ LastAssistant' = LastAssistant /\ Calls' = Calls
      /\ messages' \in Seq(Message) /\ Len(messages') = n
      /\ Len(messages) = LastAssistant + answered /\ LastAssistant # 0
      /\ messages'[n] = ToolMessage(answered + 1, text)
      /\ \A i \in 1..Len(messages) : messages'[i] = messages[i]
      /\ answered' = answered + 1 /\ answered + 1 \in 1..Len(Calls)
      /\ (answered' < Len(Calls) => InTools')
  BY AnswerKeepsPlace
<1>2. /\ Len(messages) \in Nat /\ messages \in Seq(Message) /\ iterations \in 0..MaxIterations
      /\ DOMAIN messages = 1..Len(messages) /\ DOMAIN messages' = 1..n
      /\ LastAssistant \in 1..Len(messages) /\ answered \in Nat /\ submitted \in 0..answered
      /\ Calls \in Seq(Tools) /\ Len(Calls) \in Nat
      /\ Calls = messages[LastAssistant].calls
  BY <1>1, PlaceFacts, LenProperties, AgentAssumption DEF AgentInv, PlaceInv
<1>3. /\ messages'[n].role = "tool" /\ messages'[n].text = text
      /\ messages'[n].answers = answered + 1
  BY <1>1, MessageFields
<1>4. n \in Nat /\ n = Len(messages) + 1 /\ n = LastAssistant + (answered + 1)
  BY <1>1, <1>2
<1> HIDE DEF n
<1>5. /\ InTools /\ stop = "running" /\ submitted' = accepted /\ text \in Texts
      /\ accepted \in {submitted, answered + 1}
      /\ nudged' = nudged /\ iterations' = iterations
      /\ records' = Append(records, [tool |-> Calls[answered + 1], error |-> text = "error"])
  BY DEF AnswerStep, Answer, AfterAnswer, InTools
<1>6. CountsInv'
  <2>1. Completions' = Completions /\ ProseAnswers' = ProseAnswers
    BY <1>1, <1>2, <1>3, <1>4 DEF Completions, ProseAnswers, AssistantAt, Prose
  <2>2. stop' # "NO_TOOL_CALL"
    BY <1>5 DEF AnswerStep, AfterAnswer, RoundOrEnd
  <2> QED
    BY <1>5, <2>1, <2>2 DEF OutcomeInv, CountsInv
<1>7. AcceptedInv'
  <2>1. \A k \in 1..answered : messages'[LastAssistant + k] = messages[LastAssistant + k]
    <3>1. \A k \in 1..answered : LastAssistant + k \in 1..Len(messages)
      BY <1>1, <1>2
    <3> QED
      BY <1>1, <3>1
  <2>2. messages'[LastAssistant + (answered + 1)].text = text
    BY <1>3, <1>4
  <2>3. AcceptedInv
    BY DEF OutcomeInv
  <2>4. CASE accepted = answered + 1
    <3>1. submitted' = answered' /\ messages'[LastAssistant' + submitted'].text = "accepted"
      BY <1>1, <1>5, <2>2, <2>4
    <3>2. (submitted' + 1)..answered' = {}
      BY <1>1, <1>2, <3>1
    <3> QED
      BY <3>1, <3>2 DEF AcceptedInv
  <2>5. CASE accepted # answered + 1
    <3>1. submitted' = submitted /\ text # "accepted"
      BY <1>5, <2>5
    <3>2. submitted # 0 => messages'[LastAssistant + submitted].text = "accepted"
      BY <1>2, <2>1, <2>3 DEF AcceptedInv
    <3>3. ASSUME NEW k \in (submitted + 1)..(answered + 1)
          PROVE  messages'[LastAssistant + k].text # "accepted"
      <4>1. CASE k = answered + 1
        BY <2>2, <3>1, <4>1
      <4>2. CASE k # answered + 1
        <5>1. k \in (submitted + 1)..answered /\ k \in 1..answered
          BY <1>2, <3>3, <4>2
        <5> QED
          BY <2>1, <2>3, <5>1 DEF AcceptedInv
      <4> QED
        BY <4>1, <4>2
    <3> QED
      BY <1>1, <3>1, <3>2, <3>3 DEF AcceptedInv
  <2> QED
    BY <2>4, <2>5
<1>8. EndInv'
  <2>1. CASE answered' < Len(Calls)
    <3>1. InTools' /\ stop' = "running"
      BY <1>1, <1>5, <2>1 DEF AnswerStep, AfterAnswer
    <3> QED
      BY <3>1 DEF EndInv
  <2>2. CASE ~(answered' < Len(Calls))
    <3>1. answered' = Len(Calls)
      BY <1>1, <1>2, <2>2
    <3>2. stop' = IF accepted # 0 THEN "SUBMITTED"
                  ELSE IF iterations' < MaxIterations THEN "running" ELSE "MAX_ITERATIONS"
      BY <1>5, <2>2 DEF AnswerStep, AfterAnswer, RoundOrEnd
    <3> QED
      BY <1>1, <1>2, <1>5, <3>1, <3>2, AgentAssumption DEF EndInv
  <2> QED
    BY <2>1, <2>2
<1>9. RecordsInv'
  <2> DEFINE r == [tool |-> Calls[answered + 1], error |-> text = "error"]
  <2>1. /\ r \in Record /\ r.tool = Calls[answered + 1] /\ r.error = (text = "error")
    BY <1>1, <1>2, ElementOfSeq DEF Record
  <2>2. records \in Seq(Record) /\ records' = Append(records, r) /\ RecordsMatchTranscript
    BY <1>5 DEF OutcomeInv, RecordsInv
  <2> HIDE DEF r
  <2>3. /\ records' \in Seq(Record) /\ Len(records') = Len(records) + 1
        /\ records'[Len(records) + 1] = r
        /\ \A i \in 1..Len(records) : records'[i] = records[i]
    BY <2>1, <2>2, AppendProperties
  <2>4. ASSUME NEW j \in 0..Len(messages) PROVE AnswersUpTo(j)' = AnswersUpTo(j)
    <3>1. ToolAnswersIn(j)' = ToolAnswersIn(j)
      BY <1>1, <1>2 DEF ToolAnswersIn
    <3> QED
      BY <3>1 DEF AnswersUpTo
  <2>5. \A j : j = n => AnswersUpTo(j)' = Len(records) + 1
    <3> SUFFICES ASSUME NEW j, j = n PROVE AnswersUpTo(j)' = Len(records) + 1
      OBVIOUS
    <3>1. ToolAnswersIn(j)' = ToolAnswersIn(Len(messages)) \cup {Len(messages) + 1}
      BY <1>1, <1>2, <1>3, <1>4 DEF ToolAnswersIn
    <3>2. ToolAnswersIn(Len(messages)) \in SUBSET (1..Len(messages))
      BY DEF ToolAnswersIn
    <3>3. Cardinality(ToolAnswersIn(j)') = Cardinality(ToolAnswersIn(Len(messages))) + 1
      BY <1>2, <3>1, <3>2, OneMoreCounted
    <3>4. Len(records) = Cardinality(ToolAnswersIn(Len(messages)))
      BY <2>2 DEF AnswersUpTo, RecordsMatchTranscript
    <3> QED
      BY <3>3, <3>4 DEF AnswersUpTo
  <2>6. Len(records') = AnswersUpTo(Len(messages))'
    BY <1>1, <2>3, <2>5
  <2>7. ASSUME NEW j \in DOMAIN messages', messages'[j].role = "tool"
        PROVE  LET k == messages'[j].answers
                   record == records'[AnswersUpTo(j)'] IN
               /\ record.error = (messages'[j].text = "error")
               /\ record.tool = messages'[j - k].calls[k]
    <3>1. CASE j = n
      <4>1. records'[AnswersUpTo(j)'] = r
        BY <2>3, <2>5, <3>1
      <4>2. /\ messages'[j].answers = answered + 1 /\ j - (answered + 1) = LastAssistant
            /\ messages'[LastAssistant] = messages[LastAssistant]
        BY <1>1, <1>2, <1>3, <1>4, <3>1
      <4> QED
        BY <1>2, <1>3, <2>1, <3>1, <4>1, <4>2
    <3>2. CASE j # n
      <4>1. j \in 1..Len(messages) /\ messages'[j] = messages[j]
        BY <1>1, <1>2, <1>4, <3>2
      <4>2. PICK i \in 1..(j - 1) : j = i + messages[j].answers
        BY <1>2, <2>7, <4>1 DEF AgentInv, TranscriptWellFormed
      <4>3. i \in 1..Len(messages) /\ messages'[i] = messages[i]
        BY <1>1, <1>2, <4>1, <4>2
      <4>4. messages[j] \in Message
        BY <1>2, <4>1, ElementOfSeq
      <4>5. messages[j].answers \in Nat
        BY <2>7, <4>1, <4>4, MessageFields DEF Message
      <4>6. j - messages[j].answers = i
        BY <4>1, <4>2, <4>3, <4>5
      <4>7. AnswersUpTo(j)' = AnswersUpTo(j) /\ AnswersUpTo(j) \in 1..Len(records)
        <5>1. ToolAnswersIn(j) \subseteq ToolAnswersIn(Len(messages))
          BY <1>2, <4>1 DEF ToolAnswersIn
        <5>2. ToolAnswersIn(Len(messages)) \in SUBSET (1..Len(messages))
          BY DEF ToolAnswersIn
        <5>3. j \in ToolAnswersIn(j)
          BY <2>7, <4>1 DEF ToolAnswersIn
        <5>4. IsFiniteSet(ToolAnswersIn(Len(messages)))
          BY <1>2, <5>2, OneMoreCounted
        <5>5. /\ IsFiniteSet(ToolAnswersIn(j))
              /\ Cardinality(ToolAnswersIn(j)) <= Cardinality(ToolAnswersIn(Len(messages)))
          BY <5>1, <5>4, FS_Subset
        <5>6. Cardinality(ToolAnswersIn(j)) \in Nat /\ Cardinality(ToolAnswersIn(j)) # 0
          BY <5>3, <5>5, FS_CardinalityType, FS_EmptySet
        <5>7. Len(records) \in Nat /\ Len(records) = AnswersUpTo(Len(messages))
          BY <2>2, LenProperties DEF RecordsMatchTranscript
        <5> QED
          BY <2>4, <4>1, <5>5, <5>6, <5>7 DEF AnswersUpTo
      <4>8. records'[AnswersUpTo(j)'] = records[AnswersUpTo(j)]
        BY <2>3, <4>7
      <4> QED
        BY <1>2, <2>2, <2>7, <4>1, <4>3, <4>6, <4>8 DEF RecordsMatchTranscript
    <3> QED
      BY <3>1, <3>2
  <2> QED
    BY <2>3, <2>6, <2>7 DEF RecordsInv, RecordsMatchTranscript
<1> QED
  BY <1>6, <1>7, <1>8, <1>9 DEF OutcomeInv

LEMMA FailureKeepsOutcome ==
    ASSUME AgentInv, OutcomeInv, CompletionFails
    PROVE  OutcomeInv'
<1>1. /\ UNCHANGED <<messages, records, answered, submitted, nudged>>
      /\ stop = "running" /\ stop' = "raised" /\ ~InTools
  BY DEF CompletionFails, Ready
<1>2. LastAssistant' = LastAssistant /\ Calls' = Calls
  BY <1>1 DEF LastAssistant, Calls
<1>3. ProseAnswers' = ProseAnswers /\ \A j : AnswersUpTo(j)' = AnswersUpTo(j)
  BY <1>1 DEF ProseAnswers, AnswersUpTo, ToolAnswersIn
<1>4. CountsInv'
  BY <1>1, <1>3 DEF OutcomeInv, CountsInv
<1>5. AcceptedInv'
  BY <1>1, <1>2 DEF OutcomeInv, AcceptedInv
<1>6. EndInv'
  BY <1>1, <1>2 DEF OutcomeInv, EndInv
<1>7. RecordsInv'
  BY <1>1, <1>3 DEF OutcomeInv, RecordsInv, RecordsMatchTranscript
<1> QED
  BY <1>4, <1>5, <1>6, <1>7 DEF OutcomeInv

(* Nothing the invariant is about changes: a late request arrives, or        *)
(* nothing happens.                                                          *)
LEMMA SameOutcome ==
    ASSUME OutcomeInv,
           UNCHANGED <<messages, records, answered, submitted, nudged, iterations, stop>>
    PROVE  OutcomeInv'
<1>1. LastAssistant' = LastAssistant /\ Calls' = Calls
  BY DEF LastAssistant, Calls
<1>2. InTools' <=> InTools
  BY <1>1 DEF InTools
<1>3. /\ Completions' = Completions /\ ProseAnswers' = ProseAnswers
      /\ \A j : AnswersUpTo(j)' = AnswersUpTo(j)
  BY DEF Completions, ProseAnswers, AnswersUpTo, ToolAnswersIn
<1>4. CountsInv'
  BY <1>3 DEF OutcomeInv, CountsInv
<1>5. AcceptedInv'
  BY <1>1 DEF OutcomeInv, AcceptedInv
<1>6. EndInv'
  BY <1>1, <1>2 DEF OutcomeInv, EndInv
<1>7. RecordsInv'
  BY <1>3 DEF OutcomeInv, RecordsInv, RecordsMatchTranscript
<1> QED
  BY <1>4, <1>5, <1>6, <1>7 DEF OutcomeInv

LEMMA OutcomeInvariant == AgentSpec => [](AgentInv /\ OutcomeInv)
<1>1. AgentInit => AgentInv /\ OutcomeInv
  BY AgentStart, CountsStart
<1>2. AgentInv /\ OutcomeInv /\ [AgentNext]_agentVars => OutcomeInv'
  <2> SUFFICES ASSUME AgentInv, OutcomeInv, [AgentNext]_agentVars PROVE OutcomeInv'
    OBVIOUS
  <2>1. ASSUME NEW calls \in BoundedSeq(Tools, MaxCalls), Complete(calls) PROVE OutcomeInv'
    BY <2>1, CompleteKeepsOutcome DEF CallSeqs
  <2>2. CASE CompletionFails
    BY <2>2, FailureKeepsOutcome
  <2>3. ASSUME NEW valid \in BOOLEAN, AnswerSubmit(valid) PROVE OutcomeInv'
    <3> DEFINE text == IF valid THEN "accepted" ELSE "error"
               accepted == IF valid THEN answered + 1 ELSE submitted
    <3>1. AnswerStep(text, accepted)
      BY <2>3 DEF AnswerSubmit, AnswerStep, Texts
    <3>2. text = "accepted" <=> accepted = answered + 1
      BY DEF AgentInv, PlaceInv
    <3> HIDE DEF text, accepted
    <3> QED
      BY <3>1, <3>2, AnswerKeepsOutcome
  <2>4. ASSUME NEW text \in {"result", "error"}, AnswerOther(text) PROVE OutcomeInv'
    <3>1. AnswerStep(text, submitted)
      BY <2>4 DEF AnswerOther, AnswerStep, Texts
    <3>2. text # "accepted" /\ submitted # answered + 1
      BY DEF AgentInv, PlaceInv
    <3> QED
      BY <3>1, <3>2, AnswerKeepsOutcome
  <2>5. ASSUME NEW fate \in {"stored", "refused", "silent", "late"}, AnswerPropose(fate)
        PROVE  OutcomeInv'
    <3> DEFINE text == IF fate = "stored" THEN "result" ELSE "error"
    <3>1. AnswerStep(text, submitted)
      BY <2>5 DEF AnswerPropose, AnswerStep, Texts
    <3>2. text # "accepted" /\ submitted # answered + 1
      BY DEF AgentInv, PlaceInv
    <3> HIDE DEF text
    <3> QED
      BY <3>1, <3>2, AnswerKeepsOutcome
  <2>6. ASSUME NEW site \in posted, LateArrival(site) PROVE OutcomeInv'
    BY <2>6, SameOutcome DEF LateArrival
  <2>7. CASE UNCHANGED agentVars
    BY <2>7, SameOutcome DEF agentVars
  <2> QED
    BY <2>1, <2>2, <2>3, <2>4, <2>5, <2>6, <2>7 DEF AgentNext, LoopStep
<1> QED
  BY <1>1, <1>2, LoopKeepsAll, PTL DEF AgentSpec

(* However a message mixes proposals, reads and resolutions, the run is      *)
(* SUBMITTED with the last resolution its last message had accepted, and     *)
(* only then; it gives up on prose after exactly one nudge, and otherwise    *)
(* only after max_iterations completions (loop.py's three ways out).         *)
THEOREM StopsAreEarned == AgentSpec => []StopReasonIsEarned
<1>1. AgentInv /\ OutcomeInv => StopReasonIsEarned
  <2> SUFFICES ASSUME AgentInv, OutcomeInv PROVE StopReasonIsEarned
    OBVIOUS
  <2>1. PlaceInv /\ CountsInv /\ AcceptedInv /\ EndInv
    BY DEF AgentInv, OutcomeInv
  <2>2. Ended => ~InTools
    BY DEF Ended, InTools
  <2>3. stop = "SUBMITTED" <=> Ended /\ submitted # 0
    BY <2>1, <2>2 DEF EndInv, Ended
  <2>4. Ended => \A k \in (submitted + 1)..Len(Calls) :
                     messages[LastAssistant + k].text # "accepted"
    BY <2>1, <2>2 DEF EndInv, AcceptedInv
  <2>5. stop = "SUBMITTED" <=>
            /\ Ended /\ submitted # 0
            /\ messages[LastAssistant + submitted].text = "accepted"
            /\ \A k \in (submitted + 1)..Len(Calls) :
                   messages[LastAssistant + k].text # "accepted"
    BY <2>1, <2>3, <2>4 DEF AcceptedInv
  <2>6. stop = "NO_TOOL_CALL" => Cardinality(ProseAnswers) = 2
    BY <2>1 DEF CountsInv
  <2>7. stop = "MAX_ITERATIONS" =>
            /\ Cardinality(Completions) = MaxIterations
            /\ \A k \in 1..Len(Calls) : messages[LastAssistant + k].text # "accepted"
    <3> SUFFICES ASSUME stop = "MAX_ITERATIONS"
                 PROVE  /\ Cardinality(Completions) = MaxIterations
                        /\ \A k \in 1..Len(Calls) : messages[LastAssistant + k].text # "accepted"
      OBVIOUS
    <3>1. submitted = 0 /\ Ended
      BY <2>1, <2>3 DEF Ended, PlaceInv
    <3>2. Cardinality(Completions) = MaxIterations
      BY <2>1 DEF CountsInv, EndInv
    <3> QED
      BY <2>4, <3>1, <3>2
  <2> QED
    BY <2>5, <2>6, <2>7 DEF StopReasonIsEarned
<1> QED
  BY <1>1, OutcomeInvariant, PTL

(* The records the evals score are the tool messages the model saw, in their *)
(* order, whichever calls failed (loop.py's records and messages).           *)
THEOREM RecordsAreTheTranscript == AgentSpec => []RecordsMatchTranscript
<1>1. OutcomeInv => RecordsMatchTranscript
  BY DEF OutcomeInv, RecordsInv
<1> QED
  BY <1>1, OutcomeInvariant, PTL

=============================================================================
