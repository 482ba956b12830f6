------------------------------- MODULE AgentLoop -------------------------------
(***************************************************************************)
(* One run of the agent: the tool-calling loop (agent/loop.py), the tools  *)
(* it offers (agent/tools.py) and what its one writing tool does to the    *)
(* ERP through the HTTP client (agent/erp_client.py).                      *)
(*                                                                         *)
(* The model is the environment: it may answer with prose, or with any     *)
(* tool calls in any order.  A call is "submit" (the terminal tool),       *)
(* "propose" (propose_correction) or "other" (a read, or a name that is no *)
(* tool); whether its arguments parse and validate is the model's choice   *)
(* too.  The answer to a call is its result or an error the model reads.   *)
(***************************************************************************)
EXTENDS Naturals, Sequences, SequencesExt, FiniteSets, Bags

CONSTANTS
    MaxIterations,   \* settings.max_iterations
    MaxCalls         \* bound: tool calls in one message of the model

ASSUME AgentAssumption == MaxIterations \in Nat /\ MaxCalls \in Nat

Tools == {"submit", "propose", "other"}

SystemMessage == [role |-> "system"]
UserMessage   == [role |-> "user"]       \* the task, and the nudge
Assistant(calls)     == [role |-> "assistant", calls |-> calls]
ToolMessage(k, text) == [role |-> "tool", answers |-> k, text |-> text]

VARIABLES
    messages,     \* the transcript
    records,      \* ToolCallRecords: tool and error, in the order of execution
    answered,     \* tool calls of the last assistant message answered so far
    submitted,    \* the call of that message accepted as resolution; 0 if none
    nudged,
    iterations,
    stop,         \* "running", a StopReason, or "raised"
    posted,       \* ProposeCorrection requests the client stopped waiting for
    raised        \* bag of the calls whose proposals the ERP has stored

agentVars == <<messages, records, answered, submitted, nudged, iterations, stop,
               posted, raised>>

(* The tool calls of the assistant message being worked on; none when the    *)
(* loop is between two completions.                                          *)
AssistantAt(m) == m.role = "assistant"
LastAssistant  == SelectLastInSeq(messages, AssistantAt)
Calls == IF LastAssistant = 0 THEN <<>> ELSE messages[LastAssistant].calls
InTools == stop = "running" /\ answered < Len(Calls)

(* A proposal is known by the position of its call in the whole transcript.  *)
CallSite == <<LastAssistant, answered + 1>>
Once(site) == SetToBag({site})

-----------------------------------------------------------------------------
(* for _ in range(max_iterations): the next round, or the end of the loop.   *)
RoundAlways == stop' = "running"                     \* a slip: the loop never ends
RoundOrEnd == stop' = IF iterations' < MaxIterations THEN "running" ELSE "MAX_ITERATIONS"

ReadyAnyway == answered >= Len(Calls) /\ iterations < MaxIterations   \* a slip: no return
Ready == stop = "running" /\ ~InTools /\ iterations < MaxIterations

(* completion_fn answers: the message is appended before anything else.      *)
(* Prose is answered with the nudge, once.                                   *)
Complete(calls) ==
    /\ Ready
    /\ iterations' = iterations + 1
    /\ answered' = 0 /\ submitted' = 0
    /\ \/ /\ calls # <<>>
          /\ messages' = Append(messages, Assistant(calls))
          /\ UNCHANGED <<nudged, stop>>
       \/ /\ calls = <<>> /\ nudged
          /\ messages' = Append(messages, Assistant(calls))
          /\ stop' = "NO_TOOL_CALL"
          /\ UNCHANGED nudged
       \/ /\ calls = <<>> /\ ~nudged
          /\ messages' = messages \o <<Assistant(calls), UserMessage>>
          /\ nudged' = TRUE
          /\ RoundOrEnd
    /\ UNCHANGED <<records, posted, raised>>

(* The provider fails: rate limit, network, bad key, a reply without choices. *)
CompletionFails ==
    /\ Ready
    /\ stop' = "raised"
    /\ iterations' = iterations + 1
    /\ UNCHANGED <<messages, records, answered, submitted, nudged, posted, raised>>

-----------------------------------------------------------------------------
(* The tool calls of the message, answered in order.  After the last one the *)
(* run ends if a resolution was accepted, and the loop goes round otherwise. *)

ReturnOnAccept(accepted) ==             \* a slip: return as soon as one is accepted
    /\ UNCHANGED <<nudged, iterations>>
    /\ answered' = answered + 1
    /\ submitted' = accepted
    /\ IF accepted # 0 THEN stop' = "SUBMITTED"
       ELSE IF answered' < Len(Calls) THEN UNCHANGED stop
       ELSE RoundOrEnd
AfterAnswer(accepted) ==
    /\ UNCHANGED <<nudged, iterations>>
    /\ answered' = answered + 1
    /\ submitted' = accepted
    /\ IF answered' < Len(Calls) THEN UNCHANGED stop
       ELSE IF accepted # 0 THEN stop' = "SUBMITTED"
       ELSE RoundOrEnd

AnswerUnrecorded(text) ==               \* a slip: the terminal tool leaves no record
    /\ messages' = Append(messages, ToolMessage(answered + 1, text))
    /\ IF Calls[answered + 1] = "submit" THEN UNCHANGED records
       ELSE records' = Append(records, [tool |-> Calls[answered + 1],
                                        error |-> text = "error"])
Answer(text) ==
    /\ messages' = Append(messages, ToolMessage(answered + 1, text))
    /\ records' = Append(records, [tool |-> Calls[answered + 1],
                                   error |-> text = "error"])

(* _accept_resolution: the arguments form a coherent Resolution or not.  The *)
(* last one accepted in a message is the one the run returns.                *)
SubmitOverwrites(valid) ==              \* a slip: a rejected one takes an accepted one back
    /\ InTools /\ Calls[answered + 1] = "submit"
    /\ Answer(IF valid THEN "accepted" ELSE "error")
    /\ AfterAnswer(IF valid THEN answered + 1 ELSE 0)
    /\ UNCHANGED <<posted, raised>>
AnswerSubmit(valid) ==
    /\ InTools /\ Calls[answered + 1] = "submit"
    /\ Answer(IF valid THEN "accepted" ELSE "error")
    /\ AfterAnswer(IF valid THEN answered + 1 ELSE submitted)
    /\ UNCHANGED <<posted, raised>>

(* _execute_tool_call on a tool that only reads, or on no tool at all: every *)
(* failure is an error text.                                                 *)
AnswerOther(text) ==
    /\ InTools /\ Calls[answered + 1] = "other"
    /\ Answer(text)
    /\ AfterAnswer(submitted)
    /\ UNCHANGED <<posted, raised>>

(* _execute_tool_call on propose_correction: one POST and no retry.          *)
(*   "stored"   the ERP stored the proposal and its answer came back         *)
(*   "refused"  nothing was sent (bad arguments) or the ERP refused it       *)
(*   "silent"   the ERP stored it and the answer was lost or late            *)
(*   "late"     the client gave up first; the request is still on its way    *)
ProposeRetrying(fate) ==                \* a slip: a POST that timed out is sent again
    /\ InTools /\ Calls[answered + 1] = "propose"
    /\ Answer(IF fate = "refused" THEN "error" ELSE "result")
    /\ AfterAnswer(submitted)
    /\ raised' = IF fate = "refused" THEN raised ELSE raised (+) Once(CallSite)
    /\ posted' = IF fate = "late" THEN posted \cup {CallSite} ELSE posted
AnswerPropose(fate) ==
    /\ InTools /\ Calls[answered + 1] = "propose"
    /\ Answer(IF fate = "stored" THEN "result" ELSE "error")
    /\ AfterAnswer(submitted)
    /\ raised' = IF fate \in {"stored", "silent"} THEN raised (+) Once(CallSite) ELSE raised
    /\ posted' = IF fate = "late" THEN posted \cup {CallSite} ELSE posted

(* A request given up on is handled by the ERP after all, or lost.           *)
LateArrival(site) ==
    /\ posted' = posted \ {site}
    /\ raised' = raised (+) Once(site) \/ UNCHANGED raised
    /\ UNCHANGED <<messages, records, answered, submitted, nudged, iterations, stop>>

-----------------------------------------------------------------------------
AgentInit ==
    /\ messages = <<SystemMessage, UserMessage>>
    /\ records = <<>> /\ answered = 0 /\ submitted = 0
    /\ nudged = FALSE /\ iterations = 0
    /\ stop = IF MaxIterations = 0 THEN "MAX_ITERATIONS" ELSE "running"
    /\ posted = {} /\ raised = EmptyBag

LoopStep ==
    \/ \E calls \in BoundedSeq(Tools, MaxCalls) : Complete(calls)
    \/ CompletionFails
    \/ \E valid \in BOOLEAN : AnswerSubmit(valid)
    \/ \E text \in {"result", "error"} : AnswerOther(text)
    \/ \E fate \in {"stored", "refused", "silent", "late"} : AnswerPropose(fate)

AgentNext == LoopStep \/ \E site \in posted : LateArrival(site)

(* The loop runs on its own thread; every HTTP call and every completion     *)
(* returns or raises (request_timeout, and the provider client's own).       *)
AgentSpec == AgentInit /\ [][AgentNext]_agentVars /\ WF_agentVars(LoopStep)

-----------------------------------------------------------------------------
(* Properties.                                                               *)

Ended == stop # "running"

AgentTypeOK ==
    /\ stop \in {"running", "raised", "SUBMITTED", "MAX_ITERATIONS", "NO_TOOL_CALL"}
    /\ iterations \in 0..MaxIterations
    /\ answered \in 0..Len(Calls) /\ submitted \in 0..answered
    /\ posted \subseteq (1..Len(messages)) \X (1..MaxCalls)

(* The transcript a provider accepts: each assistant message is followed by  *)
(* the answers to exactly its own calls, in order, before any other message; *)
(* only the last one may still have answers outstanding, and only while the  *)
(* loop is working through them.                                             *)
AnswersAfter(i) ==
    LET calls == messages[i].calls IN
    \A k \in 1..Len(calls) :
        \/ /\ i + k <= Len(messages)
           /\ messages[i + k].role = "tool" /\ messages[i + k].answers = k
        \/ InTools /\ i = LastAssistant /\ k > answered

TranscriptWellFormed ==
    /\ \A i \in DOMAIN messages : messages[i].role = "assistant" => AnswersAfter(i)
    /\ \A j \in DOMAIN messages : messages[j].role = "tool" =>
           \E i \in 1..(j - 1) : /\ messages[i].role = "assistant"
                                 /\ j = i + messages[j].answers
                                 /\ messages[j].answers <= Len(messages[i].calls)

(* The stop reason and the resolution agree with the transcript: a run is    *)
(* SUBMITTED exactly when a call of its last message was told "accepted" and *)
(* every call after it has been answered, and a run that gave up on prose    *)
(* was nudged once and answered with prose again.                            *)
Prose(m) == m.role = "assistant" /\ m.calls = <<>>
Completions == {i \in DOMAIN messages : AssistantAt(messages[i])}
ProseAnswers == {i \in DOMAIN messages : Prose(messages[i])}

StopReasonIsEarned ==
    /\ stop = "SUBMITTED" <=>
           /\ Ended /\ submitted # 0
           /\ messages[LastAssistant + submitted].text = "accepted"
           /\ \A k \in (submitted + 1)..Len(Calls) :
                  messages[LastAssistant + k].text # "accepted"
    /\ stop = "NO_TOOL_CALL" => Cardinality(ProseAnswers) = 2
    /\ stop = "MAX_ITERATIONS" =>
           /\ Cardinality(Completions) = MaxIterations
           /\ \A k \in 1..Len(Calls) : messages[LastAssistant + k].text # "accepted"

(* The flattened records the evals score are the tool messages, one for one  *)
(* and in their order: each names the tool that was called, and is an error  *)
(* exactly when the model was told one.                                      *)
ToolAnswersIn(j) == {i \in 1..j : messages[i].role = "tool"}
AnswersUpTo(j) == Cardinality(ToolAnswersIn(j))

RecordsMatchTranscript ==
    /\ Len(records) = AnswersUpTo(Len(messages))
    /\ \A j \in DOMAIN messages : messages[j].role = "tool" =>
           LET k == messages[j].answers
               record == records[AnswersUpTo(j)] IN
           /\ record.error = (messages[j].text = "error")
           /\ record.tool = messages[j - k].calls[k]

(* The client never repeats a POST: a call raises at most one proposal, and  *)
(* a call whose answer says so has raised it.                                *)
OneProposalPerCall ==
    /\ \A s \in DOMAIN raised : raised[s] = 1
    /\ posted \cap DOMAIN raised = {}
    /\ \A i \in DOMAIN messages : messages[i].role = "assistant" =>
           \A k \in DOMAIN messages[i].calls :
               /\ messages[i].calls[k] = "propose"
               /\ i + k <= Len(messages) /\ messages[i + k].role = "tool"
               /\ messages[i + k].text = "result"
               => <<i, k>> \in DOMAIN raised

(* Once the run is over the agent asks nothing more of the ERP: what is      *)
(* still stored was posted before.                                           *)
NothingPostedAfterTheEnd ==
    [][Ended => /\ stop' = stop /\ posted' \subseteq posted
                /\ messages' = messages
                /\ \A s \in DOMAIN raised' :
                       s \in posted \/ (s \in DOMAIN raised /\ raised'[s] <= raised[s])
      ]_agentVars

(* Every run ends, whatever the model does. *)
RunEnds == <>Ended

=============================================================================
