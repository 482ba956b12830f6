------------------------------- MODULE Cassettes -------------------------------
(***************************************************************************)
(* Recording an agent run's completions on a cassette and replaying them   *)
(* (evals/cassettes.py, and _completion_for of evals/runner.py).           *)
(*                                                                         *)
(* In both modes the agent loop and the ERP are the real ones: a replayed  *)
(* answer that calls a tool calls it again, and its result, which is part  *)
(* of the next request, is whatever the ERP says now.  Every turn stores a *)
(* hash of the request it answered; a strict replay refuses a turn whose   *)
(* request hashes differently.  Between two sessions somebody may edit the *)
(* code; at any time the dataset may be regenerated, which changes the     *)
(* ERP's documents and the invoice a scenario resolves to; and proposal    *)
(* numbers move on.  A process can be killed, also while it saves.         *)
(***************************************************************************)
EXTENDS Naturals, Sequences, FiniteSets

CONSTANTS
    MaxIterations,   \* settings.max_iterations
    Invoices,        \* invoices a scenario may resolve to
    MaxChanges,      \* bound: edits and regenerated datasets
    MaxSessions      \* bound: sessions

ASSUME CassettesAssumption ==
    MaxIterations \in Nat \ {0} /\ MaxChanges \in Nat /\ MaxSessions \in Nat

VARIABLES
    code,        \* versions of the prompt (with the model and the temperature), the
                 \* tool descriptions, their schemas and the cassette format
    invoice,     \* the one the scenario resolves to
    documents,   \* version of what reads of the ERP show
    counter,     \* number of the next proposal
    changes,     \* edits and regenerated datasets so far
    cassette,    \* the file on disk
    session,     \* the current or last session
    sessions     \* sessions started so far

world == <<code, invoice, documents, counter, changes>>
cassetteVars == <<world, cassette, session, sessions>>

(* What a completion calls: a read of the ERP (or any other call that does   *)
(* not end the run), a proposal, a resolution that is accepted; or nothing,  *)
(* it is prose.                                                              *)
Answers == {"read", "propose", "submit", "prose"}

Parts   == {"prompt", "descriptions", "schemas", "format"}
Missing == [state |-> "missing"]     \* no file
Torn    == [state |-> "torn"]        \* opened for writing and not written out
Saved   == cassette.state = "recorded"

(* What the provider would be asked: the messages, the first of which names  *)
(* the invoice, with every earlier answer and what the loop told it.         *)
Request == [prompt |-> code.prompt, descriptions |-> code.descriptions,
            schemas |-> code.schemas, invoice |-> session.invoice,
            messages |-> session.messages]

(* sha256 over the model, the messages, and the names and descriptions of    *)
(* the tools, sorted: equal exactly when these are.                          *)
FingerprintOfCode(r) ==              \* a slip: only the first messages
    [sha256_of |-> <<r.prompt, r.descriptions, r.invoice>>]
Fingerprint(r) == [sha256_of |-> <<r.prompt, r.descriptions, r.invoice, r.messages>>]

(* What the loop tells the model after an answer: the result of its call, or *)
(* the nudge after prose (after a second one it asks nothing more).          *)
Told(answer) == CASE answer = "read"    -> <<"document", documents>>
                  [] answer = "propose" -> <<"proposal", counter>>
                  [] answer = "submit"  -> <<"accepted">>
                  [] answer = "prose"   -> <<"nudge">>

-----------------------------------------------------------------------------
(* Sessions.                                                                 *)

Running == session.state \in {"recording", "ended", "writing", "replaying"}

(* The code, and the invoice of the scenario, are read when a process starts. *)
StartAs(state, strict) ==
    /\ ~Running /\ sessions < MaxSessions
    /\ sessions' = sessions + 1
    /\ session' = [state |-> state, strict |-> strict, messages |-> <<>>, turns |-> <<>>,
                   mismatches |-> {}, requests |-> <<>>, firstProposal |-> counter,
                   changes |-> changes, schemas |-> code.schemas, format |-> code.format,
                   invoice |-> invoice]
    /\ UNCHANGED <<world, cassette>>

(* A cassette is replayed if it can be read, is of this build's version and  *)
(* was recorded for the invoice of the scenario.  Else it is a CassetteError,*)
(* strict or not.                                                            *)
Loads == Saved /\ cassette.format = code.format /\ cassette.invoice = invoice
Start(mode, strict) ==
    StartAs(IF mode = "replaying" /\ ~Loads THEN "refused" ELSE mode, strict)

(* The loop takes an answer, calls its tool, and ends or goes round: it ends *)
(* with an accepted resolution, a second answer in prose, or at the cap.     *)
Nudged == \E k \in DOMAIN session.messages : session.messages[k][1] = "prose"
Ends(answer) ==
    \/ answer = "submit"
    \/ answer = "prose" /\ Nudged
    \/ Len(session.requests) + 1 = MaxIterations
Act(answer, turns, mismatches, state) ==
    /\ session' = [session EXCEPT !.messages = Append(@, <<answer, Told(answer)>>),
                                  !.turns = turns, !.mismatches = mismatches,
                                  !.requests = Append(@, Request), !.state = state]
    /\ counter' = IF answer = "propose" THEN counter + 1 ELSE counter
    /\ UNCHANGED <<code, invoice, documents, changes, cassette, sessions>>

(* Recorder: the answer is remembered with the hash of the request. *)
RecordAnswered(answer) ==            \* a slip: hashed once the message list has grown
    LET asked == [Request EXCEPT !.messages = Append(@, <<answer, Told(answer)>>)]
        turns == Append(session.turns, [fingerprint |-> Fingerprint(asked), response |-> answer])
    IN
    /\ session.state = "recording"
    /\ Act(answer, turns, {}, IF Ends(answer) THEN "ended" ELSE "recording")
Record(answer) ==
    LET turns == Append(session.turns, [fingerprint |-> Fingerprint(Request), response |-> answer])
    IN
    /\ session.state = "recording"
    /\ Act(answer, turns, {}, IF Ends(answer) THEN "ended" ELSE "recording")

(* However the loop ended, the cassette is written over whatever was there:  *)
(* opening the file empties it.                                              *)
OpenCassette ==
    /\ session.state = "ended"
    /\ session' = [session EXCEPT !.state = "writing"]
    /\ cassette' = Torn
    /\ UNCHANGED <<world, sessions>>
WriteCassette ==
    /\ session.state = "writing"
    /\ session' = [session EXCEPT !.state = "recorded"]
    /\ cassette' = session'
    /\ UNCHANGED <<world, sessions>>

(* The session is given up: the provider raises, which passes the `yield` so *)
(* that nothing is saved, or saving raises; or the process is killed.        *)
GiveUp(states, state) ==
    /\ session.state \in states
    /\ session' = [session EXCEPT !.state = state]
    /\ UNCHANGED <<world, cassette, sessions>>
ProviderFailsSaving ==               \* a slip: saved in a finally
    /\ session.state = "recording"
    /\ session' = [session EXCEPT !.state = "failed"]
    /\ cassette' = [session EXCEPT !.state = "recorded"]
    /\ UNCHANGED <<world, sessions>>
ProviderFails == GiveUp({"recording"}, "failed")
SaveFails     == GiveUp({"ended", "writing"}, "failed")
Kill          == GiveUp({"recording", "ended", "writing", "replaying"}, "killed")

(* Replayer: the next turn, if its fingerprint is that of the request or the *)
(* replay is not strict.                                                     *)
Position == Len(session.requests) + 1
Matches  == Fingerprint(Request) = cassette.turns[Position].fingerprint

Replay ==
    LET answer == cassette.turns[Position].response IN
    /\ session.state = "replaying" /\ Position <= Len(cassette.turns)
    /\ Matches \/ ~session.strict
    /\ Act(answer, session.turns,
           session.mismatches \cup {k \in {Position} : ~Matches},
           IF Ends(answer) THEN "replayed" ELSE "replaying")

(* CassetteError: the turns are used up, or the request has changed. *)
Refuse ==
    /\ session.state = "replaying"
    /\ \/ Position > Len(cassette.turns)
       \/ session.strict /\ ~Matches
    /\ session' = [session EXCEPT !.state = "refused"]
    /\ UNCHANGED <<world, cassette, sessions>>

-----------------------------------------------------------------------------
(* The world moves on. *)

(* Somebody edits the code: the next session runs it. *)
Edit(part) ==
    /\ changes < MaxChanges /\ ~Running
    /\ changes' = changes + 1
    /\ code' = [code EXCEPT ![part] = @ + 1]
    /\ UNCHANGED <<invoice, documents, counter, cassette, session, sessions>>

(* The ERP serves other documents, and the key may name another invoice. *)
DatasetChanges(i) ==
    /\ changes < MaxChanges
    /\ changes' = changes + 1
    /\ documents' = documents + 1
    /\ invoice' = i
    /\ UNCHANGED <<code, counter, cassette, session, sessions>>

CassettesInit ==
    /\ code = [part \in Parts |-> 0]
    /\ invoice \in Invoices
    /\ documents = 0 /\ counter = 1 /\ changes = 0
    /\ cassette = Missing
    /\ session = [state |-> "none"]
    /\ sessions = 0

CassettesNext ==
    \/ Start("recording", TRUE) \/ \E strict \in BOOLEAN : Start("replaying", strict)
    \/ \E answer \in Answers : Record(answer)
    \/ OpenCassette \/ WriteCassette
    \/ ProviderFails \/ SaveFails \/ Kill
    \/ Replay \/ Refuse
    \/ \E part \in Parts : Edit(part)
    \/ \E i \in Invoices : DatasetChanges(i)

CassettesSpec == CassettesInit /\ [][CassettesNext]_cassetteVars

-----------------------------------------------------------------------------
(* Properties.                                                               *)

(* What the provider sees of a request besides the parameter schemas. *)
Visible(r) == <<r.prompt, r.descriptions, r.invoice, r.messages>>

Replayed == session.state \in {"replaying", "replayed", "refused"}

(* A replay hands out answers only to the requests they were recorded for,   *)
(* and one that is not strict keeps a list of exactly the turns where it did *)
(* not: a green replay scored a conversation that took place.                *)
ReplayedAsRecorded ==
    Replayed =>
        \A k \in DOMAIN session.requests :
            Visible(session.requests[k]) # Visible(cassette.requests[k])
                <=> k \in session.mismatches /\ ~session.strict

(* The k-th turn ends the run it belongs to: a resolution was submitted, the *)
(* model answered in prose after the nudge, or the cap is reached.           *)
EndsRun(turns, k) ==
    \/ turns[k].response = "submit"
    \/ /\ turns[k].response = "prose"
       /\ \E j \in 1..(k - 1) : turns[j].response = "prose"
    \/ k = MaxIterations

(* A cassette that can be read holds a whole run: its last answer ended the  *)
(* loop, and no answer before it did.  A provider failure in mid-run leaves  *)
(* the old cassette alone; a kill while saving leaves none that can be read. *)
CassetteIsWhole ==
    Saved => LET turns == cassette.turns IN
             /\ Len(turns) \in 1..MaxIterations
             /\ \A k \in DOMAIN turns : EndsRun(turns, k) <=> k = Len(turns)

(* A replay is refused only for cause: there is no cassette, or saving it    *)
(* was broken off; something was edited or regenerated since it was          *)
(* recorded; or proposals are numbered differently than then.                *)
RefusalHasACause ==
    session.state = "refused" =>
        \/ ~Saved
        \/ changes # cassette.changes
        \/ session.firstProposal # cassette.firstProposal

(* "If the system prompt, a tool description, or the schema has changed      *)
(* since recording, the hashes differ and replay FAILS."                     *)
SchemaChangeIsNoticed ==
    session.state = "replayed" /\ session.strict => session.schemas = cassette.schemas

=============================================================================
