---------------------------- MODULE CassettesProofs ----------------------------
(***************************************************************************)
(* Theorems about cassettes, for runs of any length, any number of         *)
(* sessions, and any edits and documents that change between and in them.  *)
(***************************************************************************)
EXTENDS Cassettes, SequenceTheorems, TLAPS

Results  == {<<"accepted">>, <<"nudge">>} \cup ({"document", "proposal"} \X Nat)
Message  == Answers \X Results
Code     == [Parts -> Nat]
Requests == [prompt : Nat, descriptions : Nat, schemas : Nat, invoice : Invoices,
             messages : Seq(Message)]
Hashes   == {Fingerprint(r) : r \in Requests}
Turn     == [fingerprint : Hashes, response : Answers]
States   == {"recording", "ended", "writing", "recorded", "failed", "killed",
             "replaying", "replayed", "refused"}
Session  == [state : States, strict : BOOLEAN, messages : Seq(Message), turns : Seq(Turn),
             mismatches : SUBSET Nat, requests : Seq(Requests), firstProposal : Nat,
             changes : Nat, schemas : Nat, format : Nat, invoice : Invoices]

WorldInv ==
    /\ code \in Code /\ invoice \in Invoices
    /\ documents \in Nat /\ counter \in Nat /\ changes \in Nat
SessionInv == session.state = "none" \/ session \in Session

(* What is recorded of a session: one turn for each request, with its hash.  *)
Taped(s) ==
    /\ Len(s.turns) = Len(s.requests)
    /\ \A k \in 1..Len(s.requests) : s.turns[k].fingerprint = Fingerprint(s.requests[k])

(* The transcript holds the first n answers of the turns. *)
Answered(messages, turns, n) ==
    /\ Len(messages) = n /\ n \in Nat
    /\ \A k \in 1..n : messages[k][1] = turns[k].response

(* Nothing but the last answer ends a run. *)
GoesOn(turns, n) == n < MaxIterations /\ \A k \in 1..n : ~EndsRun(turns, k)
Unfinished(s) == GoesOn(s.turns, Len(s.turns))
Finished(s) ==
    /\ Len(s.turns) \in 1..MaxIterations
    /\ EndsRun(s.turns, Len(s.turns))
    /\ \A k \in 1..(Len(s.turns) - 1) : ~EndsRun(s.turns, k)

Whole(s) == s \in Session /\ Taped(s) /\ Finished(s)

RecordingInv ==
    /\ session.state \in {"recording", "ended", "writing"} =>
           Taped(session) /\ Answered(session.messages, session.turns, Len(session.turns))
    /\ session.state = "recording" => Unfinished(session)
    /\ session.state \in {"ended", "writing"} => Finished(session)
CassetteInv ==
    /\ cassette.state \in {"missing", "torn", "recorded"}
    /\ Saved => Whole(cassette)

(* A replay has handed out the first turns of the cassette. *)
ReplayingInv ==
    /\ Replayed /\ (session.state # "refused" \/ session.requests # <<>>) =>
           /\ Saved
           /\ Len(session.requests) <= Len(cassette.turns)
    /\ Replayed => session.mismatches \subseteq 1..Len(session.requests)
    /\ session.state = "replaying" =>
           /\ Answered(session.messages, cassette.turns, Len(session.requests))
           /\ GoesOn(cassette.turns, Len(session.requests))

TapeInv == WorldInv /\ SessionInv /\ RecordingInv /\ CassetteInv /\ ReplayingInv
           /\ ReplayedAsRecorded

-----------------------------------------------------------------------------
LEMMA HashesAreVisible ==
    \A r, q : Fingerprint(r) = Fingerprint(q) <=> Visible(r) = Visible(q)
BY DEF Fingerprint, Visible

LEMMA RequestTyped ==
    ASSUME WorldInv, session \in Session
    PROVE  Request \in Requests /\ Fingerprint(Request) \in Hashes
BY DEF Request, Requests, Hashes, WorldInv, Session, Code, Parts

LEMMA ResultTyped ==
    ASSUME WorldInv, NEW answer \in Answers
    PROVE  Told(answer) \in Results /\ <<answer, Told(answer)>> \in Message
<1>1. CASE answer = "read"
  BY <1>1 DEF Told, Results, Message, WorldInv
<1>2. CASE answer = "propose"
  BY <1>2 DEF Told, Results, Message, WorldInv
<1>3. CASE answer \in {"submit", "prose"}
  BY <1>3 DEF Told, Results, Message, WorldInv
<1> QED
  BY <1>1, <1>2, <1>3 DEF Answers

(* One more element at the end. *)
OneMore(s, e, more) == more = Append(s, e)

LEMMA Appended ==
    ASSUME NEW S, NEW s \in Seq(S), NEW e \in S, NEW more, OneMore(s, e, more)
    PROVE  /\ more \in Seq(S) /\ Len(s) \in Nat /\ Len(more) = Len(s) + 1
           /\ more[Len(s) + 1] = e
           /\ \A k \in 1..Len(s) : more[k] = s[k]
BY AppendProperties, LenProperties DEF OneMore

(* What taking an answer does to the session. *)
LEMMA ActFacts ==
    ASSUME WorldInv, session \in Session, NEW answer \in Answers,
           NEW turns \in Seq(Turn), NEW mismatches \in SUBSET Nat, NEW state \in States,
           Act(answer, turns, mismatches, state)
    PROVE  /\ WorldInv' /\ session' \in Session
           /\ session'.state = state /\ session'.strict = session.strict
           /\ session'.turns = turns /\ session'.mismatches = mismatches
           /\ session'.firstProposal = session.firstProposal
           /\ session'.changes = session.changes
           /\ OneMore(session.requests, Request, session'.requests)
           /\ OneMore(session.messages, <<answer, Told(answer)>>, session'.messages)
           /\ session'.invoice = session.invoice /\ session'.format = session.format
           /\ UNCHANGED <<code, invoice, documents, changes, cassette>>
           /\ counter' = IF answer = "propose" THEN counter + 1 ELSE counter
<1> DEFINE m == Append(session.messages, <<answer, Told(answer)>>)
           r == Append(session.requests, Request)
<1>1. session' = [session EXCEPT !.messages = m, !.turns = turns, !.mismatches = mismatches,
                                 !.requests = r, !.state = state]
  BY DEF Act
<1>2. m \in Seq(Message) /\ r \in Seq(Requests)
  <2>1. session.messages \in Seq(Message) /\ session.requests \in Seq(Requests)
    BY DEF Session
  <2> QED
    BY <2>1, RequestTyped, ResultTyped, AppendProperties
<1>3. OneMore(session.messages, <<answer, Told(answer)>>, m)
      /\ OneMore(session.requests, Request, r)
  BY DEF OneMore
<1> HIDE DEF m, r
<1>4. /\ session' \in Session
      /\ session'.state = state /\ session'.strict = session.strict
      /\ session'.turns = turns /\ session'.mismatches = mismatches
      /\ session'.firstProposal = session.firstProposal
      /\ session'.changes = session.changes
      /\ session'.invoice = session.invoice /\ session'.format = session.format
      /\ session'.requests = r /\ session'.messages = m
  BY <1>1, <1>2 DEF Session
<1>5. WorldInv'
  BY DEF Act, WorldInv
<1> QED
  BY <1>3, <1>4, <1>5 DEF Act

-----------------------------------------------------------------------------
(* Which turns end a run depends on what was answered up to them. *)
LEMMA EndsAgree ==
    ASSUME NEW one, NEW other, NEW n \in Nat,
           \A k \in 1..n : one[k].response = other[k].response
    PROVE  \A k \in 1..n : EndsRun(one, k) <=> EndsRun(other, k)
<1> SUFFICES ASSUME NEW k \in 1..n PROVE EndsRun(one, k) <=> EndsRun(other, k)
  OBVIOUS
<1>1. \A j \in 1..(k - 1) : one[j].response = other[j].response
  OBVIOUS
<1> QED
  BY <1>1 DEF EndsRun

(* The loop ends with an answer when that turn ends the run. *)
LEMMA EndsMeans ==
    ASSUME NEW turns, NEW n \in Nat, session.messages \in Seq(Message),
           Answered(session.messages, turns, n), Len(session.requests) = n,
           NEW answer, turns[n + 1].response = answer
    PROVE  Ends(answer) <=> EndsRun(turns, n + 1)
<1>1. DOMAIN session.messages = 1..n /\ (n + 1) - 1 = n
  BY LenProperties DEF Answered
<1>2. Nudged <=> \E j \in 1..n : turns[j].response = "prose"
  BY <1>1 DEF Nudged, Answered
<1> QED
  BY <1>1, <1>2 DEF Ends, EndsRun

(* Recording: the turn is taped with the hash of what was asked, and when    *)
(* the run is over it is whole.                                              *)
LEMMA RecordFacts ==
    ASSUME TapeInv, NEW answer \in Answers, Record(answer)
    PROVE  /\ WorldInv' /\ session \in Session /\ session' \in Session
           /\ session'.state = (IF Ends(answer) THEN "ended" ELSE "recording")
           /\ Taped(session')
           /\ Answered(session'.messages, session'.turns, Len(session'.turns))
           /\ ~Ends(answer) => Unfinished(session')
           /\ Ends(answer) => Finished(session')
           /\ cassette' = cassette
<1> DEFINE turn == [fingerprint |-> Fingerprint(Request), response |-> answer]
           turns == Append(session.turns, turn)
           state == IF Ends(answer) THEN "ended" ELSE "recording"
           n == Len(session.turns)
<1>1. /\ WorldInv /\ session.state = "recording" /\ session \in Session
      /\ Taped(session) /\ Unfinished(session)
      /\ Answered(session.messages, session.turns, Len(session.turns))
  BY DEF TapeInv, SessionInv, RecordingInv, Record
<1>2. /\ turn \in Turn /\ session.turns \in Seq(Turn) /\ session.requests \in Seq(Requests)
      /\ session.messages \in Seq(Message)
  BY <1>1, RequestTyped DEF Turn, Session
<1>3. /\ turns \in Seq(Turn) /\ OneMore(session.turns, turn, turns) /\ {} \in SUBSET Nat
      /\ state \in States /\ (state = IF Ends(answer) THEN "ended" ELSE "recording")
      /\ turn.response = answer /\ turn.fingerprint = Fingerprint(Request)
  BY <1>2, AppendProperties DEF OneMore, States
<1>4. Act(answer, turns, {}, state)
  BY DEF Record
<1> HIDE DEF turn, turns, state
<1>5. /\ WorldInv' /\ session' \in Session /\ session'.state = state
      /\ session'.turns = turns /\ cassette' = cassette
      /\ OneMore(session.requests, Request, session'.requests)
      /\ OneMore(session.messages, <<answer, Told(answer)>>, session'.messages)
  BY <1>1, <1>3, <1>4, ActFacts
<1>6. /\ n \in Nat /\ Len(turns) = n + 1 /\ turns[n + 1] = turn
      /\ \A k \in 1..n : turns[k] = session.turns[k]
  BY <1>2, <1>3, Appended
<1>7. /\ Len(session.requests) = n
      /\ Len(session'.requests) = n + 1
      /\ session'.requests[n + 1] = Request
      /\ \A k \in 1..n : session'.requests[k] = session.requests[k]
  <2>1. Request \in Requests
    BY <1>1, RequestTyped
  <2> QED
    BY <1>1, <1>2, <1>5, <2>1, Appended DEF Taped
<1>8. Taped(session')
  BY <1>1, <1>3, <1>5, <1>6, <1>7 DEF Taped
<1>9. Answered(session'.messages, turns, n + 1)
  <2>1. <<answer, Told(answer)>> \in Message /\ <<answer, Told(answer)>>[1] = answer
    BY <1>1, ResultTyped
  <2>2. /\ Len(session.messages) = n /\ Len(session'.messages) = n + 1
        /\ session'.messages[n + 1] = <<answer, Told(answer)>>
        /\ \A k \in 1..n : session'.messages[k] = session.messages[k]
    BY <1>1, <1>2, <1>5, <2>1, Appended DEF Answered
  <2>3. \A k \in 1..n : session'.messages[k][1] = turns[k].response
    BY <1>1, <1>6, <2>2 DEF Answered
  <2>4. session'.messages[n + 1][1] = turns[n + 1].response
    BY <1>3, <1>6, <2>1, <2>2
  <2>5. \A k \in 1..(n + 1) : k \in 1..n \/ k = n + 1
    BY <1>6
  <2> QED
    BY <1>6, <2>2, <2>3, <2>4, <2>5 DEF Answered
<1>10. Answered(session.messages, turns, n)
  BY <1>1, <1>6 DEF Answered
<1>11. Ends(answer) <=> EndsRun(turns, n + 1)
  BY <1>2, <1>3, <1>6, <1>7, <1>10, EndsMeans
<1>12. n < MaxIterations /\ MaxIterations \in Nat /\ \A k \in 1..n : ~EndsRun(turns, k)
  <2>1. n < MaxIterations /\ \A k \in 1..n : ~EndsRun(session.turns, k)
    BY <1>1 DEF Unfinished, GoesOn
  <2>2. \A k \in 1..n : turns[k].response = session.turns[k].response
    BY <1>6
  <2>3. \A k \in 1..n : EndsRun(turns, k) <=> EndsRun(session.turns, k)
    BY <1>6, <2>2, EndsAgree
  <2> QED
    BY <2>1, <2>3, CassettesAssumption
<1> HIDE DEF n
<1>13. ~Ends(answer) => Unfinished(session')
  <2>1. ASSUME ~Ends(answer) PROVE n + 1 < MaxIterations
    BY <1>6, <1>11, <1>12, <2>1 DEF EndsRun
  <2>2. \A k \in 1..(n + 1) : k \in 1..n \/ k = n + 1
    BY <1>6
  <2> QED
    BY <1>5, <1>6, <1>11, <1>12, <2>1, <2>2 DEF Unfinished, GoesOn
<1>14. Ends(answer) => Finished(session')
  <2>1. (n + 1) - 1 = n /\ n + 1 \in 1..MaxIterations
    BY <1>6, <1>12
  <2> QED
    BY <1>5, <1>6, <1>11, <1>12, <2>1 DEF Finished
<1> QED
  BY <1>1, <1>3, <1>5, <1>6, <1>8, <1>9, <1>13, <1>14

LEMMA RecordKeepsTape ==
    ASSUME TapeInv, NEW answer \in Answers, Record(answer)
    PROVE  TapeInv'
<1>1. /\ WorldInv' /\ session' \in Session
      /\ session'.state = (IF Ends(answer) THEN "ended" ELSE "recording")
      /\ Taped(session')
      /\ Answered(session'.messages, session'.turns, Len(session'.turns))
      /\ ~Ends(answer) => Unfinished(session')
      /\ Ends(answer) => Finished(session')
      /\ cassette' = cassette
  BY RecordFacts
<1>2. ~Replayed' /\ session'.state # "replaying"
  BY <1>1 DEF Replayed
<1>3. SessionInv' /\ RecordingInv'
  BY <1>1 DEF SessionInv, RecordingInv
<1>4. CassetteInv'
  BY <1>1 DEF TapeInv, CassetteInv, Saved, Whole
<1>5. ReplayingInv' /\ ReplayedAsRecorded'
  BY <1>2 DEF ReplayingInv, ReplayedAsRecorded
<1> QED
  BY <1>1, <1>3, <1>4, <1>5 DEF TapeInv

(* Saving: between the two steps there is no cassette to read.               *)
LEMMA SavingKeepsTape ==
    ASSUME TapeInv, OpenCassette \/ WriteCassette
    PROVE  TapeInv'
<1>1. /\ session.state \in {"ended", "writing"} /\ session \in Session
      /\ Taped(session) /\ Finished(session)
      /\ Answered(session.messages, session.turns, Len(session.turns))
      /\ UNCHANGED <<code, invoice, documents, counter, changes>>
  BY DEF TapeInv, SessionInv, RecordingInv, OpenCassette, WriteCassette, world
<1>2. PICK state \in {"writing", "recorded"} :
          /\ session' = [session EXCEPT !.state = state]
          /\ \/ state = "writing" /\ cassette' = Torn
             \/ state = "recorded" /\ cassette' = session'
  BY DEF OpenCassette, WriteCassette
<1>3. /\ session' \in Session /\ session'.state = state
      /\ session'.turns = session.turns /\ session'.requests = session.requests
      /\ session'.messages = session.messages
  BY <1>1, <1>2 DEF Session, States
<1>4. Taped(session') /\ Finished(session')
      /\ Answered(session'.messages, session'.turns, Len(session'.turns))
  BY <1>1, <1>3 DEF Taped, Finished
<1>5. ~Replayed' /\ session'.state \notin {"replaying", "recording"}
  BY <1>2, <1>3 DEF Replayed
<1>6. WorldInv'
  BY <1>1 DEF TapeInv, WorldInv
<1>7. CassetteInv'
  <2>1. CASE state = "writing"
    BY <1>2, <2>1 DEF CassetteInv, Saved, Torn
  <2>2. CASE state = "recorded"
    BY <1>2, <1>3, <1>4, <2>2 DEF CassetteInv, Whole
  <2> QED
    BY <1>2, <2>1, <2>2
<1>8. RecordingInv'
  BY <1>4, <1>5 DEF RecordingInv
<1> QED
  BY <1>3, <1>5, <1>6, <1>7, <1>8 DEF TapeInv, SessionInv, ReplayingInv, ReplayedAsRecorded

(* Replaying: an answer is handed out to a request that hashes as recorded,  *)
(* or, when the replay is not strict, the turn is noted as a mismatch.       *)
LEMMA ReplayKeepsTape ==
    ASSUME TapeInv, Replay
    PROVE  TapeInv'
<1> DEFINE answer == cassette.turns[Position].response
           noted == session.mismatches \cup {k \in {Position} : ~Matches}
           state == IF Ends(answer) THEN "replayed" ELSE "replaying"
           n == Len(session.requests)
<1>1. /\ WorldInv /\ session.state = "replaying" /\ session \in Session /\ Replayed
      /\ Saved /\ cassette \in Session /\ Taped(cassette) /\ Finished(cassette)
      /\ session.mismatches \subseteq 1..n
      /\ Answered(session.messages, cassette.turns, n) /\ GoesOn(cassette.turns, n)
      /\ ReplayedAsRecorded
  BY DEF TapeInv, SessionInv, ReplayingInv, CassetteInv, Whole, Replay, Replayed
<1>2. /\ session.requests \in Seq(Requests) /\ n \in Nat /\ Position = n + 1
      /\ session.turns \in Seq(Turn) /\ cassette.turns \in Seq(Turn)
      /\ session.messages \in Seq(Message)
  BY <1>1, LenProperties DEF Session, Position
<1>3. /\ Position \in 1..Len(cassette.turns) /\ Position \in Nat
  BY <1>2, LenProperties DEF Replay
<1>4. /\ answer \in Answers /\ noted \in SUBSET Nat /\ state \in States
  <2>1. cassette.turns[Position] \in Turn
    BY <1>2, <1>3, ElementOfSeq
  <2> QED
    BY <1>1, <1>2, <1>3, <2>1 DEF Turn, States
<1>5. /\ Act(answer, session.turns, noted, state)
      /\ Matches \/ ~session.strict
  BY DEF Replay
<1>6. state = (IF Ends(answer) THEN "replayed" ELSE "replaying")
      /\ noted = session.mismatches \cup {k \in {Position} : ~Matches}
      /\ answer = cassette.turns[Position].response
  OBVIOUS
<1> HIDE DEF answer, noted, state
<1>7. /\ WorldInv' /\ session' \in Session /\ session'.state = state
      /\ session'.mismatches = noted /\ session'.strict = session.strict
      /\ OneMore(session.requests, Request, session'.requests)
      /\ OneMore(session.messages, <<answer, Told(answer)>>, session'.messages)
      /\ cassette' = cassette
  BY <1>1, <1>2, <1>4, <1>5, ActFacts
<1>8. /\ Len(session'.requests) = n + 1 /\ session'.requests[n + 1] = Request
      /\ \A k \in 1..n : session'.requests[k] = session.requests[k]
  <2>1. Request \in Requests
    BY <1>1, RequestTyped
  <2> QED
    BY <1>2, <1>7, <2>1, Appended
<1>9. session'.requests \in Seq(Requests) /\ DOMAIN session'.requests = 1..(n + 1)
  BY <1>7, <1>8, LenProperties DEF Session
<1>10. DOMAIN session.requests = 1..n
  BY <1>2, LenProperties
<1>11. Matches <=> Visible(Request) = Visible(cassette.requests[n + 1])
  <2>1. cassette.turns[n + 1].fingerprint = Fingerprint(cassette.requests[n + 1])
    BY <1>1, <1>2, <1>3 DEF Taped
  <2> QED
    BY <1>2, <2>1, HashesAreVisible DEF Matches
<1>12. Ends(answer) <=> EndsRun(cassette.turns, n + 1)
  BY <1>1, <1>2, <1>6, EndsMeans
<1>13. Answered(session'.messages, cassette.turns, n + 1)
  <2>1. <<answer, Told(answer)>> \in Message /\ <<answer, Told(answer)>>[1] = answer
    BY <1>1, <1>4, ResultTyped
  <2>2. /\ Len(session.messages) = n /\ Len(session'.messages) = n + 1
        /\ session'.messages[n + 1] = <<answer, Told(answer)>>
        /\ \A k \in 1..n : session'.messages[k] = session.messages[k]
    BY <1>1, <1>2, <1>7, <2>1, Appended DEF Answered
  <2>3. \A k \in 1..n : session'.messages[k][1] = cassette.turns[k].response
    BY <1>1, <2>2 DEF Answered
  <2>4. session'.messages[n + 1][1] = cassette.turns[n + 1].response
    BY <1>2, <1>6, <2>1, <2>2
  <2>5. \A k \in 1..(n + 1) : k \in 1..n \/ k = n + 1
    BY <1>2
  <2> QED
    BY <1>2, <2>2, <2>3, <2>4, <2>5 DEF Answered
<1> HIDE DEF n
<1>14. ReplayedAsRecorded'
  <2>1. ASSUME NEW k \in 1..n
        PROVE  Visible(session'.requests[k]) # Visible(cassette.requests[k])
                   <=> k \in noted /\ ~session.strict
    <3>1. Visible(session.requests[k]) # Visible(cassette.requests[k])
              <=> k \in session.mismatches /\ ~session.strict
      BY <1>1, <1>10 DEF ReplayedAsRecorded
    <3>2. k \in noted <=> k \in session.mismatches
      BY <1>2, <1>6
    <3> QED
      BY <1>8, <3>1, <3>2
  <2>2. Visible(session'.requests[n + 1]) # Visible(cassette.requests[n + 1])
            <=> n + 1 \in noted /\ ~session.strict
    <3>1. n + 1 \notin session.mismatches
      BY <1>1, <1>2
    <3> QED
      BY <1>2, <1>5, <1>6, <1>8, <1>11, <3>1
  <2>3. \A k \in 1..(n + 1) : k \in 1..n \/ k = n + 1
    BY <1>2
  <2> QED
    BY <1>7, <1>9, <2>1, <2>2, <2>3 DEF ReplayedAsRecorded
<1>15. session'.state \in {"replayed", "replaying"}
  BY <1>6, <1>7
<1>16. ReplayingInv'
  <2>1. noted \subseteq 1..(n + 1) /\ n + 1 <= Len(cassette.turns)
    BY <1>1, <1>2, <1>3, <1>6
  <2>2. ASSUME state = "replaying"
        PROVE  GoesOn(cassette.turns, n + 1)
    <3>1. ~EndsRun(cassette.turns, n + 1)
      BY <1>6, <1>12, <2>2
    <3>2. n < MaxIterations /\ \A k \in 1..n : ~EndsRun(cassette.turns, k)
      BY <1>1 DEF GoesOn
    <3>3. n + 1 < MaxIterations
      BY <1>2, <3>1, <3>2, CassettesAssumption DEF EndsRun
    <3>4. \A k \in 1..(n + 1) : k \in 1..n \/ k = n + 1
      BY <1>2
    <3> QED
      BY <3>1, <3>2, <3>3, <3>4 DEF GoesOn
  <2>3. Saved'
    BY <1>1, <1>7 DEF Saved
  <2> QED
    BY <1>7, <1>8, <1>13, <2>1, <2>2, <2>3 DEF ReplayingInv
<1>17. RecordingInv' /\ SessionInv' /\ CassetteInv'
  <2>1. session'.state \notin {"recording", "ended", "writing"}
    BY <1>15
  <2>2. CassetteInv'
    BY <1>1, <1>7 DEF CassetteInv, Whole, Saved
  <2> QED
    BY <1>7, <2>1, <2>2 DEF RecordingInv, SessionInv
<1> QED
  BY <1>7, <1>14, <1>16, <1>17 DEF TapeInv

(* A session starts with nothing taped and nothing handed out; a replay      *)
(* starts only from a cassette that can be read.                             *)
LEMMA StartFacts ==
    ASSUME WorldInv, NEW mode \in {"recording", "replaying"}, NEW strict \in BOOLEAN,
           Start(mode, strict)
    PROVE  /\ session' \in Session
           /\ session'.state = (IF mode = "replaying" /\ ~Loads THEN "refused" ELSE mode)
           /\ session'.turns = <<>> /\ session'.requests = <<>> /\ session'.messages = <<>>
           /\ session'.mismatches = {}
           /\ session'.firstProposal = counter /\ session'.changes = changes
           /\ session'.invoice = invoice /\ session'.format = code.format
           /\ UNCHANGED <<code, invoice, documents, counter, changes, cassette>>
<1> DEFINE state == IF mode = "replaying" /\ ~Loads THEN "refused" ELSE mode
<1>1. state \in States
  BY DEF States
<1>2. StartAs(state, strict)
  BY DEF Start
<1>3. state = IF mode = "replaying" /\ ~Loads THEN "refused" ELSE mode
  OBVIOUS
<1> HIDE DEF state
<1>4. code.format \in Nat /\ code.schemas \in Nat
  BY DEF WorldInv, Code, Parts
<1>5. /\ session' = [state |-> state, strict |-> strict, messages |-> <<>>, turns |-> <<>>,
                     mismatches |-> {}, requests |-> <<>>, firstProposal |-> counter,
                     changes |-> changes, schemas |-> code.schemas, format |-> code.format,
                     invoice |-> invoice]
      /\ UNCHANGED <<code, invoice, documents, counter, changes, cassette>>
  BY <1>2 DEF StartAs, world
<1>6. session' \in Session
  BY <1>1, <1>4, <1>5, EmptySeq DEF Session, WorldInv
<1> QED
  BY <1>3, <1>5, <1>6

LEMMA StartKeepsTape ==
    ASSUME TapeInv, NEW mode \in {"recording", "replaying"}, NEW strict \in BOOLEAN,
           Start(mode, strict)
    PROVE  TapeInv'
<1>1. /\ session' \in Session
      /\ session'.state = (IF mode = "replaying" /\ ~Loads THEN "refused" ELSE mode)
      /\ session'.turns = <<>> /\ session'.requests = <<>> /\ session'.messages = <<>>
      /\ session'.mismatches = {}
      /\ UNCHANGED <<code, invoice, documents, counter, changes, cassette>>
  BY StartFacts DEF TapeInv
<1>2. WorldInv' /\ CassetteInv /\ CassetteInv'
  BY <1>1 DEF TapeInv, WorldInv, CassetteInv, Whole, Saved, Taped, Finished
<1>3. /\ Len(session'.turns) = 0 /\ Len(session'.requests) = 0
      /\ Len(session'.messages) = 0 /\ DOMAIN session'.requests = {}
  BY <1>1
<1>4. 0 < MaxIterations
  BY CassettesAssumption
<1>5. session'.state \in {"recording", "replaying", "refused"}
  BY <1>1
<1>6. RecordingInv'
  BY <1>3, <1>4, <1>5 DEF RecordingInv, Taped, Unfinished, GoesOn, Answered
<1>7. ReplayingInv'
  <2>1. session'.state = "replaying" =>
            Saved' /\ Len(cassette'.turns) \in Nat /\ Len(cassette'.turns) >= 0
    BY <1>1, <1>2 DEF Loads, Saved, CassetteInv, Whole, Finished
  <2>2. Replayed' => session'.state \in {"replaying", "refused"}
    BY <1>5 DEF Replayed
  <2> QED
    BY <1>1, <1>3, <1>4, <2>1, <2>2 DEF ReplayingInv, Answered, GoesOn
<1>8. ReplayedAsRecorded'
  BY <1>3 DEF ReplayedAsRecorded
<1> QED
  BY <1>1, <1>2, <1>6, <1>7, <1>8 DEF TapeInv, SessionInv

(* A session that is given up leaves the cassette and its own turns alone.   *)
LEMMA GiveUpFacts ==
    ASSUME SessionInv, ProviderFails \/ SaveFails \/ Kill
    PROVE  /\ session.state \in {"recording", "ended", "writing", "replaying"}
           /\ session \in Session /\ session' \in Session
           /\ session'.state \in {"failed", "killed"}
           /\ session'.changes = session.changes
           /\ session'.invoice = session.invoice /\ session'.format = session.format
           /\ UNCHANGED <<code, invoice, documents, counter, changes, cassette>>
<1>1. PICK states \in SUBSET {"recording", "ended", "writing", "replaying"},
           state \in {"failed", "killed"} : GiveUp(states, state)
  BY DEF ProviderFails, SaveFails, Kill
<1>2. session.state \in {"recording", "ended", "writing", "replaying"} /\ session \in Session
  BY <1>1 DEF GiveUp, SessionInv
<1>3. session' = [session EXCEPT !.state = state]
  BY <1>1 DEF GiveUp
<1> QED
  BY <1>1, <1>2, <1>3 DEF GiveUp, Session, States, world

LEMMA AbandonKeepsTape ==
    ASSUME TapeInv, ProviderFails \/ SaveFails \/ Kill \/ Refuse
    PROVE  TapeInv'
<1>1. CASE ProviderFails \/ SaveFails \/ Kill
  <2>1. /\ session' \in Session /\ session'.state \in {"failed", "killed"}
        /\ UNCHANGED <<code, invoice, documents, counter, changes, cassette>>
    BY <1>1, GiveUpFacts DEF TapeInv
  <2>2. ~Replayed' /\ session'.state \notin {"recording", "ended", "writing", "replaying"}
    BY <2>1 DEF Replayed
  <2>3. CassetteInv' /\ WorldInv'
    BY <2>1 DEF TapeInv, CassetteInv, Whole, Saved, WorldInv
  <2> QED
    BY <2>1, <2>2, <2>3 DEF TapeInv, SessionInv, RecordingInv, ReplayingInv,
                            ReplayedAsRecorded
<1>2. CASE Refuse
  <2>1. /\ session' = [session EXCEPT !.state = "refused"] /\ Replayed
        /\ session.state = "replaying" /\ session \in Session
        /\ UNCHANGED <<code, invoice, documents, counter, changes, cassette>>
    BY <1>2 DEF TapeInv, SessionInv, Refuse, Replayed, world
  <2>2. /\ session' \in Session /\ session'.state = "refused"
        /\ session'.requests = session.requests /\ session'.strict = session.strict
        /\ session'.mismatches = session.mismatches
    BY <2>1 DEF Session, States
  <2>3. RecordingInv' /\ SessionInv'
    BY <2>2 DEF RecordingInv, SessionInv
  <2>4. CassetteInv' /\ WorldInv'
    BY <2>1 DEF TapeInv, CassetteInv, Whole, Saved, WorldInv
  <2>5. ReplayingInv'
    BY <2>1, <2>2 DEF TapeInv, ReplayingInv, Saved
  <2>6. ReplayedAsRecorded'
    BY <2>1, <2>2 DEF TapeInv, ReplayedAsRecorded
  <2> QED
    BY <2>3, <2>4, <2>5, <2>6 DEF TapeInv
<1> QED
  BY <1>1, <1>2

(* Nor does the world moving on touch either of them. *)
LEMMA WorldKeepsTape ==
    ASSUME TapeInv, UNCHANGED <<session, cassette>>, WorldInv'
    PROVE  TapeInv'
<1>1. SessionInv' /\ RecordingInv' /\ CassetteInv'
  BY DEF TapeInv, SessionInv, RecordingInv, CassetteInv, Whole, Saved
<1>2. ReplayingInv' /\ ReplayedAsRecorded'
  BY DEF TapeInv, ReplayingInv, ReplayedAsRecorded, Replayed, Saved
<1> QED
  BY <1>1, <1>2 DEF TapeInv

LEMMA ChangesAreTyped ==
    ASSUME WorldInv, \/ \E part \in Parts : Edit(part)
                     \/ \E i \in Invoices : DatasetChanges(i)
    PROVE  /\ WorldInv' /\ UNCHANGED <<session, cassette>>
           /\ changes' = changes + 1
<1>1. ASSUME NEW part \in Parts, Edit(part)
      PROVE  code' \in Code
  <2>1. code' = [code EXCEPT ![part] = code[part] + 1]
    BY <1>1 DEF Edit
  <2> QED
    BY <2>1 DEF WorldInv, Code
<1>2. ASSUME NEW part \in Parts, Edit(part)
      PROVE  WorldInv' /\ UNCHANGED <<session, cassette>> /\ changes' = changes + 1
  BY <1>1, <1>2 DEF Edit, WorldInv, Code
<1>3. ASSUME NEW i \in Invoices, DatasetChanges(i)
      PROVE  WorldInv' /\ UNCHANGED <<session, cassette>> /\ changes' = changes + 1
  BY <1>3 DEF DatasetChanges, WorldInv
<1> QED
  BY <1>2, <1>3

LEMMA TapeStart == CassettesInit => TapeInv
<1> SUFFICES ASSUME CassettesInit PROVE TapeInv
  OBVIOUS
<1>1. session.state = "none" /\ cassette.state = "missing"
  BY DEF CassettesInit, Missing
<1>2. WorldInv /\ CassetteInv
  BY <1>1 DEF CassettesInit, WorldInv, CassetteInv, Saved, Code
<1> QED
  BY <1>1, <1>2 DEF TapeInv, SessionInv, RecordingInv, ReplayingInv, ReplayedAsRecorded,
                    Replayed

LEMMA NextKeepsTape == TapeInv /\ [CassettesNext]_cassetteVars => TapeInv'
<1> SUFFICES ASSUME TapeInv, [CassettesNext]_cassetteVars PROVE TapeInv'
  OBVIOUS
<1>1. CASE Start("recording", TRUE) \/ \E strict \in BOOLEAN : Start("replaying", strict)
  BY <1>1, StartKeepsTape
<1>2. CASE \E answer \in Answers : Record(answer)
  BY <1>2, RecordKeepsTape
<1>3. CASE OpenCassette \/ WriteCassette
  BY <1>3, SavingKeepsTape
<1>4. CASE ProviderFails \/ SaveFails \/ Kill \/ Refuse
  BY <1>4, AbandonKeepsTape
<1>5. CASE Replay
  BY <1>5, ReplayKeepsTape
<1>6. CASE (\E part \in Parts : Edit(part)) \/ (\E i \in Invoices : DatasetChanges(i))
  BY <1>6, ChangesAreTyped, WorldKeepsTape DEF TapeInv
<1>7. CASE UNCHANGED cassetteVars
  <2>1. UNCHANGED <<code, invoice, documents, counter, changes, session, cassette>>
    BY <1>7 DEF cassetteVars, world
  <2>2. WorldInv'
    BY <2>1 DEF TapeInv, WorldInv
  <2> QED
    BY <2>1, <2>2, WorldKeepsTape
<1> QED
  BY <1>1, <1>2, <1>3, <1>4, <1>5, <1>6, <1>7 DEF CassettesNext

LEMMA TapeInvariant == CassettesSpec => []TapeInv
BY TapeStart, NextKeepsTape, PTL DEF CassettesSpec

(* A cassette that can be read is one whole run: its last turn, and no other,*)
(* ended it, whatever raised, was killed, edited or recorded over it.        *)
THEOREM CassettesAreWhole == CassettesSpec => []CassetteIsWhole
<1>1. TapeInv => CassetteIsWhole
  <2> SUFFICES ASSUME TapeInv, Saved PROVE CassetteIsWhole
    BY DEF CassetteIsWhole
  <2>1. Finished(cassette) /\ cassette.turns \in Seq(Turn)
    BY DEF TapeInv, CassetteInv, Whole, Session
  <2>2. DOMAIN cassette.turns = 1..Len(cassette.turns) /\ Len(cassette.turns) \in Nat
    BY <2>1, LenProperties
  <2>3. \A k \in 1..Len(cassette.turns) :
            k = Len(cassette.turns) \/ k \in 1..(Len(cassette.turns) - 1)
    BY <2>2
  <2> QED
    BY <2>1, <2>2, <2>3 DEF CassetteIsWhole, Finished
<1> QED
  BY <1>1, TapeInvariant, PTL

(* A strict replay hands every answer to the request it was recorded for,    *)
(* and one that is not strict has noted exactly the turns where it did not.  *)
THEOREM ReplayIsHonest == CassettesSpec => []ReplayedAsRecorded
<1>1. TapeInv => ReplayedAsRecorded
  BY DEF TapeInv
<1> QED
  BY <1>1, TapeInvariant, PTL

-----------------------------------------------------------------------------
(* Why a replay is refused.  While nothing changes, a run is determined by   *)
(* its answers and the number of its first proposal: w[k] is what the ERP    *)
(* and the transcript are before turn k, and a replay passes through the     *)
(* same moments as the recording.                                            *)

Moment == [counter : Nat, messages : Seq(Message)]
After(answer, c) == IF answer = "propose" THEN c + 1 ELSE c
ResultIn(answer, d, c) == CASE answer = "read"    -> <<"document", d>>
                            [] answer = "propose" -> <<"proposal", c>>
                            [] answer = "submit"  -> <<"accepted">>
                            [] answer = "prose"   -> <<"nudge">>

Asked(request, i, cd, moment) ==
    /\ request.prompt = cd.prompt /\ request.descriptions = cd.descriptions
    /\ request.invoice = i
    /\ request.messages = moment.messages
Moved(m, answer, d, next) ==
    /\ next.counter = After(answer, m.counter)
    /\ OneMore(m.messages, <<answer, ResultIn(answer, d, m.counter)>>, next.messages)

Path(s, w, i, cd, d) ==
    /\ w \in [1..(Len(s.requests) + 1) -> Moment]
    /\ w[1] = [counter |-> s.firstProposal, messages |-> <<>>]
    /\ \A k \in 1..Len(s.requests) :
          /\ Asked(s.requests[k], i, cd, w[k])
          /\ Moved(w[k], s.turns[k].response, d, w[k + 1])

Now == [counter |-> counter, messages |-> session.messages]
Here == Len(session.requests) + 1

ToldInv ==
    session.state \in {"recording", "ended", "writing"} /\ session.changes = changes =>
        \E w : Path(session, w, invoice, code, documents) /\ w[Here] = Now
TapedInv ==
    Saved /\ cassette.changes = changes =>
        \E w : Path(cassette, w, invoice, code, documents)
FollowInv ==
    /\ session.state = "replaying" /\ cassette.changes = changes
    /\ session.firstProposal = cassette.firstProposal
    => \E w : Path(cassette, w, invoice, code, documents) /\ w[Here] = Now

(* A session or a cassette of before the last change is told by its count;   *)
(* one of after it is of the present invoice and format.                     *)
Current(s) ==
    /\ s.changes <= changes
    /\ s.changes = changes => s.invoice = invoice /\ s.format = code.format
ChangesInv ==
    /\ session.state # "none" => Current(session)
    /\ Saved => Current(cassette)
    /\ session.state = "replaying" /\ cassette.changes = changes =>
           session.invoice = invoice

PathInv == TapeInv /\ ToldInv /\ TapedInv /\ FollowInv /\ ChangesInv /\ RefusalHasACause

LEMMA NowIsAMoment ==
    ASSUME WorldInv, session \in Session
    PROVE  Now \in Moment /\ Now.counter = counter /\ Now.messages = session.messages
BY DEF Now, Moment, WorldInv, Session

LEMMA ResultsAgree ==
    ASSUME NEW answer \in Answers
    PROVE  Told(answer) = ResultIn(answer, documents, counter)
BY DEF Told, ResultIn

(* Taking an answer moves the present moment on. *)
LEMMA ActMoves ==
    ASSUME WorldInv, session \in Session, NEW answer \in Answers,
           NEW turns \in Seq(Turn), NEW mismatches \in SUBSET Nat, NEW state \in States,
           Act(answer, turns, mismatches, state)
    PROVE  Now' \in Moment /\ Moved(Now, answer, documents, Now')
<1>1. /\ WorldInv' /\ session' \in Session
      /\ OneMore(session.messages, <<answer, Told(answer)>>, session'.messages)
      /\ counter' = IF answer = "propose" THEN counter + 1 ELSE counter
  BY ActFacts
<1>2. Now' \in Moment /\ Now'.counter = counter' /\ Now'.messages = session'.messages
  BY <1>1 DEF Now, Moment, WorldInv, Session
<1>3. Now.counter = counter /\ Now.messages = session.messages
  BY DEF Now
<1>4. counter' = After(answer, counter)
  BY <1>1 DEF After
<1> QED
  BY <1>1, <1>2, <1>3, <1>4, ResultsAgree DEF Moved

LEMMA RequestIsAsked ==
    ASSUME session \in Session
    PROVE  Asked(Request, session.invoice, code, Now)
BY DEF Asked, Request, Now

-----------------------------------------------------------------------------
(* Recording extends the path by the moment after the answer. *)
LEMMA RecordKeepsPath ==
    ASSUME PathInv, NEW answer \in Answers, Record(answer)
    PROVE  PathInv'
<1> DEFINE turn == [fingerprint |-> Fingerprint(Request), response |-> answer]
           turns == Append(session.turns, turn)
           state == IF Ends(answer) THEN "ended" ELSE "recording"
           n == Len(session.requests)
<1>1. /\ TapeInv /\ WorldInv /\ session.state = "recording" /\ session \in Session
      /\ Taped(session)
  BY DEF PathInv, TapeInv, SessionInv, RecordingInv, Record
<1>2. turn \in Turn /\ session.turns \in Seq(Turn) /\ session.requests \in Seq(Requests)
  BY <1>1, RequestTyped DEF Turn, Session
<1>3. /\ turns \in Seq(Turn) /\ OneMore(session.turns, turn, turns) /\ {} \in SUBSET Nat
      /\ state \in States /\ turn.response = answer
      /\ state \in {"ended", "recording"}
  BY <1>2, AppendProperties DEF OneMore, States
<1>4. Act(answer, turns, {}, state)
  BY DEF Record
<1> HIDE DEF turn, turns, state
<1>5. /\ session' \in Session /\ session'.state = state /\ session'.turns = turns
      /\ session'.firstProposal = session.firstProposal
      /\ session'.changes = session.changes
      /\ session'.invoice = session.invoice /\ session'.format = session.format
      /\ OneMore(session.requests, Request, session'.requests)
      /\ code' = code /\ invoice' = invoice /\ documents' = documents
      /\ changes' = changes /\ cassette' = cassette
  <2>1. turns \in Seq(Turn) /\ {} \in SUBSET Nat /\ state \in States /\ WorldInv
        /\ session \in Session
    BY <1>1, <1>3
  <2>2. /\ session' \in Session /\ session'.state = state /\ session'.turns = turns
        /\ session'.firstProposal = session.firstProposal
        /\ session'.changes = session.changes
    BY <1>4, <2>1, ActFacts
  <2>3. /\ session'.invoice = session.invoice /\ session'.format = session.format
        /\ OneMore(session.requests, Request, session'.requests)
    BY <1>4, <2>1, ActFacts
  <2>4. UNCHANGED <<code, invoice, documents, changes, cassette>>
    BY <1>4 DEF Act
  <2> QED
    BY <2>2, <2>3, <2>4
<1>6. Now' \in Moment /\ Moved(Now, answer, documents, Now')
  BY <1>1, <1>3, <1>4, ActMoves
<1>7. /\ n \in Nat /\ Len(session'.requests) = n + 1 /\ session'.requests[n + 1] = Request
      /\ \A k \in 1..n : session'.requests[k] = session.requests[k]
  <2>1. Request \in Requests
    BY <1>1, RequestTyped
  <2> QED
    BY <1>2, <1>5, <2>1, Appended
<1>8. /\ turns[n + 1].response = answer
      /\ \A k \in 1..n : turns[k] = session.turns[k]
  BY <1>1, <1>2, <1>3, Appended DEF Taped
<1>9. Here = n + 1 /\ Here' = n + 2
  BY <1>7 DEF Here
<1>10. ASSUME session'.changes = changes'
       PROVE  \E w : Path(session', w, invoice', code', documents') /\ w[Here'] = Now'
  <2>1. PICK w : Path(session, w, invoice, code, documents) /\ w[n + 1] = Now
    BY <1>1, <1>5, <1>9, <1>10 DEF PathInv, ToldInv
  <2> DEFINE v == [k \in 1..(n + 2) |-> IF k = n + 2 THEN Now' ELSE w[k]]
  <2>2. /\ w \in [1..(n + 1) -> Moment]
        /\ w[1] = [counter |-> session.firstProposal, messages |-> <<>>]
        /\ \A k \in 1..n : /\ Asked(session.requests[k], invoice, code, w[k])
                           /\ Moved(w[k], session.turns[k].response, documents, w[k + 1])
    BY <2>1 DEF Path
  <2>3. v \in [1..(n + 2) -> Moment]
    BY <1>6, <1>7, <2>2
  <2>4. v[n + 2] = Now' /\ \A k \in 1..(n + 1) : v[k] = w[k]
    BY <1>7
  <2> HIDE DEF v, n
  <2>5. ASSUME NEW k \in 1..(n + 1)
        PROVE  /\ Asked(session'.requests[k], invoice, code, v[k])
               /\ Moved(v[k], turns[k].response, documents, v[k + 1])
    <3>1. CASE k \in 1..n
      <4>1. k + 1 \in 1..(n + 1)
        BY <1>7, <3>1
      <4> QED
        BY <1>7, <1>8, <2>2, <2>4, <3>1, <4>1
    <3>2. CASE k = n + 1
      <4>1. k \in 1..(n + 1) /\ k + 1 = n + 2 /\ v[k] = Now
        BY <1>7, <2>1, <2>4, <3>2
      <4>2. session.invoice = invoice
        BY <1>1, <1>5, <1>10 DEF PathInv, ChangesInv, Current
      <4> QED
        BY <1>1, <1>6, <1>7, <1>8, <2>4, <3>2, <4>1, <4>2, RequestIsAsked
    <3> QED
      BY <1>7, <3>1, <3>2
  <2>6. v[1] = [counter |-> session'.firstProposal, messages |-> <<>>]
    BY <1>5, <1>7, <2>2, <2>4
  <2>7. Len(session'.requests) + 1 = n + 2
    BY <1>7
  <2>8. Path(session', v, invoice', code', documents')
    BY <1>5, <1>7, <2>3, <2>5, <2>6, <2>7 DEF Path
  <2> QED
    BY <1>9, <2>4, <2>8
<1>11. ToldInv'
  BY <1>10 DEF ToldInv
<1>12. TapedInv'
  BY <1>5 DEF PathInv, TapedInv, Saved
<1>13. session'.state \notin {"replaying", "refused", "none"}
  BY <1>3, <1>5
<1>14. FollowInv' /\ RefusalHasACause'
  BY <1>13 DEF FollowInv, RefusalHasACause
<1>15. ChangesInv'
  BY <1>1, <1>5, <1>13 DEF PathInv, ChangesInv, Current, Saved
<1>16. TapeInv'
  BY <1>1, RecordKeepsTape
<1> QED
  BY <1>11, <1>12, <1>14, <1>15, <1>16 DEF PathInv

(* Saving puts the path of the session on the cassette.                      *)
LEMMA SavingKeepsPath ==
    ASSUME PathInv, OpenCassette \/ WriteCassette
    PROVE  PathInv'
<1>1. /\ session.state \in {"ended", "writing"} /\ session \in Session
      /\ UNCHANGED <<code, invoice, documents, counter, changes>>
  BY DEF PathInv, TapeInv, SessionInv, OpenCassette, WriteCassette, world
<1>2. PICK state \in {"writing", "recorded"} :
          /\ session' = [session EXCEPT !.state = state]
          /\ \/ state = "writing" /\ cassette' = Torn
             \/ state = "recorded" /\ cassette' = session'
  BY DEF OpenCassette, WriteCassette
<1>3. /\ session' \in Session /\ session'.state = state
      /\ session'.turns = session.turns /\ session'.requests = session.requests
      /\ session'.messages = session.messages
      /\ session'.firstProposal = session.firstProposal
      /\ session'.changes = session.changes
      /\ session'.invoice = session.invoice /\ session'.format = session.format
  BY <1>1, <1>2 DEF Session, States
<1>4. ASSUME session.changes = changes
      PROVE  \E w : Path(session', w, invoice, code, documents) /\ w[Here'] = Now'
  <2>1. PICK w : Path(session, w, invoice, code, documents) /\ w[Here] = Now
    BY <1>1, <1>4 DEF PathInv, ToldInv
  <2>2. Here' = Here /\ Now' = Now
    BY <1>1, <1>3 DEF Here, Now
  <2>3. Path(session', w, invoice, code, documents)
    BY <1>3, <2>1 DEF Path
  <2> QED
    BY <2>1, <2>2, <2>3
<1>5. ToldInv'
  BY <1>1, <1>3, <1>4 DEF ToldInv
<1>6. Saved' => state = "recorded" /\ cassette' = session'
  BY <1>2 DEF Saved, Torn
<1>7. TapedInv'
  BY <1>1, <1>3, <1>4, <1>6 DEF TapedInv
<1>8. session'.state \notin {"replaying", "refused", "none"} /\ session.state # "none"
  BY <1>1, <1>3
<1>9. FollowInv' /\ RefusalHasACause'
  BY <1>8 DEF FollowInv, RefusalHasACause
<1>10. ChangesInv'
  BY <1>1, <1>3, <1>6, <1>8 DEF PathInv, ChangesInv, Current
<1>11. TapeInv'
  BY SavingKeepsTape DEF PathInv
<1> QED
  BY <1>5, <1>7, <1>9, <1>10, <1>11 DEF PathInv

(* A replay under the circumstances of the recording is at the moment the    *)
(* recording was at, and is asked what was asked then.                       *)
LEMMA MovesAreDetermined ==
    ASSUME NEW m, NEW answer, NEW d, NEW next \in Moment, NEW other \in Moment,
           Moved(m, answer, d, next), Moved(m, answer, d, other)
    PROVE  next = other
<1>1. next.counter = other.counter
  BY DEF Moved
<1>2. next.messages = other.messages
  BY DEF Moved, OneMore
<1>3. /\ next = [counter |-> next.counter, messages |-> next.messages]
      /\ other = [counter |-> other.counter, messages |-> other.messages]
  BY DEF Moment
<1> QED
  BY <1>1, <1>2, <1>3

LEMMA ReplayKeepsPath ==
    ASSUME PathInv, Replay
    PROVE  PathInv'
<1> DEFINE answer == cassette.turns[Position].response
           noted == session.mismatches \cup {k \in {Position} : ~Matches}
           state == IF Ends(answer) THEN "replayed" ELSE "replaying"
<1>1. /\ TapeInv /\ WorldInv /\ session.state = "replaying" /\ session \in Session
      /\ Saved /\ cassette \in Session /\ Taped(cassette)
  BY DEF PathInv, TapeInv, SessionInv, ReplayingInv, CassetteInv, Whole, Replay, Replayed
<1>2. /\ session.requests \in Seq(Requests) /\ Len(session.requests) \in Nat
      /\ Position = Here /\ Here \in Nat /\ Here >= 1
      /\ session.turns \in Seq(Turn) /\ cassette.turns \in Seq(Turn)
  BY <1>1, LenProperties DEF Session, Position, Here
<1>3. Here \in 1..Len(cassette.turns) /\ Len(cassette.turns) = Len(cassette.requests)
  BY <1>1, <1>2, LenProperties DEF Replay, Taped
<1>4. /\ answer \in Answers /\ noted \in SUBSET Nat /\ state \in States
      /\ answer = cassette.turns[Here].response
  <2>1. cassette.turns[Position] \in Turn
    BY <1>2, <1>3, ElementOfSeq
  <2>2. session.mismatches \subseteq Nat
    BY <1>1 DEF Session
  <2> QED
    BY <1>1, <1>2, <1>3, <2>1, <2>2 DEF Turn, States
<1>5. Act(answer, session.turns, noted, state)
  BY DEF Replay
<1>6. state \in {"replayed", "replaying"}
  OBVIOUS
<1> HIDE DEF answer, noted, state
<1>7. /\ session' \in Session /\ session'.state = state
      /\ session'.firstProposal = session.firstProposal
      /\ session'.changes = session.changes
      /\ session'.invoice = session.invoice /\ session'.format = session.format
      /\ OneMore(session.requests, Request, session'.requests)
      /\ code' = code /\ invoice' = invoice /\ documents' = documents
      /\ changes' = changes /\ cassette' = cassette
  <2>1. session.turns \in Seq(Turn) /\ noted \in SUBSET Nat /\ state \in States /\ WorldInv
        /\ session \in Session /\ answer \in Answers
    BY <1>1, <1>2, <1>4
  <2>2. /\ session' \in Session /\ session'.state = state
        /\ session'.firstProposal = session.firstProposal
        /\ session'.changes = session.changes
    BY <1>5, <2>1, ActFacts
  <2>3. /\ session'.invoice = session.invoice /\ session'.format = session.format
        /\ OneMore(session.requests, Request, session'.requests)
    BY <1>5, <2>1, ActFacts
  <2>4. UNCHANGED <<code, invoice, documents, changes, cassette>>
    BY <1>5 DEF Act
  <2> QED
    BY <2>2, <2>3, <2>4
<1>8. Now' \in Moment /\ Moved(Now, answer, documents, Now')
  BY <1>1, <1>2, <1>4, <1>5, ActMoves
<1>9. Here' = Here + 1
  <2>1. Request \in Requests
    BY <1>1, RequestTyped
  <2>2. Len(session'.requests) = Len(session.requests) + 1
    BY <1>2, <1>7, <2>1, Appended
  <2> QED
    BY <2>2 DEF Here
<1>10. FollowInv'
  <2> SUFFICES ASSUME cassette.changes = changes,
                      session.firstProposal = cassette.firstProposal
               PROVE  \E w : Path(cassette, w, invoice, code, documents) /\ w[Here + 1] = Now'
    BY <1>7, <1>9 DEF FollowInv
  <2>1. PICK w : Path(cassette, w, invoice, code, documents) /\ w[Here] = Now
    BY <1>1 DEF PathInv, FollowInv
  <2>2. /\ Moved(Now, answer, documents, w[Here + 1]) /\ w[Here + 1] \in Moment
    <3>1. /\ w \in [1..(Len(cassette.requests) + 1) -> Moment]
          /\ \A k \in 1..Len(cassette.requests) :
                Moved(w[k], cassette.turns[k].response, documents, w[k + 1])
      BY <2>1 DEF Path
    <3>2. Here + 1 \in 1..(Len(cassette.requests) + 1) /\ Here \in 1..Len(cassette.requests)
      BY <1>2, <1>3
    <3> QED
      BY <1>4, <2>1, <3>1, <3>2
  <2>3. w[Here + 1] = Now'
    BY <1>8, <2>2, MovesAreDetermined
  <2> QED
    BY <2>1, <2>3
<1>11. session'.state \notin {"recording", "ended", "writing", "refused", "none"}
  BY <1>6, <1>7
<1>12. ToldInv' /\ RefusalHasACause'
  BY <1>11 DEF ToldInv, RefusalHasACause
<1>13. TapedInv'
  BY <1>7 DEF PathInv, TapedInv, Saved
<1>14. ChangesInv'
  BY <1>1, <1>7 DEF PathInv, ChangesInv, Current, Saved
<1>15. TapeInv'
  BY <1>1, ReplayKeepsTape
<1> QED
  BY <1>10, <1>12, <1>13, <1>14, <1>15 DEF PathInv

LEMMA RefuseKeepsPath ==
    ASSUME PathInv, Refuse
    PROVE  PathInv'
<1> DEFINE n == Len(session.requests)
<1>1. /\ TapeInv /\ WorldInv /\ session.state = "replaying" /\ session \in Session
      /\ Saved /\ cassette \in Session /\ Taped(cassette) /\ Finished(cassette)
      /\ n <= Len(cassette.turns) /\ GoesOn(cassette.turns, n)
  BY DEF PathInv, TapeInv, SessionInv, ReplayingInv, CassetteInv, Whole, Refuse, Replayed
<1>2. n \in Nat /\ Position = n + 1 /\ Here = n + 1
  BY <1>1, LenProperties DEF Session, Position, Here
<1>3. n + 1 \in 1..Len(cassette.turns)
  <2>1. Len(cassette.turns) \in Nat /\ Len(cassette.turns) >= 1
    BY <1>1, CassettesAssumption DEF Finished
  <2>2. n # Len(cassette.turns)
    BY <1>1, <1>2, <2>1 DEF Finished, GoesOn
  <2> QED
    BY <1>1, <1>2, <2>1, <2>2
<1>4. /\ session' = [session EXCEPT !.state = "refused"]
      /\ UNCHANGED <<code, invoice, documents, counter, changes, cassette>>
      /\ \/ Position > Len(cassette.turns)
         \/ session.strict /\ ~Matches
  BY DEF Refuse, world
<1>5. /\ session' \in Session /\ session'.state = "refused"
      /\ session'.firstProposal = session.firstProposal
      /\ session'.changes = session.changes
      /\ session'.invoice = session.invoice /\ session'.format = session.format
  BY <1>1, <1>4 DEF Session, States
<1>6. ~(changes = cassette.changes /\ session.firstProposal = cassette.firstProposal)
  <2> SUFFICES ASSUME changes = cassette.changes,
                      session.firstProposal = cassette.firstProposal
               PROVE  FALSE
    OBVIOUS
  <2>1. PICK w : Path(cassette, w, invoice, code, documents) /\ w[n + 1] = Now
    BY <1>1, <1>2 DEF PathInv, FollowInv
  <2>2. Asked(cassette.requests[n + 1], invoice, code, Now)
    BY <1>1, <1>3, <2>1 DEF Path, Taped
  <2>3. Asked(Request, invoice, code, Now)
    <3>1. session.invoice = invoice
      BY <1>1 DEF PathInv, ChangesInv
    <3> QED
      BY <1>1, <3>1, RequestIsAsked
  <2>4. Visible(Request) = Visible(cassette.requests[n + 1])
    BY <2>2, <2>3 DEF Asked, Visible
  <2>5. Matches
    BY <1>1, <1>2, <1>3, <2>4, HashesAreVisible DEF Matches, Taped
  <2> QED
    BY <1>2, <1>3, <1>4, <2>5
<1>7. RefusalHasACause'
  BY <1>4, <1>5, <1>6 DEF RefusalHasACause
<1>8. ToldInv' /\ FollowInv'
  BY <1>5 DEF ToldInv, FollowInv
<1>9. TapedInv' /\ ChangesInv'
  BY <1>1, <1>4, <1>5 DEF PathInv, TapedInv, ChangesInv, Current, Saved
<1>10. TapeInv'
  BY <1>1, AbandonKeepsTape
<1> QED
  BY <1>7, <1>8, <1>9, <1>10 DEF PathInv

LEMMA GiveUpKeepsPath ==
    ASSUME PathInv, ProviderFails \/ SaveFails \/ Kill
    PROVE  PathInv'
<1>1. /\ session.state \in {"recording", "ended", "writing", "replaying"}
      /\ session'.state \in {"failed", "killed"}
      /\ session'.changes = session.changes
      /\ session'.invoice = session.invoice /\ session'.format = session.format
      /\ UNCHANGED <<code, invoice, documents, counter, changes, cassette>>
  BY GiveUpFacts DEF PathInv, TapeInv
<1>2. ToldInv' /\ FollowInv' /\ RefusalHasACause'
  BY <1>1 DEF ToldInv, FollowInv, RefusalHasACause
<1>3. TapedInv' /\ ChangesInv'
  BY <1>1 DEF PathInv, TapedInv, ChangesInv, Current, Saved
<1>4. TapeInv'
  BY AbandonKeepsTape DEF PathInv
<1> QED
  BY <1>2, <1>3, <1>4 DEF PathInv

(* A new session is at the first moment of every path with its numbering;    *)
(* one that is refused has no cassette it can read, or not a current one.    *)
LEMMA StartKeepsPath ==
    ASSUME PathInv, NEW mode \in {"recording", "replaying"}, NEW strict \in BOOLEAN,
           Start(mode, strict)
    PROVE  PathInv'
<1>1. /\ session'.state = (IF mode = "replaying" /\ ~Loads THEN "refused" ELSE mode)
      /\ session'.turns = <<>> /\ session'.requests = <<>> /\ session'.messages = <<>>
      /\ session'.firstProposal = counter /\ session'.changes = changes
      /\ session'.invoice = invoice /\ session'.format = code.format
      /\ UNCHANGED <<code, invoice, documents, counter, changes, cassette>>
  BY StartFacts DEF PathInv, TapeInv
<1>2. Len(session'.requests) = 0
  BY <1>1
<1>3. Here' = 1 /\ Now' = [counter |-> counter, messages |-> <<>>] /\ Now' \in Moment
  <2>1. <<>> \in Seq(Message) /\ counter \in Nat
    BY EmptySeq DEF PathInv, TapeInv, WorldInv
  <2> QED
    BY <1>1, <1>2, <2>1 DEF Here, Now, Moment
<1>4. ToldInv'
  <2> DEFINE w == [k \in 1..1 |-> Now']
  <2>1. w \in [1..1 -> Moment] /\ w[1] = Now'
    BY <1>3
  <2> HIDE DEF w
  <2>2. Path(session', w, invoice', code', documents')
    BY <1>1, <1>2, <1>3, <2>1 DEF Path
  <2> QED
    BY <1>3, <2>1, <2>2 DEF ToldInv
<1>5. TapedInv'
  BY <1>1 DEF PathInv, TapedInv, Saved
<1>6. FollowInv'
  <2> SUFFICES ASSUME session'.state = "replaying", cassette.changes = changes,
                      counter = cassette.firstProposal
               PROVE  \E w : Path(cassette, w, invoice, code, documents) /\ w[1] = Now'
    BY <1>1, <1>3 DEF FollowInv
  <2>1. Saved
    BY <1>1 DEF Loads
  <2>2. PICK w : Path(cassette, w, invoice, code, documents)
    BY <2>1 DEF PathInv, TapedInv
  <2>3. w[1] = Now'
    BY <1>3, <2>2 DEF Path
  <2> QED
    BY <2>2, <2>3
<1>7. ChangesInv'
  <2>1. changes <= changes
    BY DEF PathInv, TapeInv, WorldInv
  <2> QED
    BY <1>1, <2>1 DEF PathInv, ChangesInv, Current, Saved
<1>8. RefusalHasACause'
  <2> SUFFICES ASSUME session'.state = "refused", Saved, changes = cassette.changes
               PROVE  FALSE
    BY <1>1 DEF RefusalHasACause, Saved
  <2>1. cassette.invoice = invoice /\ cassette.format = code.format
    BY DEF PathInv, ChangesInv, Current
  <2> QED
    BY <1>1, <2>1 DEF Loads
<1>9. TapeInv'
  BY StartKeepsTape DEF PathInv
<1> QED
  BY <1>4, <1>5, <1>6, <1>7, <1>8, <1>9 DEF PathInv

(* Once something has changed, nothing recorded before is current any more.  *)
LEMMA ChangeKeepsPath ==
    ASSUME PathInv, (\E part \in Parts : Edit(part)) \/ (\E i \in Invoices : DatasetChanges(i))
    PROVE  PathInv'
<1>1. WorldInv' /\ UNCHANGED <<session, cassette>> /\ changes' = changes + 1
  BY ChangesAreTyped DEF PathInv, TapeInv
<1>2. changes \in Nat
  BY DEF PathInv, TapeInv, WorldInv
<1>3. /\ session.state # "none" => session.changes \in Nat /\ session.changes <= changes
      /\ Saved => cassette.changes \in Nat /\ cassette.changes <= changes
  BY DEF PathInv, ChangesInv, Current, TapeInv, SessionInv, CassetteInv, Whole, Session
<1>4. /\ session.state # "none" => session.changes # changes' /\ session.changes <= changes'
      /\ Saved => cassette.changes # changes' /\ cassette.changes <= changes'
  BY <1>1, <1>2, <1>3
<1>5. ToldInv' /\ TapedInv'
  BY <1>1, <1>4 DEF ToldInv, TapedInv, Saved
<1>6. session.state = "replaying" => Saved
  BY DEF PathInv, TapeInv, ReplayingInv, Replayed
<1>7. FollowInv' /\ RefusalHasACause'
  BY <1>1, <1>4, <1>6 DEF FollowInv, RefusalHasACause, Saved
<1>8. ChangesInv'
  BY <1>1, <1>4, <1>6 DEF ChangesInv, Current, Saved
<1>9. TapeInv'
  BY <1>1, WorldKeepsTape DEF PathInv
<1> QED
  BY <1>5, <1>7, <1>8, <1>9 DEF PathInv

LEMMA PathInvariant == CassettesSpec => []PathInv
<1>1. CassettesInit => PathInv
  <2> SUFFICES ASSUME CassettesInit PROVE PathInv
    OBVIOUS
  <2>1. session.state = "none" /\ ~Saved
    BY DEF CassettesInit, Missing, Saved
  <2> QED
    BY <2>1, TapeStart DEF PathInv, ToldInv, TapedInv, FollowInv, ChangesInv, RefusalHasACause
<1>2. PathInv /\ [CassettesNext]_cassetteVars => PathInv'
  <2> SUFFICES ASSUME PathInv, [CassettesNext]_cassetteVars PROVE PathInv'
    OBVIOUS
  <2>1. CASE UNCHANGED cassetteVars
    <3>1. UNCHANGED <<code, invoice, documents, counter, changes, session, cassette>>
      BY <2>1 DEF cassetteVars, world
    <3>2. TapeInv' /\ Now' = Now /\ Here' = Here
      BY <2>1, <3>1, NextKeepsTape DEF PathInv, Now, Here
    <3> QED
      BY <3>1, <3>2 DEF PathInv, ToldInv, TapedInv, FollowInv, ChangesInv, Current, Saved,
                        RefusalHasACause
  <2> QED
    BY <2>1, StartKeepsPath, RecordKeepsPath, SavingKeepsPath, GiveUpKeepsPath,
       ReplayKeepsPath, RefuseKeepsPath, ChangeKeepsPath DEF CassettesNext
<1> QED
  BY <1>1, <1>2, PTL DEF CassettesSpec

(* A replay is refused only if there is no cassette to read, something       *)
(* changed since the recording, or its proposals are numbered differently.   *)
THEOREM RefusalsAreCaused == CassettesSpec => []RefusalHasACause
<1>1. PathInv => RefusalHasACause
  BY DEF PathInv
<1> QED
  BY <1>1, PathInvariant, PTL

=============================================================================
