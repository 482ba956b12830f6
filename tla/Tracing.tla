-------------------------------- MODULE Tracing --------------------------------
(***************************************************************************)
(* What is seen of agent runs: the spans of loop.py, the backends of       *)
(* tracing.py that receive them, and the costs that end up in a report.    *)
(*                                                                         *)
(* A process builds one tracer, runs the agent once (agent/cli.py) or once *)
(* per case (evals/runner.py) under it, and flushes it on the way out; it  *)
(* may be killed at any time.  The next process appends to the same file.  *)
(* A run is one span around a span for each completion and each tool call. *)
(* The file is written as spans close; the dashboard's client buffers      *)
(* closed spans and sends them in batches.  The disk may be full, and the  *)
(* dashboard's client may fail to start a span or to enter it.             *)
(*                                                                         *)
(* The loop is kept only as far as it opens and closes spans; AgentLoop    *)
(* has the rest of it.                                                     *)
(***************************************************************************)
EXTENDS Cost, FiniteSetsExt

CONSTANTS
    MaxIterations,    \* settings.max_iterations
    MaxCalls,         \* bound: tool calls in one message
    Tokens,           \* what _usage reads off a response; 0 where it is omitted
    Rates,            \* what the two price sources may ask per token
    MaxRuns,          \* bound: runs of all processes
    MaxProcesses,     \* bound: processes
    MaxFaults         \* bound: failed writes and failed starts

ASSUME TracingAssumption ==
    /\ {MaxIterations, MaxCalls, MaxRuns, MaxProcesses} \subseteq Nat \ {0}
    /\ MaxFaults \in Nat /\ Tokens \subseteq Nat
    /\ Rates \subseteq Amounts \X Amounts

VARIABLES
    backends,     \* the tracers build_tracer composed
    rates,        \* what the price sources ask for the model; Unpriced if unknown
    process,      \* number of the process
    endings,      \* how the processes before it ended
    run,          \* runs started so far, by all processes
    loop,         \* the loop of the open run
    costs,        \* its TokenCosts
    root,         \* seq of its span; 0 while no run is open
    seq, depth,   \* JsonlTracer's counters
    file,         \* the trace file: its lines, and whether the last one is torn
    rootTrace,    \* the trace the open run's span belongs to; None without one
    firstTrace,   \* LangfuseTracer._trace_id
    buffer,       \* observations ended and not yet sent
    sent,         \* observations the dashboard has
    cases,        \* what the process has reported of its runs
    writeFaults,  \* lines the disk has refused
    startFaults   \* spans the dashboard's client has refused

loopVars    == <<run, loop, costs, root>>
fileVars    == <<seq, depth, file, writeFaults>>
traceVars   == <<rootTrace, firstTrace, buffer, sent, startFaults>>
tracingVars == <<backends, rates, process, endings, loopVars, fileVars, traceVars, cases>>

None == <<>>                         \* no trace
Trace(s) == <<process, s>>           \* the trace whose first span is number s
Garbage == [kind |-> "torn"]         \* a line that is not whole

Idle == [stop |-> "idle", iterations |-> 0, nudged |-> FALSE, left |-> 0,
         accepted |-> FALSE, records |-> 0]
Alive == process <= MaxProcesses
Running == Alive /\ root # 0 /\ loop.stop = "running"
Ready == Running /\ loop.left = 0 /\ loop.iterations < MaxIterations
InTools == Running /\ loop.left > 0

-----------------------------------------------------------------------------
(* JsonlTracer.  A span takes its number and its depth when it is opened,    *)
(* and is written when it closes, however it closes.                         *)
Line(kind, number, level, outcome, cost) ==
    [kind |-> kind, seq |-> number, depth |-> level,
     process |-> process, run |-> run, outcome |-> outcome, cost |-> cost]

(* _write: a full disk takes nothing, or the beginning of a line, and what   *)
(* is appended after the beginning of a line is lost in it.                  *)
WriteDisks == {"fine", "full", "torn"}
Write(f, line, disk) ==
    IF "jsonl" \notin backends THEN f
    ELSE CASE disk = "full" -> f
           [] disk = "torn" -> [lines |-> IF f.torn THEN f.lines ELSE Append(f.lines, Garbage),
                                torn |-> TRUE]
           [] disk = "fine" -> [lines |-> IF f.torn THEN f.lines ELSE Append(f.lines, line),
                                torn |-> FALSE]

Refused(disks) == Cardinality({i \in DOMAIN disks : disks[i] # "fine"})
DisksPossible(disks) ==
    /\ Refused(disks) > 0 => "jsonl" \in backends
    /\ writeFaults' = writeFaults + Refused(disks)

(* A completion's or a tool call's span opens and closes.                    *)
CloseChild(kind, outcome, cost, disk) ==
    /\ DisksPossible(<<disk>>)
    /\ seq' = seq + 1
    /\ file' = Write(file, Line(kind, seq + 1, depth, outcome, cost), disk)
    /\ UNCHANGED depth

(* An exception leaves the child and the run, and both are written.          *)
CloseBothAtDepth(kind, disks) ==        \* a slip: the depth is not restored
    /\ DisksPossible(disks)
    /\ seq' = seq + 1
    /\ file' = Write(Write(file, Line(kind, seq + 1, depth, "none", Unpriced), disks[1]),
                     Line("run", root, depth - 1, "none", Unpriced), disks[2])
    /\ UNCHANGED depth
CloseBothSilent(kind, disks) ==         \* a slip: written after the body, not in a finally
    /\ DisksPossible(disks)
    /\ seq' = seq + 1
    /\ depth' = depth - 1
    /\ UNCHANGED file
CloseBoth(kind, disks) ==
    /\ DisksPossible(disks)
    /\ seq' = seq + 1
    /\ file' = Write(Write(file, Line(kind, seq + 1, depth, "none", Unpriced), disks[1]),
                     Line("run", root, depth - 1, "none", Unpriced), disks[2])
    /\ depth' = depth - 1

-----------------------------------------------------------------------------
(* LangfuseTracer.  A refused start yields a span that discards everything;  *)
(* a child then stays in the run's trace or starts one of its own.           *)
Starts == {"started", "refused", "raised"}
StartPossible(start) ==
    /\ start # "started" => "langfuse" \in backends
    /\ startFaults' = startFaults + (IF start = "started" THEN 0 ELSE 1)

Observed(start) == start = "started" /\ "langfuse" \in backends
TraceOfFirst(number) ==                 \* a slip: the tracer's trace, not the run's
    IF firstTrace # None THEN firstTrace ELSE Trace(number)
TraceOfChild(number) == IF rootTrace # None THEN rootTrace ELSE Trace(number)

Observation(kind, number, trace) ==
    [kind |-> kind, process |-> process, seq |-> number, run |-> run, trace |-> trace]

ChildObservation(kind, start) ==
    IF Observed(start) THEN {Observation(kind, seq + 1, TraceOfChild(seq + 1))} ELSE {}
RootObservation ==
    IF rootTrace # None THEN {Observation("run", root, rootTrace)} ELSE {}

(* Only the first span that starts gives the tracer its trace.               *)
Remember(start, trace) ==
    firstTrace' = IF firstTrace = None /\ Observed(start) THEN trace ELSE firstTrace

WithinFaults == writeFaults' + startFaults' <= MaxFaults

-----------------------------------------------------------------------------
(* What a run ends with.  run_agent returns a record, or an exception leaves *)
(* it, of which run_case makes an empty record and the command line nothing. *)
Finished ==
    [run |-> run, stop |-> loop.stop, iterations |-> loop.iterations,
     records |-> loop.records, usd |-> TotalCost(costs),
     trace |-> IF rootTrace # None THEN rootTrace ELSE firstTrace]
EmptyFree ==                            \* a slip: nothing is known, so nothing was spent
    [run |-> run, stop |-> "raised", iterations |-> 0, records |-> 0,
     usd |-> TotalCost(<<>>), trace |-> None]
Empty ==
    [run |-> run, stop |-> "raised", iterations |-> 0, records |-> 0,
     usd |-> Unpriced, trace |-> None]

NoRun == loop' = Idle /\ costs' = <<>> /\ root' = 0 /\ rootTrace' = None

(* with tracer.span("agent.run"): the file's span opens first, so it closes  *)
(* with a line of its own when the dashboard's raises.                       *)
OpenRun(start) ==
    /\ Alive /\ root = 0 /\ run < MaxRuns
    /\ start # "raised" /\ StartPossible(start)
    /\ run' = run + 1
    /\ seq' = seq + 1
    /\ depth' = depth + 1
    /\ root' = seq + 1
    /\ loop' = [Idle EXCEPT !.stop = "running"]
    /\ rootTrace' = IF Observed(start) THEN Trace(seq + 1) ELSE None
    /\ Remember(start, Trace(seq + 1))
    /\ UNCHANGED <<backends, rates, process, endings, costs, file, writeFaults, buffer, sent, cases>>
    /\ WithinFaults

(* The exception of a refused entry: nothing of the run happens.             *)
RunRefused(disk) ==
    /\ Alive /\ root = 0 /\ run < MaxRuns
    /\ StartPossible("raised") /\ DisksPossible(<<disk>>)
    /\ run' = run + 1
    /\ seq' = seq + 1
    /\ file' = Write(file, [Line("run", seq + 1, depth, "none", Unpriced) EXCEPT !.run = run + 1], disk)
    /\ cases' = Append(cases, [Empty EXCEPT !.run = run + 1])
    /\ UNCHANGED <<backends, rates, process, endings, loop, costs, root, depth,
                   rootTrace, firstTrace, buffer, sent>>
    /\ WithinFaults

(* The round is over: another one, or the end of the loop.                   *)
NextRound(l) == IF l.iterations < MaxIterations THEN l ELSE [l EXCEPT !.stop = "MAX_ITERATIONS"]

AfterMessage(n) ==
    LET l == [loop EXCEPT !.iterations = @ + 1, !.left = n, !.accepted = FALSE] IN
    IF n > 0 THEN l
    ELSE IF l.nudged THEN [l EXCEPT !.stop = "NO_TOOL_CALL"]
    ELSE NextRound([l EXCEPT !.nudged = TRUE])

CompletionUncounted(n, tokens, start, disk) ==   \* a slip: prose costs nothing
    /\ Ready
    /\ start # "raised" /\ StartPossible(start)
    /\ loop' = AfterMessage(n)
    /\ costs' = IF n = 0 THEN costs ELSE Append(costs, CostFor(tokens, rates))
    /\ CloseChild("llm", "answered", CostFor(tokens, rates), disk)
    /\ buffer' = buffer \cup ChildObservation("llm", start)
    /\ Remember(start, TraceOfChild(seq + 1))
    /\ UNCHANGED <<backends, rates, process, endings, run, root, rootTrace, sent, cases>>
    /\ WithinFaults
(* A completion with n tool calls: the answer, its usage and its price are   *)
(* recorded on the run and on the span.                                      *)
Completion(n, tokens, start, disk) ==
    /\ Ready
    /\ start # "raised" /\ StartPossible(start)
    /\ loop' = AfterMessage(n)
    /\ costs' = Append(costs, CostFor(tokens, rates))
    /\ CloseChild("llm", "answered", CostFor(tokens, rates), disk)
    /\ buffer' = buffer \cup ChildObservation("llm", start)
    /\ Remember(start, TraceOfChild(seq + 1))
    /\ UNCHANGED <<backends, rates, process, endings, run, root, rootTrace, sent, cases>>
    /\ WithinFaults

(* A tool call: answered, or a resolution accepted.                          *)
ToolCall(answer, start, disk) ==
    /\ InTools
    /\ start # "raised" /\ StartPossible(start)
    /\ loop' = LET l == [loop EXCEPT !.left = @ - 1, !.records = @ + 1,
                                     !.accepted = @ \/ answer = "accepted"] IN
               IF l.left > 0 THEN l
               ELSE IF l.accepted THEN [l EXCEPT !.stop = "SUBMITTED"]
               ELSE NextRound(l)
    /\ CloseChild("tool", answer, Unpriced, disk)
    /\ buffer' = buffer \cup ChildObservation("tool", start)
    /\ Remember(start, TraceOfChild(seq + 1))
    /\ UNCHANGED <<backends, rates, process, endings, run, costs, root, rootTrace, sent, cases>>
    /\ WithinFaults

(* The provider raises in a completion, or a span's entry raises in either   *)
(* kind of call: the run is left through both spans.                         *)
RunRaises(kind, start, disks) ==
    /\ \/ kind = "llm" /\ Ready
       \/ kind = "tool" /\ InTools /\ start = "raised"
    /\ StartPossible(start)
    /\ CloseBoth(kind, disks)
    /\ buffer' = buffer \cup ChildObservation(kind, start) \cup RootObservation
    /\ Remember(start, TraceOfChild(seq + 1))
    /\ cases' = Append(cases, Empty)
    /\ NoRun
    /\ UNCHANGED <<backends, rates, process, endings, run, sent>>
    /\ WithinFaults

CloseRunNumbered(disk) ==               \* a slip: numbered when written, not when opened
    /\ Alive /\ root # 0 /\ loop.stop # "running"
    /\ DisksPossible(<<disk>>)
    /\ file' = Write(file, Line("run", seq + 1, depth - 1, loop.stop, Unpriced), disk)
    /\ depth' = depth - 1
    /\ seq' = seq + 1
    /\ buffer' = buffer \cup RootObservation
    /\ cases' = Append(cases, Finished)
    /\ NoRun
    /\ UNCHANGED <<backends, rates, process, endings, run, firstTrace, sent, startFaults>>
    /\ WithinFaults
(* The loop has returned: the outcome is put on the run's span, it closes,   *)
(* and the record goes to the caller.                                        *)
CloseRun(disk) ==
    /\ Alive /\ root # 0 /\ loop.stop # "running"
    /\ DisksPossible(<<disk>>)
    /\ file' = Write(file, Line("run", root, depth - 1, loop.stop, Unpriced), disk)
    /\ depth' = depth - 1
    /\ buffer' = buffer \cup RootObservation
    /\ cases' = Append(cases, Finished)
    /\ NoRun
    /\ UNCHANGED <<backends, rates, process, endings, run, seq, firstTrace, sent, startFaults>>
    /\ WithinFaults

(* The caller is done: flush in the finally block, and the process ends.  A  *)
(* dashboard that cannot be reached loses what was buffered.                 *)
NewProcess(ending) ==
    /\ process' = process + 1 /\ endings' = Append(endings, ending)
    /\ seq' = 0 /\ depth' = 0
    /\ firstTrace' = None /\ buffer' = {} /\ cases' = <<>>
    /\ NoRun

Raised(c) == c.stop = "raised"
ExitUnflushed(reached) ==               \* a slip: no flush after an exception
    /\ Alive /\ root = 0 /\ cases # <<>>
    /\ sent' = IF reached /\ ~Raised(cases[Len(cases)]) THEN sent \cup buffer ELSE sent
    /\ NewProcess(IF reached THEN "flushed" ELSE "unreached")
    /\ UNCHANGED <<backends, rates, run, file, writeFaults, startFaults>>
Exit(reached) ==
    /\ Alive /\ root = 0 /\ cases # <<>>
    /\ sent' = IF reached THEN sent \cup buffer ELSE sent
    /\ NewProcess(IF reached THEN "flushed" ELSE "unreached")
    /\ UNCHANGED <<backends, rates, run, file, writeFaults, startFaults>>

(* The process is killed, perhaps while it writes a line; the client's       *)
(* background thread has sent a batch of what had ended, or nothing.         *)
Kill(disk, batch) ==
    /\ Alive /\ root # 0
    /\ batch \in {{}, buffer}
    /\ sent' = sent \cup batch
    /\ disk # "full" /\ (disk = "torn" => "jsonl" \in backends)
    /\ file' = IF disk = "torn" THEN Write(file, Garbage, disk) ELSE file
    /\ NewProcess("killed")
    /\ UNCHANGED <<backends, rates, run, writeFaults, startFaults>>

-----------------------------------------------------------------------------
(* build_tracer: any of the two may be configured and constructible.         *)
TracingInit ==
    /\ backends \in SUBSET {"jsonl", "langfuse"}
    /\ rates \in Rates
    /\ process = 1 /\ endings = <<>> /\ run = 0
    /\ loop = Idle /\ costs = <<>> /\ root = 0
    /\ seq = 0 /\ depth = 0 /\ file = [lines |-> <<>>, torn |-> FALSE]
    /\ rootTrace = None /\ firstTrace = None /\ buffer = {} /\ sent = {}
    /\ cases = <<>> /\ writeFaults = 0 /\ startFaults = 0

TracingNext ==
    \/ \E start \in Starts : OpenRun(start)
    \/ \E disk \in WriteDisks : 
          RunRefused(disk) \/ CloseRun(disk) \/ Kill(disk, {}) \/ Kill(disk, buffer)
    \/ \E start \in Starts, disk \in WriteDisks :
          \/ \E n \in 0..MaxCalls, tokens \in Tokens :
                Completion(n, tokens, start, disk)
          \/ \E answer \in {"answered", "accepted"} : ToolCall(answer, start, disk)
          \/ \E kind \in {"llm", "tool"}, last \in WriteDisks :
                RunRaises(kind, start, <<disk, last>>)
    \/ \E reached \in BOOLEAN : Exit(reached)

TracingSpec == TracingInit /\ [][TracingNext]_tracingVars

-----------------------------------------------------------------------------
(* Properties.                                                               *)

TracingTypeOK ==
    /\ process \in 1..(MaxProcesses + 1) /\ Len(endings) = process - 1
    /\ run \in 0..MaxRuns /\ root \in 0..seq
    /\ depth = (IF root = 0 THEN 0 ELSE 1)
    /\ writeFaults + startFaults <= MaxFaults
    /\ \A i \in DOMAIN costs : costs[i] \in Amounts
    /\ buffer \cap sent = {}

(* The lines that can be read back. *)
WholeLines == {i \in DOMAIN file.lines : file.lines[i].kind # "torn"}
OfRun(r, kind) == {i \in WholeLines : file.lines[i].run = r /\ file.lines[i].kind = kind}

(* The nesting can be rebuilt from the order, the depths and the numbers     *)
(* ("depth and seq are recorded so the nesting can be rebuilt"): reading     *)
(* down from a span's line, the first line one level up with a lower number  *)
(* is its run's, also in a file of many runs with lines missing.  Only when  *)
(* the line of its run is missing may it be given to a run of another        *)
(* process, whose numbers start over.                                        *)
Enclosing(i) == {j \in WholeLines : /\ j > i
                                    /\ file.lines[j].depth = file.lines[i].depth - 1
                                    /\ file.lines[j].seq < file.lines[i].seq}
NestingRebuilds ==
    \A i \in WholeLines :
        LET line == file.lines[i]
            home == OfRun(line.run, "run") IN
        IF line.kind = "run" THEN Enclosing(i) = {}
        ELSE IF home # {} THEN Enclosing(i) # {} /\ Min(Enclosing(i)) \in home
        ELSE \A j \in Enclosing(i) : file.lines[j].process # line.process

(* "A crashed run still leaves everything that completed": of the spans the  *)
(* process has opened, the file has all but the run that is still open and   *)
(* what the disk refused, a refused line costing at most the next one too.   *)
InFile(p) == {file.lines[i].seq : i \in {j \in WholeLines : file.lines[j].process = p}}
Kills == Cardinality({p \in DOMAIN endings : endings[p] = "killed"})

NothingCompletedIsLost ==
    "jsonl" \in backends =>
        Cardinality(((1..seq) \ {root}) \ InFile(process)) <= 2 * writeFaults + Kills

(* A run's record and its lines in the file are kept separately, and agree:  *)
(* one line per completion and per tool call, the same total cost, and the   *)
(* outcome of the record on the line of the run.                             *)
NothingLost == "jsonl" \in backends /\ writeFaults = 0 /\ WholeLines = DOMAIN file.lines
CostsOn(lines) == [i \in DOMAIN file.lines |-> IF i \in lines THEN file.lines[i].cost ELSE Free]

RunsAddUp ==
    NothingLost => \A n \in DOMAIN cases : LET c == cases[n] IN ~Raised(c) =>
        /\ Cardinality(OfRun(c.run, "llm")) = c.iterations
        /\ Cardinality(OfRun(c.run, "tool")) = c.records
        /\ TotalCost(CostsOn(OfRun(c.run, "llm"))) = c.usd
        /\ \E i \in WholeLines : OfRun(c.run, "run") = {i} /\ file.lines[i].outcome = c.stop

(* "A partial total presented as a total is a wrong number": a report that   *)
(* states a total states everything that was spent under it, what a run      *)
(* spent before it raised included.                                          *)
ReportTotal == TotalCost([n \in DOMAIN cases |-> cases[n].usd])
SpentBy(p) == {i \in WholeLines : file.lines[i].kind = "llm" /\ file.lines[i].process = p}
NothingSpentIsMissing ==
    NothingLost /\ root = 0 /\ Priced(ReportTotal) =>
        TotalCost(CostsOn(SpentBy(process))) = ReportTotal

(* "One trace per run": no trace shows spans of two runs, a run whose span   *)
(* the dashboard has is in one trace, and the record of the run leads to it. *)
Observations == sent \cup buffer
OneTracePerRun ==
    /\ \A o, p \in Observations : o.trace = p.trace => o.run = p.run
    /\ \A o, p \in Observations : o.run = p.run /\ o.kind = "run" => o.trace = p.trace
    /\ \A i \in DOMAIN cases, o \in Observations :
           o.kind = "run" /\ o.run = cases[i].run /\ ~Raised(cases[i]) => cases[i].trace = o.trace

(* Each backend receives every span whatever the other one does, and a       *)
(* process that is not killed delivers what it holds: of a process that      *)
(* flushed, the dashboard has every span the file has but those it refused   *)
(* to start, and the file every span it has but those lost to the disk.      *)
SentOf(p) == {o.seq : o \in {q \in sent : q.process = p}}
BackendsAgree ==
    backends = {"jsonl", "langfuse"} =>
        \A p \in DOMAIN endings : endings[p] = "flushed" =>
            /\ Cardinality(InFile(p) \ SentOf(p)) <= startFaults
            /\ Cardinality(SentOf(p) \ InFile(p)) <= 2 * writeFaults + Kills

=============================================================================
