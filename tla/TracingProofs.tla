----------------------------- MODULE TracingProofs -----------------------------
(***************************************************************************)
(* Theorems about traces and costs, for any number of processes, runs,     *)
(* completions, tool calls and faults, and any prices.                     *)
(***************************************************************************)
EXTENDS Tracing, Induction, SequenceTheorems, FiniteSetTheorems

Kinds       == {"run", "llm", "tool"}
StopReasons == {"idle", "running", "SUBMITTED", "NO_TOOL_CALL", "MAX_ITERATIONS"}
Outcomes    == StopReasons \cup {"answered", "accepted", "none"}
Endings     == {"flushed", "unreached", "killed"}
Traces      == (Nat \X Nat) \cup {None}

LineRecords == [kind : Kinds, seq : Nat \ {0}, depth : Nat, process : Nat, run : Nat,
                outcome : Outcomes, cost : Amounts]
LoopRecords == [stop : StopReasons, iterations : Nat, nudged : BOOLEAN, left : Nat,
                accepted : BOOLEAN, records : Nat]
CaseRecords == [run : Nat, stop : StopReasons \cup {"raised"}, iterations : Nat,
                records : Nat, usd : Amounts, trace : Traces]

FileType(f) == f.lines \in Seq(LineRecords \cup {Garbage}) /\ f.torn \in BOOLEAN

TypeInv ==
    /\ backends \in SUBSET {"jsonl", "langfuse"} /\ rates \in Amounts \X Amounts
    /\ process \in 1..(MaxProcesses + 1)
    /\ endings \in Seq(Endings) /\ Len(endings) = process - 1
    /\ run \in 0..MaxRuns /\ seq \in Nat /\ root \in 0..seq
    /\ depth = (IF root = 0 THEN 0 ELSE 1)
    /\ loop \in LoopRecords /\ costs \in Seq(Amounts)
    /\ rootTrace \in {None, Trace(root)} /\ firstTrace \in Traces
    /\ root = 0 => loop = Idle /\ costs = <<>> /\ rootTrace = None
    /\ root # 0 => run # 0
    /\ FileType(file)
    /\ cases \in Seq(CaseRecords)
    /\ writeFaults \in Nat /\ startFaults \in Nat /\ writeFaults + startFaults <= MaxFaults

-----------------------------------------------------------------------------
(* The operators of the model.                                               *)

LEMMA Constants0 ==
    /\ MaxIterations \in Nat /\ MaxRuns \in Nat /\ MaxProcesses \in Nat /\ MaxFaults \in Nat
    /\ Rates \subseteq Amounts \X Amounts /\ Tokens \subseteq Nat
BY TracingAssumption

LEMMA CostIsAmount ==
    ASSUME NEW tokens \in Nat, NEW r \in Amounts \X Amounts
    PROVE  CostFor(tokens, r) \in Amounts
<1>1. r[1] \in Amounts /\ r[2] \in Amounts
  OBVIOUS
<1>2. \A a \in Nat : tokens * a \in Nat
  OBVIOUS
<1> QED
  BY <1>1, <1>2 DEF CostFor, Amounts, Priced, Unpriced, Free

LEMMA SumIs ==
    ASSUME NEW s \in Seq(Nat)
    PROVE  \E F : Sums(F, s) /\ Sum(s) = F[Len(s)] /\ Sum(s) \in Nat
<1> DEFINE F == CHOOSE f : f = [n \in 0..Len(s) |-> IF n = 0 THEN 0 ELSE f[n - 1] + s[n]]
<1>1. \E f : f = [n \in 0..Len(s) |-> IF n = 0 THEN 0 ELSE f[n - 1] + s[n]]
  <2>1. s \in Seq(Int)
    OBVIOUS
  <2> QED
    BY <2>1, SumsExist DEF Sums
<1>2. F = [n \in 0..Len(s) |-> IF n = 0 THEN 0 ELSE F[n - 1] + s[n]]
  BY <1>1
<1>3. Sum(s) = F[Len(s)]
  BY DEF Sum
<1> HIDE DEF F
<1>4. Sums(F, s)
  BY <1>2 DEF Sums
<1>5. Len(s) \in 0..Len(s)
  OBVIOUS
<1>6. F[Len(s)] \in Nat
  BY <1>4, <1>5, SumsType
<1> QED
  BY <1>3, <1>4, <1>6

LEMMA SumEmpty == Sum(<<>>) = 0
<1>1. PICK F : Sums(F, <<>>) /\ Sum(<<>>) = F[Len(<<>>)]
  <2>1. <<>> \in Seq(Nat)
    OBVIOUS
  <2> QED
    BY <2>1, SumIs
<1>2. Len(<<>>) = 0 /\ F[0] = 0
  BY <1>1 DEF Sums
<1> QED
  BY <1>1, <1>2

LEMMA SumAppend ==
    ASSUME NEW s \in Seq(Nat), NEW a \in Nat
    PROVE  Sum(Append(s, a)) = Sum(s) + a
<1> DEFINE t == Append(s, a)
           n == Len(s)
<1>1. /\ n \in Nat /\ t \in Seq(Nat) /\ Len(t) = n + 1 /\ t[n + 1] = a
      /\ \A i \in 1..n : t[i] = s[i]
  OBVIOUS
<1> HIDE DEF t
<1>2. PICK F : Sums(F, s) /\ Sum(s) = F[n]
  BY SumIs
<1>3. PICK G : Sums(G, t) /\ Sum(t) = G[n + 1]
  BY <1>1, SumIs
<1> DEFINE T == {i \in Nat : i \in 0..n => G[i] = F[i]}
<1>4. 0 \in T
  BY <1>1, <1>2, <1>3 DEF Sums
<1>5. ASSUME NEW i \in 1..n, i - 1 \in T PROVE i \in T
  <2>1. i - 1 \in 0..n /\ i \in 0..n /\ i \in 0..(n + 1) /\ i # 0 /\ i \in Nat
    BY <1>1
  <2>2. F[i] = F[i - 1] + s[i]
    BY <1>2, <2>1 DEF Sums
  <2>3. G[i] = G[i - 1] + t[i]
    BY <1>1, <1>3, <2>1 DEF Sums
  <2>4. G[i] = F[i]
    BY <1>1, <1>5, <2>1, <2>2, <2>3
  <2> QED
    BY <2>1, <2>4
<1>6. T \subseteq Nat
  OBVIOUS
<1> HIDE DEF T
<1>7. 0..n \subseteq T
  BY <1>1, <1>4, <1>5, <1>6, InductionUpTo
<1>8. G[n] = F[n]
  BY <1>1, <1>7 DEF T
<1>9. G[n + 1] = G[n] + t[n + 1]
  <2>1. n + 1 \in 0..(n + 1) /\ n + 1 # 0 /\ (n + 1) - 1 = n
    BY <1>1
  <2> QED
    BY <1>1, <1>3, <2>1 DEF Sums
<1>10. Sum(t) = Sum(s) + a
  BY <1>1, <1>2, <1>3, <1>8, <1>9
<1> QED
  BY <1>10 DEF t

(* A total grows by what is added to it, and is lost with the first unknown. *)
Plus(a, b) == IF Priced(a) /\ Priced(b) THEN a + b ELSE Unpriced

LEMMA PricedAmounts ==
    ASSUME NEW s \in Seq(Amounts), \A i \in DOMAIN s : Priced(s[i])
    PROVE  s \in Seq(Nat)
<1>1. \A i \in 1..Len(s) : s[i] \in Nat
  BY DEF Amounts, Priced
<1> QED
  BY <1>1

LEMMA TotalType ==
    ASSUME NEW s \in Seq(Amounts)
    PROVE  TotalCost(s) \in Amounts
<1>1. ASSUME \A i \in DOMAIN s : Priced(s[i]) PROVE Sum(s) \in Nat
  BY <1>1, PricedAmounts, SumIs
<1> QED
  BY <1>1 DEF TotalCost, Amounts

LEMMA TotalEmpty == TotalCost(<<>>) = Free
BY SumEmpty DEF TotalCost, Free

LEMMA TotalAppend ==
    ASSUME NEW s \in Seq(Amounts), NEW a \in Amounts
    PROVE  TotalCost(Append(s, a)) = Plus(TotalCost(s), a)
<1> DEFINE t == Append(s, a)
           n == Len(s)
<1>1. /\ n \in Nat /\ t \in Seq(Amounts) /\ DOMAIN t = 1..(n + 1) /\ t[n + 1] = a
      /\ \A i \in 1..n : t[i] = s[i] /\ DOMAIN s = 1..n
  OBVIOUS
<1>2. ASSUME \A i \in DOMAIN s : Priced(s[i]), Priced(a)
      PROVE  Sum(t) = Sum(s) + a /\ Sum(s) \in Nat /\ \A i \in DOMAIN t : Priced(t[i])
  <2>1. s \in Seq(Nat) /\ a \in Nat
    BY <1>2, PricedAmounts DEF Amounts, Priced
  <2>2. \A i \in DOMAIN t : i \in DOMAIN s \/ i = n + 1
    BY <1>1
  <2>3. \A i \in DOMAIN t : Priced(t[i])
    BY <1>1, <1>2, <2>2
  <2>4. Sum(s) \in Nat
    BY <2>1, SumIs
  <2> QED
    BY <2>1, <2>3, <2>4, SumAppend
<1> HIDE DEF t
<1>3. ASSUME \A i \in DOMAIN t : Priced(t[i])
      PROVE  Priced(a) /\ \A i \in DOMAIN s : Priced(s[i])
  <2>1. n + 1 \in DOMAIN t /\ \A i \in DOMAIN s : i \in DOMAIN t
    BY <1>1
  <2> QED
    BY <1>1, <1>3, <2>1
<1>4. ASSUME NEW x \in Nat PROVE Priced(x)
  BY DEF Priced, Unpriced
<1>5. TotalCost(t) = Plus(TotalCost(s), a)
  <2>1. CASE Priced(a) /\ \A i \in DOMAIN s : Priced(s[i])
    BY <1>2, <1>4, <2>1 DEF TotalCost, Plus, t
  <2>2. CASE ~Priced(a)
    BY <1>3, <2>2 DEF TotalCost, Plus
  <2>3. CASE ~ \A i \in DOMAIN s : Priced(s[i])
    BY <1>3, <2>3 DEF TotalCost, Plus, Priced
  <2> QED
    BY <2>1, <2>2, <2>3
<1> QED
  BY <1>5 DEF t

LEMMA PlusLaws ==
    /\ \A a, b \in Amounts : Plus(a, b) \in Amounts
    /\ \A a \in Amounts : Plus(a, Free) = a /\ Plus(Free, a) = a
    /\ \A a, b, c \in Amounts : Plus(Plus(a, b), c) = Plus(a, Plus(b, c))
    /\ \A a, b \in Amounts : Priced(Plus(a, b)) => Priced(a) /\ Priced(b)
<1>1. \A a \in Amounts : Priced(a) <=> a \in Nat
  BY DEF Priced, Amounts, Unpriced
<1>2. Unpriced \notin Nat /\ Unpriced \in Amounts /\ Free \in Nat /\ ~Priced(Unpriced)
  BY DEF Amounts, Unpriced, Free, Priced
<1>3. \A a, b \in Amounts : Plus(a, b) = IF a \in Nat /\ b \in Nat THEN a + b ELSE Unpriced
  BY <1>1 DEF Plus
<1>4. \A a \in Amounts : a \in Nat \/ a = Unpriced
  BY DEF Amounts
<1>5. \A a, b \in Amounts : Plus(a, b) \in Amounts /\ (Plus(a, b) \in Nat <=> a \in Nat /\ b \in Nat)
  BY <1>2, <1>3 DEF Amounts
<1>6. \A a \in Amounts : Plus(a, Free) = a /\ Plus(Free, a) = a
  <2>1. Free \in Amounts /\ Free = 0
    BY DEF Amounts, Free
  <2> QED
    BY <1>2, <1>3, <1>4, <2>1
<1>7. ASSUME NEW a \in Amounts, NEW b \in Amounts, NEW c \in Amounts
      PROVE  Plus(Plus(a, b), c) = Plus(a, Plus(b, c))
  <2>1. CASE a \in Nat /\ b \in Nat /\ c \in Nat
    <3>1. Plus(a, b) = a + b /\ Plus(b, c) = b + c /\ a + b \in Amounts /\ b + c \in Amounts
          /\ a + b \in Nat /\ b + c \in Nat
      BY <1>3, <1>5, <2>1
    <3>2. Plus(a + b, c) = (a + b) + c /\ Plus(a, b + c) = a + (b + c)
      BY <1>3, <2>1, <3>1
    <3> QED
      BY <2>1, <3>1, <3>2
  <2>2. CASE ~(a \in Nat /\ b \in Nat /\ c \in Nat)
    <3>1. Plus(a, b) \in Amounts /\ Plus(b, c) \in Amounts
      BY <1>5
    <3>2. Plus(Plus(a, b), c) \notin Nat /\ Plus(a, Plus(b, c)) \notin Nat
      BY <1>5, <2>2, <3>1
    <3>3. Plus(Plus(a, b), c) \in Amounts /\ Plus(a, Plus(b, c)) \in Amounts
      BY <1>5, <3>1
    <3> QED
      BY <1>4, <3>2, <3>3
  <2> QED
    BY <2>1, <2>2
<1> QED
  BY <1>1, <1>5, <1>6, <1>7

(* What is appended to the file by one write: nothing, the beginning of a    *)
(* line, or the line.                                                        *)
LEMMA WrittenLines ==
    ASSUME NEW f, NEW line, NEW disk \in WriteDisks
    PROVE  /\ \/ Write(f, line, disk) = f
              \/ Write(f, line, disk).lines
                     \in {f.lines, Append(f.lines, Garbage), Append(f.lines, line)}
           /\ Write(f, line, disk).lines
                     \in {f.lines, Append(f.lines, Garbage), Append(f.lines, line)}
BY DEF Write, WriteDisks

LEMMA WriteType ==
    ASSUME NEW f, FileType(f), NEW line \in LineRecords \cup {Garbage}, NEW disk \in WriteDisks
    PROVE  FileType(Write(f, line, disk))
<1>1. /\ Append(f.lines, Garbage) \in Seq(LineRecords \cup {Garbage})
      /\ Append(f.lines, line) \in Seq(LineRecords \cup {Garbage})
  BY DEF FileType
<1> QED
  BY <1>1 DEF Write, FileType, WriteDisks

LEMMA LineType ==
    ASSUME TypeInv, NEW kind \in Kinds, NEW n \in Nat \ {0}, NEW d \in Nat,
           NEW outcome \in Outcomes, NEW cost \in Amounts
    PROVE  Line(kind, n, d, outcome, cost) \in LineRecords
BY DEF TypeInv, Line, LineRecords

(* Faults are counted one by one. *)
Fault(disk) == IF disk = "fine" THEN 0 ELSE 1

LEMMA OneDisk ==
    ASSUME NEW disk
    PROVE  Refused(<<disk>>) = Fault(disk)
<1>1. CASE disk = "fine"
  <2>1. {i \in DOMAIN <<disk>> : <<disk>>[i] # "fine"} = {}
    BY <1>1
  <2> QED
    BY <1>1, <2>1, FS_EmptySet DEF Refused, Fault
<1>2. CASE disk # "fine"
  <2>1. {i \in DOMAIN <<disk>> : <<disk>>[i] # "fine"} = {1}
    BY <1>2
  <2> QED
    BY <1>2, <2>1, FS_Singleton DEF Refused, Fault
<1> QED
  BY <1>1, <1>2

LEMMA TwoDisks ==
    ASSUME NEW d, NEW e
    PROVE  Refused(<<d, e>>) = Fault(d) + Fault(e)
<1> DEFINE S == {i \in DOMAIN <<d, e>> : <<d, e>>[i] # "fine"}
<1>1. Cardinality({1, 2}) = 2
  <2>1. IsFiniteSet({1}) /\ Cardinality({1}) = 1 /\ 2 \notin {1}
    BY FS_Singleton
  <2>2. Cardinality({1} \cup {2}) = Cardinality({1}) + 1
    BY <2>1, FS_AddElement
  <2>3. {1} \cup {2} = {1, 2}
    OBVIOUS
  <2> QED
    BY <2>1, <2>2, <2>3
<1>2. CASE d = "fine" /\ e = "fine"
  <2>1. S = {}
    BY <1>2
  <2> QED
    BY <1>2, <2>1, FS_EmptySet DEF Refused, Fault
<1>3. CASE d # "fine" /\ e = "fine"
  <2>1. S = {1}
    BY <1>3
  <2> QED
    BY <1>3, <2>1, FS_Singleton DEF Refused, Fault
<1>4. CASE d = "fine" /\ e # "fine"
  <2>1. S = {2}
    BY <1>4
  <2> QED
    BY <1>4, <2>1, FS_Singleton DEF Refused, Fault
<1>5. CASE d # "fine" /\ e # "fine"
  <2>1. S = {1, 2}
    BY <1>5
  <2> QED
    BY <1>1, <1>5, <2>1 DEF Refused, Fault
<1> QED
  BY <1>2, <1>3, <1>4, <1>5

LEMMA FaultType == \A disk : Fault(disk) \in {0, 1}
BY DEF Fault

-----------------------------------------------------------------------------
(* Type correctness, one lemma per action.                                   *)

LEMMA Observable ==
    ASSUME TypeInv
    PROVE  /\ \A n \in Nat : Trace(n) \in Traces /\ Trace(n) # None
           /\ rootTrace \in Traces
           /\ root = 0 => rootTrace = None
BY DEF TypeInv, Traces, Trace, None

LEMMA RememberType ==
    ASSUME TypeInv, NEW start, NEW trace \in Traces, Remember(start, trace)
    PROVE  firstTrace' \in Traces
BY DEF TypeInv, Remember

LEMMA FaultsType ==
    ASSUME TypeInv, writeFaults' \in Nat, startFaults' \in Nat, WithinFaults
    PROVE  writeFaults' + startFaults' <= MaxFaults
BY DEF WithinFaults

LEMMA StartType ==
    ASSUME TypeInv, NEW start, StartPossible(start)
    PROVE  startFaults' \in Nat
BY DEF TypeInv, StartPossible

LEMMA RefusedType ==
    ASSUME TypeInv, NEW disks, DisksPossible(disks), Refused(disks) \in Nat
    PROVE  writeFaults' \in Nat
BY DEF TypeInv, DisksPossible

LEMMA OneFault ==
    ASSUME NEW d
    PROVE  Refused(<<d>>) \in Nat
<1>1. Refused(<<d>>) = Fault(d) /\ Fault(d) \in {0, 1}
  BY OneDisk, FaultType
<1> QED
  BY <1>1

LEMMA TwoFaults ==
    ASSUME NEW d, NEW e
    PROVE  Refused(<<d, e>>) \in Nat
<1>1. Refused(<<d, e>>) = Fault(d) + Fault(e) /\ Fault(d) \in {0, 1} /\ Fault(e) \in {0, 1}
  BY TwoDisks, FaultType
<1> QED
  BY <1>1

LEMMA UnpricedLine == Unpriced \in Amounts
BY DEF Amounts

LEMMA OpenRunType ==
    ASSUME TypeInv, NEW start \in Starts, OpenRun(start)
    PROVE  TypeInv'
<1>1. startFaults' \in Nat /\ writeFaults' = writeFaults
  BY StartType DEF OpenRun
<1>2. writeFaults' + startFaults' <= MaxFaults
  BY <1>1, FaultsType DEF OpenRun, TypeInv
<1>3. /\ process' = process /\ root = 0 /\ depth' = depth + 1 /\ root' = seq + 1
      /\ seq' = seq + 1 /\ run < MaxRuns /\ run' = run + 1
      /\ UNCHANGED <<backends, rates, endings, costs, file, cases>>
  BY DEF OpenRun
<1>4. firstTrace' \in Traces
  BY <1>3, Observable, RememberType DEF OpenRun, TypeInv
<1>5. rootTrace' \in {None, Trace(root)'}
  BY <1>3 DEF OpenRun, Trace
<1>6. loop' \in LoopRecords
  BY DEF OpenRun, Idle, LoopRecords, StopReasons
<1>7. run' \in 0..MaxRuns /\ seq' \in Nat /\ root' \in 0..seq' /\ root' # 0 /\ depth' = 1
      /\ run' # 0
  BY <1>3, Constants0 DEF TypeInv
<1> QED
  BY <1>1, <1>2, <1>3, <1>4, <1>5, <1>6, <1>7 DEF TypeInv

LEMMA RunRefusedType ==
    ASSUME TypeInv, NEW disk \in WriteDisks, RunRefused(disk)
    PROVE  TypeInv'
<1>1. startFaults' \in Nat /\ writeFaults' \in Nat
  BY StartType, RefusedType, OneFault DEF RunRefused
<1>2. writeFaults' + startFaults' <= MaxFaults
  BY <1>1, FaultsType DEF RunRefused
<1>3. /\ root = 0 /\ run < MaxRuns /\ run' = run + 1 /\ seq' = seq + 1
      /\ UNCHANGED <<backends, rates, process, endings, loop, costs, root, depth,
                     rootTrace, firstTrace>>
  BY DEF RunRefused
<1>4. run' \in 0..MaxRuns /\ seq' \in Nat /\ root' \in 0..seq'
  BY <1>3, Constants0 DEF TypeInv
<1> DEFINE line == [Line("run", seq + 1, depth, "none", Unpriced) EXCEPT !.run = run + 1]
<1>5. line \in LineRecords
  <2>1. Line("run", seq + 1, depth, "none", Unpriced) \in LineRecords
    <3>1. seq + 1 \in Nat \ {0} /\ depth \in Nat
      BY DEF TypeInv
    <3> QED
      BY <3>1, LineType, UnpricedLine DEF Kinds, Outcomes
  <2>2. run + 1 \in Nat
    BY DEF TypeInv
  <2> QED
    BY <2>1, <2>2 DEF LineRecords
<1>6. FileType(file')
  <2>1. FileType(Write(file, line, disk))
    BY <1>5, WriteType DEF TypeInv
  <2>2. file' = Write(file, line, disk)
    BY DEF RunRefused
  <2> QED
    BY <2>1, <2>2
<1>7. cases' \in Seq(CaseRecords)
  <2>1. Empty \in CaseRecords /\ run + 1 \in Nat
    BY UnpricedLine DEF Empty, CaseRecords, TypeInv, Traces
  <2>2. [Empty EXCEPT !.run = run + 1] \in CaseRecords
    BY <2>1 DEF CaseRecords
  <2> QED
    BY <2>2 DEF RunRefused, TypeInv
<1>8. Trace(root)' = Trace(root)
  BY <1>3 DEF Trace
<1>9. FileType(file)'
  BY <1>6 DEF FileType
<1> QED
  BY <1>1, <1>2, <1>3, <1>4, <1>7, <1>8, <1>9 DEF TypeInv

LEMMA CompletionType ==
    ASSUME TypeInv, NEW n \in 0..MaxCalls, NEW tokens \in Tokens, NEW start \in Starts,
           NEW disk \in WriteDisks, Completion(n, tokens, start, disk)
    PROVE  TypeInv'
<1>1. startFaults' \in Nat /\ writeFaults' \in Nat
  BY StartType, RefusedType, OneFault DEF Completion, CloseChild
<1>2. writeFaults' + startFaults' <= MaxFaults
  BY <1>1, FaultsType DEF Completion
<1>3. /\ root # 0 /\ seq' = seq + 1 /\ Ready
      /\ UNCHANGED <<backends, rates, process, endings, run, root, depth, rootTrace, cases>>
  BY DEF Completion, CloseChild, Ready, Running
<1>4. seq' \in Nat /\ root' \in 0..seq'
  BY <1>3 DEF TypeInv
<1>5. CostFor(tokens, rates) \in Amounts
  BY CostIsAmount, Constants0 DEF TypeInv
<1>6. costs' \in Seq(Amounts)
  BY <1>5 DEF Completion, TypeInv
<1>7. loop' \in LoopRecords
  <2>1. loop \in LoopRecords /\ loop.iterations + 1 \in Nat /\ n \in Nat
    BY DEF TypeInv, LoopRecords
  <2>2. [loop EXCEPT !.iterations = @ + 1, !.left = n, !.accepted = FALSE] \in LoopRecords
    BY <2>1 DEF LoopRecords
  <2>3. AfterMessage(n) \in LoopRecords
    BY <2>2 DEF AfterMessage, NextRound, LoopRecords, StopReasons
  <2> QED
    BY <2>3 DEF Completion
<1>8. FileType(file)'
  <2>1. Line("llm", seq + 1, depth, "answered", CostFor(tokens, rates)) \in LineRecords
    <3>1. seq + 1 \in Nat \ {0} /\ depth \in Nat
      BY DEF TypeInv
    <3> QED
      BY <1>5, <3>1, LineType DEF Kinds, Outcomes
  <2>2. FileType(Write(file, Line("llm", seq + 1, depth, "answered", CostFor(tokens, rates)), disk))
    BY <2>1, WriteType DEF TypeInv
  <2>3. file' = Write(file, Line("llm", seq + 1, depth, "answered", CostFor(tokens, rates)), disk)
    BY DEF Completion, CloseChild
  <2> QED
    BY <2>2, <2>3 DEF FileType
<1>9. firstTrace' \in Traces
  <2>1. TraceOfChild(seq + 1) \in Traces
    BY Observable DEF TraceOfChild, TypeInv
  <2> QED
    BY <2>1, RememberType DEF Completion
<1>10. Trace(root)' = Trace(root)
  BY <1>3 DEF Trace
<1> QED
  BY <1>1, <1>2, <1>3, <1>4, <1>6, <1>7, <1>8, <1>9, <1>10 DEF TypeInv

LEMMA ToolCallType ==
    ASSUME TypeInv, NEW answer \in {"answered", "accepted"}, NEW start \in Starts,
           NEW disk \in WriteDisks, ToolCall(answer, start, disk)
    PROVE  TypeInv'
<1>1. startFaults' \in Nat /\ writeFaults' \in Nat
  BY StartType, RefusedType, OneFault DEF ToolCall, CloseChild
<1>2. writeFaults' + startFaults' <= MaxFaults
  BY <1>1, FaultsType DEF ToolCall
<1>3. /\ root # 0 /\ seq' = seq + 1 /\ InTools
      /\ UNCHANGED <<backends, rates, process, endings, run, root, depth, rootTrace, cases, costs>>
  BY DEF ToolCall, CloseChild, InTools, Running
<1>4. seq' \in Nat /\ root' \in 0..seq'
  BY <1>3 DEF TypeInv
<1>7. loop' \in LoopRecords
  <2>1. loop \in LoopRecords /\ loop.left - 1 \in Nat /\ loop.records + 1 \in Nat
    BY <1>3 DEF TypeInv, LoopRecords, InTools
  <2> DEFINE l == [loop EXCEPT !.left = @ - 1, !.records = @ + 1,
                               !.accepted = @ \/ answer = "accepted"]
  <2>2. l \in LoopRecords
    <3>1. (loop.accepted \/ answer = "accepted") \in BOOLEAN
      OBVIOUS
    <3> QED
      BY <2>1, <3>1 DEF LoopRecords
  <2>3. loop' = IF l.left > 0 THEN l
                ELSE IF l.accepted THEN [l EXCEPT !.stop = "SUBMITTED"]
                ELSE NextRound(l)
    BY DEF ToolCall
  <2> HIDE DEF l
  <2> QED
    BY <2>2, <2>3 DEF NextRound, LoopRecords, StopReasons
<1>8. FileType(file)'
  <2>1. Line("tool", seq + 1, depth, answer, Unpriced) \in LineRecords
    <3>1. seq + 1 \in Nat \ {0} /\ depth \in Nat /\ answer \in Outcomes
      BY DEF TypeInv, Outcomes
    <3> QED
      BY <3>1, LineType, UnpricedLine DEF Kinds
  <2>2. FileType(Write(file, Line("tool", seq + 1, depth, answer, Unpriced), disk))
    BY <2>1, WriteType DEF TypeInv
  <2>3. file' = Write(file, Line("tool", seq + 1, depth, answer, Unpriced), disk)
    BY DEF ToolCall, CloseChild
  <2> QED
    BY <2>2, <2>3 DEF FileType
<1>9. firstTrace' \in Traces
  <2>1. TraceOfChild(seq + 1) \in Traces
    BY Observable DEF TraceOfChild, TypeInv
  <2> QED
    BY <2>1, RememberType DEF ToolCall
<1>10. Trace(root)' = Trace(root)
  BY <1>3 DEF Trace
<1> QED
  BY <1>1, <1>2, <1>3, <1>4, <1>7, <1>8, <1>9, <1>10 DEF TypeInv

LEMMA RunEnds ==
    ASSUME NoRun
    PROVE  /\ loop' \in LoopRecords /\ loop' = Idle' /\ costs' = <<>> /\ root' = 0
           /\ costs' \in Seq(Amounts) /\ rootTrace' = None
BY DEF NoRun, Idle, LoopRecords, StopReasons

LEMMA RunRaisesType ==
    ASSUME TypeInv, NEW kind \in {"llm", "tool"}, NEW start \in Starts,
           NEW d \in WriteDisks, NEW e \in WriteDisks, RunRaises(kind, start, <<d, e>>)
    PROVE  TypeInv'
<1>1. startFaults' \in Nat /\ writeFaults' \in Nat
  BY StartType, RefusedType, TwoFaults DEF RunRaises, CloseBoth
<1>2. writeFaults' + startFaults' <= MaxFaults
  BY <1>1, FaultsType DEF RunRaises
<1>3. /\ root # 0 /\ seq' = seq + 1 /\ depth' = depth - 1
      /\ UNCHANGED <<backends, rates, process, endings, run>>
  BY DEF RunRaises, CloseBoth, Ready, InTools, Running
<1>4. seq' \in Nat /\ root' = 0 /\ root' \in 0..seq' /\ depth' = 0
  BY <1>3, RunEnds DEF TypeInv, RunRaises
<1>5. loop' \in LoopRecords /\ loop' = Idle' /\ costs' = <<>> /\ costs' \in Seq(Amounts)
      /\ rootTrace' = None
  BY RunEnds DEF RunRaises
<1>6. FileType(file)'
  <2> DEFINE l1 == Line(kind, seq + 1, depth, "none", Unpriced)
             l2 == Line("run", root, depth - 1, "none", Unpriced)
  <2>1. root \in Nat \ {0} /\ depth - 1 \in Nat /\ depth \in Nat /\ seq + 1 \in Nat \ {0}
    BY <1>3 DEF TypeInv
  <2>2. l1 \in LineRecords /\ l2 \in LineRecords
    BY <2>1, UnpricedLine, LineType DEF Kinds, Outcomes
  <2>3. FileType(Write(Write(file, l1, d), l2, e))
    <3> HIDE DEF l1, l2
    <3> QED
      BY <2>2, WriteType DEF TypeInv
  <2>4. file' = Write(Write(file, l1, d), l2, e)
    BY DEF RunRaises, CloseBoth
  <2> QED
    BY <2>3, <2>4 DEF FileType
<1>7. firstTrace' \in Traces
  <2>1. TraceOfChild(seq + 1) \in Traces
    BY Observable DEF TraceOfChild, TypeInv
  <2> QED
    BY <2>1, RememberType DEF RunRaises
<1>8. cases' \in Seq(CaseRecords)
  <2>1. Empty \in CaseRecords
    BY UnpricedLine DEF Empty, CaseRecords, TypeInv, Traces
  <2> QED
    BY <2>1 DEF RunRaises, TypeInv
<1> QED
  BY <1>1, <1>2, <1>3, <1>4, <1>5, <1>6, <1>7, <1>8 DEF TypeInv

LEMMA CloseRunType ==
    ASSUME TypeInv, NEW disk \in WriteDisks, CloseRun(disk)
    PROVE  TypeInv'
<1>1. startFaults' = startFaults /\ writeFaults' \in Nat
  BY RefusedType, OneFault DEF CloseRun
<1>2. writeFaults' + startFaults' <= MaxFaults
  BY <1>1, FaultsType DEF CloseRun, TypeInv
<1>3. /\ root # 0 /\ depth' = depth - 1
      /\ UNCHANGED <<backends, rates, process, endings, run, seq, firstTrace>>
  BY DEF CloseRun
<1>4. root' = 0 /\ root' \in 0..seq' /\ depth' = 0
  BY <1>3, RunEnds DEF TypeInv, CloseRun
<1>5. loop' \in LoopRecords /\ loop' = Idle' /\ costs' = <<>> /\ costs' \in Seq(Amounts)
      /\ rootTrace' = None
  BY RunEnds DEF CloseRun
<1>6. FileType(file)'
  <2> DEFINE line == Line("run", root, depth - 1, loop.stop, Unpriced)
  <2>1. root \in Nat \ {0} /\ depth - 1 \in Nat
    BY <1>3 DEF TypeInv
  <2>2. line \in LineRecords
    BY <2>1, UnpricedLine, LineType DEF Kinds, Outcomes, TypeInv, LoopRecords
  <2>3. FileType(Write(file, line, disk))
    <3> HIDE DEF line
    <3> QED
      BY <2>2, WriteType DEF TypeInv
  <2>4. file' = Write(file, line, disk)
    BY DEF CloseRun
  <2> QED
    BY <2>3, <2>4 DEF FileType
<1>7. cases' \in Seq(CaseRecords)
  <2>1. TotalCost(costs) \in Amounts
    BY TotalType DEF TypeInv
  <2>2. Finished \in CaseRecords
    BY <2>1, Observable DEF Finished, CaseRecords, TypeInv, LoopRecords
  <2> QED
    BY <2>2 DEF CloseRun, TypeInv
<1> QED
  BY <1>1, <1>2, <1>3, <1>4, <1>5, <1>6, <1>7 DEF TypeInv

LEMMA NewProcessType ==
    ASSUME TypeInv, NEW ending \in Endings, Alive, NewProcess(ending), FileType(file'),
           UNCHANGED <<backends, rates, run, writeFaults, startFaults>>
    PROVE  TypeInv'
<1>1. process' \in 1..(MaxProcesses + 1) /\ process' = process + 1
  BY Constants0 DEF TypeInv, NewProcess, Alive
<1>2. endings' \in Seq(Endings) /\ Len(endings') = process' - 1
  BY <1>1 DEF TypeInv, NewProcess
<1>3. loop' \in LoopRecords /\ loop' = Idle' /\ costs' = <<>> /\ costs' \in Seq(Amounts)
      /\ rootTrace' = None /\ root' = 0
  BY RunEnds DEF NewProcess
<1>4. seq' = 0 /\ depth' = 0 /\ firstTrace' \in Traces /\ cases' \in Seq(CaseRecords)
  BY DEF NewProcess, Traces
<1>5. FileType(file)'
  BY DEF FileType
<1> QED
  BY <1>1, <1>2, <1>3, <1>4, <1>5 DEF TypeInv

LEMMA ExitType ==
    ASSUME TypeInv, NEW reached \in BOOLEAN, Exit(reached)
    PROVE  TypeInv'
<1>1. FileType(file') /\ UNCHANGED <<backends, rates, run, writeFaults, startFaults>>
  BY DEF Exit, TypeInv
<1>2. Alive /\ NewProcess(IF reached THEN "flushed" ELSE "unreached")
  BY DEF Exit
<1> QED
  BY <1>1, <1>2, NewProcessType DEF Endings

LEMMA KillType ==
    ASSUME TypeInv, NEW disk \in WriteDisks, NEW batch, Kill(disk, batch)
    PROVE  TypeInv'
<1>1. Alive /\ NewProcess("killed") /\ UNCHANGED <<backends, rates, run, writeFaults, startFaults>>
  BY DEF Kill
<1>2. FileType(file')
  BY WriteType DEF Kill, TypeInv
<1> QED
  BY <1>1, <1>2, NewProcessType DEF Endings

LEMMA TypeInvariant == TracingSpec => []TypeInv
<1>1. TracingInit => TypeInv
  <2> SUFFICES ASSUME TracingInit PROVE TypeInv
    OBVIOUS
  <2>1. MaxFaults \in Nat /\ MaxRuns \in Nat /\ 1 \in 1..(MaxProcesses + 1)
    BY Constants0
  <2>2. rates \in Amounts \X Amounts
    BY Constants0 DEF TracingInit
  <2>3. Idle \in LoopRecords /\ None \in Traces
    BY DEF Idle, LoopRecords, StopReasons, Traces
  <2>4. FileType(file)
    BY DEF TracingInit, FileType
  <2> QED
    BY <2>1, <2>2, <2>3, <2>4 DEF TracingInit, TypeInv
<1>2. TypeInv /\ [TracingNext]_tracingVars => TypeInv'
  <2> SUFFICES ASSUME TypeInv, [TracingNext]_tracingVars PROVE TypeInv'
    OBVIOUS
  <2>1. ASSUME UNCHANGED tracingVars PROVE TypeInv'
    BY <2>1 DEF tracingVars, loopVars, fileVars, traceVars, TypeInv, FileType, Trace
  <2>2. ASSUME NEW disk \in WriteDisks, Kill(disk, {}) \/ Kill(disk, buffer) PROVE TypeInv'
    BY <2>2, KillType
  <2>3. ASSUME NEW kind \in {"llm", "tool"}, NEW start \in Starts, NEW disk \in WriteDisks,
               NEW last \in WriteDisks, RunRaises(kind, start, <<disk, last>>)
        PROVE  TypeInv'
    BY <2>3, RunRaisesType
  <2> QED
    BY <2>1, <2>2, <2>3, OpenRunType, RunRefusedType, CompletionType, ToolCallType,
       CloseRunType, ExitType DEF TracingNext
<1> QED
  BY <1>1, <1>2, PTL DEF TracingSpec

-----------------------------------------------------------------------------
(* The dashboard.  What a process has observed so far is in its buffer, and  *)
(* the dashboard has observations of earlier processes only; a trace of this *)
(* process is named by a span of the run it belongs to.                      *)

OfThisProcess(o, n) ==
    /\ o.process = process /\ o.run \in 1..run /\ o.seq \in 1..n
    /\ o.trace[1] = process /\ o.trace[2] \in 1..n

BufferOK(B, n) ==
    \A o \in B :
        /\ OfThisProcess(o, n)
        /\ root # 0 /\ o.run # run => o.trace[2] < root
        /\ root # 0 /\ o.run = run => /\ o.kind # "run" /\ o.trace[2] >= root
                                      /\ rootTrace # None => o.trace = rootTrace

SentOK ==
    \A o \in sent :
        /\ o.process \in Nat /\ o.process < process /\ o.trace[1] = o.process
        /\ o.run \in Nat /\ o.run <= run /\ (root # 0 => o.run < run)

CasesOK ==
    \A n \in DOMAIN cases :
        /\ cases[n].run \in 1..run /\ (root # 0 => cases[n].run < run)
        /\ \A o \in sent : o.run < cases[n].run

Grouped(O) ==
    /\ \A o, p \in O : o.trace = p.trace => o.run = p.run
    /\ \A o, p \in O : o.run = p.run /\ o.kind = "run" => o.trace = p.trace

Led(c, O) == \A o \in O : o.kind = "run" /\ o.run = c.run /\ ~Raised(c) => c.trace = o.trace

ObsInv ==
    /\ BufferOK(buffer, seq) /\ SentOK /\ CasesOK
    /\ Grouped(sent \cup buffer)
    /\ \A n \in DOMAIN cases : Led(cases[n], sent \cup buffer)

LEMMA ChildSeen ==
    ASSUME TypeInv, ObsInv, root # 0, NEW kind \in {"llm", "tool"}, NEW start
    PROVE  LET B == buffer \cup ChildObservation(kind, start) IN
           /\ BufferOK(B, seq + 1) /\ Grouped(sent \cup B)
           /\ \A n \in DOMAIN cases : Led(cases[n], sent \cup B)
<1> DEFINE B == buffer \cup ChildObservation(kind, start)
           o == Observation(kind, seq + 1, TraceOfChild(seq + 1))
<1>0. seq \in Nat /\ root \in 1..seq /\ run \in Nat /\ process \in Nat
  BY DEF TypeInv
<1>1. /\ o.process = process /\ o.run = run /\ o.seq = seq + 1 /\ o.kind = kind
      /\ o.trace = TraceOfChild(seq + 1)
  BY DEF Observation
<1>2. /\ TraceOfChild(seq + 1)[1] = process
      /\ TraceOfChild(seq + 1)[2] \in {root, seq + 1}
      /\ rootTrace # None => TraceOfChild(seq + 1) = rootTrace
  BY DEF TraceOfChild, Trace, TypeInv
<1>3. B \subseteq buffer \cup {o}
  BY DEF ChildObservation
<1>4. /\ \A p \in buffer : BufferOK({p}, seq)
      /\ \A p \in sent : p.trace[1] = p.process /\ p.process \in Nat /\ p.process < process
                         /\ p.run < run
  BY <1>0 DEF ObsInv, BufferOK, SentOK
<1> HIDE DEF B, o
<1>5. /\ o.trace[1] = process /\ o.trace[2] \in 1..(seq + 1) /\ o.trace[2] >= root
      /\ rootTrace # None => o.trace = rootTrace
      /\ o.trace[2] \in {root, seq + 1}
  BY <1>0, <1>1, <1>2
<1>6. run \in 1..run
  <2>1. run # 0
    BY DEF TypeInv
  <2> QED
    BY <1>0, <2>1
<1>7. BufferOK(B, seq + 1)
  <2>1. \A p \in buffer : p.seq \in 1..(seq + 1) /\ p.trace[2] \in 1..(seq + 1)
    BY <1>0 DEF ObsInv, BufferOK, OfThisProcess
  <2>2. BufferOK(buffer, seq + 1)
    BY <2>1 DEF ObsInv, BufferOK, OfThisProcess
  <2>3. BufferOK({o}, seq + 1)
    <3>1. seq + 1 \in 1..(seq + 1)
      BY <1>0
    <3> QED
      BY <1>1, <1>5, <1>6, <3>1 DEF BufferOK, OfThisProcess
  <2> QED
    BY <1>3, <2>2, <2>3 DEF BufferOK
<1>8. \A p \in sent \cup buffer : /\ p.trace = o.trace => p.run = run
                                  /\ p.kind = "run" => p.run # run
                                  /\ p.kind = "run" => p.trace # o.trace
  <2>1. ASSUME NEW p \in sent PROVE p.trace # o.trace /\ p.run # run
    BY <1>0, <1>4, <1>5
  <2>2. ASSUME NEW p \in buffer PROVE /\ p.trace = o.trace => p.run = run
                                      /\ p.kind = "run" => p.run # run
    <3>1. p.run # run => p.trace[2] < root /\ p.trace[2] \in 1..seq
      BY <1>0 DEF ObsInv, BufferOK, OfThisProcess
    <3>2. p.run = run => p.kind # "run"
      BY <1>0 DEF ObsInv, BufferOK
    <3> QED
      BY <1>0, <1>5, <3>1, <3>2
  <2> QED
    BY <2>1, <2>2
<1>9. Grouped(sent \cup B)
  <2>1. \A p, q \in sent \cup buffer \cup {o} : p.trace = q.trace => p.run = q.run
    BY <1>1, <1>8 DEF ObsInv, Grouped
  <2>2. \A p, q \in sent \cup buffer \cup {o} : p.run = q.run /\ p.kind = "run" => p.trace = q.trace
    BY <1>1, <1>8 DEF ObsInv, Grouped
  <2> QED
    BY <1>3, <2>1, <2>2 DEF Grouped
<1>10. \A n \in DOMAIN cases : Led(cases[n], sent \cup B)
  BY <1>1, <1>3 DEF ObsInv, Led
<1> QED
  BY <1>7, <1>9, <1>10 DEF B

(* The span of the run ends, and is in the trace of everything the dashboard *)
(* has of the run.                                                           *)
LEMMA RootSeen ==
    ASSUME TypeInv, ObsInv, root # 0, NEW B, NEW n \in Nat, seq <= n, BufferOK(B, n),
           Grouped(sent \cup B), \A m \in DOMAIN cases : Led(cases[m], sent \cup B)
    PROVE  LET R == B \cup RootObservation IN
           /\ \A o \in R : OfThisProcess(o, n)
           /\ Grouped(sent \cup R)
           /\ \A m \in DOMAIN cases : Led(cases[m], sent \cup R)
           /\ \A o \in sent \cup R : o.kind = "run" /\ o.run = run =>
                  rootTrace # None /\ o.trace = rootTrace
<1> DEFINE R == B \cup RootObservation
           o == Observation("run", root, rootTrace)
<1>0. /\ seq \in Nat /\ root \in 1..seq /\ run \in 1..run /\ process \in Nat
      /\ rootTrace # None => rootTrace = Trace(root)
  <2>1. run # 0 /\ run \in Nat
    BY DEF TypeInv
  <2> QED
    BY <2>1 DEF TypeInv
<1>1. /\ o.process = process /\ o.run = run /\ o.seq = root /\ o.kind = "run"
      /\ o.trace = rootTrace
  BY DEF Observation
<1>2. Trace(root)[1] = process /\ Trace(root)[2] = root
  BY DEF Trace
<1>3. R \subseteq B \cup {o} /\ (rootTrace = None => R = B)
  BY DEF RootObservation
<1>4. \A p \in sent : p.run < run /\ p.run # run
  BY <1>0 DEF ObsInv, SentOK
<1> HIDE DEF R, o
<1>5. CASE rootTrace = None
  <2>1. \A p \in sent \cup B : p.kind = "run" => p.run # run
    BY <1>4 DEF BufferOK
  <2> QED
    BY <1>3, <1>5, <2>1 DEF BufferOK, R
<1>6. CASE rootTrace # None
  <2>1. \A p \in B : OfThisProcess(p, n)
    BY DEF BufferOK
  <2>2. OfThisProcess(o, n)
    <3>1. root \in 1..n
      BY <1>0
    <3> QED
      BY <1>0, <1>1, <1>2, <1>6, <3>1 DEF OfThisProcess
  <2>3. \A p \in B : /\ p.run = run => p.trace = o.trace /\ p.kind # "run"
                     /\ p.run # run => p.trace # o.trace
    <3> TAKE p \in B
    <3>1. p.run = run => p.trace = o.trace /\ p.kind # "run"
      BY <1>0, <1>1, <1>6 DEF BufferOK
    <3>2. ASSUME p.run # run PROVE p.trace # o.trace
      <4>1. p.trace[2] < root /\ p.trace[2] \in 1..n
        BY <1>0, <3>2 DEF BufferOK, OfThisProcess
      <4>2. o.trace[2] = root
        BY <1>0, <1>1, <1>2, <1>6
      <4> QED
        BY <1>0, <4>1, <4>2
    <3> QED
      BY <3>1, <3>2
  <2>4. \A p \in sent : p.run # run /\ p.trace # o.trace
    <3>1. \A p \in sent : p.trace[1] = p.process /\ p.process # process
      BY <1>0 DEF ObsInv, SentOK
    <3>2. o.trace[1] = process
      BY <1>0, <1>1, <1>2, <1>6
    <3> QED
      BY <1>4, <3>1, <3>2
  <2>5. Grouped(sent \cup B \cup {o})
    <3>1. \A p, q \in sent \cup B \cup {o} : p.trace = q.trace => p.run = q.run
      BY <1>1, <2>3, <2>4 DEF Grouped
    <3>2. \A p, q \in sent \cup B \cup {o} : p.run = q.run /\ p.kind = "run" => p.trace = q.trace
      BY <1>1, <2>3, <2>4 DEF Grouped
    <3> QED
      BY <3>1, <3>2 DEF Grouped
  <2>6. Grouped(sent \cup R)
    BY <1>3, <2>5 DEF Grouped
  <2>7. \A m \in DOMAIN cases : Led(cases[m], sent \cup R)
    <3>1. \A m \in DOMAIN cases : cases[m].run # run
      BY <1>0 DEF ObsInv, CasesOK
    <3> QED
      BY <1>1, <1>3, <3>1 DEF Led
  <2>8. \A p \in sent \cup R : p.kind = "run" /\ p.run = run => p.trace = rootTrace
    BY <1>1, <1>3, <2>3, <2>4
  <2>9. \A p \in R : OfThisProcess(p, n)
    BY <1>3, <2>1, <2>2
  <2> QED
    BY <1>6, <2>6, <2>7, <2>8, <2>9 DEF R
<1> QED
  BY <1>5, <1>6

(* How each action changes what is observed and reported. *)
LEMMA OpenRunObs ==
    ASSUME TypeInv, ObsInv, NEW start \in Starts, OpenRun(start)
    PROVE  ObsInv'
<1>1. /\ root = 0 /\ run' = run + 1 /\ seq' = seq + 1 /\ root' = seq + 1
      /\ UNCHANGED <<process, sent, buffer, cases>>
  BY DEF OpenRun
<1>2. run \in Nat /\ seq \in Nat
  BY DEF TypeInv
<1>3. BufferOK(buffer, seq)'
  <2>1. \A o \in buffer : /\ o.run # run' /\ o.trace[2] < root'
                          /\ o.run \in 1..run' /\ o.seq \in 1..seq' /\ o.trace[2] \in 1..seq'
    BY <1>1, <1>2 DEF ObsInv, BufferOK, OfThisProcess
  <2>2. \A o \in buffer : o.process = process' /\ o.trace[1] = process'
    BY <1>1 DEF ObsInv, BufferOK, OfThisProcess
  <2> QED
    BY <1>1, <2>1, <2>2 DEF BufferOK, OfThisProcess
<1>4. SentOK'
  BY <1>1, <1>2 DEF ObsInv, SentOK
<1>5. CasesOK'
  BY <1>1, <1>2 DEF ObsInv, CasesOK
<1> QED
  BY <1>1, <1>3, <1>4, <1>5 DEF ObsInv, Grouped, Led, Raised

LEMMA RunRefusedObs ==
    ASSUME TypeInv, ObsInv, NEW disk, RunRefused(disk)
    PROVE  ObsInv'
<1>1. /\ root = 0 /\ root' = 0 /\ run' = run + 1 /\ seq' = seq + 1
      /\ UNCHANGED <<process, sent, buffer>>
      /\ cases' = Append(cases, [Empty EXCEPT !.run = run + 1])
  BY DEF RunRefused
<1>2. run \in Nat /\ seq \in Nat /\ cases \in Seq(CaseRecords)
  BY DEF TypeInv
<1>3. BufferOK(buffer, seq)'
  <2>1. \A o \in buffer : o.run \in 1..run' /\ o.seq \in 1..seq' /\ o.trace[2] \in 1..seq'
    BY <1>1, <1>2 DEF ObsInv, BufferOK, OfThisProcess
  <2>2. \A o \in buffer : o.process = process' /\ o.trace[1] = process'
    BY <1>1 DEF ObsInv, BufferOK, OfThisProcess
  <2> QED
    BY <1>1, <2>1, <2>2 DEF BufferOK, OfThisProcess
<1>4. SentOK'
  BY <1>1, <1>2 DEF ObsInv, SentOK
<1>5. PICK c : c = [Empty EXCEPT !.run = run + 1] /\ c.run = run + 1 /\ Raised(c)
  <2> DEFINE c == [Empty EXCEPT !.run = run + 1]
  <2>1. c.run = run + 1 /\ c.stop = "raised"
    BY DEF Empty
  <2> QED
    BY <2>1 DEF Raised
<1>6. /\ DOMAIN cases' = 1..(Len(cases) + 1) /\ DOMAIN cases = 1..Len(cases) /\ Len(cases) \in Nat
      /\ cases'[Len(cases) + 1] = c /\ \A n \in DOMAIN cases : cases'[n] = cases[n]
  BY <1>1, <1>2, <1>5
<1>7. CasesOK'
  <2>1. \A n \in DOMAIN cases' : n = Len(cases) + 1 \/ n \in DOMAIN cases
    BY <1>6
  <2>2. \A o \in sent : o.run < c.run
    BY <1>2, <1>5 DEF ObsInv, SentOK
  <2>3. c.run \in 1..run'
    BY <1>1, <1>2, <1>5
  <2>4. \A n \in DOMAIN cases : cases[n].run \in 1..run'
    BY <1>1, <1>2 DEF ObsInv, CasesOK
  <2>5. \A n \in DOMAIN cases' : cases'[n].run \in 1..run' /\ \A o \in sent : o.run < cases'[n].run
    BY <1>6, <2>1, <2>2, <2>3, <2>4 DEF ObsInv, CasesOK
  <2> QED
    BY <1>1, <2>5 DEF CasesOK
<1>8. \A n \in DOMAIN cases' : Led(cases'[n], sent \cup buffer)
  <2>1. \A n \in DOMAIN cases' : n = Len(cases) + 1 \/ n \in DOMAIN cases
    BY <1>6
  <2> QED
    BY <1>5, <1>6, <2>1 DEF ObsInv, Led
<1>9. \A n \in DOMAIN cases' : Led(cases'[n], sent' \cup buffer')
  BY <1>1, <1>8
<1> QED
  BY <1>1, <1>3, <1>4, <1>7, <1>9 DEF ObsInv, Grouped, Led, Raised

LEMMA ChildObs ==
    ASSUME TypeInv, ObsInv, root # 0, NEW kind \in {"llm", "tool"}, NEW start,
           seq' = seq + 1, buffer' = buffer \cup ChildObservation(kind, start),
           UNCHANGED <<process, run, root, rootTrace, sent, cases>>
    PROVE  ObsInv'
<1>1. PICK B : /\ B = buffer \cup ChildObservation(kind, start)
               /\ BufferOK(B, seq + 1) /\ Grouped(sent \cup B)
               /\ \A n \in DOMAIN cases : Led(cases[n], sent \cup B)
  BY ChildSeen
<1>2. buffer' = B
  BY <1>1
<1>3. BufferOK(buffer, seq)'
  BY <1>1, <1>2 DEF BufferOK, OfThisProcess
<1>4. SentOK' /\ CasesOK'
  BY DEF ObsInv, SentOK, CasesOK
<1>5. Grouped(sent \cup buffer)'
  BY <1>1, <1>2 DEF Grouped
<1>6. (\A n \in DOMAIN cases : Led(cases[n], sent \cup buffer))'
  BY <1>1, <1>2 DEF Led, Raised
<1> QED
  BY <1>3, <1>4, <1>5, <1>6 DEF ObsInv

(* The run is over: its span ends, and c is reported of it. *)
LEMMA EndObs ==
    ASSUME TypeInv, ObsInv, root # 0, NEW B, NEW n \in Nat, seq <= n, BufferOK(B, n),
           Grouped(sent \cup B), \A m \in DOMAIN cases : Led(cases[m], sent \cup B),
           NEW c, c.run = run, Raised(c) \/ (rootTrace # None => c.trace = rootTrace),
           seq' = n, buffer' = B \cup RootObservation, cases' = Append(cases, c),
           root' = 0, UNCHANGED <<process, run, sent>>
    PROVE  ObsInv'
<1>1. PICK R : /\ R = B \cup RootObservation
               /\ \A o \in R : OfThisProcess(o, n)
               /\ Grouped(sent \cup R)
               /\ \A m \in DOMAIN cases : Led(cases[m], sent \cup R)
               /\ \A o \in sent \cup R : o.kind = "run" /\ o.run = run =>
                      rootTrace # None /\ o.trace = rootTrace
  BY RootSeen
<1>2. buffer' = R
  BY <1>1
<1>3. BufferOK(buffer, seq)'
  BY <1>1, <1>2 DEF BufferOK, OfThisProcess
<1>4. run \in Nat /\ run # 0 /\ cases \in Seq(CaseRecords)
  BY DEF TypeInv
<1>5. SentOK'
  BY DEF ObsInv, SentOK
<1>6. /\ DOMAIN cases' = 1..(Len(cases) + 1) /\ DOMAIN cases = 1..Len(cases) /\ Len(cases) \in Nat
      /\ cases'[Len(cases) + 1] = c /\ \A m \in DOMAIN cases : cases'[m] = cases[m]
  BY <1>4
<1>7. \A m \in DOMAIN cases' : m = Len(cases) + 1 \/ m \in DOMAIN cases
  BY <1>6
<1>8. CasesOK'
  <2>1. \A o \in sent : o.run < c.run
    BY <1>4 DEF ObsInv, SentOK
  <2>2. c.run \in 1..run
    BY <1>4
  <2>3. \A m \in DOMAIN cases' : cases'[m].run \in 1..run /\ \A o \in sent : o.run < cases'[m].run
    BY <1>6, <1>7, <2>1, <2>2 DEF ObsInv, CasesOK
  <2> QED
    BY <2>3 DEF CasesOK
<1>9. Grouped(sent \cup buffer)'
  BY <1>1, <1>2 DEF Grouped
<1>10. \A m \in DOMAIN cases' : Led(cases'[m], sent \cup R)
  <2>1. Led(c, sent \cup R)
    BY <1>1 DEF Led
  <2> QED
    BY <1>1, <1>6, <1>7, <2>1
<1>11. (\A m \in DOMAIN cases : Led(cases[m], sent \cup buffer))'
  BY <1>2, <1>10 DEF Led, Raised
<1> QED
  BY <1>3, <1>5, <1>8, <1>9, <1>11 DEF ObsInv

LEMMA NewProcessObs ==
    ASSUME TypeInv, ObsInv, NEW ending, NewProcess(ending), run' = run,
           sent' \subseteq sent \cup buffer
    PROVE  ObsInv'
<1>1. process' = process + 1 /\ buffer' = {} /\ cases' = <<>> /\ root' = 0
  BY DEF NewProcess, NoRun
<1>2. process \in Nat /\ run \in Nat
  BY DEF TypeInv
<1>3. SentOK'
  <2>1. \A o \in buffer : o.process = process /\ o.trace[1] = process /\ o.run \in 1..run
    BY DEF ObsInv, BufferOK, OfThisProcess
  <2>2. \A o \in sent \cup buffer : /\ o.process \in Nat /\ o.process < process + 1
                                    /\ o.trace[1] = o.process /\ o.run \in Nat /\ o.run <= run
    BY <1>2, <2>1 DEF ObsInv, SentOK
  <2> QED
    BY <1>1, <2>2 DEF SentOK
<1>4. CasesOK' /\ BufferOK(buffer, seq)'
  BY <1>1 DEF CasesOK, BufferOK
<1>5. Grouped(sent \cup buffer)'
  BY <1>1 DEF ObsInv, Grouped
<1>6. (\A m \in DOMAIN cases : Led(cases[m], sent \cup buffer))'
  BY <1>1
<1> QED
  BY <1>3, <1>4, <1>5, <1>6 DEF ObsInv

LEMMA ObsInvariant == TracingSpec => []ObsInv
<1>1. TracingInit => ObsInv
  BY DEF TracingInit, ObsInv, BufferOK, SentOK, CasesOK, Grouped
<1>2. TypeInv /\ ObsInv /\ [TracingNext]_tracingVars => ObsInv'
  <2> SUFFICES ASSUME TypeInv, ObsInv, [TracingNext]_tracingVars PROVE ObsInv'
    OBVIOUS
  <2>1. ASSUME UNCHANGED tracingVars PROVE ObsInv'
    BY <2>1 DEF tracingVars, loopVars, fileVars, traceVars, ObsInv, BufferOK, SentOK, CasesOK,
                Grouped, Led, OfThisProcess, Raised
  <2>2. ASSUME NEW n \in 0..MaxCalls, NEW tokens \in Tokens, NEW start \in Starts,
               NEW disk \in WriteDisks, Completion(n, tokens, start, disk)
        PROVE  ObsInv'
    BY <2>2, ChildObs DEF Completion, CloseChild, Ready, Running
  <2>3. ASSUME NEW answer \in {"answered", "accepted"}, NEW start \in Starts,
               NEW disk \in WriteDisks, ToolCall(answer, start, disk)
        PROVE  ObsInv'
    BY <2>3, ChildObs DEF ToolCall, CloseChild, InTools, Running
  <2>4. ASSUME NEW kind \in {"llm", "tool"}, NEW start \in Starts, NEW disk \in WriteDisks,
               NEW last \in WriteDisks, RunRaises(kind, start, <<disk, last>>)
        PROVE  ObsInv'
    <3>1. root # 0
      BY <2>4 DEF RunRaises, Ready, InTools, Running
    <3>2. PICK B : /\ B = buffer \cup ChildObservation(kind, start)
                   /\ BufferOK(B, seq + 1) /\ Grouped(sent \cup B)
                   /\ \A m \in DOMAIN cases : Led(cases[m], sent \cup B)
      BY <3>1, ChildSeen
    <3>3. seq' = seq + 1 /\ buffer' = B \cup RootObservation /\ cases' = Append(cases, Empty)
          /\ root' = 0 /\ UNCHANGED <<process, run, sent>>
      BY <2>4, <3>2 DEF RunRaises, CloseBoth, NoRun
    <3>4. Empty.run = run /\ Raised(Empty)
      BY DEF Empty, Raised
    <3>5. seq + 1 \in Nat /\ seq <= seq + 1
      BY DEF TypeInv
    <3> QED
      BY <3>1, <3>2, <3>3, <3>4, <3>5, EndObs
  <2>5. ASSUME NEW disk \in WriteDisks, CloseRun(disk) PROVE ObsInv'
    <3>1. /\ root # 0 /\ seq' = seq /\ buffer' = buffer \cup RootObservation
          /\ cases' = Append(cases, Finished) /\ root' = 0 /\ UNCHANGED <<process, run, sent>>
      BY <2>5 DEF CloseRun, NoRun
    <3>2. Finished.run = run /\ (rootTrace # None => Finished.trace = rootTrace)
      BY DEF Finished
    <3>3. seq \in Nat /\ seq <= seq
      BY DEF TypeInv
    <3>4. BufferOK(buffer, seq) /\ Grouped(sent \cup buffer)
          /\ \A m \in DOMAIN cases : Led(cases[m], sent \cup buffer)
      BY DEF ObsInv
    <3> QED
      BY <3>1, <3>2, <3>3, <3>4, EndObs
  <2>6. ASSUME NEW reached \in BOOLEAN, Exit(reached) PROVE ObsInv'
    BY <2>6, NewProcessObs DEF Exit
  <2>7. ASSUME NEW disk \in WriteDisks, Kill(disk, {}) \/ Kill(disk, buffer) PROVE ObsInv'
    BY <2>7, NewProcessObs DEF Kill
  <2> QED
    BY <2>1, <2>2, <2>3, <2>4, <2>5, <2>6, <2>7, OpenRunObs, RunRefusedObs DEF TracingNext
<1> QED
  BY <1>1, <1>2, TypeInvariant, PTL DEF TracingSpec

(* The counters of the tracers: how many spans are open and how deep; and    *)
(* nothing that was sent is still in a buffer.                               *)
THEOREM TracingTypes == TracingSpec => []TracingTypeOK
<1>1. TypeInv /\ ObsInv => TracingTypeOK
  <2> SUFFICES ASSUME TypeInv, ObsInv PROVE TracingTypeOK
    OBVIOUS
  <2>1. \A i \in DOMAIN costs : costs[i] \in Amounts
    BY DEF TypeInv
  <2>2. buffer \cap sent = {}
    <3>1. process \in Nat
      BY DEF TypeInv
    <3>2. \A o \in sent : o.process # process
      BY <3>1 DEF ObsInv, SentOK
    <3> QED
      BY <3>2 DEF ObsInv, BufferOK, OfThisProcess
  <2> QED
    BY <2>1, <2>2 DEF TypeInv, TracingTypeOK
<1> QED
  BY <1>1, TypeInvariant, ObsInvariant, PTL

(* One trace per run, for any number of processes, runs and refused spans.   *)
THEOREM OneTraceEach == TracingSpec => []OneTracePerRun
<1>1. ObsInv => OneTracePerRun
  BY DEF ObsInv, Grouped, Led, OneTracePerRun, Observations
<1> QED
  BY <1>1, ObsInvariant, PTL

-----------------------------------------------------------------------------
(* The file.  Its whole lines are those of one run after those of another,   *)
(* the line of the run last; numbers grow from run to run of a process, and  *)
(* the line of a run has the lowest number of its run.                       *)

Whole(ls) == {i \in DOMAIN ls : ls[i].kind # "torn"}
Held(ls)  == {ls[i] : i \in Whole(ls)}

Follows(a, b) ==
    /\ a.run <= b.run /\ a.process <= b.process
    /\ a.run = b.run => /\ a.process = b.process /\ a.kind # "run"
                        /\ b.kind = "run" => b.seq < a.seq
    /\ a.run # b.run /\ a.process = b.process => a.seq < b.seq

LevelOK(l) == l.depth = IF l.kind = "run" THEN 0 ELSE 1

LinesOK(ls) ==
    /\ \A l \in Held(ls) : LevelOK(l)
    /\ \A i, j \in Whole(ls) : i < j => Follows(ls[i], ls[j])

(* What a line says of the open run and of the numbers given out, up to n.   *)
KnownLine(l, n) ==
    /\ l.process <= process /\ l.run <= run
    /\ l.process = process => l.seq <= n
    /\ root # 0 /\ l.run = run => l.process = process /\ l.kind # "run" /\ l.seq > root
    /\ root # 0 /\ l.run # run /\ l.process = process => l.seq < root

LinesInv == LinesOK(file.lines) /\ \A l \in Held(file.lines) : KnownLine(l, seq)

LEMMA HeldLines ==
    ASSUME NEW f, FileType(f)
    PROVE  /\ Held(f.lines) \subseteq LineRecords
           /\ \A i \in Whole(f.lines) : i \in 1..Len(f.lines) /\ f.lines[i] \in LineRecords
           /\ Len(f.lines) \in Nat /\ DOMAIN f.lines = 1..Len(f.lines)
<1>1. /\ Len(f.lines) \in Nat /\ DOMAIN f.lines = 1..Len(f.lines)
      /\ \A i \in DOMAIN f.lines : f.lines[i] \in LineRecords \cup {Garbage}
  BY DEF FileType
<1>2. \A i \in Whole(f.lines) : f.lines[i] # Garbage
  BY DEF Whole, Garbage
<1> QED
  BY <1>1, <1>2 DEF Whole, Held

LEMMA WholeAppended ==
    ASSUME NEW f, FileType(f), NEW line \in LineRecords \cup {Garbage}
    PROVE  LET ls == Append(f.lines, line) IN
           /\ Whole(ls) = IF line = Garbage THEN Whole(f.lines)
                          ELSE Whole(f.lines) \cup {Len(f.lines) + 1}
           /\ \A i \in Whole(f.lines) : ls[i] = f.lines[i]
           /\ ls[Len(f.lines) + 1] = line
           /\ Len(ls) = Len(f.lines) + 1 /\ DOMAIN ls = 1..(Len(f.lines) + 1)
<1> DEFINE ls == Append(f.lines, line)
<1>1. /\ Len(f.lines) \in Nat /\ DOMAIN f.lines = 1..Len(f.lines)
      /\ DOMAIN ls = 1..(Len(f.lines) + 1) /\ Len(ls) = Len(f.lines) + 1
      /\ \A i \in 1..Len(f.lines) : ls[i] = f.lines[i]
      /\ ls[Len(f.lines) + 1] = line
  BY DEF FileType
<1>2. line.kind = "torn" <=> line = Garbage
  BY DEF Garbage, LineRecords, Kinds
<1>3. \A i : i \in DOMAIN ls <=> i \in DOMAIN f.lines \/ i = Len(f.lines) + 1
  BY <1>1
<1>4. Len(f.lines) + 1 \notin DOMAIN f.lines
  BY <1>1
<1> HIDE DEF ls
<1>5. \A i : i \in Whole(ls) <=> i \in Whole(f.lines) \/ (i = Len(f.lines) + 1 /\ line # Garbage)
  BY <1>1, <1>2, <1>3, <1>4 DEF Whole
<1>6. Whole(ls) = IF line = Garbage THEN Whole(f.lines) ELSE Whole(f.lines) \cup {Len(f.lines) + 1}
  BY <1>5
<1> QED
  BY <1>1, <1>6 DEF ls, Whole

(* One write adds one line at most. *)
LEMMA HeldAfter ==
    ASSUME NEW f, FileType(f), NEW line \in LineRecords, NEW disk \in WriteDisks,
           LinesOK(f.lines), LevelOK(line), \A l \in Held(f.lines) : Follows(l, line)
    PROVE  LET g == Write(f, line, disk) IN
           FileType(g) /\ LinesOK(g.lines) /\ Held(g.lines) \subseteq Held(f.lines) \cup {line}
<1> DEFINE g == Write(f, line, disk)
<1>1. FileType(g) /\ g.lines \in {f.lines, Append(f.lines, Garbage), Append(f.lines, line)}
  BY WriteType, WrittenLines
<1> HIDE DEF g
<1>2. CASE g.lines = f.lines
  BY <1>1, <1>2 DEF g
<1>3. ASSUME NEW x \in {Garbage, line}, g.lines = Append(f.lines, x)
      PROVE  LinesOK(g.lines) /\ Held(g.lines) \subseteq Held(f.lines) \cup {line}
  <2>1. /\ Whole(g.lines) = IF x = Garbage THEN Whole(f.lines)
                            ELSE Whole(f.lines) \cup {Len(f.lines) + 1}
        /\ \A i \in Whole(f.lines) : g.lines[i] = f.lines[i]
        /\ g.lines[Len(f.lines) + 1] = x
    <3>1. x \in LineRecords \cup {Garbage}
      BY <1>3
    <3> DEFINE ls == Append(f.lines, x)
    <3>2. /\ Whole(ls) = IF x = Garbage THEN Whole(f.lines)
                         ELSE Whole(f.lines) \cup {Len(f.lines) + 1}
          /\ \A i \in Whole(f.lines) : ls[i] = f.lines[i]
          /\ ls[Len(f.lines) + 1] = x
      BY <3>1, WholeAppended
    <3> HIDE DEF ls
    <3>3. g.lines = ls
      BY <1>3 DEF ls
    <3> QED
      BY ONLY <3>2, <3>3
  <2>2. \A i \in Whole(f.lines) : i \in 1..Len(f.lines) /\ Len(f.lines) \in Nat
    BY HeldLines
  <2>3. Held(g.lines) \subseteq Held(f.lines) \cup {line}
    BY <2>1 DEF Held
  <2>4. ASSUME NEW i \in Whole(g.lines), NEW j \in Whole(g.lines), i < j
        PROVE  Follows(g.lines[i], g.lines[j])
    <3>1. i \in Whole(f.lines)
      BY <2>1, <2>2, <2>4
    <3>2. CASE j \in Whole(f.lines)
      BY <2>1, <2>4, <3>1, <3>2 DEF LinesOK
    <3>3. CASE j = Len(f.lines) + 1 /\ x = line
      BY <2>1, <3>1, <3>3 DEF Held
    <3> QED
      BY <1>3, <2>1, <3>2, <3>3
  <2>5. \A l \in Held(g.lines) : LevelOK(l)
    BY <2>3 DEF LinesOK
  <2> QED
    BY <2>3, <2>4, <2>5 DEF LinesOK
<1> QED
  BY <1>1, <1>2, <1>3 DEF g

LEMMA HeldAfterTorn ==
    ASSUME NEW f, FileType(f), NEW disk \in WriteDisks
    PROVE  LET g == Write(f, Garbage, disk) IN
           /\ Whole(g.lines) = Whole(f.lines)
           /\ \A i \in Whole(f.lines) : g.lines[i] = f.lines[i]
<1>1. Write(f, Garbage, disk).lines \in {f.lines, Append(f.lines, Garbage)}
  BY WrittenLines
<1> QED
  BY <1>1, WholeAppended, Zenon

(* The lines a span of the open run, or its run, is written with.            *)
LEMMA ChildFits ==
    ASSUME TypeInv, root # 0, NEW kind \in {"llm", "tool"}, NEW outcome \in Outcomes,
           NEW cost \in Amounts
    PROVE  LET line == Line(kind, seq + 1, depth, outcome, cost) IN
           /\ line \in LineRecords /\ LevelOK(line) /\ KnownLine(line, seq + 1)
           /\ \A l \in LineRecords : KnownLine(l, seq) => Follows(l, line) /\ KnownLine(l, seq + 1)
<1> DEFINE line == Line(kind, seq + 1, depth, outcome, cost)
<1>1. /\ seq + 1 \in Nat \ {0} /\ depth = 1 /\ seq \in Nat /\ root \in 1..seq
      /\ run \in Nat /\ process \in Nat
  BY DEF TypeInv
<1>2. line \in LineRecords
  BY <1>1, LineType DEF Kinds
<1>3. /\ line.kind = kind /\ line.seq = seq + 1 /\ line.depth = depth
      /\ line.process = process /\ line.run = run
  BY DEF Line
<1> HIDE DEF line
<1>4. LevelOK(line) /\ KnownLine(line, seq + 1)
  BY <1>1, <1>3 DEF LevelOK, KnownLine
<1>5. ASSUME NEW l \in LineRecords, KnownLine(l, seq)
      PROVE  Follows(l, line) /\ KnownLine(l, seq + 1)
  <2>1. l.seq \in Nat /\ l.run \in Nat /\ l.process \in Nat
    BY DEF LineRecords
  <2> QED
    BY <1>1, <1>3, <1>5, <2>1 DEF Follows, KnownLine
<1> QED
  BY <1>2, <1>4, <1>5 DEF line

LEMMA RunFits ==
    ASSUME TypeInv, root # 0, NEW outcome \in Outcomes
    PROVE  LET line == Line("run", root, depth - 1, outcome, Unpriced) IN
           /\ line \in LineRecords /\ LevelOK(line)
           /\ \A l \in LineRecords, n \in Nat : KnownLine(l, n) => Follows(l, line)
<1> DEFINE line == Line("run", root, depth - 1, outcome, Unpriced)
<1>1. /\ root \in Nat \ {0} /\ depth - 1 = 0 /\ depth - 1 \in Nat /\ run \in Nat /\ process \in Nat
  BY DEF TypeInv
<1>2. line \in LineRecords
  BY <1>1, LineType, UnpricedLine DEF Kinds
<1>3. /\ line.kind = "run" /\ line.seq = root /\ line.depth = 0
      /\ line.process = process /\ line.run = run
  BY <1>1 DEF Line
<1> HIDE DEF line
<1>4. LevelOK(line)
  BY <1>3 DEF LevelOK
<1>5. ASSUME NEW l \in LineRecords, NEW n \in Nat, KnownLine(l, n)
      PROVE  Follows(l, line)
  <2>1. l.seq \in Nat /\ l.run \in Nat /\ l.process \in Nat
    BY DEF LineRecords
  <2> QED
    BY <1>1, <1>3, <1>5, <2>1 DEF Follows, KnownLine
<1> QED
  BY <1>2, <1>4, <1>5 DEF line

LEMMA OpenRunLines ==
    ASSUME TypeInv, LinesInv, NEW start, OpenRun(start)
    PROVE  LinesInv'
<1>1. /\ run' = run + 1 /\ seq' = seq + 1 /\ root' = seq + 1 /\ UNCHANGED <<process, file>>
      /\ run \in Nat /\ seq \in Nat
  BY DEF OpenRun, TypeInv
<1>2. ASSUME NEW l \in Held(file.lines) PROVE KnownLine(l, seq)'
  <2>1. l.run \in Nat /\ l.seq \in Nat
    BY HeldLines DEF TypeInv, LineRecords
  <2>2. l.process <= process /\ l.run <= run /\ (l.process = process => l.seq <= seq)
    BY DEF LinesInv, KnownLine
  <2>3. l.run <= run' /\ l.run # run' /\ (l.process = process => l.seq <= seq' /\ l.seq < root')
    BY <1>1, <2>1, <2>2
  <2> QED
    BY <1>1, <2>2, <2>3 DEF KnownLine
<1> QED
  BY <1>1, <1>2 DEF LinesInv

LEMMA RunRefusedLines ==
    ASSUME TypeInv, LinesInv, NEW disk \in WriteDisks, RunRefused(disk)
    PROVE  LinesInv'
<1> DEFINE line == [Line("run", seq + 1, depth, "none", Unpriced) EXCEPT !.run = run + 1]
<1>1. /\ root = 0 /\ root' = 0 /\ run' = run + 1 /\ seq' = seq + 1 /\ process' = process
      /\ file' = Write(file, line, disk)
  BY DEF RunRefused
<1>2. run \in Nat /\ seq \in Nat /\ process \in Nat /\ depth = 0
  BY <1>1 DEF TypeInv
<1>3. /\ line.kind = "run" /\ line.seq = seq + 1 /\ line.depth = 0
      /\ line.process = process /\ line.run = run + 1
  BY <1>2 DEF Line
<1>4. line \in LineRecords
  <2>1. Line("run", seq + 1, depth, "none", Unpriced) \in LineRecords
    <3>1. seq + 1 \in Nat \ {0} /\ depth \in Nat
      BY <1>2
    <3> QED
      BY <3>1, LineType, UnpricedLine DEF Kinds, Outcomes
  <2>2. run + 1 \in Nat
    BY <1>2
  <2> QED
    BY <2>1, <2>2 DEF LineRecords
<1> HIDE DEF line
<1>5. ASSUME NEW l \in Held(file.lines)
      PROVE  Follows(l, line) /\ l.process <= process /\ l.run <= run + 1
             /\ (l.process = process => l.seq <= seq + 1)
  <2>1. l.run \in Nat /\ l.seq \in Nat /\ l.process \in Nat
    BY HeldLines DEF TypeInv, LineRecords
  <2>2. l.process <= process /\ l.run <= run /\ (l.process = process => l.seq <= seq)
    BY DEF LinesInv, KnownLine
  <2> QED
    BY <1>2, <1>3, <2>1, <2>2 DEF Follows
<1>6. LinesOK(file'.lines) /\ Held(file'.lines) \subseteq Held(file.lines) \cup {line}
  <2>1. LevelOK(line)
    BY <1>3 DEF LevelOK
  <2> QED
    BY <1>1, <1>4, <1>5, <2>1, HeldAfter DEF LinesInv, TypeInv
<1>7. \A l \in Held(file'.lines) : /\ l.process <= process /\ l.run <= run + 1
                                   /\ l.process = process => l.seq <= seq + 1
  BY <1>2, <1>3, <1>5, <1>6
<1> QED
  BY <1>1, <1>6, <1>7 DEF LinesInv, KnownLine, LinesOK, Held, Whole

LEMMA ChildLines ==
    ASSUME TypeInv, LinesInv, root # 0, NEW kind \in {"llm", "tool"}, NEW outcome \in Outcomes,
           NEW cost \in Amounts, NEW disk \in WriteDisks,
           CloseChild(kind, outcome, cost, disk), UNCHANGED <<process, run, root>>
    PROVE  LinesInv'
<1> DEFINE line == Line(kind, seq + 1, depth, outcome, cost)
<1>1. seq' = seq + 1 /\ file' = Write(file, line, disk)
  BY DEF CloseChild
<1>2. /\ line \in LineRecords /\ LevelOK(line) /\ KnownLine(line, seq + 1)
      /\ \A l \in LineRecords : KnownLine(l, seq) => Follows(l, line) /\ KnownLine(l, seq + 1)
  BY ChildFits
<1> HIDE DEF line
<1>3. \A l \in Held(file.lines) : Follows(l, line) /\ KnownLine(l, seq + 1)
  BY <1>2, HeldLines DEF LinesInv, TypeInv
<1>4. LinesOK(file'.lines) /\ Held(file'.lines) \subseteq Held(file.lines) \cup {line}
  BY <1>1, <1>2, <1>3, HeldAfter DEF LinesInv, TypeInv
<1>5. \A l \in Held(file'.lines) : KnownLine(l, seq + 1)
  BY <1>2, <1>3, <1>4
<1> QED
  BY <1>1, <1>4, <1>5 DEF LinesInv, KnownLine, LinesOK, Held, Whole

(* The line of the run is written, after the lines f of its children.        *)
LEMMA RunLines ==
    ASSUME TypeInv, root # 0, NEW f, FileType(f), LinesOK(f.lines), NEW n \in Nat, root <= n,
           \A l \in Held(f.lines) : KnownLine(l, n), NEW outcome \in Outcomes,
           NEW disk \in WriteDisks,
           file' = Write(f, Line("run", root, depth - 1, outcome, Unpriced), disk),
           seq' = n, root' = 0, UNCHANGED <<process, run>>
    PROVE  LinesInv'
<1> DEFINE line == Line("run", root, depth - 1, outcome, Unpriced)
<1>1. line \in LineRecords /\ LevelOK(line)
      /\ \A l \in LineRecords, m \in Nat : KnownLine(l, m) => Follows(l, line)
  BY RunFits
<1>2. line.process = process /\ line.run = run /\ line.seq = root
  BY DEF Line
<1>3. file' = Write(f, line, disk)
  OBVIOUS
<1> HIDE DEF line
<1>4. \A l \in Held(f.lines) : Follows(l, line)
  BY <1>1, HeldLines
<1>5. LinesOK(file'.lines) /\ Held(file'.lines) \subseteq Held(f.lines) \cup {line}
  BY <1>1, <1>3, <1>4, HeldAfter
<1>6. \A l \in Held(file'.lines) : /\ l.process <= process /\ l.run <= run
                                   /\ l.process = process => l.seq <= n
  <2>1. process <= process /\ run <= run
    BY DEF TypeInv
  <2> QED
    BY <1>2, <1>5, <2>1 DEF KnownLine
<1> QED
  BY <1>5, <1>6 DEF LinesInv, KnownLine, LinesOK, Held, Whole

LEMMA RunRaisesLines ==
    ASSUME TypeInv, LinesInv, NEW kind \in {"llm", "tool"}, NEW start \in Starts,
           NEW d \in WriteDisks, NEW e \in WriteDisks, RunRaises(kind, start, <<d, e>>)
    PROVE  LinesInv'
<1> DEFINE line == Line(kind, seq + 1, depth, "none", Unpriced)
           f    == Write(file, line, d)
<1>1. /\ root # 0 /\ root' = 0 /\ seq' = seq + 1 /\ UNCHANGED <<process, run>>
      /\ file' = Write(f, Line("run", root, depth - 1, "none", Unpriced), e)
  BY DEF RunRaises, CloseBoth, Ready, InTools, Running, NoRun
<1>2. /\ line \in LineRecords /\ LevelOK(line) /\ KnownLine(line, seq + 1)
      /\ \A l \in LineRecords : KnownLine(l, seq) => Follows(l, line) /\ KnownLine(l, seq + 1)
  BY <1>1, ChildFits, UnpricedLine DEF Outcomes
<1> HIDE DEF line
<1>3. \A l \in Held(file.lines) : Follows(l, line) /\ KnownLine(l, seq + 1)
  BY <1>2, HeldLines DEF LinesInv, TypeInv
<1>4. FileType(f) /\ LinesOK(f.lines) /\ Held(f.lines) \subseteq Held(file.lines) \cup {line}
  BY <1>2, <1>3, HeldAfter DEF LinesInv, TypeInv
<1> HIDE DEF f
<1>5. \A l \in Held(f.lines) : KnownLine(l, seq + 1)
  BY <1>2, <1>3, <1>4
<1>6. seq + 1 \in Nat /\ root <= seq + 1 /\ "none" \in Outcomes
  BY DEF TypeInv, Outcomes
<1> QED
  BY <1>1, <1>4, <1>5, <1>6, RunLines

LEMMA CloseRunLines ==
    ASSUME TypeInv, LinesInv, NEW disk \in WriteDisks, CloseRun(disk)
    PROVE  LinesInv'
<1>1. /\ root # 0 /\ root' = 0 /\ seq' = seq /\ UNCHANGED <<process, run>>
      /\ file' = Write(file, Line("run", root, depth - 1, loop.stop, Unpriced), disk)
  BY DEF CloseRun, NoRun
<1>2. seq \in Nat /\ root <= seq /\ loop.stop \in Outcomes /\ FileType(file)
  BY DEF TypeInv, Outcomes, LoopRecords
<1> QED
  BY <1>1, <1>2, RunLines DEF LinesInv

LEMMA NewProcessLines ==
    ASSUME TypeInv, LinesInv, NEW ending, NewProcess(ending), run' = run,
           NEW disk \in WriteDisks, file' \in {file, Write(file, Garbage, disk)}
    PROVE  LinesInv'
<1>1. /\ Whole(file'.lines) = Whole(file.lines)
      /\ \A i \in Whole(file.lines) : file'.lines[i] = file.lines[i]
  BY HeldAfterTorn DEF TypeInv
<1>2. LinesOK(file'.lines) /\ Held(file'.lines) \subseteq Held(file.lines)
  BY <1>1 DEF LinesInv, LinesOK, Held
<1>3. process' = process + 1 /\ root' = 0
  BY DEF NewProcess, NoRun
<1>4. ASSUME NEW l \in Held(file.lines)
      PROVE  l.process <= process' /\ l.process # process' /\ l.run <= run
  <2>1. l.process \in Nat /\ process \in Nat /\ l.process <= process /\ l.run <= run
    BY HeldLines DEF TypeInv, LineRecords, LinesInv, KnownLine
  <2> QED
    BY <1>3, <2>1
<1>5. \A l \in Held(file'.lines) : l.process <= process' /\ l.process # process' /\ l.run <= run'
  BY <1>2, <1>4
<1> QED
  BY <1>2, <1>3, <1>5 DEF LinesInv, KnownLine, LinesOK, Held, Whole

LEMMA LinesInvariant == TracingSpec => []LinesInv
<1>1. TracingInit => LinesInv
  BY DEF TracingInit, LinesInv, LinesOK, Held, Whole
<1>2. TypeInv /\ LinesInv /\ [TracingNext]_tracingVars => LinesInv'
  <2> SUFFICES ASSUME TypeInv, LinesInv, [TracingNext]_tracingVars PROVE LinesInv'
    OBVIOUS
  <2>1. ASSUME UNCHANGED tracingVars PROVE LinesInv'
    BY <2>1 DEF tracingVars, loopVars, fileVars, traceVars, LinesInv, LinesOK, Held, Whole, KnownLine
  <2>2. ASSUME NEW n \in 0..MaxCalls, NEW tokens \in Tokens, NEW start \in Starts,
               NEW disk \in WriteDisks, Completion(n, tokens, start, disk)
        PROVE  LinesInv'
    <3>1. root # 0 /\ UNCHANGED <<process, run, root>> /\ "answered" \in Outcomes
          /\ CloseChild("llm", "answered", CostFor(tokens, rates), disk)
      BY <2>2 DEF Completion, Ready, Running, Outcomes
    <3>2. CostFor(tokens, rates) \in Amounts
      BY CostIsAmount, Constants0 DEF TypeInv
    <3> QED
      BY <3>1, <3>2, ChildLines
  <2>3. ASSUME NEW answer \in {"answered", "accepted"}, NEW start \in Starts,
               NEW disk \in WriteDisks, ToolCall(answer, start, disk)
        PROVE  LinesInv'
    <3>1. root # 0 /\ UNCHANGED <<process, run, root>> /\ answer \in Outcomes
          /\ CloseChild("tool", answer, Unpriced, disk)
      BY <2>3 DEF ToolCall, InTools, Running, Outcomes
    <3> QED
      BY <3>1, ChildLines, UnpricedLine
  <2>4. ASSUME NEW kind \in {"llm", "tool"}, NEW start \in Starts, NEW disk \in WriteDisks,
               NEW last \in WriteDisks, RunRaises(kind, start, <<disk, last>>)
        PROVE  LinesInv'
    BY <2>4, RunRaisesLines
  <2>5. ASSUME NEW reached \in BOOLEAN, Exit(reached) PROVE LinesInv'
    BY <2>5, NewProcessLines DEF Exit, WriteDisks
  <2>6. ASSUME NEW disk \in WriteDisks, Kill(disk, {}) \/ Kill(disk, buffer) PROVE LinesInv'
    BY <2>6, NewProcessLines DEF Kill
  <2> QED
    BY <2>1, <2>2, <2>3, <2>4, <2>5, <2>6, OpenRunLines, RunRefusedLines, CloseRunLines
    DEF TracingNext
<1> QED
  BY <1>1, <1>2, TypeInvariant, PTL DEF TracingSpec

(* The nesting of the spans can be read off a file of any number of runs of  *)
(* any number of processes, whatever lines are missing from it.              *)
THEOREM Nesting == TracingSpec => []NestingRebuilds
<1>1. TypeInv /\ LinesInv => NestingRebuilds
  <2> SUFFICES ASSUME TypeInv, LinesInv, NEW i \in WholeLines
               PROVE  LET line == file.lines[i]
                          home == OfRun(line.run, "run") IN
                      IF line.kind = "run" THEN Enclosing(i) = {}
                      ELSE IF home # {} THEN Enclosing(i) # {} /\ Min(Enclosing(i)) \in home
                      ELSE \A j \in Enclosing(i) : file.lines[j].process # line.process
    BY DEF NestingRebuilds
  <2> DEFINE L == file.lines
             home == OfRun(L[i].run, "run")
  <2>1. WholeLines = Whole(L)
    BY DEF WholeLines, Whole
  <2>2. \A j \in Whole(L) : /\ j \in Nat /\ L[j].seq \in Nat /\ L[j].run \in Nat
                            /\ L[j].kind \in Kinds /\ LevelOK(L[j])
    BY HeldLines DEF TypeInv, LineRecords, LinesInv, LinesOK, Held
  <2>3. \A j, k \in Whole(L) : j < k => Follows(L[j], L[k])
    BY DEF LinesInv, LinesOK
  <2>4. \A j \in Enclosing(i) : j \in Whole(L) /\ j > i /\ L[j].depth = L[i].depth - 1
                                /\ L[j].seq < L[i].seq
    BY <2>1 DEF Enclosing
  <2>5. CASE L[i].kind = "run"
    <3>1. \A j \in Enclosing(i) : FALSE
      BY <2>1, <2>2, <2>4, <2>5 DEF LevelOK
    <3> QED
      BY <2>5, <3>1
  <2>6. CASE L[i].kind # "run"
    <3>1. \A j \in Enclosing(i) : L[j].kind = "run"
      BY <2>1, <2>2, <2>4, <2>6 DEF LevelOK
    <3>2. CASE home = {}
      <4>1. ASSUME NEW j \in Enclosing(i) PROVE L[j].process # L[i].process
        <5>1. j \in Whole(L) /\ L[j].run # L[i].run
          BY <2>1, <2>4, <3>1, <3>2 DEF OfRun
        <5>2. Follows(L[i], L[j])
          BY <2>1, <2>2, <2>3, <2>4, <5>1
        <5> QED
          BY <2>1, <2>2, <2>4, <5>1, <5>2 DEF Follows
      <4> QED
        BY <2>6, <3>2, <4>1
    <3>3. CASE home # {}
      <4>1. PICK h \in home : TRUE
        BY <3>3
      <4>2. h \in Whole(L) /\ L[h].run = L[i].run /\ L[h].kind = "run"
        BY <2>1, <4>1 DEF OfRun
      <4>3. i < h
        <5>1. ~(h < i)
          BY <2>1, <2>3, <4>2 DEF Follows
        <5>2. h # i
          BY <2>6, <4>2
        <5> QED
          BY <2>1, <2>2, <4>2, <5>1, <5>2
      <4>4. h \in Enclosing(i)
        <5>1. L[h].seq < L[i].seq
          BY <2>1, <2>3, <4>2, <4>3 DEF Follows
        <5>2. L[h].depth = L[i].depth - 1
          BY <2>1, <2>2, <2>6, <4>2 DEF LevelOK
        <5> QED
          BY <2>1, <2>2, <4>2, <4>3, <5>1, <5>2 DEF Enclosing
      <4>5. ASSUME NEW j \in Enclosing(i) PROVE h <= j
        <5>1. SUFFICES ASSUME j < h PROVE FALSE
          BY <2>2, <2>4, <4>2
        <5>2. Follows(L[i], L[j]) /\ Follows(L[j], L[h])
          BY <2>1, <2>2, <2>3, <2>4, <4>2, <5>1
        <5>3. L[i].run <= L[j].run /\ L[j].run <= L[h].run
          BY <5>2 DEF Follows
        <5>4. L[j].run = L[h].run
          BY <2>1, <2>2, <2>4, <4>2, <5>3
        <5> QED
          BY <3>1, <5>2, <5>4 DEF Follows
      <4>6. Min(Enclosing(i)) = h
        <5>1. \A j \in Enclosing(i) : j \in Nat
          BY <2>2, <2>4
        <5>2. \A x \in Enclosing(i) : (\A j \in Enclosing(i) : x <= j) => x = h
          BY <4>4, <4>5, <5>1
        <5> QED
          BY <4>4, <4>5, <5>2 DEF Min
      <4> QED
        BY <2>6, <3>3, <4>1, <4>4, <4>6
    <3> QED
      BY <2>6, <3>2, <3>3
  <2> QED
    BY <2>5, <2>6
<1> QED
  BY <1>1, TypeInvariant, LinesInvariant, PTL

-----------------------------------------------------------------------------
(* What the file and the dashboard lack of the spans of the process.  D is   *)
(* what they should have, and a torn line owes the loss of the next one.     *)

SeqsOf(ls, p) == {ls[i].seq : i \in {j \in Whole(ls) : ls[j].process = p}}
Owed(f) == IF f.torn THEN 1 ELSE 0
Lost(f, D) == Cardinality(D \ SeqsOf(f.lines, process))

Closed == (1..seq) \ {root}
SeqsIn(B) == {o.seq : o \in B}

FileInv ==
    "jsonl" \in backends => Lost(file, Closed) + Owed(file) <= 2 * writeFaults + Kills
DashboardInv ==
    "langfuse" \in backends =>
        Cardinality(Closed \ SeqsIn(buffer))
          + (IF root # 0 /\ rootTrace = None THEN 1 ELSE 0) <= startFaults

LEMMA ClosedType ==
    ASSUME TypeInv
    PROVE  IsFiniteSet(Closed) /\ IsFiniteSet(1..seq)
<1>1. IsFiniteSet(1..seq)
  BY FS_Interval DEF TypeInv
<1> QED
  BY <1>1, FS_Subset DEF Closed

LEMMA OneMore ==
    ASSUME NEW S, IsFiniteSet(S), NEW x, NEW R, R \subseteq S \cup {x}
    PROVE  IsFiniteSet(R) /\ Cardinality(R) <= Cardinality(S) + 1 /\ Cardinality(S) \in Nat
<1>1. IsFiniteSet(S \cup {x}) /\ Cardinality(S \cup {x}) \in Nat /\ Cardinality(S) \in Nat
  BY FS_AddElement, FS_CardinalityType
<1>2. Cardinality(S \cup {x}) <= Cardinality(S) + 1
  BY <1>1, FS_AddElement
<1>3. IsFiniteSet(R) /\ Cardinality(R) <= Cardinality(S \cup {x}) /\ Cardinality(R) \in Nat
  BY <1>1, FS_Subset, FS_CardinalityType
<1> QED
  BY <1>1, <1>2, <1>3

LEMMA Fewer ==
    ASSUME NEW S, IsFiniteSet(S), NEW R, R \subseteq S
    PROVE  IsFiniteSet(R) /\ Cardinality(R) <= Cardinality(S) /\ Cardinality(S) \in Nat
           /\ Cardinality(R) \in Nat
BY FS_Subset, FS_CardinalityType

LEMMA SeqsAppended ==
    ASSUME NEW f, FileType(f), NEW line \in LineRecords \cup {Garbage}, NEW p
    PROVE  LET ls == Append(f.lines, line) IN
           SeqsOf(ls, p) = IF line # Garbage /\ line.process = p
                           THEN SeqsOf(f.lines, p) \cup {line.seq} ELSE SeqsOf(f.lines, p)
<1> DEFINE ls == Append(f.lines, line)
           n  == Len(f.lines) + 1
<1>1. /\ Whole(ls) = IF line = Garbage THEN Whole(f.lines) ELSE Whole(f.lines) \cup {n}
      /\ \A i \in Whole(f.lines) : ls[i] = f.lines[i]
      /\ ls[n] = line
  BY WholeAppended
<1> HIDE DEF ls, n
<1>2. CASE line = Garbage
  BY <1>1, <1>2 DEF SeqsOf, ls
<1>3. CASE line # Garbage /\ line.process = p
  <2>1. {j \in Whole(ls) : ls[j].process = p}
          = {j \in Whole(f.lines) : f.lines[j].process = p} \cup {n}
    BY <1>1, <1>3
  <2>2. SeqsOf(ls, p) = SeqsOf(f.lines, p) \cup {line.seq}
    BY <1>1, <2>1 DEF SeqsOf
  <2> QED
    BY <1>3, <2>2 DEF ls
<1>4. CASE line # Garbage /\ line.process # p
  <2>1. {j \in Whole(ls) : ls[j].process = p} = {j \in Whole(f.lines) : f.lines[j].process = p}
    BY <1>1, <1>4
  <2>2. SeqsOf(ls, p) = SeqsOf(f.lines, p)
    BY <1>1, <2>1 DEF SeqsOf
  <2> QED
    BY <1>4, <2>2 DEF ls
<1> QED
  BY <1>2, <1>3, <1>4

(* A write loses a line of the two at most that a fault may cost.            *)
LEMMA WriteLoses ==
    ASSUME "jsonl" \in backends, NEW f, FileType(f), NEW line \in LineRecords,
           line.process = process, NEW disk \in WriteDisks, NEW D, IsFiniteSet(D)
    PROVE  LET g == Write(f, line, disk) IN
           /\ Lost(f, D) \in Nat /\ Lost(g, D \cup {line.seq}) \in Nat
           /\ Lost(g, D \cup {line.seq}) + Owed(g) <= Lost(f, D) + Owed(f) + 2 * Fault(disk)
<1> DEFINE g  == Write(f, line, disk)
           M  == D \ SeqsOf(f.lines, process)
           Mg == (D \cup {line.seq}) \ SeqsOf(g.lines, process)
<1>1. line # Garbage
  BY DEF LineRecords, Kinds, Garbage
<1>2. IsFiniteSet(M) /\ Cardinality(M) \in Nat
  BY FS_Subset, FS_CardinalityType
<1>3. /\ SeqsOf(Append(f.lines, line), process) = SeqsOf(f.lines, process) \cup {line.seq}
      /\ SeqsOf(Append(f.lines, Garbage), process) = SeqsOf(f.lines, process)
  BY <1>1, SeqsAppended
<1>4. CASE disk = "fine" /\ ~f.torn
  <2>1. g.lines = Append(f.lines, line) /\ ~g.torn
    BY <1>4 DEF Write
  <2>2. Mg \subseteq M
    BY <1>3, <2>1
  <2>3. Cardinality(Mg) <= Cardinality(M) /\ Cardinality(Mg) \in Nat
    BY <1>2, <2>2, Fewer
  <2>4. Owed(g) = 0 /\ Owed(f) = 0 /\ Fault(disk) = 0
    BY <1>4, <2>1 DEF Owed, Fault
  <2> HIDE DEF g, M, Mg
  <2>5. Cardinality(Mg) + Owed(g) <= Cardinality(M) + Owed(f) + 2 * Fault(disk)
    BY <1>2, <2>3, <2>4
  <2> QED
    BY <1>2, <2>3, <2>5 DEF Lost, g, M, Mg
<1>5. CASE disk = "fine" /\ f.torn
  <2>1. g.lines = f.lines /\ ~g.torn
    BY <1>5 DEF Write
  <2>2. Mg \subseteq M \cup {line.seq}
    BY <2>1
  <2>3. Cardinality(Mg) <= Cardinality(M) + 1 /\ Cardinality(Mg) \in Nat
    BY <1>2, <2>2, OneMore, FS_CardinalityType
  <2>4. Owed(g) = 0 /\ Owed(f) = 1 /\ Fault(disk) = 0
    BY <1>5, <2>1 DEF Owed, Fault
  <2> HIDE DEF g, M, Mg
  <2>5. Cardinality(Mg) + Owed(g) <= Cardinality(M) + Owed(f) + 2 * Fault(disk)
    BY <1>2, <2>3, <2>4
  <2> QED
    BY <1>2, <2>3, <2>5 DEF Lost, g, M, Mg
<1>6. CASE disk # "fine"
  <2>1. SeqsOf(g.lines, process) = SeqsOf(f.lines, process)
    <3>1. g.lines \in {f.lines, Append(f.lines, Garbage)}
      BY <1>6 DEF Write, WriteDisks
    <3> QED
      BY <1>3, <3>1
  <2>2. Mg \subseteq M \cup {line.seq}
    BY <2>1
  <2>3. Cardinality(Mg) <= Cardinality(M) + 1 /\ Cardinality(Mg) \in Nat
    BY <1>2, <2>2, OneMore, FS_CardinalityType
  <2>4. Owed(g) \in {0, 1} /\ Owed(f) \in {0, 1} /\ (Owed(g) = 1 \/ Owed(g) = Owed(f))
        /\ Fault(disk) = 1
    <3>1. g = f \/ g.torn
      BY <1>6 DEF Write, WriteDisks
    <3> QED
      BY <1>6, <3>1 DEF Owed, Fault
  <2> HIDE DEF g, M, Mg
  <2>5. Cardinality(Mg) + Owed(g) <= Cardinality(M) + Owed(f) + 2 * Fault(disk)
    BY <1>2, <2>3, <2>4
  <2> QED
    BY <1>2, <2>3, <2>5 DEF Lost, g, M, Mg
<1> QED
  BY <1>4, <1>5, <1>6 DEF WriteDisks

(* The lines of earlier processes are there to stay.                         *)
LEMMA OthersStay ==
    ASSUME NEW f, FileType(f), NEW line \in LineRecords \cup {Garbage}, NEW disk \in WriteDisks,
           NEW p, line = Garbage \/ line.process # p
    PROVE  SeqsOf(Write(f, line, disk).lines, p) = SeqsOf(f.lines, p)
<1>1. SeqsOf(Append(f.lines, line), p) = SeqsOf(f.lines, p)
  BY SeqsAppended
<1>2. SeqsOf(Append(f.lines, Garbage), p) = SeqsOf(f.lines, p)
  BY SeqsAppended
<1>3. Write(f, line, disk).lines \in {f.lines, Append(f.lines, Garbage), Append(f.lines, line)}
  BY WrittenLines
<1> QED
  BY <1>1, <1>2, <1>3

LEMMA KillsCounted ==
    ASSUME TypeInv
    PROVE  /\ Kills \in Nat
           /\ \A ending \in Endings :
                  endings' = Append(endings, ending) =>
                      Kills' = IF ending = "killed" THEN Kills + 1 ELSE Kills
<1> DEFINE K == {p \in DOMAIN endings : endings[p] = "killed"}
           n == Len(endings)
<1>1. n \in Nat /\ DOMAIN endings = 1..n
  BY DEF TypeInv
<1>2. IsFiniteSet(K) /\ Kills = Cardinality(K) /\ Kills \in Nat /\ n + 1 \notin K
  <2>1. IsFiniteSet(1..n)
    BY <1>1, FS_Interval
  <2>2. IsFiniteSet(K)
    BY <1>1, <2>1, FS_Subset
  <2>3. n + 1 \notin 1..n
    BY <1>1
  <2> QED
    BY <1>1, <2>2, <2>3, FS_CardinalityType DEF Kills
<1>3. ASSUME NEW ending \in Endings, endings' = Append(endings, ending)
      PROVE  Kills' = IF ending = "killed" THEN Kills + 1 ELSE Kills
  <2>1. /\ DOMAIN endings' = 1..(n + 1) /\ endings'[n + 1] = ending
        /\ \A p \in 1..n : endings'[p] = endings[p]
    BY <1>1, <1>3 DEF TypeInv
  <2>2. \A p : p \in 1..(n + 1) <=> p \in 1..n \/ p = n + 1
    BY <1>1
  <2>3. Kills' = Cardinality({p \in DOMAIN endings' : endings'[p] = "killed"})
    BY DEF Kills
  <2>4. CASE ending = "killed"
    <3>1. {p \in DOMAIN endings' : endings'[p] = "killed"} = K \cup {n + 1}
      BY <1>1, <2>1, <2>2, <2>4
    <3>2. Cardinality(K \cup {n + 1}) = Cardinality(K) + 1
      BY <1>2, FS_AddElement
    <3> QED
      BY <1>2, <2>3, <2>4, <3>1, <3>2
  <2>5. CASE ending # "killed"
    <3>1. {p \in DOMAIN endings' : endings'[p] = "killed"} = K
      BY <1>1, <2>1, <2>2, <2>5
    <3> QED
      BY <1>2, <2>3, <2>5, <3>1
  <2> QED
    BY <2>4, <2>5
<1> QED
  BY <1>2, <1>3

(* The steps of FileInv: one span is written, a child and its run are, and   *)
(* the process ends.                                                         *)
LEMMA OneWritten ==
    ASSUME TypeInv, FileInv, NEW line \in LineRecords, line.process = process,
           NEW disk \in WriteDisks, file' = Write(file, line, disk),
           Closed' = Closed \cup {line.seq}, DisksPossible(<<disk>>),
           UNCHANGED <<backends, process, endings>>
    PROVE  FileInv'
<1> SUFFICES ASSUME "jsonl" \in backends
             PROVE  Lost(file, Closed)' + Owed(file)' <= 2 * writeFaults' + Kills'
  BY DEF FileInv
<1>1. writeFaults' = writeFaults + Fault(disk) /\ writeFaults \in Nat /\ Fault(disk) \in {0, 1}
  BY OneDisk, FaultType DEF DisksPossible, TypeInv
<1> DEFINE g == Write(file, line, disk)
<1>2. /\ Lost(file, Closed) \in Nat /\ Lost(g, Closed \cup {line.seq}) \in Nat
      /\ Lost(g, Closed \cup {line.seq}) + Owed(g) <= Lost(file, Closed) + Owed(file) + 2 * Fault(disk)
  BY ClosedType, WriteLoses DEF TypeInv
<1>3. Lost(file, Closed)' = Lost(g, Closed \cup {line.seq}) /\ Owed(file)' = Owed(g)
  BY DEF Lost, Owed
<1>4. Kills' = Kills /\ Kills \in Nat
  BY KillsCounted DEF Kills
<1>5. Lost(file, Closed) + Owed(file) <= 2 * writeFaults + Kills
  BY DEF FileInv
<1>6. Owed(g) \in {0, 1} /\ Owed(file) \in {0, 1}
  BY DEF Owed
<1> HIDE DEF g
<1> QED
  BY <1>1, <1>2, <1>3, <1>4, <1>5, <1>6

LEMMA TwoWritten ==
    ASSUME TypeInv, FileInv, NEW line \in LineRecords, line.process = process,
           NEW last \in LineRecords, last.process = process,
           NEW d \in WriteDisks, NEW e \in WriteDisks,
           file' = Write(Write(file, line, d), last, e),
           Closed' = (Closed \cup {line.seq}) \cup {last.seq}, DisksPossible(<<d, e>>),
           UNCHANGED <<backends, process, endings>>
    PROVE  FileInv'
<1> SUFFICES ASSUME "jsonl" \in backends
             PROVE  Lost(file, Closed)' + Owed(file)' <= 2 * writeFaults' + Kills'
  BY DEF FileInv
<1>1. /\ writeFaults' = writeFaults + (Fault(d) + Fault(e)) /\ writeFaults \in Nat
      /\ Fault(d) \in {0, 1} /\ Fault(e) \in {0, 1}
  BY TwoDisks, FaultType DEF DisksPossible, TypeInv
<1> DEFINE f == Write(file, line, d)
           g == Write(f, last, e)
           D == Closed \cup {line.seq}
<1>2. /\ Lost(file, Closed) \in Nat /\ Lost(f, D) \in Nat
      /\ Lost(f, D) + Owed(f) <= Lost(file, Closed) + Owed(file) + 2 * Fault(d)
  BY ClosedType, WriteLoses DEF TypeInv
<1>3. FileType(f) /\ IsFiniteSet(D)
  <2>1. FileType(f)
    BY WriteType DEF TypeInv
  <2>2. IsFiniteSet(D)
    BY ClosedType, FS_AddElement
  <2> QED
    BY <2>1, <2>2
<1>4. file' = g /\ Closed' = D \cup {last.seq}
  OBVIOUS
<1>5. Owed(f) \in {0, 1} /\ Owed(file) \in {0, 1} /\ Owed(g) \in {0, 1}
  BY DEF Owed
<1> HIDE DEF f, D
<1>6. /\ Lost(g, D \cup {last.seq}) \in Nat
      /\ Lost(g, D \cup {last.seq}) + Owed(g) <= Lost(f, D) + Owed(f) + 2 * Fault(e)
  BY <1>3, WriteLoses
<1> HIDE DEF g
<1>7. Lost(file, Closed)' = Lost(g, D \cup {last.seq}) /\ Owed(file)' = Owed(g)
  BY <1>4 DEF Lost, Owed
<1>8. Kills' = Kills /\ Kills \in Nat
  BY KillsCounted DEF Kills
<1>9. Lost(file, Closed) + Owed(file) <= 2 * writeFaults + Kills
  BY DEF FileInv
<1> QED
  BY <1>1, <1>2, <1>5, <1>6, <1>7, <1>8, <1>9

LEMMA ClosedSteps ==
    ASSUME TypeInv
    PROVE  /\ root = 0 /\ seq' = seq + 1 /\ root' = seq + 1 => Closed' = Closed
           /\ seq' = seq + 1 /\ root' = root => Closed' = Closed \cup {seq + 1}
           /\ root # 0 /\ seq' = seq /\ root' = 0 => Closed' = Closed \cup {root}
           /\ root # 0 /\ seq' = seq + 1 /\ root' = 0 =>
                  Closed' = (Closed \cup {seq + 1}) \cup {root}
           /\ seq' = 0 => Closed' = {}
<1>1. seq \in Nat /\ root \in 0..seq
  BY DEF TypeInv
<1>2. \A i : i \in 1..(seq + 1) <=> i \in 1..seq \/ i = seq + 1
  BY <1>1
<1>3. seq + 1 \notin 1..seq /\ seq + 1 # 0 /\ 0 \notin 1..seq /\ 0 \notin 1..(seq + 1)
      /\ root # seq + 1 /\ (root # 0 => root \in 1..seq)
  BY <1>1
<1>4. 1..0 = {}
  OBVIOUS
<1>5. Closed' = (1..seq') \ {root'}
  BY DEF Closed
<1>6. seq' = seq + 1 => \A i : i \in 1..seq' <=> i \in 1..seq \/ i = seq + 1
  BY <1>2
<1> QED
  BY ONLY <1>3, <1>4, <1>5, <1>6 DEF Closed

LEMMA NewProcessFile ==
    ASSUME TypeInv, FileInv, NEW ending \in Endings, NewProcess(ending),
           ending = "killed" \/ file' = file, UNCHANGED <<backends, writeFaults>>
    PROVE  FileInv'
<1> SUFFICES ASSUME "jsonl" \in backends
             PROVE  Lost(file, Closed)' + Owed(file)' <= 2 * writeFaults' + Kills'
  BY DEF FileInv
<1>1. Lost(file, Closed)' = 0
  <2>1. Closed' = {}
    BY ClosedSteps DEF NewProcess
  <2> QED
    BY <2>1, FS_EmptySet DEF Lost
<1>2. Kills \in Nat /\ Kills' = IF ending = "killed" THEN Kills + 1 ELSE Kills
  BY KillsCounted DEF NewProcess
<1>3. Owed(file)' \in {0, 1} /\ (file' = file => Owed(file)' = Owed(file)) /\ Owed(file) \in {0, 1}
  BY DEF Owed
<1>4. Lost(file, Closed) \in Nat
  BY ClosedType, FS_Subset, FS_CardinalityType DEF Lost
<1>5. Lost(file, Closed) + Owed(file) <= 2 * writeFaults + Kills /\ writeFaults \in Nat
  BY DEF FileInv, TypeInv
<1> QED
  BY <1>1, <1>2, <1>3, <1>4, <1>5

LEMMA ChildLine ==
    ASSUME TypeInv, NEW kind \in {"llm", "tool"}, NEW outcome \in Outcomes, NEW cost \in Amounts
    PROVE  LET line == Line(kind, seq + 1, depth, outcome, cost) IN
           line \in LineRecords /\ line.process = process /\ line.seq = seq + 1
<1>1. seq + 1 \in Nat \ {0} /\ depth \in Nat
  BY DEF TypeInv
<1>2. Line(kind, seq + 1, depth, outcome, cost) \in LineRecords
  BY <1>1, LineType DEF Kinds
<1> QED
  BY <1>2 DEF Line

LEMMA RunLine ==
    ASSUME TypeInv, root # 0, NEW outcome \in Outcomes
    PROVE  LET line == Line("run", root, depth - 1, outcome, Unpriced) IN
           line \in LineRecords /\ line.process = process /\ line.seq = root
<1>1. root \in Nat \ {0} /\ depth - 1 \in Nat
  BY DEF TypeInv
<1>2. Line("run", root, depth - 1, outcome, Unpriced) \in LineRecords
  BY <1>1, LineType, UnpricedLine DEF Kinds
<1> QED
  BY <1>2 DEF Line

LEMMA FileInvariant == TracingSpec => []FileInv
<1>1. TracingInit => FileInv
  <2> SUFFICES ASSUME TracingInit PROVE FileInv
    OBVIOUS
  <2>1. Closed = {} /\ Lost(file, Closed) = 0 /\ Owed(file) = 0
    BY FS_EmptySet DEF TracingInit, Closed, Lost, Owed
  <2>2. Kills = 0
    <3>1. {p \in DOMAIN endings : endings[p] = "killed"} = {}
      BY DEF TracingInit
    <3> QED
      BY <3>1, FS_EmptySet DEF Kills
  <2> QED
    BY <2>1, <2>2 DEF FileInv, TracingInit
<1>2. TypeInv /\ FileInv /\ [TracingNext]_tracingVars => FileInv'
  <2> SUFFICES ASSUME TypeInv, FileInv, [TracingNext]_tracingVars PROVE FileInv'
    OBVIOUS
  <2>1. ASSUME UNCHANGED tracingVars PROVE FileInv'
    <3>1. UNCHANGED <<backends, process, endings, root, seq, file, writeFaults>>
      BY <2>1 DEF tracingVars, loopVars, fileVars
    <3> QED
      BY <3>1 DEF FileInv, Lost, Owed, Closed, Kills
  <2>2. ASSUME NEW n \in 0..MaxCalls, NEW tokens \in Tokens, NEW start \in Starts,
               NEW disk \in WriteDisks, Completion(n, tokens, start, disk)
        PROVE  FileInv'
    <3> DEFINE line == Line("llm", seq + 1, depth, "answered", CostFor(tokens, rates))
    <3>1. /\ file' = Write(file, line, disk) /\ DisksPossible(<<disk>>)
          /\ seq' = seq + 1 /\ UNCHANGED <<backends, process, endings, root>>
      BY <2>2 DEF Completion, CloseChild
    <3>2. CostFor(tokens, rates) \in Amounts /\ "answered" \in Outcomes
      BY CostIsAmount, Constants0 DEF TypeInv, Outcomes
    <3>3. line \in LineRecords /\ line.process = process /\ line.seq = seq + 1
      BY <3>2, ChildLine
    <3> HIDE DEF line
    <3>4. Closed' = Closed \cup {line.seq}
      BY <3>1, <3>3, ClosedSteps
    <3> QED
      BY <3>1, <3>3, <3>4, OneWritten
  <2>3. ASSUME NEW answer \in {"answered", "accepted"}, NEW start \in Starts,
               NEW disk \in WriteDisks, ToolCall(answer, start, disk)
        PROVE  FileInv'
    <3> DEFINE line == Line("tool", seq + 1, depth, answer, Unpriced)
    <3>1. /\ file' = Write(file, line, disk) /\ DisksPossible(<<disk>>)
          /\ seq' = seq + 1 /\ UNCHANGED <<backends, process, endings, root>>
      BY <2>3 DEF ToolCall, CloseChild
    <3>2. Unpriced \in Amounts /\ answer \in Outcomes
      BY UnpricedLine DEF Outcomes
    <3>3. line \in LineRecords /\ line.process = process /\ line.seq = seq + 1
      BY <3>2, ChildLine
    <3> HIDE DEF line
    <3>4. Closed' = Closed \cup {line.seq}
      BY <3>1, <3>3, ClosedSteps
    <3> QED
      BY <3>1, <3>3, <3>4, OneWritten
  <2>4. ASSUME NEW kind \in {"llm", "tool"}, NEW start \in Starts, NEW disk \in WriteDisks,
               NEW last \in WriteDisks, RunRaises(kind, start, <<disk, last>>)
        PROVE  FileInv'
    <3> DEFINE line == Line(kind, seq + 1, depth, "none", Unpriced)
               end  == Line("run", root, depth - 1, "none", Unpriced)
    <3>1. /\ file' = Write(Write(file, line, disk), end, last) /\ DisksPossible(<<disk, last>>)
          /\ seq' = seq + 1 /\ root # 0 /\ root' = 0 /\ UNCHANGED <<backends, process, endings>>
      BY <2>4 DEF RunRaises, CloseBoth, Ready, InTools, Running, NoRun
    <3>2. Unpriced \in Amounts /\ "none" \in Outcomes
      BY UnpricedLine DEF Outcomes
    <3>3. line \in LineRecords /\ line.process = process /\ line.seq = seq + 1
      BY <3>2, ChildLine
    <3>4. end \in LineRecords /\ end.process = process /\ end.seq = root
      BY <3>1, <3>2, RunLine
    <3> HIDE DEF line, end
    <3>5. Closed' = (Closed \cup {line.seq}) \cup {end.seq}
      BY <3>1, <3>3, <3>4, ClosedSteps
    <3> QED
      BY <3>1, <3>3, <3>4, <3>5, TwoWritten
  <2>5. ASSUME NEW disk \in WriteDisks, CloseRun(disk) PROVE FileInv'
    <3> DEFINE line == Line("run", root, depth - 1, loop.stop, Unpriced)
    <3>1. /\ file' = Write(file, line, disk) /\ DisksPossible(<<disk>>)
          /\ seq' = seq /\ root # 0 /\ root' = 0 /\ UNCHANGED <<backends, process, endings>>
      BY <2>5 DEF CloseRun, NoRun
    <3>2. loop.stop \in Outcomes
      BY DEF TypeInv, LoopRecords, Outcomes
    <3>3. line \in LineRecords /\ line.process = process /\ line.seq = root
      BY <3>1, <3>2, RunLine
    <3> HIDE DEF line
    <3>4. Closed' = Closed \cup {line.seq}
      BY <3>1, <3>3, ClosedSteps
    <3> QED
      BY <3>1, <3>3, <3>4, OneWritten
  <2>6. ASSUME NEW disk \in WriteDisks, RunRefused(disk) PROVE FileInv'
    <3> DEFINE child == Line("run", seq + 1, depth, "none", Unpriced)
               line  == [child EXCEPT !.run = run + 1]
    <3>1. /\ file' = Write(file, line, disk) /\ DisksPossible(<<disk>>)
          /\ seq' = seq + 1 /\ UNCHANGED <<backends, process, endings, root>>
      BY <2>6 DEF RunRefused
    <3>2. line \in LineRecords /\ line.process = process /\ line.seq = seq + 1
      <4>1. seq + 1 \in Nat \ {0} /\ depth \in Nat /\ run + 1 \in Nat
        BY DEF TypeInv
      <4>2. child \in LineRecords
        BY <4>1, LineType, UnpricedLine DEF Kinds, Outcomes
      <4>3. child.process = process /\ child.seq = seq + 1
        BY DEF Line
      <4> HIDE DEF child
      <4> QED
        BY <4>1, <4>2, <4>3 DEF LineRecords
    <3> HIDE DEF line
    <3>3. Closed' = Closed \cup {line.seq}
      BY <3>1, <3>2, ClosedSteps
    <3> QED
      BY <3>1, <3>2, <3>3, OneWritten
  <2>7. ASSUME NEW start \in Starts, OpenRun(start) PROVE FileInv'
    <3>1. /\ root = 0 /\ seq' = seq + 1 /\ root' = seq + 1
          /\ UNCHANGED <<backends, process, endings, file, writeFaults>>
      BY <2>7 DEF OpenRun
    <3>2. Closed' = Closed
      BY <3>1, ClosedSteps
    <3> QED
      BY <3>1, <3>2 DEF FileInv, Lost, Owed, Kills
  <2>8. ASSUME NEW reached \in BOOLEAN, Exit(reached) PROVE FileInv'
    BY <2>8, NewProcessFile DEF Exit, Endings
  <2>9. ASSUME NEW disk \in WriteDisks, Kill(disk, {}) \/ Kill(disk, buffer) PROVE FileInv'
    BY <2>9, NewProcessFile DEF Kill, Endings
  <2> QED
    BY <2>1, <2>2, <2>3, <2>4, <2>5, <2>6, <2>7, <2>8, <2>9 DEF TracingNext
<1> QED
  BY <1>1, <1>2, TypeInvariant, PTL DEF TracingSpec

(* Of the spans that closed, the file lacks two at most for every write the  *)
(* disk refused, and one for every process killed while it wrote.            *)
THEOREM NothingClosedIsLost == TracingSpec => []NothingCompletedIsLost
<1>1. TypeInv /\ FileInv => NothingCompletedIsLost
  <2> SUFFICES ASSUME TypeInv, FileInv, "jsonl" \in backends
               PROVE  Cardinality(((1..seq) \ {root}) \ InFile(process)) <= 2 * writeFaults + Kills
    BY DEF NothingCompletedIsLost
  <2>1. InFile(process) = SeqsOf(file.lines, process)
    BY DEF InFile, SeqsOf, WholeLines, Whole
  <2>2. Lost(file, Closed) \in Nat
    BY ClosedType, FS_Subset, FS_CardinalityType DEF Lost
  <2>3. Owed(file) \in {0, 1} /\ Kills \in Nat /\ writeFaults \in Nat
    BY KillsCounted DEF Owed, TypeInv
  <2>4. Lost(file, Closed) <= 2 * writeFaults + Kills
    BY <2>2, <2>3 DEF FileInv
  <2> QED
    BY <2>1, <2>4 DEF Lost, Closed
<1> QED
  BY <1>1, TypeInvariant, FileInvariant, PTL

(* The steps of DashboardInv: a span starts or is refused, and the process   *)
(* ends.                                                                     *)
LEMMA StartsCounted ==
    ASSUME TypeInv, "langfuse" \in backends, NEW start \in Starts, StartPossible(start)
    PROVE  /\ startFaults \in Nat
           /\ startFaults' = startFaults + (IF Observed(start) THEN 0 ELSE 1)
BY DEF TypeInv, StartPossible, Observed, Starts

LEMMA SeqsOfChild ==
    ASSUME NEW kind, NEW start
    PROVE  SeqsIn(ChildObservation(kind, start)) = IF Observed(start) THEN {seq + 1} ELSE {}
<1>1. Observation(kind, seq + 1, TraceOfChild(seq + 1)).seq = seq + 1
  BY DEF Observation
<1> QED
  BY <1>1 DEF SeqsIn, ChildObservation

LEMMA SeqsOfRoot == SeqsIn(RootObservation) = IF rootTrace # None THEN {root} ELSE {}
<1>1. Observation("run", root, rootTrace).seq = root
  BY DEF Observation
<1> QED
  BY <1>1 DEF SeqsIn, RootObservation

LEMMA SeqsTogether == \A A, B : SeqsIn(A \cup B) = SeqsIn(A) \cup SeqsIn(B)
BY DEF SeqsIn

(* What is owed of the open run. *)
Unobserved == IF root # 0 /\ rootTrace = None THEN 1 ELSE 0
Unseen(D, S) == Cardinality(D \ S)

LEMMA UnseenType ==
    ASSUME NEW D, IsFiniteSet(D), NEW S, NEW x
    PROVE  /\ Unseen(D, S) \in Nat
           /\ Unseen(D \cup {x}, S) \in Nat /\ Unseen(D \cup {x}, S \cup {x}) \in Nat
           /\ Unseen(D \cup {x}, S) <= Unseen(D, S) + 1
           /\ Unseen(D \cup {x}, S \cup {x}) <= Unseen(D, S)
<1>1. IsFiniteSet(D \ S) /\ IsFiniteSet(D \cup {x})
  BY FS_Subset, FS_AddElement
<1>2. (D \cup {x}) \ S \subseteq (D \ S) \cup {x} /\ (D \cup {x}) \ (S \cup {x}) \subseteq D \ S
  OBVIOUS
<1>3. /\ Cardinality((D \cup {x}) \ S) <= Cardinality(D \ S) + 1
      /\ IsFiniteSet((D \cup {x}) \ S)
  BY <1>1, <1>2, OneMore
<1>4. /\ Cardinality((D \cup {x}) \ (S \cup {x})) <= Cardinality(D \ S)
      /\ IsFiniteSet((D \cup {x}) \ (S \cup {x}))
  BY <1>1, <1>2, Fewer
<1> QED
  BY <1>1, <1>3, <1>4, FS_CardinalityType DEF Unseen

LEMMA ChildDashboard ==
    ASSUME TypeInv, DashboardInv, NEW kind, NEW start \in Starts, StartPossible(start),
           buffer' = buffer \cup ChildObservation(kind, start),
           seq' = seq + 1, UNCHANGED <<backends, root, rootTrace>>
    PROVE  DashboardInv'
<1> SUFFICES ASSUME "langfuse" \in backends
             PROVE  Unseen(Closed, SeqsIn(buffer))' + Unobserved' <= startFaults'
  BY DEF DashboardInv, Unseen, Unobserved
<1>1. Closed' = Closed \cup {seq + 1} /\ IsFiniteSet(Closed)
  BY ClosedSteps, ClosedType
<1>2. SeqsIn(buffer') = SeqsIn(buffer) \cup (IF Observed(start) THEN {seq + 1} ELSE {})
  BY SeqsTogether, SeqsOfChild
<1>3. Unobserved' = Unobserved /\ Unobserved \in {0, 1}
  BY DEF Unobserved
<1>4. Unseen(Closed, SeqsIn(buffer)) + Unobserved <= startFaults
  BY DEF DashboardInv, Unseen, Unobserved
<1>5. startFaults \in Nat /\ startFaults' = startFaults + (IF Observed(start) THEN 0 ELSE 1)
  BY StartsCounted
<1> DEFINE u  == Unseen(Closed, SeqsIn(buffer))
           v  == Unseen(Closed \cup {seq + 1}, SeqsIn(buffer'))
<1>6. u \in Nat /\ v \in Nat /\ v <= u + (IF Observed(start) THEN 0 ELSE 1)
  <2>1. CASE Observed(start)
    <3>1. SeqsIn(buffer') = SeqsIn(buffer) \cup {seq + 1}
      BY <1>2, <2>1
    <3>2. u \in Nat /\ v \in Nat /\ v <= u
      BY <1>1, <3>1, UnseenType
    <3> QED
      BY <2>1, <3>2
  <2>2. CASE ~Observed(start)
    <3>1. SeqsIn(buffer') = SeqsIn(buffer)
      BY <1>2, <2>2
    <3>2. u \in Nat /\ v \in Nat /\ v <= u + 1
      BY <1>1, <3>1, UnseenType
    <3> QED
      BY <2>2, <3>2
  <2> QED
    BY <2>1, <2>2
<1>7. Unseen(Closed, SeqsIn(buffer))' = v
  BY <1>1 DEF Unseen, SeqsIn
<1>8. u + Unobserved <= startFaults
  BY <1>4
<1> HIDE DEF u, v
<1> QED
  BY <1>3, <1>5, <1>6, <1>7, <1>8

(* The run's span ends, n spans in all having been opened, D of them closed  *)
(* and B of them observed.                                                   *)
LEMMA RootDashboard ==
    ASSUME TypeInv, root # 0, NEW D, IsFiniteSet(D), NEW B, NEW faults \in Nat,
           Unseen(D, SeqsIn(B)) + Unobserved <= faults,
           buffer' = B \cup RootObservation, Closed' = D \cup {root}, root' = 0,
           startFaults' = faults
    PROVE  DashboardInv'
<1>1. Unobserved' = 0 /\ Unobserved = IF rootTrace = None THEN 1 ELSE 0
  BY DEF Unobserved
<1>2. SeqsIn(buffer') = SeqsIn(B) \cup (IF rootTrace # None THEN {root} ELSE {})
  BY SeqsTogether, SeqsOfRoot
<1> DEFINE u == Unseen(D, SeqsIn(B))
           v == Unseen(D \cup {root}, SeqsIn(buffer'))
<1>3. u \in Nat /\ v \in Nat /\ v <= u + Unobserved
  <2>1. CASE rootTrace # None
    <3>1. SeqsIn(buffer') = SeqsIn(B) \cup {root}
      BY <1>2, <2>1
    <3>2. u \in Nat /\ v \in Nat /\ v <= u
      BY <3>1, UnseenType
    <3> QED
      BY <1>1, <2>1, <3>2
  <2>2. CASE rootTrace = None
    <3>1. SeqsIn(buffer') = SeqsIn(B)
      BY <1>2, <2>2
    <3>2. u \in Nat /\ v \in Nat /\ v <= u + 1
      BY <3>1, UnseenType
    <3> QED
      BY <1>1, <2>2, <3>2
  <2> QED
    BY <2>1, <2>2
<1>4. Unseen(Closed, SeqsIn(buffer))' = v
  BY DEF Unseen, SeqsIn
<1>5. u + Unobserved <= faults /\ Unobserved \in {0, 1}
  BY DEF Unobserved
<1>6. Unseen(Closed, SeqsIn(buffer))' + Unobserved' <= startFaults'
  <2> HIDE DEF u, v
  <2> QED
    BY <1>1, <1>3, <1>4, <1>5
<1> QED
  BY <1>6 DEF DashboardInv, Unseen, Unobserved

LEMMA RunRaisesDashboard ==
    ASSUME TypeInv, DashboardInv, NEW kind \in {"llm", "tool"}, NEW start \in Starts,
           NEW disks, RunRaises(kind, start, disks)
    PROVE  DashboardInv'
<1> DEFINE D == Closed \cup {seq + 1}
           B == buffer \cup ChildObservation(kind, start)
           u == Unseen(Closed, SeqsIn(buffer))
           v == Unseen(D, SeqsIn(B))
<1>1. /\ root # 0 /\ seq' = seq + 1 /\ root' = 0 /\ StartPossible(start)
      /\ backends' = backends /\ buffer' = B \cup RootObservation
  BY DEF RunRaises, CloseBoth, NoRun, Ready, InTools, Running
<1>2. Closed' = D \cup {root} /\ IsFiniteSet(D) /\ IsFiniteSet(Closed)
  BY <1>1, ClosedSteps, ClosedType, FS_AddElement
<1>3. CASE "langfuse" \notin backends
  BY <1>1, <1>3 DEF DashboardInv
<1>4. CASE "langfuse" \in backends
  <2>1. startFaults \in Nat /\ startFaults' = startFaults + (IF Observed(start) THEN 0 ELSE 1)
    BY <1>1, <1>4, StartsCounted
  <2>2. SeqsIn(B) = SeqsIn(buffer) \cup (IF Observed(start) THEN {seq + 1} ELSE {})
    BY SeqsTogether, SeqsOfChild
  <2> HIDE DEF B
  <2>3. u \in Nat /\ v \in Nat /\ v <= u + (IF Observed(start) THEN 0 ELSE 1)
    <3>1. CASE Observed(start)
      <4>1. SeqsIn(B) = SeqsIn(buffer) \cup {seq + 1}
        BY <2>2, <3>1
      <4>2. u \in Nat /\ v \in Nat /\ v <= u
        BY <1>2, <4>1, UnseenType
      <4> QED
        BY <3>1, <4>2
    <3>2. CASE ~Observed(start)
      <4>1. SeqsIn(B) = SeqsIn(buffer)
        BY <2>2, <3>2
      <4>2. u \in Nat /\ v \in Nat /\ v <= u + 1
        BY <1>2, <4>1, UnseenType
      <4> QED
        BY <3>2, <4>2
    <3> QED
      BY <3>1, <3>2
  <2>4. u + Unobserved <= startFaults /\ Unobserved \in {0, 1}
    BY <1>4 DEF DashboardInv, Unseen, Unobserved
  <2>5. startFaults' \in Nat /\ v + Unobserved <= startFaults'
    <3> HIDE DEF u, v
    <3> QED
      BY <2>1, <2>3, <2>4
  <2>6. ASSUME NEW faults \in Nat, faults = startFaults' PROVE DashboardInv'
    <3> HIDE DEF D
    <3> QED
      BY <1>1, <1>2, <2>5, <2>6, RootDashboard
  <2> QED
    BY <2>5, <2>6
<1> QED
  BY <1>3, <1>4

LEMMA NewProcessDashboard ==
    ASSUME TypeInv, NEW ending, NewProcess(ending), startFaults' = startFaults
    PROVE  DashboardInv'
<1>1. Closed' = {} /\ root' = 0 /\ startFaults' \in Nat
  BY ClosedSteps DEF NewProcess, NoRun, TypeInv
<1>2. (Closed \ SeqsIn(buffer))' = {} /\ Cardinality({}) = 0
  BY <1>1, FS_EmptySet
<1>3. Cardinality(Closed \ SeqsIn(buffer))' = 0
  BY <1>2
<1> QED
  BY <1>1, <1>3 DEF DashboardInv

LEMMA DashboardInvariant == TracingSpec => []DashboardInv
<1>1. TracingInit => DashboardInv
  <2> SUFFICES ASSUME TracingInit PROVE DashboardInv
    OBVIOUS
  <2>1. Closed \ SeqsIn(buffer) = {} /\ root = 0 /\ startFaults = 0
    BY DEF TracingInit, Closed
  <2>2. Cardinality(Closed \ SeqsIn(buffer)) = 0
    BY <2>1, FS_EmptySet
  <2> QED
    BY <2>1, <2>2 DEF DashboardInv
<1>2. TypeInv /\ DashboardInv /\ [TracingNext]_tracingVars => DashboardInv'
  <2> SUFFICES ASSUME TypeInv, DashboardInv, [TracingNext]_tracingVars PROVE DashboardInv'
    OBVIOUS
  <2>1. ASSUME UNCHANGED tracingVars PROVE DashboardInv'
    <3>1. UNCHANGED <<backends, root, seq, rootTrace, buffer, startFaults>>
      BY <2>1 DEF tracingVars, loopVars, fileVars, traceVars
    <3> QED
      BY <3>1 DEF DashboardInv, Closed, SeqsIn
  <2>2. ASSUME NEW n \in 0..MaxCalls, NEW tokens \in Tokens, NEW start \in Starts,
               NEW disk \in WriteDisks, Completion(n, tokens, start, disk)
        PROVE  DashboardInv'
    <3>1. /\ StartPossible(start) /\ buffer' = buffer \cup ChildObservation("llm", start)
          /\ seq' = seq + 1 /\ UNCHANGED <<backends, root, rootTrace>>
      BY <2>2 DEF Completion, CloseChild
    <3> QED
      BY <3>1, ChildDashboard
  <2>3. ASSUME NEW answer \in {"answered", "accepted"}, NEW start \in Starts,
               NEW disk \in WriteDisks, ToolCall(answer, start, disk)
        PROVE  DashboardInv'
    <3>1. /\ StartPossible(start) /\ buffer' = buffer \cup ChildObservation("tool", start)
          /\ seq' = seq + 1 /\ UNCHANGED <<backends, root, rootTrace>>
      BY <2>3 DEF ToolCall, CloseChild
    <3> QED
      BY <3>1, ChildDashboard
  <2>4. ASSUME NEW kind \in {"llm", "tool"}, NEW start \in Starts, NEW disk \in WriteDisks,
               NEW last \in WriteDisks, RunRaises(kind, start, <<disk, last>>)
        PROVE  DashboardInv'
    BY <2>4, RunRaisesDashboard
  <2>5. ASSUME NEW disk \in WriteDisks, CloseRun(disk) PROVE DashboardInv'
    <3>1. /\ root # 0 /\ seq' = seq /\ root' = 0 /\ startFaults' = startFaults
          /\ backends' = backends /\ buffer' = buffer \cup RootObservation
      BY <2>5 DEF CloseRun, NoRun
    <3>2. Closed' = Closed \cup {root} /\ IsFiniteSet(Closed)
      BY <3>1, ClosedSteps, ClosedType
    <3>3. CASE "langfuse" \notin backends
      BY <3>1, <3>3 DEF DashboardInv
    <3>4. CASE "langfuse" \in backends
      <4>1. Unseen(Closed, SeqsIn(buffer)) + Unobserved <= startFaults /\ startFaults \in Nat
        BY <3>4 DEF DashboardInv, Unseen, Unobserved, TypeInv
      <4> QED
        BY <3>1, <3>2, <4>1, RootDashboard
    <3> QED
      BY <3>3, <3>4
  <2>6. ASSUME NEW disk \in WriteDisks, RunRefused(disk) PROVE DashboardInv'
    <3>1. /\ seq' = seq + 1 /\ StartPossible("raised")
          /\ UNCHANGED <<backends, root, rootTrace, buffer>>
      BY <2>6 DEF RunRefused
    <3>2. ~Observed("raised") /\ "raised" \in Starts
      BY DEF Observed, Starts
    <3>3. buffer' = buffer \cup ChildObservation("run", "raised")
      BY <3>1, <3>2 DEF ChildObservation
    <3> QED
      BY <3>1, <3>2, <3>3, ChildDashboard
  <2>7. ASSUME NEW start \in Starts, OpenRun(start) PROVE DashboardInv'
    <3> SUFFICES ASSUME "langfuse" \in backends
                 PROVE  Unseen(Closed, SeqsIn(buffer))' + Unobserved' <= startFaults'
      BY <2>7 DEF OpenRun, DashboardInv, Unseen, Unobserved
    <3>1. /\ root = 0 /\ seq' = seq + 1 /\ root' = seq + 1 /\ StartPossible(start)
          /\ buffer' = buffer /\ rootTrace' = IF Observed(start) THEN Trace(seq + 1) ELSE None
      BY <2>7 DEF OpenRun
    <3>2. Closed' = Closed
      BY <3>1, ClosedSteps
    <3>3. Unobserved' = (IF Observed(start) THEN 0 ELSE 1) /\ Unobserved = 0
      <4>1. seq + 1 # 0 /\ Trace(seq + 1) # None
        BY Observable DEF TypeInv
      <4> QED
        BY <3>1, <4>1 DEF Unobserved
    <3>4. startFaults \in Nat /\ startFaults' = startFaults + (IF Observed(start) THEN 0 ELSE 1)
      BY <3>1, StartsCounted
    <3> DEFINE u == Unseen(Closed, SeqsIn(buffer))
    <3>5. u \in Nat /\ u + Unobserved <= startFaults
      BY ClosedType, UnseenType DEF DashboardInv, Unseen, Unobserved
    <3>6. Unseen(Closed, SeqsIn(buffer))' = u
      BY <3>1, <3>2 DEF Unseen, SeqsIn
    <3> HIDE DEF u
    <3> QED
      BY <3>3, <3>4, <3>5, <3>6
  <2>8. ASSUME NEW reached \in BOOLEAN, Exit(reached) PROVE DashboardInv'
    BY <2>8, NewProcessDashboard DEF Exit
  <2>9. ASSUME NEW disk \in WriteDisks, Kill(disk, {}) \/ Kill(disk, buffer) PROVE DashboardInv'
    BY <2>9, NewProcessDashboard DEF Kill
  <2> QED
    BY <2>1, <2>2, <2>3, <2>4, <2>5, <2>6, <2>7, <2>8, <2>9 DEF TracingNext
<1> QED
  BY <1>1, <1>2, TypeInvariant, PTL DEF TracingSpec

(* What was delivered of the processes that are over does not change.        *)
Delivered ==
    \A p \in DOMAIN endings : endings[p] = "flushed" =>
        IsFiniteSet(InFile(p)) /\ IsFiniteSet(SentOf(p))

LEMMA InFileIs == \A p : InFile(p) = SeqsOf(file.lines, p)
BY DEF InFile, SeqsOf, WholeLines, Whole

LEMMA DeliveredStays ==
    ASSUME TypeInv, TypeInv', BackendsAgree, Delivered,
           UNCHANGED <<backends, process, endings, sent>>,
           writeFaults <= writeFaults', startFaults <= startFaults',
           \A p \in DOMAIN endings : SeqsOf(file'.lines, p) = SeqsOf(file.lines, p)
    PROVE  BackendsAgree' /\ Delivered'
<1>1. ASSUME NEW p \in DOMAIN endings
      PROVE  InFile(p)' = InFile(p) /\ SentOf(p)' = SentOf(p)
  <2>1. InFile(p)' = SeqsOf(file'.lines, p)
    BY DEF InFile, SeqsOf, WholeLines, Whole
  <2>2. SentOf(p)' = SentOf(p)
    BY DEF SentOf
  <2> QED
    BY <2>1, <2>2, InFileIs
<1>2. endings' = endings /\ backends' = backends
  OBVIOUS
<1>3. Delivered'
  BY <1>1, <1>2 DEF Delivered
<1>4. Kills' = Kills /\ Kills \in Nat
  BY KillsCounted DEF Kills
<1>5. writeFaults \in Nat /\ writeFaults' \in Nat /\ startFaults \in Nat /\ startFaults' \in Nat
  BY DEF TypeInv
<1>6. ASSUME NEW p \in DOMAIN endings, endings[p] = "flushed", backends = {"jsonl", "langfuse"}
      PROVE  /\ Cardinality(InFile(p) \ SentOf(p)) <= startFaults'
             /\ Cardinality(SentOf(p) \ InFile(p)) <= 2 * writeFaults' + Kills'
  <2>1. /\ Cardinality(InFile(p) \ SentOf(p)) \in Nat
        /\ Cardinality(SentOf(p) \ InFile(p)) \in Nat
    BY <1>6, FS_Subset, FS_CardinalityType DEF Delivered
  <2>2. /\ Cardinality(InFile(p) \ SentOf(p)) <= startFaults
        /\ Cardinality(SentOf(p) \ InFile(p)) <= 2 * writeFaults + Kills
    BY <1>6 DEF BackendsAgree
  <2> QED
    BY <1>4, <1>5, <2>1, <2>2
<1>7. BackendsAgree'
  BY <1>1, <1>2, <1>6 DEF BackendsAgree
<1> QED
  BY <1>3, <1>7

(* The spans of the process: of the file, closed; of the buffer, opened.     *)
LEMMA OfTheProcess ==
    ASSUME TypeInv, LinesInv, ObsInv, root = 0
    PROVE  /\ Closed = 1..seq
           /\ InFile(process) \subseteq 1..seq /\ SeqsIn(buffer) \subseteq 1..seq
           /\ IsFiniteSet(1..seq)
<1>1. Closed = 1..seq
  BY DEF Closed
<1>2. InFile(process) \subseteq 1..seq
  <2>1. \A l \in Held(file.lines) : l.process = process => l.seq \in 1..seq
    BY HeldLines DEF TypeInv, LinesInv, KnownLine, LineRecords
  <2> QED
    BY <2>1 DEF InFile, WholeLines, Whole, Held
<1>3. SeqsIn(buffer) \subseteq 1..seq
  BY DEF ObsInv, BufferOK, OfThisProcess, SeqsIn
<1> QED
  BY <1>1, <1>2, <1>3, ClosedType

LEMMA ExitDelivers ==
    ASSUME TypeInv, LinesInv, ObsInv, FileInv, DashboardInv, root = 0,
           backends = {"jsonl", "langfuse"}
    PROVE  /\ Cardinality(InFile(process) \ SeqsIn(buffer)) <= startFaults
           /\ Cardinality(SeqsIn(buffer) \ InFile(process)) <= 2 * writeFaults + Kills
<1>1. /\ Closed = 1..seq /\ IsFiniteSet(1..seq)
      /\ InFile(process) \subseteq 1..seq /\ SeqsIn(buffer) \subseteq 1..seq
  BY OfTheProcess
<1>2. Cardinality(InFile(process) \ SeqsIn(buffer)) <= startFaults
  <2>1. IsFiniteSet((1..seq) \ SeqsIn(buffer))
    BY <1>1, FS_Subset
  <2>2. /\ Cardinality(InFile(process) \ SeqsIn(buffer)) <= Cardinality((1..seq) \ SeqsIn(buffer))
        /\ Cardinality((1..seq) \ SeqsIn(buffer)) \in Nat
        /\ Cardinality(InFile(process) \ SeqsIn(buffer)) \in Nat
    BY <1>1, <2>1, Fewer
  <2>3. Cardinality((1..seq) \ SeqsIn(buffer)) <= startFaults
    BY <1>1, <2>2 DEF DashboardInv, TypeInv
  <2> QED
    BY <2>2, <2>3 DEF TypeInv
<1>3. Cardinality(SeqsIn(buffer) \ InFile(process)) <= 2 * writeFaults + Kills
  <2>1. IsFiniteSet((1..seq) \ InFile(process))
    BY <1>1, FS_Subset
  <2>2. /\ Cardinality(SeqsIn(buffer) \ InFile(process)) <= Cardinality((1..seq) \ InFile(process))
        /\ Cardinality((1..seq) \ InFile(process)) \in Nat
        /\ Cardinality(SeqsIn(buffer) \ InFile(process)) \in Nat
    BY <1>1, <2>1, Fewer
  <2>3. Lost(file, Closed) = Cardinality((1..seq) \ InFile(process))
    BY <1>1, InFileIs DEF Lost
  <2>4. Owed(file) \in {0, 1} /\ Kills \in Nat /\ writeFaults \in Nat
    BY KillsCounted DEF Owed, TypeInv
  <2>5. Lost(file, Closed) + Owed(file) <= 2 * writeFaults + Kills
    BY DEF FileInv
  <2> QED
    BY <2>2, <2>3, <2>4, <2>5
<1> QED
  BY <1>2, <1>3

LEMMA EndingsGrow ==
    ASSUME TypeInv, NEW ending, NewProcess(ending)
    PROVE  /\ \A p : p \in DOMAIN endings' <=> p \in DOMAIN endings \/ p = process
           /\ endings'[process] = ending
           /\ \A p \in DOMAIN endings : endings'[p] = endings[p] /\ p # process
<1>1. Len(endings) \in Nat /\ DOMAIN endings = 1..Len(endings) /\ process = Len(endings) + 1
  BY DEF TypeInv
<1>2. endings' = Append(endings, ending)
  BY DEF NewProcess
<1> QED
  BY <1>1, <1>2 DEF TypeInv

LEMMA NewProcessDelivered ==
    ASSUME TypeInv, LinesInv, ObsInv, FileInv, DashboardInv, BackendsAgree, Delivered,
           NEW ending \in Endings, NewProcess(ending),
           UNCHANGED <<backends, writeFaults, startFaults>>,
           NEW disk \in WriteDisks, file' \in {file, Write(file, Garbage, disk)},
           NEW batch, batch \subseteq buffer, sent' = sent \cup batch,
           ending = "flushed" => root = 0 /\ batch = buffer
    PROVE  BackendsAgree' /\ Delivered'
<1>0. PICK q : q = process
  OBVIOUS
<1>1. /\ \A p : p \in DOMAIN endings' <=> p \in DOMAIN endings \/ p = q
      /\ endings'[q] = ending
      /\ \A p \in DOMAIN endings : endings'[p] = endings[p] /\ p # q
  BY <1>0, EndingsGrow
<1>2. \A p : InFile(p)' = InFile(p)
  <2>1. \A p : SeqsOf(file'.lines, p) = SeqsOf(file.lines, p)
    <3> TAKE p
    <3>1. SeqsOf(Write(file, Garbage, disk).lines, p) = SeqsOf(file.lines, p)
      BY OthersStay DEF TypeInv
    <3> QED
      BY <3>1
  <2>2. \A p : InFile(p)' = SeqsOf(file'.lines, p)
    BY DEF InFile, SeqsOf, WholeLines, Whole
  <2> QED
    BY <2>1, <2>2, InFileIs
<1>3. \A o \in buffer : o.process = q
  BY <1>0 DEF ObsInv, BufferOK, OfThisProcess
<1>4. \A p \in DOMAIN endings : SentOf(p)' = SentOf(p)
  BY <1>1, <1>3 DEF SentOf
<1>5. ending = "flushed" => SentOf(q)' = SeqsIn(buffer)
  <2>1. \A o \in sent : o.process # q
    <3>1. \A o \in sent : o.process \in Nat /\ o.process < process
      BY DEF ObsInv, SentOK
    <3> QED
      BY <1>0, <3>1 DEF TypeInv
  <2> QED
    BY <1>3, <2>1 DEF SentOf, SeqsIn
<1>6. Kills \in Nat /\ writeFaults \in Nat /\ Kills' \in Nat /\ Kills <= Kills'
      /\ (ending = "flushed" => Kills' = Kills)
  <2>1. Kills \in Nat /\ Kills' = IF ending = "killed" THEN Kills + 1 ELSE Kills
    BY KillsCounted DEF NewProcess
  <2> QED
    BY <2>1 DEF TypeInv
<1>7. Delivered'
  <2>1. ending = "flushed" => IsFiniteSet(InFile(q)) /\ IsFiniteSet(SeqsIn(buffer))
    BY <1>0, OfTheProcess, FS_Subset
  <2> QED
    BY <1>1, <1>2, <1>4, <1>5, <2>1 DEF Delivered
<1>8. ASSUME NEW p \in DOMAIN endings, endings[p] = "flushed", backends = {"jsonl", "langfuse"}
      PROVE  /\ Cardinality(InFile(p) \ SentOf(p)) <= startFaults
             /\ Cardinality(SentOf(p) \ InFile(p)) <= 2 * writeFaults + Kills'
  <2>1. Cardinality(SentOf(p) \ InFile(p)) \in Nat
    BY <1>8, FS_Subset, FS_CardinalityType DEF Delivered
  <2>2. /\ Cardinality(InFile(p) \ SentOf(p)) <= startFaults
        /\ Cardinality(SentOf(p) \ InFile(p)) <= 2 * writeFaults + Kills
    BY <1>8 DEF BackendsAgree
  <2> QED
    BY <1>6, <2>1, <2>2
<1>9. ASSUME ending = "flushed", backends = {"jsonl", "langfuse"}
      PROVE  /\ Cardinality(InFile(q) \ SeqsIn(buffer)) <= startFaults
             /\ Cardinality(SeqsIn(buffer) \ InFile(q)) <= 2 * writeFaults + Kills'
  BY <1>0, <1>6, <1>9, ExitDelivers
<1>10. ASSUME NEW p \in DOMAIN endings', endings'[p] = "flushed", backends = {"jsonl", "langfuse"}
       PROVE  /\ Cardinality(InFile(p)' \ SentOf(p)') <= startFaults'
              /\ Cardinality(SentOf(p)' \ InFile(p)') <= 2 * writeFaults' + Kills'
  <2>1. CASE p \in DOMAIN endings
    BY <1>1, <1>2, <1>4, <1>8, <1>10, <2>1
  <2>2. CASE p = q
    <3>1. ending = "flushed" /\ SentOf(q)' = SeqsIn(buffer) /\ InFile(q)' = InFile(q)
      BY <1>1, <1>2, <1>5, <1>10, <2>2
    <3>2. /\ Cardinality(InFile(q) \ SeqsIn(buffer)) <= startFaults'
          /\ Cardinality(SeqsIn(buffer) \ InFile(q)) <= 2 * writeFaults' + Kills'
      BY <1>9, <1>10, <3>1
    <3>3. SentOf(p)' = SeqsIn(buffer) /\ InFile(p)' = InFile(q)
      BY <1>2, <1>5, <2>2, <3>1
    <3> QED
      BY <3>2, <3>3
  <2> QED
    BY <1>1, <2>1, <2>2
<1>11. BackendsAgree'
  BY <1>10 DEF BackendsAgree
<1> QED
  BY <1>7, <1>11

(* A step of the process writes lines of its own.                            *)
LEMMA OwnLines ==
    ASSUME TypeInv, [TracingNext]_tracingVars, process' = process
    PROVE  /\ UNCHANGED <<backends, endings, sent>>
           /\ writeFaults <= writeFaults' /\ startFaults <= startFaults'
           /\ \A p \in DOMAIN endings : SeqsOf(file'.lines, p) = SeqsOf(file.lines, p)
<1>0. /\ \A p \in DOMAIN endings : p # process
      /\ writeFaults \in Nat /\ startFaults \in Nat
  BY DEF TypeInv
<1>1. ASSUME NEW start, StartPossible(start) PROVE startFaults <= startFaults'
  BY <1>0, <1>1 DEF StartPossible
<1>2. ASSUME NEW disks, Refused(disks) \in Nat, DisksPossible(disks)
      PROVE  writeFaults <= writeFaults'
  BY <1>0, <1>2 DEF DisksPossible
<1>3. ASSUME NEW line \in LineRecords, line.process = process, NEW disk \in WriteDisks,
             NEW f, FileType(f), NEW p \in DOMAIN endings
      PROVE  SeqsOf(Write(f, line, disk).lines, p) = SeqsOf(f.lines, p)
  BY <1>0, <1>3, OthersStay
<1>4. CASE UNCHANGED tracingVars
  BY <1>0, <1>4 DEF tracingVars, loopVars, fileVars, traceVars
<1>5. ASSUME NEW n \in 0..MaxCalls, NEW tokens \in Tokens, NEW start \in Starts,
             NEW disk \in WriteDisks, Completion(n, tokens, start, disk)
      PROVE  /\ UNCHANGED <<backends, endings, sent>>
             /\ writeFaults <= writeFaults' /\ startFaults <= startFaults'
             /\ \A p \in DOMAIN endings : SeqsOf(file'.lines, p) = SeqsOf(file.lines, p)
  <2> DEFINE line == Line("llm", seq + 1, depth, "answered", CostFor(tokens, rates))
  <2>1. /\ file' = Write(file, line, disk) /\ DisksPossible(<<disk>>) /\ StartPossible(start)
        /\ UNCHANGED <<backends, endings, sent>>
    BY <1>5 DEF Completion, CloseChild
  <2>2. CostFor(tokens, rates) \in Amounts /\ "answered" \in Outcomes
    BY CostIsAmount, Constants0 DEF TypeInv, Outcomes
  <2>3. line \in LineRecords /\ line.process = process
    BY <2>2, ChildLine
  <2> HIDE DEF line
  <2> QED
    BY <1>1, <1>2, <1>3, <2>1, <2>3, OneFault DEF TypeInv
<1>6. ASSUME NEW answer \in {"answered", "accepted"}, NEW start \in Starts,
             NEW disk \in WriteDisks, ToolCall(answer, start, disk)
      PROVE  /\ UNCHANGED <<backends, endings, sent>>
             /\ writeFaults <= writeFaults' /\ startFaults <= startFaults'
             /\ \A p \in DOMAIN endings : SeqsOf(file'.lines, p) = SeqsOf(file.lines, p)
  <2> DEFINE line == Line("tool", seq + 1, depth, answer, Unpriced)
  <2>1. /\ file' = Write(file, line, disk) /\ DisksPossible(<<disk>>) /\ StartPossible(start)
        /\ UNCHANGED <<backends, endings, sent>>
    BY <1>6 DEF ToolCall, CloseChild
  <2>2. Unpriced \in Amounts /\ answer \in Outcomes
    BY UnpricedLine DEF Outcomes
  <2>3. line \in LineRecords /\ line.process = process
    BY <2>2, ChildLine
  <2> HIDE DEF line
  <2> QED
    BY <1>1, <1>2, <1>3, <2>1, <2>3, OneFault DEF TypeInv
<1>7. ASSUME NEW kind \in {"llm", "tool"}, NEW start \in Starts, NEW disk \in WriteDisks,
             NEW last \in WriteDisks, RunRaises(kind, start, <<disk, last>>)
      PROVE  /\ UNCHANGED <<backends, endings, sent>>
             /\ writeFaults <= writeFaults' /\ startFaults <= startFaults'
             /\ \A p \in DOMAIN endings : SeqsOf(file'.lines, p) = SeqsOf(file.lines, p)
  <2> DEFINE line == Line(kind, seq + 1, depth, "none", Unpriced)
             end  == Line("run", root, depth - 1, "none", Unpriced)
             f    == Write(file, line, disk)
  <2>1. /\ file' = Write(f, end, last) /\ DisksPossible(<<disk, last>>) /\ StartPossible(start)
        /\ root # 0 /\ UNCHANGED <<backends, endings, sent>>
    BY <1>7 DEF RunRaises, CloseBoth, Ready, InTools, Running
  <2>2. Unpriced \in Amounts /\ "none" \in Outcomes
    BY UnpricedLine DEF Outcomes
  <2>3. line \in LineRecords /\ line.process = process
    BY <2>2, ChildLine
  <2>4. end \in LineRecords /\ end.process = process
    BY <2>1, <2>2, RunLine
  <2> HIDE DEF line, end
  <2>5. FileType(f) /\ \A p \in DOMAIN endings : SeqsOf(f.lines, p) = SeqsOf(file.lines, p)
    BY <1>3, <2>3, WriteType DEF TypeInv
  <2> HIDE DEF f
  <2>6. \A p \in DOMAIN endings : SeqsOf(file'.lines, p) = SeqsOf(file.lines, p)
    BY <1>3, <2>1, <2>4, <2>5
  <2> QED
    BY <1>1, <1>2, <2>1, <2>6, TwoFaults
<1>8. ASSUME NEW disk \in WriteDisks, CloseRun(disk)
      PROVE  /\ UNCHANGED <<backends, endings, sent>>
             /\ writeFaults <= writeFaults' /\ startFaults <= startFaults'
             /\ \A p \in DOMAIN endings : SeqsOf(file'.lines, p) = SeqsOf(file.lines, p)
  <2> DEFINE line == Line("run", root, depth - 1, loop.stop, Unpriced)
  <2>1. /\ file' = Write(file, line, disk) /\ DisksPossible(<<disk>>) /\ root # 0
        /\ UNCHANGED <<backends, endings, sent, startFaults>>
    BY <1>8 DEF CloseRun
  <2>2. loop.stop \in Outcomes
    BY DEF TypeInv, LoopRecords, Outcomes
  <2>3. line \in LineRecords /\ line.process = process
    BY <2>1, <2>2, RunLine
  <2> HIDE DEF line
  <2> QED
    BY <1>0, <1>2, <1>3, <2>1, <2>3, OneFault DEF TypeInv
<1>9. ASSUME NEW disk \in WriteDisks, RunRefused(disk)
      PROVE  /\ UNCHANGED <<backends, endings, sent>>
             /\ writeFaults <= writeFaults' /\ startFaults <= startFaults'
             /\ \A p \in DOMAIN endings : SeqsOf(file'.lines, p) = SeqsOf(file.lines, p)
  <2> DEFINE child == Line("run", seq + 1, depth, "none", Unpriced)
             line  == [child EXCEPT !.run = run + 1]
  <2>1. /\ file' = Write(file, line, disk) /\ DisksPossible(<<disk>>) /\ StartPossible("raised")
        /\ UNCHANGED <<backends, endings, sent>>
    BY <1>9 DEF RunRefused
  <2>2. line \in LineRecords /\ line.process = process
    <3>1. seq + 1 \in Nat \ {0} /\ depth \in Nat /\ run + 1 \in Nat
      BY DEF TypeInv
    <3>2. child \in LineRecords
      BY <3>1, LineType, UnpricedLine DEF Kinds, Outcomes
    <3>3. child.process = process
      BY DEF Line
    <3> HIDE DEF child
    <3> QED
      BY <3>1, <3>2, <3>3 DEF LineRecords
  <2> HIDE DEF line
  <2> QED
    BY <1>1, <1>2, <1>3, <2>1, <2>2, OneFault DEF TypeInv
<1>10. ASSUME NEW start \in Starts, OpenRun(start)
       PROVE  /\ UNCHANGED <<backends, endings, sent>>
              /\ writeFaults <= writeFaults' /\ startFaults <= startFaults'
              /\ \A p \in DOMAIN endings : SeqsOf(file'.lines, p) = SeqsOf(file.lines, p)
  <2>1. StartPossible(start) /\ UNCHANGED <<backends, endings, sent, file, writeFaults>>
    BY <1>10 DEF OpenRun
  <2> QED
    BY <1>0, <1>1, <2>1
<1>11. ASSUME NEW ending, NewProcess(ending) PROVE FALSE
  <2>1. process' = process + 1 /\ process \in Nat
    BY <1>11 DEF NewProcess, TypeInv
  <2> QED
    BY <2>1
<1>12. ASSUME NEW reached \in BOOLEAN, Exit(reached) PROVE FALSE
  BY <1>11, <1>12 DEF Exit
<1>13. ASSUME NEW disk \in WriteDisks, Kill(disk, {}) \/ Kill(disk, buffer) PROVE FALSE
  BY <1>11, <1>13 DEF Kill
<1> QED
  BY <1>4, <1>5, <1>6, <1>7, <1>8, <1>9, <1>10, <1>12, <1>13 DEF TracingNext

LEMMA DeliveredStep ==
    ASSUME TypeInv, TypeInv', LinesInv, ObsInv, FileInv, DashboardInv, BackendsAgree, Delivered,
           [TracingNext]_tracingVars
    PROVE  BackendsAgree' /\ Delivered'
<1>1. CASE process' = process
  BY <1>1, OwnLines, DeliveredStays
<1>2. ASSUME NEW reached \in BOOLEAN, Exit(reached) PROVE BackendsAgree' /\ Delivered'
  <2> DEFINE ending == IF reached THEN "flushed" ELSE "unreached"
             batch  == IF reached THEN buffer ELSE {}
  <2>1. /\ root = 0 /\ NewProcess(ending) /\ sent' = sent \cup batch /\ file' = file
        /\ UNCHANGED <<backends, writeFaults, startFaults>>
    BY <1>2 DEF Exit
  <2>2. batch \subseteq buffer /\ (ending = "flushed" => batch = buffer)
        /\ ending \in Endings /\ "fine" \in WriteDisks
    BY DEF Endings, WriteDisks
  <2> HIDE DEF ending, batch
  <2> QED
    BY <2>1, <2>2, NewProcessDelivered
<1>3. ASSUME NEW disk \in WriteDisks, Kill(disk, {}) \/ Kill(disk, buffer)
      PROVE  BackendsAgree' /\ Delivered'
  <2>1. PICK batch : batch \subseteq buffer /\ Kill(disk, batch)
    BY <1>3
  <2>2. /\ NewProcess("killed") /\ sent' = sent \cup batch /\ file' \in {file, Write(file, Garbage, disk)}
        /\ UNCHANGED <<backends, writeFaults, startFaults>>
    BY <2>1 DEF Kill
  <2>3. "killed" \in Endings /\ "killed" # "flushed"
    BY DEF Endings
  <2> QED
    BY <2>1, <2>2, <2>3, NewProcessDelivered
<1>4. CASE process' # process
  <2>1. (\E reached \in BOOLEAN : Exit(reached))
          \/ (\E disk \in WriteDisks : Kill(disk, {}) \/ Kill(disk, buffer))
    BY <1>4 DEF TracingNext, tracingVars, OpenRun, RunRefused, CloseRun, Completion, ToolCall, RunRaises
  <2> QED
    BY <1>2, <1>3, <2>1
<1> QED
  BY <1>1, <1>4

(* Whatever one backend refused or lost, the other has, and what a flushing  *)
(* process holds is delivered, for any number of processes.                  *)
THEOREM AgreementOfBackends == TracingSpec => []BackendsAgree
<1>1. TracingInit => BackendsAgree /\ Delivered
  BY DEF TracingInit, BackendsAgree, Delivered
<1>2. /\ TypeInv /\ TypeInv' /\ LinesInv /\ ObsInv /\ FileInv /\ DashboardInv
      /\ BackendsAgree /\ Delivered /\ [TracingNext]_tracingVars
      => BackendsAgree' /\ Delivered'
  BY DeliveredStep
<1> QED
  BY <1>1, <1>2, TypeInvariant, LinesInvariant, ObsInvariant, FileInvariant, DashboardInvariant,
     PTL DEF TracingSpec

-----------------------------------------------------------------------------
(* What the file says was done and spent, where nothing of it was lost.      *)

Of(ls, r, kind) == {i \in Whole(ls) : ls[i].run = r /\ ls[i].kind = kind}
By(ls, p) == {i \in Whole(ls) : ls[i].kind = "llm" /\ ls[i].process = p}
Marked(ls, S) == [i \in DOMAIN ls |-> IF i \in S THEN ls[i].cost ELSE Free]
Spent(ls, S) == TotalCost(Marked(ls, S))

Tally(ls, r, iterations, records, usd) ==
    /\ Cardinality(Of(ls, r, "llm")) = iterations
    /\ Cardinality(Of(ls, r, "tool")) = records
    /\ Spent(ls, Of(ls, r, "llm")) = usd

CaseAdds(ls, c) ==
    /\ Tally(ls, c.run, c.iterations, c.records, c.usd)
    /\ \E i \in Whole(ls) : Of(ls, c.run, "run") = {i} /\ ls[i].outcome = c.stop

Total(cs) == TotalCost([n \in DOMAIN cs |-> cs[n].usd])

TornOK(f) == f.torn => Whole(f.lines) # DOMAIN f.lines

SpentInv ==
    /\ TornOK(file)
    /\ NothingLost =>
        /\ root # 0 => /\ Tally(file.lines, run, loop.iterations, loop.records, TotalCost(costs))
                       /\ Of(file.lines, run, "run") = {}
        /\ \A n \in DOMAIN cases : ~Raised(cases[n]) => CaseAdds(file.lines, cases[n])
        /\ Priced(Total(cases)) =>
               Spent(file.lines, By(file.lines, process)) = Plus(Total(cases), TotalCost(costs))

LEMMA SumZero ==
    ASSUME NEW s \in Seq(Nat), \A i \in 1..Len(s) : s[i] = 0
    PROVE  Sum(s) = 0
<1>1. PICK F : Sums(F, s) /\ Sum(s) = F[Len(s)]
  BY SumIs
<1> DEFINE T == {i \in Nat : i \in 0..Len(s) => F[i] = 0}
<1>2. 0 \in T
  BY <1>1 DEF Sums
<1>3. ASSUME NEW i \in 1..Len(s), i - 1 \in T PROVE i \in T
  <2>1. i - 1 \in 0..Len(s) /\ i \in 0..Len(s) /\ i # 0 /\ i \in Nat
    OBVIOUS
  <2>2. F[i] = F[i - 1] + s[i]
    BY <1>1, <2>1 DEF Sums
  <2>3. F[i] = 0
    BY <1>3, <2>1, <2>2
  <2> QED
    BY <2>1, <2>3
<1>4. Len(s) \in Nat /\ T \subseteq Nat
  OBVIOUS
<1> HIDE DEF T
<1>5. 0..Len(s) \subseteq T
  BY <1>2, <1>3, <1>4, InductionUpTo
<1>6. Len(s) \in T /\ Len(s) \in 0..Len(s)
  BY <1>4, <1>5
<1> QED
  BY <1>1, <1>6 DEF T

LEMMA MarkedType ==
    ASSUME NEW f, FileType(f), NEW S, S \subseteq Whole(f.lines)
    PROVE  /\ Marked(f.lines, S) \in Seq(Amounts) /\ Spent(f.lines, S) \in Amounts
           /\ Len(Marked(f.lines, S)) = Len(f.lines)
           /\ S = {} => Spent(f.lines, S) = Free
<1> DEFINE m == Marked(f.lines, S)
<1>1. Len(f.lines) \in Nat /\ DOMAIN f.lines = 1..Len(f.lines)
  BY HeldLines
<1>2. \A i \in S : f.lines[i].cost \in Amounts
  BY HeldLines DEF LineRecords
<1>3. Free \in Amounts /\ Free = 0
  BY DEF Free, Amounts
<1>4. m \in [1..Len(f.lines) -> Amounts]
  BY <1>1, <1>2, <1>3 DEF Marked
<1>5. m \in Seq(Amounts) /\ Len(m) = Len(f.lines) /\ DOMAIN m = 1..Len(f.lines)
  BY <1>1, <1>4
<1>6. ASSUME S = {} PROVE Spent(f.lines, S) = Free
  <2>1. \A i \in 1..Len(m) : m[i] = 0
    BY <1>1, <1>3, <1>5, <1>6 DEF Marked
  <2>2. \A i \in DOMAIN m : Priced(m[i])
    BY <1>5, <2>1 DEF Priced, Unpriced
  <2> HIDE DEF m
  <2>3. m \in Seq(Nat)
    BY <1>5, <2>2, PricedAmounts
  <2>4. TotalCost(m) = Free
    BY <1>3, <2>1, <2>2, <2>3, SumZero DEF TotalCost
  <2> QED
    BY <2>4 DEF Spent, m
<1> QED
  BY <1>5, <1>6, TotalType DEF Spent

(* The lines of a file and one more. *)
Grown(f, line) == Append(f.lines, line)

LEMMA LinesGrown ==
    ASSUME NEW f, FileType(f), NEW line \in LineRecords
    PROVE  /\ Whole(Grown(f, line)) = Whole(f.lines) \cup {Len(f.lines) + 1}
           /\ \A i \in Whole(f.lines) : Grown(f, line)[i] = f.lines[i]
           /\ Grown(f, line)[Len(f.lines) + 1] = line
           /\ DOMAIN Grown(f, line) = 1..(Len(f.lines) + 1)
<1>1. line # Garbage /\ line \in LineRecords \cup {Garbage}
  BY DEF LineRecords, Kinds, Garbage
<1> QED
  BY <1>1, WholeAppended DEF Grown

LEMMA SpentGrown ==
    ASSUME NEW f, FileType(f), NEW S, S \subseteq Whole(f.lines), NEW line \in LineRecords
    PROVE  /\ Spent(Grown(f, line), S) = Spent(f.lines, S)
           /\ Spent(Grown(f, line), S \cup {Len(f.lines) + 1}) = Plus(Spent(f.lines, S), line.cost)
<1> DEFINE ls == Grown(f, line)
           n  == Len(f.lines)
           m  == Marked(f.lines, S)
<1>1. /\ n \in Nat /\ DOMAIN f.lines = 1..n /\ \A i \in S : i \in 1..n
  BY HeldLines
<1>2. /\ DOMAIN ls = 1..(n + 1) /\ ls[n + 1] = line /\ \A i \in S : ls[i] = f.lines[i]
  BY LinesGrown
<1>3. m \in Seq(Amounts) /\ Len(m) = n /\ DOMAIN m = 1..n
  BY <1>1, MarkedType
<1>4. Free \in Amounts /\ line.cost \in Amounts
  BY DEF Free, Amounts, LineRecords
<1>5. ASSUME NEW a \in Amounts
      PROVE  /\ Append(m, a) = [i \in 1..(n + 1) |-> IF i = n + 1 THEN a ELSE m[i]]
             /\ TotalCost(Append(m, a)) = Plus(TotalCost(m), a)
  BY <1>1, <1>3, TotalAppend
<1> HIDE DEF ls
<1>6. Marked(ls, S) = Append(m, Free)
  <2>1. \A i \in 1..(n + 1) : (IF i \in S THEN ls[i].cost ELSE Free)
                              = IF i = n + 1 THEN Free ELSE m[i]
    <3> TAKE i \in 1..(n + 1)
    <3>1. CASE i = n + 1
      BY <1>1, <3>1
    <3>2. CASE i # n + 1
      <4>1. i \in 1..n
        BY <1>1, <3>2
      <4> QED
        BY <1>1, <1>2, <3>2, <4>1 DEF Marked
    <3> QED
      BY <3>1, <3>2
  <2>2. Marked(ls, S) = [i \in 1..(n + 1) |-> IF i \in S THEN ls[i].cost ELSE Free]
    BY <1>2 DEF Marked
  <2> QED
    BY <1>4, <1>5, <2>1, <2>2
<1>7. Marked(ls, S \cup {n + 1}) = Append(m, line.cost)
  <2>1. \A i \in 1..(n + 1) : (IF i \in S \cup {n + 1} THEN ls[i].cost ELSE Free)
                              = IF i = n + 1 THEN line.cost ELSE m[i]
    <3> TAKE i \in 1..(n + 1)
    <3>1. CASE i = n + 1
      BY <1>2, <3>1
    <3>2. CASE i # n + 1
      <4>1. i \in 1..n
        BY <1>1, <3>2
      <4> QED
        BY <1>1, <1>2, <3>2, <4>1 DEF Marked
    <3> QED
      BY <3>1, <3>2
  <2>2. Marked(ls, S \cup {n + 1})
          = [i \in 1..(n + 1) |-> IF i \in S \cup {n + 1} THEN ls[i].cost ELSE Free]
    BY <1>2 DEF Marked
  <2> QED
    BY <1>4, <1>5, <2>1, <2>2
<1>8. TotalCost(m) \in Amounts
  BY <1>3, TotalType
<1>9. TotalCost(Append(m, Free)) = TotalCost(m)
  BY <1>4, <1>5, <1>8, PlusLaws
<1>10. Spent(ls, S) = Spent(f.lines, S)
  BY <1>6, <1>9 DEF Spent
<1>11. Spent(ls, S \cup {n + 1}) = Plus(Spent(f.lines, S), line.cost)
  BY <1>4, <1>5, <1>7 DEF Spent
<1> QED
  BY <1>10, <1>11 DEF ls

LEMMA OfType ==
    ASSUME NEW f, FileType(f), NEW r, NEW kind
    PROVE  /\ Of(f.lines, r, kind) \subseteq Whole(f.lines)
           /\ IsFiniteSet(Of(f.lines, r, kind)) /\ Len(f.lines) + 1 \notin Of(f.lines, r, kind)
<1>1. /\ Len(f.lines) \in Nat /\ Whole(f.lines) \subseteq 1..Len(f.lines)
  BY HeldLines
<1>2. Len(f.lines) + 1 \notin Whole(f.lines) /\ IsFiniteSet(1..Len(f.lines))
  BY <1>1, FS_Interval
<1>3. Of(f.lines, r, kind) \subseteq Whole(f.lines)
  BY DEF Of
<1> QED
  BY <1>1, <1>2, <1>3, FS_Subset

LEMMA OfGrown ==
    ASSUME NEW f, FileType(f), NEW line \in LineRecords, NEW r, NEW kind
    PROVE  Of(Grown(f, line), r, kind) = IF line.run = r /\ line.kind = kind
                                         THEN Of(f.lines, r, kind) \cup {Len(f.lines) + 1}
                                         ELSE Of(f.lines, r, kind)
<1>1. \A i : i \in Of(Grown(f, line), r, kind) <=>
          i \in Of(f.lines, r, kind) \/ (i = Len(f.lines) + 1 /\ line.run = r /\ line.kind = kind)
  BY LinesGrown DEF Of
<1> QED
  BY <1>1

LEMMA ByGrown ==
    ASSUME NEW f, FileType(f), NEW line \in LineRecords, NEW p
    PROVE  By(Grown(f, line), p) = IF line.kind = "llm" /\ line.process = p
                                   THEN By(f.lines, p) \cup {Len(f.lines) + 1}
                                   ELSE By(f.lines, p)
<1>1. \A i : i \in By(Grown(f, line), p) <=>
          i \in By(f.lines, p) \/ (i = Len(f.lines) + 1 /\ line.kind = "llm" /\ line.process = p)
  BY LinesGrown DEF By
<1> QED
  BY <1>1

LEMMA SpentByGrown ==
    ASSUME NEW f, FileType(f), NEW line \in LineRecords, NEW p
    PROVE  /\ Spent(f.lines, By(f.lines, p)) \in Amounts
           /\ Spent(Grown(f, line), By(Grown(f, line), p))
                 = IF line.kind = "llm" /\ line.process = p
                   THEN Plus(Spent(f.lines, By(f.lines, p)), line.cost)
                   ELSE Spent(f.lines, By(f.lines, p))
<1>1. By(f.lines, p) \subseteq Whole(f.lines)
  BY DEF By
<1>2. Spent(f.lines, By(f.lines, p)) \in Amounts
  BY <1>1, MarkedType
<1>3. /\ Spent(Grown(f, line), By(f.lines, p)) = Spent(f.lines, By(f.lines, p))
      /\ Spent(Grown(f, line), By(f.lines, p) \cup {Len(f.lines) + 1})
            = Plus(Spent(f.lines, By(f.lines, p)), line.cost)
  BY <1>1, SpentGrown
<1>4. By(Grown(f, line), p) = IF line.kind = "llm" /\ line.process = p
                              THEN By(f.lines, p) \cup {Len(f.lines) + 1}
                              ELSE By(f.lines, p)
  BY ByGrown
<1> QED
  BY <1>2, <1>3, <1>4

(* A line of another run leaves a run's tally as it is, one of its own adds  *)
(* to it.                                                                    *)
LEMMA TallyGrown ==
    ASSUME NEW f, FileType(f), NEW line \in LineRecords, NEW r, NEW a \in Nat, NEW b \in Nat,
           NEW usd, Tally(f.lines, r, a, b, usd)
    PROVE  /\ line.run # r => Tally(Grown(f, line), r, a, b, usd)
           /\ line.run = r /\ line.kind = "llm" =>
                  Tally(Grown(f, line), r, a + 1, b, Plus(usd, line.cost))
           /\ line.run = r /\ line.kind = "tool" => Tally(Grown(f, line), r, a, b + 1, usd)
           /\ line.run = r /\ line.kind = "run" => Tally(Grown(f, line), r, a, b, usd)
<1> DEFINE ls == Grown(f, line)
           n  == Len(f.lines) + 1
           L  == Of(f.lines, r, "llm")
           T  == Of(f.lines, r, "tool")
<1>1. /\ Of(ls, r, "llm") = IF line.run = r /\ line.kind = "llm" THEN L \cup {n} ELSE L
      /\ Of(ls, r, "tool") = IF line.run = r /\ line.kind = "tool" THEN T \cup {n} ELSE T
  BY OfGrown
<1>2. /\ L \subseteq Whole(f.lines) /\ IsFiniteSet(L) /\ n \notin L
      /\ IsFiniteSet(T) /\ n \notin T
  BY OfType
<1>3. Cardinality(L \cup {n}) = Cardinality(L) + 1 /\ Cardinality(T \cup {n}) = Cardinality(T) + 1
  BY <1>2, FS_AddElement
<1>4. Spent(ls, L) = Spent(f.lines, L) /\ Spent(ls, L \cup {n}) = Plus(Spent(f.lines, L), line.cost)
  BY <1>2, SpentGrown
<1>5. Cardinality(L) = a /\ Cardinality(T) = b /\ Spent(f.lines, L) = usd
  BY DEF Tally
<1> HIDE DEF ls, n, L, T
<1>6. line.run # r => Tally(ls, r, a, b, usd)
  BY <1>1, <1>4, <1>5 DEF Tally
<1>7. line.run = r /\ line.kind = "llm" => Tally(ls, r, a + 1, b, Plus(usd, line.cost))
  BY <1>1, <1>3, <1>4, <1>5 DEF Tally
<1>8. line.run = r /\ line.kind = "tool" => Tally(ls, r, a, b + 1, usd)
  BY <1>1, <1>3, <1>4, <1>5 DEF Tally
<1>9. line.run = r /\ line.kind = "run" => Tally(ls, r, a, b, usd)
  BY <1>1, <1>4, <1>5 DEF Tally
<1> QED
  BY <1>6, <1>7, <1>8, <1>9 DEF ls

LEMMA CaseGrown ==
    ASSUME NEW f, FileType(f), NEW line \in LineRecords, NEW c \in CaseRecords,
           CaseAdds(f.lines, c), line.run # c.run
    PROVE  CaseAdds(Grown(f, line), c)
<1>1. PICK i \in Whole(f.lines) : Of(f.lines, c.run, "run") = {i} /\ f.lines[i].outcome = c.stop
  BY DEF CaseAdds
<1>2. i \in Whole(Grown(f, line)) /\ Grown(f, line)[i] = f.lines[i]
  BY LinesGrown
<1>3. Of(Grown(f, line), c.run, "run") = Of(f.lines, c.run, "run")
  BY OfGrown
<1>4. c.iterations \in Nat /\ c.records \in Nat
  BY DEF CaseRecords
<1>5. Tally(Grown(f, line), c.run, c.iterations, c.records, c.usd)
  BY <1>4, TallyGrown DEF CaseAdds
<1> QED
  BY <1>1, <1>2, <1>3, <1>5 DEF CaseAdds

(* What a report adds up.                                                    *)
LEMMA TotalAppended ==
    ASSUME NEW cs \in Seq(CaseRecords), NEW c \in CaseRecords
    PROVE  /\ Total(cs) \in Amounts /\ Total(<<>>) = Free
           /\ Total(Append(cs, c)) = Plus(Total(cs), c.usd)
<1> DEFINE u == [n \in DOMAIN cs |-> cs[n].usd]
           d == Append(cs, c)
           n == Len(cs)
<1>1. n \in Nat /\ DOMAIN cs = 1..n /\ \A i \in 1..n : cs[i].usd \in Amounts
  <2>1. \A i \in 1..n : cs[i] \in CaseRecords
    OBVIOUS
  <2> QED
    BY <2>1 DEF CaseRecords
<1>2. u \in Seq(Amounts) /\ Len(u) = n /\ DOMAIN u = 1..n
  BY <1>1
<1>3. c.usd \in Amounts
  BY DEF CaseRecords
<1>4. /\ DOMAIN d = 1..(n + 1) /\ d[n + 1] = c /\ \A i \in 1..n : d[i] = cs[i]
  BY <1>1
<1>5. /\ Append(u, c.usd) = [i \in 1..(n + 1) |-> IF i = n + 1 THEN c.usd ELSE u[i]]
      /\ TotalCost(Append(u, c.usd)) = Plus(TotalCost(u), c.usd)
  BY <1>1, <1>2, <1>3, TotalAppend
<1> HIDE DEF d
<1>6. [i \in DOMAIN d |-> d[i].usd] = Append(u, c.usd)
  <2>1. \A i \in 1..(n + 1) : d[i].usd = IF i = n + 1 THEN c.usd ELSE u[i]
    <3> TAKE i \in 1..(n + 1)
    <3>1. i = n + 1 \/ i \in 1..n
      BY <1>1
    <3> QED
      BY <1>1, <1>4, <3>1
  <2> QED
    BY <1>4, <1>5, <2>1
<1>7. TotalCost(u) \in Amounts
  BY <1>2, TotalType
<1>8. Total(<<>>) = Free
  <2>1. [i \in DOMAIN <<>> |-> <<>>[i].usd] = <<>>
    OBVIOUS
  <2> QED
    BY <2>1, TotalEmpty DEF Total
<1> QED
  BY <1>5, <1>6, <1>7, <1>8 DEF Total, d

(* Where nothing is lost, a write appends its line.                          *)
LEMMA WriteTorn ==
    ASSUME NEW f, FileType(f), TornOK(f), NEW line, NEW disk \in WriteDisks
    PROVE  TornOK(Write(f, line, disk))
<1>1. CASE Write(f, line, disk) = f
  BY <1>1
<1>2. CASE ~Write(f, line, disk).torn
  BY <1>2 DEF TornOK
<1>3. CASE Write(f, line, disk).lines = Append(f.lines, Garbage)
  <2>1. Len(f.lines) \in Nat /\ Whole(f.lines) \subseteq 1..Len(f.lines)
    BY HeldLines
  <2>2. Whole(Append(f.lines, Garbage)) = Whole(f.lines)
        /\ DOMAIN Append(f.lines, Garbage) = 1..(Len(f.lines) + 1)
    BY WholeAppended
  <2>3. Len(f.lines) + 1 \in 1..(Len(f.lines) + 1) /\ Len(f.lines) + 1 \notin 1..Len(f.lines)
    BY <2>1
  <2>4. Whole(Append(f.lines, Garbage)) # DOMAIN Append(f.lines, Garbage)
    BY <2>1, <2>2, <2>3
  <2> QED
    BY <1>3, <2>4 DEF TornOK
<1>4. CASE Write(f, line, disk).lines = f.lines /\ f.torn
  BY <1>4 DEF TornOK
<1> QED
  BY <1>1, <1>2, <1>3, <1>4 DEF Write, WriteDisks

LEMMA WrittenWhole ==
    ASSUME "jsonl" \in backends, NEW f, FileType(f), TornOK(f), NEW line \in LineRecords,
           Whole(Write(f, line, "fine").lines) = DOMAIN Write(f, line, "fine").lines
    PROVE  Write(f, line, "fine").lines = Grown(f, line) /\ Whole(f.lines) = DOMAIN f.lines
<1>1. CASE f.torn
  <2>1. Write(f, line, "fine").lines = f.lines
    BY <1>1 DEF Write
  <2> QED
    BY <1>1, <2>1 DEF TornOK
<1>2. CASE ~f.torn
  <2>1. Write(f, line, "fine").lines = Grown(f, line)
    BY <1>2 DEF Write, Grown
  <2>2. /\ Whole(Grown(f, line)) = Whole(f.lines) \cup {Len(f.lines) + 1}
        /\ DOMAIN Grown(f, line) = 1..(Len(f.lines) + 1)
    BY LinesGrown
  <2>3. /\ Whole(f.lines) \subseteq 1..Len(f.lines) /\ Len(f.lines) \in Nat
        /\ DOMAIN f.lines = 1..Len(f.lines)
    BY HeldLines
  <2>4. ASSUME NEW i \in 1..Len(f.lines) PROVE i \in Whole(f.lines)
    <3>1. i \in 1..(Len(f.lines) + 1) /\ i # Len(f.lines) + 1
      BY <2>3
    <3>2. i \in Whole(Grown(f, line))
      BY <2>1, <2>2, <3>1
    <3> QED
      BY <2>2, <3>1, <3>2
  <2> QED
    BY <2>1, <2>3, <2>4
<1> QED
  BY <1>1, <1>2

LEMMA OneAppended ==
    ASSUME TypeInv, TornOK(file), NEW line \in LineRecords, NEW disk \in WriteDisks,
           file' = Write(file, line, disk), DisksPossible(<<disk>>), backends' = backends
    PROVE  /\ TornOK(file')
           /\ NothingLost' => NothingLost /\ file'.lines = Grown(file, line)
<1>1. TornOK(file')
  BY WriteTorn DEF TypeInv
<1>2. ASSUME NothingLost' PROVE NothingLost /\ file'.lines = Grown(file, line)
  <2>1. /\ "jsonl" \in backends /\ writeFaults' = 0 /\ Whole(file'.lines) = DOMAIN file'.lines
    BY <1>2 DEF NothingLost, WholeLines, Whole
  <2>2. writeFaults' = writeFaults + Fault(disk) /\ writeFaults \in Nat /\ Fault(disk) \in {0, 1}
    BY OneDisk, FaultType DEF DisksPossible, TypeInv
  <2>3. writeFaults = 0 /\ Fault(disk) = 0
    BY <2>1, <2>2
  <2>4. disk = "fine"
    BY <2>3 DEF Fault
  <2>5. file'.lines = Grown(file, line) /\ Whole(file.lines) = DOMAIN file.lines
    BY <2>1, <2>4, WrittenWhole DEF TypeInv
  <2> QED
    BY <2>1, <2>3, <2>5 DEF NothingLost, WholeLines, Whole
<1> QED
  BY <1>1, <1>2

LEMMA TwoAppended ==
    ASSUME TypeInv, TornOK(file), NEW line \in LineRecords, NEW last \in LineRecords,
           NEW d \in WriteDisks, NEW e \in WriteDisks, NEW f, f = Write(file, line, d),
           file' = Write(f, last, e), DisksPossible(<<d, e>>), backends' = backends
    PROVE  /\ TornOK(file') /\ FileType(f)
           /\ NothingLost' => /\ NothingLost /\ f.lines = Grown(file, line)
                              /\ file'.lines = Grown(f, last)
<1>1. FileType(f) /\ TornOK(f)
  BY WriteTorn, WriteType DEF TypeInv
<1>2. TornOK(file')
  BY <1>1, WriteTorn
<1>3. ASSUME NothingLost'
      PROVE  NothingLost /\ f.lines = Grown(file, line) /\ file'.lines = Grown(f, last)
  <2>1. /\ "jsonl" \in backends /\ writeFaults' = 0 /\ Whole(file'.lines) = DOMAIN file'.lines
    BY <1>3 DEF NothingLost, WholeLines, Whole
  <2>2. /\ writeFaults' = writeFaults + (Fault(d) + Fault(e)) /\ writeFaults \in Nat
        /\ Fault(d) \in {0, 1} /\ Fault(e) \in {0, 1}
    BY TwoDisks, FaultType DEF DisksPossible, TypeInv
  <2>3. writeFaults = 0 /\ Fault(d) = 0 /\ Fault(e) = 0
    BY <2>1, <2>2
  <2>4. d = "fine" /\ e = "fine"
    BY <2>3 DEF Fault
  <2>5. file'.lines = Grown(f, last) /\ Whole(f.lines) = DOMAIN f.lines
    BY <1>1, <2>1, <2>4, WrittenWhole
  <2>6. f.lines = Grown(file, line) /\ Whole(file.lines) = DOMAIN file.lines
    BY <2>1, <2>4, <2>5, WrittenWhole DEF TypeInv
  <2> QED
    BY <2>1, <2>3, <2>5, <2>6 DEF NothingLost, WholeLines, Whole
<1> QED
  BY <1>1, <1>2, <1>3

CasesAdd(ls) == \A n \in DOMAIN cases : ~Raised(cases[n]) => CaseAdds(ls, cases[n])

LEMMA CasesGrown ==
    ASSUME TypeInv, NEW f, FileType(f), CasesAdd(f.lines), NEW line \in LineRecords,
           \A n \in DOMAIN cases : cases[n].run # line.run
    PROVE  CasesAdd(Grown(f, line))
<1>1. \A n \in DOMAIN cases : cases[n] \in CaseRecords
  BY DEF TypeInv
<1> QED
  BY <1>1, CaseGrown DEF CasesAdd

LEMMA RunningApart ==
    ASSUME TypeInv, ObsInv, root # 0
    PROVE  \A n \in DOMAIN cases : cases[n].run # run
<1>1. \A n \in DOMAIN cases : cases[n].run < run /\ cases[n].run \in 1..run
  BY DEF ObsInv, CasesOK
<1> QED
  BY <1>1 DEF TypeInv

(* A child of the open run is written: a completion's cost is spent, a tool  *)
(* call costs nothing.                                                       *)
LEMMA ChildSpent ==
    ASSUME TypeInv, ObsInv, SpentInv, root # 0, NEW kind \in {"llm", "tool"},
           NEW outcome \in Outcomes, NEW cost \in Amounts, NEW disk \in WriteDisks,
           CloseChild(kind, outcome, cost, disk),
           UNCHANGED <<backends, process, run, root, cases>>,
           loop'.iterations = loop.iterations + (IF kind = "llm" THEN 1 ELSE 0),
           loop'.records = loop.records + (IF kind = "tool" THEN 1 ELSE 0),
           costs' = IF kind = "llm" THEN Append(costs, cost) ELSE costs
    PROVE  SpentInv'
<1>0. PICK line : line = Line(kind, seq + 1, depth, outcome, cost)
  OBVIOUS
<1>1. /\ line \in LineRecords /\ line.process = process /\ line.run = run /\ line.kind = kind
      /\ line.cost = cost
  BY <1>0, ChildLine DEF Line
<1>2. TornOK(file') /\ (NothingLost' => NothingLost /\ file'.lines = Grown(file, line))
  BY <1>0, <1>1, OneAppended DEF CloseChild, SpentInv
<1> SUFFICES ASSUME NothingLost'
             PROVE  /\ Tally(file'.lines, run', loop'.iterations, loop'.records, TotalCost(costs'))
                    /\ Of(file'.lines, run', "run") = {}
                    /\ \A n \in DOMAIN cases' : ~Raised(cases'[n]) => CaseAdds(file'.lines, cases'[n])
                    /\ Priced(Total(cases')) =>
                          Spent(file'.lines, By(file'.lines, process'))
                            = Plus(Total(cases'), TotalCost(costs'))
  BY <1>2 DEF SpentInv, Raised
<1>3. PICK ls : ls = Grown(file, line) /\ file'.lines = ls
  BY <1>2
<1>4. /\ Tally(file.lines, run, loop.iterations, loop.records, TotalCost(costs))
      /\ Of(file.lines, run, "run") = {}
      /\ CasesAdd(file.lines)
      /\ Priced(Total(cases)) =>
             Spent(file.lines, By(file.lines, process)) = Plus(Total(cases), TotalCost(costs))
  BY <1>2 DEF SpentInv, CasesAdd
<1>5. FileType(file) /\ costs \in Seq(Amounts) /\ cases \in Seq(CaseRecords)
      /\ loop.iterations \in Nat /\ loop.records \in Nat
  BY DEF TypeInv, LoopRecords
<1>6. TotalCost(costs') = IF kind = "llm" THEN Plus(TotalCost(costs), cost) ELSE TotalCost(costs)
  BY <1>5, TotalAppend
<1>7. Tally(ls, run, loop'.iterations, loop'.records, TotalCost(costs'))
  <2>1. CASE kind = "llm"
    <3>1. Tally(ls, run, loop.iterations + 1, loop.records, Plus(TotalCost(costs), cost))
      BY <1>1, <1>3, <1>4, <1>5, <2>1, TallyGrown
    <3>2. loop'.iterations = loop.iterations + 1 /\ loop'.records = loop.records
          /\ TotalCost(costs') = Plus(TotalCost(costs), cost)
      BY <1>5, <1>6, <2>1
    <3> QED
      BY <3>1, <3>2
  <2>2. CASE kind = "tool"
    <3>1. Tally(ls, run, loop.iterations, loop.records + 1, TotalCost(costs))
      BY <1>1, <1>3, <1>4, <1>5, <2>2, TallyGrown
    <3>2. loop'.iterations = loop.iterations /\ loop'.records = loop.records + 1
          /\ TotalCost(costs') = TotalCost(costs)
      BY <1>5, <1>6, <2>2
    <3> QED
      BY <3>1, <3>2
  <2> QED
    BY <2>1, <2>2
<1>8. Of(ls, run, "run") = {}
  <2>1. Of(Grown(file, line), run, "run") = Of(file.lines, run, "run")
    BY <1>1, <1>5, OfGrown
  <2> QED
    BY <1>3, <1>4, <2>1
<1>9. CasesAdd(ls)
  BY <1>1, <1>3, <1>4, <1>5, CasesGrown, RunningApart
<1>10. Priced(Total(cases)) => Spent(ls, By(ls, process)) = Plus(Total(cases), TotalCost(costs'))
  <2> SUFFICES ASSUME Priced(Total(cases))
               PROVE  Spent(ls, By(ls, process)) = Plus(Total(cases), TotalCost(costs'))
    OBVIOUS
  <2>1. Spent(ls, By(ls, process))
          = IF kind = "llm" THEN Plus(Spent(file.lines, By(file.lines, process)), cost)
            ELSE Spent(file.lines, By(file.lines, process))
    BY <1>1, <1>3, <1>5, SpentByGrown
  <2>2. Total(cases) \in Amounts /\ TotalCost(costs) \in Amounts
    <3>1. Empty \in CaseRecords
      BY UnpricedLine DEF Empty, CaseRecords, TypeInv, Traces
    <3> QED
      BY <1>5, <3>1, TotalAppended, TotalType
  <2>3. Plus(Plus(Total(cases), TotalCost(costs)), cost) = Plus(Total(cases), Plus(TotalCost(costs), cost))
    BY <2>2, PlusLaws
  <2> QED
    BY <1>4, <1>6, <2>1, <2>3
<1> QED
  BY <1>3, <1>7, <1>8, <1>9, <1>10 DEF CasesAdd

LEMMA EmptyType ==
    ASSUME TypeInv, NEW r \in Nat
    PROVE  [Empty EXCEPT !.run = r] \in CaseRecords /\ [Empty EXCEPT !.run = r].usd = Unpriced
           /\ Raised([Empty EXCEPT !.run = r]) /\ [Empty EXCEPT !.run = r].run = r
           /\ Empty \in CaseRecords /\ Empty.usd = Unpriced /\ Raised(Empty)
<1>1. Empty \in CaseRecords
  BY UnpricedLine DEF Empty, CaseRecords, TypeInv, Traces
<1>2. [Empty EXCEPT !.run = r] \in CaseRecords
  BY <1>1 DEF CaseRecords
<1>3. /\ [Empty EXCEPT !.run = r].usd = Unpriced /\ [Empty EXCEPT !.run = r].stop = "raised"
      /\ [Empty EXCEPT !.run = r].run = r /\ Empty.usd = Unpriced /\ Empty.stop = "raised"
  BY DEF Empty
<1> QED
  BY <1>1, <1>2, <1>3 DEF Raised

(* The report of a raised run has no price, and the total with it.           *)
LEMMA RaisedUnpriced ==
    ASSUME TypeInv, NEW c \in CaseRecords, c.usd = Unpriced
    PROVE  ~Priced(Total(Append(cases, c)))
<1>1. Total(Append(cases, c)) = Plus(Total(cases), Unpriced)
  BY TotalAppended DEF TypeInv
<1> QED
  BY <1>1 DEF Plus, Priced

(* A raised run is reported, and the lines of the others are as they were.   *)
LEMMA RaisedReported ==
    ASSUME TypeInv, NEW ls, CasesAdd(ls), NEW c \in CaseRecords, Raised(c), c.usd = Unpriced,
           TornOK(file'), NothingLost' => file'.lines = ls,
           cases' = Append(cases, c), root' = 0
    PROVE  SpentInv'
<1>1. /\ DOMAIN cases' = 1..(Len(cases) + 1) /\ DOMAIN cases = 1..Len(cases) /\ Len(cases) \in Nat
      /\ cases'[Len(cases) + 1] = c /\ \A n \in DOMAIN cases : cases'[n] = cases[n]
  BY DEF TypeInv
<1>2. \A n \in DOMAIN cases' : n = Len(cases) + 1 \/ n \in DOMAIN cases
  BY <1>1
<1>3. \A n \in DOMAIN cases' : ~Raised(cases'[n]) => CaseAdds(ls, cases'[n])
  BY <1>1, <1>2 DEF CasesAdd
<1>4. ~Priced(Total(cases'))
  BY RaisedUnpriced
<1> SUFFICES ASSUME NothingLost'
             PROVE  /\ \A n \in DOMAIN cases' : ~Raised(cases'[n]) => CaseAdds(file'.lines, cases'[n])
                    /\ ~Priced(Total(cases'))
  BY DEF SpentInv, Raised
<1>5. file'.lines = ls
  OBVIOUS
<1> QED
  BY <1>3, <1>4, <1>5

LEMMA RunRefusedSpent ==
    ASSUME TypeInv, ObsInv, SpentInv, NEW disk \in WriteDisks, RunRefused(disk)
    PROVE  SpentInv'
<1> DEFINE child == Line("run", seq + 1, depth, "none", Unpriced)
<1>0. PICK line : line = [child EXCEPT !.run = run + 1]
  OBVIOUS
<1>1. line \in LineRecords /\ line.run = run + 1 /\ run + 1 \in Nat
  <2>1. seq + 1 \in Nat \ {0} /\ depth \in Nat /\ run + 1 \in Nat
    BY DEF TypeInv
  <2>2. child \in LineRecords
    BY <2>1, LineType, UnpricedLine DEF Kinds, Outcomes
  <2> HIDE DEF child
  <2> QED
    BY <1>0, <2>1, <2>2 DEF LineRecords
<1>2. /\ file' = Write(file, line, disk) /\ DisksPossible(<<disk>>) /\ backends' = backends
      /\ root' = 0 /\ cases' = Append(cases, [Empty EXCEPT !.run = run + 1])
  BY <1>0 DEF RunRefused
<1>3. TornOK(file') /\ (NothingLost' => NothingLost /\ file'.lines = Grown(file, line))
  BY <1>1, <1>2, OneAppended DEF SpentInv
<1>4. \A n \in DOMAIN cases : cases[n].run # line.run
  <2>1. \A n \in DOMAIN cases : cases[n].run \in 1..run /\ run \in Nat
    BY DEF ObsInv, CasesOK, TypeInv
  <2>2. \A n \in DOMAIN cases : cases[n].run # run + 1
    BY <2>1
  <2> QED
    BY <1>1, <2>2
<1>5. PICK c \in CaseRecords : c = [Empty EXCEPT !.run = run + 1] /\ Raised(c) /\ c.usd = Unpriced
  BY <1>1, EmptyType
<1>6. CASE NothingLost'
  <2>1. CasesAdd(file.lines)
    BY <1>3, <1>6 DEF SpentInv, CasesAdd
  <2>2. CasesAdd(Grown(file, line))
    BY <1>1, <1>4, <2>1, CasesGrown DEF TypeInv
  <2> QED
    BY <1>2, <1>3, <1>5, <2>2, RaisedReported
<1>7. CASE ~NothingLost'
  BY <1>3, <1>7 DEF SpentInv
<1> QED
  BY <1>6, <1>7

LEMMA RunRaisesSpent ==
    ASSUME TypeInv, ObsInv, SpentInv, NEW kind \in {"llm", "tool"}, NEW start \in Starts,
           NEW d \in WriteDisks, NEW e \in WriteDisks, RunRaises(kind, start, <<d, e>>)
    PROVE  SpentInv'
<1>0. PICK line, last, f :
          /\ line = Line(kind, seq + 1, depth, "none", Unpriced)
          /\ last = Line("run", root, depth - 1, "none", Unpriced)
          /\ f = Write(file, line, d)
  OBVIOUS
<1>1. /\ file' = Write(f, last, e) /\ DisksPossible(<<d, e>>) /\ backends' = backends
      /\ root # 0 /\ root' = 0 /\ cases' = Append(cases, Empty)
  BY <1>0 DEF RunRaises, CloseBoth, Ready, InTools, Running, NoRun
<1>2. Unpriced \in Amounts /\ "none" \in Outcomes
  BY UnpricedLine DEF Outcomes
<1>3. line \in LineRecords /\ line.run = run
  BY <1>0, <1>2, ChildLine DEF Line
<1>4. last \in LineRecords /\ last.run = run
  BY <1>0, <1>1, <1>2, RunLine DEF Line
<1>5. /\ TornOK(file') /\ FileType(f)
      /\ NothingLost' => /\ NothingLost /\ f.lines = Grown(file, line)
                         /\ file'.lines = Grown(f, last)
  BY <1>0, <1>1, <1>3, <1>4, TwoAppended DEF SpentInv
<1>6. \A n \in DOMAIN cases : cases[n].run # run
  BY <1>1, RunningApart
<1>7. Empty \in CaseRecords /\ Raised(Empty) /\ Empty.usd = Unpriced
  BY EmptyType
<1>8. CASE NothingLost'
  <2>1. CasesAdd(file.lines)
    BY <1>5, <1>8 DEF SpentInv, CasesAdd
  <2>2. CasesAdd(f.lines)
    BY <1>3, <1>5, <1>6, <1>8, <2>1, CasesGrown DEF TypeInv
  <2>3. CasesAdd(Grown(f, last))
    BY <1>4, <1>5, <1>6, <2>2, CasesGrown
  <2> QED
    BY <1>1, <1>5, <1>7, <2>3, RaisedReported
<1>9. CASE ~NothingLost'
  BY <1>5, <1>9 DEF SpentInv
<1> QED
  BY <1>8, <1>9

LEMMA OpenRunSpent ==
    ASSUME TypeInv, LinesInv, SpentInv, NEW start \in Starts, OpenRun(start)
    PROVE  SpentInv'
<1>1. /\ root = 0 /\ run' = run + 1 /\ UNCHANGED <<backends, process, file, writeFaults, costs, cases>>
      /\ loop' = [Idle EXCEPT !.stop = "running"]
  BY DEF OpenRun
<1>2. loop'.iterations = 0 /\ loop'.records = 0 /\ costs = <<>>
  BY <1>1 DEF Idle, TypeInv
<1>3. TornOK(file') /\ (NothingLost' => NothingLost)
  BY <1>1 DEF SpentInv, NothingLost, WholeLines
<1>4. PICK r : r = run + 1
  OBVIOUS
<1>5. \A kind : Of(file.lines, r, kind) = {}
  <2>1. \A i \in Whole(file.lines) : file.lines[i].run <= run /\ file.lines[i].run \in Nat /\ run \in Nat
    BY HeldLines DEF LinesInv, KnownLine, TypeInv, Held, LineRecords
  <2>2. \A i \in Whole(file.lines) : file.lines[i].run # r
    BY <1>4, <2>1
  <2> QED
    BY <2>2 DEF Of
<1>6. Tally(file.lines, r, 0, 0, TotalCost(<<>>))
  <2>1. FileType(file) /\ {} \subseteq Whole(file.lines)
    BY DEF TypeInv
  <2>2. Spent(file.lines, {}) = Free
    BY <2>1, MarkedType
  <2> QED
    BY <1>5, <2>2, TotalEmpty, FS_EmptySet DEF Tally
<1> SUFFICES ASSUME NothingLost'
             PROVE  /\ Tally(file'.lines, run', loop'.iterations, loop'.records, TotalCost(costs'))
                    /\ Of(file'.lines, run', "run") = {}
                    /\ \A n \in DOMAIN cases' : ~Raised(cases'[n]) => CaseAdds(file'.lines, cases'[n])
                    /\ Priced(Total(cases')) =>
                          Spent(file'.lines, By(file'.lines, process'))
                            = Plus(Total(cases'), TotalCost(costs'))
  BY <1>3 DEF SpentInv, Raised
<1>7. /\ \A n \in DOMAIN cases : ~Raised(cases[n]) => CaseAdds(file.lines, cases[n])
      /\ Priced(Total(cases)) =>
             Spent(file.lines, By(file.lines, process)) = Plus(Total(cases), TotalCost(costs))
  BY <1>3 DEF SpentInv
<1>8. Tally(file'.lines, run', loop'.iterations, loop'.records, TotalCost(costs'))
  BY <1>1, <1>2, <1>4, <1>6
<1> QED
  BY <1>1, <1>4, <1>5, <1>7, <1>8

(* The run is over, and is reported as the file has it.                      *)
LEMMA CloseRunSpent ==
    ASSUME TypeInv, ObsInv, SpentInv, NEW disk \in WriteDisks, CloseRun(disk)
    PROVE  SpentInv'
<1>0. PICK line, c : /\ line = Line("run", root, depth - 1, loop.stop, Unpriced)
                     /\ c = Finished
  OBVIOUS
<1>1. /\ file' = Write(file, line, disk) /\ DisksPossible(<<disk>>) /\ root # 0 /\ root' = 0
      /\ cases' = Append(cases, c) /\ costs' = <<>> /\ UNCHANGED <<backends, process>>
  BY <1>0 DEF CloseRun, NoRun
<1>2. loop.stop \in Outcomes
  BY DEF TypeInv, LoopRecords, Outcomes
<1>3. /\ line \in LineRecords /\ line.run = run /\ line.kind = "run" /\ line.outcome = loop.stop
  BY <1>0, <1>1, <1>2, RunLine DEF Line
<1>4. TornOK(file') /\ (NothingLost' => NothingLost /\ file'.lines = Grown(file, line))
  BY <1>1, <1>3, OneAppended DEF SpentInv
<1>5. /\ FileType(file) /\ costs \in Seq(Amounts) /\ cases \in Seq(CaseRecords)
      /\ loop.iterations \in Nat /\ loop.records \in Nat /\ TotalCost(costs) \in Amounts
  BY TotalType DEF TypeInv, LoopRecords
<1>6. c \in CaseRecords
  BY <1>0, <1>5, Observable DEF Finished, CaseRecords, TypeInv, LoopRecords
<1>7. /\ c.run = run /\ c.iterations = loop.iterations /\ c.records = loop.records
      /\ c.usd = TotalCost(costs) /\ c.stop = loop.stop
  BY <1>0 DEF Finished
<1> SUFFICES ASSUME NothingLost'
             PROVE  /\ \A n \in DOMAIN cases' : ~Raised(cases'[n]) => CaseAdds(file'.lines, cases'[n])
                    /\ Priced(Total(cases')) =>
                          Spent(file'.lines, By(file'.lines, process'))
                            = Plus(Total(cases'), TotalCost(costs'))
  BY <1>1, <1>4 DEF SpentInv, Raised
<1>8. PICK ls : ls = Grown(file, line) /\ file'.lines = ls
  BY <1>4
<1>9. /\ Tally(file.lines, run, loop.iterations, loop.records, TotalCost(costs))
      /\ Of(file.lines, run, "run") = {}
      /\ CasesAdd(file.lines)
      /\ Priced(Total(cases)) =>
             Spent(file.lines, By(file.lines, process)) = Plus(Total(cases), TotalCost(costs))
  BY <1>1, <1>4 DEF SpentInv, CasesAdd
<1>10. CaseAdds(ls, c)
  <2>1. Tally(ls, run, loop.iterations, loop.records, TotalCost(costs))
    BY <1>3, <1>5, <1>8, <1>9, TallyGrown
  <2>2. Of(ls, run, "run") = Of(file.lines, run, "run") \cup {Len(file.lines) + 1}
    BY <1>3, <1>5, <1>8, OfGrown
  <2>3. Len(file.lines) + 1 \in Whole(ls) /\ ls[Len(file.lines) + 1] = line
    BY <1>3, <1>5, <1>8, LinesGrown
  <2> QED
    BY <1>3, <1>7, <1>9, <2>1, <2>2, <2>3 DEF CaseAdds
<1>11. CasesAdd(ls)
  BY <1>1, <1>3, <1>5, <1>8, <1>9, CasesGrown, RunningApart
<1>12. \A n \in DOMAIN cases' : ~Raised(cases'[n]) => CaseAdds(ls, cases'[n])
  <2>1. /\ DOMAIN cases' = 1..(Len(cases) + 1) /\ DOMAIN cases = 1..Len(cases) /\ Len(cases) \in Nat
        /\ cases'[Len(cases) + 1] = c /\ \A n \in DOMAIN cases : cases'[n] = cases[n]
    BY <1>1, <1>5
  <2>2. \A n \in DOMAIN cases' : n = Len(cases) + 1 \/ n \in DOMAIN cases
    BY <2>1
  <2> QED
    BY <1>10, <1>11, <2>1, <2>2 DEF CasesAdd
<1>13. Priced(Total(cases')) =>
           Spent(ls, By(ls, process)) = Plus(Total(cases'), TotalCost(<<>>))
  <2> SUFFICES ASSUME Priced(Total(cases'))
               PROVE  Spent(ls, By(ls, process)) = Plus(Total(cases'), TotalCost(<<>>))
    OBVIOUS
  <2>1. /\ Total(cases) \in Amounts /\ Total(cases') = Plus(Total(cases), TotalCost(costs))
    BY <1>1, <1>5, <1>6, <1>7, TotalAppended
  <2>2. Priced(Total(cases)) /\ Total(cases') \in Amounts
        /\ Plus(Total(cases'), Free) = Total(cases')
    BY <1>5, <2>1, PlusLaws
  <2>3. Spent(ls, By(ls, process)) = Spent(file.lines, By(file.lines, process))
    BY <1>3, <1>5, <1>8, SpentByGrown
  <2> QED
    BY <1>9, <2>1, <2>2, <2>3, TotalEmpty
<1> QED
  BY <1>1, <1>8, <1>12, <1>13

LEMMA NewProcessSpent ==
    ASSUME TypeInv, LinesInv, SpentInv, NEW ending, NewProcess(ending),
           NEW disk \in WriteDisks, file' \in {file, Write(file, Garbage, disk)}
    PROVE  SpentInv'
<1>1. root' = 0 /\ process' = process + 1 /\ cases' = <<>> /\ costs' = <<>>
  BY DEF NewProcess, NoRun
<1>2. TornOK(file') /\ FileType(file')
  BY WriteTorn, WriteType DEF SpentInv, TypeInv
<1>3. By(file'.lines, process') = {}
  <2>1. /\ Whole(file'.lines) = Whole(file.lines)
        /\ \A i \in Whole(file.lines) : file'.lines[i] = file.lines[i]
    BY HeldAfterTorn DEF TypeInv
  <2>2. ASSUME NEW i \in Whole(file.lines) PROVE file.lines[i].process # process'
    <3>1. file.lines[i].process \in Nat /\ process \in Nat /\ file.lines[i].process <= process
      BY HeldLines DEF LinesInv, KnownLine, TypeInv, Held, LineRecords
    <3> QED
      BY <1>1, <3>1
  <2> QED
    BY <2>1, <2>2 DEF By
<1>4. Spent(file'.lines, {}) = Free
  BY <1>2, MarkedType
<1>5. Total(<<>>) = Free /\ TotalCost(<<>>) = Free /\ Plus(Free, Free) = Free
  <2>1. Free \in Amounts
    BY DEF Free, Amounts
  <2> QED
    BY <2>1, TotalAppended, TotalEmpty, EmptyType, PlusLaws DEF TypeInv
<1>6. Spent(file'.lines, By(file'.lines, process')) = Plus(Total(cases'), TotalCost(costs'))
  BY <1>1, <1>3, <1>4, <1>5
<1>7. DOMAIN cases' = {}
  BY <1>1
<1> QED
  BY <1>1, <1>2, <1>6, <1>7 DEF SpentInv

LEMMA SpentInvariant == TracingSpec => []SpentInv
<1>1. TracingInit => SpentInv
  <2> SUFFICES ASSUME TracingInit PROVE SpentInv
    OBVIOUS
  <2>1. root = 0 /\ cases = <<>> /\ costs = <<>> /\ file = [lines |-> <<>>, torn |-> FALSE]
    BY DEF TracingInit
  <2>2. TornOK(file)
    BY <2>1 DEF TornOK
  <2>3. FileType(file) /\ By(file.lines, process) = {}
    BY <2>1 DEF FileType, By, Whole
  <2>4. Spent(file.lines, {}) = Free
    BY <2>3, MarkedType
  <2>5. Total(<<>>) = Free
    <3>1. [i \in DOMAIN <<>> |-> <<>>[i].usd] = <<>>
      OBVIOUS
    <3> QED
      BY <3>1, TotalEmpty DEF Total
  <2>6. Plus(Free, Free) = Free
    BY PlusLaws DEF Free, Amounts
  <2>7. Spent(file.lines, By(file.lines, process)) = Plus(Total(cases), TotalCost(costs))
    BY <2>1, <2>3, <2>4, <2>5, <2>6, TotalEmpty
  <2>8. DOMAIN cases = {}
    BY <2>1
  <2> QED
    BY <2>1, <2>2, <2>7, <2>8 DEF SpentInv
<1>2. TypeInv /\ LinesInv /\ ObsInv /\ SpentInv /\ [TracingNext]_tracingVars => SpentInv'
  <2> SUFFICES ASSUME TypeInv, LinesInv, ObsInv, SpentInv, [TracingNext]_tracingVars
               PROVE  SpentInv'
    OBVIOUS
  <2>1. ASSUME UNCHANGED tracingVars PROVE SpentInv'
    <3>1. UNCHANGED <<backends, process, run, loop, costs, root, file, cases, writeFaults>>
      BY <2>1 DEF tracingVars, loopVars, fileVars
    <3> QED
      BY <3>1 DEF SpentInv, NothingLost, WholeLines, Raised
  <2>2. ASSUME NEW n \in 0..MaxCalls, NEW tokens \in Tokens, NEW start \in Starts,
               NEW disk \in WriteDisks, Completion(n, tokens, start, disk)
        PROVE  SpentInv'
    <3>1. PICK cost \in Amounts : cost = CostFor(tokens, rates)
      BY CostIsAmount, Constants0 DEF TypeInv
    <3>2. /\ root # 0 /\ CloseChild("llm", "answered", cost, disk) /\ "answered" \in Outcomes
          /\ UNCHANGED <<backends, process, run, root, cases>>
          /\ costs' = Append(costs, cost) /\ loop' = AfterMessage(n)
      BY <2>2, <3>1 DEF Completion, Ready, Running, Outcomes
    <3>3. loop'.iterations = loop.iterations + 1 /\ loop'.records = loop.records + 0
      <4>1. loop \in LoopRecords
        BY DEF TypeInv
      <4> DEFINE l == [loop EXCEPT !.iterations = @ + 1, !.left = n, !.accepted = FALSE]
      <4>2. l.iterations = loop.iterations + 1 /\ l.records = loop.records
            /\ DOMAIN l = DOMAIN loop
        BY <4>1 DEF LoopRecords
      <4>3. loop.records + 0 = loop.records
        BY <4>1 DEF LoopRecords
      <4>4. AfterMessage(n).iterations = l.iterations /\ AfterMessage(n).records = l.records
        BY <4>1 DEF AfterMessage, NextRound, LoopRecords
      <4> QED
        BY <3>2, <4>2, <4>3, <4>4
    <3> QED
      BY <3>2, <3>3, ChildSpent
  <2>3. ASSUME NEW answer \in {"answered", "accepted"}, NEW start \in Starts,
               NEW disk \in WriteDisks, ToolCall(answer, start, disk)
        PROVE  SpentInv'
    <3>1. /\ root # 0 /\ CloseChild("tool", answer, Unpriced, disk) /\ answer \in Outcomes
          /\ UNCHANGED <<backends, process, run, root, cases, costs>> /\ Unpriced \in Amounts
      BY <2>3, UnpricedLine DEF ToolCall, InTools, Running, Outcomes
    <3>2. loop'.iterations = loop.iterations + 0 /\ loop'.records = loop.records + 1
      <4>1. loop \in LoopRecords
        BY DEF TypeInv
      <4>2. loop.iterations + 0 = loop.iterations
        BY <4>1 DEF LoopRecords
      <4> DEFINE l == [loop EXCEPT !.left = @ - 1, !.records = @ + 1,
                                   !.accepted = @ \/ answer = "accepted"]
      <4>3. loop' = IF l.left > 0 THEN l
                    ELSE IF l.accepted THEN [l EXCEPT !.stop = "SUBMITTED"]
                    ELSE NextRound(l)
        BY <2>3 DEF ToolCall
      <4>4. l.iterations = loop.iterations /\ l.records = loop.records + 1
            /\ DOMAIN l = {"stop", "iterations", "nudged", "left", "accepted", "records"}
        BY <4>1 DEF LoopRecords
      <4> HIDE DEF l
      <4>5. loop' \in {l, [l EXCEPT !.stop = "SUBMITTED"], [l EXCEPT !.stop = "MAX_ITERATIONS"]}
        BY <4>3 DEF NextRound
      <4>6. loop'.iterations = l.iterations /\ loop'.records = l.records
        BY <4>4, <4>5
      <4> QED
        BY <4>2, <4>4, <4>6
    <3> QED
      BY <3>1, <3>2, ChildSpent
  <2>4. ASSUME NEW kind \in {"llm", "tool"}, NEW start \in Starts, NEW disk \in WriteDisks,
               NEW last \in WriteDisks, RunRaises(kind, start, <<disk, last>>)
        PROVE  SpentInv'
    BY <2>4, RunRaisesSpent
  <2>5. ASSUME NEW reached \in BOOLEAN, Exit(reached) PROVE SpentInv'
    <3>1. file' = file /\ "fine" \in WriteDisks
      BY <2>5 DEF Exit, WriteDisks
    <3> QED
      BY <2>5, <3>1, NewProcessSpent DEF Exit
  <2>6. ASSUME NEW disk \in WriteDisks, Kill(disk, {}) \/ Kill(disk, buffer) PROVE SpentInv'
    BY <2>6, NewProcessSpent DEF Kill
  <2> QED
    BY <2>1, <2>2, <2>3, <2>4, <2>5, <2>6, OpenRunSpent, RunRefusedSpent, CloseRunSpent
    DEF TracingNext
<1> QED
  BY <1>1, <1>2, TypeInvariant, LinesInvariant, ObsInvariant, PTL DEF TracingSpec

(* Where no line was lost, a run's record and its lines agree: completions,  *)
(* tool calls, cost and outcome, for any number of them.                     *)
THEOREM RecordsAddUp == TracingSpec => []RunsAddUp
<1>1. SpentInv => RunsAddUp
  <2> SUFFICES ASSUME SpentInv, NothingLost, NEW n \in DOMAIN cases, ~Raised(cases[n])
               PROVE  LET c == cases[n] IN
                      /\ Cardinality(OfRun(c.run, "llm")) = c.iterations
                      /\ Cardinality(OfRun(c.run, "tool")) = c.records
                      /\ TotalCost(CostsOn(OfRun(c.run, "llm"))) = c.usd
                      /\ \E i \in WholeLines : /\ OfRun(c.run, "run") = {i}
                                               /\ file.lines[i].outcome = c.stop
    BY DEF RunsAddUp
  <2>1. CaseAdds(file.lines, cases[n])
    BY DEF SpentInv
  <2>2. WholeLines = Whole(file.lines) /\ \A r, kind : OfRun(r, kind) = Of(file.lines, r, kind)
    BY DEF WholeLines, Whole, OfRun, Of
  <2>3. \A S : TotalCost(CostsOn(S)) = Spent(file.lines, S)
    BY DEF CostsOn, Spent, Marked
  <2> QED
    BY <2>1, <2>2, <2>3 DEF CaseAdds, Tally
<1> QED
  BY <1>1, SpentInvariant, PTL

(* Where no line was lost, a total that is stated states all that was spent. *)
THEOREM TotalsAreWhole == TracingSpec => []NothingSpentIsMissing
<1>1. TypeInv /\ SpentInv => NothingSpentIsMissing
  <2> SUFFICES ASSUME TypeInv, SpentInv, NothingLost, root = 0, Priced(ReportTotal)
               PROVE  TotalCost(CostsOn(SpentBy(process))) = ReportTotal
    BY DEF NothingSpentIsMissing
  <2>1. ReportTotal = Total(cases)
    BY DEF ReportTotal, Total
  <2>2. SpentBy(process) = By(file.lines, process)
    BY DEF SpentBy, By, WholeLines, Whole
  <2>3. TotalCost(CostsOn(By(file.lines, process))) = Spent(file.lines, By(file.lines, process))
    BY DEF CostsOn, Spent, Marked
  <2>4. Spent(file.lines, By(file.lines, process)) = Plus(Total(cases), TotalCost(costs))
    BY <2>1 DEF SpentInv
  <2>5. costs = <<>> /\ Total(cases) \in Amounts
    BY EmptyType, TotalAppended DEF TypeInv
  <2> QED
    BY <2>1, <2>2, <2>3, <2>4, <2>5, TotalEmpty, PlusLaws
<1> QED
  BY <1>1, TypeInvariant, SpentInvariant, PTL

=============================================================================
