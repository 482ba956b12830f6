----------------------------- MODULE DatasetProofs -----------------------------
(***************************************************************************)
(* Theorems about the files under data/, for every configuration, every    *)
(* edit of it and any number of generator runs and edits, wherever the     *)
(* generator is killed and whenever the ERP reads.                         *)
(***************************************************************************)
EXTENDS Dataset, Baseline, Induction, SequenceTheorems, TLAPS

Names == {Dumped[i] : i \in DOMAIN Dumped}

Typed == UNION {[typed -> UNION {Texts[field] : field \in Fields}] :
                    typed \in SUBSET (Edited \X Fields)}
File == [state : {"cut", "whole"}, cfg : Possible, write : Nat, changed : Typed]
IsFile(file) == \/ file = Missing
                \/ file \in File /\ file.write \in 1..writes

There(name) == files[name] # Missing

(* The running generator: it has filled the files before the one it is at,   *)
(* and has not touched those after it.                                       *)
WriterInv ==
    \/ writer = Idle
    \/ /\ writer = [next |-> writer.next, cfg |-> writer.cfg]
       /\ writer.next \in 1..7 /\ writer.cfg \in Possible /\ writes >= 1
       /\ \A k \in 1..(writer.next - 1) :
              There(Dumped[k]) /\ IsWhole(files[Dumped[k]]) /\ files[Dumped[k]].write = writes
       /\ \A k \in (writer.next + 1)..7 :
              There(Dumped[k]) => files[Dumped[k]].write < writes

(* A key, whole or not, is not ahead of the documents.                       *)
KeyInv ==
    There("labels") => \A k \in 1..5 :
        /\ There(Dumped[k]) /\ files[Dumped[k]].write >= files["labels"].write
        /\ files[Dumped[k]].write = files["labels"].write => IsWhole(files[Dumped[k]])

FilesInv ==
    /\ writes \in Nat
    /\ files = [name \in Names |-> files[name]]
    /\ \A name \in Names : IsFile(files[name])
    /\ config \in Possible
    /\ WriterInv /\ KeyInv

LEMMA DumpedFacts ==
    /\ Dumped \in Seq(Names) /\ Len(Dumped) = 7 /\ DOMAIN Dumped = 1..7
    /\ Names = {"master_data", "purchase_orders", "goods_receipts", "invoices",
                "tolerances", "labels", "splits"}
    /\ Dumped[1] = "master_data" /\ Dumped[2] = "purchase_orders" /\ Dumped[3] = "goods_receipts"
    /\ Dumped[4] = "invoices" /\ Dumped[5] = "tolerances" /\ Dumped[6] = "labels"
    /\ Dumped[7] = "splits"
BY DEF Dumped, Names

LEMMA DumpedOnce ==
    ASSUME NEW j \in 1..7, NEW k \in 1..7, Dumped[j] = Dumped[k]
    PROVE  j = k
BY DumpedFacts

LEMMA ReadFacts ==
    /\ Len(Read) = 5 /\ DOMAIN Read = 1..5
    /\ \A k \in 1..5 : Read[k] = Dumped[k]
BY DEF Read, Dumped

LEMMA FileReplaced ==
    ASSUME FilesInv, NEW name \in Names, NEW x, files' = [files EXCEPT ![name] = x]
    PROVE  /\ files' = [n \in Names |-> files'[n]]
           /\ files'[name] = x
           /\ \A n \in Names \ {name} : files'[n] = files[n]
BY DEF FilesInv

LEMMA NothingTyped == <<>> \in Typed
<1>1. <<>> \in [{} -> UNION {Texts[field] : field \in Fields}]
  OBVIOUS
<1> QED
  BY <1>1 DEF Typed

LEMMA MoreTyped ==
    ASSUME NEW i \in Edited, NEW field \in Fields, NEW text \in Texts[field], NEW c \in Typed
    PROVE  [at \in DOMAIN c \cup {<<i, field>>} |->
                IF at = <<i, field>> THEN text ELSE c[at]] \in Typed
<1> DEFINE T == UNION {Texts[f] : f \in Fields}
           new == <<i, field>>
<1>1. PICK typed \in SUBSET (Edited \X Fields) : c \in [typed -> T]
  BY DEF Typed
<1>2. new \in Edited \X Fields /\ text \in T
  OBVIOUS
<1>3. DOMAIN c = typed /\ typed \cup {new} \in SUBSET (Edited \X Fields)
  BY <1>1, <1>2
<1> HIDE DEF T, new
<1>4. [at \in typed \cup {new} |-> IF at = new THEN text ELSE c[at]] \in [typed \cup {new} -> T]
  BY <1>1, <1>2
<1>5. [at \in DOMAIN c \cup {new} |-> IF at = new THEN text ELSE c[at]] \in Typed
  BY <1>3, <1>4 DEF Typed, T
<1> QED
  BY <1>5 DEF new

(* What a generator writes is a file of its own writing.                     *)
LEMMA ContentIsFile ==
    ASSUME FilesInv, Generating, NEW state \in {"cut", "whole"}
    PROVE  /\ Content(state) # Missing /\ Content(state).write = writes
           /\ Content(state).cfg = writer.cfg /\ Content(state).state = state
           /\ IsFile(Content(state))
<1>1. writes \in 1..writes /\ writer.cfg \in Possible
  BY DEF FilesInv, WriterInv, Generating
<1>2. /\ Content(state) = [state |-> state, cfg |-> writer.cfg, write |-> writes, changed |-> <<>>]
  BY DEF Content
<1> QED
  BY <1>1, <1>2, NothingTyped DEF IsFile, Missing, File, FilesInv

LEMMA FilesInitial == DatasetInit => FilesInv
<1> SUFFICES ASSUME DatasetInit PROVE FilesInv
  OBVIOUS
<1>1. /\ files = [name \in Names |-> Missing] /\ writes = 0 /\ writer = Idle
      /\ config \in Possible
  BY DEF DatasetInit, Names, Possible
<1>2. "labels" \in Names
  BY DumpedFacts
<1>3. \A name \in Names : files[name] = Missing
  BY <1>1
<1>4. KeyInv
  BY <1>2, <1>3 DEF KeyInv, There
<1>5. files = [name \in Names |-> files[name]]
  BY <1>1
<1>6. \A name \in Names : IsFile(files[name])
  BY <1>3 DEF IsFile
<1>7. WriterInv /\ writes \in Nat
  BY <1>1 DEF WriterInv
<1> QED
  BY <1>1, <1>4, <1>5, <1>6, <1>7 DEF FilesInv

LEMMA GenerateKeeps ==
    ASSUME FilesInv, Generate
    PROVE  FilesInv'
<1>1. /\ writes' = writes + 1 /\ writer' = [next |-> 1, cfg |-> config]
      /\ files' = files /\ config' = config
  BY DEF Generate
<1>2. writer'.next = 1 /\ writer'.cfg = config
  BY <1>1
<1>3. \A name \in Names : IsFile(files[name])' /\ (There(name) => files[name].write < writes')
  BY <1>1 DEF FilesInv, IsFile, There
<1>4. WriterInv'
  BY <1>1, <1>2, <1>3, DumpedFacts DEF FilesInv, WriterInv, There
<1> QED
  BY <1>1, <1>3, <1>4 DEF FilesInv, KeyInv, There, IsWhole

(* A file is written: the key stays behind the documents, wherever the       *)
(* generator is.                                                             *)
LEMMA WrittenFile ==
    ASSUME FilesInv, Generating, NEW state \in {"cut", "whole"},
           files' = [files EXCEPT ![Dumped[writer.next]] = Content(state)],
           writes' = writes
    PROVE  /\ files' = [n \in Names |-> files'[n]]
           /\ \A name \in Names : IsFile(files[name])'
           /\ KeyInv'
           /\ files'[Dumped[writer.next]] = Content(state)
           /\ \A k \in 1..7 \ {writer.next} : files'[Dumped[k]] = files[Dumped[k]]
<1> DEFINE at == writer.next
<1>1. /\ at \in 1..7 /\ writes \in Nat
      /\ \A k \in 1..(at - 1) :
             There(Dumped[k]) /\ IsWhole(files[Dumped[k]]) /\ files[Dumped[k]].write = writes
      /\ \A k \in (at + 1)..7 : There(Dumped[k]) => files[Dumped[k]].write < writes
  BY DEF FilesInv, WriterInv, Generating
<1>2. Dumped[at] \in Names /\ \A k \in 1..7 : Dumped[k] \in Names
  BY <1>1, DumpedFacts
<1> DEFINE new == Content(state)
<1>3. new # Missing /\ new.write = writes /\ new.state = state /\ IsFile(new)
  BY ContentIsFile
<1> HIDE DEF new
<1>4. /\ files' = [n \in Names |-> files'[n]]
      /\ files'[Dumped[at]] = new
      /\ \A n \in Names \ {Dumped[at]} : files'[n] = files[n]
  BY <1>2, FileReplaced DEF new
<1>5. \A k \in 1..7 \ {at} : files'[Dumped[k]] = files[Dumped[k]]
  BY <1>1, <1>2, <1>4, DumpedOnce
<1>6. ASSUME NEW name \in Names PROVE IsFile(files[name])'
  <2>1. IsFile(files[name]) /\ IsFile(new)
    BY <1>3 DEF FilesInv
  <2>2. files'[name] = new \/ files'[name] = files[name]
    BY <1>4
  <2> QED
    BY <2>1, <2>2 DEF IsFile
<1> HIDE DEF at
<1>7. KeyInv'
  <2>1. Dumped[6] = "labels"
    BY DumpedFacts
  <2>2. CASE at = 6
    <3>1. \A k \in 1..5 : /\ files'[Dumped[k]] = files[Dumped[k]] /\ There(Dumped[k])
                          /\ IsWhole(files[Dumped[k]]) /\ files[Dumped[k]].write = writes
      BY <1>1, <1>5, <2>2
    <3>2. files'["labels"].write = writes
      BY <1>3, <1>4, <2>1, <2>2
    <3> QED
      BY <1>1, <3>1, <3>2 DEF KeyInv, There, IsWhole
  <2>3. CASE at = 7
    <3>1. \A k \in 1..6 : files'[Dumped[k]] = files[Dumped[k]]
      BY <1>5, <2>3
    <3> QED
      BY <2>1, <3>1 DEF FilesInv, KeyInv, There, IsWhole
  <2>4. CASE at \in 1..5
    <3>1. files'["labels"] = files["labels"]
      BY <1>5, <2>1, <2>4
    <3>2. There("labels") => files["labels"].write < writes
      BY <1>1, <2>1, <2>4
    <3>3. ASSUME There("labels"), NEW k \in 1..5
          PROVE  /\ files'[Dumped[k]] # Missing
                 /\ files'[Dumped[k]].write >= files["labels"].write
                 /\ files'[Dumped[k]].write = files["labels"].write => IsWhole(files'[Dumped[k]])
      <4>1. files["labels"].write \in Nat
        BY <1>2, <2>1, <3>3 DEF FilesInv, IsFile, There
      <4>2. CASE k = at
        BY <1>1, <1>3, <1>4, <3>2, <3>3, <4>1, <4>2
      <4>3. CASE k # at
        BY <1>5, <3>3, <4>3 DEF FilesInv, KeyInv, There
      <4> QED
        BY <4>2, <4>3
    <3> QED
      BY <3>1, <3>3 DEF KeyInv, There, IsWhole
  <2> QED
    BY <1>1, <2>2, <2>3, <2>4
<1> QED
  BY <1>4, <1>5, <1>6, <1>7 DEF at, new

LEMMA OpenFileKeeps ==
    ASSUME FilesInv, OpenFile
    PROVE  FilesInv'
<1>1. /\ Generating /\ UNCHANGED <<config, writes, writer>>
      /\ files' = [files EXCEPT ![Dumped[writer.next]] = Content("cut")]
  BY DEF OpenFile
<1>2. /\ files' = [n \in Names |-> files'[n]]
      /\ \A name \in Names : IsFile(files[name])'
      /\ KeyInv'
      /\ \A k \in 1..7 \ {writer.next} : files'[Dumped[k]] = files[Dumped[k]]
  BY <1>1, WrittenFile
<1>3. WriterInv'
  BY <1>1, <1>2 DEF FilesInv, WriterInv, There, IsWhole, Generating
<1> QED
  BY <1>1, <1>2, <1>3 DEF FilesInv

LEMMA FillFileKeeps ==
    ASSUME FilesInv, FillFile
    PROVE  FilesInv'
<1>1. /\ Generating /\ UNCHANGED <<config, writes>>
      /\ files' = [files EXCEPT ![Dumped[writer.next]] = Content("whole")]
      /\ writer' = IF writer.next = Len(Dumped) THEN Idle
                   ELSE [writer EXCEPT !.next = writer.next + 1]
  BY DEF FillFile
<1>2. /\ files' = [n \in Names |-> files'[n]]
      /\ \A name \in Names : IsFile(files[name])'
      /\ KeyInv'
      /\ files'[Dumped[writer.next]] = Content("whole")
      /\ \A k \in 1..7 \ {writer.next} : files'[Dumped[k]] = files[Dumped[k]]
  BY <1>1, WrittenFile
<1>3. /\ Content("whole") # Missing /\ Content("whole").write = writes
      /\ Content("whole").state = "whole"
  BY <1>1, ContentIsFile
<1>4. WriterInv'
  <2>1. CASE writer.next = 7
    BY <1>1, <2>1, DumpedFacts DEF WriterInv
  <2>2. CASE writer.next # 7
    <3>1. /\ writer.next \in 1..6
          /\ writer = [next |-> writer.next, cfg |-> writer.cfg]
          /\ writer.cfg \in Possible /\ writes >= 1 /\ writes \in Nat
      BY <1>1, <2>2 DEF FilesInv, WriterInv, Generating
    <3>2. /\ writer'.next = writer.next + 1 /\ writer'.cfg = writer.cfg
          /\ writer' = [next |-> writer'.next, cfg |-> writer'.cfg]
      BY <1>1, <2>2, <3>1, DumpedFacts
    <3>3. \A k \in 1..writer.next :
              There(Dumped[k])' /\ IsWhole(files'[Dumped[k]]) /\ files'[Dumped[k]].write = writes
      BY <1>1, <1>2, <1>3, <3>1 DEF FilesInv, WriterInv, There, IsWhole, Generating
    <3>4. \A k \in (writer.next + 2)..7 : There(Dumped[k])' => files'[Dumped[k]].write < writes
      BY <1>1, <1>2, <3>1 DEF FilesInv, WriterInv, There, Generating
    <3> QED
      BY <1>1, <3>1, <3>2, <3>3, <3>4 DEF WriterInv
  <2> QED
    BY <2>1, <2>2
<1> QED
  BY <1>1, <1>2, <1>4 DEF FilesInv

LEMMA EditKeyKeeps ==
    ASSUME FilesInv, NEW i \in Edited, NEW field \in Fields, NEW text \in Texts[field],
           EditKey(i, field, text)
    PROVE  /\ FilesInv'
           /\ \A name \in Names :
                  /\ There(name)' <=> There(name)
                  /\ There(name) => /\ files'[name].write = files[name].write
                                    /\ files'[name].cfg = files[name].cfg
                                    /\ files'[name].state = files[name].state
<1> DEFINE key == files["labels"]
           typed == [at \in DOMAIN key.changed \cup {<<i, field>>} |->
                         IF at = <<i, field>> THEN text ELSE key.changed[at]]
           new == [key EXCEPT !.changed = typed]
<1>1. /\ IsWhole(key) /\ UNCHANGED <<config, writes, writer>>
      /\ files' = [files EXCEPT !["labels"] = new]
  BY DEF EditKey
<1>2. "labels" \in Names /\ Dumped[6] = "labels"
  BY DumpedFacts
<1>3. key \in File /\ key.write \in 1..writes /\ key # Missing
  BY <1>1, <1>2 DEF FilesInv, IsFile, IsWhole, Missing
<1>4. /\ new \in File /\ new.write = key.write /\ new.cfg = key.cfg /\ new.state = key.state
  <2>1. typed \in Typed
    BY <1>3, MoreTyped DEF File
  <2> HIDE DEF typed
  <2> QED
    BY <1>3, <2>1 DEF File
<1>5. new # Missing
  BY <1>3 DEF File, Missing
<1> HIDE DEF new
<1>6. /\ files' = [n \in Names |-> files'[n]] /\ files'["labels"] = new
      /\ \A n \in Names \ {"labels"} : files'[n] = files[n]
  BY <1>1, <1>2, FileReplaced
<1>7. \A name \in Names :
          /\ There(name)' <=> There(name)
          /\ There(name) => /\ files'[name].write = files[name].write
                            /\ files'[name].cfg = files[name].cfg
                            /\ files'[name].state = files[name].state
  BY <1>3, <1>4, <1>5, <1>6 DEF There
<1>8. \A name \in Names : IsFile(files[name])'
  BY <1>1, <1>3, <1>4, <1>6 DEF FilesInv, IsFile
<1>9. \A k \in 1..7 : Dumped[k] \in Names
  BY DumpedFacts
<1>10. KeyInv' /\ WriterInv'
  BY <1>1, <1>2, <1>7, <1>9 DEF FilesInv, KeyInv, WriterInv, IsWhole
<1> QED
  BY <1>1, <1>6, <1>7, <1>8, <1>10 DEF FilesInv

LEMMA FilesInvariant ==
    ASSUME FilesInv, [DatasetNext]_datasetVars
    PROVE  FilesInv'
<1>1. CASE Generate
  BY <1>1, GenerateKeeps
<1>2. CASE OpenFile
  BY <1>2, OpenFileKeeps
<1>3. CASE FillFile
  BY <1>3, FillFileKeeps
<1>4. CASE KillGenerator
  BY <1>4 DEF KillGenerator, FilesInv, KeyInv, WriterInv, IsFile, There
<1>5. ASSUME NEW cfg \in Revisions(config), EditConfig(cfg) PROVE FilesInv'
  <2>1. cfg \in Possible
    BY RevisionAssumption DEF FilesInv
  <2> QED
    BY <1>5, <2>1 DEF EditConfig, FilesInv, KeyInv, WriterInv, IsFile, There
<1>6. ASSUME NEW i \in Edited, NEW field \in Fields, NEW text \in Texts[field],
             EditKey(i, field, text)
      PROVE  FilesInv'
  BY <1>6, EditKeyKeeps
<1>7. CASE StartErp \/ ReadFile \/ StopErp
  BY <1>7 DEF StartErp, ReadFile, StopErp, FilesInv, KeyInv, WriterInv, IsFile, There
<1>8. ASSUME NEW split \in Splits, Load(split) PROVE FilesInv'
  BY <1>8 DEF Load, FilesInv, KeyInv, WriterInv, IsFile, There
<1>9. CASE UNCHANGED datasetVars
  BY <1>9 DEF datasetVars, FilesInv, KeyInv, WriterInv, IsFile, There
<1> QED
  BY <1>1, <1>2, <1>3, <1>4, <1>5, <1>6, <1>7, <1>8, <1>9 DEF DatasetNext

(* Wherever a generator is killed, no answer key is ahead of the documents.  *)
THEOREM KeyStaysBehind == DatasetSpec => []KeyIsNotAhead
<1>1. FilesInv /\ [DatasetNext]_datasetVars => FilesInv'
  BY FilesInvariant
<1>2. FilesInv => KeyIsNotAhead
  <2> SUFFICES ASSUME FilesInv, IsWhole(files["labels"]), NEW k \in DOMAIN Read
               PROVE  /\ files[Read[k]].state # "missing"
                      /\ files[Read[k]].write >= files["labels"].write
                      /\ files[Read[k]].write = files["labels"].write =>
                             IsWhole(files[Read[k]])
    BY DEF KeyIsNotAhead
  <2>1. k \in 1..5 /\ Read[k] = Dumped[k] /\ Dumped[k] \in Names
    BY ReadFacts, DumpedFacts
  <2>2. There("labels")
    BY DEF IsWhole, There, Missing
  <2>3. There(Dumped[k]) /\ files[Dumped[k]].state # "missing"
    BY <2>1, <2>2 DEF FilesInv, KeyInv, IsFile, File, There
  <2> QED
    BY <2>1, <2>2, <2>3 DEF FilesInv, KeyInv
<1> QED
  BY <1>1, <1>2, FilesInitial, PTL DEF DatasetSpec

-----------------------------------------------------------------------------
(* The ERP's process: what it has read so far are files that were whole.     *)

ErpInv ==
    \/ erp = Down
    \/ /\ erp = [state |-> erp.state, docs |-> erp.docs, since |-> erp.since]
       /\ erp.state \in {"starting", "up"} /\ erp.since \in Nat
       /\ erp.docs \in Seq(File)
       /\ erp.state = "starting" => Len(erp.docs) < 5
       /\ erp.state = "up" => Len(erp.docs) = 5 /\ Connected(Docs(erp.docs))

LEMMA ReadFileKeeps ==
    ASSUME FilesInv, ErpInv, ReadFile
    PROVE  ErpInv'
<1> DEFINE file == files[Read[Len(erp.docs) + 1]]
           docs == Append(erp.docs, file)
<1>1. /\ erp = [state |-> erp.state, docs |-> erp.docs, since |-> erp.since]
      /\ erp.state = "starting" /\ erp.since \in Nat
      /\ erp.docs \in Seq(File) /\ Len(erp.docs) \in Nat /\ Len(erp.docs) < 5
  <2>1. erp.state = "starting" /\ erp # Down
    BY DEF ReadFile, Down
  <2>2. erp.docs \in Seq(File) /\ Len(erp.docs) < 5
    BY <2>1 DEF ErpInv
  <2> QED
    BY <2>1, <2>2, LenProperties DEF ErpInv
<1>2. file \in {files[n] : n \in Names}
  <2>1. Len(erp.docs) + 1 \in 1..5
    BY <1>1
  <2>2. \A k \in 1..5 : Read[k] \in Names
    BY ReadFacts, DumpedFacts
  <2> QED
    BY <2>1, <2>2
<1> DEFINE since == IF erp.since = writes THEN writes ELSE 0
<1>3. erp' = IF ~IsWhole(file) THEN Down
             ELSE IF Len(docs) < 5 THEN [erp EXCEPT !.docs = docs]
             ELSE IF Connected(Docs(docs)) THEN [state |-> "up", docs |-> docs, since |-> since]
             ELSE Down
  BY ReadFacts DEF ReadFile
<1>6. since \in Nat
  BY DEF FilesInv
<1> HIDE DEF file, since
<1>4. CASE IsWhole(file)
  <2>1. file \in File
    BY <1>2, <1>4 DEF FilesInv, IsFile, IsWhole, Missing
  <2>2. docs \in Seq(File) /\ Len(docs) = Len(erp.docs) + 1
    BY <1>1, <2>1, AppendProperties
  <2> HIDE DEF docs
  <2>3. CASE Len(docs) < 5
    <3>1. erp' = [erp EXCEPT !.docs = docs]
      BY <1>3, <1>4, <2>3
    <3>2. /\ erp'.state = "starting" /\ erp'.docs = docs
          /\ erp'.since = erp.since
          /\ erp' = [state |-> erp'.state, docs |-> erp'.docs, since |-> erp'.since]
      BY <1>1, <3>1
    <3> QED
      BY <1>1, <2>2, <2>3, <3>2 DEF ErpInv
  <2>4. CASE ~(Len(docs) < 5)
    <3>1. erp' \in {[state |-> "up", docs |-> docs, since |-> since], Down}
      BY <1>3, <1>4, <2>4
    <3>2. Len(docs) = 5
      BY <1>1, <2>2, <2>4
    <3>3. CASE erp' = [state |-> "up", docs |-> docs, since |-> since]
      <4>1. /\ erp'.state = "up" /\ erp'.docs = docs /\ erp'.since = since
            /\ erp' = [state |-> erp'.state, docs |-> erp'.docs, since |-> erp'.since]
        BY <3>3
      <4>2. Connected(Docs(docs))
        BY <1>3, <1>4, <2>4, <4>1 DEF Down
      <4>3. Connected(Docs(erp'.docs))
        BY <4>1, <4>2
      <4> QED
        BY <1>6, <2>2, <3>2, <4>1, <4>3 DEF ErpInv
    <3> QED
      BY <3>1, <3>3 DEF ErpInv
  <2> QED
    BY <2>3, <2>4
<1>5. CASE ~IsWhole(file)
  BY <1>3, <1>5 DEF ErpInv
<1> QED
  BY <1>4, <1>5

LEMMA ErpInvariant ==
    ASSUME FilesInv, ErpInv, [DatasetNext]_datasetVars
    PROVE  ErpInv'
<1>1. CASE StartErp
  <2>1. erp' = [state |-> "starting", docs |-> <<>>, since |-> LastWriting]
    BY <1>1 DEF StartErp
  <2>2. /\ erp'.state = "starting" /\ erp'.docs = <<>> /\ erp'.since = LastWriting
        /\ erp' = [state |-> erp'.state, docs |-> erp'.docs, since |-> erp'.since]
    BY <2>1
  <2>4. LastWriting \in Nat
    BY DEF LastWriting, FilesInv
  <2>3. <<>> \in Seq(File) /\ Len(<<>>) = 0
    BY EmptySeq
  <2> QED
    BY <2>2, <2>3, <2>4 DEF ErpInv
<1>2. CASE ReadFile
  BY <1>2, ReadFileKeeps
<1>3. CASE StopErp
  BY <1>3 DEF StopErp, ErpInv
<1>4. CASE UNCHANGED erp
  BY <1>4 DEF ErpInv
<1> QED
  BY <1>1, <1>2, <1>3, <1>4
     DEF DatasetNext, datasetVars, Generate, OpenFile, FillFile, KillGenerator,
         EditConfig, EditKey, Load

(* What is loaded was answered by the files and the configuration as they    *)
(* still are.                                                                *)
FieldIn(key, i, field) ==
    IF <<i, field>> \in DOMAIN key.changed THEN key.changed[<<i, field>>]
    ELSE EntryOf(Plan[key.cfg], key.cfg, i)[field]
LoadedCase(conf, key, i) ==
    [id |-> i,
     entry |-> [field \in Fields |-> FieldIn(key, i, field)],
     invoice |-> Last(InvoicesOf(Plan[conf], i)),
     invoices |-> Range(InvoicesOf(Plan[conf], i))]
Accepts(answer, conf, key) ==
    \E ids : /\ ids \subseteq Ids(key.cfg) \cap Ids(conf)
             /\ \A i \in ids : FieldIn(key, i, "label") = LabelOf(Plan[conf], i)
             /\ answer.cases = {LoadedCase(conf, key, i) : i \in ids}
             /\ key.state = "whole"

LoadedInv ==
    /\ loaded.outcome \in {"none", "unreadable", "empty", "raised", "stale", "accepted"}
    /\ loaded.outcome = "accepted" => Accepts(loaded, config, files["labels"])

LEMMA LoadCasesAccepts ==
    ASSUME NEW split
    PROVE  /\ LoadCases(split).outcome \in
                   {"unreadable", "empty", "raised", "stale", "accepted"}
           /\ LoadCases(split).outcome = "accepted" =>
                   Accepts(LoadCases(split), config, files["labels"])
<1> DEFINE ids == InSplit(split)
           answer == [outcome |-> "accepted", cases |-> {CaseOf(i) : i \in ids}]
<1>1. \/ LoadCases(split).outcome \in {"unreadable", "empty", "raised", "stale"}
      \/ /\ LoadCases(split) = answer
         /\ IsWhole(files["labels"])
         /\ ids \subseteq Ids(files["labels"].cfg) \cap Ids(config) /\ Matches(ids)
  <2> HIDE DEF ids
  <2> QED
    BY DEF LoadCases, ids
<1> HIDE DEF ids
<1>2. answer.cases = {LoadedCase(config, files["labels"], i) : i \in ids}
  BY DEF CaseOf, LoadedCase, Entry, Field, ByHand, FieldIn
<1>3. Matches(ids) => \A i \in ids : FieldIn(files["labels"], i, "label") = LabelOf(Plan[config], i)
  BY DEF Matches, Field, ByHand, FieldIn
<1>4. answer.outcome = "accepted"
  OBVIOUS
<1> HIDE DEF answer
<1> QED
  BY <1>1, <1>2, <1>3, <1>4 DEF Accepts, IsWhole

LEMMA LoadedInvariant ==
    ASSUME LoadedInv, [DatasetNext]_datasetVars
    PROVE  LoadedInv'
<1>1. ASSUME NEW split \in Splits, Load(split) PROVE LoadedInv'
  BY <1>1, LoadCasesAccepts DEF Load, LoadedInv
<1>2. CASE loaded' = NotLoaded
  BY <1>2 DEF LoadedInv, NotLoaded
<1>3. CASE UNCHANGED datasetVars
  BY <1>3 DEF LoadedInv, datasetVars
<1> QED
  BY <1>1, <1>2, <1>3
     DEF DatasetNext, Generate, OpenFile, FillFile, KillGenerator, EditConfig, EditKey,
         StartErp, ReadFile, StopErp

-----------------------------------------------------------------------------
(* Files of one writing are of one configuration: those on the disk, and     *)
(* those the ERP has read, replaced since or not.                            *)

OnDisk == {files[n] : n \in Names} \ {Missing}
InErp  == IF erp = Down THEN {} ELSE {erp.docs[k] : k \in 1..Len(erp.docs)}
Known  == OnDisk \cup InErp

OfOneWriting(known) ==
    /\ \A f, g \in known : f.write = g.write => f.cfg = g.cfg
    /\ \A f \in known : f.write \in Nat /\ f.write <= writes
    /\ Generating => \A f \in known : f.write = writes => f.cfg = writer.cfg
WritingInv == OfOneWriting(Known)

(* The same, where the files are replaced by others of known writings or of  *)
(* the one that goes on.                                                     *)
Continues(f) ==
    \/ \E g \in Known : g.write = f.write /\ g.cfg = f.cfg
    \/ Generating /\ f.write = writes /\ f.cfg = writer.cfg

LEMMA WritingContinues ==
    ASSUME WritingInv, FilesInv, NEW known, \A f \in known : Continues(f)
    PROVE  OfOneWriting(known)
BY DEF WritingInv, OfOneWriting, Continues, FilesInv

LEMMA SameWriting ==
    ASSUME NEW known, OfOneWriting(known), writes' = writes,
           writer' = Idle \/ (Generating /\ writer'.cfg = writer.cfg)
    PROVE  /\ \A f, g \in known : f.write = g.write => f.cfg = g.cfg
           /\ \A f \in known : f.write \in Nat /\ f.write <= writes'
           /\ Generating' => \A f \in known : f.write = writes' => f.cfg = writer'.cfg
BY DEF OfOneWriting, Generating

LEMMA ErpKnowsOn ==
    ASSUME FilesInv, ErpInv, UNCHANGED files,
           UNCHANGED erp \/ StartErp \/ ReadFile \/ StopErp
    PROVE  Known' \subseteq Known
<1>1. OnDisk' = OnDisk
  BY DEF OnDisk
<1>2. CASE UNCHANGED erp
  BY <1>1, <1>2 DEF Known, InErp
<1>3. CASE StartErp
  <2>1. erp'.docs = <<>>
    BY <1>3 DEF StartErp
  <2>2. Len(<<>>) = 0 /\ 1..0 = {}
    BY EmptySeq
  <2> QED
    BY <1>1, <2>1, <2>2 DEF Known, InErp
<1>4. CASE StopErp
  BY <1>1, <1>4 DEF StopErp, Known, InErp
<1>5. CASE ReadFile
  <2> DEFINE file == files[Read[Len(erp.docs) + 1]]
             docs == Append(erp.docs, file)
  <2>1. /\ erp.state = "starting" /\ erp # Down
        /\ \/ erp' = Down
           \/ IsWhole(file) /\ erp'.docs = docs
    BY <1>5 DEF ReadFile, Down, ErpInv
  <2>2. erp.docs \in Seq(File) /\ Len(erp.docs) \in Nat /\ Len(erp.docs) + 1 \in 1..5
    <3>1. erp.docs \in Seq(File) /\ Len(erp.docs) < 5
      BY <2>1 DEF ErpInv
    <3> QED
      BY <3>1, LenProperties
  <2>3. Read[Len(erp.docs) + 1] \in Names
    BY <2>2, ReadFacts, DumpedFacts
  <2> HIDE DEF file
  <2>4. CASE erp' = Down
    BY <1>1, <2>4 DEF Known, InErp
  <2>5. CASE IsWhole(file) /\ erp'.docs = docs
    <3>1. file \in OnDisk /\ file \in File
      BY <2>3, <2>5 DEF FilesInv, IsFile, IsWhole, Missing, OnDisk, file
    <3>2. /\ Len(docs) = Len(erp.docs) + 1 /\ docs[Len(erp.docs) + 1] = file
          /\ \A k \in 1..Len(erp.docs) : docs[k] = erp.docs[k]
      BY <2>2, <3>1, AppendProperties
    <3> HIDE DEF docs
    <3>3. \A k \in 1..Len(docs) : docs[k] \in InErp \cup {file}
      BY <2>1, <2>2, <3>2 DEF InErp
    <3> QED
      BY <1>1, <2>5, <3>1, <3>3 DEF Known, InErp
  <2> QED
    BY <2>1, <2>4, <2>5
<1> QED
  BY <1>2, <1>3, <1>4, <1>5

LEMMA WrittenContinues ==
    ASSUME FilesInv, Generating, NEW state \in {"cut", "whole"},
           files' = [files EXCEPT ![Dumped[writer.next]] = Content(state)],
           writes' = writes, erp' = erp
    PROVE  \A f \in Known' : Continues(f)
<1>1. Dumped[writer.next] \in Names
  BY DumpedFacts DEF FilesInv, WriterInv, Generating
<1>2. \A n \in Names : files'[n] = Content(state) \/ files'[n] = files[n]
  BY <1>1, FileReplaced
<1>3. Known' \subseteq Known \cup {Content(state)}
  BY <1>2 DEF Known, OnDisk, InErp
<1>4. Content(state).write = writes /\ Content(state).cfg = writer.cfg
  BY ContentIsFile
<1> QED
  BY <1>3, <1>4 DEF Continues

LEMMA WritingInvariant ==
    ASSUME FilesInv, ErpInv, WritingInv, [DatasetNext]_datasetVars
    PROVE  WritingInv'
<1> USE DEF WritingInv
<1>1. CASE Generate
  <2>1. /\ writes' = writes + 1 /\ UNCHANGED <<files, erp>> /\ writes \in Nat
    BY <1>1 DEF Generate, FilesInv
  <2>2. Known' = Known
    BY <2>1 DEF Known, OnDisk, InErp
  <2> QED
    BY <2>1, <2>2 DEF OfOneWriting
<1>2. CASE OpenFile
  <2>1. /\ Generating /\ UNCHANGED <<writes, writer, erp>>
        /\ files' = [files EXCEPT ![Dumped[writer.next]] = Content("cut")]
    BY <1>2 DEF OpenFile
  <2>2. OfOneWriting(Known')
    BY <2>1, WrittenContinues, WritingContinues
  <2> QED
    BY <2>1, <2>2, SameWriting DEF OfOneWriting
<1>3. CASE FillFile
  <2>1. /\ Generating /\ UNCHANGED <<writes, erp>>
        /\ files' = [files EXCEPT ![Dumped[writer.next]] = Content("whole")]
        /\ writer' = Idle \/ writer'.cfg = writer.cfg
    BY <1>3 DEF FillFile, FilesInv, WriterInv, Generating
  <2>2. OfOneWriting(Known')
    BY <2>1, WrittenContinues, WritingContinues
  <2> QED
    BY <2>1, <2>2, SameWriting DEF OfOneWriting
<1>4. CASE KillGenerator
  <2>1. writer' = Idle /\ UNCHANGED <<files, writes, erp>>
    BY <1>4 DEF KillGenerator
  <2> QED
    BY <2>1 DEF OfOneWriting, Known, OnDisk, InErp, Generating
<1>5. ASSUME NEW i \in Edited, NEW field \in Fields, NEW text \in Texts[field],
             EditKey(i, field, text)
      PROVE  WritingInv'
  <2>1. UNCHANGED <<writes, writer, erp>>
    BY <1>5 DEF EditKey
  <2>2. \A n \in Names : files'[n] # Missing =>
            /\ files[n] # Missing
            /\ files'[n].write = files[n].write /\ files'[n].cfg = files[n].cfg
    BY <1>5, EditKeyKeeps DEF There
  <2>3. \A f \in Known' : Continues(f)
    <3> SUFFICES ASSUME NEW f \in Known' PROVE \E g \in Known : g.write = f.write /\ g.cfg = f.cfg
      BY DEF Continues
    <3>1. CASE f \in InErp
      BY <3>1 DEF Known
    <3>2. CASE f \in OnDisk'
      <4>1. PICK n \in Names : f = files'[n] /\ f # Missing
        BY <3>2 DEF OnDisk
      <4>2. files[n] \in Known
        BY <2>2, <4>1 DEF Known, OnDisk
      <4> QED
        BY <2>2, <4>1, <4>2
    <3> QED
      BY <2>1, <3>1, <3>2 DEF Known, InErp
  <2>4. OfOneWriting(Known')
    BY <2>3, WritingContinues
  <2> QED
    BY <2>1, <2>4 DEF OfOneWriting, Generating
<1>6. CASE /\ UNCHANGED <<files, writes, writer>>
           /\ UNCHANGED erp \/ StartErp \/ ReadFile \/ StopErp
  <2>1. Known' \subseteq Known
    BY <1>6, ErpKnowsOn
  <2> QED
    BY <1>6, <2>1 DEF OfOneWriting, Generating
<1> QED
  BY <1>1, <1>2, <1>3, <1>4, <1>5, <1>6
     DEF DatasetNext, datasetVars, EditConfig, StartErp, ReadFile, StopErp, Load

DatasetInv == FilesInv /\ ErpInv /\ LoadedInv /\ WritingInv

LEMMA DatasetInvariant == DatasetSpec => []DatasetInv
<1>1. DatasetInit => DatasetInv
  <2> SUFFICES ASSUME DatasetInit PROVE ErpInv /\ LoadedInv /\ WritingInv
    BY FilesInitial DEF DatasetInv
  <2>1. /\ erp = Down /\ loaded = NotLoaded /\ writer = Idle
        /\ files = [name \in Names |-> Missing]
    BY DEF DatasetInit, Names
  <2>2. Known = {}
    BY <2>1 DEF Known, OnDisk, InErp
  <2> QED
    BY <2>1, <2>2 DEF ErpInv, LoadedInv, NotLoaded, WritingInv, OfOneWriting, Generating
<1>2. DatasetInv /\ [DatasetNext]_datasetVars => DatasetInv'
  BY FilesInvariant, ErpInvariant, LoadedInvariant, WritingInvariant DEF DatasetInv
<1> QED
  BY <1>1, <1>2, PTL DEF DatasetSpec

(* How far a generator is, what the files are, and that an ERP that is up    *)
(* has read all of its files.                                                *)
THEOREM DatasetTypes == DatasetSpec => []DatasetTypeOK
<1>1. DatasetInv => DatasetTypeOK
  <2> SUFFICES ASSUME DatasetInv PROVE DatasetTypeOK
    OBVIOUS
  <2>1. writer.next \in 0..7 /\ (writer.next # 0 => writer # Idle)
    BY DEF DatasetInv, FilesInv, WriterInv, Idle
  <2>2. \A k \in 1..(writer.next - 1) :
           IsWhole(files[Dumped[k]]) /\ files[Dumped[k]].write = writes
    BY <2>1 DEF DatasetInv, FilesInv, WriterInv
  <2>3. \A k \in 1..7 : files[Dumped[k]].state \in {"missing", "cut", "whole"}
    BY DumpedFacts DEF DatasetInv, FilesInv, IsFile, File, Missing
  <2>4. erp.state = "up" => Len(erp.docs) = Len(Read)
    BY ReadFacts DEF DatasetInv, ErpInv, Down
  <2> QED
    BY <2>1, <2>2, <2>3, <2>4, DumpedFacts DEF DatasetInv, LoadedInv, DatasetTypeOK
<1> QED
  BY <1>1, DatasetInvariant, PTL

(* The splits are written last: where they are of the last writing, so are   *)
(* the files before them.                                                    *)
Settled == \A k \in 1..7 : IsWhole(files[Dumped[k]]) /\ files[Dumped[k]].write = writes
SplitsInv ==
    There("splits") /\ files["splits"].write = writes =>
        \A k \in 1..6 : IsWhole(files[Dumped[k]]) /\ files[Dumped[k]].write = writes

LEMMA SplitsWrittenLast ==
    ASSUME FilesInv, SplitsInv, Generating, NEW state \in {"cut", "whole"},
           files' = [files EXCEPT ![Dumped[writer.next]] = Content(state)], writes' = writes
    PROVE  SplitsInv'
<1>1. /\ writer.next \in 1..7 /\ Dumped[7] = "splits"
      /\ \A k \in 1..7 \ {writer.next} : files'[Dumped[k]] = files[Dumped[k]]
  BY WrittenFile, DumpedFacts DEF FilesInv, WriterInv, Generating
<1>2. CASE writer.next = 7
  BY <1>1, <1>2 DEF FilesInv, WriterInv, SplitsInv, Generating, IsWhole
<1>3. CASE writer.next # 7
  <2>1. There("splits") => files["splits"].write < writes
    BY <1>1, <1>3 DEF FilesInv, WriterInv, Generating
  <2>2. files'["splits"] = files["splits"]
    BY <1>1, <1>3
  <2>3. There("splits") => files["splits"].write \in Nat
    BY DumpedFacts DEF FilesInv, IsFile, There, File
  <2> QED
    BY <2>1, <2>2, <2>3 DEF FilesInv, SplitsInv, There
<1> QED
  BY <1>2, <1>3

LEMMA SplitsInvariant ==
    ASSUME FilesInv, SplitsInv, [DatasetNext]_datasetVars
    PROVE  SplitsInv'
<1>1. CASE Generate
  <2>1. writes' = writes + 1 /\ files' = files
    BY <1>1 DEF Generate
  <2>2. There("splits") => files["splits"].write \in 1..writes
    BY DumpedFacts DEF FilesInv, IsFile, There
  <2> QED
    BY <2>1, <2>2 DEF FilesInv, SplitsInv, There
<1>2. CASE OpenFile
  BY <1>2, SplitsWrittenLast DEF OpenFile
<1>3. CASE FillFile
  BY <1>3, SplitsWrittenLast DEF FillFile
<1>4. ASSUME NEW i \in Edited, NEW field \in Fields, NEW text \in Texts[field],
             EditKey(i, field, text)
      PROVE  SplitsInv'
  <2>1. writes' = writes
    BY <1>4 DEF EditKey
  <2>2. \A name \in Names : /\ There(name)' <=> There(name)
                            /\ There(name) => /\ files'[name].write = files[name].write
                                              /\ files'[name].state = files[name].state
    BY <1>4, EditKeyKeeps
  <2>3. \A k \in 1..7 : Dumped[k] \in Names
    BY DumpedFacts
  <2>4. \A k \in 1..6 : IsWhole(files[Dumped[k]]) => There(Dumped[k])
    BY DEF There, IsWhole, Missing
  <2> QED
    BY <2>1, <2>2, <2>3, <2>4, DumpedFacts DEF SplitsInv, IsWhole
<1>5. CASE UNCHANGED <<files, writes>>
  BY <1>5 DEF SplitsInv, There, IsWhole
<1> QED
  BY <1>1, <1>2, <1>3, <1>4, <1>5
     DEF DatasetNext, datasetVars, KillGenerator, EditConfig, StartErp, ReadFile, StopErp, Load

(* A start that is quiet: until another generator begins, the files stay as  *)
(* they are, and what has been read is of their writing; what the ERP is up  *)
(* with stays so.                                                            *)
QuietInv ==
    erp # Down /\ erp.since > 0 =>
        /\ erp.since <= writes
        /\ writes = erp.since => ~Generating /\ Settled
        /\ erp.state = "up" \/ writes = erp.since =>
               \A k \in 1..Len(erp.docs) : erp.docs[k].write = erp.since

LEMMA QuietReads ==
    ASSUME FilesInv, ErpInv, QuietInv, ReadFile
    PROVE  QuietInv'
<1> DEFINE at == Len(erp.docs) + 1
           file == files[Read[at]]
           docs == Append(erp.docs, file)
<1>1. /\ erp # Down /\ erp.state = "starting" /\ erp.docs \in Seq(File)
      /\ Len(erp.docs) \in Nat /\ at \in 1..5 /\ erp.since \in Nat
  <2>1. erp.state = "starting" /\ erp # Down
    BY DEF ReadFile, Down
  <2>2. erp.docs \in Seq(File) /\ Len(erp.docs) < 5 /\ erp.since \in Nat
    BY <2>1 DEF ErpInv
  <2> QED
    BY <2>1, <2>2, LenProperties
<1>2. UNCHANGED <<files, writes, writer>>
  BY DEF ReadFile
<1>3. Read[at] = Dumped[at] /\ at \in 1..7
  BY <1>1, ReadFacts
<1>4. \/ erp' = Down
      \/ /\ IsWhole(file) /\ erp'.docs = docs /\ erp' # Down
         /\ \/ erp'.since = erp.since /\ erp'.state = "starting"
            \/ erp'.since = IF erp.since = writes THEN writes ELSE 0
  <2>1. erp' = IF ~IsWhole(file) THEN Down
               ELSE IF Len(docs) < Len(Read) THEN [erp EXCEPT !.docs = docs]
               ELSE IF Connected(Docs(docs))
               THEN [state |-> "up", docs |-> docs,
                     since |-> IF erp.since = writes THEN writes ELSE 0]
               ELSE Down
    BY DEF ReadFile
  <2>2. erp = [state |-> erp.state, docs |-> erp.docs, since |-> erp.since]
    BY <1>1 DEF ErpInv
  <2> DEFINE up == [state |-> "up", docs |-> docs,
                    since |-> IF erp.since = writes THEN writes ELSE 0]
             on == [erp EXCEPT !.docs = docs]
  <2>3. up.state = "up" /\ up.docs = docs /\ up.since = IF erp.since = writes THEN writes ELSE 0
    OBVIOUS
  <2>4. on.state = "starting" /\ on.docs = docs /\ on.since = erp.since
    BY <1>1, <2>2
  <2>5. up # Down /\ on # Down
    BY <2>3, <2>4 DEF Down
  <2>6. erp' = Down \/ (IsWhole(file) /\ erp' = up) \/ (IsWhole(file) /\ erp' = on)
    BY <2>1
  <2> HIDE DEF up, on, docs, file
  <2> QED
    BY <2>3, <2>4, <2>5, <2>6
<1>5. CASE erp' = Down
  BY <1>5 DEF QuietInv
<1>6. CASE IsWhole(file) /\ erp' # Down /\ erp'.docs = docs
  <2>1. file \in File
    <3>1. Read[at] \in Names
      BY <1>3, DumpedFacts
    <3> QED
      BY <1>6, <3>1 DEF FilesInv, IsFile, IsWhole, Missing
  <2>2. /\ Len(docs) = at /\ docs[at] = file
        /\ \A k \in 1..Len(erp.docs) : docs[k] = erp.docs[k]
    BY <1>1, <2>1, AppendProperties
  <2>3. ASSUME erp'.since > 0
        PROVE  erp'.since = erp.since /\ (erp'.state = "up" => writes = erp.since)
    BY <1>1, <1>4, <1>6, <2>3
  <2>4. ASSUME erp'.since > 0, writes = erp.since, NEW k \in 1..at
        PROVE  docs[k].write = erp.since
    <3>1. Settled
      BY <1>1, <2>3, <2>4 DEF QuietInv
    <3>2. file.write = erp.since
      BY <1>3, <2>4, <3>1 DEF Settled
    <3>3. CASE k = at
      BY <2>2, <3>2, <3>3
    <3>4. CASE k # at
      <4>1. k \in 1..Len(erp.docs)
        BY <1>1, <3>4
      <4>2. erp.docs[k].write = erp.since
        BY <1>1, <2>3, <2>4, <4>1 DEF QuietInv
      <4> QED
        BY <2>2, <4>1, <4>2
    <3> QED
      BY <3>3, <3>4
  <2> HIDE DEF docs, file, at
  <2> SUFFICES ASSUME erp'.since > 0
               PROVE  /\ erp'.since <= writes'
                      /\ writes' = erp'.since => (~Generating /\ Settled)'
                      /\ erp'.state = "up" \/ writes' = erp'.since =>
                             \A k \in 1..Len(erp'.docs) : erp'.docs[k].write = erp'.since
    BY DEF QuietInv
  <2>5. erp.since <= writes /\ (writes = erp.since => ~Generating /\ Settled)
    BY <1>1, <2>3 DEF QuietInv
  <2>6. writes' = erp'.since => (~Generating /\ Settled)'
    BY <1>2, <2>3, <2>5 DEF Generating, Settled, IsWhole
  <2>7. erp'.state = "up" \/ writes' = erp'.since =>
            \A k \in 1..Len(erp'.docs) : erp'.docs[k].write = erp'.since
    BY <1>2, <1>6, <2>2, <2>3, <2>4
  <2> QED
    BY <1>2, <2>3, <2>5, <2>6, <2>7
<1> QED
  BY <1>4, <1>5, <1>6

LEMMA QuietInvariant ==
    ASSUME FilesInv, ErpInv, SplitsInv, QuietInv, [DatasetNext]_datasetVars
    PROVE  QuietInv'
<1>1. CASE ReadFile
  BY <1>1, QuietReads
<1>2. CASE StopErp
  BY <1>2 DEF StopErp, QuietInv
<1>3. CASE StartErp
  <2>1. /\ erp'.docs = <<>> /\ erp'.since = LastWriting /\ UNCHANGED <<files, writes, writer>>
    BY <1>3 DEF StartErp
  <2>2. Len(<<>>) = 0 /\ 1..0 = {}
    BY EmptySeq
  <2>3. ASSUME LastWriting > 0
        PROVE  LastWriting = writes /\ ~Generating /\ Settled
    <3>1. LastWriting = writes /\ ~Generating
          /\ IsWhole(files["splits"]) /\ files["splits"].write = writes
      BY <2>3 DEF LastWriting
    <3>2. There("splits")
      BY <3>1 DEF There, IsWhole, Missing
    <3> QED
      BY <3>1, <3>2, DumpedFacts DEF SplitsInv, Settled
  <2>4. writes \in Nat
    BY DEF FilesInv
  <2> SUFFICES ASSUME LastWriting > 0
               PROVE  /\ LastWriting <= writes' /\ ~Generating' /\ Settled'
                      /\ \A k \in 1..Len(erp'.docs) : erp'.docs[k].write = erp'.since
    BY <2>1 DEF QuietInv
  <2> QED
    BY <2>1, <2>2, <2>3, <2>4 DEF Generating, Settled, IsWhole
<1>4. CASE Generate
  <2>1. writes' = writes + 1 /\ erp' = erp /\ writes \in Nat
    BY <1>4 DEF Generate, FilesInv
  <2>2. erp # Down => erp.since \in Nat
    BY DEF ErpInv
  <2>3. ASSUME erp # Down, erp.since > 0 PROVE erp.since <= writes' /\ writes' # erp.since
    BY <2>1, <2>2, <2>3 DEF QuietInv
  <2> QED
    BY <2>1, <2>3 DEF QuietInv
<1>5. CASE OpenFile \/ FillFile \/ KillGenerator
  <2>1. Generating /\ writes' = writes /\ erp' = erp
    BY <1>5 DEF OpenFile, FillFile, KillGenerator
  <2> QED
    BY <2>1 DEF QuietInv
<1>6. ASSUME NEW i \in Edited, NEW field \in Fields, NEW text \in Texts[field],
             EditKey(i, field, text)
      PROVE  QuietInv'
  <2>1. UNCHANGED <<writes, writer, erp>>
    BY <1>6 DEF EditKey
  <2>2. Settled => Settled'
    <3> SUFFICES ASSUME Settled, NEW k \in 1..7
                 PROVE  IsWhole(files'[Dumped[k]]) /\ files'[Dumped[k]].write = writes'
      BY DEF Settled, IsWhole
    <3>1. Dumped[k] \in Names
      BY DumpedFacts
    <3>2. IsWhole(files[Dumped[k]]) /\ There(Dumped[k]) /\ files[Dumped[k]].write = writes
      BY DEF Settled, IsWhole, There, Missing
    <3> QED
      BY <1>6, <2>1, <3>1, <3>2, EditKeyKeeps DEF IsWhole
  <2> QED
    BY <2>1, <2>2 DEF QuietInv, Generating
<1>7. CASE UNCHANGED <<files, writes, writer, erp>>
  BY <1>7 DEF QuietInv, Generating, Settled, IsWhole
<1> QED
  BY <1>1, <1>2, <1>3, <1>4, <1>5, <1>6, <1>7 DEF DatasetNext, datasetVars, EditConfig, Load

(* However the generators and the starts of the ERP interleave, and wherever *)
(* generators are killed: an ERP that was started after the last generator   *)
(* had finished, and was up before another began, serves that writing, whole *)
(* and of one configuration, and so does the key until the next (dump_json,  *)
(* load_store).                                                              *)
THEOREM QuietStartIsOfOneWriting == DatasetSpec => []QuietStartServesOneWriting
<1> DEFINE Inv == DatasetInv /\ SplitsInv /\ QuietInv
<1>1. DatasetInit => SplitsInv /\ QuietInv
  <2> SUFFICES ASSUME DatasetInit PROVE SplitsInv /\ QuietInv
    OBVIOUS
  <2>1. erp = Down /\ files = [name \in Names |-> Missing]
    BY DEF DatasetInit, Names
  <2> QED
    BY <2>1, DumpedFacts DEF SplitsInv, QuietInv, There
<1>2. DatasetInv /\ SplitsInv /\ QuietInv /\ [DatasetNext]_datasetVars => (SplitsInv /\ QuietInv)'
  BY SplitsInvariant, QuietInvariant DEF DatasetInv
<1>3. Inv => QuietStartServesOneWriting
  <2> SUFFICES ASSUME Inv, erp.state = "up", erp.since > 0
               PROVE  /\ \A k \in DOMAIN erp.docs :
                             erp.docs[k].write = erp.since /\ erp.docs[k].cfg = erp.docs[1].cfg
                      /\ writes = erp.since =>
                             /\ IsWhole(files["labels"]) /\ files["labels"].write = erp.since
                             /\ files["labels"].cfg = erp.docs[1].cfg
    BY DEF QuietStartServesOneWriting
  <2>1. erp # Down /\ erp.docs \in Seq(File) /\ Len(erp.docs) = 5
    BY DEF Down, DatasetInv, ErpInv
  <2>2. DOMAIN erp.docs = 1..5
    BY <2>1, LenProperties
  <2>3. \A k \in 1..5 : erp.docs[k].write = erp.since /\ erp.docs[k] \in Known
    BY <2>1 DEF QuietInv, Known, InErp
  <2>4. \A f, g \in Known : f.write = g.write => f.cfg = g.cfg
    BY DEF DatasetInv, WritingInv, OfOneWriting
  <2>5. \A k \in 1..5 : erp.docs[k].cfg = erp.docs[1].cfg
    BY <2>3, <2>4
  <2>6. ASSUME writes = erp.since
        PROVE  /\ IsWhole(files["labels"]) /\ files["labels"].write = erp.since
               /\ files["labels"].cfg = erp.docs[1].cfg
    <3>1. Dumped[6] = "labels" /\ "labels" \in Names
      BY DumpedFacts
    <3>2. IsWhole(files["labels"]) /\ files["labels"].write = erp.since
      BY <2>1, <2>6, <3>1 DEF QuietInv, Settled
    <3>3. files["labels"] \in Known
      BY <3>1, <3>2 DEF Known, OnDisk, IsWhole, Missing
    <3> QED
      BY <2>3, <2>4, <3>2, <3>3
  <2> QED
    BY <2>2, <2>3, <2>5, <2>6
<1>4. DatasetInv /\ SplitsInv /\ QuietInv <=> Inv
  OBVIOUS
<1> HIDE DEF Inv
<1> QED
  BY <1>1, <1>2, <1>3, <1>4, DatasetInvariant, PTL DEF DatasetSpec

-----------------------------------------------------------------------------
(* What the evals accept.                                                    *)

LEMMA AcceptedIsOfTheKey ==
    ASSUME NEW key \in File, NEW conf \in Possible, NEW answer,
           Accepts(answer, conf, key), NEW c \in answer.cases
    PROVE  /\ c.id \in Ids(key.cfg)
           /\ \A field \in Fields : <<c.id, field>> \notin DOMAIN key.changed =>
                  c.entry[field] = EntryOf(Plan[key.cfg], key.cfg, c.id)[field]
           /\ <<c.id, "label">> \notin DOMAIN key.changed =>
                  /\ c.invoices = Range(InvoicesOf(Plan[key.cfg], c.id))
                  /\ c.invoice \in c.invoices
           /\ c.entry.label = LabelOf(Plan[conf], c.id)
           /\ c.entry.label = "DUP_INVOICE" => c.invoice = <<c.id, 2>>
<1>1. PICK i : /\ i \in Ids(key.cfg) /\ i \in Ids(conf)
              /\ FieldIn(key, i, "label") = LabelOf(Plan[conf], i)
              /\ c = LoadedCase(conf, key, i)
  BY DEF Accepts
<1>2. /\ c.id = i /\ c.entry = [field \in Fields |-> FieldIn(key, i, field)]
      /\ c.invoices = Range(InvoicesOf(Plan[conf], i))
      /\ c.invoice = Last(InvoicesOf(Plan[conf], i))
  BY <1>1 DEF LoadedCase
<1>3. \A field \in Fields : c.entry[field] = FieldIn(key, i, field)
  BY <1>2
<1>4. "label" \in Fields
  BY DEF Fields
<1>5. c.entry["label"] = LabelOf(Plan[conf], i)
  BY <1>1, <1>3, <1>4
<1>6. \A field \in Fields : <<i, field>> \notin DOMAIN key.changed =>
          c.entry[field] = EntryOf(Plan[key.cfg], key.cfg, i)[field]
  BY <1>3 DEF FieldIn
<1>7. /\ Last(InvoicesOf(Plan[conf], i)) \in Range(InvoicesOf(Plan[conf], i))
      /\ LabelOf(Plan[conf], i) = "DUP_INVOICE" =>
             Last(InvoicesOf(Plan[conf], i)) = <<i, 2>>
  BY DEF InvoicesOf, Last, Range
<1>8. ASSUME <<i, "label">> \notin DOMAIN key.changed
      PROVE  InvoicesOf(Plan[conf], i) = InvoicesOf(Plan[key.cfg], i)
  <2>1. EntryOf(Plan[key.cfg], key.cfg, i)["label"] = LabelOf(Plan[key.cfg], i)
    BY DEF EntryOf
  <2>2. LabelOf(Plan[conf], i) = LabelOf(Plan[key.cfg], i)
    BY <1>4, <1>5, <1>6, <1>8, <2>1
  <2> QED
    BY <2>2 DEF InvoicesOf
<1> QED
  BY <1>1, <1>2, <1>5, <1>6, <1>7, <1>8

(* Every case the evals accept is graded by what the ERP's documents hold,   *)
(* where those are of the same writing as the key, but for what was typed    *)
(* into the key by hand.                                                     *)
THEOREM AcceptedIsServed == DatasetSpec => []CasesAreServed
<1>1. DatasetInv => CasesAreServed
  <2> SUFFICES ASSUME DatasetInv, loaded.outcome = "accepted", ServesTheKey,
                      NEW c \in loaded.cases
               PROVE  LET served == Docs(erp.docs).invoices IN
                      /\ c.id \in Ids(served)
                      /\ \A field \in Fields : <<c.id, field>> \notin ByHand =>
                             c.entry[field] = EntryOf(Plan[served], served, c.id)[field]
                      /\ <<c.id, "label">> \notin ByHand =>
                             /\ c.invoices = Range(InvoicesOf(Plan[served], c.id))
                             /\ c.invoice \in c.invoices
                      /\ c.entry.label = LabelOf(Plan[config], c.id)
                      /\ c.entry.label = "DUP_INVOICE" => c.invoice = <<c.id, 2>>
    BY DEF CasesAreServed
  <2> DEFINE key == files["labels"]
  <2>1. Accepts(loaded, config, key) /\ key.state = "whole"
    BY DEF DatasetInv, LoadedInv, Accepts
  <2>2. "labels" \in Names
    BY DumpedFacts
  <2>3. key \in File /\ key # Missing
    BY <2>1, <2>2 DEF DatasetInv, FilesInv, IsFile, Missing
  <2>4. erp # Down /\ erp.docs \in Seq(File) /\ Len(erp.docs) = 5
    BY DEF ServesTheKey, Down, DatasetInv, ErpInv
  <2>5. DOMAIN erp.docs = 1..5
    BY <2>4, LenProperties
  <2>6. Docs(erp.docs).invoices = erp.docs[4].cfg
    <3>1. \A k \in 1..5 : Read[k] = "invoices" <=> k = 4
      BY DEF Read
    <3>2. (CHOOSE k \in 1..5 : Read[k] = "invoices") = 4
      BY <3>1
    <3> QED
      BY <2>5, <3>1, <3>2 DEF Docs
  <2>7. erp.docs[4].cfg = key.cfg
    <3>1. erp.docs[4] \in Known /\ key \in Known
      BY <2>2, <2>3, <2>4 DEF Known, InErp, OnDisk
    <3>2. erp.docs[4].write = key.write
      BY <2>5 DEF ServesTheKey
    <3> QED
      BY <3>1, <3>2 DEF DatasetInv, WritingInv, OfOneWriting
  <2>8. config \in Possible
    BY DEF DatasetInv, FilesInv
  <2>9. ByHand = DOMAIN key.changed
    BY DEF ByHand
  <2> HIDE DEF key
  <2> QED
    BY <2>1, <2>3, <2>6, <2>7, <2>8, <2>9, AcceptedIsOfTheKey
<1> QED
  BY <1>1, DatasetInvariant, PTL

-----------------------------------------------------------------------------
(* The alarm.  Whatever was written could be built, so a key that is of the  *)
(* configuration as it is can be checked against it.                         *)

BuiltInv ==
    /\ \A n \in Names : There(n) => Buildable(files[n].cfg)
    /\ Generating => Buildable(writer.cfg)

LEMMA BuiltInvariant ==
    ASSUME FilesInv, BuiltInv, [DatasetNext]_datasetVars
    PROVE  BuiltInv'
<1>1. CASE Generate
  BY <1>1 DEF Generate, BuiltInv, There, CanBeBuilt
<1>2. ASSUME NEW state \in {"cut", "whole"}, Generating,
             files' = [files EXCEPT ![Dumped[writer.next]] = Content(state)],
             writer' = Idle \/ writer'.cfg = writer.cfg
      PROVE  BuiltInv'
  <2>1. Dumped[writer.next] \in Names
    BY <1>2, DumpedFacts DEF FilesInv, WriterInv, Generating
  <2>2. \A n \in Names : files'[n] = Content(state) \/ files'[n] = files[n]
    BY <1>2, <2>1, FileReplaced
  <2>3. Content(state).cfg = writer.cfg
    BY <1>2, ContentIsFile
  <2> QED
    BY <1>2, <2>2, <2>3 DEF BuiltInv, There, Generating
<1>3. CASE OpenFile
  BY <1>2, <1>3 DEF OpenFile
<1>4. CASE FillFile
  BY <1>2, <1>4 DEF FillFile, FilesInv, WriterInv, Generating
<1>5. CASE KillGenerator
  BY <1>5 DEF KillGenerator, BuiltInv, There, Generating
<1>6. ASSUME NEW i \in Edited, NEW field \in Fields, NEW text \in Texts[field],
             EditKey(i, field, text)
      PROVE  BuiltInv'
  <2>1. writer' = writer
    BY <1>6 DEF EditKey
  <2> QED
    BY <1>6, <2>1, EditKeyKeeps DEF BuiltInv, There, Generating
<1>7. CASE UNCHANGED <<files, writer>>
  BY <1>7 DEF BuiltInv, There, Generating
<1> QED
  BY <1>1, <1>3, <1>4, <1>5, <1>6, <1>7
     DEF DatasetNext, datasetVars, EditConfig, StartErp, ReadFile, StopErp, Load

LEMMA SplitsAreOfThePlan ==
    ASSUME NEW split \in Splits, files["labels"].cfg = files["splits"].cfg,
           Buildable(files["splits"].cfg), files["splits"].cfg \in Possible
    PROVE  InSplit(split) \subseteq Ids(files["labels"].cfg)
<1> DEFINE cfg == files["splits"].cfg
<1>1. Plan[cfg] = PlanOfLabels(cfg)
  BY DEF Plan
<1>2. /\ Dev(Plan[cfg], cfg.fraction) \subseteq Ids(cfg)
      /\ Held(Plan[cfg], cfg.fraction) \subseteq Ids(cfg)
  BY DEF Dev, Held, Ids
<1>3. cfg.golden \subseteq Ids(cfg)
  BY <1>1, <1>2 DEF Buildable
<1> HIDE DEF cfg
<1>4. InSplit(split) \in {Ids(cfg), Dev(Plan[cfg], cfg.fraction),
                         Held(Plan[cfg], cfg.fraction), cfg.golden}
  BY DEF InSplit, SplitsOf, Splits, cfg
<1> QED
  BY <1>2, <1>3, <1>4 DEF cfg

LEMMA NoAlarmRaised ==
    ASSUME FilesInv, BuiltInv, NEW split \in Splits,
           \A name \in {"labels", "splits"} : IsWhole(files[name]) /\ files[name].cfg = config,
           ByHand = {}
    PROVE  LoadCases(split).outcome \in {"accepted", "empty"}
<1>1. "labels" \in Names /\ "splits" \in Names
  BY DumpedFacts
<1>2. There("splits")
  BY DEF IsWhole, There, Missing
<1>3. Buildable(config) /\ config \in Possible
  BY <1>1, <1>2 DEF BuiltInv, FilesInv
<1> DEFINE ids == InSplit(split)
<1>4. ids \subseteq Ids(files["labels"].cfg) \cap Ids(config)
  BY <1>3, SplitsAreOfThePlan
<1>5. Matches(ids)
  BY DEF Matches, Field, EntryOf
<1> HIDE DEF ids
<1>6. config \in CanBeBuilt
  BY <1>3 DEF CanBeBuilt
<1> QED
  BY <1>4, <1>5, <1>6 DEF LoadCases, ids

(* Regenerating clears the alarm. *)
THEOREM AlarmIsTrue == DatasetSpec => []NoFalseAlarm
<1> DEFINE Inv == FilesInv /\ BuiltInv /\ NoFalseAlarm
<1>1. DatasetInit => Inv
  <2> SUFFICES ASSUME DatasetInit PROVE BuiltInv /\ NoFalseAlarm
    BY FilesInitial
  <2>1. loaded = NotLoaded /\ writer = Idle /\ files = [name \in Names |-> Missing]
    BY DEF DatasetInit, Names
  <2> QED
    BY <2>1 DEF BuiltInv, NoFalseAlarm, NotLoaded, There, Generating
<1>2. Inv /\ [DatasetNext]_datasetVars => Inv'
  <2> SUFFICES ASSUME Inv, [DatasetNext]_datasetVars PROVE NoFalseAlarm'
    BY FilesInvariant, BuiltInvariant
  <2>1. ASSUME NEW split \in Splits, Load(split) PROVE NoFalseAlarm'
    <3>1. loaded' = LoadCases(split) /\ UNCHANGED <<files, config>>
      BY <2>1 DEF Load
    <3> QED
      BY <3>1, NoAlarmRaised DEF NoFalseAlarm, IsWhole, ByHand
  <2>2. CASE loaded' = NotLoaded
    BY <2>2 DEF NoFalseAlarm, NotLoaded
  <2>3. CASE UNCHANGED datasetVars
    BY <2>3 DEF NoFalseAlarm, datasetVars, IsWhole, ByHand
  <2> QED
    BY <2>1, <2>2, <2>3
       DEF DatasetNext, Generate, OpenFile, FillFile, KillGenerator, EditConfig, EditKey,
           StartErp, ReadFile, StopErp
<1>3. Inv => NoFalseAlarm
  OBVIOUS
<1> HIDE DEF Inv
<1> QED
  BY <1>1, <1>2, <1>3, PTL DEF DatasetSpec

-----------------------------------------------------------------------------
(* The plan and the splits, for every configuration GeneratorConfig lets     *)
(* through: any weights, in any order, any count, seed and fraction.         *)

LEMMA Division ==
    ASSUME NEW n \in Int, NEW d \in Nat \ {0}
    PROVE  /\ n \div d \in Int /\ n % d \in 0..(d - 1)
           /\ n = d * (n \div d) + (n % d)
OBVIOUS

LEMMA RoundedBounds ==
    ASSUME NEW n \in Int, NEW d \in Nat \ {0}
    PROVE  /\ Rounded(n, d) \in Int
           /\ 2 * n - d <= 2 * (d * Rounded(n, d)) /\ 2 * (d * Rounded(n, d)) <= 2 * n + d
<1> DEFINE q == n \div d
           r == n % d
<1>1. q \in Int /\ r \in 0..(d - 1) /\ n = d * q + r
  BY Division
<1>2. Rounded(n, d) = IF 2 * r < d \/ (2 * r = d /\ q % 2 = 0) THEN q ELSE q + 1
  BY DEF Rounded
<1> HIDE DEF q, r
<1>3. d * (q + 1) = d * q + d /\ d * q \in Int
  BY <1>1
<1>4. PICK m \in Int : m = d * q
  BY <1>3
<1>5. CASE Rounded(n, d) = q
  BY <1>1, <1>2, <1>4, <1>5
<1>6. CASE Rounded(n, d) = q + 1
  BY <1>1, <1>2, <1>3, <1>4, <1>6
<1> QED
  BY <1>2, <1>5, <1>6

LEMMA SumOfIs ==
    ASSUME NEW s \in Seq(Int)
    PROVE  \E F : Sums(F, s) /\ SumOf(s) = F[Len(s)] /\ \A i \in 0..Len(s) : F[i] \in Int
<1> DEFINE F == CHOOSE f : f = [n \in 0..Len(s) |-> IF n = 0 THEN 0 ELSE f[n - 1] + s[n]]
<1>1. \E f : f = [n \in 0..Len(s) |-> IF n = 0 THEN 0 ELSE f[n - 1] + s[n]]
  BY SumsExist DEF Sums
<1>2. F = [n \in 0..Len(s) |-> IF n = 0 THEN 0 ELSE F[n - 1] + s[n]]
  BY <1>1
<1>3. SumOf(s) = F[Len(s)]
  BY DEF SumOf
<1> HIDE DEF F
<1>4. Sums(F, s)
  BY <1>2 DEF Sums
<1>5. \A i \in 0..Len(s) : F[i] \in Int
  BY <1>4, SumsType
<1> QED
  BY <1>3, <1>4, <1>5

LEMMA SumZero ==
    ASSUME NEW s \in Seq(Int), \A i \in DOMAIN s : s[i] = 0
    PROVE  SumOf(s) = 0
<1>1. PICK F : Sums(F, s) /\ SumOf(s) = F[Len(s)] /\ \A i \in 0..Len(s) : F[i] \in Int
  BY SumOfIs
<1> DEFINE n == Len(s)
           T == {i \in Nat : i \in 0..n => F[i] = 0}
<1>2. n \in Nat /\ DOMAIN s = 1..n /\ T \subseteq Nat
  OBVIOUS
<1>3. 0 \in T
  BY <1>1, <1>2 DEF Sums
<1>4. ASSUME NEW i \in 1..n, i - 1 \in T PROVE i \in T
  <2>1. i - 1 \in 0..n /\ i \in 0..n /\ i # 0 /\ i \in Nat
    BY <1>2
  <2>2. F[i] = F[i - 1] + s[i] /\ s[i] = 0
    BY <1>1, <1>2, <2>1 DEF Sums
  <2>3. F[i - 1] = 0
    BY <1>4, <2>1
  <2> QED
    BY <2>1, <2>2, <2>3
<1> HIDE DEF T
<1>5. 0..n \subseteq T
  BY <1>2, <1>3, <1>4, InductionUpTo
<1> QED
  BY <1>1, <1>2, <1>5 DEF T

(* One number more changes the sum by as much. *)
LEMMA SumChange ==
    ASSUME NEW s \in Seq(Int), NEW k \in DOMAIN s, NEW d \in Int
    PROVE  /\ [s EXCEPT ![k] = @ + d] \in Seq(Int)
           /\ SumOf([s EXCEPT ![k] = @ + d]) = SumOf(s) + d
<1> DEFINE t == [s EXCEPT ![k] = @ + d]
           n == Len(s)
<1>1. /\ n \in Nat /\ DOMAIN s = 1..n /\ k \in 1..n
      /\ t \in Seq(Int) /\ Len(t) = n
      /\ \A i \in 1..n : s[i] \in Int /\ t[i] = IF i = k THEN s[i] + d ELSE s[i]
  OBVIOUS
<1> HIDE DEF t
<1>2. PICK F : Sums(F, s) /\ SumOf(s) = F[n] /\ \A i \in 0..n : F[i] \in Int
  BY SumOfIs
<1>3. PICK G : Sums(G, t) /\ SumOf(t) = G[n]
  BY <1>1, SumOfIs
<1> DEFINE T == {i \in Nat : i \in 0..n => G[i] = IF i < k THEN F[i] ELSE F[i] + d}
<1>4. T \subseteq Nat
  OBVIOUS
<1>5. 0 \in T
  BY <1>1, <1>2, <1>3 DEF Sums
<1>6. ASSUME NEW i \in 1..n, i - 1 \in T PROVE i \in T
  <2>1. i - 1 \in 0..n /\ i \in 0..n /\ i # 0 /\ i \in Nat
    BY <1>1
  <2>2. F[i] = F[i - 1] + s[i] /\ G[i] = G[i - 1] + t[i]
    BY <1>1, <1>2, <1>3, <2>1 DEF Sums
  <2>3. G[i - 1] = IF i - 1 < k THEN F[i - 1] ELSE F[i - 1] + d
    BY <1>6, <2>1
  <2>4. F[i - 1] \in Int /\ s[i] \in Int /\ t[i] = IF i = k THEN s[i] + d ELSE s[i]
    BY <1>1, <1>2, <2>1
  <2>5. CASE i < k
    <3>1. i - 1 < k /\ i # k
      BY <1>1, <2>5
    <3> QED
      BY <2>1, <2>2, <2>3, <2>4, <2>5, <3>1
  <2>6. CASE i = k
    <3>1. i - 1 < k /\ ~(i < k)
      BY <1>1, <2>6
    <3> QED
      BY <2>1, <2>2, <2>3, <2>4, <2>6, <3>1
  <2>7. CASE i > k
    <3>1. ~(i - 1 < k) /\ ~(i < k) /\ i # k
      BY <1>1, <2>7
    <3> QED
      BY <2>1, <2>2, <2>3, <2>4, <3>1
  <2> QED
    BY <1>1, <2>1, <2>5, <2>6, <2>7
<1> HIDE DEF T
<1>7. 0..n \subseteq T
  BY <1>1, <1>4, <1>5, <1>6, InductionUpTo
<1>8. G[n] = F[n] + d
  BY <1>1, <1>7 DEF T
<1>9. SumOf(t) = SumOf(s) + d
  BY <1>2, <1>3, <1>8
<1> QED
  BY <1>1, <1>9 DEF t

LEMMA SumOfOne ==
    ASSUME NEW s \in Seq(Int), NEW k \in DOMAIN s, \A i \in DOMAIN s : i # k => s[i] = 0
    PROVE  SumOf(s) = s[k]
<1>1. s[k] \in Int /\ 0 - s[k] \in Int
  OBVIOUS
<1> DEFINE d == 0 - s[k]
           t == [s EXCEPT ![k] = @ + d]
<1>2. t \in Seq(Int) /\ SumOf(t) = SumOf(s) + d
  BY <1>1, SumChange
<1>3. \A i \in DOMAIN t : t[i] = 0
  BY <1>1
<1> HIDE DEF t
<1>4. SumOf(t) = 0
  BY <1>2, <1>3, SumZero
<1>5. SumOf(s) \in Int
  <2>1. Len(s) \in 0..Len(s)
    OBVIOUS
  <2> QED
    BY <2>1, SumOfIs
<1> QED
  BY <1>1, <1>2, <1>4, <1>5

(* What is counted in sequences one after the other adds up. *)
Lengthened(F, seqs) ==
    F = [i \in 1..Len(seqs) |-> IF i = 1 THEN seqs[i] ELSE F[i - 1] \o seqs[i]]

LEMMA FlattenIs ==
    ASSUME NEW V, NEW seqs \in Seq(Seq(V)), Len(seqs) > 0
    PROVE  \E F : Lengthened(F, seqs) /\ FlattenSeq(seqs) = F[Len(seqs)]
<1> DEFINE n    == Len(seqs)
           step == [x \in (1..n) \X Seq(V) |-> x[2] \o seqs[x[1]]]
           F == CHOOSE f : f = [i \in 1..Len(seqs) |->
                                   IF i = 1 THEN seqs[i] ELSE f[i - 1] \o seqs[i]]
<1>1. n \in Nat /\ \A i \in 1..n : seqs[i] \in Seq(V)
  OBVIOUS
<1>2. step \in [(1..n) \X Seq(V) -> Seq(V)]
  <2>1. \A a, b \in Seq(V) : a \o b \in Seq(V)
    OBVIOUS
  <2> QED
    BY <1>1, <2>1
<1>3. PICK G : Computes(G, n, <<>>, step)
  BY <1>1, RecursionExists
<1>4. \A i \in 0..n : G[i] \in Seq(V)
  <2>1. <<>> \in Seq(V)
    OBVIOUS
  <2> HIDE DEF step
  <2> QED
    BY <1>1, <1>2, <1>3, <2>1, RecursionTypes
<1>5. ASSUME NEW i \in 1..n
      PROVE  i \in 0..n /\ i - 1 \in 0..n /\ G[i] = G[i - 1] \o seqs[i]
  <2>1. i \in 0..n /\ i - 1 \in 0..n /\ i # 0
    BY <1>1
  <2>2. <<i, G[i - 1]>> \in (1..n) \X Seq(V)
    BY <1>4, <2>1
  <2>3. G[i] = step[<<i, G[i - 1]>>]
    BY <1>3, <2>1 DEF Computes
  <2> QED
    BY <2>1, <2>2, <2>3
<1> HIDE DEF step
<1> DEFINE H == [i \in 1..n |-> G[i]]
           I == [i \in 1..n |-> IF i = 1 THEN seqs[i] ELSE H[i - 1] \o seqs[i]]
<1>6. ASSUME NEW i \in 1..n PROVE H[i] = I[i]
  <2>1. CASE i = 1
    <3>1. G[i - 1] = <<>>
      BY <1>1, <1>3, <2>1 DEF Computes
    <3>2. <<>> \o seqs[i] = seqs[i]
      BY <1>1
    <3> QED
      BY <1>5, <2>1, <3>1, <3>2
  <2>2. CASE i # 1
    <3>1. i - 1 \in 1..n
      BY <1>1, <2>2
    <3>2. H[i - 1] = G[i - 1] /\ H[i] = G[i] /\ I[i] = H[i - 1] \o seqs[i]
      BY <2>2, <3>1
    <3> HIDE DEF H, I
    <3> QED
      BY <1>5, <3>2
  <2> QED
    BY <2>1, <2>2
<1>7. H = I
  BY <1>6, Zenon
<1> HIDE DEF H
<1>8. \E f : f = [i \in 1..Len(seqs) |-> IF i = 1 THEN seqs[i] ELSE f[i - 1] \o seqs[i]]
  BY <1>7, Zenon
<1>9. F = [i \in 1..Len(seqs) |-> IF i = 1 THEN seqs[i] ELSE F[i - 1] \o seqs[i]]
  BY <1>8, Zenon
<1>10. FlattenSeq(seqs) = F[Len(seqs)]
  BY <1>1 DEF FlattenSeq
<1> HIDE DEF F
<1> QED
  BY <1>9, <1>10 DEF Lengthened

LEMMA OccFlattened ==
    ASSUME NEW V, NEW seqs \in Seq(Seq(V)), Len(seqs) > 0, NEW K
    PROVE  /\ FlattenSeq(seqs) \in Seq(V)
           /\ [i \in DOMAIN seqs |-> Occ(seqs[i], K)] \in Seq(Int)
           /\ Occ(FlattenSeq(seqs), K) = SumOf([i \in DOMAIN seqs |-> Occ(seqs[i], K)])
<1> DEFINE n == Len(seqs)
           s == [i \in DOMAIN seqs |-> Occ(seqs[i], K)]
<1>1. n \in Nat /\ n > 0 /\ DOMAIN seqs = 1..n /\ \A i \in 1..n : seqs[i] \in Seq(V)
  OBVIOUS
<1>2. \A i \in 1..n : Occ(seqs[i], K) \in Int
  BY <1>1, OccFacts
<1>3. s \in Seq(Int) /\ Len(s) = n /\ \A i \in 1..n : s[i] = Occ(seqs[i], K)
  BY <1>1, <1>2
<1> HIDE DEF s
<1>4. PICK F : Lengthened(F, seqs) /\ FlattenSeq(seqs) = F[n]
  BY FlattenIs
<1>5. PICK G : Sums(G, s) /\ SumOf(s) = G[n]
  BY <1>3, SumOfIs
<1> DEFINE T == {i \in Nat : i \in 1..n => F[i] \in Seq(V) /\ Occ(F[i], K) = G[i]}
<1>6. T \subseteq Nat /\ 0 \in T
  OBVIOUS
<1>7. ASSUME NEW i \in 1..n, i - 1 \in T PROVE i \in T
  <2>1. i \in 0..n /\ i # 0 /\ i \in Nat
    BY <1>1
  <2>2. G[i] = G[i - 1] + s[i]
    BY <1>3, <1>5, <2>1 DEF Sums
  <2>3. F[i] = IF i = 1 THEN seqs[i] ELSE F[i - 1] \o seqs[i]
    BY <1>4 DEF Lengthened
  <2>4. CASE i = 1
    <3>1. G[i - 1] = 0
      BY <1>3, <1>5, <2>4 DEF Sums
    <3> QED
      BY <1>1, <1>2, <1>3, <2>1, <2>2, <2>3, <2>4, <3>1
  <2>5. CASE i # 1
    <3>1. F[i - 1] \in Seq(V) /\ Occ(F[i - 1], K) = G[i - 1]
      <4>1. i - 1 \in 1..n
        BY <1>1, <2>5
      <4> QED
        BY <1>7, <4>1
    <3>2. F[i] \in Seq(V) /\ Occ(F[i], K) = Occ(F[i - 1], K) + Occ(seqs[i], K)
      BY <1>1, <2>3, <2>5, <3>1, OccConcat
    <3> QED
      BY <1>3, <2>1, <2>2, <3>1, <3>2
  <2> QED
    BY <2>4, <2>5
<1> HIDE DEF T
<1>8. 0..n \subseteq T
  BY <1>1, <1>6, <1>7, InductionUpTo
<1>9. n \in T /\ n \in 1..n
  BY <1>1, <1>8
<1> QED
  BY <1>3, <1>4, <1>5, <1>9 DEF s, T

Kinds == ExceptionLabel \X (AmbiguousVariant \cup {NoVariant})
KindsOf(label) == {kind \in Kinds : kind[1] = label}

LEMMA Repeated ==
    ASSUME NEW V, NEW kind \in V, NEW n \in Int, NEW K
    PROVE  /\ Repeat(kind, n) \in Seq(V)
           /\ n >= 0 => Occ(Repeat(kind, n), K) = (IF kind \in K THEN n ELSE 0)
<1>1. CASE n <= 0
  <2>1. Repeat(kind, n) = <<>>
    BY <1>1 DEF Repeat
  <2>2. <<>> \in Seq(V) /\ DOMAIN <<>> = {} /\ Len(<<>>) = 0
    OBVIOUS
  <2>3. Occ(<<>>, K) = 0
    BY <2>2, OccFacts
  <2> QED
    BY <1>1, <2>1, <2>2, <2>3
<1>2. CASE n > 0
  <2> DEFINE s == [i \in 1..n |-> kind]
  <2>1. Repeat(kind, n) = s
    BY <1>2 DEF Repeat
  <2>2. s \in Seq(V) /\ DOMAIN s = 1..n /\ Len(s) = n /\ \A i \in 1..n : s[i] = kind
    BY <1>2
  <2> HIDE DEF s
  <2>3. Occ(s, K) = IF kind \in K THEN n ELSE 0
    BY <2>2, OccFacts
  <2> QED
    BY <2>1, <2>2, <2>3
<1> QED
  BY <1>1, <1>2

(* divmod and the first ones getting what is left over: nothing is lost.     *)
Part(n, k, i) == (n \div k) + (IF i <= n % k THEN 1 ELSE 0)

LEMMA PartsAddUp ==
    ASSUME NEW n \in Nat, NEW k \in Nat \ {0}
    PROVE  /\ \A i \in 1..k : Part(n, k, i) \in Nat
           /\ [i \in 1..k |-> Part(n, k, i)] \in Seq(Int)
           /\ SumOf([i \in 1..k |-> Part(n, k, i)]) = n
<1> DEFINE q == n \div k
           r == n % k
           s == [i \in 1..k |-> Part(n, k, i)]
<1>1. q \in Int /\ r \in 0..(k - 1) /\ n = k * q + r
  BY Division
<1>2. q >= 0
  <2> SUFFICES ASSUME q <= -1 PROVE FALSE
    BY <1>1
  <2>1. k * q <= 0 - k
    BY <1>1
  <2> QED
    BY <1>1, <2>1
<1>3. \A i \in 1..k : Part(n, k, i) = q + (IF i <= r THEN 1 ELSE 0)
  BY DEF Part
<1> HIDE DEF q, r
<1>4. \A i \in 1..k : Part(n, k, i) \in Nat
  BY <1>1, <1>2, <1>3
<1>5. s \in Seq(Int) /\ Len(s) = k /\ \A i \in 1..k : s[i] = Part(n, k, i)
  BY <1>4
<1> HIDE DEF s
<1>6. PICK F : Sums(F, s) /\ SumOf(s) = F[k]
  BY <1>5, SumOfIs
<1> DEFINE T == {i \in Nat : i \in 0..k => F[i] = i * q + (IF i <= r THEN i ELSE r)}
<1>7. T \subseteq Nat
  OBVIOUS
<1>8. 0 \in T
  <2>1. F[0] = 0
    BY <1>5, <1>6 DEF Sums
  <2> QED
    BY <1>1, <2>1
<1>9. ASSUME NEW i \in 1..k, i - 1 \in T PROVE i \in T
  <2>1. i - 1 \in 0..k /\ i \in 0..k /\ i # 0 /\ i \in Nat
    OBVIOUS
  <2>2. F[i] = F[i - 1] + s[i]
    BY <1>5, <1>6, <2>1 DEF Sums
  <2>3. s[i] = q + (IF i <= r THEN 1 ELSE 0)
    BY <1>3, <1>5
  <2>4. F[i - 1] = (i - 1) * q + (IF i - 1 <= r THEN i - 1 ELSE r)
    BY <1>9, <2>1
  <2>5. PICK a \in Int : a = (i - 1) * q
    BY <1>1
  <2>6. i * q = a + q
    BY <1>1, <2>5
  <2>7. F[i - 1] = a + (IF i - 1 <= r THEN i - 1 ELSE r)
    BY <2>4, <2>5
  <2>8. F[i] = (a + q) + (IF i <= r THEN i ELSE r)
    BY <1>1, <2>2, <2>3, <2>7
  <2> QED
    BY <2>1, <2>6, <2>8
<1> HIDE DEF T
<1>10. 0..k \subseteq T
  BY <1>7, <1>8, <1>9, InductionUpTo
<1>11. F[k] = k * q + r
  BY <1>1, <1>10 DEF T
<1> QED
  BY <1>1, <1>4, <1>5, <1>6, <1>11 DEF s

(* A bucket of a label holds as many scenarios as it was given, all of the   *)
(* label, and a variant that is listed once is in its part of them.          *)
LEMMA BucketFacts ==
    ASSUME NEW cfg, cfg.variants \in Seq(AmbiguousVariant),
           NEW label \in ExceptionLabel, label = "AMBIGUOUS" => cfg.variants # <<>>,
           NEW n \in Int
    PROVE  /\ Bucket(cfg, label, n) \in Seq(KindsOf(label)) 
           /\ Bucket(cfg, label, n) \in Seq(Kinds) 
           /\ n >= 0 => Len(Bucket(cfg, label, n)) = n
           /\ n >= 0 /\ label = "AMBIGUOUS" /\ IsInjective(cfg.variants) =>
                  \A j \in DOMAIN cfg.variants :
                      Occ(Bucket(cfg, label, n), {<<label, cfg.variants[j]>>})
                          = Part(n, Len(cfg.variants), j)
<1> DEFINE k  == Len(cfg.variants)
           ks == [i \in 1..k |-> Repeat(<<label, cfg.variants[i]>>, Part(n, k, i))]
           V  == KindsOf(label)
<1>0. V \subseteq Kinds
  BY DEF KindsOf
<1>a. Seq(V) \subseteq Seq(Kinds)
  BY <1>0
<1> HIDE DEF V
<1>1. CASE label # "AMBIGUOUS"
  <2>1. Bucket(cfg, label, n) = Repeat(<<label, NoVariant>>, n)
    BY <1>1 DEF Bucket
  <2>2. <<label, NoVariant>> \in V
    BY DEF V, KindsOf, Kinds
  <2>3. Bucket(cfg, label, n) \in Seq(V)
    <3>1. PICK kind \in V : kind = <<label, NoVariant>>
      BY <2>2
    <3>2. Repeat(kind, n) \in Seq(V)
      BY Repeated
    <3> QED
      BY <2>1, <3>1, <3>2
  <2>4. ASSUME n >= 0 PROVE Len(Bucket(cfg, label, n)) = n
    BY <2>1, <2>4 DEF Repeat
  <2> QED
    BY <1>a, <1>1, <2>3, <2>4 DEF V
<1>2. CASE label = "AMBIGUOUS"
  <2>1. k \in Nat \ {0} /\ DOMAIN cfg.variants = 1..k
        /\ \A i \in 1..k : cfg.variants[i] \in AmbiguousVariant
    <3>1. cfg.variants # <<>>
      BY <1>2
    <3> QED
      BY <3>1
  <2>2. Bucket(cfg, label, n) = FlattenSeq(ks)
    BY <1>2 DEF Bucket, Part
  <2>3. \A i \in 1..k : <<label, cfg.variants[i]>> \in V
    BY <2>1 DEF V, KindsOf, Kinds
  <2> HIDE DEF k
  <2>4. \A i \in 1..k : Part(n, k, i) \in Int
    <3>1. n \div k \in Int /\ n % k \in Int
      BY <2>1, Division
    <3> QED
      BY <2>1, <3>1 DEF Part
  <2>5. \A i \in 1..k : Repeat(<<label, cfg.variants[i]>>, Part(n, k, i)) \in Seq(V)
    <3> SUFFICES ASSUME NEW i \in 1..k
                 PROVE  Repeat(<<label, cfg.variants[i]>>, Part(n, k, i)) \in Seq(V)
      OBVIOUS
    <3>1. <<label, cfg.variants[i]>> \in V /\ Part(n, k, i) \in Int
      BY <2>3, <2>4
    <3> QED
      BY <3>1, Repeated
  <2>6. ks \in Seq(Seq(V)) /\ Len(ks) = k /\ DOMAIN ks = 1..k
        /\ \A i \in 1..k : ks[i] = Repeat(<<label, cfg.variants[i]>>, Part(n, k, i))
    <3>1. DOMAIN ks = 1..k /\ ks = [i \in 1..k |-> ks[i]]
      OBVIOUS
    <3>2. \A i \in 1..k : ks[i] = Repeat(<<label, cfg.variants[i]>>, Part(n, k, i))
      OBVIOUS
    <3> HIDE DEF ks
    <3>3. \A i \in 1..k : ks[i] \in Seq(V)
      BY <2>5, <3>2
    <3>4. ks \in Seq(Seq(V)) /\ Len(ks) = k
      BY <2>1, <3>1, <3>3
    <3> QED
      BY <3>1, <3>2, <3>4
  <2> HIDE DEF ks
  <2>7. ASSUME NEW K
        PROVE  /\ FlattenSeq(ks) \in Seq(V)
               /\ Occ(FlattenSeq(ks), K) = SumOf([i \in 1..k |-> Occ(ks[i], K)])
    <3>1. Len(ks) > 0
      BY <2>1, <2>6
    <3>2. Occ(FlattenSeq(ks), K) = SumOf([i \in DOMAIN ks |-> Occ(ks[i], K)])
      BY <2>6, <3>1, OccFlattened
    <3> QED
      BY <2>6, <3>1, <3>2, OccFlattened
  <2>8. ASSUME n >= 0 PROVE Len(FlattenSeq(ks)) = n
    <3>1. n \in Nat
      BY <2>8
    <3>2. \A i \in 1..k : Part(n, k, i) \in Nat
      BY <2>1, <3>1, PartsAddUp
    <3>3. \A i \in 1..k : Occ(ks[i], V) = Part(n, k, i)
      <4> SUFFICES ASSUME NEW i \in 1..k PROVE Occ(ks[i], V) = Part(n, k, i)
        OBVIOUS
      <4>1. <<label, cfg.variants[i]>> \in V /\ Part(n, k, i) \in Nat
        BY <2>3, <3>2
      <4>2. Occ(Repeat(<<label, cfg.variants[i]>>, Part(n, k, i)), V) = Part(n, k, i)
        BY <4>1, Repeated
      <4> QED
        BY <2>6, <4>2
    <3>4. [i \in 1..k |-> Occ(ks[i], V)] = [i \in 1..k |-> Part(n, k, i)]
      BY <3>3
    <3>5. Occ(FlattenSeq(ks), V) = n
      BY <2>1, <2>7, <3>1, <3>4, PartsAddUp
    <3>6. \A i \in DOMAIN FlattenSeq(ks) : FlattenSeq(ks)[i] \in V
      <4>1. FlattenSeq(ks) \in Seq(V)
        BY <2>7
      <4> QED
        BY <4>1, ElementOfSeq
    <3> QED
      BY <2>7, <3>5, <3>6, OccFacts
  <2>9. ASSUME n >= 0, IsInjective(cfg.variants), NEW j \in 1..k
        PROVE  Occ(FlattenSeq(ks), {<<label, cfg.variants[j]>>}) = Part(n, k, j)
    <3> DEFINE K == {<<label, cfg.variants[j]>>}
               s == [i \in 1..k |-> Occ(ks[i], K)]
    <3>1. n \in Nat
      BY <2>9
    <3>2. \A i \in 1..k : Part(n, k, i) \in Nat
      BY <2>1, <3>1, PartsAddUp
    <3>3. \A i \in 1..k : i # j => <<label, cfg.variants[i]>> \notin K
      BY <2>1, <2>9 DEF IsInjective
    <3>4. <<label, cfg.variants[j]>> \in K
      OBVIOUS
    <3> HIDE DEF K
    <3>5. \A i \in 1..k : Occ(ks[i], K) = IF i = j THEN Part(n, k, i) ELSE 0
      <4> SUFFICES ASSUME NEW i \in 1..k
                   PROVE  Occ(ks[i], K) = IF i = j THEN Part(n, k, i) ELSE 0
        OBVIOUS
      <4>1. PICK kind \in V, m \in Nat :
                kind = <<label, cfg.variants[i]>> /\ m = Part(n, k, i)
        BY <2>3, <3>2
      <4>2. Occ(Repeat(kind, m), K) = IF kind \in K THEN m ELSE 0
        BY Repeated
      <4> QED
        BY <2>6, <3>3, <3>4, <4>1, <4>2
    <3>6. s \in Seq(Int) /\ DOMAIN s = 1..k /\ \A i \in 1..k : s[i] = IF i = j THEN Part(n, k, i) ELSE 0
      BY <2>1, <3>2, <3>5
    <3> HIDE DEF s
    <3>7. SumOf(s) = Part(n, k, j)
      BY <3>6, SumOfOne
    <3> QED
      BY <2>7, <3>7 DEF s, K
  <2> QED
    BY <1>a, <1>2, <2>1, <2>2, <2>7, <2>8, <2>9 DEF V, k
<1> QED
  BY <1>1, <1>2

LEMMA RemaindersDiffer ==
    ASSUME NEW n \in Nat \ {0}, NEW a \in 1..n, NEW b \in 1..n, NEW seed \in Int,
           (a - 1 + seed) % n = (b - 1 + seed) % n
    PROVE  ~(a < b)
<1> SUFFICES ASSUME a < b PROVE FALSE
  OBVIOUS
<1> DEFINE x == a - 1 + seed
           y == b - 1 + seed
<1>1. x \in Int /\ y \in Int /\ y - x = b - a /\ b - a \in 1..(n - 1)
  OBVIOUS
<1>2. x % n = y % n
  OBVIOUS
<1> HIDE DEF x, y
<1>3. /\ x \div n \in Int /\ x % n \in Int /\ x = n * (x \div n) + (x % n)
      /\ y \div n \in Int /\ y % n \in Int /\ y = n * (y \div n) + (y % n)
  BY <1>1, Division
<1> DEFINE p == x \div n
           q == y \div n
           r == x % n
<1>4. p \in Int /\ q \in Int /\ r \in Int /\ x = n * p + r /\ y = n * q + r
  BY <1>2, <1>3
<1> HIDE DEF p, q, r
<1>5. PICK d \in Int : d = q - p
  BY <1>4
<1>6. y - x = n * d
  <2>1. n * d = n * q - n * p /\ n * q \in Int /\ n * p \in Int
    BY <1>4, <1>5
  <2> QED
    BY <1>4, <2>1
<1>7. CASE d <= 0
  <2>1. n * d <= 0
    BY <1>7
  <2> QED
    BY <1>1, <1>6, <2>1
<1>8. CASE d >= 1
  <2>1. n * d >= n
    BY <1>8
  <2> QED
    BY <1>1, <1>6, <2>1
<1> QED
  BY <1>7, <1>8

LEMMA ShuffledFacts ==
    ASSUME NEW V, NEW s \in Seq(V), NEW seed \in Int, NEW K
    PROVE  /\ Shuffled(s, seed) \in Seq(V) /\ Len(Shuffled(s, seed)) = Len(s)
           /\ Occ(Shuffled(s, seed), K) = Occ(s, K)
<1> DEFINE n == Len(s)
           p == [i \in DOMAIN s |-> ((i - 1 + seed) % n) + 1]
           t == [i \in DOMAIN s |-> s[p[i]]]
<1>1. n \in Nat /\ DOMAIN s = 1..n
  OBVIOUS
<1>2. \A i \in 1..n : (i - 1 + seed) % n \in 0..(n - 1)
  <2> SUFFICES ASSUME NEW i \in 1..n PROVE (i - 1 + seed) % n \in 0..(n - 1)
    OBVIOUS
  <2>1. i - 1 + seed \in Int /\ n \in Nat \ {0}
    BY <1>1
  <2> HIDE DEF n
  <2> QED
    BY <2>1, Division
<1>3. p \in [DOMAIN s -> DOMAIN s]
  <2> SUFFICES ASSUME NEW i \in 1..n PROVE ((i - 1 + seed) % n) + 1 \in 1..n
    BY <1>1
  <2>1. PICK r \in 0..(n - 1) : r = (i - 1 + seed) % n
    BY <1>2
  <2> QED
    BY <1>1, <2>1
<1>4. ASSUME NEW a \in DOMAIN s, NEW b \in DOMAIN s, p[a] = p[b] PROVE a = b
  <2>1. a \in 1..n /\ b \in 1..n /\ n \in Nat \ {0}
    BY <1>1
  <2>2. ((a - 1 + seed) % n) + 1 = ((b - 1 + seed) % n) + 1
    BY <1>4
  <2>3. PICK r \in 0..(n - 1), u \in 0..(n - 1) : r = (a - 1 + seed) % n /\ u = (b - 1 + seed) % n
    BY <1>2, <2>1
  <2>4. r + 1 = u + 1
    BY <2>2, <2>3
  <2>5. r = u
    BY <1>1, <2>4
  <2>6. ~(a < b) /\ ~(b < a)
    BY <2>1, <2>3, <2>5, RemaindersDiffer
  <2> QED
    BY <2>1, <2>6
<1>5. Shuffled(s, seed) = t
  BY DEF Shuffled
<1> HIDE DEF p
<1>6. t \in Seq(V) /\ Occ(t, K) = Occ(s, K)
  BY <1>3, <1>4, OccPermuted
<1>7. Len(t) = n
  BY <1>1
<1> QED
  BY <1>5, <1>6, <1>7

LEMMA BiggestIs ==
    ASSUME NEW shares \in Seq(Int), Len(shares) > 0
    PROVE  /\ Biggest(shares) \in DOMAIN shares
           /\ \A j \in DOMAIN shares : shares[j] <= shares[Biggest(shares)]
<1> DEFINE n == Len(shares)
           Best(i, m) == \A j \in 1..m : shares[j] < shares[i] \/ (shares[j] = shares[i] /\ i <= j)
           T == {m \in Nat : m \in 1..n => \E i \in 1..m : Best(i, m)}
<1>1. n \in Nat /\ n > 0 /\ DOMAIN shares = 1..n /\ \A i \in 1..n : shares[i] \in Int
  OBVIOUS
<1>2. T \subseteq Nat /\ 0 \in T
  OBVIOUS
<1>3. ASSUME NEW m \in 1..n, m - 1 \in T PROVE m \in T
  <2>1. m \in Nat /\ \A j \in 1..m : j \in 1..n /\ shares[j] \in Int
    BY <1>1
  <2>2. CASE m = 1
    <3>1. 1 \in 1..m /\ Best(1, m)
      BY <2>1, <2>2
    <3> QED
      BY <2>1, <3>1
  <2>3. CASE m # 1
    <3>1. PICK i \in 1..(m - 1) : Best(i, m - 1)
      <4>1. m - 1 \in 1..n
        BY <1>1, <2>3
      <4> QED
        BY <1>3, <4>1
    <3>2. i \in 1..m /\ m \in 1..m /\ i < m /\ shares[i] \in Int /\ shares[m] \in Int
      BY <2>1
    <3>3. \A j \in 1..m : j = m \/ j \in 1..(m - 1)
      BY <2>1
    <3>4. CASE shares[m] > shares[i]
      <4>1. Best(m, m)
        <5> SUFFICES ASSUME NEW j \in 1..m, j # m PROVE shares[j] < shares[m]
          BY <2>1
        <5>1. j \in 1..(m - 1) /\ shares[j] \in Int
          BY <2>1, <3>3
        <5>2. shares[j] <= shares[i]
          BY <3>1, <3>2, <5>1
        <5> QED
          BY <3>2, <3>4, <5>1, <5>2
      <4> QED
        BY <2>1, <3>2, <4>1
    <3>5. CASE shares[m] <= shares[i]
      <4>1. Best(i, m)
        <5> SUFFICES ASSUME NEW j \in 1..m
                     PROVE  shares[j] < shares[i] \/ (shares[j] = shares[i] /\ i <= j)
          OBVIOUS
        <5>1. CASE j = m
          BY <3>2, <3>5, <5>1
        <5>2. CASE j \in 1..(m - 1)
          BY <3>1, <5>2
        <5> QED
          BY <3>3, <5>1, <5>2
      <4> QED
        BY <2>1, <3>2, <4>1
    <3>6. shares[m] > shares[i] \/ shares[m] <= shares[i]
      BY <3>2
    <3> HIDE DEF T
    <3> QED
      BY <3>4, <3>5, <3>6
  <2> QED
    BY <2>2, <2>3
<1> HIDE DEF T
<1>4. 0..n \subseteq T
  BY <1>1, <1>2, <1>3, InductionUpTo
<1>5. n \in T /\ n \in 1..n
  BY <1>1, <1>4
<1>6. \E i \in 1..n : Best(i, n)
  BY <1>5 DEF T
<1>7. Biggest(shares) \in 1..n /\ Best(Biggest(shares), n)
  BY <1>1, <1>6 DEF Biggest
<1>8. ASSUME NEW j \in 1..n PROVE shares[j] <= shares[Biggest(shares)]
  BY <1>1, <1>7
<1> QED
  BY <1>1, <1>7, <1>8

LEMMA ConfigFacts ==
    ASSUME NEW cfg \in Possible
    PROVE  /\ cfg.count \in Nat \ {0} /\ cfg.fraction \in 1..99 /\ cfg.seed \in Int
           /\ cfg.variants \in Seq(AmbiguousVariant)
           /\ Len(cfg.weights) \in Nat \ {0} /\ DOMAIN cfg.weights = 1..Len(cfg.weights)
           /\ \A i \in DOMAIN cfg.weights :
                  cfg.weights[i].label \in ExceptionLabel /\ cfg.weights[i].share \in Int
           /\ \A i, j \in DOMAIN cfg.weights : cfg.weights[i].label = cfg.weights[j].label => i = j
<1> DEFINE R == [label : ExceptionLabel, share : Int]
           ls == [i \in DOMAIN cfg.weights |-> cfg.weights[i].label]
           ss == [i \in DOMAIN cfg.weights |-> cfg.weights[i].share]
<1>1. /\ {cfg.count, cfg.masters} \subseteq Nat \ {0}
      /\ cfg.fraction \in 1..99 /\ cfg.seed \in Int
      /\ cfg.variants \in Seq(AmbiguousVariant)
      /\ cfg.weights \in Seq(R)
      /\ IsInjective(ls)
      /\ SumOf(ss) = 1000
  <2>1. Valid(cfg)
    BY DatasetAssumption
  <2> QED
    BY <2>1 DEF Valid
<1> HIDE DEF R
<1>2. /\ Len(cfg.weights) \in Nat /\ DOMAIN cfg.weights = 1..Len(cfg.weights)
      /\ \A i \in DOMAIN cfg.weights : cfg.weights[i] \in R
  BY <1>1, LenProperties, ElementOfSeq
<1>3. \A i \in DOMAIN cfg.weights :
          cfg.weights[i].label \in ExceptionLabel /\ cfg.weights[i].share \in Int
  BY <1>2 DEF R
<1>4. \A i, j \in DOMAIN cfg.weights : cfg.weights[i].label = cfg.weights[j].label => i = j
  <2>1. DOMAIN ls = DOMAIN cfg.weights /\ \A i \in DOMAIN cfg.weights : ls[i] = cfg.weights[i].label
    OBVIOUS
  <2>2. \A i, j \in DOMAIN ls : ls[i] = ls[j] => i = j
    BY <1>1, Zenon DEF IsInjective
  <2> HIDE DEF ls
  <2> QED
    BY <2>1, <2>2
<1>5. Len(cfg.weights) # 0
  <2> SUFFICES ASSUME Len(cfg.weights) = 0 PROVE FALSE
    OBVIOUS
  <2>1. DOMAIN cfg.weights = {}
    BY <1>2
  <2>2. ss \in Seq(Int) /\ DOMAIN ss = {}
    BY <1>2, <1>3
  <2> HIDE DEF ss
  <2>3. SumOf(ss) = 0
    BY <2>2, SumZero
  <2> QED
    BY <1>1, <2>3
<1> QED
  BY <1>1, <1>2, <1>3, <1>4, <1>5

LEMMA SharesFacts ==
    ASSUME NEW cfg \in Possible
    PROVE  /\ Shares(cfg) \in Seq(Int) /\ DOMAIN Shares(cfg) = DOMAIN cfg.weights
           /\ Remainder(cfg) \in Int
           /\ Biggest(Shares(cfg)) \in DOMAIN cfg.weights
           /\ \A j \in DOMAIN cfg.weights : Shares(cfg)[j] <= Shares(cfg)[Biggest(Shares(cfg))]
           /\ \A i \in DOMAIN cfg.weights : LET n == cfg.count * cfg.weights[i].share IN
                  /\ n \in Int /\ Shares(cfg)[i] \in Int
                  /\ 2 * n - 1000 <= 2000 * Shares(cfg)[i] /\ 2000 * Shares(cfg)[i] <= 2 * n + 1000
           /\ Buckets(cfg) \in Seq(Int) /\ DOMAIN Buckets(cfg) = DOMAIN cfg.weights
           /\ \A i \in DOMAIN cfg.weights :
                  Buckets(cfg)[i] = IF i = Biggest(Shares(cfg)) THEN Shares(cfg)[i] + Remainder(cfg)
                                    ELSE Shares(cfg)[i]
           /\ SumOf(Buckets(cfg)) = cfg.count
<1> DEFINE s == Shares(cfg)
           b == Biggest(s)
           D == DOMAIN cfg.weights
<1>1. ASSUME NEW i \in D
      PROVE  /\ cfg.count * cfg.weights[i].share \in Int /\ s[i] \in Int
             /\ 2 * (cfg.count * cfg.weights[i].share) - 1000 <= 2000 * s[i]
             /\ 2000 * s[i] <= 2 * (cfg.count * cfg.weights[i].share) + 1000
  <2>1. cfg.count * cfg.weights[i].share \in Int
    <3>1. cfg.count \in Int /\ cfg.weights[i].share \in Int
      BY ConfigFacts
    <3> QED
      BY <3>1
  <2>2. PICK n \in Int : n = cfg.count * cfg.weights[i].share
    BY <2>1
  <2>3. s[i] = Rounded(n, 1000)
    BY <2>2 DEF Shares
  <2>4. /\ Rounded(n, 1000) \in Int
        /\ 2 * n - 1000 <= 2 * (1000 * Rounded(n, 1000))
        /\ 2 * (1000 * Rounded(n, 1000)) <= 2 * n + 1000
    BY RoundedBounds
  <2> QED
    BY <2>1, <2>2, <2>3, <2>4
<1>2. DOMAIN s = D /\ Len(cfg.weights) \in Nat \ {0} /\ D = 1..Len(cfg.weights)
  BY ConfigFacts DEF Shares
<1>3. s \in Seq(Int) /\ Len(s) = Len(cfg.weights)
  <2>1. s = [i \in 1..Len(cfg.weights) |-> s[i]]
    BY <1>2 DEF Shares
  <2>2. \A i \in 1..Len(cfg.weights) : s[i] \in Int
    BY <1>1, <1>2
  <2> HIDE DEF s
  <2> QED
    BY <1>2, <2>1, <2>2
<1> HIDE DEF s
<1>4. b \in D /\ \A j \in D : s[j] <= s[b]
  BY <1>2, <1>3, BiggestIs
<1>5. SumOf(s) \in Int
  <2>1. Len(s) \in 0..Len(s)
    BY <1>3
  <2> QED
    BY <1>3, <2>1, SumOfIs
<1>6. Remainder(cfg) = cfg.count - SumOf(s) /\ Remainder(cfg) \in Int /\ cfg.count \in Nat
  BY <1>5, ConfigFacts DEF Remainder, s
<1>7. Buckets(cfg) = [s EXCEPT ![b] = @ + Remainder(cfg)]
  BY DEF Buckets, s
<1> HIDE DEF b
<1>8. Buckets(cfg) \in Seq(Int) /\ SumOf(Buckets(cfg)) = SumOf(s) + Remainder(cfg)
  <2>1. b \in DOMAIN s /\ Remainder(cfg) \in Int
    BY <1>2, <1>4, <1>6
  <2>2. /\ [s EXCEPT ![b] = @ + Remainder(cfg)] \in Seq(Int)
        /\ SumOf([s EXCEPT ![b] = @ + Remainder(cfg)]) = SumOf(s) + Remainder(cfg)
    BY <1>3, <2>1, SumChange
  <2> QED
    BY <1>7, <2>2
<1>9. /\ DOMAIN Buckets(cfg) = D
      /\ \A i \in D : Buckets(cfg)[i] = IF i = b THEN s[i] + Remainder(cfg) ELSE s[i]
  BY <1>2, <1>7
<1>10. SumOf(Buckets(cfg)) = cfg.count
  BY <1>5, <1>6, <1>8
<1> QED
  BY <1>1, <1>2, <1>3, <1>4, <1>6, <1>8, <1>9, <1>10 DEF s, b

BucketsOf(cfg) == [i \in DOMAIN cfg.weights |-> Bucket(cfg, cfg.weights[i].label, Buckets(cfg)[i])]

LEMMA PlanFacts ==
    ASSUME NEW cfg \in Possible, VariantsNamed(cfg), NEW K
    PROVE  /\ PlanOfLabels(cfg) \in Seq(Kinds)
           /\ [i \in DOMAIN cfg.weights |-> Occ(BucketsOf(cfg)[i], K)] \in Seq(Int)
           /\ Occ(PlanOfLabels(cfg), K)
                = SumOf([i \in DOMAIN cfg.weights |-> Occ(BucketsOf(cfg)[i], K)])
<1> DEFINE D  == DOMAIN cfg.weights
           bs == BucketsOf(cfg)
<1>1. /\ Len(cfg.weights) \in Nat \ {0} /\ D = 1..Len(cfg.weights) /\ cfg.seed \in Int
      /\ cfg.variants \in Seq(AmbiguousVariant)
      /\ \A i \in D : cfg.weights[i].label \in ExceptionLabel
      /\ \A i \in D : cfg.weights[i].label = "AMBIGUOUS" => cfg.variants # <<>>
  BY ConfigFacts DEF VariantsNamed
<1>2. ASSUME NEW i \in D PROVE Bucket(cfg, cfg.weights[i].label, Buckets(cfg)[i]) \in Seq(Kinds)
  <2>1. Buckets(cfg)[i] \in Int
    <3>1. Buckets(cfg) \in Seq(Int) /\ DOMAIN Buckets(cfg) = D
      BY SharesFacts
    <3> QED
      BY <3>1, ElementOfSeq
  <2> QED
    BY <1>1, <2>1, BucketFacts
<1>3. bs \in Seq(Seq(Kinds)) /\ DOMAIN bs = D /\ Len(bs) > 0
  BY <1>1, <1>2 DEF BucketsOf
<1>4. PlanOfLabels(cfg) = Shuffled(FlattenSeq(bs), cfg.seed)
  BY DEF PlanOfLabels, BucketsOf
<1> HIDE DEF bs
<1>5. /\ FlattenSeq(bs) \in Seq(Kinds)
      /\ [i \in D |-> Occ(bs[i], K)] \in Seq(Int)
      /\ Occ(FlattenSeq(bs), K) = SumOf([i \in D |-> Occ(bs[i], K)])
  <2>1. /\ FlattenSeq(bs) \in Seq(Kinds)
        /\ [i \in DOMAIN bs |-> Occ(bs[i], K)] \in Seq(Int)
        /\ Occ(FlattenSeq(bs), K) = SumOf([i \in DOMAIN bs |-> Occ(bs[i], K)])
    BY <1>3, OccFlattened
  <2> QED
    BY <1>3, <2>1
<1>6. /\ Shuffled(FlattenSeq(bs), cfg.seed) \in Seq(Kinds)
      /\ Occ(Shuffled(FlattenSeq(bs), cfg.seed), K) = Occ(FlattenSeq(bs), K)
  BY <1>1, <1>5, ShuffledFacts
<1> QED
  BY <1>4, <1>5, <1>6 DEF bs

LEMMA NEvalBounds ==
    ASSUME NEW n \in Nat \ {0}, NEW f \in 1..99
    PROVE  /\ NEval(n, f) \in 1..n
           /\ f * n <= 100 * NEval(n, f) /\ 100 * NEval(n, f) <= f * n + 100
<1>1. PICK m \in Int : m = n * f
  OBVIOUS
<1>2. m >= n /\ m <= 99 * n /\ f * n = m
  BY <1>1
<1>3. PICK q \in Int, r \in 0..99 : q = (m + 99) \div 100 /\ m + 99 = 100 * q + r
  BY <1>1, Division
<1>4. NEval(n, f) = q + (IF <<n, f>> \in CeilsUp THEN 1 ELSE 0)
  BY <1>1, <1>3 DEF NEval
<1>5. q \in 1..n /\ m <= 100 * q /\ 100 * q < m + 100
  BY <1>2, <1>3
<1>6. ASSUME <<n, f>> \in CeilsUp PROVE m = 100 * q
  <2>1. m % 100 = 0
    BY <1>1, <1>6, PlannerAssumption
  <2>2. PICK d \in Int : m = 100 * d
    BY <1>1, <2>1, Division
  <2> QED
    BY <1>3, <2>2
<1>7. q + 1 <= n \/ <<n, f>> \notin CeilsUp
  BY <1>2, <1>5, <1>6
<1>8. NEval(n, f) = q \/ (NEval(n, f) = q + 1 /\ m = 100 * q /\ q + 1 <= n)
  BY <1>4, <1>6, <1>7
<1> QED
  BY <1>2, <1>5, <1>8

(* Whoever is planned, the holdout and dev are what splits.py promises.      *)
LEMMA SplitsPart ==
    ASSUME NEW V, NEW plan \in Seq(V), NEW fraction \in 1..99
    PROVE  /\ Held(plan, fraction) \cup Dev(plan, fraction) = DOMAIN plan
           /\ Held(plan, fraction) \cap Dev(plan, fraction) = {}
           /\ \A kind \in Range(plan) :
                  LET all  == Cardinality(OfKind(plan, kind))
                      some == Cardinality(OfKind(plan, kind) \cap Held(plan, fraction)) IN
                  /\ all \in Nat \ {0} /\ some = NEval(all, fraction)
<1> DEFINE D == DOMAIN plan
           H == Held(plan, fraction)
<1>1. D \subseteq Nat /\ IsFiniteSet(D)
  <2>1. Len(plan) \in Nat /\ D = 1..Len(plan)
    OBVIOUS
  <2> QED
    BY <2>1, FS_Interval
<1>2. ASSUME NEW kind
      PROVE  OfKind(plan, kind) \subseteq D /\ IsFiniteSet(OfKind(plan, kind))
             /\ Cardinality(OfKind(plan, kind)) \in Nat
  <2>1. OfKind(plan, kind) \in SUBSET D
    BY DEF OfKind
  <2> QED
    BY <1>1, <2>1, FS_Subset, FS_CardinalityType
<1>3. ASSUME NEW kind, NEW i \in OfKind(plan, kind)
      PROVE  /\ plan[i] = kind /\ i \in D /\ OfKind(plan, kind) # {}
             /\ Cardinality(OfKind(plan, kind)) \in Nat \ {0}
             /\ HeldOf(plan, i, fraction) = NEval(Cardinality(OfKind(plan, kind)), fraction)
             /\ LaterOfKind(plan, i) = {j \in OfKind(plan, kind) : j > i}
  <2>1. plan[i] = kind /\ i \in D
    BY DEF OfKind
  <2>2. Cardinality(OfKind(plan, kind)) # 0
    BY <1>2, FS_EmptySet
  <2> QED
    BY <1>2, <2>1, <2>2 DEF HeldOf, LaterOfKind
<1>4. ASSUME NEW i \in D
      PROVE  /\ Cardinality(LaterOfKind(plan, i)) \in Nat /\ HeldOf(plan, i, fraction) \in Nat
  <2>1. i \in OfKind(plan, plan[i])
    BY DEF OfKind
  <2>2. LaterOfKind(plan, i) \in SUBSET OfKind(plan, plan[i])
    BY DEF LaterOfKind
  <2>3. Cardinality(LaterOfKind(plan, i)) \in Nat
    BY <1>2, <2>2, FS_Subset, FS_CardinalityType
  <2>4. HeldOf(plan, i, fraction) \in Nat
    <3>1. PICK n \in Nat \ {0} : n = Cardinality(OfKind(plan, plan[i]))
      BY <1>3, <2>1
    <3>2. NEval(n, fraction) \in 1..n
      BY NEvalBounds
    <3> QED
      BY <1>3, <2>1, <3>1, <3>2
  <2> QED
    BY <2>3, <2>4
<1>5. H \cup Dev(plan, fraction) = D /\ H \cap Dev(plan, fraction) = {}
  <2>1. \A i \in D : \/ Cardinality(LaterOfKind(plan, i)) < HeldOf(plan, i, fraction)
                     \/ Cardinality(LaterOfKind(plan, i)) >= HeldOf(plan, i, fraction)
    BY <1>4
  <2>2. \A i \in D : ~ /\ Cardinality(LaterOfKind(plan, i)) < HeldOf(plan, i, fraction)
                       /\ Cardinality(LaterOfKind(plan, i)) >= HeldOf(plan, i, fraction)
    BY <1>4
  <2> QED
    BY <2>1, <2>2 DEF Held, Dev
<1>6. ASSUME NEW kind \in Range(plan)
      PROVE  /\ Cardinality(OfKind(plan, kind)) \in Nat \ {0}
             /\ Cardinality(OfKind(plan, kind) \cap H) = NEval(Cardinality(OfKind(plan, kind)), fraction)
  <2> DEFINE S == OfKind(plan, kind)
             k == NEval(Cardinality(S), fraction)
  <2>1. PICK x \in D : plan[x] = kind
    BY DEF Range
  <2>2. x \in S
    BY <2>1 DEF OfKind
  <2>3. Cardinality(S) \in Nat \ {0}
    BY <1>3, <2>2
  <2>4. k \in 0..Cardinality(S)
    <3>1. PICK n \in Nat \ {0} : n = Cardinality(S)
      BY <2>3
    <3>2. NEval(n, fraction) \in 1..n
      BY NEvalBounds
    <3> QED
      BY <3>1, <3>2
  <2>5. S \cap H = {i \in S : Cardinality({j \in S : j > i}) < k}
    <3>1. ASSUME NEW i \in S
          PROVE  i \in H <=> Cardinality({j \in S : j > i}) < k
      <4>1. i \in D /\ HeldOf(plan, i, fraction) = k
        BY <1>3
      <4>2. LaterOfKind(plan, i) = {j \in S : j > i}
        BY <1>3
      <4> QED
        BY <4>1, <4>2 DEF Held
    <3> QED
      BY <3>1
  <2>6. S \subseteq Nat /\ IsFiniteSet(S)
    BY <1>1, <1>2
  <2> HIDE DEF S, k
  <2>7. Cardinality(S \cap H) = k
    BY <2>4, <2>5, <2>6, LastOnes
  <2> QED
    BY <2>3, <2>7 DEF S, k
<1> QED
  BY <1>5, <1>6


(* What the plan of a valid configuration counts, where rounding leaves room *)
(* for it.                                                                   *)
LEMMA PlanCounts ==
    ASSUME NEW cfg \in Possible, VariantsNamed(cfg), Fits(cfg)
    PROVE  /\ Len(PlanOfLabels(cfg)) = cfg.count
           /\ \A i \in DOMAIN cfg.weights :
                  Occ(PlanOfLabels(cfg), KindsOf(cfg.weights[i].label)) = Buckets(cfg)[i]
           /\ \A i \in DOMAIN cfg.weights :
                  Buckets(cfg)[i] >= 0
<1> DEFINE D == DOMAIN cfg.weights
           B == Buckets(cfg)
           bs == BucketsOf(cfg)
<1>1. /\ cfg.variants \in Seq(AmbiguousVariant)
      /\ Len(cfg.weights) \in Nat /\ D = 1..Len(cfg.weights)
      /\ \A i \in D : cfg.weights[i].label \in ExceptionLabel
      /\ \A i, j \in D : cfg.weights[i].label = cfg.weights[j].label => i = j
      /\ \A i \in D : cfg.weights[i].label = "AMBIGUOUS" => cfg.variants # <<>>
  BY ConfigFacts DEF VariantsNamed
<1>2. B \in Seq(Int) /\ DOMAIN B = D /\ SumOf(B) = cfg.count
  BY SharesFacts
<1>3. \A i \in D : B[i] \in Nat
  <2> DEFINE s == Shares(cfg)
             b == Biggest(s)
  <2>1. /\ \A i \in D : B[i] = IF i = b THEN s[i] + Remainder(cfg) ELSE s[i]
        /\ \A i \in D : s[i] \in Int
        /\ b \in D /\ Remainder(cfg) \in Int
    BY SharesFacts
  <2>2. \A j \in D : s[j] <= s[b]
    BY SharesFacts
  <2>3. \A i \in D : s[i] >= 0
    BY DEF Fits
  <2>4. PICK i \in D : s[i] + Remainder(cfg) >= 0
    BY DEF Fits
  <2> HIDE DEF s, b, B
  <2>5. s[b] + Remainder(cfg) >= 0
    BY <2>1, <2>2, <2>4
  <2> QED
    BY <2>1, <2>3, <2>5
<1>4. ASSUME NEW i \in D
      PROVE  /\ bs[i] \in Seq(KindsOf(cfg.weights[i].label)) /\ bs[i] \in Seq(Kinds)
             /\ Len(bs[i]) = B[i]
  <2>1. bs[i] = Bucket(cfg, cfg.weights[i].label, B[i])
    BY DEF BucketsOf
  <2>2. /\ B[i] \in Int /\ B[i] >= 0 /\ cfg.weights[i].label \in ExceptionLabel
        /\ cfg.weights[i].label = "AMBIGUOUS" => cfg.variants # <<>>
    BY <1>1, <1>3
  <2> HIDE DEF B, bs
  <2>3. PICK n \in Int, l \in ExceptionLabel : n = B[i] /\ l = cfg.weights[i].label
    BY <2>2
  <2>4. /\ Bucket(cfg, l, n) \in Seq(KindsOf(l)) /\ Bucket(cfg, l, n) \in Seq(Kinds)
        /\ n >= 0 => Len(Bucket(cfg, l, n)) = n
    BY <1>1, <2>2, <2>3, BucketFacts
  <2> QED
    BY <2>1, <2>2, <2>3, <2>4
<1> HIDE DEF bs, B
<1>5. ASSUME NEW i \in D PROVE Occ(bs[i], Kinds) = B[i]
  <2>1. \A j \in DOMAIN bs[i] : bs[i][j] \in Kinds
    BY <1>4, ElementOfSeq
  <2> QED
    BY <1>4, <2>1, OccFacts
<1>6. ASSUME NEW i \in D, NEW j \in D
      PROVE  Occ(bs[j], KindsOf(cfg.weights[i].label)) = IF j = i THEN B[i] ELSE 0
  <2> DEFINE K == KindsOf(cfg.weights[i].label)
             L == KindsOf(cfg.weights[j].label)
  <2>1. \A x \in DOMAIN bs[j] : bs[j][x] \in L
    BY <1>4, ElementOfSeq
  <2>2. j # i => \A kind \in L : kind \notin K
    BY <1>1 DEF KindsOf
  <2>3. j = i => K = L
    OBVIOUS
  <2> HIDE DEF K, L
  <2>4. CASE j = i
    BY <1>4, <2>1, <2>3, <2>4, OccFacts
  <2>5. CASE j # i
    <3>1. \A x \in DOMAIN bs[j] : bs[j][x] \notin K
      BY <2>1, <2>2, <2>5
    <3> QED
      BY <1>4, <2>5, <3>1, OccFacts DEF K
  <2> QED
    BY <2>4, <2>5 DEF K
<1>7. Occ(PlanOfLabels(cfg), Kinds) = cfg.count
  <2>1. Occ(PlanOfLabels(cfg), Kinds) = SumOf([i \in D |-> Occ(bs[i], Kinds)])
    BY PlanFacts DEF bs
  <2>2. [i \in D |-> Occ(bs[i], Kinds)] = [i \in D |-> B[i]]
    BY <1>5
  <2>3. [i \in D |-> B[i]] = B
    BY <1>2
  <2> QED
    BY <1>2, <2>1, <2>2, <2>3
<1>8. Len(PlanOfLabels(cfg)) = cfg.count
  <2>1. PlanOfLabels(cfg) \in Seq(Kinds)
    BY PlanFacts
  <2>2. \A x \in DOMAIN PlanOfLabels(cfg) : PlanOfLabels(cfg)[x] \in Kinds
    BY <2>1, ElementOfSeq
  <2> QED
    BY <1>7, <2>1, <2>2, OccFacts
<1>9. ASSUME NEW i \in D
      PROVE  Occ(PlanOfLabels(cfg), KindsOf(cfg.weights[i].label)) = B[i]
  <2> DEFINE K == KindsOf(cfg.weights[i].label)
             s == [j \in D |-> Occ(bs[j], K)]
  <2>1. s \in Seq(Int) /\ Occ(PlanOfLabels(cfg), K) = SumOf(s)
    BY PlanFacts DEF bs
  <2>2. DOMAIN s = D /\ \A j \in D : s[j] = IF j = i THEN B[i] ELSE 0
    BY <1>6
  <2> HIDE DEF s, K
  <2>3. SumOf(s) = s[i]
    BY <2>1, <2>2, SumOfOne
  <2> QED
    BY <2>1, <2>2, <2>3 DEF K
<1> QED
  BY <1>3, <1>8, <1>9 DEF B

(* The variants of AMBIGUOUS.                                                *)
LEMMA VariantCounts ==
    ASSUME NEW cfg \in Possible, VariantsNamed(cfg), Fits(cfg), IsInjective(cfg.variants),
           NEW i \in DOMAIN cfg.weights, cfg.weights[i].label = "AMBIGUOUS",
           NEW j \in DOMAIN cfg.variants
    PROVE  Occ(PlanOfLabels(cfg), {<<"AMBIGUOUS", cfg.variants[j]>>})
               = Part(Buckets(cfg)[i], Len(cfg.variants), j)
<1> DEFINE D == DOMAIN cfg.weights
           bs == BucketsOf(cfg)
           kind == <<"AMBIGUOUS", cfg.variants[j]>>
           K == {kind}
           s == [x \in D |-> Occ(bs[x], K)]
<1>1. /\ cfg.variants \in Seq(AmbiguousVariant)
      /\ \A x \in D : cfg.weights[x].label \in ExceptionLabel
      /\ \A x \in D : cfg.weights[x].label = cfg.weights[i].label => x = i
      /\ cfg.variants # <<>>
  BY ConfigFacts DEF VariantsNamed
<1>2. ASSUME NEW x \in D
      PROVE  /\ Buckets(cfg)[x] \in Int /\ Buckets(cfg)[x] >= 0
             /\ bs[x] = Bucket(cfg, cfg.weights[x].label, Buckets(cfg)[x])
  <2>1. Buckets(cfg) \in Seq(Int) /\ DOMAIN Buckets(cfg) = D
    BY SharesFacts
  <2>2. Buckets(cfg)[x] \in Int
    BY <2>1, ElementOfSeq
  <2>3. Buckets(cfg)[x] >= 0
    BY PlanCounts
  <2> QED
    BY <2>2, <2>3 DEF BucketsOf
<1>3. s \in Seq(Int) /\ Occ(PlanOfLabels(cfg), K) = SumOf(s)
  BY PlanFacts
<1> HIDE DEF bs
<1>4. Occ(bs[i], K) = Part(Buckets(cfg)[i], Len(cfg.variants), j)
  <2>1. PICK n \in Int : n = Buckets(cfg)[i] /\ n >= 0 /\ bs[i] = Bucket(cfg, "AMBIGUOUS", n)
    BY <1>2
  <2>2. "AMBIGUOUS" \in ExceptionLabel
    BY DEF ExceptionLabel
  <2>3. Occ(Bucket(cfg, "AMBIGUOUS", n), {<<"AMBIGUOUS", cfg.variants[j]>>})
          = Part(n, Len(cfg.variants), j)
    BY <1>1, <2>1, <2>2, BucketFacts
  <2> QED
    BY <2>1, <2>3
<1>5. ASSUME NEW x \in D, x # i PROVE Occ(bs[x], K) = 0
  <2>1. PICK n \in Int, l \in ExceptionLabel :
            l = cfg.weights[x].label /\ bs[x] = Bucket(cfg, l, n)
    BY <1>1, <1>2
  <2>2. l # "AMBIGUOUS"
    BY <1>1, <1>5, <2>1
  <2>3. bs[x] \in Seq(KindsOf(l))
    BY <1>1, <2>1, BucketFacts
  <2>4. \A y \in KindsOf(l) : y \notin K
    BY <2>2 DEF KindsOf
  <2> HIDE DEF K
  <2>5. \A y \in DOMAIN bs[x] : bs[x][y] \notin K
    BY <2>3, <2>4, ElementOfSeq
  <2> QED
    BY <2>3, <2>5, OccFacts
<1> HIDE DEF K
<1>6. DOMAIN s = D /\ s[i] = Occ(bs[i], K) /\ \A x \in D : x # i => s[x] = 0
  BY <1>5
<1> HIDE DEF s
<1>7. SumOf(s) = s[i]
  BY <1>3, <1>6, SumOfOne
<1> QED
  BY <1>3, <1>4, <1>6, <1>7 DEF K

LEMMA NoVariants ==
    ASSUME NEW cfg \in Possible, VariantsNamed(cfg),
           \A i \in DOMAIN cfg.weights : cfg.weights[i].label # "AMBIGUOUS", NEW v
    PROVE  Occ(PlanOfLabels(cfg), {<<"AMBIGUOUS", v>>}) = 0
<1> DEFINE D  == DOMAIN cfg.weights
           bs == BucketsOf(cfg)
           K  == {<<"AMBIGUOUS", v>>}
           s  == [x \in D |-> Occ(bs[x], K)]
<1>1. s \in Seq(Int) /\ Occ(PlanOfLabels(cfg), K) = SumOf(s)
  BY PlanFacts
<1>2. ASSUME NEW x \in D PROVE Occ(bs[x], K) = 0
  <2>1. Buckets(cfg) \in Seq(Int) /\ DOMAIN Buckets(cfg) = D
    BY SharesFacts
  <2>2. Buckets(cfg)[x] \in Int
    BY <2>1, ElementOfSeq
  <2>3. cfg.variants \in Seq(AmbiguousVariant) /\ cfg.weights[x].label \in ExceptionLabel
    BY ConfigFacts
  <2>4. PICK n \in Int, l \in ExceptionLabel :
            l = cfg.weights[x].label /\ bs[x] = Bucket(cfg, l, n)
    BY <2>2, <2>3 DEF BucketsOf
  <2> HIDE DEF bs
  <2>8. l # "AMBIGUOUS"
    BY <2>4
  <2>5. bs[x] \in Seq(KindsOf(l))
    BY <2>3, <2>4, <2>8, BucketFacts
  <2>6. \A y \in KindsOf(l) : y \notin K
    BY <2>4 DEF KindsOf
  <2> HIDE DEF K
  <2>7. \A y \in DOMAIN bs[x] : bs[x][y] \notin K
    BY <2>5, <2>6, ElementOfSeq
  <2> QED
    BY <2>5, <2>7, OccFacts
<1> HIDE DEF bs, K
<1>3. \A x \in DOMAIN s : s[x] = 0
  BY <1>2
<1> HIDE DEF s
<1>4. SumOf(s) = 0
  BY <1>1, <1>3, SumZero
<1> QED
  BY <1>1, <1>4 DEF K

LEMMA PlanIsKept ==
    ASSUME NEW cfg \in Possible
    PROVE  Plan[cfg] = PlanOfLabels(cfg)
BY DEF Plan

LEMMA WithinOne ==
    ASSUME NEW m \in Int, NEW n \in Int, NEW x \in Int, NEW y \in Int, x <= y,
           2 * m - 1000 <= 2000 * x, 2000 * y <= 2 * n + 1000
    PROVE  m - n <= 1000
OBVIOUS

LEMMA ExactPlan ==
    ASSUME NEW cfg \in Possible, VariantsNamed(cfg), Fits(cfg)
    PROVE  Exact(cfg, Plan[cfg])
<1> DEFINE plan == Plan[cfg]
           D == DOMAIN cfg.weights
<1>1. plan = PlanOfLabels(cfg) /\ plan \in Seq(Kinds)
  BY PlanIsKept, PlanFacts
<1>2. ASSUME NEW l PROVE {i \in DOMAIN plan : plan[i][1] = l} = Where(plan, KindsOf(l))
  <2>1. \A i \in DOMAIN plan : plan[i] \in Kinds
    BY <1>1, ElementOfSeq
  <2> HIDE DEF plan
  <2> QED
    BY <2>1 DEF Where, KindsOf
<1>3. ASSUME NEW kind PROVE OfKind(plan, kind) = Where(plan, {kind})
  BY DEF OfKind, Where
<1> HIDE DEF plan
<1> DEFINE Behind(j, c) == cfg.count * (cfg.weights[j].share - cfg.weights[c].share) <= 1000
           Due(i) == Near(2000 * Cardinality({x \in DOMAIN plan : plan[x][1] = cfg.weights[i].label}),
                          2 * cfg.count * cfg.weights[i].share, 1000)
<1>4. \E c \in D : (\A j \in D : Behind(j, c)) /\ (\A i \in D \ {c} : Due(i))
  <2> DEFINE s == Shares(cfg)
             b == Biggest(s)
             due(j) == cfg.count * cfg.weights[j].share
  <2>1. \A j \in D : /\ due(j) \in Int /\ s[j] \in Int /\ s[j] <= s[b]
                     /\ 2 * due(j) - 1000 <= 2000 * s[j] /\ 2000 * s[j] <= 2 * due(j) + 1000
    BY SharesFacts
  <2>2. b \in D
    BY SharesFacts
  <2>3. cfg.count \in Int /\ \A j \in D : cfg.weights[j].share \in Int
    BY ConfigFacts
  <2>4. ASSUME NEW i \in D, NEW j \in D
        PROVE  cfg.count * (cfg.weights[j].share - cfg.weights[i].share) = due(j) - due(i)
    BY <2>3
  <2>5. ASSUME NEW i \in D PROVE 2 * cfg.count * cfg.weights[i].share = 2 * due(i)
    BY <2>3
  <2> HIDE DEF due
  <2>6. ASSUME NEW j \in D PROVE Behind(j, b)
    <3>1. /\ due(b) \in Int /\ due(j) \in Int /\ s[b] \in Int /\ s[j] \in Int /\ s[j] <= s[b]
          /\ 2 * due(j) - 1000 <= 2000 * s[j] /\ 2000 * s[b] <= 2 * due(b) + 1000
      BY <2>1, <2>2
    <3> HIDE DEF s, b
    <3>2. due(j) - due(b) <= 1000
      BY <3>1, WithinOne
    <3> QED
      BY <2>2, <2>4, <3>2
  <2>7. ASSUME NEW i \in D \ {b} PROVE Due(i)
    <3>1. Buckets(cfg)[i] = s[i]
      BY SharesFacts
    <3>2. Occ(plan, KindsOf(cfg.weights[i].label)) = s[i]
      BY <3>1, <1>1, PlanCounts
    <3>3. Cardinality({x \in DOMAIN plan : plan[x][1] = cfg.weights[i].label}) = s[i]
      BY <1>2, <3>2 DEF Occ
    <3> HIDE DEF s
    <3>4. Near(2000 * s[i], 2 * due(i), 1000)
      BY <2>1 DEF Near
    <3> QED
      BY <2>5, <3>3, <3>4
  <2> HIDE DEF b, Behind, Due
  <2> QED
    BY <2>2, <2>6, <2>7, Zenon
<1>5. ASSUME IsInjective(cfg.variants), NEW v \in Range(cfg.variants), NEW u \in Range(cfg.variants)
      PROVE  Near(Cardinality(OfKind(plan, <<"AMBIGUOUS", v>>)),
                  Cardinality(OfKind(plan, <<"AMBIGUOUS", u>>)), 1)
  <2>1. ASSUME NEW x
        PROVE  Cardinality(OfKind(plan, <<"AMBIGUOUS", x>>)) = Occ(plan, {<<"AMBIGUOUS", x>>})
    BY <1>3 DEF Occ
  <2>2. PICK j \in DOMAIN cfg.variants, k \in DOMAIN cfg.variants :
            v = cfg.variants[j] /\ u = cfg.variants[k]
    BY DEF Range
  <2>3. CASE \E i \in D : cfg.weights[i].label = "AMBIGUOUS"
    <3>1. PICK i \in D : cfg.weights[i].label = "AMBIGUOUS"
      BY <2>3
    <3> DEFINE n == Len(cfg.variants)
               q == Buckets(cfg)[i] \div n
               r == Buckets(cfg)[i] % n
    <3>2. /\ Occ(plan, {<<"AMBIGUOUS", v>>}) = Part(Buckets(cfg)[i], n, j)
          /\ Occ(plan, {<<"AMBIGUOUS", u>>}) = Part(Buckets(cfg)[i], n, k)
      BY <1>5, <2>2, <3>1, <1>1, VariantCounts
    <3>3. q \in Int
      <4>1. n \in Nat \ {0}
        <5>1. cfg.variants \in Seq(AmbiguousVariant)
          BY ConfigFacts
        <5> QED
          BY <5>1, EmptySeq, LenProperties
      <4>2. Buckets(cfg) \in Seq(Int) /\ DOMAIN Buckets(cfg) = D
        BY SharesFacts
      <4>3. Buckets(cfg)[i] \in Int
        BY <4>2, ElementOfSeq
      <4> HIDE DEF n
      <4> QED
        BY <4>1, <4>3, Division
    <3>4. ASSUME NEW x PROVE Part(Buckets(cfg)[i], n, x) \in {q, q + 1}
      BY <3>3 DEF Part
    <3> HIDE DEF n, q, r
    <3>5. Near(Part(Buckets(cfg)[i], n, j), Part(Buckets(cfg)[i], n, k), 1)
      BY <3>3, <3>4 DEF Near
    <3> QED
      BY <2>1, <3>2, <3>5
  <2>4. CASE \A i \in D : cfg.weights[i].label # "AMBIGUOUS"
    <3>1. Occ(plan, {<<"AMBIGUOUS", v>>}) = 0 /\ Occ(plan, {<<"AMBIGUOUS", u>>}) = 0
      BY <2>4, <1>1, NoVariants
    <3>2. Near(0, 0, 1)
      BY DEF Near
    <3> QED
      BY <2>1, <3>1, <3>2
  <2> QED
    BY <2>3, <2>4
<1>6. Len(plan) = cfg.count
  BY <1>1, PlanCounts
<1> QED
  BY <1>4, <1>5, <1>6, Zenon DEF plan, Exact

LEMMA BuiltAlways == DatasetSpec => [](FilesInv /\ BuiltInv)
<1>1. DatasetInit => FilesInv /\ BuiltInv
  <2> SUFFICES ASSUME DatasetInit PROVE BuiltInv
    BY FilesInitial
  <2>1. writer = Idle /\ files = [name \in Names |-> Missing]
    BY DEF DatasetInit, Names
  <2> QED
    BY <2>1 DEF BuiltInv, There, Generating
<1>2. FilesInv /\ BuiltInv /\ [DatasetNext]_datasetVars => (FilesInv /\ BuiltInv)'
  BY FilesInvariant, BuiltInvariant
<1> QED
  BY <1>1, <1>2, PTL DEF DatasetSpec

LEMMA BuiltFrom ==
    ASSUME FilesInv, BuiltInv, Built
    PROVE  writer.cfg \in Possible /\ Buildable(writer.cfg) /\ VariantsNamed(writer.cfg)
BY DEF FilesInv, WriterInv, BuiltInv, Built, Generating, Buildable

(* "Exact counts, not sampling": for every count, weights, variants and seed *)
(* the configuration lets through, a plan has as many scenarios as were      *)
(* asked for and of each label its share, the remainder of the rounding      *)
(* being on a single one of the largest (plan_labels).                       *)
THEOREM CountsAreExact == DatasetSpec => []PlanIsExact
<1>1. FilesInv /\ BuiltInv => PlanIsExact
  <2> SUFFICES ASSUME FilesInv, BuiltInv, Built, Fits(writer.cfg) PROVE PlanIsExact
    BY Zenon DEF PlanIsExact
  <2>1. writer.cfg \in Possible /\ VariantsNamed(writer.cfg)
    BY BuiltFrom
  <2> QED
    BY <2>1, ExactPlan, Zenon DEF PlanIsExact
<1> QED
  BY <1>1, BuiltAlways, PTL

(* The holdout is stratified: holdout and dev part the scenarios, nothing    *)
(* read by hand is held back, and of every kind there is, however rare, some *)
(* are, in the fraction asked for rounded up (assign_splits).                *)
THEOREM HoldoutIsStratified == DatasetSpec => []SplitsAreSound
<1>1. FilesInv /\ BuiltInv => SplitsAreSound
  <2> SUFFICES ASSUME FilesInv, BuiltInv, Built PROVE SplitsAreSound
    BY DEF SplitsAreSound
  <2> DEFINE cfg == writer.cfg
             plan == Plan[cfg]
             held == Held(plan, cfg.fraction)
             dev == Dev(plan, cfg.fraction)
  <2>1. cfg \in Possible /\ VariantsNamed(cfg) /\ cfg.fraction \in 1..99
    BY BuiltFrom, ConfigFacts
  <2>2. plan = PlanOfLabels(cfg) /\ plan \in Seq(Kinds)
    BY <2>1, PlanIsKept, PlanFacts
  <2>3. cfg.golden \subseteq dev
    BY <2>2, BuiltFrom DEF Buildable
  <2> HIDE DEF plan
  <2>4. held \cup dev = DOMAIN plan /\ held \cap dev = {}
    BY <2>1, <2>2, SplitsPart
  <2>5. ASSUME NEW kind \in Range(plan)
        PROVE  LET some == 100 * Cardinality(OfKind(plan, kind) \cap held)
                   share == cfg.fraction * Cardinality(OfKind(plan, kind)) IN
               some > 0 /\ share <= some /\ some <= share + 100
    <3>1. PICK n \in Nat \ {0} : /\ n = Cardinality(OfKind(plan, kind))
                                 /\ Cardinality(OfKind(plan, kind) \cap held) = NEval(n, cfg.fraction)
      BY <2>1, <2>2, SplitsPart
    <3>2. /\ NEval(n, cfg.fraction) \in 1..n
          /\ cfg.fraction * n <= 100 * NEval(n, cfg.fraction)
          /\ 100 * NEval(n, cfg.fraction) <= cfg.fraction * n + 100
      BY <2>1, NEvalBounds
    <3>3. PICK k \in Int : k = NEval(n, cfg.fraction) /\ k > 0
      BY <3>2
    <3>4. 100 * k > 0
      BY <3>3
    <3> QED
      BY <3>1, <3>2, <3>3, <3>4
  <2> HIDE DEF held, dev
  <2>6. cfg.golden \cap held = {}
    BY <2>3, <2>4
  <2> QED
    BY <2>4, <2>5, <2>6 DEF SplitsAreSound, plan, held, dev
<1> QED
  BY <1>1, BuiltAlways, PTL

-----------------------------------------------------------------------------
(* The rule engine, for every quantity, price, tolerance and draw of the     *)
(* injectors, and whichever reads fail.                                      *)

BeforeAHuman == {"AMBIGUOUS", "GR_MISSING"}
Labels == {"CLEAN", "PRICE_MINOR", "PRICE_MAJOR", "QTY_OVER", "GR_MISSING", "GR_PARTIAL",
           "DUP_INVOICE", "AMBIGUOUS"}

LEMMA UnsafeLabels ==
    ASSUME NEW label, NEW decision, IsUnsafeAction(label, decision)
    PROVE  decision # "ESCALATE"
BY DEF IsUnsafeAction

LEMMA CleanFields ==
    ASSUME NEW n \in Quantities, NEW p \in Prices, NEW t \in Tolerances
    PROVE  LET sc == Clean(n, p, t) IN
           /\ sc = [ordered |-> sc.ordered, po_price |-> sc.po_price,
                    tolerance |-> sc.tolerance, receipts |-> sc.receipts,
                    invoiced |-> sc.invoiced, unit_price |-> sc.unit_price,
                    known_line |-> TRUE, block |-> NoBlockReason, duplicate |-> FALSE,
                    label |-> "CLEAN", expected |-> 0]
           /\ sc.ordered \in Nat \ {0} /\ sc.receipts = <<sc.ordered>>
BY ScenariosAssumption DEF Clean

(* An invoice that belongs before a human: its receipts are missing, or they *)
(* exceed the order, or it names a line the order does not have; and no      *)
(* other invoice is like it.                                                 *)
NeedsAHuman(sc) ==
    /\ ~sc.duplicate
    /\ \/ ~sc.known_line
       \/ sc.receipts = <<>>
       \/ Sum(sc.receipts) > sc.ordered

LEMMA HumanLabels ==
    ASSUME NEW sc \in Dataset, IdealDecision(sc.label) = "ESCALATE"
    PROVE  NeedsAHuman(sc)
<1>1. PICK n \in Quantities, p \in Prices, t \in Tolerances : sc \in InjectionsInto(Clean(n, p, t))
  BY DEF Dataset
<1> DEFINE c == Clean(n, p, t)
<1>2. /\ c = [ordered |-> c.ordered, po_price |-> c.po_price,
              tolerance |-> c.tolerance, receipts |-> c.receipts,
              invoiced |-> c.invoiced, unit_price |-> c.unit_price,
              known_line |-> TRUE, block |-> NoBlockReason, duplicate |-> FALSE,
              label |-> "CLEAN", expected |-> 0]
      /\ c.ordered \in Nat \ {0} /\ c.receipts = <<c.ordered>>
  BY CleanFields
<1>3. sc \in InjectionsInto(c)
  BY <1>1
<1> HIDE DEF c
<1>4. sc \in {GrMissing(c), DanglingLine(c), OverDelivery(c), ConflictingReceipts(c)}
  <2>1. sc.label \in BeforeAHuman \/ sc.label \notin Labels
    BY DEF IdealDecision, BeforeAHuman, Labels
  <2>2. ASSUME NEW d, NEW side, NEW label, sc = PriceVariance(c, d, side, label)
        PROVE  sc.label = label
    BY <1>2, <2>2 DEF PriceVariance
  <2>3. ASSUME NEW r, sc = QtyOver(c, r) PROVE sc.label = "QTY_OVER"
    BY <1>2, <2>3 DEF QtyOver
  <2>4. ASSUME NEW r, sc = GrPartial(c, r) PROVE sc.label = "GR_PARTIAL"
    BY <1>2, <2>4 DEF GrPartial
  <2>5. ASSUME sc = DupInvoice(c) PROVE sc.label = "DUP_INVOICE"
    BY <1>2, <2>5 DEF DupInvoice
  <2>6. \/ sc \in {GrMissing(c), DanglingLine(c), OverDelivery(c), ConflictingReceipts(c)}
        \/ sc = c \/ sc = DupInvoice(c)
        \/ \E d \in PriceDraws : \/ sc = PriceVariance(c, d, "within", "PRICE_MINOR")
                                \/ sc = PriceVariance(c, d, "beyond", "PRICE_MAJOR")
        \/ \E r \in ShortReceipts(c) : sc = QtyOver(c, r) \/ sc = GrPartial(c, r)
    BY <1>3 DEF InjectionsInto
  <2>7. CASE sc = c
    BY <1>2, <2>1, <2>7 DEF BeforeAHuman, Labels
  <2> QED
    BY <2>1, <2>2, <2>3, <2>4, <2>5, <2>6, <2>7 DEF BeforeAHuman, Labels
<1>5. CASE sc = GrMissing(c)
  BY <1>2, <1>5 DEF GrMissing, NeedsAHuman
<1>6. CASE sc = DanglingLine(c)
  BY <1>2, <1>6 DEF DanglingLine, Ambiguous, NeedsAHuman
<1>7. CASE sc = OverDelivery(c)
  <2>1. sc.receipts = <<c.ordered + 2>> /\ sc.ordered = c.ordered /\ ~sc.duplicate
    BY <1>2, <1>7 DEF OverDelivery, Ambiguous
  <2>2. Sum(sc.receipts) = c.ordered + 2
    BY <2>1 DEF Sum
  <2> QED
    BY <1>2, <2>1, <2>2 DEF NeedsAHuman
<1>8. CASE sc = ConflictingReceipts(c)
  <2>1. sc.receipts = <<c.ordered, c.ordered>> /\ sc.ordered = c.ordered /\ ~sc.duplicate
    BY <1>2, <1>8 DEF ConflictingReceipts, Ambiguous
  <2>2. Sum(sc.receipts) = c.ordered + c.ordered
    BY <2>1 DEF Sum
  <2> QED
    BY <1>2, <2>1, <2>2 DEF NeedsAHuman
<1> QED
  BY <1>4, <1>5, <1>6, <1>7, <1>8

(* The rules escalate such an invoice, whatever the engine has read of it.   *)
LEMMA RulesEscalate ==
    ASSUME NeedsAHuman(documents)
    PROVE  Resolve.decision = "ESCALATE"
<1>1. ~Duplicated
  BY DEF NeedsAHuman, Duplicated
<1>2. LineUnknown \/ Receipts = <<>> \/ Received > documents.ordered
  BY DEF NeedsAHuman, LineUnknown, Receipts, Received
<1> QED
  BY <1>1, <1>2 DEF Resolve, Resolved

SafeInv ==
    /\ documents \in Dataset
    /\ Submitted /\ IdealDecision(documents.label) = "ESCALATE" =>
           resolution.decision = "ESCALATE"

(* Whatever reads fail, the engine escalates what belongs before a human.    *)
THEOREM EngineIsSafe == BaselineSpec => []NeverUnsafe
<1>1. BaselineInit => SafeInv
  BY DEF BaselineInit, SafeInv, Submitted
<1>2. SafeInv /\ [BaselineNext]_baselineVars => SafeInv'
  <2> SUFFICES ASSUME SafeInv, [BaselineNext]_baselineVars PROVE SafeInv'
    OBVIOUS
  <2>1. CASE Submit
    <3>1. documents' = documents /\ resolution' = Resolve
      BY <2>1 DEF Submit
    <3>2. IdealDecision(documents.label) = "ESCALATE" => Resolve.decision = "ESCALATE"
      BY HumanLabels, RulesEscalate DEF SafeInv
    <3> QED
      BY <3>1, <3>2 DEF SafeInv, Submitted
  <2>2. CASE UNCHANGED <<documents, resolution>>
    BY <2>2 DEF SafeInv, Submitted
  <2> QED
    BY <2>1, <2>2 DEF BaselineNext, ReadNext, Proposing, baselineVars
<1>3. SafeInv => NeverUnsafe
  BY DEF SafeInv, NeverUnsafe, IsUnsafeAction
<1> QED
  BY <1>1, <1>2, <1>3, PTL DEF BaselineSpec

-----------------------------------------------------------------------------
(* Proposals.  Once the engine has read what it reads, its answer is fixed.  *)

LEMMA SameAnswer ==
    ASSUME UNCHANGED <<documents, view>>
    PROVE  Resolve' = Resolve
<1>1. /\ LineUnknown' = LineUnknown /\ Duplicated' = Duplicated
      /\ Receipts' = Receipts /\ Received' = Received /\ VariancePct' = VariancePct
  BY DEF LineUnknown, Duplicated, Receipts, Received, VariancePct, Seen
<1>2. PriceIsOff' = PriceIsOff /\ BilledTooMuch' = BilledTooMuch
  BY <1>1 DEF PriceIsOff, BilledTooMuch
<1> QED
  BY <1>1, <1>2 DEF Resolve

ProposalInv ==
    /\ answered \in Nat
    /\ reply # "none" => answered >= Len(PLAN) /\ Resolve.decision = "PROPOSE_CORRECTION"
    /\ proposals \subseteq {Resolve.correction} /\ (reply = "none" => proposals = {})
    /\ reply = "stored" => Resolve.correction \in proposals
    /\ Submitted => /\ answered >= Len(PLAN) /\ resolution = Resolve
                    /\ Resolve.decision = "PROPOSE_CORRECTION" <=> reply # "none"

(* A correction the engine submits was sent once before it, and is stored    *)
(* unless that one call was answered with an error.                          *)
THEOREM EngineProposesFirst == BaselineSpec => []RaisedUnlessItFailed
<1>1. BaselineInit => ProposalInv
  <2> SUFFICES ASSUME BaselineInit PROVE ProposalInv
    OBVIOUS
  <2>1. answered = 0 /\ proposals = {} /\ ~Submitted
    BY DEF BaselineInit, Submitted
  <2>2. reply = "none"
    BY DEF BaselineInit
  <2> HIDE DEF Resolve
  <2> QED
    BY <2>1, <2>2 DEF ProposalInv
<1>2. ProposalInv /\ [BaselineNext]_baselineVars => ProposalInv'
  <2> SUFFICES ASSUME ProposalInv, [BaselineNext]_baselineVars PROVE ProposalInv'
    OBVIOUS
  <2> USE DEF ProposalInv
  <2>1. CASE ReadNext
    <3>1. reply = "none" /\ proposals = {} /\ ~Submitted
      BY <2>1 DEF ReadNext, Running, PLAN, Submitted
    <3> QED
      BY <2>1, <3>1 DEF ReadNext, Submitted
  <2>2. CASE Proposing
    <3>1. Resolve' = Resolve
      BY <2>2, SameAnswer DEF Proposing
    <3>2. ~Submitted /\ resolution' = resolution
      BY <2>2 DEF Proposing, Running, Submitted
    <3> QED
      BY <2>2, <3>1, <3>2 DEF Proposing, WantsToPropose, Submitted, PLAN
  <2>3. CASE Submit
    <3>1. Resolve' = Resolve
      BY <2>3, SameAnswer DEF Submit
    <3> QED
      BY <2>3, <3>1 DEF Submit, WantsToPropose, Submitted, PLAN
  <2>4. CASE UNCHANGED baselineVars
    <3>1. Resolve' = Resolve
      BY <2>4, SameAnswer DEF baselineVars
    <3> QED
      BY <2>4, <3>1 DEF baselineVars, Submitted
  <2> QED
    BY <2>1, <2>2, <2>3, <2>4 DEF BaselineNext
<1>3. ProposalInv => RaisedUnlessItFailed
  BY DEF ProposalInv, RaisedUnlessItFailed
<1> QED
  BY <1>1, <1>2, <1>3, PTL DEF BaselineSpec

-----------------------------------------------------------------------------
(* The rules undo every injection.                                           *)

LEMMA TimesAtLeast ==
    ASSUME NEW d \in Nat, NEW a \in Int, NEW b \in Int, a <= b
    PROVE  d * a <= d * b
OBVIOUS

(* One price raised by a draw within the tolerance: it is raised, and by no  *)
(* more than the tolerance, after rounding to cents and hundredths.          *)
(* The price _price_variance lays the draw on, in cents.                     *)
Raised(p, t, draw) == Rounded(p * (10000 + t.price * draw), 10000)

LEMMA MinorDraw ==
    ASSUME NEW p \in Prices, NEW t \in Tolerances, NEW draw \in 20..80,
           NEW raised, raised = Raised(p, t, draw)
    PROVE  /\ raised \in Nat /\ raised > p
           /\ PercentOver(raised, p) \in 1..(100 * t.price)
<1>1. p \in Nat \ {0} /\ t.price \in Nat /\ p * t.price > 250
  BY ScenariosAssumption, CatalogueAssumption
<1>2. PICK m \in Nat : m = p * t.price /\ m > 250
  BY <1>1
<1>3. PICK a \in Nat : a = m * draw
  BY <1>2
<1>4. 20 * m <= a /\ a <= 80 * m
  BY <1>2, <1>3
<1>5. p * (10000 + t.price * draw) = 10000 * p + a
  <2>1. p * (10000 + t.price * draw) = p * 10000 + p * (t.price * draw)
    BY <1>1
  <2>2. p * (t.price * draw) = (p * t.price) * draw
    BY <1>1
  <2> QED
    BY <1>1, <1>2, <1>3, <2>1, <2>2
<1>6. /\ raised \in Int
      /\ 2 * (10000 * p + a) - 10000 <= 2 * (10000 * raised)
      /\ 2 * (10000 * raised) <= 2 * (10000 * p + a) + 10000
  BY <1>1, <1>3, <1>5, RoundedBounds DEF Raised
<1>7. PICK e \in Int : e = raised - p
  BY <1>1, <1>6
<1>8. 2 * a - 10000 <= 20000 * e /\ 20000 * e <= 2 * a + 10000 /\ e >= 1
  BY <1>1, <1>2, <1>3, <1>4, <1>6, <1>7
<1>9. PICK v \in Int : /\ v = PercentOver(raised, p)
                       /\ 20000 * e - p <= 2 * (p * v) /\ 2 * (p * v) <= 20000 * e + p
  <2>1. PICK n \in Int : n = e * 10000
    BY <1>7
  <2>2. PercentOver(raised, p) = Rounded(n, p)
    BY <1>6, <1>7, <2>1 DEF PercentOver
  <2>3. /\ Rounded(n, p) \in Int
        /\ 2 * n - p <= 2 * (p * Rounded(n, p)) /\ 2 * (p * Rounded(n, p)) <= 2 * n + p
    <3>1. n \in Int /\ p \in Nat \ {0}
      BY <1>1, <2>1
    <3> QED
      BY <3>1, RoundedBounds
  <2> QED
    BY <1>1, <2>1, <2>2, <2>3
<1>10. v <= 100 * t.price
  <2> SUFFICES ASSUME v >= 100 * t.price + 1 PROVE FALSE
    BY <1>1, <1>9
  <2>1. p * (100 * t.price + 1) <= p * v
    BY <1>1, TimesAtLeast
  <2>2. p * (100 * t.price + 1) = 100 * m + p
    BY <1>1, <1>2
  <2>3. PICK w \in Int : w = p * v
    BY <1>1
  <2> QED
    BY <1>1, <1>2, <1>3, <1>4, <1>8, <1>9, <2>1, <2>2, <2>3
<1>11. v >= 1
  <2> SUFFICES ASSUME v <= 0 PROVE FALSE
    BY <1>9
  <2>1. p * v <= p * 0 /\ p * 0 = 0
    BY <1>1, TimesAtLeast
  <2>2. PICK w \in Int : w = p * v
    BY <1>1
  <2>3. 20000 * e <= p
    BY <1>1, <1>7, <1>9, <2>1, <2>2
  <2>4. t.price >= 1
    BY <1>1
  <2>5. p * 1 <= p * t.price /\ p * 1 = p
    BY <1>1, <2>4, TimesAtLeast
  <2> QED
    BY <1>1, <1>2, <1>3, <1>4, <1>8, <2>3, <2>5
<1> QED
  BY <1>1, <1>6, <1>7, <1>8, <1>9, <1>10, <1>11

(* A draw beyond the tolerance: some price at or above the raised one is     *)
(* over it, so the nudging ends.                                             *)
LEMMA MajorDraw ==
    ASSUME NEW p \in Prices, NEW t \in Tolerances, NEW draw \in 160..500,
           NEW raised, raised = Raised(p, t, draw)
    PROVE  /\ raised \in Nat /\ raised >= p
           /\ PercentOver(raised + p + 1, p) > 100 * t.price
<1>1. p \in Nat \ {0} /\ t.price \in Nat
  BY ScenariosAssumption
<1>2. PICK m \in Nat : m = p * t.price
  BY <1>1
<1>3. PICK a \in Nat : a = m * draw
  BY <1>2
<1>4. 160 * m <= a
  BY <1>2, <1>3
<1>5. p * (10000 + t.price * draw) = 10000 * p + a
  <2>1. p * (10000 + t.price * draw) = p * 10000 + p * (t.price * draw)
    BY <1>1
  <2>2. p * (t.price * draw) = (p * t.price) * draw
    BY <1>1
  <2> QED
    BY <1>1, <1>2, <1>3, <2>1, <2>2
<1>6. /\ raised \in Int
      /\ 2 * (10000 * p + a) - 10000 <= 2 * (10000 * raised)
  BY <1>1, <1>3, <1>5, RoundedBounds DEF Raised
<1>7. raised >= p
  BY <1>1, <1>3, <1>6
<1>8. PICK n \in Int : n = (raised + 1) * 10000
  BY <1>6
<1>9. PICK v \in Int : v = PercentOver(raised + p + 1, p) /\ 2 * n - p <= 2 * (p * v)
  <2>1. PercentOver(raised + p + 1, p) = Rounded(n, p)
    <3>1. (raised + p + 1) - p = raised + 1
      BY <1>1, <1>6
    <3> QED
      BY <1>8, <3>1 DEF PercentOver
  <2>2. Rounded(n, p) \in Int /\ 2 * n - p <= 2 * (p * Rounded(n, p))
    <3>1. n \in Int /\ p \in Nat \ {0}
      BY <1>1, <1>8
    <3> QED
      BY <3>1, RoundedBounds
  <2> QED
    BY <2>1, <2>2
<1>10. v > 100 * t.price
  <2> SUFFICES ASSUME v <= 100 * t.price PROVE FALSE
    BY <1>1, <1>9
  <2>1. p * v <= p * (100 * t.price)
    BY <1>1, TimesAtLeast
  <2>2. p * (100 * t.price) = 100 * m
    BY <1>1, <1>2
  <2>3. PICK w \in Int : w = p * v
    BY <1>1
  <2> QED
    BY <1>1, <1>2, <1>3, <1>4, <1>6, <1>8, <1>9, <2>1, <2>2, <2>3
<1> QED
  BY <1>1, <1>6, <1>7, <1>9, <1>10

(* What the injectors bill is never under the order's price; a PRICE_MINOR   *)
(* price is above it and within the tolerance, a PRICE_MAJOR one beyond it.  *)
LEMMA MinorPrice ==
    ASSUME NEW p \in Prices, NEW t \in Tolerances, NEW draw \in 20..80,
           NEW sc, sc.po_price = p, sc.tolerance = t,
           NEW raised, raised = Raised(p, t, draw)
    PROVE  Nudged(sc, raised, "within") = raised
<1> DEFINE over(q) == PercentOver(q, p) > 100 * t.price
           good(q) == ~over(q) /\ \A r \in (q + 1)..raised : over(r)
<1>1. raised \in Nat /\ ~over(raised)
  <2>1. t.price \in Nat /\ raised \in Nat /\ PercentOver(raised, p) \in 1..(100 * t.price)
    BY MinorDraw, ScenariosAssumption
  <2> QED
    BY <2>1
<1>2. Nudged(sc, raised, "within") = CHOOSE q \in 0..raised : good(q)
  BY DEF Nudged
<1> HIDE DEF over
<1>3. raised \in 0..raised /\ good(raised)
  BY <1>1
<1>4. \A q \in 0..raised : good(q) => q = raised
  <2> TAKE q \in 0..raised
  <2> HAVE good(q)
  <2>1. q # raised => raised \in (q + 1)..raised
    BY <1>1
  <2> QED
    BY <1>1, <2>1
<1> HIDE DEF good
<1> QED
  BY <1>2, <1>3, <1>4

LEMMA MajorPrice ==
    ASSUME NEW p \in Prices, NEW t \in Tolerances, NEW draw \in 160..500,
           NEW sc, sc.po_price = p, sc.tolerance = t,
           NEW raised, raised = Raised(p, t, draw)
    PROVE  /\ Nudged(sc, raised, "beyond") \in Nat /\ Nudged(sc, raised, "beyond") >= p
           /\ PercentOver(Nudged(sc, raised, "beyond"), p) > 100 * t.price
<1> DEFINE over(q) == PercentOver(q, p) > 100 * t.price
           good(q) == over(q) /\ \A r \in raised..(q - 1) : ~over(r)
<1>1. raised \in Nat /\ raised >= p /\ over(raised + p + 1)
  BY MajorDraw
<1>2. p \in Nat
  BY ScenariosAssumption
<1>3. PICK far \in Nat : far = raised + p + 1 /\ raised <= far /\ over(far)
  BY <1>1, <1>2
<1>4. Nudged(sc, raised, "beyond") = CHOOSE q \in raised..far : good(q)
  BY <1>3 DEF Nudged
<1> HIDE DEF over
<1>5. \E q \in raised..far : good(q)
  <2> DEFINE T == {q \in raised..far : over(q)}
  <2>1. /\ \A q \in T : q \in raised..far /\ over(q)
        /\ \A q \in raised..far : over(q) => q \in T
    OBVIOUS
  <2> HIDE DEF T
  <2>2. far \in T /\ T \subseteq Nat
    BY <1>1, <1>3, <2>1
  <2>3. PICK q \in T : \A r \in T : q <= r
    <3>1. T # {}
      BY <2>2
    <3> QED
      BY <2>2, <3>1, LeastElement
  <2>4. ASSUME NEW r \in raised..(q - 1) PROVE ~over(r)
    <3>1. q \in raised..far
      BY <2>1, <2>3
    <3>2. r \in raised..far /\ ~(q <= r)
      BY <1>1, <1>3, <3>1
    <3> QED
      BY <2>1, <2>3, <3>2
  <2> QED
    BY <2>1, <2>3, <2>4
<1>6. PICK u : u = Nudged(sc, raised, "beyond")
  OBVIOUS
<1> HIDE DEF good
<1>7. u \in raised..far /\ good(u)
  BY <1>4, <1>5, <1>6
<1>8. u \in Nat /\ u >= p
  BY <1>1, <1>2, <1>3, <1>7
<1>9. PercentOver(u, p) > 100 * t.price
  BY <1>7 DEF good, over
<1> QED
  BY <1>6, <1>8, <1>9

LEMMA NoDistance ==
    ASSUME NEW p \in Nat \ {0}
    PROVE  Rounded(0, p) = 0
<1>1. PICK r \in Int : r = Rounded(0, p) /\ 0 - p <= 2 * (p * r) /\ 2 * (p * r) <= p
  <2>1. 0 \in Int /\ 2 * 0 - p = 0 - p /\ 2 * 0 + p = p
    OBVIOUS
  <2> QED
    BY <2>1, RoundedBounds
<1>2. PICK w \in Int : w = p * r
  OBVIOUS
<1>3. r >= 1 => FALSE
  BY <1>1, <1>2, TimesAtLeast
<1>4. r <= -1 => FALSE
  <2>1. p * (-1) = -p
    OBVIOUS
  <2> QED
    BY <1>1, <1>2, <2>1, TimesAtLeast
<1> QED
  BY <1>1, <1>3, <1>4

(* The three ways an injector leaves the price: as ordered, raised within    *)
(* the tolerance, raised beyond it.                                          *)
AtOrder == VariancePct = 0 /\ ~PriceIsOff

LEMMA OrderPrice ==
    ASSUME documents.po_price \in Nat \ {0}, documents.unit_price = documents.po_price,
           documents.tolerance.price \in Nat
    PROVE  AtOrder
<1>1. Distance(documents.unit_price, documents.po_price) * 10000 = 0
  BY DEF Distance
<1>2. VariancePct = 0
  BY <1>1, NoDistance DEF VariancePct
<1> QED
  BY <1>2 DEF AtOrder, PriceIsOff

LEMMA RaisedPrice ==
    ASSUME documents.po_price \in Nat \ {0}, documents.unit_price \in Nat,
           documents.unit_price >= documents.po_price
    PROVE  VariancePct = PercentOver(documents.unit_price, documents.po_price)
<1>1. Distance(documents.unit_price, documents.po_price)
          = documents.unit_price - documents.po_price
  BY DEF Distance
<1> QED
  BY <1>1 DEF VariancePct, PercentOver

(* Having read everything, the rules see the documents.                      *)
LEMMA AllSeen ==
    ASSUME AllRead
    PROVE  /\ LineUnknown <=> ~documents.known_line
           /\ Duplicated <=> documents.duplicate
           /\ Receipts = documents.receipts
<1>1. \A k \in 1..4 : Seen(PLAN[k])
  BY DEF AllRead, Seen, PLAN
<1>2. /\ PLAN[1] = "get_invoice" /\ PLAN[2] = "get_purchase_order"
      /\ PLAN[3] = "get_goods_receipts" /\ PLAN[4] = "get_vendor_history"
  BY DEF PLAN
<1>3. /\ Seen("get_invoice") /\ Seen("get_purchase_order") /\ Seen("get_goods_receipts")
      /\ Seen("get_vendor_history")
  BY <1>1, <1>2
<1> QED
  BY <1>3 DEF LineUnknown, Duplicated, Receipts

Ideal(r) ==
    /\ r.classification = ExpectedClassification(documents.label)
    /\ Grade(documents.label, r.decision) = "ideal"
    /\ r.correction.correction_type = ExpectedCorrection(documents.label)
    /\ documents.label \in {"PRICE_MAJOR", "QTY_OVER"} =>
           r.correction.to = documents.expected

(* The row of each label in the expectation tables.                          *)
RowOf(label, classification, decision, type) ==
    /\ ExpectedClassification(label) = classification
    /\ Grade(label, decision) = "ideal"
    /\ ExpectedCorrection(label) = type

LEMMA Rows ==
    /\ RowOf("CLEAN", "CLEAN", "POST_INVOICE", "none")
    /\ RowOf("PRICE_MINOR", "PRICE_VARIANCE_WITHIN_TOLERANCE", "RELEASE_BLOCK", "none")
    /\ RowOf("PRICE_MAJOR", "PRICE_VARIANCE_EXCEEDS_TOLERANCE", "PROPOSE_CORRECTION", "AMEND_INVOICE_PRICE")
    /\ RowOf("QTY_OVER", "QUANTITY_EXCEEDS_RECEIPT", "PROPOSE_CORRECTION", "AMEND_INVOICE_QUANTITY")
    /\ RowOf("GR_MISSING", "GOODS_RECEIPT_MISSING", "ESCALATE", "none")
    /\ RowOf("GR_PARTIAL", "PARTIAL_DELIVERY", "POST_INVOICE", "none")
    /\ RowOf("DUP_INVOICE", "DUPLICATE_INVOICE", "PROPOSE_CORRECTION", "REJECT_INVOICE")
    /\ RowOf("AMBIGUOUS", "INSUFFICIENT_EVIDENCE", "ESCALATE", "none")
BY DEF RowOf, ExpectedClassification, IdealDecision, AlsoAcceptable, Grade, ExpectedCorrection

LEMMA IdealRow ==
    ASSUME NEW classification, NEW decision, NEW correction,
           RowOf(documents.label, classification, decision, correction.correction_type),
           documents.label \in {"PRICE_MAJOR", "QTY_OVER"} => correction.to = documents.expected
    PROVE  Ideal(Resolved(classification, decision, correction))
BY DEF RowOf, Ideal, Resolved

LEMMA IdealRules ==
    ASSUME documents \in Dataset, AllRead, ~Tolerated
    PROVE  Ideal(Resolve)
<1>1. PICK n \in Quantities, p \in Prices, t \in Tolerances :
          documents \in InjectionsInto(Clean(n, p, t))
  BY DEF Dataset
<1>2. PICK c : c = Clean(n, p, t)
  OBVIOUS
<1>3. /\ c = [ordered |-> c.ordered, po_price |-> p, tolerance |-> t,
              receipts |-> <<c.ordered>>, invoiced |-> c.ordered, unit_price |-> p,
              known_line |-> TRUE, block |-> "none", duplicate |-> FALSE,
              label |-> "CLEAN", expected |-> 0]
      /\ c.ordered \in Nat \ {0} /\ n \in Nat \ {0} /\ c.ordered = 2 * n
  BY <1>2, ScenariosAssumption DEF Clean, NoBlockReason
<1>4. p \in Nat \ {0} /\ t.price \in Nat /\ t.quantity \in Nat
  BY ScenariosAssumption
<1>5. documents \in InjectionsInto(c)
  BY <1>1, <1>2
<1>6. /\ LineUnknown <=> ~documents.known_line
      /\ Duplicated <=> documents.duplicate
      /\ Receipts = documents.receipts
  BY AllSeen
<1>7. ASSUME NEW r, documents.receipts = <<r>> PROVE Received = r /\ Receipts # <<>>
  BY <1>6, <1>7 DEF Received, Sum
<1>8. CASE documents = c
  <2>1. /\ documents.known_line /\ ~documents.duplicate /\ documents.receipts = <<c.ordered>>
        /\ documents.ordered = c.ordered /\ documents.invoiced = c.ordered
        /\ documents.block = "none" /\ documents.label = "CLEAN"
        /\ documents.po_price = p /\ documents.unit_price = p /\ documents.tolerance = t
    BY <1>3, <1>8
  <2>2. AtOrder
    BY <1>4, <2>1, OrderPrice
  <2>3. Received = c.ordered /\ Receipts # <<>>
    BY <1>7, <2>1
  <2>4. ~BilledTooMuch
    BY <1>3, <2>1, <2>3 DEF BilledTooMuch
  <2>5. Resolve = Resolved("CLEAN", "POST_INVOICE", NoCorrection)
    BY <1>3, <1>6, <2>1, <2>2, <2>3, <2>4 DEF Resolve, AtOrder, NoBlockReason
  <2> QED
    BY <2>1, <2>5, Rows, IdealRow DEF NoCorrection
<1>9. CASE documents = GrMissing(c)
  <2>1. /\ documents.known_line /\ ~documents.duplicate /\ documents.receipts = <<>>
        /\ documents.label = "GR_MISSING"
    BY <1>3, <1>9 DEF GrMissing
  <2>2. Resolve = Resolved("GOODS_RECEIPT_MISSING", "ESCALATE", NoCorrection)
    BY <1>6, <2>1 DEF Resolve
  <2> QED
    BY <2>1, <2>2, Rows, IdealRow DEF NoCorrection
<1>10. CASE documents = DupInvoice(c)
  <2>1. documents.known_line /\ documents.duplicate /\ documents.label = "DUP_INVOICE"
    BY <1>3, <1>10 DEF DupInvoice
  <2>2. Resolve = Resolved("DUPLICATE_INVOICE", "PROPOSE_CORRECTION",
                           [correction_type |-> "REJECT_INVOICE"])
    BY <1>6, <2>1 DEF Resolve
  <2> QED
    BY <2>1, <2>2, Rows, IdealRow
<1>11. CASE documents \in {DanglingLine(c), OverDelivery(c), ConflictingReceipts(c)}
  <2>1. documents.label = "AMBIGUOUS"
    BY <1>3, <1>11 DEF DanglingLine, OverDelivery, ConflictingReceipts, Ambiguous
  <2>2. \/ ~documents.known_line
        \/ ~documents.duplicate /\ Receipts # <<>> /\ Received > documents.ordered
    <3>1. CASE documents = DanglingLine(c)
      BY <1>3, <3>1 DEF DanglingLine, Ambiguous
    <3>2. CASE documents = OverDelivery(c)
      <4>1. /\ documents.receipts = <<c.ordered + 2>> /\ ~documents.duplicate
            /\ documents.ordered = c.ordered
        BY <1>3, <3>2 DEF OverDelivery, Ambiguous
      <4> QED
        BY <1>3, <1>7, <4>1
    <3>3. CASE documents = ConflictingReceipts(c)
      <4>1. /\ documents.receipts = <<c.ordered, c.ordered>> /\ ~documents.duplicate
            /\ documents.ordered = c.ordered
        BY <1>3, <3>3 DEF ConflictingReceipts, Ambiguous
      <4>2. Received = c.ordered + c.ordered /\ Receipts # <<>>
        BY <1>3, <1>6, <4>1 DEF Received, Sum
      <4> QED
        BY <1>3, <4>1, <4>2
    <3> QED
      BY <1>11, <3>1, <3>2, <3>3
  <2>3. Resolve = Resolved("INSUFFICIENT_EVIDENCE", "ESCALATE", NoCorrection)
    BY <1>6, <2>2 DEF Resolve
  <2> QED
    BY <2>1, <2>3, Rows, IdealRow DEF NoCorrection
<1>13. ASSUME NEW draw \in PriceDraws \cap 20..80,
              documents = PriceVariance(c, draw, "within", "PRICE_MINOR")
       PROVE  Ideal(Resolve)
  <2>1. /\ documents.known_line /\ ~documents.duplicate /\ documents.receipts = <<c.ordered>>
        /\ documents.ordered = c.ordered /\ documents.invoiced = c.ordered
        /\ documents.block = "PRICE" /\ documents.label = "PRICE_MINOR"
        /\ documents.po_price = p /\ documents.tolerance = t
        /\ documents.unit_price
               = Nudged(c, Raised(p, t, draw), "within")
    BY <1>3, <1>13 DEF PriceVariance, Raised
  <2>2. PICK raised : raised = Raised(p, t, draw)
    OBVIOUS
  <2>3. documents.unit_price = raised
    BY <1>3, <2>1, <2>2, MinorPrice
  <2>4. raised \in Nat /\ raised > p /\ PercentOver(raised, p) \in 1..(100 * t.price)
    BY <2>2, MinorDraw
  <2>5. VariancePct \in 1..(100 * t.price)
    BY <1>4, <2>1, <2>3, <2>4, RaisedPrice
  <2>6. ~PriceIsOff /\ VariancePct > 0
    BY <1>4, <2>1, <2>5 DEF PriceIsOff
  <2>7. Received = c.ordered /\ Receipts # <<>>
    BY <1>7, <2>1
  <2>8. ~BilledTooMuch
    BY <1>3, <2>1, <2>7 DEF BilledTooMuch
  <2>9. Resolve = Resolved("PRICE_VARIANCE_WITHIN_TOLERANCE", "RELEASE_BLOCK", NoCorrection)
    BY <1>3, <1>6, <2>1, <2>6, <2>7, <2>8 DEF Resolve, NoBlockReason
  <2> QED
    BY <2>1, <2>9, Rows, IdealRow DEF NoCorrection
<1>14. ASSUME NEW draw \in PriceDraws \cap 160..500,
              documents = PriceVariance(c, draw, "beyond", "PRICE_MAJOR")
       PROVE  Ideal(Resolve)
  <2>1. /\ documents.known_line /\ ~documents.duplicate /\ documents.receipts = <<c.ordered>>
        /\ documents.ordered = c.ordered
        /\ documents.label = "PRICE_MAJOR" /\ documents.expected = p
        /\ documents.po_price = p /\ documents.tolerance = t
        /\ documents.unit_price
               = Nudged(c, Raised(p, t, draw), "beyond")
    BY <1>3, <1>14 DEF PriceVariance, Raised
  <2>2. PICK raised : raised = Raised(p, t, draw)
    OBVIOUS
  <2>3. /\ documents.unit_price \in Nat /\ documents.unit_price >= p
        /\ PercentOver(documents.unit_price, p) > 100 * t.price
    BY <1>3, <2>1, <2>2, MajorPrice
  <2>4. PriceIsOff
    BY <1>4, <2>1, <2>3, RaisedPrice DEF PriceIsOff
  <2>5. Received = c.ordered /\ Receipts # <<>>
    BY <1>7, <2>1
  <2>6. Resolve = Resolved("PRICE_VARIANCE_EXCEEDS_TOLERANCE", "PROPOSE_CORRECTION",
                           AmendTo("AMEND_INVOICE_PRICE", documents.unit_price, documents.po_price))
    BY <1>3, <1>6, <2>1, <2>4, <2>5 DEF Resolve
  <2> QED
    BY <2>1, <2>6, Rows, IdealRow DEF AmendTo
<1>15. ASSUME NEW r \in ShortReceipts(c)
       PROVE  r \in Nat \ {0} /\ r < c.ordered
  <2>1. CASE c.ordered > 2
    <3>1. c.ordered \div 2 = n
      BY <1>3
    <3>2. PICK k \in ReceiptDraws(n) : r = 2 * k
      BY <2>1, <3>1 DEF ShortReceipts
    <3>3. k \in 1..(n - 1)
      BY <3>2, ScenariosAssumption
    <3> QED
      BY <1>3, <3>2, <3>3
  <2>2. CASE ~(c.ordered > 2)
    BY <1>3, <2>2 DEF ShortReceipts
  <2> QED
    BY <2>1, <2>2
<1>16. ASSUME NEW r \in ShortReceipts(c), documents = QtyOver(c, r)
       PROVE  Ideal(Resolve)
  <2>1. /\ documents.known_line /\ ~documents.duplicate /\ documents.receipts = <<r>>
        /\ documents.ordered = c.ordered /\ documents.invoiced = c.ordered
        /\ documents.label = "QTY_OVER" /\ documents.expected = r
        /\ documents.po_price = p /\ documents.unit_price = p /\ documents.tolerance = t
    BY <1>3, <1>16 DEF QtyOver
  <2>2. AtOrder
    BY <1>4, <2>1, OrderPrice
  <2>3. Received = r /\ Receipts # <<>> /\ r \in Nat \ {0} /\ r < c.ordered
    BY <1>7, <1>15, <2>1
  <2>4. BilledTooMuch
    <3>1. PICK m \in Int : m = (c.ordered - r) * 10000
      BY <1>3, <2>3
    <3>2. PercentOver(c.ordered, r) \in Int
      <4>1. PercentOver(c.ordered, r) = Rounded(m, r)
        BY <3>1 DEF PercentOver
      <4>2. m \in Int /\ r \in Nat \ {0}
        BY <2>3
      <4>3. Rounded(m, r) \in Int
        BY <4>2, RoundedBounds
      <4> QED
        BY <4>1, <4>3
    <3>3. ~(PercentOver(c.ordered, r) <= 100 * t.quantity)
      BY <2>1, <2>3 DEF Tolerated
    <3> QED
      BY <1>3, <1>4, <2>1, <2>3, <3>2, <3>3 DEF BilledTooMuch
  <2>5. Resolve = Resolved("QUANTITY_EXCEEDS_RECEIPT", "PROPOSE_CORRECTION",
                           AmendTo("AMEND_INVOICE_QUANTITY", documents.invoiced, Received))
    BY <1>3, <1>6, <2>1, <2>2, <2>3, <2>4 DEF Resolve, AtOrder
  <2> QED
    BY <2>1, <2>3, <2>5, Rows, IdealRow DEF AmendTo
<1>17. ASSUME NEW r \in ShortReceipts(c), documents = GrPartial(c, r)
       PROVE  Ideal(Resolve)
  <2>1. /\ documents.known_line /\ ~documents.duplicate /\ documents.receipts = <<r>>
        /\ documents.ordered = c.ordered /\ documents.invoiced = r
        /\ documents.label = "GR_PARTIAL" /\ documents.block = "none"
        /\ documents.po_price = p /\ documents.unit_price = p /\ documents.tolerance = t
    BY <1>3, <1>17 DEF GrPartial
  <2>2. AtOrder
    BY <1>4, <2>1, OrderPrice
  <2>3. Received = r /\ Receipts # <<>> /\ r \in Nat \ {0} /\ r < c.ordered
    BY <1>7, <1>15, <2>1
  <2>4. ~BilledTooMuch
    BY <2>1, <2>3 DEF BilledTooMuch
  <2>5. Resolve = Resolved("PARTIAL_DELIVERY", "POST_INVOICE", NoCorrection)
    BY <1>3, <1>6, <2>1, <2>2, <2>3, <2>4 DEF Resolve, AtOrder, NoBlockReason
  <2> QED
    BY <2>1, <2>5, Rows, IdealRow DEF NoCorrection
<1> QED
  BY <1>5, <1>8, <1>9, <1>10, <1>11, <1>13, <1>14, <1>16, <1>17 DEF InjectionsInto

IdealInv ==
    /\ documents \in Dataset
    /\ Submitted => resolution = Resolve

(* Having read everything, the engine is scored ideal, but for a shortfall   *)
(* within the tolerance.                                                     *)
THEOREM EngineIsIdeal == BaselineSpec => []IdealWhenRead
<1>1. BaselineInit => IdealInv
  BY DEF BaselineInit, IdealInv, Submitted
<1>2. IdealInv /\ [BaselineNext]_baselineVars => IdealInv'
  <2> SUFFICES ASSUME IdealInv, [BaselineNext]_baselineVars PROVE IdealInv'
    OBVIOUS
  <2>1. CASE Submit
    <3>1. Resolve' = Resolve
      BY <2>1, SameAnswer DEF Submit
    <3> QED
      BY <2>1, <3>1 DEF Submit, IdealInv, Submitted
  <2>2. CASE ReadNext \/ Proposing
    <3>1. documents' = documents /\ ~Submitted /\ resolution' = resolution
      BY <2>2 DEF ReadNext, Proposing, Running, Submitted
    <3> QED
      BY <3>1 DEF IdealInv, Submitted
  <2>3. CASE UNCHANGED baselineVars
    <3>1. Resolve' = Resolve
      BY <2>3, SameAnswer DEF baselineVars
    <3> QED
      BY <2>3, <3>1 DEF baselineVars, IdealInv, Submitted
  <2> QED
    BY <2>1, <2>2, <2>3 DEF BaselineNext
<1>3. IdealInv => IdealWhenRead
  BY IdealRules DEF IdealInv, IdealWhenRead, ScoredIdeal, Ideal
<1> QED
  BY <1>1, <1>2, <1>3, PTL DEF BaselineSpec

=============================================================================
