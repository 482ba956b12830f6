-------------------------------- MODULE Dataset --------------------------------
(***************************************************************************)
(* The files under data/ between the programs that share them: the         *)
(* generator writes the ERP's documents and the answer key                 *)
(* (generator/cli.py), the ERP reads the documents once when it starts     *)
(* (mock_erp/store.py), and the evals read the key before each run and     *)
(* build the dataset again to check it (evals/dataset.py).                 *)
(*                                                                         *)
(* What the generator writes depends on the configuration alone, so a file *)
(* is the configuration it was made from, and which writing it is of.  The *)
(* files are written one by one; a generator that is killed leaves the one *)
(* it was at cut off.  Someone edits the configuration, or an entry of the *)
(* key; nothing holds the programs apart.                                  *)
(***************************************************************************)
EXTENDS Planner

CONSTANTS
    Configs,       \* what the configuration may say at first
    Revisions(_),  \* what a configuration may be edited to
    Edited,        \* the scenarios whose entries in the key are edited by hand
    Texts,         \* for each field of an entry, what may be typed there
    MaxEdits,      \* bound: edits of the configuration and of the key
    MaxWrites      \* bound: generator runs

Fields == {"label", "variant", "detail"}
Possible == Configs \cup UNION {Revisions(cfg) : cfg \in Configs}

ASSUME DatasetAssumption ==
    /\ MaxEdits \in Nat /\ MaxWrites \in Nat /\ DOMAIN Texts = Fields
    /\ \A cfg \in Possible : Valid(cfg)
ASSUME RevisionAssumption ==
    \A cfg \in Possible : Revisions(cfg) \subseteq Possible

VARIABLES
    config,     \* data/config/scenarios.yaml
    files,      \* data/erp and data/labels
    writes,     \* how often the generator has been run
    writer,     \* the running generator, or Idle
    erp,        \* the mock ERP's process, what it has read, and since which writing
    loaded,     \* what load_cases returned, if it was called in the last step
    edits

datasetVars == <<config, files, writes, writer, erp, loaded, edits>>

(* dump_json writes them in this order, and load_store reads all but the key *)
(* in the same one.  The three files of master data come first, one after    *)
(* the other, and are one here.                                              *)
DumpedKeyFirst ==       \* a slip: the key before the documents
    <<"labels", "master_data", "purchase_orders", "goods_receipts", "invoices",
      "tolerances", "splits">>
Dumped == <<"master_data", "purchase_orders", "goods_receipts", "invoices",
            "tolerances", "labels", "splits">>
Read == <<"master_data", "purchase_orders", "goods_receipts", "invoices", "tolerances">>

(* build_dataset depends on nothing but the configuration. *)
Plan == [cfg \in Possible |-> PlanOfLabels(cfg)]
Ids(cfg) == DOMAIN Plan[cfg]
SplitsOf == [cfg \in Possible |-> [dev    |-> Dev(Plan[cfg], cfg.fraction),
                                  eval   |-> Held(Plan[cfg], cfg.fraction),
                                  golden |-> cfg.golden]]
CanBeBuilt == {cfg \in Possible : Buildable(cfg)}

Idle      == [next |-> 0]
Missing   == [state |-> "missing"]
Down      == [state |-> "down"]
NotLoaded == [outcome |-> "none"]
Generating == writer # Idle
IsWhole(file) == file.state = "whole"

-----------------------------------------------------------------------------
(* The generator.                                                            *)

(* main: the configuration is read and the dataset built before any file is  *)
(* touched.  A configuration it cannot build raises here.                    *)
GenerateOn ==       \* a slip: go on where a killed one stopped
    /\ ~Generating /\ writes < MaxWrites
    /\ config \in CanBeBuilt
    /\ writes' = writes + 1
    /\ LET cut == {k \in DOMAIN Dumped : ~IsWhole(files[Dumped[k]])} IN
       writer' = [next |-> IF cut = {} THEN 1 ELSE Min(cut), cfg |-> config]
    /\ loaded' = NotLoaded
    /\ UNCHANGED <<config, files, erp, edits>>
Generate ==
    /\ ~Generating /\ writes < MaxWrites
    /\ config \in CanBeBuilt
    /\ writes' = writes + 1
    /\ writer' = [next |-> 1, cfg |-> config]
    /\ loaded' = NotLoaded
    /\ UNCHANGED <<config, files, erp, edits>>

(* _write_json: opening a file empties it; then it is filled.                *)
Content(state) == [state |-> state, cfg |-> writer.cfg, write |-> writes, changed |-> <<>>]

OpenFile ==
    /\ Generating /\ files[Dumped[writer.next]] # Content("cut")
    /\ files' = [files EXCEPT ![Dumped[writer.next]] = Content("cut")]
    /\ loaded' = NotLoaded
    /\ UNCHANGED <<config, writes, writer, erp, edits>>

FillFile ==
    /\ Generating /\ files[Dumped[writer.next]] = Content("cut")
    /\ files' = [files EXCEPT ![Dumped[writer.next]] = Content("whole")]
    /\ writer' = IF writer.next = Len(Dumped) THEN Idle ELSE [writer EXCEPT !.next = @ + 1]
    /\ loaded' = NotLoaded
    /\ UNCHANGED <<config, writes, erp, edits>>

KillGenerator ==
    /\ Generating
    /\ writer' = Idle
    /\ loaded' = NotLoaded
    /\ UNCHANGED <<config, files, writes, erp, edits>>

-----------------------------------------------------------------------------
(* Someone edits the configuration, or a field of an entry of the key.       *)

EditConfig(cfg) ==
    /\ edits < MaxEdits
    /\ config' = cfg
    /\ edits' = edits + 1
    /\ loaded' = NotLoaded
    /\ UNCHANGED <<files, writes, writer, erp>>

EditKey(i, field, text) ==
    /\ edits < MaxEdits /\ IsWhole(files["labels"]) /\ i \in Ids(files["labels"].cfg)
    /\ files' = [files EXCEPT !["labels"].changed =
                     [at \in DOMAIN @ \cup {<<i, field>>} |->
                          IF at = <<i, field>> THEN text ELSE @[at]]]
    /\ edits' = edits + 1
    /\ loaded' = NotLoaded
    /\ UNCHANGED <<config, writes, writer, erp>>

-----------------------------------------------------------------------------
(* The ERP.  load_store reads one file after the other; a file that is       *)
(* missing or cut ends the start.                                            *)

(* `since` is kept for a property only: the writing that was complete when   *)
(* the start began, and still the last one when the ERP came up; otherwise 0.*)
LastWriting ==
    IF ~Generating /\ IsWhole(files["splits"]) /\ files["splits"].write = writes
    THEN writes ELSE 0

StartErp ==
    /\ erp = Down
    /\ erp' = [state |-> "starting", docs |-> <<>>, since |-> LastWriting]
    /\ loaded' = NotLoaded
    /\ UNCHANGED <<config, files, writes, writer, edits>>

(* _check_references: every document's order, and every order's and          *)
(* invoice's master data, are among what was read.                           *)
Docs(read) == [name \in {Read[i] : i \in DOMAIN read} |->
                   read[CHOOSE i \in DOMAIN read : Read[i] = name].cfg]
Orders(docs) == Ids(docs.purchase_orders)

Connected(docs) ==
    /\ \A i \in Orders(docs) : MasterOf(docs.purchase_orders, i) <= docs.master_data.masters
    /\ ReceiptsOf(Plan[docs.goods_receipts]) \subseteq Orders(docs)
    /\ \A i \in Ids(docs.invoices) :
           i \in Orders(docs) /\ MasterOf(docs.invoices, i) <= docs.master_data.masters

ReadFile ==
    /\ erp.state = "starting"
    /\ LET file == files[Read[Len(erp.docs) + 1]]
           docs == Append(erp.docs, file) IN
       erp' = IF ~IsWhole(file) THEN Down
              ELSE IF Len(docs) < Len(Read) THEN [erp EXCEPT !.docs = docs]
              ELSE IF Connected(Docs(docs))
              THEN [state |-> "up", docs |-> docs,
                    since |-> IF erp.since = writes THEN writes ELSE 0]
              ELSE Down
    /\ loaded' = NotLoaded
    /\ UNCHANGED <<config, files, writes, writer, edits>>

StopErp ==
    /\ erp # Down
    /\ erp' = Down
    /\ loaded' = NotLoaded
    /\ UNCHANGED <<config, files, writes, writer, edits>>

-----------------------------------------------------------------------------
(* The evals.                                                                *)

(* What labels.json says of a scenario: what the generator wrote, but for    *)
(* the fields in which something else has been typed since.                  *)
ByHand == DOMAIN files["labels"].changed
Field(i, field) ==
    LET key == files["labels"] IN
    IF <<i, field>> \in ByHand THEN key.changed[<<i, field>>]
    ELSE EntryOf(Plan[key.cfg], key.cfg, i)[field]
Entry(i) == [field \in Fields |-> Field(i, field)]

InSplit(split) == IF split = "all" THEN Ids(files["labels"].cfg)
                  ELSE SplitsOf[files["splits"].cfg][split]

(* _rebuild_index, and the case load_cases makes of a scenario: the invoice  *)
(* to verify is the last one, which of a duplicate is the duplicate.         *)
CaseOfFirst(i) == [id |-> i, entry |-> Entry(i),      \* a slip: the first invoice
                   invoice |-> InvoicesOf(Plan[config], i)[1],
                   invoices |-> Range(InvoicesOf(Plan[config], i))]
CaseOf(i) == [id |-> i, entry |-> Entry(i),
              invoice |-> Last(InvoicesOf(Plan[config], i)),
              invoices |-> Range(InvoicesOf(Plan[config], i))]

(* _assert_sidecar_matches_generator: of an entry, the label alone. *)
Matches(ids) == \A i \in ids : Field(i, "label") = LabelOf(Plan[config], i)

(* load_cases: DatasetError refuses; what the generator raises is not one,   *)
(* and leaves load_cases as it is.                                           *)
LoadCases(split) ==
    LET ids == InSplit(split) IN
    IF ~IsWhole(files["labels"]) \/ ~IsWhole(files["splits"]) THEN [outcome |-> "unreadable"]
    ELSE IF ids = {} THEN [outcome |-> "empty"]
    ELSE IF config \notin CanBeBuilt THEN [outcome |-> "raised"]
    ELSE IF ~(ids \subseteq Ids(files["labels"].cfg) \cap Ids(config))
         THEN [outcome |-> "stale"]
    ELSE IF ~Matches(ids) THEN [outcome |-> "stale"]
    ELSE [outcome |-> "accepted", cases |-> {CaseOf(i) : i \in ids}]

Load(split) ==
    /\ loaded' = LoadCases(split)
    /\ UNCHANGED <<config, files, writes, writer, erp, edits>>

Splits == {"dev", "eval", "golden", "all"}

-----------------------------------------------------------------------------
(* A checkout without data/, and an ERP that is not running.                 *)
DatasetInit ==
    /\ config \in Configs
    /\ files = [name \in {Dumped[i] : i \in DOMAIN Dumped} |-> Missing]
    /\ writes = 0 /\ writer = Idle
    /\ erp = Down
    /\ loaded = NotLoaded
    /\ edits = 0

DatasetNext ==
    \/ Generate \/ OpenFile \/ FillFile \/ KillGenerator
    \/ \E cfg \in Revisions(config) : EditConfig(cfg)
    \/ \E i \in Edited, field \in Fields : \E text \in Texts[field] : EditKey(i, field, text)
    \/ StartErp \/ ReadFile \/ StopErp
    \/ \E split \in Splits : Load(split)

DatasetSpec == DatasetInit /\ [][DatasetNext]_datasetVars

-----------------------------------------------------------------------------
(* Properties.                                                               *)

(* The files before the one a generator is at are whole and its own.         *)
DatasetTypeOK ==
    /\ writer.next \in 0..Len(Dumped)
    /\ \A k \in 1..(writer.next - 1) :
           IsWhole(files[Dumped[k]]) /\ files[Dumped[k]].write = writes
    /\ \A k \in DOMAIN Dumped : files[Dumped[k]].state \in {"missing", "cut", "whole"}
    /\ erp.state = "up" => Len(erp.docs) = Len(Read)
    /\ loaded.outcome \in {"none", "unreadable", "empty", "raised", "stale", "accepted"}

(* "Exact counts, not sampling": a plan has as many scenarios as were asked  *)
(* for; each label has its share to the nearest scenario, but for a single   *)
(* one whose share is within a scenario of the largest, and the variants of  *)
(* AMBIGUOUS are as many of each but for one.  The plan is longer where      *)
(* rounding up takes more than the largest bucket has.                       *)
Built == Generating /\ writer.next = 1
Near(n, m, unit) == n - m <= unit /\ m - n <= unit
Fits(cfg) ==
    /\ \A i \in DOMAIN cfg.weights : Shares(cfg)[i] >= 0
    /\ \E i \in DOMAIN cfg.weights : Shares(cfg)[i] + Remainder(cfg) >= 0

Exact(cfg, plan) ==
    LET labelled(l) == Cardinality({i \in DOMAIN plan : plan[i][1] = l})
        varied(v) == Cardinality(OfKind(plan, <<"AMBIGUOUS", v>>)) IN
    /\ Len(plan) = cfg.count
    /\ \E b \in DOMAIN cfg.weights :
           /\ \A j \in DOMAIN cfg.weights :
                  cfg.count * (cfg.weights[j].share - cfg.weights[b].share) <= 1000
           /\ \A i \in DOMAIN cfg.weights \ {b} :
                  Near(2000 * labelled(cfg.weights[i].label), 2 * cfg.count * cfg.weights[i].share, 1000)
    /\ IsInjective(cfg.variants) =>
           \A v, u \in Range(cfg.variants) : Near(varied(v), varied(u), 1)

PlanIsExact == Built /\ Fits(writer.cfg) => Exact(writer.cfg, Plan[writer.cfg])

(* "Stratified per (label, variant), not a slice of the whole list": every   *)
(* scenario is in the holdout or in dev and not in both; the holdout has     *)
(* some of every kind there is, the fraction of it rounded up, or one more   *)
(* where the float is above the product, and none that is read by hand.      *)
SplitsAreSound ==
    Built =>
        LET cfg == writer.cfg
            plan == Plan[cfg]
            held == Held(plan, cfg.fraction)
            dev == Dev(plan, cfg.fraction) IN
        /\ held \cup dev = DOMAIN plan /\ held \cap dev = {}
        /\ cfg.golden \cap held = {}
        /\ \A kind \in Range(plan) :
               LET some == 100 * Cardinality(OfKind(plan, kind) \cap held)
                   share == cfg.fraction * Cardinality(OfKind(plan, kind)) IN
               some > 0 /\ share <= some /\ some <= share + 100

(* Wherever a generator is killed, it has left no answer key for documents   *)
(* that are not there: a key that can be read is never of a later writing    *)
(* than a document, and the documents of its own writing are whole.          *)
KeyIsNotAhead ==
    IsWhole(files["labels"]) =>
        \A k \in DOMAIN Read : LET file == files[Read[k]] key == files["labels"] IN
            /\ file.state # "missing" /\ file.write >= key.write
            /\ file.write = key.write => IsWhole(file)

(* An ERP whose start began when the last generator had finished, and was up *)
(* before another began, serves the documents of that one writing, made from *)
(* one configuration, however many generators were killed before and however *)
(* the files they left were of different writings; and until the next one    *)
(* begins, the answer key is whole and of the same writing.                  *)
QuietStartServesOneWriting ==
    erp.state = "up" /\ erp.since > 0 =>
        /\ \A k \in DOMAIN erp.docs :
               erp.docs[k].write = erp.since /\ erp.docs[k].cfg = erp.docs[1].cfg
        /\ writes = erp.since =>
               LET key == files["labels"] IN
               IsWhole(key) /\ key.write = erp.since /\ key.cfg = erp.docs[1].cfg

(* Where the ERP serves the documents of the writing the answer key is of,   *)
(* every case the evals accept is graded by what those documents hold,       *)
(* whatever the configuration has been edited to since and whatever has been *)
(* typed into the key: the ERP serves its invoices, a duplicate is verified  *)
(* by the second of them, and its label, variant and magnitudes are those of *)
(* the documents, but for a field that was edited by hand; and a label typed *)
(* by hand is accepted only where the generator makes it of the              *)
(* configuration as it is.                                                   *)
ServesTheKey ==
    erp.state = "up" /\ \A k \in DOMAIN erp.docs : erp.docs[k].write = files["labels"].write
CasesAreServed ==
    loaded.outcome = "accepted" /\ ServesTheKey =>
        LET served == Docs(erp.docs).invoices IN
        \A c \in loaded.cases :
            /\ c.id \in Ids(served)
            /\ \A field \in Fields : <<c.id, field>> \notin ByHand =>
                   c.entry[field] = EntryOf(Plan[served], served, c.id)[field]
            /\ <<c.id, "label">> \notin ByHand =>
                   c.invoices = Range(InvoicesOf(Plan[served], c.id)) /\ c.invoice \in c.invoices
            /\ c.entry.label = LabelOf(Plan[config], c.id)
            /\ c.entry.label = "DUP_INVOICE" => c.invoice = <<c.id, 2>>

(* Regenerating clears the alarm: a key that is whole, of the configuration  *)
(* as it is and not edited by hand is not called stale.                      *)
NoFalseAlarm ==
    /\ loaded.outcome # "none"
    /\ \A name \in {"labels", "splits"} : IsWhole(files[name]) /\ files[name].cfg = config
    /\ ByHand = {}
    => loaded.outcome \in {"accepted", "empty"}

(* "If the committed sidecar and the generator disagree ... that is an       *)
(* error": what is accepted is what the generator makes of the configuration *)
(* as it is.                                                                 *)
KeyIsCurrent ==
    loaded.outcome = "accepted" => \A c \in loaded.cases :
        c.entry = EntryOf(Plan[config], config, c.id)

=============================================================================
