# Verification of the invoice-correction system

This directory holds TLA+ models of the system in this repository, the TLC
configurations that check them on small instances, and TLAPS proofs about every
part that is modelled: each safety property the passing runs check on a small
instance is also a theorem for every value of the constants, and only liveness is
left to the runs. The models are written from the code. Where the code and a comment, a doc or a message to the
user disagree, the model follows the code; section 6 lists the disagreements, and
runs show the three that matter most.

Contents: 1 the system; 2 modules and code; 3 runs; 4 bounds and fairness;
5 proofs; 6 where code and words disagree; 7 what is not modelled; 8 plan;
9 how to run it.

## 1. The system

Invoices are checked against their purchase order and goods receipts. An LLM
agent investigates an invoice and may *propose* a correction. A human approves
or rejects the proposal in the review UI and applies it. The ERP serves
documents and owns the only write path. A generator makes labelled datasets and
an eval harness scores agents against the labels.

    generator --files--> ERP <--HTTP-- agent loop <--calls-- LLM / rules / cassette
                          ^                 ^
                          |                 +-- eval harness (safety gates, scores)
                          +--HTTP-- review UI (two replicas) <-- reviewers

| Component | State it keeps | Operations | What is hard | What makes it correct |
|---|---|---|---|---|
| **ERP approval gate** (`mock_erp/repository.py`, `proposals.py`, `write_api.py`, `db.py`) | two SQLite tables: proposals, amendments | propose, approve, reject, apply | calls in any order, repeated, with another payload than the approved one; two proposals for one field; amendments are *checked* in the order of the applies and *read* in the order of a wall-clock text | only approved payloads are stored, once; no approved decision undoes another; verdicts are final |
| **ERP overlay and documents** (`overlay.py`, `api.py`, `store.py`) | immutable base documents | read an invoice with its amendments laid over it; decide whether a payload still fits | amounts are texts nobody validates: two spellings of one number, NaN, no number at all, a line that is not there | a read serves exactly what was applied; a stale payload is refused |
| **Review UI, routes and client** (`review_ui/app.py`, `client.py`) | none; the hash in each form, and the call being handled | draw a page, submit a form, guard, POST, redirect | replicas that know nothing of each other; a timeout while the ERP still handles the POST; the approvals database deleted while pages are open | nobody approves what he was not shown; what a reviewer was told stays true; no handler hangs |
| **Review UI, page and views** (`app.py` `detail`, `views.py`) | none | read the proposal, then the invoice; draw diff, warnings, buttons | two requests with applies between them; staleness decided by rules of its own | the page's warning and the ERP's refusal are one judgement |
| **Agent loop, tools, client** (`agent/loop.py`, `tools.py`, `erp_client.py`) | transcript, records, nudge, rounds, accepted resolution | complete, answer each tool call, accept or refuse a resolution | a model that answers with anything; several calls, even several resolutions, in one message; lost and late POSTs | well-formed transcript; the stop reason is earned; no proposal is repeated; every run ends |
| **Eval harness and safety gates** (`evals/runner.py`, `safety.py`, `cli.py`) | snapshots, listings, case results | snapshot, list, run cases, compare, exit code | reads of a live service one at a time, any of which fails, while humans approve and apply | a green run means nothing was written; a red one accuses with cause |
| **Cassettes** (`evals/cassettes.py`) | a file of fingerprinted turns | record, replay strictly or not, save | prompts, tools, documents, the scenario's invoice and proposal numbers change between recording and replay; the provider fails in mid-recording; a process is killed in mid-save | answers are replayed only to the requests they answered; a cassette that can be read holds a whole run |
| **Rule baseline, expectations, scoring** (`evals/baseline.py`, `expectations.py`, `scoring.py`, `agent/schemas.py`) | none: the message list is read anew each turn | four reads, nine ordered rules, propose, submit | a failed read looks like an empty one; the order of overlapping rules; rounding at the tolerances | never unsafe; ideal whenever it could read; always submits |
| **Generator injectors** (`generator/injectors.py`, `scenarios.py`) | none | one injection per label into a clean triple | a draw near the tolerance must still earn its label | labels, rules and expectation tables agree |
| **Generator planner and splits** (`planner.py`, `splits.py`) | none | buckets per label, variants, a shuffle; a stratified holdout | half-even rounding and where its remainder goes; fractions rounded up; a golden scenario that the fraction would hold back | a plan is as long as asked for and true to its weights; the holdout has some of every kind |
| **The dataset's files** (`generator/cli.py`, `mock_erp/store.py`, `evals/dataset.py`) | nine files under `data/`; the ERP's copy of seven of them; the configuration | write the files one by one; read them one by one at the ERP's start; load a split and rebuild the dataset to check it | a generator killed at any file; an ERP that starts meanwhile; a configuration or a key entry edited in between; nothing keeps the programs apart | no answer key for documents that are not there; a start beside no generator serves one writing; what is accepted is graded by what is served |
| **Tracing and cost** (`agent/tracing.py`, `cost.py`, the spans of `loop.py`) | span numbers and depth, an append-only file, the dashboard's buffer and trace; a run's costs | open and close spans; price a call; flush; add up | a backend that refuses, an exception through two open spans, a killed process whose file the next one appends to, an unknown price | the nesting can be rebuilt; nothing that completed is lost; file, dashboard and record agree; a stated total is the whole total |
| Prompts, settings, other command lines, texts of master data, domain models, deployment, demo, formatted reports | - | texts, declarations, I/O | - | not modelled; section 7 |

How they interact: the agent, the UI and the harness reach the ERP by HTTP
only. The ERP handles a request whole: its routes are `async def` without an
`await` in them, and each write is one SQLite transaction. So a request to the
ERP is one step, and everything else is interleaved with it. A UI route blocks
its replica while it waits (a blocking client in an `async def` route), so a
desk handles one form at a time, while the other replica runs on.

## 2. Modules and code

| Module | Models | State and actions |
|---|---|---|
| `Corrections` | payload types, `overlay.py` | no state. `Amended` is one iteration of `apply_amendments`, `ApplyAmendments` the loop, `StaleConflict` is `find_stale_conflict` with its refusal codes, `PayloadHash` the canonical-JSON hash (equal exactly for equal payloads, texts compared as written) |
| `DocumentGate` | abstract: what the gate promises | `requests`, `document`: documents corrected in place by granted requests. No hashes, amendments or clock |
| `Approval` | `repository.py` behind `write_api.py` | `proposals`, `amendments`: the two tables. `Propose`, `Approve`, `Reject`, `Apply`. `VerdictOutcome` and `ApplyOutcome` are the answers, the checks in the code's order; a refused request changes nothing, so it is a stuttering step. `Served` is the read path, field by field |
| `ReviewSystem` | UI routes and client over `Approval` | per desk `page`, `call`, `clicks`, `banner`; `inflight`, `answers` on the wire; `resets`. `Draw`, `Click`, `Guard`, `GuardUnreachable`, `Send`, `Handle`, `Lose`, `Receive`, `GiveUp`, `Raise`, `Reset` |
| `ReviewPage` | `detail` and `views.py` over `Approval` | `view`. `ReadProposal`, then `ReadInvoice` or `ReadFails`, and the ERP's own actions between them |
| `AgentLoop` | `run_agent`, the tools, the client | `messages`, `records`, `answered`, `submitted`, `nudged`, `iterations`, `stop`; `posted` are requests the client gave up on, `raised` the proposals stored. `Complete`, `CompletionFails`, `AnswerSubmit`, `AnswerOther`, `AnswerPropose`, `LateArrival` |
| `EvalGate` | `run_split`, safety gates, exit code over `Approval` | `phase`, `next`, the snapshots and listings, `cases`; `start` and `end` are history: the ERP when the cases began and ended. One action per HTTP read, `RunCase`, and the ERP's actions meanwhile |
| `Cassettes` | `Recorder`, `Replayer`, `_completion_for` | `cassette` (missing, torn or recorded), `session`, and the world that moves on: `code`, `invoice`, `documents`, `counter`. `Start` (which refuses a cassette that cannot be read, is of another version or of another invoice), `Record`, `OpenCassette` and `WriteCassette` (the save), `ProviderFails`, `SaveFails`, `Kill`, `Replay`, `Refuse`, `Edit`, `DatasetChanges` |
| `Scenarios` | injectors, expectation tables | no state. Amounts are integers: half units, cents, hundredths of a percent; `Rounded` is half-even quantizing |
| `Baseline` | the rule engine in the agent's loop | `documents`, `answered`, `view` (reads that succeeded), `reply` (what the proposal call was answered with), `proposals`, `resolution`. `ReadNext`, `Proposing`, `Submit` |
| `Rounding` | `round`, `Decimal.quantize` | no state: half-even rounding, used by `Scenarios` and `Planner` |
| `Planner` | `planner.py`, `splits.py`, what `config.py` lets through, numbering in `scenarios.py` | no state. `Valid`, `Shares`, `Buckets`, `PlanOfLabels`, `Held`, `Dev`, `Buildable`, `EntryOf` (a key entry) |
| `Dataset` | generator, ERP start and evals over the files | `config`, `files`, `writes`, `writer`, `erp`, `loaded`, `edits`. `Generate`, `OpenFile`, `FillFile`, `KillGenerator`, `EditConfig`, `EditKey`, `StartErp`, `ReadFile`, `StopErp`, `Load` |
| `Cost` | `cost_for`, `total_cost`, the report's total | no state. `CostFor`, `TotalCost`; an amount is a number or `Unpriced` |
| `Tracing` | spans of `loop.py`, both backends, flush | `loop`, `costs`, `root`, the file's `seq`, `depth`, `file`, the dashboard's `rootTrace`, `firstTrace`, `buffer`, `sent`, and `cases`. `OpenRun`, `RunRefused`, `Completion`, `ToolCall`, `RunRaises`, `CloseRun`, `Exit`, `Kill` |
| `MCApproval`, `MCReview`, `MCPage`, `MCAgent`, `MCEval`, `MCCassettes`, `MCBaseline`, `MCDataset`, `MCTracing` | - | values of the constants for TLC |
| `ApprovalProofs` | - | theorems about `Approval`, and that it implements `DocumentGate` |
| `ReviewProofs` | - | theorems about `ReviewSystem` and `ReviewPage` |
| `DatasetProofs` | - | theorems about `Planner`, `Dataset` and `Baseline` |
| `AgentProofs`, `CassettesProofs`, `EvalProofs`, `TracingProofs` | - | theorems about `AgentLoop`, `Cassettes`, `EvalGate`, `Tracing` |
| `Induction` | - | lemmas the others share: induction, recursion, sums and counting over sequences |

`PROJECT.json`, under `map`, names the source lines of every definition.

**Operators marked "a slip"** stand directly before a definition and are the
same thing with a plausible mistake in it: a dropped check, an off-by-one, a
missing reset. Nothing in the specifications uses them. They are there so that
each property can be tested: with the slip in place of the definition, TLC must
refute the property.

Choices a reader should know of:

- *Amounts are values, texts are texts.* `DecimalOf` maps a payload's text to a
  number or to `NotANumber`. "20" and "20.0" are one number and two hashes; NaN
  is a number equal to none.
- *The clock.* `applied_at` is text from the wall clock, written in UTC with one
  format, so text order is time order. Two applies never read the same time (a
  committed transaction lies between them). `ClockStepsBack` says whether the
  clock may be set back between two of them.
- *`FieldOf` and `Served`.* The code lays amendments over the document one after
  another; `Served` says what each field holds in the end. `ReadPathAgrees`
  checks the two against each other.
- *A page stays in the browser.* It can be submitted again after anything.
- *What a case of the evals does to the ERP* is `ErpStep`: an agent's proposals
  and humans' decisions are the ERP's own actions.
- *A dataset is its configuration.* The generator is deterministic (seeded
  streams), so in `Dataset` a file is the configuration it was made from and the
  number of the generator run that wrote it. The seeded shuffle is a rotation by
  the seed; the three files of master data are one file; materials and vendors
  share one count; the injected magnitude of PRICE_MAJOR stands for those of all
  labels. Weights are thousandths and the holdout's
  fraction is in percent. `ceil(n * fraction)` is computed in floating point, where
  a few products lie above the whole number they stand for (25 * 0.28 gives 8);
  `CeilsUp` is the set of these pairs, any set of them in the proofs.
- *Editing the key.* `EditKey` types something into one field (label, variant,
  detail) of one entry. Removing or adding entries, and editing `splits.json`, by hand
  are left out.
- *The save of a cassette* is two steps, as it is a plain write: opening the file
  empties it, and a process killed before it is filled leaves one that is not JSON.
- *`Load` is one step.* `load_cases` reads two files a moment apart; that a
  generator runs in that moment is left out, as it is between two lines of one file.
- *A completion or a tool call is one step of `Tracing`.* Its span opens and
  closes in it; what can interrupt it (an exception, a killed process) is an
  action of its own. The dashboard's background thread is abstracted into what
  had been sent when a process is killed: nothing or all it held.
- *The loop of `Tracing`* is that of `AgentLoop`, cut down to what opens and
  closes spans: prose and the nudge, calls, the accepted resolution, the rounds.

## 3. Runs

Passing runs.

| Run | Question | Properties |
|---|---|---|
| `approval` | Three proposals of every shape the ERP accepts on two invoices, every order of proposing, verdicts and applies with any approved or unapproved payload | `OnlyApprovedIsStored`: a stored amendment is the payload, for the invoice, whose hash the approver's verdict was recorded over. `AppliedExactlyOnce`: status and amendments agree, retries included. `NoLostUpdate`: in the order *reads* use, each amendment fits the document just before it. `ReadPathAgrees`: the overlay loop serves what `Served` defines. `VerdictIsFinal`: a verdict and what it was given on never change. `ImplementsGate`: the two tables implement `DocumentGate` |
| `review` | Two desks, two forms each, one proposal, lost and late requests and answers, one deletion of the database | `BannerIsTrue`: what a reviewer was last told still holds, whatever the other desk and late POSTs did. `ApprovedWhatWasShown`: a proposal is approved only through a page that showed its very payload. `EveryFormEnds` |
| `page` | A page of each of two proposals with applies between its two reads, and after them | `WarnedIsRefused`, `UnwarnedIsAccepted`: as long as the field still reads as drawn, warned means refused and unwarned means accepted |
| `agent` | Three rounds of up to two calls against an arbitrary model and a network that loses and delays | `TranscriptWellFormed`: each message's calls are answered, in order, before anything else, or a provider would reject the next request. `StopReasonIsEarned`. `RecordsMatchTranscript`: what the evals score is what happened. `OneProposalPerCall`. `NothingPostedAfterTheEnd`. `RunEnds` |
| `eval` | A harness run over two of three invoices, humans deciding and applying, any read failing | `GreenMeansNothingWritten`: exit code 0 means no proposal was applied and no invoice, watched or not, changed between the beginning of the cases and their end. `BlameHasACause`. `EvalEnds` |
| `cassettes` | Three sessions of runs of up to three turns that end by a resolution, a second answer in prose or the cap; two edits or regenerated datasets anywhere; a provider that fails, a save that fails, processes killed anywhere | `ReplayedAsRecorded`: answers go to the requests they were recorded for. `CassetteIsWhole`: the last turn of a cassette that can be read ended its run, and no other did. `RefusalHasACause` |
| `tracing` | Two runs in one process or two, with either, both or neither backend; a disk that refuses a line or half of one, a dashboard that refuses a span, a provider that raises, a process that is killed | `NestingRebuilds`: from order, depth and number, every line finds its run, in a file of many processes with lines missing. `NothingCompletedIsLost`. `RunsAddUp`: record and file agree on rounds, calls, cost and outcome. `NothingSpentIsMissing`: a stated total includes what a run spent before it raised. `OneTracePerRun`. `BackendsAgree`: whatever one backend does, the other has every span |
| `dataset` | Two generator runs, killed anywhere, an ERP that starts meanwhile, two edits of the configuration or of any field of a key entry, loads of every split; the further configurations are only generated from | `PlanIsExact`, `SplitsAreSound`. `KeyIsNotAhead`: no readable key is of a later writing than a document. `QuietStartServesOneWriting`: a start that follows a finished generator and overlaps none serves documents of that writing, with the key beside them. `CasesAreServed`: where the ERP serves the key's writing, an accepted case is graded by what is served, but for fields typed by hand |
| `baseline` | The rule engine on every injection, at the boundaries of the tolerances, any call failing | `NeverUnsafe`: no failure of a read makes it post or correct what a human must see. `IdealWhenRead`: rules, injectors, rounding and expectation tables agree, but for tolerated shortfalls. `RaisedUnlessItFailed`: a submitted correction was called for once, and is stored unless that call was answered with an error; nothing else is stored. `BaselineSubmits` |

`review` and `tracing` also check the type invariants of their modules. Five
invariants that are proved for every instance (section 5) are not run as well:
`TypeOK`, `AgentTypeOK`, `EvalTypeOK`, `DatasetTypeOK` and `NoFalseAlarm`.

Runs that end in a violation, each checking what the repository says against
what its code does (section 6): `approval_nonnumeric`, `eval_unread`,
`dataset_stale`.

## 4. Bounds and fairness

Every bound is a constant or a set in an MC module.

- `approval`: 3 proposals (`MaxProposals`), 10 request bodies. Three are what it
  takes for a correction, its reverse and a third one that must not slip between
  them. The bodies hold every payload type, two spellings, NaN, a text that is
  no number, an unknown line, a release of the block a rejection sets, and a
  payload that names another invoice than its proposal.
- `review`: one proposal per life of the database, two desks, two clicks each,
  one reset. Two desks are enough for a race on one row, two clicks for a retry
  after a timeout, one reset for a page that outlives its proposal's number.
  `ResetMidHandler = FALSE`: the database is not deleted between a form's guard
  and its POST (section 6).
- `page`: two proposals, one invoice, `ClockStepsBack = TRUE`: the agreement of
  page and ERP does not depend on the clock.
- `agent`: 3 rounds, 2 calls a message: all places of the nudge, two resolutions
  in one message, a last round of every kind.
- `eval`: 2 watched invoices and one unwatched, 2 proposals, 1 case.
- `cassettes`: 3 sessions (record; record or replay; replay), 3 turns, 2 invoices, 2
  changes. Three turns are what a second answer in prose before the cap takes.
- `tracing`: 2 runs of up to 2 rounds with one call each, 2 processes, 1 fault: a
  run that raises before one that does not and after it, a killed process's file
  under a later process, a refused run span with children that start. A call
  costs nothing, something or an unknown amount.
- `dataset`: 2 writings, 2 edits. One configuration is followed through writing,
  serving, editing and loading: it has a label with magnitudes, one with two
  invoices, one with variants and a golden scenario whose entry may be edited, and may become one with
  another seed, other tolerances, fewer scenarios, or one that cannot be built.
  The others have the repository's own weights (4, 7 and 25 scenarios), eight equal
  labels (4 and 5: where rounding takes more than there is), three labels of a third
  each (4: where the remainder goes to a label that is not the heaviest) two
  labels with holdouts of 1% and 99%, and 25 each of two labels with holdouts of 28%
  and 56%, where the float is above the product. Those without AMBIGUOUS have no variants.
- `baseline`: orders of 1, 2, 21, 52 and 200 units, three prices, three of the
  configured tolerances, draws at both ends of the injectors' bands, of a catalogue
  for which `CatalogueAssumption` holds; 8 turns where 6 are needed.

`CHECK_DEADLOCK FALSE` is set in all but `dataset` (where a split can always be
loaded): the bounded systems stop when their bounds are used up, and the agent,
the harness and the engine stop by design.

Safety properties use no fairness. Liveness:

- `EveryFormEnds`: weak fairness of each desk's guard, send, and receive-or-give-up.
  These are steps of the UI process alone: the blocking client has a timeout
  (`request_timeout`), so waiting ends without the ERP. Nothing is assumed of the
  network, the ERP or the reviewers.
- `RunEnds`: weak fairness of the loop. Every HTTP call has a timeout and every
  completion returns or raises. Nothing is assumed of the model's answers.
- `EvalEnds`: weak fairness of the harness, whose steps are HTTP calls that
  return or raise, and cases that end by `RunEnds`.
- `BaselineSubmits`: weak fairness of the engine's turns.

## 5. Proofs

For every value of the constants that satisfies the named assumptions, which TLC
evaluates in the runs over those modules:

| Theorem | Says |
|---|---|
| `ApprovalProofs!TypeCorrect` | `Spec => []TypeOK` |
| `ApprovalProofs!ApprovedOnly` | `Spec => []OnlyApprovedIsStored` |
| `ApprovalProofs!AppliedOnce` | `Spec => []AppliedExactlyOnce` |
| `ApprovalProofs!ReadsAgree` | `Spec => []ReadPathAgrees` |
| `ApprovalProofs!VerdictsAreFinal` | `Spec => VerdictIsFinal` |
| `ApprovalProofs!NoUpdateIsLost` | if the clock is never set back, `Spec => []NoLostUpdate` |
| `ApprovalProofs!GateIsImplemented` | if the clock is never set back, `Spec => ImplementsGate` |
| `ReviewProofs!ReviewTypes` | `ReviewSpec => []ReviewTypeOK` |
| `ReviewProofs!BannersAreTrue` | `ReviewSpec => []BannerIsTrue` |
| `ReviewProofs!ApprovedAsShown` | if the database is not deleted in mid-handler, `ReviewSpec => ApprovedWhatWasShown` |
| `ReviewProofs!WarningsAreRefused` | `PageSpec => []WarnedIsRefused` |
| `ReviewProofs!UnwarnedAreAccepted` | `PageSpec => []UnwarnedIsAccepted` |
| `AgentProofs!AgentTypes` | `AgentSpec => []AgentTypeOK` |
| `AgentProofs!TranscriptIsAccepted` | `AgentSpec => []TranscriptWellFormed` |
| `AgentProofs!CallsRaiseOnce` | `AgentSpec => []OneProposalPerCall` |
| `AgentProofs!StopsAreEarned` | `AgentSpec => []StopReasonIsEarned` |
| `AgentProofs!RecordsAreTheTranscript` | `AgentSpec => []RecordsMatchTranscript` |
| `AgentProofs!SilentAfterwards` | `AgentSpec => NothingPostedAfterTheEnd` |
| `EvalProofs!EvalTypes` | `EvalSpec => []EvalTypeOK` |
| `EvalProofs!GreenIsSafe` | `EvalSpec => []GreenMeansNothingWritten` |
| `EvalProofs!BlameIsCaused` | `EvalSpec => []BlameHasACause` |
| `CassettesProofs!CassettesAreWhole` | `CassettesSpec => []CassetteIsWhole` |
| `CassettesProofs!ReplayIsHonest` | `CassettesSpec => []ReplayedAsRecorded` |
| `CassettesProofs!RefusalsAreCaused` | `CassettesSpec => []RefusalHasACause` |
| `TracingProofs!TracingTypes` | `TracingSpec => []TracingTypeOK` |
| `TracingProofs!OneTraceEach` | `TracingSpec => []OneTracePerRun` |
| `TracingProofs!Nesting` | `TracingSpec => []NestingRebuilds` |
| `TracingProofs!NothingClosedIsLost` | `TracingSpec => []NothingCompletedIsLost` |
| `TracingProofs!AgreementOfBackends` | `TracingSpec => []BackendsAgree` |
| `TracingProofs!RecordsAddUp` | `TracingSpec => []RunsAddUp` |
| `TracingProofs!TotalsAreWhole` | `TracingSpec => []NothingSpentIsMissing` |
| `DatasetProofs!DatasetTypes` | `DatasetSpec => []DatasetTypeOK` |
| `DatasetProofs!CountsAreExact` | `DatasetSpec => []PlanIsExact` |
| `DatasetProofs!HoldoutIsStratified` | `DatasetSpec => []SplitsAreSound` |
| `DatasetProofs!KeyStaysBehind` | `DatasetSpec => []KeyIsNotAhead` |
| `DatasetProofs!QuietStartIsOfOneWriting` | `DatasetSpec => []QuietStartServesOneWriting` |
| `DatasetProofs!AcceptedIsServed` | `DatasetSpec => []CasesAreServed` |
| `DatasetProofs!AlarmIsTrue` | `DatasetSpec => []NoFalseAlarm` |
| `DatasetProofs!EngineIsSafe` | `BaselineSpec => []NeverUnsafe` |
| `DatasetProofs!EngineProposesFirst` | `BaselineSpec => []RaisedUnlessItFailed` |
| `DatasetProofs!EngineIsIdeal` | `BaselineSpec => []IdealWhenRead` |

**The approval gate.** Neither `OnlyApprovedIsStored` nor `AppliedExactlyOnce` is
inductive: that an apply stores the *approved* payload needs the row's
`approved_hash` to be the hash of the row's own payload, and that the approver
is recorded needs every APPROVED row to carry one. `RowsCoherent` states these
facts of every row, also of those no amendment belongs to yet. The inductive
invariant is

    GateInv == TypeOK /\ RowsCoherent /\ OnlyApprovedIsStored /\ AppliedExactlyOnce

A verdict touches only rows without amendment (`VerdictKeepsInv`), a proposal
appends one (`ProposeKeepsInv`), an apply adds an amendment whose payload has
the approved hash, and hashes are injective (`ApplyKeepsInv`, `HashInjective`;
injectivity is the model of SHA-256, not a fact about it). `VerdictsAreFinal`
needs only the types: each action replaces one row by one that `RowMovesOn`
allows (`ReplacementMovesOn`), or appends one.

The refinement and `NoUpdateIsLost` rest on `NewestAmends`: if an amendment is
later than all rows, serving the rows with it is one step of the overlay loop on
what was served before. With a clock never set back every apply is that case
(`ReadingIsLatest`). Each action then maps to one of `DocumentGate` (`ProposeMaps`,
`ApproveMaps`, `RejectMaps`, and the lemma for applies). With a clock that may be
set back both theorems fail, and TLC shows how (section 6), so the assumption
cannot be dropped.

`ReadsAgree` needs no such assumption. `ReadingsInv` says that two amendments never
have one clock reading, so the rows have one order; what is served is then followed
through the overlay loop, row by row: after each row, a field is what the latest
amendment so far that may write it made of it, which is what `ReadPathAgrees` says
without any loop.

**The review UI.** `ReviewInv` puts the gate's own invariant under the desks'. What
an answer or a banner claims (`Holds`) is stable, because every step of the ERP is
a `VerdictStep` (`VerdictsStand`); so a banner stays true if it was true when told,
and it was if every answer on the wire is true of the proposal its desk waits for
(`AnswersInv`). That needs a desk to have at most one request or answer under way
for its last form (`RequestsInv`), or a late answer could be taken for another
form's. `ShownInv` carries what the page showed from the guard to the ERP; it is
here that a database deleted in between breaks the argument.

The detail page is two reads with any number of the ERP's steps between and after
them. `PageInv` therefore says of the row on the page not what the proposal is, but
that the proposal `HasMovedOn` from it. Warning and refusal are then compared check
by check. `ReasonsAssumption` is what makes the page's stripping of block reasons
harmless: the reasons a document or the overlay can hold have no blanks around them.

**The agent's loop.** `AgentInv` is `PlaceInv` (where the loop is: the last
assistant message, and that exactly `answered` answers follow it), the transcript
property itself, `SitesInv` and `OneProposalPerCall`. The transcript is inductive
only with `PlaceInv`, which says that the next answer appended is that of the next
call. A call is identified by its place in the transcript; `SitesInv` says every
request sent or stored belongs to a place already dealt with, so a new call's
place is fresh and a late arrival raises at most one.

Why a run stopped is read off the transcript by counting, so `OutcomeInv` counts too:
the loop's round counter is the number of completions, prose answers are none, one
(nudged) or two (stopped), the accepted answer is the submitted one's and no later
one's, and the records are the answers, in order.

**The eval gates.** `EvalInv` relates the listings to the history: the first is of
the start, the end is later than the start (`PastOf`, transitive by
`PastIsTransitive`), the second listing is of the end or later. That applied
proposals only grow, and that documents change only when they do, is proved from
`ErpStep`. `HarnessInv` says how many readings each snapshot holds at each phase;
`BlameInv` that a reading of an invoice nothing was ever applied to shows the
invoice as it was loaded.

**Cassettes.** `TapeInv` says what a session's requests, turns and messages have
to do with each other while it records, saves and replays, that a run in progress has
not had a turn that ends it, and that a file that can be read is a finished recording. `RefusalsAreCaused` needs more: `Path(s, w, cd, d)`
is the sequence of moments (messages so far, the proposal counter) that a run
with the answers of `s` passes through in a given world, and `PathInv` says that a
recording was such a path and that a replay in an unchanged world is on it.

**The rule engine.** `EngineIsSafe` reduces to one lemma about the nine rules over
integers: every order, price and tolerance an injector may build under a label
that must be escalated is caught by a rule that fires with *any* subset of the
reads having failed. `ProposalInv` follows the one
proposal, and what its call was answered with, from call to submission.
`EngineIsIdeal` is the same for the rules when all reads succeeded: `IdealInv` and one
case per injector. Its arithmetic is rounding in two directions, a price changed by a
share of a percentage and recovered from it: half-even rounding is within half a unit
and monotone, so a draw below the tolerance stays below it and one above stays above.
One fact is not arithmetic but the catalogue's, and is assumed by name:
`CatalogueAssumption`, that the cheapest material at the narrowest tolerance has a
price variance of more than half a cent.

**Plans and splits.** What is generated is a function of the configuration, so the
invariant is small (`BuiltInv`: what is written could be built) and the work is in
the operators. Lists are counted by `Occ`, how often members of a set occur, which
adds up over concatenation (`OccConcat`), and which a shuffle leaves alone because it
is a permutation (`OccPermuted`). `CountsAreExact` follows from the sum of the
buckets: changing one number of a list changes its sum by as much (`SumChange`), so
putting the remainder on one bucket makes the sum the count, whatever the rounding
did, as long as no bucket is negative (`Fits`); that the bucket is within a scenario
of the heaviest is again the bound on rounding. `HoldoutIsStratified` rests on
`LastOnes`: of a finite set of positions, those with fewer than k later ones are k.
Of the configuration only what `GeneratorConfig` checks is assumed (`Valid`).

**Tracing.** One invariant per question, over the types (`TypeInv`). `ObsInv`: every
observation of a process is in its buffer or sent, those of the open run are in the
run's trace, and a trace is named by a span of the run it belongs to. `LinesInv`: in
the file runs follow each other, within a process by their numbers, and a run's own
line comes last of its run with the lowest number, so that order, depth and number
find it, also across a torn line and a process that starts its numbers over. `FileInv` bounds what
the file lacks: a line that was cut off *owes* the loss of the one after it, which is
why a refused line costs two. `DashboardInv` is the same for the buffer; `Delivered`
carries both past the end of a process. `SpentInv` relates the loop's counters and
costs to the lines of its run, as long as nothing was lost; sums over a file are
functions on its positions, so that appending a line adds its cost.

**The dataset's files.** `FilesInv` has the types, where the writer is
(`WriterInv`), and `KeyInv`: also a key that is cut off is not ahead of the
documents. `ErpInv` and `WritingInv` say that everything anybody has read is of
some writing, and that a writing has one configuration, however often the file
was cut and written since. `LoadedInv` keeps what an accepted load was checked
against until the next step. With `BuiltInv` (whatever is written could be built)
an unedited key of the present configuration is never called stale.
`SplitsInv` says that `splits.json`, the last file of a writing, is only there when
all the others of it are; `QuietInv` carries that from the start of the ERP over its
five reads, as long as no further generator has begun, and from then on fixes what
had been read (`QuietReads`). Both need that a generator starts from the first file;
one that went on where a killed one stopped would break them.
`CasesAreServed` excepts the fields typed by hand and no others: `load_cases` takes a
variant and a magnitude from the key as they are, and checks a label against the
generator only, not against what is served.

**Induction.** Several of these arguments are inductions over data: the rows of an
overlay, the lines of a file, the scenarios of a plan. A rule of induction whose
hypothesis is an operator cannot be instantiated by the provers; one about sets can.
`Induction` therefore states induction of a subset of Nat (`SetInduction`,
`InductionUpTo`) and recursion of functions on 0..n (`RecursionExists`,
`RecursionTypes`, `RecursionsAgree`), and the proofs apply them to the set of those n
up to which the claim holds. That is why the models write recursion as functions.

Only model-checked: liveness (`EveryFormEnds`, `RunEnds`, `EvalEnds`,
`BaselineSubmits`), which is beyond the prover. The three runs that expect a violation
have nothing to prove: they show that a claim made of the code does not hold.

## 6. Where code and words disagree

Shown by runs (`findings` in `PROJECT.json` quotes the lines):

1. `approval_nonnumeric`. The new amount of a correction may be a text that is no
   number. Nothing checks it, the overlay passes over it, the proposal becomes
   APPLIED, the reviewer reads "The invoice now reflects the correction", and the
   invoice is unchanged.
2. `eval_unread`. "Inability to check IS a failure", but an invoice that fails to
   be read before and after with the same error compares equal.
3. `dataset_stale`. "If the committed sidecar and the generator disagree ... that is
   an error": only labels are compared. After an edit of tolerances or seed that
   leaves the labels, the key's magnitudes, which proposed numbers are scored
   against, are of another configuration, and the key is accepted. So is a variant or a
   magnitude typed into `labels.json` by hand, which the check is there to refuse.

Stated in a module and refuted by TLC when added to its configuration, but not
among the runs:

- `WarningIsTrue` (`ReviewPage`, `page.cfg`). Once a correction is applied, its page
  warns that applying it will be refused, under the message that it was applied. A
  second apply is not refused: it answers ALREADY_APPLIED.
- `SchemaChangeIsNoticed` (`Cassettes`, `cassettes.cfg`). "If ... the schema has
  changed since recording, the hashes differ": the fingerprint holds names and
  descriptions of tools, not their parameter schemas.
- `ScoresPerfectly` (`Baseline`, `baseline.cfg`). A shortfall within the supplier's
  quantity tolerance (21 ordered, 20 arrived, 5%) is labelled QTY_OVER, and the
  rules that honour the tolerance do not score 100%. The price injector guards
  against just this.

Seen while modelling, each by changing one constant or stating one more formula,
or by reading:

- *Clock set back* (`repository.py:284`). With `ClockStepsBack = TRUE`,
  `NoLostUpdate` fails: two applies, the second with an earlier `applied_at`, are
  laid over the base in the wrong order and the second is undone.
- *Database deleted between guard and POST* (`app.py:198-199`). The POST carries a
  number and no hash. With `ResetMidHandler = TRUE`, `ApprovedWhatWasShown` fails.
- *"Approved. Nothing has changed yet"* (`app.py:203`) may be shown after another
  desk has applied the proposal.
- *An unwarned Apply may be refused* (`views.py:84-131`): the page does not compare
  a line that does not exist, strips block reasons and reads an empty one as no
  block; the ERP does not. `UnwarnedIsAccepted` excludes exactly these two cases.
- *`run_agent` "never raises"* (`loop.py:247`): it does when the completion does
  (`stop = "raised"`).
- *Safety gates*: a correction a human approved and applied during the run is
  reported as applied without approval (`runner.py:170`); a case that raised is
  not scanned for labels (`runner.py:120`); the loop's own validation text quotes
  a classification and counts as a leak (`safety.py:135`); a stale cassette is a
  failed case, so exit code 2 is not reached (`runner.py:118`).
- *A run that ended without a resolution is saved* (`runner.py:88-90`) like any other,
  also one that answered in prose twice: replaying it scores that failure again.
- *A cassette with a proposal in it replays once* (`runner.py:11-12`): the next
  replay's proposal has a new number, which is in the next request's hash.
- *Failed proposal* (`baseline.py:303`): the baseline counts the call, not its
  success, and submits PROPOSE_CORRECTION with no proposal stored.
  `RaisedUnlessItFailed` says that this is the only way to it.
- *"Exact counts"* (`planner.py`): half-even rounding may take more than the count.
  Five scenarios of eight equal labels round to a plan of seven, the largest bucket
  having become negative; four put a remainder of four on one label where a
  comment expects one or two. `PlanIsExact` holds wherever no bucket is negative.
  The remainder goes to the first of the largest buckets *after* rounding, which need
  not be the heaviest label's: of 4 scenarios by weights 333, 334 and 333 the first
  label gets two. `PlanIsExact` allows this of one label within a scenario of the
  heaviest, and of no other.
- *A configuration that cannot be built* raises ValueError in the evals, not
  DatasetError, so they exit with 1 where 2 is documented (`evals/cli.py:8-10,94-96`).
- *The evals never ask the ERP which dataset it serves.* A key accepted against the
  configuration may be graded against an ERP started from older documents;
  `CasesAreServed` says what holds where the two are of one writing, and
  `QuietStartServesOneWriting` when the ERP's documents are of one writing at all: an ERP
  that starts beside a generator, or after a killed one, may serve two mixed.
- *Tracing*: a dashboard whose span refuses to be *entered* ends the run, though
  "a tracing failure must never fail the run" (`tracing.py:20`); the record of a run
  whose span was refused links to the first run's trace; a torn line takes the next
  one with it; a run that raised leaves a line without outcome; a call whose usage
  is missing is priced at nothing, where "None means unpriced".
- `EXIT_ERP_DOWN` (`agent/cli.py:195-198`) is not reached: `run_agent` turns ERP
  errors into tool results.

## 7. Not modelled

- HTTP, JSON, OData and HTML as such; log and report texts.
- Signalling NaN: `Decimal("sNaN")` raises when compared, so such a request is a
  500 and changes nothing; in the model it is a request not made.
- Two ERP processes on one database: the deployment runs one (`20-erp.yaml`).
- Kubernetes' probes and restarts of a blocked UI replica (`30-review.yaml`).
- A dataset regenerated under an existing approvals database (`store.py:84`): the
  amendments would be laid over other documents. `Dataset` and `Approval` are not
  composed.
- Documents of several lines in `Scenarios` (the configuration asks for one).
- Vendors, materials and notes of the generator: seeded random texts. Domain models:
  field declarations. Prompts, settings and argument parsing. The tables of
  `report.py` other than its total cost, the queue and the templates of the UI, the
  demo: they format what other parts hold, and keep no state.

## 8. Plan

Order: the gate first, as everything else acts on it; then who acts on it (review
UI, agent), then who watches it (evals, cassettes, tracing), then the data. All of
these are done. What could follow:

1. `AgentLoop` over `Approval` and `ReviewSystem`: the agent's late POSTs against
   pages that are already open.
2. `Dataset` under `Approval`: amendments that outlive the documents they amend.
3. Over-escalation and the sums of `scoring.py` and `report.py`.

## 9. Running it

    tlc -workers 2 -config approval.cfg MCApproval
    tlapm ApprovalProofs.tla

`PROJECT.json` lists every run with its module and configuration. `tracing` is the
longest, at about two to three minutes, `approval`, `agent` and `dataset` take one
to two each, the others less than a minute. `tlapm` takes a few minutes for each of
`DatasetProofs`, `TracingProofs`, `CassettesProofs` and `AgentProofs`.
