# acsi-engine in TLA+

ACSI decides whether an AI workload may move from its current model (the
baseline) to another one (the candidate). It replays recorded prompts against
both, compares the answers, and issues a signed certificate with a verdict,
PASS or BLOCK. The promise that matters is made in `SPEC.md` and repeated in
comments throughout the code: *absence of evidence is a run failure, never a
pass*, money is spent at most once and never beyond the cap, and a killed run
resumes from what it has.

This directory holds TLA+ models of the parts of the engine that carry this
promise, the TLC runs that check them on small instances, and proofs of the
properties that matter most for all instances. Paths below are relative to
`acsi/` in the repository; line numbers per definition are in `PROJECT.json`
(`map`).

## 1. The system

### Components, their state and their operations

| component | state it keeps | operations | modelled in |
|---|---|---|---|
| call table (`replay/store.py`) | `replay.sqlite`: one row per (run, phase, key, sample), with status and cost | `get_done`, `write_done`, `write_error`, `done_calls`, `total_cost` | `CallStore`, `Checkpoint` |
| replay runner (`replay/runner.py`) | per process: one asyncio task per call, a semaphore, `BudgetTracker`, `halt_event`, `halt_exception`, counters | `replay`, `run_one`, `reserve`/`settle`, `_complete_with_retries`, `_cancel_pending` | `Replay` |
| run pipeline (`cli.py`, `baseline.py`, `replay/artifacts.py`) | the run directory: `run.json` (stages, mode), `responses.jsonl` twice, `noise_floor.json`, derived files, `cert.json` | `acsi run`, its ten stages, `acsi cert`, `acsi rebuild-cert` | `RunPipeline` |
| judging (`judge/runner.py`, `rubric.py`, `ensemble.py`) | judge rows of the call table, `judgments.jsonl` | `run_pairwise_judging`, parse retry, transient retry, reconciliation, majority | `JudgeRunner`, `Ensemble` |
| clustering (`diff/clustering.py`) | `clusters.json` | `build_regression_set`, `cluster_regressions`, `name_clusters` | `Verdict`, `Certification`; naming in `Repair` |
| certificate (`cert/build.py`, `stats.py`) | `cert.json` | `build_certificate`: outcomes, criteria A, B, C, verdict, signature | `Verdict`, `Certification`; the coverage check and the labels in `RunPipeline` |
| overrides, review server (`overrides.py`, `review.py`) | `overrides.jsonl`, `acsi.yaml`, `acsi.yaml.bak` | override, promote an example to an assertion | `Certification`, `Promotion` |
| diffs (`diff/deterministic.py`, `semantic.py`, `assertions.py`) | none | pure comparisons | inputs of `Certification` |
| judge clients, panel, calibration | none | provider calls, family exclusion | environment of `JudgeRunner` |
| capture (`capture/python.py`) | a bounded queue, a writer thread, the captured file | `write`, `close`, the loop of the thread | `Capture` |
| JSONL import (`importers/`) | `.acsi/traces/<workload>.jsonl` | `import_jsonl_paths`, `ImportAccumulator` | `Sampling`, `Production` |
| sampling (`sampling.py`) | `sampled_traces.jsonl` | dedup, strata, quotas | `Sampling`, `Production` |
| monitor (`monitor.py`) | `golden.jsonl`, `golden_manifest.json`, a call table per monitor run | `acsi monitor init`, `acsi monitor run` | `Monitor` |
| naming and patches (`diff/clustering.py`, `patch.py`) | cached calls, `clusters.json`, a call table per validated cluster | name, propose, validate | `Repair` |
| Supabase importer, schemas, config, scrub, preflight, params, routing, render, publish, scripts | none, or a file each | parsing, tables, layout | no (see 8) |

### How they interact

`acsi run` is one process that works through the stages *import-check, scrub,
sample, baseline, replay, diff, judge, cluster, verdict, cert*. It consults
`run.json` before each stage and skips it if it is marked; the two replay
stages also have to be *covered* by the call table. Baseline and replay call
the replay runner, judge and cluster call their own runners; all of them bank
answers in the same sqlite file under different phases. Each later stage reads
files that earlier ones wrote, possibly in another process, and the
certificate reads all of them. The review server runs after a certificate and
appends overrides, after which `rebuild-cert` concludes again from the files.

Around this lies the life of a workload. The service hands its traffic to the
capture wrapper, whose file is imported; the first stages of each run collapse and
sample it; `acsi monitor init` copies a suite out of a certified run, and `acsi
monitor run` replays it through the same replay runner. (`SPEC.md:144` means the
production model that is pinned; the command has a `FakeClient` answer in its
name, `cli.py:2355-2366`, and only a caller of `run_monitor` can pass another
client.) `acsi cluster` and the cluster stage name the regressions of a run and
propose patches for them, with calls cached in the table of the run.

### What is hard

* **Silence.** The capture wrapper never raises: events are dropped by a full
  queue, by a dead thread, by the end of the process, and nobody is told. The
  monitor reports calls without an answer as no drift.
* **Caches with short keys.** Names, proposals and trial answers are cached under
  the id of a cluster, which means other pairs after the next clustering.
* **Interleaving.** The tasks of the replay runner interleave at every await;
  the budget, the halt flag, the exception of the first fatal task and the
  final `gather` race each other. Handlers of the review server are threads.
* **Failure.** A provider call may be rejected, throttled, fail for the whole
  run, or answer after nobody waits for it any more; the disk may refuse a row.
* **Crash and resume.** A run directory is many files written one after the
  other. Any prefix of the writes may be what the next invocation finds.
* **Partial evidence.** Judges abstain, pairs are not selected, clusters are
  older than overrides; the verdict must be conservative about all of it.

`PROJECT.json` lists each hazard at the line where it bites, with the properties
that would notice, or the reason why none does.

### What makes each component correct

* Call table: a done row is final, its cost is counted once (`Checkpoint`).
* Replay runner: the recorded spend is bounded by the cap however calls
  interleave; the spend it counts is the total of the table; every way out of a
  call releases its reservation; what a provider can charge is bounded; a halted run
  starts nothing; a fatal stage raises; a clean return covers every call; every
  invocation ends; banked answers survive everything.
* Pipeline: a certificate covers the sample and is made of one piece; a mark
  never runs ahead of its artifact; rerunning the command certifies the run.
* Judging: a vote is what the two banked answers of its judge say; position
  bias abstains; no minority decides; judging again changes no vote.
* Certificate: a PASS rests on positive evidence for all but tolerated pairs;
  clusters and certificate agree; critical harm does not hide in clusters; a
  review can clear a run, and an override towards harm never helps.
* Review server: a promotion appends.
* Capture: what was accepted before a `close` that could be queued is in the
  file, and in order; what is accepted gets there while the thread lives.
* Sampling: the quotas add up and respect their strata; the sample stands for
  every trace that can be read from the capture.
* Monitor: a report compares the suite of one certified run with the noise floor
  of the same run.
* Naming and patches: until a run is judged again, a name was asked for about the
  members it stands for; an accepted patch fixed the cluster under this very patch.

## 2. The models

```
  Checkpoint --------- CallStore            Ensemble
      ^    (refined by)    ^                   ^  ^
      |                    |                   |  |
      +----- Replay -------+      JudgeRunner -+  +- Verdict
      +----- JudgeRunner --+                           ^
      :                                                |
  RunPipeline (uses the promise)              Certification     Promotion

  Capture ----+                 Sampling
              |                    ^
  Production -+- Monitor ----------+            Repair
```

**`CallStore`** is the sqlite table of one phase, `rows`, with `TotalCost`, the sum
that `total_cost` computes from the done rows. `WriteDone` and `WriteError` are the two
`INSERT OR REPLACE` statements. **`Checkpoint`** states what the table promises
to whoever resumes: a call becomes done once, and is final.

**`Replay`** is `replay()` over one phase, with a variable for every piece of
local state in the function. A step is what one task does between two awaits,
which is atomic because asyncio switches nowhere else: `Start` (cache look-up),
`Reserve` (semaphore, second look at `halt_event`, budget), `Dispatch` (rate
limiter), then `Answer`, `Retry`, `Reject`, `Abort` or `Fail`, one action per
way out of `run_one`; `Start` may fail as well, where the request is built or the
table read. The coroutine itself has `Join` (one turn of
`as_completed`), `Unwind` (a cancelled task) and `Finish` (`gather`, raise or
return). An exception that `replay()` does not expect leaves the coroutine at once
and lets the other tasks run on until `asyncio.run` cancels them (`Teardown`).
`Crash` keeps only the table. `billed` is a history variable: what
the provider charged, which no variable of the program knows. An attempt that the
client gave up on as a timeout may be in it too (`LatePrices`), whether it is
retried or rejected.

**`RunPipeline`** has one action per write to the run directory. An artifact is
the evidence it was computed from (which calls, each with the origin of its
answer), so that a certificate of mixed origin is visible. `Invoke` is a start
of the command; `EnterReplay`, `CallsReturn`, `BaselineManifest`,
`BaselineNoise`, `WriteResponses`, `CandidateManifest`, `Mark`, `EvidenceFloor`,
`Derive`, `IssueCert` and the two marks after it are the body of `run`;
`Abort` is its except clause, `Crash` may tear the file that is being written.
`CertCommand` and `RebuildCert` are the two commands that may run in between.
It uses the call table as `Checkpoint` promises it, without the tasks inside.

**`Ensemble`** has the pure rules of judging: `MapPositionVerdict` (letters to
outcomes, per ordering), `Reconcile` (two orderings to a vote), `MajorityOutcome`
(votes to an outcome, with the floor of the panel). **`JudgeRunner`** is
`run_pairwise_judging`: one sequential loop over pairs, judges and orderings,
flattened into items, with the nested parse and transient retries, the dispatch
budget that interrupts, and resuming from the table. `Write` puts the votes into
`judgments.jsonl` after the last item; a crash before it leaves the old file.

**`Verdict`** has the pure rules of the certificate: outcomes with overrides laid
over them, criteria A, B and C, the verdict; and those of clustering: the
regression set, every grouping that HDBSCAN's minimum cluster size allows (the
configured one, or the default that grows with the regressions), and the severity
of a bucket. The votes are counted in two places, as in the code: `PanelOutcomes`
for the certificate, `StageOutcomes` for the cluster stage. **`Certification`**
puts them in order: `Diff`, `Judge`, `Cluster` write the evidence, `Override`
appends to it. It keeps no certificate: since `build_certificate` depends on the
files alone, `Issued` is what it would conclude at any moment, and properties
about it cover the certificate of `acsi run`, of `acsi cert` and of every
`rebuild-cert`.

**`Promotion`** is `_handle_promote_assertion` under a threading server: read,
copy, truncate, dump, each a step of its own.

**`Capture`** is the wrapper inside the service: `Write` and `Close` are calls of
the service, `Open`, `Take`, `Emit` and `Die` the steps of the writer thread,
`Exit` the end of the process at any moment, and `Restart` the next process, which
appends to the same file. A failed write may leave nothing, a part or the whole of
a line, and a `close` that a full queue refused may be repeated. The state of a
process is one record, `service`; the file is its whole lines and the text after
the last newline.

**`Sampling`** has no state: `Import` (what the JSONL importer accepts of a file),
`Representatives` (the collapse of near-duplicates), `AllocateQuotas` with its
two loops as iterated steps, and `Samples`, the samples that the seed may draw.
`QuotasMeet` is the reference for the quotas.

**`Monitor`** is the two monitor commands as two processes. `ChooseSuite`,
`WriteGolden`, `WriteManifest` (or `NoCertificate`) are `init_monitor`, in the order
of its writes; `StartWatch`, `ReadGolden`, `ReplayReturns` (or `ReplayStops`) and
`Report` are `run_monitor`. `InitDies` leaves any prefix of a file. A run
directory holds what the pipeline has left there so far: `AnswerRun` and
`CertifyRun` fill it, the second also where baseline answers are missing, since
only the candidate's are checked. The table of a monitor run survives interrupts, and
`--run-id` takes it up again.

**`Production`** composes the three: an operator imports what the service
captured, samples it, certifies runs over the sample and watches the model.
Whatever capture lost or spoilt is thus an input of sampling, and the sample an
input of the suites.

**`Repair`** is one process after the judgments: `Begin` (read and cluster), `Ask`
(a call that is not cached; the answer is banked before it is read), `Read` (parse,
second attempt, or give up), `WriteClusters`, `Proposed`, and for a caller of
`validate_patch` `TryCluster` and `TryControl`. `Stop` is the dispatch budget or a
crash between any two steps; `Rejudge` gives the next invocation other
regressions. The commands themselves never validate: they report every
proposal as unaccepted, and `validate_patch` has no other caller than tests.

Modules named `MC...` give the constants values for TLC, those named `...Proofs`
hold the theorems about the module that they extend (`ProductionProofs` about
`Capture`, `Monitor` and `Production`), and `FoldLemmas` what they need about sums,
folds and orders (see 4). Definitions under the
comment *Mutant:* are faulty variants of the definition that follows; they take
part in no specification. For every property of a passing run, one of them
(listed in `PROJECT.json`) makes TLC report that property, so each is known to
notice a plausible mistake in the code it is about.

### Abstractions

* Money is a natural number. An answer costs one of `Prices`, which exceed
  `Estimate` by at most `Overrun`.
* The rate limiter, the back-off and the provider delay a step; they change
  nothing else.
* Bootstrap: criterion B accepts the regressed sets in `Tolerated`. The code
  draws the same resamples for every certificate of a run (the seed is in the
  manifest), so fewer regressed pairs never raise the bound; the model assumes
  no more than that (`ToleratedAssumption`).
* HDBSCAN is any labelling whose clusters reach the minimum size.
* A file is whole, missing or torn. `open('w')` truncates first, so a crash in a
  write leaves a torn `run.json` or a shortened `responses.jsonl`.
* A replayed answer has an origin (fake, live, historical) and no text; for the
  monitor it has a served model, whether it differs beyond noise, and the
  critical assertions it fails.
* A captured line is its event or `Broken`; a trace is its id, whether it is
  admissible, its stratum and template, and which traces it is near to.
* The quotas are computed exactly; the code takes remainders in floating point.
* The client that validates a patch gives fixed answers (`Holds`), as
  `validate_patch` requires with its `FakeClient`. Whether a pair regresses is
  judged by the pair as it was when it was tried.
* A prompt that names or patches a cluster stands for the whole cluster; the code
  quotes five signatures, or three exemplars, of it.
* Every row of `assertion_results.jsonl` has a reason, as `diff/assertions.py` gives
  one with every failure; the branch of `_bucket_from_members` for a majority
  without any is left out.

## 3. The runs

| run | instance | shows |
|---|---|---|
| `replay_budget` | 3 calls, 2 permits, cap 3, prices 1 and 2 against an estimate of 1, charged timeouts, 2 attempts, 2 invocations | `SpendBounded`, `ReservedMatchesHolding`, `CleanReturnCovers`, `SpentMatchesTable`, `BillBounded` |
| `replay_resume` | 3 calls, 2 permits, cap 2, interrupt after 2 answers, 2 invocations | `FatalNeverReturns`, `BankedFinal`, `HaltStopsReserving`, `CheckpointKept` (refinement), `InvocationEnds` (liveness) |
| `replay_duplicate` | 3 invocations, no cap, no crash, no failed write | violates `NoDuplicateSpend`, see 6 |
| `pipeline_resume` | 2 traces, 2 baseline samples, live or degraded, 3 faults | `CertCovers`, `CertWhole`, `MarkedMeansWritten`, `EventuallyCertified` (liveness) |
| `pipeline_stale_file`, `pipeline_mode_label` | 2 traces, 1 baseline sample, live, 2 faults | violate `FloorOnlyOnGap`, `RebuildKeepsMode`, see 6 |
| `judge_panel` | 1 pair, 2 judges, floor 2, 4 answers, 2 attempts, interrupt after 5 answers, 2 faults | `VotesFollowTable`, `SecondAttemptJustified`, `PositionBiasAbstains`, `DecidedByPanel`, `VotesAreStable`, `CheckpointKept` (refinement), `JudgingEnds` (liveness) |
| `certification_review` | 4 pairs, 2 judges, floor 2, clusters of 2 and more, one failed assertion of any severity, 2 overrides | `NoLuckyPass`, `ClustersMatchCertificate`, `CriticalMajorityBlocks`, `ReviewCanClear`, `HarmNeverHelps` |
| `promotion_threads` | 2 handlers | violates `PromotionAppends`, see 6 |
| `production_watch` | queue of 2, 7 events of which one repeats, one is a near-duplicate and one cannot be written, 1 restart, sample of 3 out of 4 representatives in 2 strata, 2 run directories, suite of 2, 4 answers, 2 invocations of each monitor command | `JoinedMeansWritten`, `AcceptedEventuallyWritten` (liveness), `QuotasMeetReference`, `SampleCoversCapture`, `JudgedSuiteIsSound` |
| `repair_relabel` | 3 sets of regressions over 9 pairs, clusters of 5 and 2, 2 replacements, 1 validated id, 2 invocations | `NamesFitOnce`, `AcceptedMeansFixed` |
| `repair_names` | the same | violates `NamesFit`, see 6 |

Each passing run also checks `TypeOK` (`replay_resume` leaves it to
`replay_budget`). The comment before each property says what it means.

### Why the bounds are enough

* *Replay.* With three calls and two permits there is always a call waiting
  behind the semaphore while two are in flight: the least instance in which a
  halt finds tasks at every suspension point at once. Cap 3 is reached by two
  overrunning calls with a third to refuse; cap 2 together with an interrupt
  after 2 answers makes the two kinds of halt race. An attempt that times out may
  cost as much as the dearest answer. Two invocations distinguish
  banked rows, error rows and absent rows; the third of `replay_duplicate` is
  not needed for its counterexample. `Concurrency`, `MaxAttempts`, `Estimate`,
  `Prices` and the cap are arbitrary in the proofs.
* *Pipeline.* Two traces and two samples distinguish none, some and all of a
  phase, and one trace that is short from both. Three faults allow a failed
  call, a crash while it is repaired, and a crash after that.
* *Judging.* A second pair would go through the same loop with other rows: no
  state is carried from pair to pair but the counter of dispatches, and the
  interrupt after 5 answers falls between the orderings of either judge,
  because each may need up to two answers per ordering.
  The four answers are one for each side of each boundary (equivalent, one
  letter mild, the other letter critical, unparsable).
* *Certification.* Four pairs are the least number with two clusters of two,
  or a cluster and a rest; below that everything is one bucket. One regressed
  pair is tolerated, so that the noise floor separates runs. Two overrides can
  meet on one pair or fall on two. Votes are drawn from harmless, critical and
  abstaining; the mixed outcomes (`worse_minor`, `candidate_better`) and the
  panel rules between them are in `judge_panel` and in the proofs, which have
  all five.

* *Production.* A queue of two holds an event and the sentinel, or is full when
  `close` comes; one restart lets a torn tail meet the first line of another
  process. The quotas are checked for every size from 0 to 4 of up to three
  strata and every sample up to beyond their total, which has all orders of
  full strata, single ones and remainders. The state constraint
  `CompleteCapture` follows the monitor only from captures that lost nothing and
  from samples with trace 4: all captures and samples are explored and
  checked up to the sample, and the monitor sees a sample only as a set of
  traces. Two invocations of `monitor init` over a run with and one without a
  certificate, against two of `monitor run`, give every order of the writes and
  the reads, with a table that was left by an interrupted replay.
* *Repair.* Five pairs put the threshold of four fifths between four and five.
  The second set of regressions keeps an id for other pairs, the third has no
  target for a patch; one invocation fills the caches and the next uses them.

`Certification` stops when nobody overrides any more, `Replay` when the operator
has no invocation left, `Promotion` when every request is answered, and
`Production` and `Repair` when the bounds on invocations are used up: these runs
do not check for deadlock. `RunPipeline` and `JudgeRunner` never stop (the
operator may always start the command again), and their runs do check it.

### Fairness

* `Replay`: weak fairness of the steps of each task and of the coroutine. The
  event loop runs whatever is ready and the rate limiter refills. That a provider
  call returns or raises is an assumption about the provider client: the replay
  client, unlike the judge client, sets no timeout. Nothing makes an operator
  start the command, and nothing makes it crash.
* `RunPipeline`: weak fairness of `Progress` (a step of the process) and of
  `Invoke` (an operator who runs the command again until the run is certified).
  `EventuallyCertified` is stated for behaviours without a crash, because a
  torn `run.json` ends every later invocation; failures are bounded by
  `MaxFaults`, so a call that always fails is not in it.
* `JudgeRunner`: weak fairness of `Step`; the client returns or raises.
* `Production`: weak fairness of the steps of the writer thread alone. The thread
  is scheduled while the process lives, and a write returns or raises; that the
  service captures anything, closes the writer or stays alive is not assumed.

Liveness is checked by TLC only; the prover has no means for it.

## 4. What is proved

Every invariant, every action property and both refinements that a passing run
checks are theorems: they hold for all values of the constants that meet the
named assumptions of the modules, and so for any number of calls, pairs, judges,
events, runs and invocations. TLC checked each formula, and each inductive
invariant with a new idea in it, before it was proved. What remains with TLC is
liveness.

| module | theorems about | for every value of |
|---|---|---|
| `ReplayProofs` | `Replay`, `CallStore` | any finite set of calls, concurrency, cap, prices, attempts, invocations |
| `RunPipelineProofs` | `RunPipeline` | any sample, any `K`, any number of faults |
| `JudgeRunnerProofs` | `JudgeRunner`, `Ensemble` | any number of pairs, judges, attempts, faults |
| `CertificationProofs` | `Certification`, `Verdict` | any pairs, panel, floor, assertions, grouping, overrides |
| `SamplingProofs` | `Sampling` | any records, nearness, strata and sample size |
| `ProductionProofs` | `Capture`, `Monitor`, `Production` | any traffic, queue, restarts, run directories, suites, answers |
| `RepairProofs` | `Repair` | any pairs, clusterings, replacements, interruptions |
| `FoldLemmas` | nothing of the engine | sums over sets, folds as runs of a loop, ranks of an order |

### The replay runner (`ReplayProofs`)

From `CallsAssumption`, `ConfigAssumption` and `PriceAssumption`:

* `TypeCorrect`: `TypeOK` with `FreshInv`. `TypeOK` alone is not inductive: an
  attempt counter stays in range only because it is reset wherever the task
  leaves the call, which `FreshInv` records; it also says that a task beyond its
  cache look-up works on a call that is not done.
* `BudgetInvariant`, and from it `SpendIsBounded` and `ReservationsMatch`. The
  bound on the spend is not inductive: one answer may overrun. The invariant
  charges every permit in use with a reservation and an overrun, `spent +
  reserved + Overrun * (permits in use) <= MaxCost + Overrun * Concurrency`, and ties
  `reserved` to the calls behind the semaphore by their cardinality, so that a
  step that takes or returns a permit moves both sides by the same amount.
* `BankedIsFinal` and `ReplayImplementsCheckpoint`, both from `FreshInv`: only a
  call that is not done can be written. The second is the refinement: every
  step is a step of `Checkpoint` on the table or leaves it alone.
* `SpentIsTotal` (`SpentMatchesTable`), inductive with `TypeOK`: each way out of a
  call adds to `spent` what it adds to the table. A write replaces a row that
  accounts for nothing (`RowWrites`), so it moves the sum by the price of the new
  row (`RowAddsItsCost`, from `SumPoint` of `FoldLemmas`).
* `BillIsBounded` (`BillBounded`), from `BillInvariant`: what a call was charged is at
  most the dearest price times the attempts made, over all invocations, and a task
  in flight has not been charged for its present attempt yet (`TriesCount`,
  `BillGrows`).
* `FatalIsRaised` (`FatalNeverReturns`), from `RaisedInv` (a raised task implies a
  `halt_exception`, and a return implies that there is none).
* `CleanReturnIsComplete` (`CleanReturnCovers`), from `EndInv`: while tasks run and the
  run is not halted, a task that returned has left a row; a failed task cannot be
  joined without ending the loop (`JoinedInv`).
* `HaltIsEffective` (`HaltStopsReserving`): the second look at `halt_event`,
  behind the semaphore, suffices.

### The pipeline (`RunPipelineProofs`)

* `TypeCorrect`.
* `CertificatesCover` (`CertCovers`) and `MarksAreEarned` (`MarkedMeansWritten`),
  from `CoverInv`: no stage behind the evidence floor is entered unless the
  floor holds of the files, and an artifact precedes its mark. Nothing is asked of
  the operator, who may change the options at each invocation.
* `CertificateIsWhole` (`CertWhole`), from `WholeInv`, *for an operator who repeats
  the command* (`~Switching`). The response files and the noise floor lag behind
  the table but never contradict it, a finished table no longer changes, and so
  everything derived from it is derived from the same evidence. The hypothesis is
  needed: with `Switching`, a run that was started with `--degraded`, stopped after
  its diff stage and resumed without the option reopens the baseline for the
  missing samples, and skips the diff stage because it is marked. TLC
  finds a certificate with diffs of other responses than its judgments.
  `pipeline_resume` has `Switching = FALSE` for this reason.

### Judging (`JudgeRunnerProofs`)

From `JudgeAssumption`. The invariant relates the place of the process in the
three flattened loops, the call table, the votes in memory and the written
judgments. Its centre is `Banked(n)`, what the table says of item `n`, which never
changes once it is an outcome (`BankedStable`): a vote computed in one invocation
is the vote that a later one computes.

* `TypeCorrect`, `RetriesJustified` (`SecondAttemptJustified`), `JudgmentsFollowTable`
  (`VotesFollowTable`), `VotesStable` (`VotesAreStable`).
* `BiasAbstains` (`PositionBiasAbstains`): the two orderings of an answer that
  prefers one position map to opposite sides of harm, over which `Reconcile`
  abstains.
* `PanelDecides` (`DecidedByPanel`), from the majority rule over any panel.
* `JudgingImplementsCheckpoint`: the refinement, as for the replay runner.

### The certificate (`CertificationProofs`)

For every set of pairs, panel, floor, set of assertions, cluster size and
tolerated family that meets the assumptions of `Verdict`, and every sequence of
overrides. The invariant is `TypeOK`, `ClusterInv` (the clusters are a partition
of the regressions as the cluster stage saw them) and `Indexed` (an overridden pair has
a last override, which makes the `CHOOSE` in `Last` mean what it says).

* `TypeCorrect`, `ClustersAgree` (`ClustersMatchCertificate`): the two ways of counting
  the votes differ on unjudged pairs only, which regress in neither
  (`StageMatchesPanel`).
* `PassIsEarned` (`NoLuckyPass`): a PASS gives a tolerated regressed set; a pair
  whose final outcome is harmless has either a last human label that says so or
  enough votes and no harmful one (`PanelHarmless`, by cases of the majority
  rule); so the pairs without such evidence are among the regressed ones, and
  `Tolerated` is closed under subsets.
* `ReviewClears` (`ReviewCanClear`): when every judged pair is cleared no pair of
  any cluster is active, because a cluster of a run without failed assertions
  holds judged pairs only (`ClusterInv`).
* `HarmCannotHelp` (`HarmNeverHelps`): an override changes one outcome
  (`OverrideEffect`, from what an appended row does to the last index of each
  pair); if that outcome gets no milder, regressed and critical pairs only
  grow; each criterion is monotone in them (`VerdictMonotone`).
* `MajorityBlocks` (`CriticalMajorityBlocks`), from `GroupedInv` (the clusters are
  those of some grouping of the regressions). If most regressions are critical,
  some bucket has a critical majority (`HalvesAddUp`, a pigeonhole over the
  partition); either way of naming calls it `worse_critical`
  (`CriticalMajorityNames`: as the dominant outcome, or as the highest rank); and
  one critical pair is more than 1% of a sample under 100.

### Import and sampling (`SamplingProofs`)

These are theorems about operators, for every input that `SamplingAssumption`
allows.

* `ImportKeepsEachOnce`: what the importer keeps are the admissible traces of the
  file, each once.
* `RepresentativesCover`: no two representatives are near each other, and each
  record is near one of them.
* `QuotasAreMet`: `_allocate_quotas` meets its reference `QuotasMeet` for any finite
  family of strata and any size. Both loops make progress (in each turn some
  stratum still has room, or can give): the number of turns that the model
  allows is never used up before the sum is right, so that the `while` loops of
  the code end too, and each stratum with traces keeps one while there is room.
* `SamplesStandFor`: any sample that the seed may draw is part of the representatives,
  has the size asked for (or all of them), and holds a trace of each stratum unless
  there are more strata than places.

### Capture, monitor and their composition (`ProductionProofs`)

From the assumptions of `Capture`, `Sampling` and `Monitor`.

* `JoinIsAPromise` (`JoinedMeansWritten`), from `CaptureInv`: while the thread is at
  work, the lines of the process, the event in its hand and the head of the queue
  are together what was accepted, in order; the sentinel stands behind them, so
  that a thread that has taken it has written everything. The text of a dead
  process before these lines is no part of the argument.
* `SampleStandsForCapture` (`SampleCoversCapture`) and `ReferenceIsMet`
  (`QuotasMeetReference`) apply the theorems of `SamplingProofs` to the file.
* `SuiteIsChosen`: `_select_suite` takes every failing trace, has the size that was
  configured where that is possible, repeats nothing, and leaves out no template
  of the sample while there is room.
* `MonitorInvariant`, and from it `JudgedAsPromised` (`JudgedSuiteIsSound`).
  `PairsInv` follows the suite through the two files, the two processes and any
  interleaving of their steps: what an init holds, what it has written, what a
  manifest that belongs to it stands beside, and what a reader that was not
  disturbed has read, is promised of one and the same run.
* `TypeCorrect` (`Production`'s `TypeOK`, all files and processes together).

### Naming and patches (`RepairProofs`)

From `RepairAssumption`. `RepairInvariant` says that rows of the two call tables
are never replaced; that the proposal of a cluster id is therefore a function of
the table (`Final`), the same for every process that has got past it (`FoundInv`);
and that every answer of a validation, in whatever half finished attempt, was
given under this proposal (`TrialInv`).

* `TypeCorrect`, `NamesAreAskedFor` (`NamesFitOnce`), `AcceptanceIsEarned`
  (`AcceptedMeansFixed`).

### Folds, sums and orders (`FoldLemmas`)

The induction theorems of the library take the predicate as a parameter, which the
provers here cannot instantiate. `FoldLemmas` states induction for *sets* instead
(`LeastNumber`, `InductionUpTo`, `SubsetInduction`: a set of numbers, or of
subsets, that is closed under the step has them all), from the well-foundedness of
the naturals, and derives what the other modules use: a fold over a sequence is
a run of a loop (`FoldRun`), and there is only one (`RunIsUnique`); `SumFunction` is
monotone (`SumLeq`), blind to zeros (`SumOnSupport`), and changes by the
difference when one term does (`SumPoint`); the ranks of a strict order number a
finite set (`RanksAreABijection`).

### Checked but not proved

* Liveness, with its fairness: `InvocationEnds`, `EventuallyCertified`, `JudgingEnds`
  and `AcceptedEventuallyWritten`. The temporal prover has no means for
  `ENABLED`, which weak fairness stands on.
* Sorting: the provers know nothing of `SortSeq`. `Monitor` therefore sorts by rank
  (`Sorted`), which is also what TLC evaluates.
* The five violations of section 6 are counterexamples of TLC.
* `Promotion` violates the one property that its source states, and has no theorem.

## 5. Reading the results

A passing run says that no behaviour of the instance violates the property, and
says nothing about the code that the model abstracts from (2). In particular:
nothing is said about what a judge ought to answer, about the width of a
confidence interval, or about prices that `litellm` reports wrongly.

## 6. Disagreements between the code and its documents

Each is a run that TLC ends with a counterexample; `PROJECT.json` quotes the
sentence that it contradicts.

* `replay_duplicate`. An interrupt or abort cancels the tasks of other calls,
  but their provider call goes on in its thread, is charged, and is asked for
  again on resume: not "zero duplicate spend".
* `pipeline_stale_file`. A finished replay stage is reopened because calls are
  missing; they are banked; the process dies before `responses.jsonl` is
  rewritten. From then on the stage looks finished and covered, is skipped, and
  the evidence floor refuses the old file on every invocation, although the
  comment says that the floor fires only if a gap persists.
* `pipeline_mode_label`. Reopening the baseline of a live run rewrites `run.json`
  with the default `client_mode` of fake; `rebuild-cert` trusts it.
* `repair_names`. A name is cached under the run, the id of the cluster and the
  attempt; the hash of the prompt is stored with it and never compared. After
  `acsi judge` and `acsi cluster`, another set of regressions is `cluster-0` and
  carries the name that the first one was given. `NamesFitOnce`, that this
  cannot happen before the run is judged again, holds and is proved.
* `promotion_threads`. A promotion that reads the manifest while another one has
  truncated it writes back a manifest without its settings; two promotions
  that read the same manifest keep one assertion.

### Weaker than one might think

No run refutes these; the models show them, and the properties are stated so
that they hold beside them.

* `acsi cert` between the replay and the judge stage finds no judgments, counts no
  pair as regressed and issues a certificate (`CertCommand`), although
  `cli.py:519` says that absence of evidence is never a pass. The floor that the
  comment is about is a function of `acsi run`.
* `acsi monitor run` exits with 0 after a replay in which calls failed or the
  budget ran out, and with 0 if no call was answered (`ReplayReturns`, `Report`);
  `README.md:143` of the repository says that a fail-closed evidence floor holds
  throughout, and spells it out for judge verdicts. No property is stated of a
  quiet exit.
* `acsi monitor run` always replays with a `FakeClient`, which names the pinned model
  as its own: what the command reports is no statement about the model in
  production that `SPEC.md:144` has in mind.
* An assertion regresses by its id: one that some baseline answer of the suite
  fails already cannot be reported (`AssertionRegressed`).
* A monitor run under the `--run-id` of an earlier one reports the banked
  answers, however old.
* `golden.jsonl` is replaced before `init` finds out that the run has no
  certificate; the manifest keeps the noise floor of the run before.
  `JudgedSuiteIsSound` holds only while no init has failed in between.
* A suite takes the traces with a row in `assertion_results.jsonl`, which has rows
  for failed assertions only; and their templates do not count as seen.
* `close()` of the capture wrapper on a full queue drops its sentinel and returns
  at once; an event that cannot be serialised ends the thread, and later
  events are accepted into the queue and lost.
* The call that `README.md:57` shows passes a string for the path; the thread asks it
  for its `parent`, dies before it has opened the file (`Open`), and nothing is
  ever captured.
* The payload that `README.md:58` captures has none of the fields that the JSONL
  importer requires: every such line is excluded as `invalid_schema`.
* The loop that hands out what is left of a sample starts again from the same
  stratum after each step: three strata of 10 share a sample of 8 as 4, 2, 2.
  `SPEC.md:131` promises a sample weighted by frequency; `QuotasMeet` asks for no
  more than the sum, the sizes, and one trace for each stratum.
* Cached proposals leave out the prompt as cached names do: after other judgments a
  cluster may carry the proposal of other pairs, to be validated on
  the cluster as it is then.
* `validate_patch` does not look at `parse_failure`: a proposal that stands for the
  unchanged target may be accepted, if the pairs happen not to regress again.
  Its control may be smaller than the cluster, or empty, where `SPEC.md:139` has
  one of the same size. A call without an answer ends it with a `KeyError`.

## 7. Plan

Done, in this order: call table and replay runner with their proofs; the
pipeline; judging; the certificate with its proofs; promotion; capture, import,
sampling and monitor, and their composition; naming and patches; then the proofs
of every invariant, action property and refinement that a run checks.

To come:

1. Proofs: that `EvidenceFloor` is the only way out of the replay stages for
   runs with `Switching` (the part of `CertWhole` that survives a change of
   options); that `Ensemble`'s rules are symmetric in the judges and in the
   orderings; the bounds of `Repair`'s calls and of the attempts of
   `JudgeRunner` per item, which liveness rests on; a variant for each of the four
   liveness properties, as action properties that can be proved.
2. `TokenBucket` below `Replay`: requests larger than a minute's capacity.
3. `RunPipeline`: two processes over one run directory; the standalone stage
   commands.

## 8. Not modelled

Schemas, configuration, scrubbing, preflight and the Supabase importer, parameter
tables and routing, report rendering and publishing, signatures, embeddings and
statistics keep no state between calls, or are arithmetic that a model checker
does not reach. The comparisons of texts (`diff/`) are inputs.
An attempt that timed out and was charged counts in `billed`, and in no property of
the code's own totals, because the code cannot know of it.
Only one import of a captured file is modelled, after the service has ended;
`Capture` allows no `close` after one that queued its sentinel. Classifier
assertions (`run_classifier_assertion`) are called by no command. The benchmark
scripts are not part of the engine. Two commands over the same run directory at
once, a manifest that changes between invocations, and the choice of the run to
resume among several are not modelled.
