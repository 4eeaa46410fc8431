# A TLA+ development of copilot-eval

copilot-eval (`src/eval/`) runs a coding agent over a matrix of *cells* - task x
variant x epoch x fixture - inside containers, keeps one results directory per run, and
compares the variants afterwards. What it measures costs money and time, so most of its
difficult code is about not doing things twice, not losing what was done, and never passing
off one thing as another: resuming, caching, replaying, retrying, content-addressed
fixtures. That code is what is modelled here: as TLA+ modules checked by TLC on small
instances, and proved with TLAPS for all instances, but for liveness.

Paths below are relative to the repository root `src/`, so `eval/runner.py` is
`src/eval/runner.py`.

- [1. The system](#1-the-system)
- [2. Modules](#2-modules)
- [3. What is checked](#3-what-is-checked)
- [4. Bounds and fairness](#4-bounds-and-fairness)
- [5. What is proved](#5-what-is-proved)
- [6. Disagreements found](#6-disagreements-found)
- [7. What is not modelled](#7-what-is-not-modelled)
- [8. Plan](#8-plan)

## 1. The system

    copilot-eval run      run_command                                    eval/services/orchestrator.py
                            |- resume: scan results.json                 eval/services/resume_service.py
                            |- fixtures: verify, fetch, hash             eval/services/fixtures_service.py
                            |- cache: look up hits                       eval/services/cache_service.py
                            |- _execute_schedule: a thread pool          eval/services/orchestrator.py
                            |     `- _safe_run_one -> run_one, per cell  eval/runner.py
                            |           `- a backend                     eval/runners/{docker_cli,replay}_runner.py
                            |- cache: store fresh completed results      eval/services/cache_service.py
                            `- write the manifest results.json           eval/services/manifest.py
    copilot-eval analyze  run_analysis                                   eval/services/analyze_service.py
                            |- collect traces                            eval/services/trace_service.py, eval/collectors/
                            |- judge: a second thread pool               eval/services/judge_service.py, eval/judge_executor.py
                            |- metrics, report, baseline                 eval/services/metrics_service.py, eval/report.py

Processes communicate through the file system only, and there is not a single lock file in
the code base: two `run`s, or a `run` and an `analyze`, may share a results directory, the
result cache and the fixture cache at any time.

| Component | State it keeps | Operations | Interacts with | What is hard | What makes it correct |
|---|---|---|---|---|---|
| Run orchestration and resume | `results/<run>/results.json`: rows, `replayed` marker, fixture hashes | fresh run, `--resume`, `--task`, `--cache`, abort, kill, write | schedule (call), cache (call), fixtures (call), other invocations (shared files) | the manifest is scanned at the start, replaced at the end, and part of it re-read then; written in place; only written after the whole batch | nothing completed is executed again or lost; every cell asked for has a row; synthetic rows are marked; the audit record names what was consumed |
| Schedule | futures of a thread pool, rows collected | submit, take, run, collect, fail, interrupt, shut down | cell execution (call), progress reporter (callback) | completion order; a reporter that raises in a worker; Ctrl-C with a full queue | a cell at most once, one row of each or an exception, promised order and index, nothing left running, an end |
| Cell execution | log, workspace, outputs, scores, trace of one cell | hooks, health check, workspace, container, persist, evaluate, retry, clean-up | backend (call), subprocesses | early returns, five families of exceptions that evaluators can raise as well as containers, retries, a `finally` that can fail, re-execution into the same directory | truthful status, no container charged twice without a reason, complete clean-up, retries end |
| Run cache | `<cache_dir>/<key>/{artifacts,result.json,meta.json}` | key, look up, materialize, store | run directories (copies) | no lock, no rename: artifacts are copied over what is there, `result.json` last | a hit is whole, verbatim, of the same inputs, and frozen |
| Remote fixtures | `blobs/<sha256>`, `extracted/<sha256>` | check, download, verify, publish, extract | HTTP server, other processes | racing processes, kills, a server that lies | fail closed: what is returned was verified; published entries are never touched; nothing left behind |
| Fixture lock | `fixtures.lock`, written in place | pin, hash, load, verify, `--strict-fixtures` | orchestration, users who edit fixtures | a pin killed half-way leaves a file that may still parse; cells copy fixtures long after they were hashed; ignored and linked paths | cells run on what was pinned and on what is recorded |
| Judge scoring | `<slug>.scores.json`, shared with the cell's execution and with `analyze`'s metric scores | read what is there, call, sample, aggregate, merge, write | language model (a process per call), other analyses, executions | a pool of judges; a file is read, minutes pass, the whole file is written back in place; Ctrl-C while the pool drains | no judge is paid twice; a cell is judged as a whole; writers leave each other's scores alone |
| Traces and collectors | trace files or Jaeger; nothing of its own | load, poll until ingested, match to cells | OTLP back end | traces of re-executed cells, partial ingestion, missing tags | full coverage means the execution that is recorded was seen |
| Analyze and metric gates | report files, exit status | load the manifest, fetch, gate, check `--min-epochs`, conclude | traces, manifests that `run` is replacing | order of the steps, empty inputs, retries | a gate that saw nothing does not pass |
| Report statistics | none (pure) | sample sizes, pairing, reliability, pass@k, corrections, attribution of scores files | - | ties, first failing rank, missing epochs, names that are prefixes of names | equal to their definitions; sizes add up; a score is shown where it belongs |
| Baselines | one file per name | save, delete, compare | runs that are executed and resumed meanwhile | traces are read first, the `replayed` marker later; the result cache carries traces from run to run | no synthetic number in a baseline, or compared without a banner; the regression gate fails closed |
| Configuration, evaluators, image build, cost, CLI, rendering, suggestions | none that outlives a command | parse, validate, compare, print | - | - | - |

`PROJECT.json` lists every component with its files, and every hazard at the line where it
bites.

## 2. Modules

| Module | Models | Abstracts |
|---|---|---|
| `RunLedger` | what resuming promises, mechanism left out: completed rows are only added to a run, or all lost with a torn manifest | - |
| `EvalRun` | `run_command` as invocations over shared run directories | a cell's execution is one step with a nondeterministic status; every key input but the fixture hash is constant |
| `Batch` | what executing a batch promises: each cell at most once, then one row of each, or an exception, or it is abandoned | - |
| `Schedule` | `_execute_schedule`: three strategies, the pool, collection, failing reporters, Ctrl-C once and twice | a cell is begun and ended |
| `RunOne` | `run_one` behind `_safe_run_one`: stages, exceptions, retries, `finally`, re-execution | what hooks, containers and evaluators compute is a nondeterministic outcome; a log is masked or not, and decodes or not |
| `RunCache` | the files of one cache key and of the run directories, copied one by one by processes that die | file contents are who wrote them and whether they are whole |
| `FixtureCache` | `ensure_remote_blob` and `ensure_remote_fixture` by concurrent processes | bytes are a payload with a digest; extraction has a begin and an end |
| `FixtureLock` | `pin-fixtures`, and `run` from verifying fixtures to copying them into workspaces, with edits at any time | a directory is a function from paths to contents; a hash is the set of its `<<path, content>>` pairs |
| `JudgeTable` | what judge scoring promises: a cell is judged as a whole or forgotten as a whole | - |
| `ScoresFile` | the scores file of a cell and the merges its three writers make | a score is the number of the execution it describes |
| `JudgeScoring` | `_run_metric_evaluators` and `_run_judges` by several analyses, beside executions | a call is one step that succeeds or fails |
| `JudgeSamples` | what `JudgeExecutor` makes of the answers of the model: single, batched, sampled, aggregated | an answer says a score, nothing, or garbage about each judge |
| `Analyze` | `run_analysis` from the manifest to the exit status, beside a run that is resumed, for both collectors | what a trace yields is `pass`, `fail` or `opaque` |
| `Telemetry` | `extract_metrics`, `metric_value`, `eval_metric` on one trace | numbers are small naturals |
| `Baselines` | `baseline save`, `delete` and `analyze --baseline` beside runs that share a result cache | one metric, with levels instead of numbers |
| `Corrections` | Holm and Benjamini-Hochberg, and the markers of rows | p-values in units of which `Alpha` make 0.05 |
| `SampleSizes` | sizes, pairs, fresh and reused samples, reliability classes, pass@k | - |
| `Slugs` | file names of results and their parsing | a name is a sequence of words, of which some are the marks of the epoch and of the fixture |
| `Report` | each of these steps on every small input; extends `Corrections`, `JudgeSamples`, `Slugs`, `SampleSizes`, `Telemetry` | - |
| `EvalRun_proofs`, `Execution_proofs` (`RunOne` and `Schedule`), `Fixtures_proofs` (`FixtureCache` and `FixtureLock`), `RunCache_proofs`, `JudgeScoring_proofs`, `Analyze_proofs`, `Report_proofs` (`Report` and its parts), `Baselines_proofs` | the theorems | |
| `MC_*` | instances for TLC | |

The modules fit together by what one treats as a step that another opens: `EvalRun.RunCell`
is a cell of `Schedule`, `Schedule.BeginCell`..`EndCell` is an execution of `RunOne`, and the
atomic `ResolveCache` and `StoreResults` of `EvalRun` are the copying of `RunCache`; the
fixture content a row of `EvalRun` ran on is what `FixtureLock` copies. On the other side,
`JudgeScoring.Call` is a call of `JudgeSamples`, the kinds of trace of `Analyze` are outcomes
of `Telemetry`, and the comparison of `Baselines` is a step of `Analyze`.
`EvalRun` refines `RunLedger`, `Schedule` refines `Batch`, and `JudgeScoring` refines
`JudgeTable` in the formal sense: the abstract specification is a property of the detailed
one under a refinement mapping.

### EvalRun

| State | Code |
|---|---|
| `manifest[r]` | what reading `results/<r>/results.json` yields; absent, torn and unreadable are the same (`resume_service._load_manifest`) |
| `cache[c][h]` | `result.json` under the key of cell `c` computed with fixture hash `h`; `NoHash` is `fixture_sha256 = None` |
| `content[t]` | the fixture directory of task `t` on disk |
| `plan[i]` | locals of `run_command` fixed at the start: run id, backend, `--cache`, `--resume`, `--task`, fixture hashes, the rows scanned |
| `hits[i]`, `keyed[i]`, `results[i]` | `cache_hits`, `cache_keys`, and the rows of the batch |

| Action | Code |
|---|---|
| `StartFresh`, `StartResume` | `run_command` to the point where work begins, with `load_manifest_index` and `_verify_fixtures_or_abort` |
| `Abort` | each early return and abort before the batch |
| `ResolveCache` | `resolve_cache_hits`; a cell whose image digest cannot be resolved gets no key |
| `RunCell` | one row of `_safe_run_one` |
| `StoreResults` | `store_fresh_results` |
| `WriteManifest`, `FailWrite` | `merge_manifest_runs`, the carry-over of marker and hashes, `write_manifest` and its `OSError` |
| `Kill`, `EditFixture` | the environment |

A row carries three things the code does not write into it - which invocation executed it,
what fixture content it ran on, and whether the replay backend made it - so that properties
can say what a manifest or cache hit *means* rather than what it contains.

### Schedule

`jobs` are the futures, each with the places of the matrix it has left, `begun`/`ended` the cells,
`results` the list the main thread extends, `main` where it is. `Cut` is how a strategy turns the
filtered matrix into jobs, with `order_index`. `Take` is a worker of the pool;
`BeginCell`, `EndCell` and `Skip`, which counts a skipped cell without running it, are the loop
body of `_run_task_serial`; `Collect`/`CollectFailure` the `as_completed` loop, `Raise` leaving the
`with` block through `shutdown(wait=True)`. `Abandon` is a second Ctrl-C in that very wait: the
exception gets out while the threads go on taking what is queued, so that `Take` and what follows
it stay enabled until the end of the process, which joins them. In serial mode the single job runs on the main
thread, so `Interrupt` ends it; in the pool modes it does not, and what is queued is executed
before the exception gets out. One interleaving the model has and the serial code has not -
`Interrupt` between the end of the single job and its collection - is harmless: the outcome
is the same. `Init`, `Next` and so on are called `ScheduleInit`, `ScheduleNext` there, so that
the proofs can be read next to those of `RunOne`.

### RunOne

`pc` walks the stages of a try in code order; each stage may log, fail as an `EvalError`, or
raise something else (`escaped`). `artifacts` is `container_completed` with the exit code,
`exits` the containers the execution saw through and `ends` how the work on each of them ended.
`Retry`, `GiveUpDocker`, `GiveUpTimeout`, `EvalErrorReturn` are the four `except` clauses, `Isolate`
that of `_safe_run_one`. `EvaluateFails` takes any of them: evaluators written in Python run within
the same `try`, so what they raise is caught by the clause it fits.

`workdirs` and `raw` are what the `finally` has to remove and mask. `CleanUp` may leave either: the
removal ignores errors, masking swallows `OSError`, and a log with bytes that do not decode
(`garbled`) makes masking raise in place of whatever the cell was about to return. `faults` notes
the executions whose clean-up did not do all its work. `Kill` is the end of the process, and
`Interrupted` is Ctrl-C in the serial strategy: neither leaves a row, the second cleans up.

### RunCache

`entry` and `dirs` map an artifact slot to *fragments* `<<execution, whole?>>`: copying a
slot passes through a half-copied state; a file is replaced, the `outputs` directory merged
(`copytree(dirs_exist_ok=True)`); `result` is `result.json`, truncated and then written.
`todo` is the artifact list, which the code takes once, before it copies, as the places in it that
are still to be copied.

### FixtureCache

`pc` follows `ensure_remote_fixture`: entry complete? blob there? download, compare,
temporary file, atomic replace, extraction into a temporary directory with the marker last,
rename. A rename onto an existing directory fails; the loser returns the winner's entry if
that is complete, and raises otherwise.

### FixtureLock

`LockInit`, `LockNext` and `LockSpec` are the specification. `pin` is what `pin_fixtures` has
collected: `PinOne` hashes a fixture, `OpenLock` truncates the
file, `WriteLock` fills it, and `KillPin` between the two leaves it empty, unreadable, or with
some of its entries. `run` goes through `Load` (`load_lockfile`), `HashOne`
(`verify_fixtures`, one fixture at a time), `Decide` (`_verify_fixtures_or_abort`), `Copy` (a cell
makes its workspace) and `Finish`. Entries carry the files they were made from, and `touched` the
fixtures edited after they were hashed; neither is in the code, both are there for the property.

### JudgeScoring

| State | Code |
|---|---|
| `file[c]` | `<slug>.scores.json`: which execution its inline, metric and judge scores are of |
| `exec[c]`, `trace[c]` | executions of the cell, and the one its trace file is from |
| `ctx[a][c]` | an entry of `contexts` in `_run_judges`: what was read, what is pending, how many answers are missing |
| `queued[a]`, `answered[a]` | futures, by whether the main thread has taken them in |
| `forced`, `races` | `--re-eval`; how often an analysis met another one or an execution |

`Start` is `_run_metric_evaluators` for all cells, `Collect` the loop that builds contexts and
work items (one per judge, or one per cell in batch mode), `Call` a worker of the pool, `TakeIn`
the body of the `as_completed` loop with the write when the last judge of a cell is in, `Finish`
the end of it. `Interrupt` is Ctrl-C: the main thread takes nothing in any more, and waits for
calls that run (`draining`, `CallInVain`, `Drained`). `Kill` may tear the one file that is being
written. `Execute` is a resumed run.

### Analyze

`rows` is the manifest, `todo`/`done` a resume under way; `Execute` replaces the trace file of a
cell or exports a trace, and `Record` writes the manifest. `Load`, `Fetch` (`load_traces` with its
retries, one attempt per step; `Ingest` happens in between), `ReadFiles`, `Gate`
(`_run_metric_evaluators` and the coverage line), `Conclude` (`--min-epochs`, `--allow-empty`, the
exit status) are the analysis. When several traces of one cell come in, the one that is used is any
of them (`Firsts`): the order is that of the back end.

### Baselines

`inv` is the one `run` at a time: `Launch` takes over what is complete and copies the traces of
cache hits, `Execute` leaves traces one by one, and `Record` stores what is fresh and writes the
manifest (`KillRun` at any time, also while entries are stored or the manifest is rewritten). `cache`
is one result cache with the trace file of each entry; since its keys do not contain the backend, a
hit brings traces of either. `BeginSave` reads the traces, `DecideSave` the marker, `WriteSnapshot`
the file (`KillSave` tears it); `BeginAnalyze` and `Compare` are `analyze --baseline`, with and without
`--allow-empty`. `unmarked` collects the runs about which no command could know: those whose synthetic
traces were left, or looked at, before a manifest said so, or came from the cache under docker.

### Report and its parts

A state of `Report` is a step, what went in and what came out. Inputs grow by one answer, name,
cell, attempt, row or chat span per transition, so that every input within the bounds is a
reachable state, and a property relates the result to a definition that is not the algorithm:
`Holm` is the loop of the code and `ClosedTesting` the statistical definition,
`BenjaminiHochberg` the loop and `UpToThreshold` the threshold. `Sample` is a judge called several
times, once for a batch and once by itself, `Load` the scores files of a directory as one report
attributes them, for any part of the variants being listed, `CountCell` a run and the sizes that are disclosed (a
trace that lost its root span has an id, which reliability looks at, and no metrics), `Attempt` pass@k and pass^k,
`Mark` a family of tests, `BeginTrace` and `Measure` a trace and what is left of it when tags are
lost. The usable scores of a judge are a function from the places of its samples, and the k-th of
them in order is the least with k scores up to it, so that a median is defined for any number.
Paired sizes are about two variants, as in the code; with any other number they are 0.

## 3. What is checked

| Run | Expected | Shows |
|---|---|---|
| `evalrun` | pass | over three invocations of two runs: `MarkerSound`, `HitsMatchInputs`, `KeepsCompleted`, `CoversMatrix`, `NewRowsAudited`, and the refinement `ImplementsLedger`; replay is kept away from `--cache`, the lock file is readable, resumes of one run do not overlap |
| `evalrun_replay` | violation | `MarkerSound` when replay and `--cache` are combined |
| `run_one` | pass | `OneTranscript`, `StatusTruthful`, `NothingLeftBehind`, and that every execution ends, for a backend and evaluators that raise every kind of failure, and host I/O that fails |
| `fixture_cache` | pass | `ReturnsVerified`, `NothingLeftBehind`, `NeverClobbered`, `EveryCallEnds` for three racing calls |
| `run_cache` | pass | `RowsBacked` and `EntryFrozen` with a kill or an I/O error between any two file operations |
| `schedule` | pass | `InOrder`, `IndexStable`, `NothingLeftRunning`, `BatchEnds` and the refinement `ImplementsBatch`, for every strategy, pool size and skip set, and Ctrl-C once or twice |
| `judging` | pass | `NotPaidTwice`, `KeepsScores`, `FinishedIsComplete`, `VerdictLands`, `AnalysisEnds` and the refinement `ImplementsTable`, for two analyses that may be interrupted or killed, and a cell that is executed again before, between or during them |
| `analyze` | pass | `FailClosed`, `StaleIsExposed`, `EpochsAreReal`, `NotStoppedEarly`, for the file collector and for Jaeger, beside a resume |
| `report` | pass | `MarkersExact`, `SamplesAgree`, `BatchLikeSingle`, `ScoresFindTheirCell`, `SizesHonest`, `GateFailsClosed` on every input within the bounds; names of tasks are single words, those of variants may be marks |
| `report_slug` | violation | `ScoresFindTheirCell` when names of tasks may hold underscores |
| `baselines` | pass | `Firewall`, `RegressionGate` for two commands beside three invocations of `run`, of which the first two may use the cache |
| `fixture_lock` | pass | `RunsOnRecord` for any interleaving of a pin, a run and two edits |

No run checks a type invariant: that states keep their types tells little about the code. It is
part of the inductive invariants of section 5, as `TypeOK` or spelled out. For every property of a passing run
`PROJECT.json` names a *mutant*: a changed definition, written next to the original and
introduced by a comment `Mutant:`, under which TLC finds the property violated. They show that
the properties can fail, and for which mistake.

Where a property names an exception, the code has it, and the property fails without it: what an
evaluator may raise in `OneTranscript` and `StatusTruthful`, `faults` in `NothingLeftBehind`,
"abandoned" in `NothingLeftRunning`, variants that are not listed and marks in fixture names in
`ScoresFindTheirCell`, traces without a root in `SizesHonest`, `unmarked` in `Firewall`, and
`--allow-empty` in `RegressionGate`. Section 6 says what each of them means for a user.

Deadlock is checked where a module has a step `Rest` for being done (`JudgeScoring`, `Analyze`,
`Report`, `Baselines`, `FixtureLock`): nothing else may stop. The other configurations say
`CHECK_DEADLOCK FALSE`: these systems really stop when the bounded number of invocations,
executions, calls or cells is used up, and that nothing stops early is what their liveness
properties say.

## 4. Bounds and fairness

| Bound | Value | Why it is enough |
|---|---|---|
| `EvalRun.MaxInv` | 3 | the longest scenario of the code is fill a cache, lose or edit something, reuse it; all the properties are proved for any number |
| `EvalRun.MaxActive` | 1 | without overlap on one directory, invocations only meet in the cache; those interleavings, and `KeepsCompleted` under any overlap, are covered by the proofs |
| `EvalRun.MaxEdits` | 1 | one edit makes two contents meet; rows never look at a third |
| cells and tasks | 2 cells of 2 tasks | the least for which `--task` leaves a cell out; cells of a task differ in nothing the module looks at |
| `RunOne.MaxExecs`, `MaxRetries` | 2, 2 | the second execution finds what the first left; two retries tell "at most" from "exactly one". `RunnerTimesOut` and `DiskFaults` are `TRUE`: every failure the module has may happen |
| `RunCache.MaxProcs`, `MaxActive` | 3, 1 | interrupted store, store, hit; any number of processes one after the other are covered by the proofs, two at once may mix the artifacts of two executions under one key (section 6) |
| `FixtureCache` calls, payloads | 3, 2 | winner, loser, and one that is killed; right and wrong bytes; digests do not interact |
| `Schedule` cells, workers | 2 tasks of 2 cells, 1 to 3 workers | fewer, as many, and more workers than tasks; all 16 skip sets |
| `FixtureLock` fixtures, paths, contents, edits | a declared and an implicit one, 2, 1, 2 | a fixture is whole, partly there or gone; an edit and its reversal; other fixtures behave like one of the two |
| `JudgeScoring` cells, judges | one cell with inline scores, a gate and two judges, one with a single judge | cells do not interact but by the pool; two judges are the least for a cell to be half judged |
| `JudgeScoring.MaxAnalyses`, `MaxActive`, `MaxRaces`, `MaxExec` | 2, 1, 1, 2 | an analysis after a broken one, and an execution in the middle of one; one judge fails, scores of one judge may be there before. Analyses that overlap are left to the proofs, which hold for any overlap; with `MaxActive = 2` and the first cell alone all properties pass too |
| `Analyze` cells, `Retries`, `MaxExec`, `MaxAgain`, `Limit` | 2 x 2 with one that may fail, 2, 2, 1, 4 | a superseded trace, one that is ingested after the first poll |
| `Baselines` runs, cells, commands, invocations, levels | 2, one variant of 2 epochs, 2, 3, 2 | save and compare with a fresh run, a replay and a resume in any order; the least `MinReliableN` at which "enough" means something |
| `Baselines.MaxCached`, `Recorded` | 2, 1 | a replay that stores and a docker run that reuses; with `--cache` everything measures what the recording has, as it is where traces come from that matters there. An entry is stored whole (`RunCache` opens it) |
| `Baselines`, in the guards | - | an invocation overlaps with commands on its own run only, since steps on different runs commute; one save at a time; nothing follows the end of an analysis, which changes no file |
| `Report.MaxSamples`, `MaxRows`, `MaxCells`, `MaxChats` | 3, 3, 3, 2 | three samples tell median, mean and majority apart; three p-values on both sides of each rank's level, with ties; all six properties are proved for any number of samples, rows, cells and spans |
| `Report` words of a name | 1 of a task (2 in `report_slug`) and of a fixture, 2 of a variant | one underscore makes names that end in others. One of the three words is the mark of an epoch; the mark of a fixture within a name is left to the proof |

Symmetry is used where run ids, contents, or tasks with their cells are interchangeable and no
liveness property is checked: `EvalRun`, `RunCache` and `Baselines`. (`ImplementsLedger` and the action
properties are safety properties; a permutation of model values maps steps to steps.)

Fairness, and what in the code justifies it:

- `FixtureCache`: `WF` of each call's `Advance`. The download has a timeout; the rest is local
  file work without locks or waiting. `Kill` is not fair.
- `RunOne`: `WF_vars(Advance)`. Between retries `run_one` is straight-line code. Hooks, the
  health check and the docker client are started without a time limit, so that they return is
  an assumption and listed as a hazard.
- `Schedule`: `WF_vars(Proceed)`. Threads get scheduled and cells end, by the previous point.
- `JudgeScoring`: `WF` of each analysis's `Advance`. Every call to the model has a time limit, and
  the main thread takes answers in as they come. Starting an analysis, killing it and Ctrl-C are not
  fair.
- `EvalRun`, `RunCache` and `Baselines` have no liveness properties: a user who never resumes owes
  nothing. `Analyze` polls a bounded number of times, which deadlock checking covers.

## 5. What is proved

TLAPS checks the following for *all* values of the constants, from the named assumptions on
constants in the modules (types, finiteness, and that the "nothing" values are not values).

| Module | Theorem | Under |
|---|---|---|
| `EvalRun_proofs` | `TypeCorrect`, `KeepsCompletedHolds`, `CoversMatrixHolds` | - (any overlap) |
| | `MarkerSoundHolds` | replay and `--cache` apart, no overlap |
| | `HitsMatchInputsHolds`, `NewRowsAuditedHolds` | lock file readable |
| | `ImplementsLedgerHolds` | no overlap |
| `Execution_proofs` | `OneTranscriptHolds`, `StatusTruthfulHolds`, `NothingLeftBehindHolds` | - |
| | `NothingLeftRunningHolds`, `InOrderHolds`, `IndexStableHolds`, `ImplementsBatchHolds` | - |
| `RunCache_proofs` | `TypeCorrect` | - |
| | `RowsBackedHolds`, `EntryFrozenHolds` | `MaxActive = 1` |
| `Fixtures_proofs` | `ReturnsVerifiedHolds`, `BlobsGenuineHolds`, `NeverClobberedHolds`, `NothingLeftBehindHolds` | - |
| | `RunsOnRecordHolds` | - |
| `JudgeScoring_proofs` | `Inductive`, `ImplementsTableHolds` | - (any overlap) |
| | `NotPaidTwiceHolds`, `FinishedIsCompleteHolds`, `KeepsScoresHolds` | their own `races = 0` |
| `Analyze_proofs` | `TypeCorrect`, `FailClosedHolds`, `StaleIsExposedHolds`, `EpochsAreRealHolds`, `NotStoppedEarlyHolds` | - |
| `Report_proofs` | `HolmIsClosedTesting`, `BenjaminiHochbergIsThreshold`, `HolmWithinBenjaminiHochberg` | a finite family |
| | `MarkersExactHolds`, `SamplesAgreeHolds`, `BatchLikeSingleHolds`, `SizesHonestHolds`, `GateFailsClosedHolds` | - |
| | `ScoresFindTheirCellHolds` | `MaxTaskWords <= 1`, and epochs are what the mark of an epoch may hold |
| `Baselines_proofs` | `FirewallHolds`, `RegressionGateHolds` | - |

The hypotheses are those under which the runs check the same properties, and each has a reason:
`evalrun_replay` and `report_slug` are counterexamples without the first and the last; with an
unreadable lock file `HitsMatchInputs` fails; with `Overlap = TRUE` and two invocations at a time
`MarkerSound` and `ImplementsLedger` do, since the invocation that writes last replaces rows and
marker of the other; and two processes that copy under one cache key at a time mix what
`RowsBacked` and `EntryFrozen` are about.

Hardly any of these formulas is inductive. What had to be added, and why:

**EvalRun.** Five layers, each an invariant at the end of `EvalRun.tla` or in the proofs:

1. `Tidy`: a process that is not working holds nothing, one that is works in an existing
   directory, a fresh one has scanned nothing, and a run without directory has no manifest.
2. `SkipsCompleted` (from `Tidy`): what was scanned as completed is never keyed, hit or
   executed; hence the merge takes its row from the scan, which is `KeepsCompleted`.
3. `Scoped`: what a process looks up, reuses or runs is in its scope, and when it writes it has a
   row of everything it had to run. With the rows scanned that is `CoversMatrix`.
4. `IndexCurrent` (no overlap): the scan of a working process *is* the manifest on disk, so
   "keeps what it scanned" becomes "keeps what is there" - the step of the refinement, and
   the reason a marker re-read at the end belongs to the rows read at the beginning.
5. `SyntheticApart` and `KeysTrue`: where synthetic rows can be, and that cache keys name the
   content an entry's execution ran on. The second needs that contents do not change while
   anybody works, which is `EditFixture`'s guard.

**RunOne.** `IInv` is `TypeOK`, `Fresh` (executions to come have left nothing, and the one under way
has no row), `Chain`, and the three properties. `Chain` follows the containers of an execution from
try to try: those of earlier tries ended in what is taken for a failure of the container, that of
this try has the exit code at hand, and where `pc` is in an `except` clause its work ended the way
that clause is for. Without it nothing would keep a container that has run from being followed by
another one for no reason. A return then is truthful because of the chain, and a clean-up either
takes what the execution left or adds it to `faults` (`CleanUpFacts`).

**Schedule.** `ScheduleInv` is `ScheduleTypeOK` and `Scheduled`. `Cut` deals the places of the matrix
to jobs: no place to two of them, every cell to do to one (`CutDisjoint`, `CutCovers`, `CutPeers`).
`Advancing` says what a job that has come past some of its places has counted and collected,
`Serially` that what it is past has ended and what is to come has not begun, `Collected` that the
results are the rows of the jobs that were collected, and of no other. The index of a row is then
the number of places before it (`IndexStable`), and a batch that returns has one row of each cell
to do: the refinement of `Batch`. An abandoned batch executes on behind its caller's back, but no
cell twice, and no rows of it come out.

**RunCache.** `Backed`: one process is active; a slot that it has no longer to copy holds the whole
of what is copied (`Storing`, `Reusing`), so that a committed entry is whole (`Committed`) and a row
that is written is backed by what is in its directory (`Closing`). Who stores has missed (`Missed`), so
that nothing is copied over a committed entry, and nobody works in a directory that has its row
(`Placed`).

**FixtureCache.** `TypeOK`, `BlobsGenuine`, `EntriesGenuine` and `Holds`, which says what a call
has in its hands at each point of the function; that other calls cannot take it away is the point:
blobs are replaced only by blobs of the same digest and entries only appear where there was none.

**FixtureLock.** `LockInv`: entries in the file and in a pin have the digest of the files they were
made from, or have lost part of it where the file was cut. `RunInv`: the same of what a run has
loaded; a fixture not touched since is on disk as it was hashed, and was copied as it is. Digests
of different directories differ, which `DigestInjective` proves of the model's digest.

**JudgeScoring.** `PoolInv`: a context counts its open judges (pending, and not in yet), every call that
is queued or answered is about open judges, each is asked about at most once, and the other judges
of the cell have a score in what was read. So the write of a cell has an entry for each judge, and
every step is a step of `JudgeTable`. `Alone` adds that without a race only one analysis is under
way, and what it still asks for has no score in the file, which is `NotPaidTwice`. `Fit` adds that,
without a race, a context is still about the trace and the file it was read from until its cell is
written, and its answers about that trace: so what is written back replaces nothing else
(`KeepsScores`), and nothing is missing at the end (`FinishedIsComplete`).

**Analyze.** `RunInv`: types, and that the file collector finds one trace per cell. `AnalysisInv`:
that the gates, once passed, have seen a passing trace of each cell (`Gated`), the coverage line is
about the traces that were fetched (`Swept`), and a green outcome has been through both (`Green`).
`Counted` adds that a green outcome with something to report had as many epochs as the gate asks
for; that counting them by variant, or the shared ones, is enough is a lemma about the counts
(`EnoughEpochs`). `Polled` adds that there is one trace of an execution at most, and none of
executions to come, so that as many traces as runs are traces of all of them.

**Report.** A state is a step applied to an input, which `Inv` spells out step by step (`Sampled`,
`Loaded`, `Counted`, `Attempted`, `Marked`, `Traced`); the rest are facts about operators.

- *Corrections.* Both theorems equate a loop with a definition over all subsets or all levels; the
  lemmas (`RankType`, `RankLess`, `RankOrder`, `RankCounts`, `FirstRow`, `LastRow`) say that ranks are a
  numbering that refines the order of p-values, ties broken by place, and the proof takes the
  smallest rank at which the loop stops. That what survives does not depend on where a row stands
  follows from the definitions, which the procedures equal, and not from the loops.
- *Sizes and rates.* One count is at most another since one set covers the other (`Covered`), or a
  multiple of it since each member stands for so many (`Fibres`).
- *Scores of judges.* The k-th score is found by its counts (`SortedIs`), which a bijection of places
  keeps (`CountsRenamed`), so no aggregate depends on the order of the samples. For the mean that
  is a question about `Total`, a fold, which the definition leaves to take a set in any order:
  `Folded` shows that it is the only function on subsets that adds one member at a time
  (`Additive`), by induction on finite sets stated for a set of sets instead of a predicate
  (`SetInduction`).
- *Slugs.* The last mark of an epoch in a file name is the one `run_slug` wrote, as long as no mark
  is in the label of the fixture; what stands before it ends in the words of the variant, whatever
  marks they hold, and one word is left for the task. What stands after it is split at the first mark
  of a fixture, and that is the one written, too. The longest listed variant that fits is the own one
  wherever that is listed.
- *Telemetry.* A value that is available after losses is that of the whole trace (`ValueLeft`).

**Baselines.** `RunsInv`: the traces of a run that are synthetic are marked in its manifest, or
the run is being executed by a replay, or excused by `unmarked`. `CommandsInv`: the same about what a
command has read and what is in the baseline. It matters that the marker is read after the traces,
and that a resume keeps it. Nothing is claimed of the cache: what docker takes from it is excused at
the time it is copied, so that the traces a run starts out with are all that has to be looked at.
`GatesInv`: how a comparison ended follows from the traces it has compared, and where nothing was
compared a green end had the flag, no rows and no metrics.

Every safety property of a passing run is proved, refinements and action properties included. Only
model-checked are the liveness properties - `EveryExecutionEnds`, `EveryCallEnds`, `BatchEnds`,
`AnalysisEnds`, `VerdictLands` - since no backend of the prover knows fairness or `ENABLED`, and that
nothing stops early where a run checks deadlock. The abstract specifications state no fairness, so
that the refinements are proved whole.

## 6. Disagreements found

Two are runs that TLC ends with a counterexample; `PROJECT.json` has the quotations.

- **Replay leaks through the cache** (`evalrun_replay`). The cache key does not contain the
  backend. A replayed run with `--cache` stores synthetic rows, and a docker run with `--cache`
  reuses them in a manifest that is not marked. Their traces come along, so that the run can be saved
  as a baseline and compared without a banner: the third exception of `Firewall`, although
  `docs/configuration.md:535` says that synthetic numbers can never leak into a real comparison.
- **Scores of another task** (`report_slug`). The report takes every scores file whose name begins
  with the task's name and an underscore (`eval/report.py:2340`). With tasks `a` and `a_b`, the
  scores of `a_b` are shown for `a` as well, although `eval/naming.py` says that writer and readers
  always agree on the mapping and that the longest match wins.

Met on the way, without a run of their own: the properties say nothing of them or name them as
exceptions, and each is visible in the action that models the line:

- a resume rewrites the audit record of cells it did not run, which the comment above the merge
  denies (`eval/services/orchestrator.py:787`; `EvalRun.WriteManifest`; `NewRowsAudited` is about the
  rows an invocation adds);
- a malformed lock file, without `--strict-fixtures`, ends verification before anything is hashed,
  and cache keys are computed without the fixture content (`eval/services/orchestrator.py:501`;
  `FixtureLock.Load`);
- `order_index` is promised for the rows of a run; under the strategy `full` it counts the cells that
  are left, so that a resume repeats the indexes of the first run (`IndexStable` is about the others);
- container timeouts are not retried as `docs/configuration.md:962` says: the built-in runners
  report 124, not an exception (`RunOne.Container`);
- evaluators written in Python run within the `try` of `run_one`. A `DockerError` or
  `subprocess.TimeoutExpired` that one raises (a helper process that is too slow, say) is taken for
  a failure of the container, which is run again under the same test id, or recorded as
  `setup_failed` or `timeout` when no retries are left; the comment at `eval/runner.py:369` says that
  a `DockerError` comes from before the container (`RunOne.EvaluateFails`; `OneTranscript` and
  `StatusTruthful` say exactly this much);
- the status of a container that has completed survives an `EvalError` afterwards, but no other
  exception (`eval/runner.py:441`; `RunOne.Isolate`);
- masking a log is best effort, where `docs/configuration.md:1218` promises it: a log that cannot be
  read or written stays as it is (`eval/runner.py:846`), and one byte that does not decode raises out
  of the `finally`. Since the log is appended to, every later execution of that cell ends as a
  `setup_failed` row beside an unmasked log, until the file is removed. With no secrets to mask the
  log is not read there, so the module's `garbled` is about runs that have some
  (`RunOne.CleanUp`, `Leaves`);
- workspaces that cannot be removed, with files of the container's user in them, stay without a word
  (`eval/runner.py:488`; `faults`);
- a second Ctrl-C while the pool is left ends `run` with its threads still working off the queue: the
  cells cost what they cost, write into the run directory, and get no row (`Schedule.Abandon`);
- an interrupted store leaves artifacts that the next store copies over, so that a later hit can
  have the log of one execution and the trace of another, where the docstring of
  `eval/services/cache_service.py` promises one verbatim (`RunCache`);
- a gate can pass on the trace of an earlier execution of the cell; the coverage line then complains
  (`StaleIsExposed`), the exit status does not;
- a criterion missing from a batched answer of a process that failed is reported as another outcome
  than in a call of its own (`BatchLikeSingle` excepts it);
- answers that come in after Ctrl-C are lost (`JudgeScoring.CallInVain`), while the comment in
  `eval/services/judge_service.py:165` speaks of keeping finished work;
- a replay that is killed before its manifest is written leaves synthetic traces and no marker, and
  one that is looked at while it runs has none yet (`unmarked` in `Baselines`);
- `analyze --allow-empty --baseline --fail-on-regression` of a run without metrics and manifest ends
  green before the baseline is looked for (`eval/services/analyze_service.py:152`; `Baselines.Compare`);
- two analyses at a time lose each other's verdicts, the last one to write a file wins
  (`JudgeScoring`; only `ImplementsTable` is about them);
- names may hold the marks that file names are split at (`eval/config.py:30`). The mark of an epoch in
  the name of a fixture makes the last one the wrong one, and the scores of those cells are lost or
  shown elsewhere; in names of tasks and variants, and for the mark of a fixture, the splits are
  right (`ScoresFindTheirCell`);
- a variant that left neither metrics nor rows is not listed by the report, so its scores are
  shown for a listed one with whose name its own ends: those of `my_v` for `v`
  (`eval/report.py:928`);
- reliability counts a completed run as a success by the id of any trace, so that there are more
  successes than samples when a trace lost its root span (`eval/report.py:1285`; `SizesHonest`);
- duplicates of a trace count as samples, in `--min-epochs` of unpaired reports too
  (`EpochsAreReal` excepts Jaeger), and a tag that was lost counts as 0 outside gates
  (`eval/report.py:621`).

## 7. What is not modelled

- What a container, hook, evaluator or model computes; their outcomes are nondeterministic.
- Configuration parsing and validation, report rendering, the CLI, templates, suggestions, cost
  estimates, the progress display: sequential, stateless or presentation. What matters of them
  elsewhere - a failed pre-flight, a reporter that raises, names that are allowed - is an action or
  an input there.
- Prompts of judges and the budgets by which context is cut for them.
- Image building: a pool around `docker build`, whose results are only counted.
- Bootstrap confidence intervals: random samples of real numbers. `Report.RawMarker` has only that
  a marker goes with a p-value that allows it. Medians, deltas and power are plain arithmetic.
- How the replay runner finds a recording, and how long a collector waits for the trace of the cell
  that has just run.
- A fixture edited after it was hashed and before a cell copies it. The code promises nothing;
  `RunsOnRecord` excepts it and shows that nothing else goes wrong.
- Overlapping invocations of `run` in `Baselines`, which has one at a time; what they do to a
  manifest is in `EvalRun`.
- A manifest without rows, which `run` does not write: `analyze` of one ends green with "No reports
  generated" (`eval/services/analyze_service.py:212`) even where gates failed. Several tasks of a run
  without a manifest: `Analyze` has one.
- Numbers in an answer that JSON reads as infinite, which raise (`eval/judge_executor.py:290`, `:373`).
- Whole chat or tool spans that are lost: nothing in a trace tells of them, so a gate takes the sums
  of what is left. `Telemetry` loses tags and the root.
- Names that hold `.scores` or `.judges`, which the report deletes from file names wherever they are.
- One blob with two declared file names, which decide how it is extracted; evaluators that see the
  log of earlier executions; lost tags in medians. Listed as hazards without a property.

## 8. Plan

Done: all the modules of section 2, and proofs of every safety property they state. What is left,
in this order:

1. `order_variants` and the seeded order of cells, checked against "every variant is first equally
   often".
2. The wait of a collector for the trace of a cell, racing with the export.
3. Warnings of the report (`minK`, unreliable sizes) as consequences of `SizesHonest`.
4. What remains true of the cache while two processes copy under one key, where `RowsBacked` and
   `EntryFrozen` do not hold.
