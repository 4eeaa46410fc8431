------------------------------- MODULE RunOne -------------------------------
(***************************************************************************)
(* One matrix cell: eval/runner.py run_one behind orchestrator.py          *)
(* _safe_run_one, with the container boundary of docker_cli_runner.py.  A  *)
(* cell may be executed several times into one run directory, because a    *)
(* resume runs it again after a failure or a kill: execution e is the e-th *)
(* of them, and stands for its test_id.  What is left in the directory by  *)
(* an earlier execution is there when the next one starts.                 *)
(***************************************************************************)
EXTENDS Naturals, Sequences

CONSTANTS
  MaxRetries,      \* runner.retries
  OnFailure,       \* hooks.on_failure: "fail" or "warn"
  RunnerTimesOut,  \* does the backend raise TimeoutExpired itself (built-in ones do not)
  DiskFaults,      \* may host I/O in the cell raise an OSError (a workspace with
                   \* files of the container's user can not be removed either)
  MaxExecs,        \* bound: executions of the cell
  NoExit,          \* no container has completed
  NoRow            \* no result returned

ASSUME RetryAssumption == MaxRetries \in Nat /\ MaxExecs \in Nat \ {0}
ASSUME SwitchAssumption ==
  /\ OnFailure \in {"fail", "warn"}
  /\ RunnerTimesOut \in BOOLEAN /\ DiskFaults \in BOOLEAN

Execs == 1..MaxExecs

\* Exit codes as far as status_from_exit_code tells them apart: success, GNU
\* timeout's 124, and any other; -1 is written where no container completed.
ExitCodes == {"0", "124", "other"}
Statuses == {"completed", "setup_failed", "timeout", "failed"}

\* Mutant: 124 is one more failure.
StatusNoTimeout(exit) == IF exit = "0" THEN "completed" ELSE "failed"

StatusOf(exit) == IF exit = "0" THEN "completed"
                  ELSE IF exit = "124" THEN "timeout" ELSE "failed"

Row == [status : Statuses, exit : ExitCodes \cup {"-1"}, retries : 0..MaxRetries,
        passed : BOOLEAN]

ASSUME MarkerAssumption == NoExit \notin ExitCodes /\ NoRow \notin Row

Stages == {"before_run", "health_check", "workspace", "container", "after_run",
           "persist", "evaluate"}
Transient == {"docker_error", "timeout"}
Raised == Transient \cup {"eval_error", "escaped"}

VARIABLES
  exec,       \* executions begun
  pc,         \* control point of the current one
  attempt,    \* 0-based index of its current try
  artifacts,  \* exit code of the container of this try
  failing,    \* a score that did not pass has been recorded in this try
  row,        \* what it returned to the batch
  exits,      \* history: exit codes of the containers it saw through
  ends,       \* history: how the work on each of them after it had run ended
  returned,   \* history: executions that returned a row
  workdirs,   \* executions whose temporary workspace is still on disk
  raw,        \* executions that wrote to the log since it was last masked
  garbled,    \* the log holds bytes that do not decode
  faults      \* history: executions one of whose clean-ups did not do all its work

disk == <<workdirs, raw, garbled, faults>>
vars == <<exec, pc, attempt, artifacts, failing, row, exits, ends, returned, disk>>

TypeOK ==
  /\ exec \in 0..MaxExecs
  /\ pc \in {"idle", "returning"} \cup Stages \cup Raised
  /\ attempt \in 0..MaxRetries
  /\ artifacts \in ExitCodes \cup {NoExit}
  /\ failing \in BOOLEAN
  /\ row \in Row \cup {NoRow}
  /\ exits \in Seq(ExitCodes)
  /\ ends \in Seq({"scored"} \cup Raised)
  /\ returned \subseteq Execs
  /\ workdirs \subseteq Execs
  /\ raw \subseteq Execs
  /\ garbled \in BOOLEAN
  /\ faults \subseteq Execs

Init ==
  /\ exec = 0 /\ pc = "idle" /\ attempt = 0
  /\ artifacts = NoExit /\ failing = FALSE
  /\ row = NoRow /\ exits = <<>> /\ ends = <<>> /\ returned = {}
  /\ workdirs = {} /\ raw = {} /\ garbled = FALSE /\ faults = {}

-----------------------------------------------------------------------------
\* The `finally` of a try removes the workspace and masks the whole log.  Host
\* errors in either are swallowed; a log that does not decode raises instead.
CleanUp ==
  \E broken \in SUBSET {"rmtree", "mask"} :
    /\ "rmtree" \in broken => DiskFaults
    /\ garbled => "mask" \in broken
    /\ "mask" \in broken => garbled \/ DiskFaults
    /\ workdirs' = IF "rmtree" \in broken THEN workdirs ELSE workdirs \ {exec}
    /\ raw' = IF "mask" \in broken THEN raw ELSE {}
    /\ faults' = IF broken = {} THEN faults ELSE faults \cup {exec}
    /\ UNCHANGED garbled

Goto(stage) == pc' = stage

\* The execution is over, and the batch has its row.
End(result) ==
  /\ row' = result
  /\ returned' = returned \cup {exec}
  /\ Goto("idle")
  /\ UNCHANGED <<exec, attempt, artifacts, failing, exits>>

\* run_one returns to _safe_run_one, unless its clean-up raises.
Return(status, exit, passed) ==
  /\ ~garbled
  /\ End([status |-> status, exit |-> exit, retries |-> attempt, passed |-> passed])
  /\ CleanUp

\* A run executes the cell, or a resume that did not find it completed.
Start ==
  /\ pc = "idle" /\ exec < MaxExecs
  /\ exec' = exec + 1
  /\ Goto("before_run")
  /\ attempt' = 0 /\ artifacts' = NoExit /\ failing' = FALSE
  /\ row' = NoRow /\ exits' = <<>> /\ ends' = <<>>
  /\ UNCHANGED <<returned, disk>>

Isolated == [status |-> "setup_failed", exit |-> "-1", retries |-> 0, passed |-> FALSE]

\* The backend does not support the collector: ConfigError before any try.
Reject ==
  /\ pc = "idle" /\ exec < MaxExecs
  /\ exec' = exec + 1
  /\ row' = Isolated /\ exits' = <<>> /\ ends' = <<>>
  /\ returned' = returned \cup {exec + 1}
  /\ UNCHANGED <<pc, attempt, artifacts, failing, disk>>

\* A line of our own in the log.
Note == raw' = raw \cup {exec} /\ UNCHANGED garbled

\* The output of a hook or of the container, whatever bytes it is.
Log == raw' = raw \cup {exec} /\ garbled' \in {garbled, TRUE}

BeforeRun ==
  /\ pc = "before_run"
  /\ \/ Goto("health_check")
     \/ OnFailure = "fail" /\ Goto("returning")   \* non-zero exit; "warn" goes on
     \/ Goto("eval_error")                        \* HookError
     \/ DiskFaults /\ Goto("escaped")             \* the log can not be opened
  /\ Log
  /\ UNCHANGED <<exec, attempt, artifacts, failing, row, returned, exits, ends, workdirs, faults>>

HealthCheck ==
  /\ pc = "health_check"
  /\ \/ Goto("workspace")
     \/ Goto("returning")
     \/ Goto("eval_error")
     \/ DiskFaults /\ Goto("escaped")
  /\ Log
  /\ UNCHANGED <<exec, attempt, artifacts, failing, row, returned, exits, ends, workdirs, faults>>

\* A failed before_run hook or health check ends the cell.
SetupFailed ==
  /\ pc = "returning"
  /\ Return("setup_failed", "-1", FALSE)
  /\ UNCHANGED ends

\* mkdtemp, then the copy of the fixture (FixtureError) and two mkdirs.
Workspace ==
  /\ pc = "workspace"
  /\ \/ Goto("container") /\ workdirs' = workdirs \cup {exec}
     \/ Goto("eval_error") /\ workdirs' = workdirs \cup {exec}
     \/ DiskFaults /\ Goto("escaped") /\ workdirs' \in {workdirs, workdirs \cup {exec}}
  /\ UNCHANGED <<exec, attempt, artifacts, failing, row, returned, exits, ends, raw, garbled, faults>>

\* `docker run ... timeout <n>s copilot`: the container's own exit code is the
\* outcome, 124 when it ran out of time.  Only failing to start the docker
\* binary is a DockerError.
Container ==
  /\ pc = "container"
  /\ \/ \E x \in ExitCodes :
          /\ artifacts' = x
          /\ exits' = Append(exits, x)
          /\ Goto("after_run")
     \/ Goto("docker_error") /\ UNCHANGED <<artifacts, exits>>
     \/ RunnerTimesOut /\ Goto("timeout") /\ UNCHANGED <<artifacts, exits>>
     \/ Goto("eval_error") /\ UNCHANGED <<artifacts, exits>>    \* ReplayError
     \/ DiskFaults /\ Goto("escaped") /\ UNCHANGED <<artifacts, exits>>
  /\ Log
  /\ UNCHANGED <<exec, attempt, failing, row, returned, ends, workdirs, faults>>

\* The work on a container that has run ends.
Ended(how) == ends' = Append(ends, how)

\* _print_summary reads the log, then the after_run hook adds to it.
AfterRun ==
  /\ pc = "after_run"
  /\ \/ ~garbled /\ Goto("persist") /\ failing' \in BOOLEAN /\ UNCHANGED ends
     \/ ~garbled /\ Goto("eval_error") /\ Ended("eval_error") /\ UNCHANGED failing
     \/ (garbled \/ DiskFaults) /\ Goto("escaped") /\ Ended("escaped") /\ UNCHANGED failing
  /\ Log
  /\ UNCHANGED <<exec, attempt, artifacts, row, returned, exits, workdirs, faults>>

\* _persist_output_files and _persist_trace_file copy out of the workspace.
Persist ==
  /\ pc = "persist"
  /\ \/ Goto("evaluate") /\ UNCHANGED ends
     \/ DiskFaults /\ Goto("escaped") /\ Ended("escaped")
  /\ UNCHANGED <<exec, attempt, artifacts, failing, row, returned, exits, disk>>

\* _run_evaluators and the normal return.
Evaluate ==
  /\ pc = "evaluate"
  /\ \E f \in BOOLEAN :
       Return(StatusOf(artifacts), artifacts,
              StatusOf(artifacts) = "completed" /\ ~failing /\ ~f)
  /\ Ended("scored")

\* A `python` evaluator runs in this process: one that can not be loaded raises
\* PythonEvalError, and what its code raises is caught by the clause it fits,
\* those for failures of the container included.
EvaluateFails ==
  /\ pc = "evaluate"
  /\ \E how \in Raised : Goto(how) /\ Ended(how)
  /\ Note
  /\ UNCHANGED <<exec, attempt, artifacts, failing, row, returned, exits, workdirs, faults>>

-----------------------------------------------------------------------------

MayRetry == attempt < MaxRetries

\* Mutant: a try that cost no container is not counted.
RetryUncounted ==
  /\ pc \in Transient /\ MayRetry /\ ~garbled
  /\ attempt' = IF artifacts = NoExit THEN attempt ELSE attempt + 1
  /\ artifacts' = NoExit /\ failing' = FALSE
  /\ CleanUp
  /\ Goto("before_run")
  /\ UNCHANGED <<exec, row, returned, exits, ends>>

\* What is taken for a transient failure: wait, clean up and try again.
Retry ==
  /\ pc \in Transient /\ MayRetry /\ ~garbled
  /\ attempt' = attempt + 1
  /\ artifacts' = NoExit /\ failing' = FALSE
  /\ CleanUp
  /\ Goto("before_run")
  /\ UNCHANGED <<exec, row, returned, exits, ends>>

GiveUpDocker ==
  /\ pc = "docker_error" /\ ~MayRetry
  /\ Return("setup_failed", "-1", FALSE)
  /\ UNCHANGED ends

GiveUpTimeout ==
  /\ pc = "timeout" /\ ~MayRetry
  /\ Return("timeout", "124", FALSE)
  /\ UNCHANGED ends

\* Mutant: any EvalError is taken for a transient one.
EvalErrorRetried ==
  /\ pc = "eval_error"
  /\ IF MayRetry
     THEN /\ attempt' = attempt + 1
          /\ artifacts' = NoExit /\ failing' = FALSE
          /\ CleanUp
          /\ Goto("before_run")
          /\ UNCHANGED <<exec, row, returned, exits, ends>>
     ELSE Return("setup_failed", "-1", FALSE) /\ UNCHANGED ends

\* EvalError: before the container completed it is a setup failure, after it
\* the container's status is kept and a failing infra score added.
EvalErrorReturn ==
  /\ pc = "eval_error"
  /\ IF artifacts = NoExit THEN Return("setup_failed", "-1", FALSE)
     ELSE Return(StatusOf(artifacts), artifacts, FALSE)
  /\ UNCHANGED ends

\* Anything else leaves run_one, and so does what the clean-up raises in place
\* of a return or of the next try.
Leaves == pc = "escaped" \/ (garbled /\ pc \in {"returning"} \cup Raised)

\* Mutant: the clean-up is part of the handled paths instead of a `finally`.
IsolateNoFinally ==
  /\ Leaves
  /\ End(Isolated)
  /\ UNCHANGED <<ends, disk>>

\* _safe_run_one makes a row of its own.
Isolate ==
  /\ Leaves
  /\ End(Isolated)
  /\ CleanUp
  /\ UNCHANGED ends

\* Ctrl-C in the main thread (serial strategy): no row, but the `finally` runs.
Interrupted ==
  /\ pc # "idle"
  /\ Goto("idle")
  /\ CleanUp
  /\ UNCHANGED <<exec, attempt, artifacts, failing, row, returned, exits, ends>>

\* The process is killed: no row, no clean-up.
Kill ==
  /\ pc # "idle"
  /\ Goto("idle")
  /\ UNCHANGED <<exec, attempt, artifacts, failing, row, returned, exits, ends, disk>>

Advance ==
  \/ BeforeRun \/ HealthCheck \/ SetupFailed \/ Workspace \/ Container \/ AfterRun
  \/ Persist \/ Evaluate \/ EvaluateFails
  \/ Retry \/ GiveUpDocker \/ GiveUpTimeout \/ EvalErrorReturn \/ Isolate

Next == Start \/ Reject \/ Advance \/ Interrupted \/ Kill

\* run_one is straight-line code between its retries; hooks, the container
\* and evaluators are assumed to return.
Spec == Init /\ [][Next]_vars /\ WF_vars(Advance)

-----------------------------------------------------------------------------
(***************************************************************************)
(* A container that has run is only ever followed by another of the same   *)
(* execution, which repeats its transcript and its trace under one         *)
(* test_id, when a python evaluator raised what is taken for a failure of  *)
(* the container; and there are as many as tries, at most (run_one,        *)
(* `except DockerError` and `except TimeoutExpired`).                      *)
(***************************************************************************)
OneTranscript ==
  /\ Len(exits) <= MaxRetries + 1
  /\ \A k \in 1..Len(exits) - 1 : k \in DOMAIN ends /\ ends[k] \in Transient

\* The last container of an execution that returned, and the work on it after.
LastExit == exits[Len(exits)]
LastEnd == ends[Len(exits)]

\* The row says what the last container said.
Says(code) == exits # <<>> /\ LastExit = code /\ LastEnd \in {"scored", "eval_error"}

(***************************************************************************)
(* A returned status tells the truth.  `completed`, `failed` and, but for  *)
(* exhausted retries, `timeout` are the exit of the last container of this *)
(* very execution; a container whose scores were written, or whose         *)
(* post-processing hit an EvalError, is never told as a failed set-up      *)
(* unless the clean-up raised; a passing row is a completed one (run_one,  *)
(* status_from_exit_code).                                                 *)
(***************************************************************************)
StatusTruthful ==
  row # NoRow =>
    /\ row.status = "completed" => Says("0")
    /\ row.status = "failed" => Says("other")
    /\ row.status = "timeout" =>
         \/ Says("124")
         \/ row.retries = MaxRetries /\ (RunnerTimesOut \/ (exits # <<>> /\ LastEnd = "timeout"))
    /\ row.status = "setup_failed" =>
         exits = <<>> \/ LastEnd \in Transient \cup {"escaped"} \/ exec \in faults
    /\ row.passed => row.status = "completed"

(***************************************************************************)
(* An execution that returned left neither its workspace nor an unmasked   *)
(* log behind, on every path out of run_one (the `finally` of each try),   *)
(* unless that clean-up met a host error or a log that does not decode;    *)
(* and one that saw a container through also masked what the executions    *)
(* before it, killed or not, had left in the log.                          *)
(***************************************************************************)
NothingLeftBehind ==
  /\ returned \cap (workdirs \cup raw) \subseteq faults
  /\ row # NoRow /\ exits # <<>> /\ exec \notin faults => raw \cap 1..exec = {}

(***************************************************************************)
(* Every execution that is begun ends: the retry loop is bounded by        *)
(* runner.retries whatever the tries run into.                             *)
(***************************************************************************)
EveryExecutionEnds == pc # "idle" ~> pc = "idle"

=============================================================================
