------------------------------ MODULE Schedule ------------------------------
(***************************************************************************)
(* The batch of one `run` (orchestrator.py _execute_schedule): the cells   *)
(* of the matrix that are not skipped, executed by a thread pool under one *)
(* of three strategies while the main thread collects what the workers     *)
(* return.  A strategy cuts the matrix into jobs: a cell each ("full"), a  *)
(* task each ("per_task"), or all of it at once, on the main thread        *)
(* ("off", or a single task).  What happens within a cell is in RunOne.    *)
(***************************************************************************)
EXTENDS Naturals, Sequences, FiniteSets, Functions

CONSTANTS
  Cells,       \* cells of the matrix
  Work,        \* their order: by task, fixture, epoch, and variant_order
  Tasks,       \* the tasks in order
  TaskOf,      \* the task of a cell
  Strategies,  \* values runner.parallel may have
  MaxWorkers   \* bound: runner.max_workers

\* The names of tasks, variants and fixtures are distinct (config.py).
ASSUME WorkAssumption ==
  /\ Work \in Seq(Cells) /\ Tasks \in Seq(Range(Tasks))
  /\ TaskOf \in [Cells -> Range(Tasks)]
  /\ \A m, n \in DOMAIN Work : Work[m] = Work[n] => m = n
  /\ \A m, n \in DOMAIN Tasks : Tasks[m] = Tasks[n] => m = n
ASSUME StrategyAssumption == Strategies \subseteq {"full", "per_task", "off"}

VARIABLES
  strategy,  \* runner.parallel
  workers,   \* runner.max_workers
  skip,      \* cells completed before or reused from the cache
  jobs,      \* the jobs: what each has left, its order_index, rows and phase
  begun,     \* cells whose execution has begun
  ended,     \* cells whose execution has ended
  results,   \* rows the main thread has, in the order it got them
  main       \* control point of the main thread

scheduleVars == <<strategy, workers, skip, jobs, begun, ended, results, main>>

-----------------------------------------------------------------------------

\* A row: the cell and its order_index.
ResultRow(cell, index) == [cell |-> cell, index |-> index]
Rows == [cell : Cells, index : Nat]

Serial(how) == how = "off" \/ (how = "per_task" /\ Len(Tasks) <= 1)

\* The places in Work of the cells of a task, the skipped ones included.
PlacesOf(task) == {n \in DOMAIN Work : TaskOf[Work[n]] = task}

\* The places filter_schedule leaves.
Kept(S) == {n \in DOMAIN Work : Work[n] \notin S}

Job(places, index) == [left |-> places, index |-> index, rows |-> <<>>, phase |-> "queued"]

\* In "full" the index is that of the submission, after filter_schedule.
CellJobs(S) == [n \in Kept(S) |-> Job({n}, Cardinality({m \in Kept(S) : m < n}))]

\* Mutant: "per_task" submits cell by cell, too.
CutByCell(how, S) == IF Serial(how) THEN <<Job(DOMAIN Work, 0)>> ELSE CellJobs(S)

Cut(how, S) ==
  IF Serial(how) THEN <<Job(DOMAIN Work, 0)>>
  ELSE IF how = "per_task" THEN [k \in DOMAIN Tasks |-> Job(PlacesOf(Tasks[k]), 0)]
  ELSE CellJobs(S)

Phases == {"queued", "idle", "running", "done", "failed", "collected"}

ScheduleTypeOK ==
  /\ strategy \in Strategies /\ workers \in 1..MaxWorkers /\ skip \subseteq Cells
  /\ jobs \in [DOMAIN Cut(strategy, skip) ->
                  [left : SUBSET DOMAIN Work, index : Nat, rows : Seq(Rows), phase : Phases]]
  /\ begun \subseteq Cells /\ ended \subseteq begun
  /\ results \in Seq(Rows)
  /\ main \in {"collecting", "draining", "abandoned", "returned", "raised"}

ScheduleInit ==
  /\ strategy \in Strategies /\ workers \in 1..MaxWorkers /\ skip \in SUBSET Cells
  /\ jobs = Cut(strategy, skip)
  /\ begun = {} /\ ended = {} /\ results = <<>>
  /\ main = "collecting"

-----------------------------------------------------------------------------
\* Mutant: the main thread is counted among the workers.
CapOneLess == workers - 1

Cap == IF Serial(strategy) THEN 1
       ELSE IF strategy = "per_task" /\ Len(Tasks) < workers THEN Len(Tasks)
       ELSE workers

InPhase(phases) == {j \in DOMAIN jobs : jobs[j].phase \in phases}

\* The place job j has come to.
At(j, n) == n \in jobs[j].left /\ \A m \in jobs[j].left : n <= m

Move(j, from, to) ==
  /\ jobs[j].phase = from
  /\ jobs' = [jobs EXCEPT ![j].phase = to]

\* The threads of the pool outlive a main thread that no longer waits for them.
PoolLives == main \in {"collecting", "draining", "abandoned"}

\* A worker thread takes the oldest job of the queue.
Take(j) ==
  /\ \A i \in InPhase({"queued"}) : j <= i
  /\ Cardinality(InPhase({"idle", "running"})) < Cap
  /\ PoolLives
  /\ Move(j, "queued", "idle")
  /\ UNCHANGED <<strategy, workers, skip, begun, ended, results, main>>

\* Mutant: the skipped cells are not counted.
SkipUncounted(j) ==
  /\ jobs[j].phase = "idle"
  /\ \E n \in DOMAIN Work :
       /\ At(j, n) /\ Work[n] \in skip
       /\ jobs' = [jobs EXCEPT ![j].left = @ \ {n}]
  /\ UNCHANGED <<strategy, workers, skip, begun, ended, results, main>>

\* Where a list runs one after the other, a skipped cell keeps its index.
Skip(j) ==
  /\ jobs[j].phase = "idle"
  /\ \E n \in DOMAIN Work :
       /\ At(j, n) /\ Work[n] \in skip
       /\ jobs' = [jobs EXCEPT ![j].left = @ \ {n}, ![j].index = @ + 1]
  /\ UNCHANGED <<strategy, workers, skip, begun, ended, results, main>>

\* reporter.cell_started, then _safe_run_one.
BeginCell(j) ==
  /\ Move(j, "idle", "running")
  /\ \E n \in DOMAIN Work :
       At(j, n) /\ Work[n] \notin skip /\ begun' = begun \cup {Work[n]}
  /\ UNCHANGED <<strategy, workers, skip, ended, results, main>>

\* Whatever happens in the cell there is a row (module RunOne).
EndCell(j) ==
  /\ jobs[j].phase = "running"
  /\ \E n \in DOMAIN Work :
       /\ At(j, n)
       /\ ended' = ended \cup {Work[n]}
       /\ jobs' = [jobs EXCEPT ![j].left = @ \ {n}, ![j].index = @ + 1,
                               ![j].rows = Append(@, ResultRow(Work[n], jobs[j].index)),
                               ![j].phase = "idle"]
  /\ UNCHANGED <<strategy, workers, skip, begun, results, main>>

EndJob(j) ==
  /\ jobs[j].left = {}
  /\ Move(j, "idle", "done")
  /\ UNCHANGED <<strategy, workers, skip, begun, ended, results, main>>

\* The reporter raises (a closed stderr), before or after a cell: what the job
\* has so far is lost and its other cells are not executed.
ReporterFails(j) ==
  /\ \E n \in DOMAIN Work :
       /\ At(j, n)
       /\ \/ Move(j, "idle", "failed") /\ Work[n] \notin skip /\ UNCHANGED ended
          \/ Move(j, "running", "failed") /\ ended' = ended \cup {Work[n]}
  /\ UNCHANGED <<strategy, workers, skip, begun, results, main>>

\* as_completed yields the jobs that have ended in any order.
Collect(j) ==
  /\ main = "collecting"
  /\ Move(j, "done", "collected")
  /\ results' = results \o jobs[j].rows
  /\ UNCHANGED <<strategy, workers, skip, begun, ended, main>>

\* Mutant: the batch goes on without the rows of a job that failed.
CollectFailureIgnored(j) ==
  /\ main = "collecting"
  /\ Move(j, "failed", "collected")
  /\ UNCHANGED <<strategy, workers, skip, begun, ended, results, main>>

\* future.result() raises; the pool is left through shutdown(wait=True).
CollectFailure(j) ==
  /\ main = "collecting"
  /\ Move(j, "failed", "collected")
  /\ main' = "draining"
  /\ UNCHANGED <<strategy, workers, skip, begun, ended, results>>

\* Ctrl-C in the main thread.  Serial: the cell that is running dies with it.
\* A pool: shutdown cancels nothing, so all that is queued is executed first.
Interrupt ==
  /\ main = "collecting"
  /\ IF Serial(strategy)
     THEN /\ main' = "raised"
          /\ jobs' = [j \in DOMAIN jobs |-> [jobs[j] EXCEPT !.phase = "failed"]]
     ELSE main' = "draining" /\ UNCHANGED jobs
  /\ UNCHANGED <<strategy, workers, skip, begun, ended, results>>

\* Ctrl-C once more, in shutdown(wait=True): the caller has the exception while
\* the threads work off the queue, which the end of the process waits for.
Abandon ==
  /\ main = "draining" /\ ~Serial(strategy)
  /\ main' = "abandoned"
  /\ UNCHANGED <<strategy, workers, skip, jobs, begun, ended, results>>

\* Mutant: the pool is left without waiting for it.
DrainedNoWait == TRUE

Drained == InPhase({"queued", "idle", "running"}) = {}

\* The exception goes on to the caller, which writes no manifest.
Raise ==
  /\ main = "draining" /\ Drained
  /\ main' = "raised"
  /\ UNCHANGED <<strategy, workers, skip, jobs, begun, ended, results>>

ReturnRows ==
  /\ main = "collecting" /\ InPhase({"collected"}) = DOMAIN jobs
  /\ main' = "returned"
  /\ UNCHANGED <<strategy, workers, skip, jobs, begun, ended, results>>

Proceed ==
  \/ \E j \in DOMAIN jobs :
       \/ Take(j) \/ Skip(j) \/ BeginCell(j) \/ EndCell(j) \/ EndJob(j)
       \/ Collect(j) \/ CollectFailure(j)
  \/ Raise \/ ReturnRows

ScheduleNext ==
  Proceed \/ Interrupt \/ Abandon \/ \E j \in DOMAIN jobs : ReporterFails(j)

\* Cells are assumed to end, and threads to be scheduled.
ScheduleSpec == ScheduleInit /\ [][ScheduleNext]_scheduleVars /\ WF_scheduleVars(Proceed)

-----------------------------------------------------------------------------
Todo == Range(Work) \ skip

(***************************************************************************)
(* Each cell is executed at most once, and a batch that returns has        *)
(* executed exactly the cells to do and returns one row of each, under     *)
(* every strategy, pool size, completion order and skip set; otherwise it  *)
(* raises (_execute_schedule, filter_schedule): Schedule implements Batch. *)
(***************************************************************************)
Promise == INSTANCE Batch WITH
  todo <- Todo, executed <- begun,
  rows <- IF main = "returned" THEN [k \in DOMAIN results |-> results[k].cell] ELSE <<>>,
  outcome <- IF main \in {"abandoned", "returned", "raised"} THEN main ELSE "running"

ImplementsBatch == Promise!Spec

(***************************************************************************)
(* Where the order of the variants is promised to be that of variant_order *)
(* ("per_task" within a task, "off" everywhere), it is: a cell begins when *)
(* those before it have ended or are skipped, however many workers run.    *)
(***************************************************************************)
InOrder ==
  strategy # "full" => \A k \in DOMAIN Work : \A n \in 1..(k - 1) :
    Work[k] \in begun /\ (Serial(strategy) \/ TaskOf[Work[n]] = TaskOf[Work[k]])
      => Work[n] \in ended \cup skip

(***************************************************************************)
(* order_index is "the position within that task" in per_task and "the     *)
(* global execution sequence" in off (docs/configuration.md:1188) whatever *)
(* is skipped, so that the rows of a run and of its resumes fit together.  *)
(***************************************************************************)
IndexStable ==
  strategy # "full" => \A m \in DOMAIN results :
    LET row == results[m]
        peers == {n \in DOMAIN Work : Serial(strategy) \/ TaskOf[Work[n]] = TaskOf[row.cell]}
    IN  \A k \in DOMAIN Work : Work[k] = row.cell =>
          row.index = Cardinality({n \in peers : n < k})

(***************************************************************************)
(* Nothing is left running: when the batch has returned or raised, no      *)
(* thread of it executes a cell in the run directory any more, nor will    *)
(* (`with ThreadPoolExecutor`).  A second Ctrl-C while the pool is left    *)
(* ("abandoned") is the one way out this does not hold for.                *)
(***************************************************************************)
NothingLeftRunning ==
  main \in {"returned", "raised"} =>
    \A j \in DOMAIN jobs : jobs[j].phase \notin {"queued", "idle", "running"}

(***************************************************************************)
(* The batch ends: no strategy leaves the main thread, or the end of the   *)
(* process after a second Ctrl-C, waiting for jobs that no worker takes.   *)
(***************************************************************************)
BatchEnds == <>(main \in {"abandoned", "returned", "raised"} /\ Drained)

=============================================================================
