------------------------------ MODULE Analyze ------------------------------
(***************************************************************************)
(* One `analyze` of a run: it loads the manifest, fetches the traces (from *)
(* the run directory, or from Jaeger while ingestion catches up), checks   *)
(* the metric gates of every cell, builds the report and ends green (exit  *)
(* 0) or red.  The run is resumed meanwhile or before: cells that failed   *)
(* are executed again and may leave a trace or none.                       *)
(*                                                                         *)
(* A trace is told from another by its cell (the slug), its execution (the *)
(* test id), and what it yields: measurements that pass the gates, that    *)
(* fail them (a tag that is absent included), or no metrics at all.        *)
(***************************************************************************)
EXTENDS Naturals, FiniteSets

CONSTANTS
  Variants, Epochs,  \* the matrix of the one task
  Shaky,        \* cells whose executions may fail, or leave a bad trace or none
  Collectors,   \* values runner.collector may have
  MinEpochs,    \* values of --min-epochs, 0 when it is not given
  Limit,        \* trace_fetch_limit
  Retries,      \* trace_fetch_retries
  MaxExec,      \* bound: executions of one cell
  MaxAgain,     \* bound: cells one resume executes again
  NoManifest    \* results.json is missing or unreadable

Cells == Variants \X Epochs

ASSUME AnalyzeAssumption ==
  /\ Shaky \subseteq Cells /\ IsFiniteSet(Cells)
  /\ Collectors \subseteq {"file", "jaeger"}
  /\ MinEpochs \subseteq Nat /\ 0 \in MinEpochs
  /\ Limit \in Nat /\ Retries \in Nat /\ MaxExec \in Nat \ {0}
  /\ MaxAgain \in Nat

Trace == [cell : Cells, exec : 1..MaxExec, kind : {"pass", "fail", "opaque"}]
Row == [status : {"completed", "failed"}, exec : 1..MaxExec]
Rows == [Cells -> Row]
Options == [gated : BOOLEAN, minEpochs : MinEpochs, paired : BOOLEAN, allowEmpty : BOOLEAN]

VARIABLES
  collector,   \* "file" or "jaeger"
  exec,        \* exec[c]: executions of the cell so far
  rows,        \* what the manifest says of every cell, or NoManifest
  todo, done,  \* of the resume under way: cells to execute, rows it will record
  store,       \* traces a fetch can find
  flight,      \* traces exported to Jaeger, not ingested yet
  pc, opts, known,   \* the analysis: its options, the rows it has loaded,
  attempt, got,      \* fetches so far, traces fetched last,
  unwell, failed,    \* cells its coverage line complains of, cells with a failed gate
  outcome            \* and how it ended

run == <<collector, exec, rows, todo, done, store, flight>>
analysis == <<pc, opts, known, attempt, got, unwell, failed, outcome>>
vars == <<run, analysis>>

Default == [gated |-> FALSE, minEpochs |-> 0, paired |-> FALSE, allowEmpty |-> FALSE]

NoRows == [c \in {} |-> 0]

TypeOK ==
  /\ collector \in Collectors
  /\ exec \in [Cells -> 1..MaxExec]
  /\ rows = NoManifest \/ rows \in Rows
  /\ todo \subseteq Cells
  /\ DOMAIN done \subseteq Cells /\ \A c \in DOMAIN done : done[c] \in Row
  /\ store \subseteq Trace /\ flight \subseteq Trace
  /\ pc \in {"new", "fetching", "gating", "reporting", "ended"}
  /\ opts \in Options
  /\ known = NoManifest \/ known \in Rows
  /\ attempt \in 0..(IF Retries = 0 THEN 1 ELSE Retries)
  /\ got \subseteq Trace
  /\ failed \subseteq Cells /\ unwell \subseteq Cells
  /\ outcome \in {"none", "green", "red"}

-----------------------------------------------------------------------------
\* What execution e of a cell may end as, and the traces it may leave.
Statuses(c) == IF c \in Shaky THEN {"completed", "failed"} ELSE {"completed"}
Left(c, e) ==
  IF c \in Shaky THEN {{}} \cup {{t} : t \in [cell : {c}, exec : {e}, kind : {"pass", "fail", "opaque"}]}
  ELSE {{[cell |-> c, exec |-> e, kind |-> "pass"]}}

\* Every cell was executed once.  The manifest is there unless the process was
\* killed before the end or could not write it.
Init ==
  /\ collector \in Collectors
  /\ exec = [c \in Cells |-> 1]
  /\ \E status \in [Cells -> {"completed", "failed"}] :
       /\ \A c \in Cells : status[c] \in Statuses(c)
       /\ rows \in {NoManifest, [c \in Cells |-> [status |-> status[c], exec |-> 1]]}
  /\ todo = {} /\ done = NoRows
  /\ \E left \in [Cells -> UNION {Left(c, 1) : c \in Cells}] :
       /\ \A c \in Cells : left[c] \in Left(c, 1)
       /\ LET all == UNION {left[c] : c \in Cells} IN
          IF collector = "file" THEN store = all /\ flight = {}
          ELSE store = {} /\ flight = all
  /\ pc = "new" /\ attempt = 0 /\ got = {} /\ failed = {} /\ unwell = {} /\ outcome = "none"
  /\ known = NoManifest
  /\ opts = Default

-----------------------------------------------------------------------------
\* `run --resume`: without a readable manifest every cell is executed again.
Incomplete == {c \in Cells : rows = NoManifest \/ rows[c].status # "completed"}

Resume ==
  /\ todo = {} /\ done = NoRows
  /\ Incomplete # {} /\ Cardinality(Incomplete) <= MaxAgain
  /\ \A c \in Incomplete : exec[c] < MaxExec
  /\ todo' = Incomplete
  /\ UNCHANGED <<collector, exec, rows, done, store, flight, analysis>>

\* A trace file replaces the one of an earlier execution; if there is none to
\* copy the earlier one stays.  Jaeger keeps all.
Execute(c) ==
  /\ c \in todo
  /\ todo' = todo \ {c}
  /\ exec' = [exec EXCEPT ![c] = @ + 1]
  /\ \E status \in Statuses(c) :
       done' = [d \in DOMAIN done \cup {c} |->
                  IF d = c THEN [status |-> status, exec |-> exec'[c]] ELSE done[d]]
  /\ \E left \in Left(c, exec'[c]) :
       IF collector = "jaeger" THEN flight' = flight \cup left /\ UNCHANGED store
       ELSE /\ store' = IF left = {} THEN store ELSE {t \in store : t.cell # c} \cup left
            /\ UNCHANGED flight
  /\ UNCHANGED <<collector, rows, analysis>>

\* The manifest is rewritten at the very end.
Record ==
  /\ todo = {} /\ done # NoRows
  /\ rows' = [c \in Cells |-> IF c \in DOMAIN done THEN done[c] ELSE rows[c]]
  /\ done' = NoRows
  /\ UNCHANGED <<collector, exec, todo, store, flight, analysis>>

\* The resume is killed: its results are lost, and with them the manifest when
\* it was being written.
KillResume ==
  /\ todo # {} \/ done # NoRows
  /\ rows' \in {rows} \cup (IF todo = {} THEN {NoManifest} ELSE {})
  /\ todo' = {} /\ done' = NoRows
  /\ UNCHANGED <<collector, exec, store, flight, analysis>>

\* Jaeger ingests a trace, in any order.
Ingest(t) ==
  /\ t \in flight
  /\ flight' = flight \ {t} /\ store' = store \cup {t}
  /\ UNCHANGED <<collector, exec, rows, todo, done, analysis>>

-----------------------------------------------------------------------------
\* run_analysis loads the manifest before anything else.
Load ==
  /\ pc = "new"
  /\ pc' = "fetching" /\ known' = rows
  /\ UNCHANGED <<run, opts, attempt, got, unwell, failed, outcome>>

\* Only completed runs are guaranteed to emit a trace.
Expected == Cardinality({c \in Cells : known[c].status = "completed"})

\* Mutant: any trace will do.
EnoughAny(traces) == known = NoManifest \/ traces # {}

Enough(traces) == known = NoManifest \/ Cardinality(traces) >= Expected

\* What Jaeger answers: as many as the limit allows, whichever.
Answers ==
  {s \in SUBSET store : Cardinality(s) = IF Cardinality(store) < Limit
                                         THEN Cardinality(store) ELSE Limit}

LastAttempt == attempt + 1 >= Retries

\* One round of _fetch_traces_for_run.
Fetch ==
  /\ pc = "fetching" /\ collector = "jaeger"
  /\ \E s \in Answers :
       /\ got' = s
       /\ pc' = IF Enough(s) \/ LastAttempt THEN "gating" ELSE "fetching"
  /\ attempt' = attempt + 1
  /\ UNCHANGED <<run, opts, known, unwell, failed, outcome>>

\* _collect_file_traces: what the run directory holds, once.
ReadFiles ==
  /\ pc = "fetching" /\ collector = "file"
  /\ got' = store /\ pc' = "gating"
  /\ UNCHANGED <<run, opts, known, attempt, unwell, failed, outcome>>

\* Jaeger does not answer, or not with traces: the exception ends the command.
FetchFails ==
  /\ pc = "fetching" /\ collector = "jaeger"
  /\ pc' = "ended" /\ outcome' = "red"
  /\ UNCHANGED <<run, opts, known, attempt, got, unwell, failed>>

-----------------------------------------------------------------------------
\* Mutant: a trace of the cell counts, whichever execution left it.
CoveredBySlug(c) == known[c].status = "completed" /\ \E t \in got : t.cell = c

\* A run is ok when it completed and a trace with its own test id is there.
Covered(c) ==
  /\ known[c].status = "completed"
  /\ \E t \in got : t.cell = c /\ t.exec = known[c].exec

\* _report_run_coverage: the failed runs and those missing a trace.
Uncovered == IF known = NoManifest THEN {} ELSE {c \in Cells : ~Covered(c)}

\* The traces the gates are checked on: the first fetched of each cell.
Firsts == {f \in SUBSET got :
             /\ {t.cell : t \in f} = {t.cell : t \in got}
             /\ \A t, u \in f : t.cell = u.cell => t = u}

\* Mutant: cells without a trace are not looked up in the manifest.
NoTelemetryOff(firsts) == {}

\* _fail_missing_telemetry_runs: the manifest's cells the trace loop never saw.
NoTelemetry(firsts) ==
  IF known = NoManifest THEN {} ELSE Cells \ {t.cell : t \in firsts}

\* _run_metric_evaluators.  (Options are chosen where they are first looked at.)
Gate ==
  /\ pc = "gating"
  /\ \E firsts \in Firsts, gated \in BOOLEAN :
       /\ opts' = [opts EXCEPT !.gated = gated]
       /\ failed' = IF gated
                    THEN {t.cell : t \in {u \in firsts : u.kind # "pass"}} \cup NoTelemetry(firsts)
                    ELSE {}
  /\ unwell' = Uncovered
  /\ pc' = "reporting"
  /\ UNCHANGED <<run, known, attempt, got, outcome>>

\* The traces that yield metrics.
Metrics == {t \in got : t.kind # "opaque"}

\* Variants of the report: every one the manifest or a trace knows.
Reported == {v \in Variants : known # NoManifest \/ \E t \in Metrics : t.cell[1] = v}

EpochsOf(v) == {t.cell[2] : t \in {u \in Metrics : u.cell[1] = v}}
Smallest(s) == IF s = {} THEN 0 ELSE CHOOSE n \in s : \A m \in s : n <= m

\* Mutant: the smallest sample, paired or not.
GateEpochsUnpaired(paired) ==
  Smallest({Cardinality({t \in Metrics : t.cell[1] = v}) : v \in Reported})

\* _gate_epochs: shared epochs of a paired report, otherwise the smallest number
\* of traces.
GateEpochs(paired) ==
  IF paired /\ Cardinality(Reported) = 2
  THEN Cardinality({e \in Epochs : \A v \in Reported : e \in EpochsOf(v)})
  ELSE Smallest({Cardinality({t \in Metrics : t.cell[1] = v}) : v \in Reported})

\* Without metrics and manifest a gated analysis is red, with --allow-empty too.
Empty(o) == IF failed # {} \/ o.gated \/ ~o.allowEmpty THEN "red" ELSE "green"

\* The rest of run_analysis.  A baseline that cannot be read, or a regression
\* against it, makes it red as well (module Baselines); rendering and judges do not
\* matter.
Conclude ==
  /\ pc = "reporting" /\ pc' = "ended"
  /\ opts' \in {o \in Options : o.gated = opts.gated}
  /\ \E baseline \in BOOLEAN :
       outcome' = IF Metrics = {} /\ known = NoManifest THEN Empty(opts')
                  ELSE IF \/ failed # {} \/ baseline
                          \/ GateEpochs(opts'.paired) < opts'.minEpochs THEN "red"
                  ELSE "green"
  /\ UNCHANGED <<run, known, attempt, got, unwell, failed>>

Advance == Load \/ Fetch \/ ReadFiles \/ Gate \/ Conclude

Rest == pc = "ended" /\ UNCHANGED vars

\* Bound: the run is left alone once the analysis has ended.
Run ==
  /\ pc # "ended"
  /\ \/ Resume \/ Record \/ KillResume
     \/ \E c \in Cells : Execute(c)
     \/ \E t \in flight : Ingest(t)

Next == Run \/ Advance \/ FetchFails \/ Rest

Spec == Init /\ [][Next]_vars

-----------------------------------------------------------------------------
\* A green analysis of gated cells has seen a passing trace of every cell in the
\* manifest, and of at least one cell without a manifest, --allow-empty or not:
\* gates fail closed (metrics_service, run_analysis).
FailClosed ==
  (outcome = "green" /\ opts.gated) =>
    IF known = NoManifest THEN \E t \in got : t.kind = "pass"
    ELSE \A c \in Cells : \E t \in got : t.cell = c /\ t.kind = "pass"

\* When the coverage line says every run is ok, the gates were about the
\* executions the manifest records (file collector): a gate that passed on a
\* trace left by an earlier execution never goes with full coverage.
StaleIsExposed ==
  (/\ outcome = "green" /\ opts.gated /\ known # NoManifest /\ collector = "file"
   /\ unwell = {}) =>
      \A c \in Cells : [cell |-> c, exec |-> known[c].exec, kind |-> "pass"] \in got

\* A green analysis with --min-epochs N has N epochs of every variant, the same
\* ones if the report pairs them; how often Jaeger has an epoch makes no difference
\* there.  (Unpaired, Jaeger's duplicates do count.)
EpochsAreReal ==
  (outcome = "green" /\ (known # NoManifest \/ Metrics # {})) =>
    /\ (opts.paired /\ Cardinality(Reported) = 2) =>
         \E s \in SUBSET Epochs : /\ Cardinality(s) = opts.minEpochs
                                 /\ s \X Reported \subseteq {<<t.cell[2], t.cell[1]>> : t \in Metrics}
    /\ collector = "file" =>
         \A v \in Reported : Cardinality(EpochsOf(v)) >= opts.minEpochs

\* Polling that stops before its last attempt has all it waits for, as long as
\* no trace of an execution that failed or was superseded makes up the number.
NotStoppedEarly ==
  (pc = "gating" /\ collector = "jaeger" /\ known # NoManifest
    /\ (attempt < Retries)
    /\ \A t \in got : known[t.cell] = [status |-> "completed", exec |-> t.exec]) =>
    \A c \in Cells : known[c].status = "completed" =>
      [cell |-> c, exec |-> known[c].exec] \in {[cell |-> t.cell, exec |-> t.exec] : t \in got}

=============================================================================
