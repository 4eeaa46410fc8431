---------------------------- MODULE SampleSizes ----------------------------
(***************************************************************************)
(* How many samples a report of one task says it rests on: traces of its   *)
(* variants and the epochs that two of them share, how many of them were   *)
(* reused from the cache, how the runs in the manifest ended, and how      *)
(* often an evaluator passed in k attempts.                                *)
(*                                                                         *)
(* A sample is one trace with metrics: its variant, its epoch (NoEpoch is  *)
(* the "?" of a trace without the tag; with several fixtures an epoch is   *)
(* the pair of fixture and epoch) and its test id.                         *)
(***************************************************************************)
EXTENDS Integers, FiniteSets

CONSTANTS
  Variants,   \* variants of the report
  Epochs,     \* pair labels
  NoEpoch,    \* "?"
  TaskRuns    \* fixtures of the task, each a sample of its own for pass@k

ASSUME EpochsAssumption == NoEpoch \notin Epochs /\ IsFiniteSet(Variants)

Of(samples, v) == {s \in samples : s.variant = v}
EpochsOf(samples) == {s.epoch : s \in samples} \ {NoEpoch}

\* _cached_test_id_prefixes.
CachedIds(rows) == {r.id : r \in {x \in rows : x.cached}}
Fresh(samples, rows) == {s \in samples : s.id \notin CachedIds(rows)}

VariantN(samples, v) == Cardinality(Of(samples, v))

\* Mutant: the smaller sample, as if every epoch had its pair.
PairedNSmaller(samples) ==
  CHOOSE n \in {Cardinality(EpochsOf(Of(samples, v))) : v \in Variants} :
    \A v \in Variants : n <= Cardinality(EpochsOf(Of(samples, v)))

\* Shared epochs: what the paired deltas are taken over, between two variants.
Shared(samples) == {e \in Epochs : \A v \in Variants : e \in EpochsOf(Of(samples, v))}
PairedN(samples) == IF Cardinality(Variants) = 2 THEN Cardinality(Shared(samples)) ELSE 0

\* The sizes of build_report.
Sizes(samples, rows) ==
  [n |-> [v \in Variants |-> VariantN(samples, v)],
   cached |-> [v \in Variants |-> Cardinality(Of(samples, v) \ Fresh(samples, rows))],
   fresh |-> [v \in Variants |->
                VariantN(samples, v) - Cardinality(Of(samples, v) \ Fresh(samples, rows))],
   paired |-> PairedN(samples),
   freshPaired |-> PairedN(Fresh(samples, rows))]

-----------------------------------------------------------------------------

Class(r, ids) ==
  IF r.status = "timeout" THEN "timeout"
  ELSE IF r.status \in {"failed", "setup_failed"} THEN "failed"
  ELSE IF r.id \notin ids THEN "missing" ELSE "success"

\* _build_reliability, ids being the test ids of the traces.
Reliability(rows, ids, v) ==
  [c \in {"success", "timeout", "failed", "missing"} |->
     Cardinality({r \in rows : r.variant = v /\ Class(r, ids) = c})]

-----------------------------------------------------------------------------
(***************************************************************************)
(* pass@k and pass^k of one evaluator.  A scored cell is an attempt at a   *)
(* task-run: its variant, task-run, epoch, and whether it passed.          *)
(***************************************************************************)
Attempts(scored, v, run) == {s \in scored : s.variant = v /\ s.run = run}

\* _task_run_groups.
RunsOf(scored, v) == {s.run : s \in {x \in scored : x.variant = v}}

\* The rows of _build_pass_k_rows: of n task-runs of a variant any have passed
\* once, all every time; the k of their label is that of the largest task-run, and
\* with a smaller minK the report warns.
PassK(scored) ==
  LET runs(P(_, _)) == [v \in Variants |-> {r \in RunsOf(scored, v) : P(v, r)}]
      sizes == {Cardinality(Attempts(scored, s.variant, s.run)) : s \in scored}
  IN [n |-> [v \in Variants |-> Cardinality(RunsOf(scored, v))],
      any |-> runs(LAMBDA v, r : \E a \in Attempts(scored, v, r) : a.passed),
      all |-> runs(LAMBDA v, r : \A a \in Attempts(scored, v, r) : a.passed),
      k |-> CHOOSE k \in sizes : \A m \in sizes : m <= k,
      minK |-> CHOOSE k \in sizes : \A m \in sizes : k <= m]

=============================================================================
