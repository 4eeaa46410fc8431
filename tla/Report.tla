------------------------------- MODULE Report -------------------------------
(***************************************************************************)
(* The steps by which `analyze` turns answers of judges, scores files,     *)
(* traces and manifest rows into the numbers of a report, each on every    *)
(* input from small sets: a judge sampled several times, the scores a task *)
(* is shown with, the sizes of the samples, the markers of a family of     *)
(* tests, the rates of attempts that passed, the metrics of a trace.       *)
(* An input grows by one answer, name, cell, row or chat span at a time.   *)
(***************************************************************************)
EXTENDS Corrections, JudgeSamples, Slugs, SampleSizes, Telemetry

CONSTANTS
  MaxSamples,       \* bound: runner.judge_samples
  MaxRows,          \* bound: rows of a family
  MaxCells,         \* bound: cells with a sample or a manifest row
  PRange,           \* p-values, in units
  Words,            \* words names are made of
  MaxTaskWords, MaxVariantWords, MaxFixtureWords, \* bounds: words of a name
  Counts,           \* what a tag may count, and thresholds
  MaxChats          \* bound: chat spans of a trace

ASSUME BoundsAssumption ==
  /\ {MaxSamples, MaxRows, MaxCells, MaxTaskWords, MaxVariantWords, MaxFixtureWords, MaxChats}
       \subseteq Nat
  /\ PRange \subseteq Nat /\ Counts \subseteq Nat

VARIABLES
  step,   \* the step taken: "none", "sample", "load", "count", "attempt", "mark", "measure"
  in,     \* what went into it
  out     \* what came out

vars == <<step, in, out>>

Init == step = "none" /\ in = <<>> /\ out = <<>>

-----------------------------------------------------------------------------
Aggregates == {"median", "mean", "majority"}
Corrected == {"holm", "benjamini-hochberg"}

\* Another judge process answered: what evaluate and evaluate_batch make of the
\* same answers.
Sample ==
  /\ step \in {"none", "sample"} /\ Len(in) < MaxSamples
  /\ step' = "sample"
  /\ \E r \in Response :
       /\ in' = Append(in, r)
       /\ out' = [single |-> [j \in Judges |-> [i \in DOMAIN in' |-> InvokeSingle(in'[i], j)]],
                  batch |-> [j \in Judges |-> [i \in DOMAIN in' |-> InvokeBatch(in'[i], j)]]]

Names(n) == UNION {[1..k -> Words] : k \in 1..n}

\* The scores files of up to two tasks, each run by the same two variants on one
\* fixture (whose label is empty) or on two.  The report lists the variants that
\* left metrics or a manifest row; the files are there for all.
Load ==
  /\ step = "none" /\ step' = "load"
  /\ \E tasks \in SUBSET Names(MaxTaskWords), variants \in SUBSET Names(MaxVariantWords),
        fixtures \in {{<<>>}} \cup {f \in SUBSET Names(MaxFixtureWords) : Cardinality(f) = 2} :
       /\ Cardinality(tasks) \in 1..2 /\ Cardinality(variants) = 2
       /\ \E listed \in SUBSET variants \ {{}} :
            /\ in' = [tasks |-> tasks, variants |-> variants, fixtures |-> fixtures, listed |-> listed]
            /\ LET slugs == {RunSlug(c[1], c[2], c[3], c[4]) : c \in tasks \X variants \X fixtures \X Epochs}
               IN out' = [c \in tasks \X listed \X fixtures \X Epochs |->
                            ShownFor(c[1], c[2], c[3], c[4], listed, slugs)]

Statuses == {"completed", "timeout", "failed", "setup_failed"}

\* A cell of the matrix: its manifest row, if any, and the traces found for it:
\* none, that of the row, the same without the epoch tag, the same without its root
\* span (no metrics can be taken from it), or that of the row and one of an earlier
\* execution.
Cell ==
  {c \in [variant : Variants, epoch : Epochs, status : Statuses \cup {"none"},
          cached : BOOLEAN, trace : {"none", "own", "untagged", "rootless", "both"}] :
     c.cached => c.status = "completed"}

SamplesOf(cells) ==
  LET id(c, which) == <<c.variant, c.epoch, which>>
      seen(traces, which, epoch(_)) ==
        {[variant |-> c.variant, epoch |-> epoch(c), id |-> id(c, which)] :
           c \in {d \in cells : d.trace \in traces}}
  IN seen({"own", "both"}, "own", LAMBDA c : c.epoch)
       \cup seen({"untagged"}, "own", LAMBDA c : NoEpoch)
       \cup seen({"both"}, "earlier", LAMBDA c : c.epoch)

RowsOf(cells) ==
  {[variant |-> c.variant, status |-> c.status, cached |-> c.cached,
    id |-> <<c.variant, c.epoch, "own">>] : c \in {d \in cells : d.status # "none"}}

\* The test ids of all traces, those without metrics included.
TraceIds(cells) ==
  {s.id : s \in SamplesOf(cells)}
    \cup {<<c.variant, c.epoch, "own">> : c \in {d \in cells : d.trace = "rootless"}}

\* One more cell is counted.
Count1(cells) ==
  LET samples == SamplesOf(cells)
      rows == RowsOf(cells)
  IN [sizes |-> Sizes(samples, rows),
      reliability |-> [v \in Variants |-> Reliability(rows, TraceIds(cells), v)]]

CountCell ==
  /\ step \in {"none", "count"} /\ step' = "count"
  /\ LET cells == IF step = "none" THEN {} ELSE in
     IN /\ Cardinality(cells) < MaxCells
        /\ \E c \in Cell :
             /\ \A d \in cells : <<d.variant, d.epoch>> # <<c.variant, c.epoch>>
             /\ in' = cells \cup {c}
        /\ out' = Count1(in')

\* One more cell has been scored by an evaluator that passes or fails it.
Attempt ==
  /\ step \in {"none", "attempt"} /\ step' = "attempt"
  /\ LET scored == IF step = "none" THEN {} ELSE in
     IN /\ \E a \in [variant : Variants, run : TaskRuns, epoch : Epochs, passed : BOOLEAN] :
             /\ \A b \in scored : <<b.variant, b.run, b.epoch>> # <<a.variant, a.run, a.epoch>>
             /\ in' = scored \cup {a}
        /\ out' = PassK(in')

\* The raw marker and the p-value come from the same bootstrap: an interval without
\* 0 has at most half a level of its medians on the other side of 0, one with 0 at
\* least half a level on both.
RawMarker(r) ==
  /\ r.significant => r.p <= Alpha
  /\ ~r.significant => r.p >= Alpha /\ ~r.regression

\* A row of the report before the correction.
Row ==
  [n : {1}, p : {None}, significant : {None}, regression : {FALSE}]
    \cup [n : {MinReliableN - 1}, p : PRange, significant : {None}, regression : {FALSE}]
    \cup {r \in [n : {MinReliableN}, p : PRange, significant : BOOLEAN, regression : BOOLEAN] :
            RawMarker(r)}

\* One more row in the family.
Mark ==
  /\ step \in {"none", "mark"} /\ Len(in) < MaxRows
  /\ step' = "mark"
  /\ \E r \in Row : in' = Append(in, r)
  /\ out' = [m \in Corrected \cup {"none"} |-> Markers(in', m)]

(***************************************************************************)
(* A trace as the agent emitted it, and what is left of it: any tag lost   *)
(* or garbled, or the root span lost.  (The tag for cached tokens may be   *)
(* absent from the start.)                                                 *)
(***************************************************************************)
Left(v) == {v, NoTag, BadTag}
Chats == [input : Counts, output : Counts, cache : {1, NoTag}]
Remains(chat) == [input : Left(chat.input), output : Left(chat.output), cache : {chat.cache}]

BeginTrace ==
  /\ step = "none" /\ step' = "measure"
  /\ \E turns, cost \in Counts :
       /\ in' = [root |-> TRUE, turns |-> turns, cost |-> cost, tools |-> 1, chats |-> <<>>]
       /\ \E root \in BOOLEAN, t \in Left(turns), c \in Left(cost) :
            out' = [root |-> root, turns |-> t, cost |-> c, tools |-> 1, chats |-> <<>>]

\* One more chat span.
Measure ==
  /\ step = "measure" /\ Len(in.chats) < MaxChats /\ UNCHANGED step
  /\ \E chat \in Chats :
       /\ in' = [in EXCEPT !.chats = Append(@, chat)]
       /\ \E left \in Remains(chat) : out' = [out EXCEPT !.chats = Append(@, left)]

Rest == step # "none" /\ UNCHANGED vars

Next == Sample \/ Load \/ CountCell \/ Attempt \/ Mark \/ BeginTrace \/ Measure \/ Rest
Spec == Init /\ [][Next]_vars

-----------------------------------------------------------------------------
(* Properties. *)

\* The markers that survive a correction are those the method promises.  Holm
\* rejects exactly what Bonferroni-based closed testing rejects, so it keeps its
\* family-wise guarantee with ties and at the first failing rank; Benjamini-Hochberg
\* exactly what lies below the largest level that enough p-values reach.  Markers are
\* taken away, never granted, and only within the family; a regression keeps its flag
\* exactly as long as its marker; what Holm leaves, Benjamini-Hochberg leaves; and a
\* row keeps its marker or not wherever it stands (_holm_bonferroni,
\* _benjamini_hochberg, _apply_mc_correction, _apply_baseline_mc_correction).
MarkersExact ==
  step = "mark" =>
    LET p == PValues(in)
        kept(m) == {i \in Testable(in) : in[i].significant = TRUE /\ out[m][i].significant = TRUE}
        marked == {i \in Testable(in) : in[i].significant = TRUE}
    IN /\ kept("holm") = marked \cap ClosedTesting(p)
       /\ kept("benjamini-hochberg") = marked \cap UpToThreshold(p)
       /\ kept("holm") \subseteq kept("benjamini-hochberg")
       /\ out["none"] = in
       /\ \A m \in Corrected, i \in DOMAIN in :
            /\ \/ out[m][i].significant = in[i].significant
               \/ in[i].significant = TRUE /\ out[m][i].significant = FALSE
            /\ i \notin Testable(in) => out[m][i] = in[i]
            /\ out[m][i].regression = (in[i].regression /\ out[m][i].significant = TRUE)
       /\ \A m \in Corrected : Markers(Tail(in) \o <<Head(in)>>, m) = Tail(out[m]) \o <<Head(out[m])>>

\* The score of a judge is that of a fair aggregate of its usable samples: as many
\* at most half of them above it as below (median), within half a point of the
\* mean with halves up, or the most frequent; it does not depend on the order of the
\* samples, and there is none exactly if no sample was usable, when the failure
\* reported is one no other outnumbers (_aggregate_scores, _finalize).
SamplesAgree ==
  step = "sample" =>
    \A j \in Judges, m \in Aggregates :
      LET per == out.single[j]
          f == Finalize(per, m)
          x == ScoresOf(per)
          n == Cardinality(DOMAIN x)
          number(P(_)) == Cardinality({i \in DOMAIN x : P(x[i])})
      IN /\ (f.score = NoScore) <=> (n = 0)
         /\ f.score = Finalize(Reverse(per), m).score
         /\ f.score = Finalize(Tail(per) \o <<Head(per)>>, m).score
         /\ n = 0 => \A s \in ToSet(per) : Outcomes(per, s.outcome) <= Outcomes(per, f.outcome)
         /\ n > 0 =>
              /\ f.outcome \in {"ok", "ok_nonzero"}
              /\ \E i \in DOMAIN x : x[i] <= f.score
              /\ \E i \in DOMAIN x : x[i] >= f.score
              /\ m = "median" => /\ 2 * number(LAMBDA y : y < f.score) <= n
                                 /\ 2 * number(LAMBDA y : y > f.score) <= n
              /\ m = "mean" => 2 * n * f.score - n <= 2 * Total(x) /\ 2 * Total(x) < 2 * n * f.score + n
              /\ m = "majority" => \A y \in Range(x) : Count(x, y) <= Count(x, f.score)

\* Judging the criteria of a run in one call gives each the score that a call of
\* its own with the same answers would have given it, and the same outcome but for a
\* criterion missing from the answer of a process that failed (_invoke_batch,
\* _invoke_single).
BatchLikeSingle ==
  step = "sample" =>
    \A j \in Judges :
      /\ \A m \in Aggregates : Finalize(out.batch[j], m).score = Finalize(out.single[j], m).score
      /\ \A i \in DOMAIN in :
           \/ out.batch[j][i] = out.single[j][i]
           \/ in[i].how = "answer" /\ ~in[i].clean /\ in[i].says[j] = Missing

\* The report of a task shows every cell with the scores of that cell, and no scores
\* of another task, epoch or fixture, unless the name of a fixture holds the mark of an
\* epoch.  Scores of another variant get in only where the report does not list it, for
\* want of metrics and manifest rows, and its name ends in "_" and a name that is
\* listed (run_slug, parse_slug, _load_judge_raw).
ScoresFindTheirCell ==
  (step = "load" /\ \A f \in in.fixtures : ToSet(f) \cap EpochWords = {}) =>
    \A task \in in.tasks, v \in in.listed, f \in in.fixtures, e \in Epochs :
      LET shown == out[<<task, v, f, e>>] IN
      /\ RunSlug(task, v, f, e) \in shown
      /\ shown \subseteq {RunSlug(task, u, f, e) :
                           u \in {v} \cup {w \in in.variants \ in.listed : Ends(w, v)}}

\* The sizes a report discloses are those of samples that exist: reused and fresh
\* ones add up, pairs are the epochs both variants have (as many as the epochs of
\* each and not of both), the pairs that go when reused samples are left out are
\* backed by reused samples, every run in the manifest has one reliability class, and
\* no more runs succeed than completed, nor than left metrics or a trace without its
\* root span (build_report, _build_reliability).  The attempts that passed are at
\* least minK for every task-run that pass^k counts and at most k for every one that
\* pass@k counts, and a variant that passed wherever another did, on the same cells,
\* is shown behind it by neither (_build_pass_k_rows).
SizesHonest ==
  /\ step = "count" =>
       LET s == out.sizes
           samples == SamplesOf(in)
           epochs(v) == EpochsOf(Of(samples, v))
           ended(v, statuses) == Cardinality({c \in in : c.variant = v /\ c.status \in statuses})
       IN /\ \A v \in Variants :
               LET class == out.reliability[v] IN
               /\ s.fresh[v] >= 0
               /\ s.paired <= s.n[v] /\ s.freshPaired <= s.fresh[v]
               /\ class["success"] + class["timeout"] + class["failed"] + class["missing"]
                    = ended(v, Statuses)
               /\ class["success"] <= ended(v, {"completed"})
               /\ class["success"]
                    <= s.n[v] + Cardinality({c \in in : c.variant = v /\ c.trace = "rootless"})
          /\ s.freshPaired <= s.paired
          /\ \A v, w \in Variants : Variants = {v, w} /\ v # w =>
               /\ s.paired - s.freshPaired <= s.cached[v] + s.cached[w]
               /\ Cardinality(epochs(v)) + Cardinality(epochs(w))
                    = s.paired + Cardinality(epochs(v) \cup epochs(w))
  /\ step = "attempt" =>
       LET cells(v, results) == {<<a.run, a.epoch>> : a \in {b \in in : b.variant = v /\ b.passed \in results}}
           passed(v) == Cardinality(cells(v, {TRUE}))
           failed(v) == Cardinality(cells(v, {FALSE}))
       IN /\ \A v \in Variants :
               /\ passed(v) \in (Cardinality(out.all[v]) * out.minK)..(Cardinality(out.any[v]) * out.k)
               /\ failed(v) \in ((out.n[v] - Cardinality(out.any[v])) * out.minK)
                                  ..((out.n[v] - Cardinality(out.all[v])) * out.k)
          /\ \A v, w \in Variants :
               (cells(v, BOOLEAN) = cells(w, BOOLEAN) /\ cells(v, {TRUE}) \subseteq cells(w, {TRUE})) =>
                 /\ Cardinality(out.any[v]) <= Cardinality(out.any[w])
                 /\ Cardinality(out.all[v]) <= Cardinality(out.all[w])

\* Losing telemetry never opens a gate: whatever tags are lost or garbled, a gate
\* that passes on what is left passes on the whole trace, on any metric but the
\* optional cached tokens and with any comparison, == and != included; and nothing
\* passes without a root span (extract_metrics, metric_value, eval_metric).
GateFailsClosed ==
  step = "measure" =>
    \A name \in MetricNames \ {"cache"}, op \in Operators, threshold \in Counts :
      Passes(out, name, op, threshold) => out.root /\ Passes(in, name, op, threshold)

=============================================================================
