----------------------------- MODULE ScoresFile -----------------------------
(***************************************************************************)
(* The file <slug>.scores.json of one cell.  Three writers share it: the   *)
(* cell's execution replaces it by its inline scores, `analyze` merges     *)
(* metric scores into it and later judge scores.  Every writer reads it    *)
(* first (or not at all), and writes the whole file back in place.         *)
(*                                                                         *)
(* Scores are abstracted to where they come from: the number of the        *)
(* execution they describe, 0 for none.  A judge's entry also tells a      *)
(* verdict from a call that failed (score null).                           *)
(***************************************************************************)
EXTENDS Naturals

CONSTANTS
  Judges,    \* names of judge evaluators
  MaxExec,   \* bound: executions of one cell
  NoEntry,   \* "no score under this judge's name"
  Torn       \* a file whose writing was cut short: not JSON

Execs == 1..MaxExec

Entry == [of : Execs, ok : BOOLEAN]
Verdicts == [Judges -> Entry \cup {NoEntry}]
Scores == [inline : 0..MaxExec, metric : 0..MaxExec, judge : Verdicts]

ASSUME ScoresAssumption == /\ MaxExec \in Nat \ {0}
                           /\ NoEntry \notin Entry
                           /\ Torn \notin Scores

Unjudged == [j \in Judges |-> NoEntry]

\* An absent file, and what an unreadable one is taken for.
NoScores == [inline |-> 0, metric |-> 0, judge |-> Unjudged]

Read(f) == IF f = Torn THEN NoScores ELSE f

\* _write_scores_file: the inline scores of an execution replace everything.
InlineScores(e) == [NoScores EXCEPT !.inline = e]

\* _merge_scores_file, for the metric evaluators of the cell.
MergeMetrics(f, e) == [Read(f) EXCEPT !.metric = e]

\* Mutant: only a verdict counts as a recorded score.
PendingUnscored(existing, judges, force) ==
  {j \in judges : force \/ existing.judge[j] = NoEntry \/ ~existing.judge[j].ok}

\* The judges an analysis has to call: presence of a score counts, not its value.
Pending(existing, judges, force) ==
  IF force THEN judges ELSE {j \in judges : existing.judge[j] = NoEntry}

\* Mutant: judge scores only, as if the file were the judges' own.
MergeJudgesOnly(existing, pending, scores) ==
  [NoScores EXCEPT !.judge =
     [j \in Judges |-> IF j \in pending THEN scores[j] ELSE existing.judge[j]]]

\* _write_ctx: what was read when work was collected, with the pending judges'
\* scores replaced.
MergeJudges(existing, pending, scores) ==
  [existing EXCEPT !.judge =
     [j \in Judges |-> IF j \in pending THEN scores[j] ELSE existing.judge[j]]]

=============================================================================
