---------------------------- MODULE JudgeSamples ----------------------------
(***************************************************************************)
(* What JudgeExecutor makes of the answers of the judge model: one process *)
(* per sample, for one evaluator or for a batch of them, read into a score *)
(* or a failure; the samples of an evaluator aggregated into its score.    *)
(*                                                                         *)
(* A response is what became of a process: it did not answer ("timeout",   *)
(* "not_found", "oserror"), or it did with a return code that is 0 or not, *)
(* and says something about every judge or nothing that can be parsed.     *)
(***************************************************************************)
EXTENDS Integers, Sequences, SequencesExt

CONSTANTS
  Judges,      \* evaluators
  ScoreRange,  \* scores a judge may give
  Missing, Garbled, \* no score under the judge's name; one that is no number
  NoScore      \* Python's None

ASSUME ScoreAssumption == ScoreRange \subseteq Int /\ NoScore \notin Int

Says == ScoreRange \cup {Missing, Garbled}
Response ==
  [how : {"timeout", "not_found", "oserror"}]
    \cup [how : {"noise"}, clean : BOOLEAN]
    \cup [how : {"answer"}, clean : BOOLEAN, says : [Judges -> Says]]

Failure(outcome) == [score |-> NoScore, outcome |-> outcome]

NoAnswer(r) == Failure(IF r.how = "oserror" THEN "error" ELSE r.how)

\* Output without a usable object: the return code is to blame, if it is not 0.
Unparsed(r) == Failure(IF r.clean THEN "parse_error" ELSE "error")

Scored(r, j) ==
  IF r.says[j] = Garbled THEN Failure("invalid_score")
  ELSE [score |-> r.says[j], outcome |-> IF r.clean THEN "ok" ELSE "ok_nonzero"]

\* _invoke_single: only an object with a score is taken for the verdict.
InvokeSingle(r, j) ==
  IF r.how \in {"timeout", "not_found", "oserror"} THEN NoAnswer(r)
  ELSE IF r.how = "noise" \/ r.says[j] = Missing THEN Unparsed(r)
  ELSE Scored(r, j)

\* Mutant: one criterion without a usable score fails them all.
InvokeBatchAll(r, j) ==
  IF r.how \in {"timeout", "not_found", "oserror"} THEN NoAnswer(r)
  ELSE IF r.how = "noise" THEN Unparsed(r)
  ELSE IF \E k \in Judges : r.says[k] \notin ScoreRange THEN Failure("parse_error")
  ELSE Scored(r, j)

\* _invoke_batch, for one of its criteria: a failure of the process is one of all
\* of them, a criterion missing from the object its own.
InvokeBatch(r, j) ==
  IF r.how \in {"timeout", "not_found", "oserror"} THEN NoAnswer(r)
  ELSE IF r.how = "noise" THEN Unparsed(r)
  ELSE IF r.says[j] = Missing THEN Failure("parse_error")
  ELSE Scored(r, j)

-----------------------------------------------------------------------------
\* Scores are a function from the samples that have one.
Usable(per) == {i \in DOMAIN per : per[i].score # NoScore}
ScoresOf(per) == [i \in Usable(per) |-> per[i].score]

Total(scores) == FoldFunction(+, 0, scores)
Count(scores, x) == Cardinality({i \in DOMAIN scores : scores[i] = x})

\* Mutant: truncated, as int(x) would.
HalfUpCut(num, den) == num \div den

\* floor(num / den + 1/2): halves go up, also below zero.
HalfUp(num, den) == (2 * num + den) \div (2 * den)

\* The k-th of the sorted scores.
Sorted(scores, k) ==
  CHOOSE x \in Range(scores) :
    /\ Cardinality({i \in DOMAIN scores : scores[i] < x}) < k
    /\ Cardinality({i \in DOMAIN scores : scores[i] <= x}) >= k

\* The median of an even number of scores is the mean of the two in the middle.
Median(scores) ==
  LET n == Cardinality(DOMAIN scores)
  IN HalfUp(Sorted(scores, (n + 1) \div 2) + Sorted(scores, n \div 2 + 1), 2)

\* The most common score, the lower one if there are two.
Majority(scores) ==
  CHOOSE x \in Range(scores) :
    \A y \in Range(scores) :
      \/ Count(scores, x) > Count(scores, y)
      \/ Count(scores, x) = Count(scores, y) /\ x <= y

\* _aggregate_scores.
AggregateScores(scores, method) ==
  CASE method = "mean" -> HalfUp(Total(scores), Cardinality(DOMAIN scores))
    [] method = "majority" -> Majority(scores)
    [] OTHER -> Median(scores)

Distance(x, y) == IF x < y THEN y - x ELSE x - y

\* The place of the least cost, the first if there are several.
FirstLeast(cost) ==
  CHOOSE i \in DOMAIN cost : \A k \in DOMAIN cost :
    cost[i] < cost[k] \/ (cost[i] = cost[k] /\ i <= k)

Outcomes(per, o) == Cardinality({i \in DOMAIN per : per[i].outcome = o})

\* _finalize: the aggregate of the usable samples with the outcome of the first
\* that comes closest to it, or else the most frequent failure (the first seen of
\* them).
Finalize(per, method) ==
  IF Usable(per) = {}
  THEN LET rare == [i \in DOMAIN per |-> -Outcomes(per, per[i].outcome)]
       IN Failure(per[FirstLeast(rare)].outcome)
  ELSE LET score == AggregateScores(ScoresOf(per), method)
           far == [i \in Usable(per) |-> Distance(per[i].score, score)]
       IN [score |-> score, outcome |-> per[FirstLeast(far)].outcome]

=============================================================================
