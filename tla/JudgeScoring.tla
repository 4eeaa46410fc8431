---------------------------- MODULE JudgeScoring ----------------------------
(***************************************************************************)
(* `analyze` scoring the cells of one run directory: metric scores first   *)
(* (_run_metric_evaluators), then the judges (_run_judges), each judge one *)
(* call to a model, made by a pool of threads while the main thread        *)
(* collects answers and rewrites a cell's scores file when the last of its *)
(* judges is in.  Analyses may overlap, be interrupted or killed, and a    *)
(* resumed run may execute a cell again before, between or during them.    *)
(***************************************************************************)
EXTENDS ScoresFile, FiniteSets

CONSTANTS
  Cells,         \* cells of the run: one scores file each
  JudgesOf,      \* the judges of the cell's task
  Inline,        \* cells whose task has inline evaluators
  Gated,         \* cells whose task has metric evaluators
  Old,           \* judges that were there when the run was analyzed before
  Untraced,      \* cells whose first execution may have left no trace
  Again,         \* cells that failed and that a resume may execute again
  Flaky,         \* judges whose calls may fail
  Batches,       \* values runner.judge_batch may have
  MaxAnalyses,   \* bound: analyses
  MaxActive,     \* bound: analyses under way at one time
  MaxRaces       \* bound: analyses that start, and cells executed, while an
                 \* analysis is under way

Analyses == 1..MaxAnalyses

ASSUME CellsAssumption ==
  /\ JudgesOf \in [Cells -> SUBSET Judges]
  /\ IsFiniteSet(Judges)
  /\ Inline \subseteq Cells /\ Gated \subseteq Cells /\ Again \subseteq Cells /\ Old \subseteq Judges
  /\ Flaky \subseteq Judges /\ Untraced \subseteq Cells
  /\ Batches \subseteq BOOLEAN
ASSUME BoundsAssumption ==
  MaxAnalyses \in Nat /\ MaxActive \in Nat /\ MaxRaces \in Nat

VARIABLES
  file,      \* file[c]: the scores file
  exec,      \* exec[c]: executions of the cell so far
  trace,     \* trace[c]: the execution its trace file is from, 0 if it has none
  pc,        \* control point of every analysis
  forced,    \* analyses under way with --re-eval
  ctx,       \* ctx[a][c]: what an analysis holds for a cell it judges
  queued, answered,   \* its work items: to be called, and answered but not taken in
  races      \* times an analysis was overlapped by another one or an execution

vars == <<file, exec, trace, pc, forced, ctx, queued, answered, races>>
pool == <<queued, answered>>

(***************************************************************************)
(* A work item is one call: a cell and the judges asked about it.  An      *)
(* answer adds their scores.  A context is the entry of `contexts`: the    *)
(* scores read when the work was collected, the judges pending, how many   *)
(* are still to come in, and the scores that did.                          *)
(***************************************************************************)
Item == [cell : Cells, judges : SUBSET Judges]
Answer == [cell : Cells, judges : SUBSET Judges, scores : Verdicts]
Context == [existing : Scores, pending : SUBSET Judges, of : 0..MaxExec,
            remaining : Nat, scores : Verdicts]

NoContext == [existing |-> NoScores, pending |-> {}, of |-> 0,
              remaining |-> 0, scores |-> Unjudged]
NoContexts == [c \in Cells |-> NoContext]

Stages == {"collecting", "judging", "draining"}

TypeOK ==
  /\ file \in [Cells -> Scores \cup {Torn}]
  /\ exec \in [Cells -> Execs]
  /\ trace \in [Cells -> 0..MaxExec]
  /\ pc \in [Analyses -> {"new", "ended", "killed"} \cup Stages]
  /\ forced \subseteq Analyses
  /\ ctx \in [Analyses -> [Cells -> Context]]
  /\ queued \in [Analyses -> SUBSET Item]
  /\ answered \in [Analyses -> SUBSET Answer]
  /\ races \in 0..MaxRaces

\* Every cell ran once.  A scores file may hold judge scores an analysis with
\* fewer judges left there: an evaluator was added to eval.yaml since.
Init ==
  /\ exec = [c \in Cells |-> 1]
  /\ trace \in [Cells -> {0, 1}] /\ \A c \in Cells \ Untraced : trace[c] = 1
  /\ file \in [Cells -> Scores]
  /\ \A c \in Cells :
       /\ file[c].inline = IF c \in Inline THEN 1 ELSE 0
       /\ file[c].metric = 0
       /\ \A j \in Judges :
            file[c].judge[j] # NoEntry =>
              j \in JudgesOf[c] \cap Old /\ trace[c] = 1 /\ file[c].judge[j].of = 1
  /\ pc = [a \in Analyses |-> "new"]
  /\ forced = {}
  /\ ctx = [a \in Analyses |-> NoContexts]
  /\ queued = [a \in Analyses |-> {}]
  /\ answered = [a \in Analyses |-> {}]
  /\ races = 0

-----------------------------------------------------------------------------
Active(a) == pc[a] \in Stages

\* Something happens that the analyses in A do not know of.
Race(A) == IF A = {} THEN UNCHANGED races
           ELSE races < MaxRaces /\ races' = races + 1

Goto(a, stage) == pc' = [pc EXCEPT ![a] = stage]

\* The process is over and what it held is gone.
Over(a, how) ==
  /\ Goto(a, how)
  /\ forced' = forced \ {a}
  /\ ctx' = [ctx EXCEPT ![a] = NoContexts]
  /\ queued' = [queued EXCEPT ![a] = {}]
  /\ answered' = [answered EXCEPT ![a] = {}]

\* A resume executes the cell once more: its inline scores replace the whole
\* file if it got as far as having any, its trace the old one if it left one.
Execute(c) ==
  /\ c \in Again /\ exec[c] < MaxExec
  /\ exec' = [exec EXCEPT ![c] = @ + 1]
  /\ \E evaluated \in BOOLEAN :
       file' = IF evaluated /\ c \in Inline
               THEN [file EXCEPT ![c] = InlineScores(exec[c] + 1)] ELSE file
  /\ \E traced \in BOOLEAN :
       trace' = IF traced THEN [trace EXCEPT ![c] = exec[c] + 1] ELSE trace
  /\ Race({a \in Analyses : Active(a)})
  /\ UNCHANGED <<pc, forced, ctx, pool>>

IsNext(a) ==
  /\ pc[a] = "new" /\ \A b \in 1..(a - 1) : pc[b] # "new"
  /\ Cardinality({b \in Analyses : Active(b)}) < MaxActive

\* run_analysis up to and with _run_metric_evaluators: every gated cell, with
\* a trace or (from the manifest) without one, gets its metric scores merged.
Start(a) ==
  /\ IsNext(a)
  /\ Race({b \in Analyses : Active(b)})
  /\ file' = [c \in Cells |-> IF c \in Gated THEN MergeMetrics(file[c], trace[c])
                              ELSE file[c]]
  /\ Goto(a, "collecting")
  /\ forced' \in {forced, forced \cup {a}}
  /\ UNCHANGED <<exec, trace, ctx, pool>>

\* Killed while it writes the metric scores.
DieGating(a) ==
  /\ IsNext(a)
  /\ Race({b \in Analyses : Active(b)})
  /\ \E c \in Gated : file' = [file EXCEPT ![c] = Torn]
  /\ Goto(a, "killed")
  /\ UNCHANGED <<exec, trace, forced, ctx, pool>>

\* Mutant: the judges already scored count as well.
RemainingAll(c, pending) == Cardinality(JudgesOf[c])

Remaining(c, pending) == Cardinality(pending)

\* What _run_judges collects for a cell: nothing without a trace to judge.  (A
\* trace without conversation, log or outputs counts as none.)
Collected(a, c) ==
  LET p == Pending(Read(file[c]), JudgesOf[c], a \in forced) IN
  IF trace[c] = 0 \/ p = {} THEN NoContext
  ELSE [existing |-> Read(file[c]), pending |-> p, of |-> trace[c],
        remaining |-> Remaining(c, p), scores |-> Unjudged]

Items(c, pending, batch) ==
  IF pending = {} THEN {}
  ELSE IF batch THEN {[cell |-> c, judges |-> pending]}
  ELSE {[cell |-> c, judges |-> {j}] : j \in pending}

\* Phase 1 of _run_judges.  The items' order is left open: it is that of the
\* traces, which come in any.
Collect(a) ==
  /\ pc[a] = "collecting"
  /\ \E batch \in Batches :
       LET new == [c \in Cells |-> Collected(a, c)] IN
       /\ ctx' = [ctx EXCEPT ![a] = new]
       /\ queued' = [queued EXCEPT ![a] =
                       UNION {Items(c, new[c].pending, batch) : c \in Cells}]
  /\ Goto(a, "judging")
  /\ UNCHANGED <<file, exec, trace, forced, answered, races>>

-----------------------------------------------------------------------------
\* A pool thread takes an item, calls the model and is answered, at the latest
\* by the timeout: a verdict or a null score for each judge asked.  (After an
\* exception the main thread makes up the null scores.)  How many calls run at
\* one time makes no difference: answers come in any order.
Call(a, it) ==
  /\ pc[a] = "judging" /\ it \in queued[a]
  /\ queued' = [queued EXCEPT ![a] = @ \ {it}]
  /\ \E ok \in [it.judges -> BOOLEAN] :
       /\ \A j \in it.judges \ Flaky : ok[j]
       /\ answered' = [answered EXCEPT ![a] = @ \cup
            {[cell |-> it.cell, judges |-> it.judges,
              scores |-> [j \in Judges |->
                 IF j \in it.judges THEN [of |-> ctx[a][it.cell].of, ok |-> ok[j]]
                 ELSE NoEntry]]}]
  /\ UNCHANGED <<file, exec, trace, pc, forced, ctx, races>>

\* Mutant: the scores of the last item replace those already in.
InLast(context, ans) ==
  [context EXCEPT !.remaining = @ - Cardinality(ans.judges), !.scores = ans.scores]

\* The context once an answer is in.
In(context, ans) ==
  [context EXCEPT
     !.remaining = @ - Cardinality(ans.judges),
     !.scores = [j \in Judges |-> IF j \in ans.judges THEN ans.scores[j] ELSE @[j]]]

\* as_completed yields the item; with the last one _write_ctx.
TakeIn(a, ans) ==
  /\ pc[a] = "judging" /\ ans \in answered[a]
  /\ answered' = [answered EXCEPT ![a] = @ \ {ans}]
  /\ LET now == In(ctx[a][ans.cell], ans) IN
       /\ ctx' = [ctx EXCEPT ![a][ans.cell] = now]
       /\ file' = IF now.remaining <= 0
                  THEN [file EXCEPT ![ans.cell] =
                          MergeJudges(now.existing, now.pending, now.scores)]
                  ELSE file
  /\ UNCHANGED <<exec, trace, pc, forced, queued, races>>

Finish(a) ==
  /\ pc[a] = "judging" /\ queued[a] = {} /\ answered[a] = {}
  /\ Over(a, "ended")
  /\ UNCHANGED <<file, exec, trace, races>>

-----------------------------------------------------------------------------
\* The cells whose file an analysis may be writing when it is cut short.
Writing(a) ==
  {ans.cell : ans \in {x \in answered[a] :
                        pc[a] = "judging" /\ In(ctx[a][x.cell], x).remaining <= 0}}

MayTear(a) == file' \in {file} \cup {[file EXCEPT ![c] = Torn] : c \in Writing(a)}

Kill(a) ==
  /\ Active(a)
  /\ MayTear(a)
  /\ Over(a, "killed")
  /\ UNCHANGED <<exec, trace, races>>

\* Ctrl-C, or a reporter that raises, reaches the main thread.  Leaving the
\* `with` waits for the pool, which works off everything submitted, but nobody
\* takes the answers in any more.
Interrupt(a) ==
  /\ pc[a] = "judging"
  /\ MayTear(a)
  /\ Goto(a, "draining")
  /\ ctx' = [ctx EXCEPT ![a] = NoContexts]
  /\ answered' = [answered EXCEPT ![a] = {}]
  /\ UNCHANGED <<exec, trace, forced, queued, races>>

\* Mutant: the threads stop at once, but leaving still waits for the queue.
CallNoMore(a, it) == FALSE /\ UNCHANGED vars

CallInVain(a, it) ==
  /\ pc[a] = "draining" /\ it \in queued[a]
  /\ queued' = [queued EXCEPT ![a] = @ \ {it}]
  /\ UNCHANGED <<file, exec, trace, pc, forced, ctx, answered, races>>

Drained(a) ==
  /\ pc[a] = "draining" /\ queued[a] = {}
  /\ Over(a, "ended")
  /\ UNCHANGED <<file, exec, trace, races>>

-----------------------------------------------------------------------------
Advance(a) ==
  \/ Collect(a) \/ Finish(a) \/ Drained(a)
  \/ \E it \in queued[a] : Call(a, it) \/ CallInVain(a, it)
  \/ \E ans \in answered[a] : TakeIn(a, ans)

Rest == (\A a \in Analyses : pc[a] \in {"ended", "killed"}) /\ UNCHANGED vars

Next ==
  \/ \E c \in Cells : Execute(c)
  \/ \E a \in Analyses : Start(a) \/ DieGating(a) \/ Advance(a) \/ Kill(a) \/ Interrupt(a)
  \/ Rest

\* The process runs on and every call has a time limit; nobody has to start,
\* kill or interrupt an analysis, or to execute a cell again.
Fairness == \A a \in Analyses : WF_vars(Advance(a))

Spec == Init /\ [][Next]_vars /\ Fairness

-----------------------------------------------------------------------------
(***************************************************************************)
(* Properties.  With overlapping analyses, or a cell executed while one    *)
(* runs, a scores file read before may be stale when it is written: the    *)
(* properties that say so are about runs that never raced.                 *)
(***************************************************************************)

\* An analysis without --re-eval never calls a judge whose score the file has,
\* failed ones included: calls are paid for once, whatever was interrupted or
\* killed in between (the presence check of _run_judges).
NotPaidTwice ==
  races = 0 =>
    \A a \in Analyses \ forced : \A it \in queued[a] :
      \A j \in it.judges : Read(file[it.cell]).judge[j] = NoEntry

\* Writers of one file leave each other's scores alone: inline scores change only
\* when the cell is executed, metric scores only while gating, and a judge's score is
\* not replaced by another unless the user asked for --re-eval (_merge_scores_file,
\* _write_ctx).
KeepsScores ==
  [][\A c \in Cells :
       (races' = 0 /\ exec'[c] = exec[c] /\ Torn \notin {file[c], file'[c]}) =>
         /\ file'[c].inline = file[c].inline
         /\ file'[c].metric # file[c].metric => \E a \in Analyses : Start(a)
         /\ forced = {} =>
              \A j \in Judges : file[c].judge[j] \in {NoEntry, file'[c].judge[j]}]_vars

\* An analysis that comes to its end, failing judges or not, has every cell
\* with a trace judged by all its judges; with --re-eval, all on the trace the
\* report is made from.
FinishedIsComplete ==
  [][\A a \in Analyses : (Finish(a) /\ races = 0) =>
       \A c \in Cells : \A j \in JudgesOf[c] : trace[c] # 0 =>
         /\ Read(file[c]).judge[j] # NoEntry
         /\ a \in forced => file[c].judge[j].of = trace[c]]_vars

\* Judge scoring implements the table that changes one whole cell at a time,
\* with any overlap and any crash.
Table == INSTANCE JudgeTable WITH
  table <- [c \in Cells |-> Read(file[c]).judge]
ImplementsTable == Table!Spec

\* A verdict a judge has given reaches the file, whatever other judges do,
\* unless the analysis is interrupted or killed.
VerdictLands ==
  \A a \in Analyses, c \in Cells : \A j \in JudgesOf[c] :
    (\E ans \in answered[a] : ans.cell = c /\ j \in ans.judges /\ ans.scores[j].ok)
      ~> \/ file[c] # Torn /\ file[c].judge[j] # NoEntry /\ file[c].judge[j].ok
         \/ pc[a] \in {"draining", "killed"}

\* Every analysis comes to an end, the pool of an interrupted one drains.
AnalysisEnds == \A a \in Analyses : Active(a) ~> ~Active(a)

=============================================================================
