-------------------------- MODULE Execution_proofs --------------------------
(***************************************************************************)
(* Theorems about the execution of the cells.  First one cell, module      *)
(* RunOne, for any number of retries and of executions, either setting of  *)
(* hooks.on_failure, and with or without host I/O errors and runners that  *)
(* time out themselves.  Then the batch of them, module Schedule, for any  *)
(* matrix, strategy, number of workers and set of cells to skip.  The two  *)
(* modules share no state.                                                 *)
(***************************************************************************)
EXTENDS RunOne, Schedule, FiniteSetTheorems, TLAPS

\* Executions to come have left nothing yet, and the one under way no row.
Fresh ==
  /\ returned \cup workdirs \cup raw \subseteq 1..exec
  /\ pc # "idle" => exec \in Execs /\ row = NoRow /\ exec \notin returned

\* The control points of a try before its container has run, and after.
Before == {"before_run", "health_check", "returning", "workspace", "container"}
After == {"after_run", "persist", "evaluate"}

\* The work on every container of the earlier tries ended in what is taken for a
\* failure of the container, and that on the one of this try ended as pc tells.
Chain ==
  pc # "idle" =>
    /\ \A k \in 1..Len(ends) :
         k < Len(ends) \/ pc \notin Raised \/ artifacts = NoExit => ends[k] \in Transient
    /\ artifacts = NoExit => Len(exits) = Len(ends) /\ Len(exits) <= attempt
    /\ artifacts # NoExit =>
         /\ Len(exits) \in 1..attempt + 1 /\ LastExit = artifacts
         /\ pc \in Raised => Len(ends) = Len(exits) /\ LastEnd = pc
         /\ pc \notin Raised => Len(ends) + 1 = Len(exits)
    /\ pc \in Before => artifacts = NoExit
    /\ pc \in After => artifacts # NoExit
    /\ pc = "timeout" /\ artifacts = NoExit => RunnerTimesOut

IInv == TypeOK /\ Fresh /\ Chain /\ OneTranscript /\ StatusTruthful /\ NothingLeftBehind

-----------------------------------------------------------------------------
LEMMA InitInv == Init => IInv
<1> SUFFICES ASSUME Init PROVE IInv
  OBVIOUS
<1>1. TypeOK
  <2>1. 0 \in 0..MaxExecs /\ 0 \in 0..MaxRetries
    BY RetryAssumption
  <2>2. <<>> \in Seq(ExitCodes) /\ <<>> \in Seq({"scored"} \cup Raised)
    OBVIOUS
  <2> QED
    BY <2>1, <2>2 DEF Init, TypeOK
<1>2. OneTranscript
  BY RetryAssumption DEF Init, OneTranscript
<1> QED
  BY <1>1, <1>2 DEF Init, IInv, Fresh, Chain, StatusTruthful, NothingLeftBehind

\* Within an execution, the chain says what OneTranscript asks for.
LEMMA ChainTranscript == TypeOK /\ Chain /\ pc # "idle" => OneTranscript
BY RetryAssumption DEF TypeOK, Chain, OneTranscript

\* A clean-up removes what it can, and says when that is not all.
LEMMA CleanUpFacts ==
  ASSUME CleanUp
  PROVE  /\ workdirs' \subseteq workdirs /\ raw' \subseteq raw /\ faults \subseteq faults'
         /\ garbled' = garbled /\ faults' \subseteq faults \cup {exec}
         /\ garbled => exec \in faults'
         /\ exec \notin faults' => exec \notin workdirs' /\ raw' = {}
BY DEF CleanUp

\* An execution ends with a truthful row and a clean-up.
LEMMA Ending ==
  ASSUME IInv, pc # "idle", NEW result \in Row, End(result), CleanUp,
         ends' \in {ends, Append(ends, "scored")}, StatusTruthful'
  PROVE  IInv'
<1> USE RetryAssumption, MarkerAssumption
<1>1. exec \in Execs /\ exec' = exec /\ row' = result /\ returned' = returned \cup {exec}
      /\ pc' = "idle" /\ exits' = exits
  BY DEF End, Goto, IInv, Fresh
<1>2. TypeOK'
  <2>1. ends' \in Seq({"scored"} \cup Raised)
    BY DEF IInv, TypeOK
  <2>2. /\ exec' \in 0..MaxExecs /\ attempt' \in 0..MaxRetries
        /\ artifacts' \in ExitCodes \cup {NoExit} /\ failing' \in BOOLEAN
        /\ exits' \in Seq(ExitCodes) /\ row' \in Row \cup {NoRow}
    BY DEF End, IInv, TypeOK
  <2>3. returned' \subseteq Execs /\ workdirs' \subseteq Execs /\ raw' \subseteq Execs
        /\ faults' \subseteq Execs /\ garbled' \in BOOLEAN
    BY <1>1, CleanUpFacts DEF IInv, TypeOK
  <2> QED
    BY <1>1, <2>1, <2>2, <2>3 DEF TypeOK
<1>3. Fresh'
  <2>1. exec \in 1..exec
    BY <1>1 DEF Execs
  <2>2. returned \cup workdirs \cup raw \subseteq 1..exec
    BY DEF IInv, Fresh
  <2> QED
    BY <1>1, <2>1, <2>2, CleanUpFacts DEF Fresh
<1>4. Chain'
  BY <1>1 DEF Chain
<1>5. OneTranscript'
  <2>1. \A k \in DOMAIN ends : k \in DOMAIN ends' /\ ends'[k] = ends[k]
    BY DEF IInv, TypeOK
  <2> QED
    BY <1>1, <2>1 DEF IInv, OneTranscript
<1>6. NothingLeftBehind'
  BY <1>1, CleanUpFacts DEF IInv, NothingLeftBehind, Fresh
<1> QED
  BY <1>2, <1>3, <1>4, <1>5, <1>6 DEF IInv

\* A step that returns no row and undoes no earlier clean-up.
LEMMA Passing ==
  ASSUME IInv, pc # "idle", UNCHANGED <<exec, row, returned>>,
         workdirs' \subseteq workdirs \cup {exec}, raw' \subseteq raw \cup {exec},
         faults \subseteq faults', TypeOK', Chain', OneTranscript'
  PROVE  IInv'
<1>1. exec \in 1..exec
  BY DEF IInv, TypeOK, Fresh, Execs
<1>2. Fresh'
  BY <1>1 DEF IInv, Fresh
<1>3. StatusTruthful'
  BY DEF IInv, StatusTruthful, Fresh
<1>4. NothingLeftBehind'
  BY DEF IInv, NothingLeftBehind, Fresh
<1> QED
  BY <1>2, <1>3, <1>4 DEF IInv

LEMMA StartInv == IInv /\ (Start \/ Reject) => IInv'
<1> SUFFICES ASSUME IInv, Start \/ Reject PROVE IInv'
  OBVIOUS
<1> USE RetryAssumption, MarkerAssumption
<1>1. /\ exec' = exec + 1 /\ exec' \in Execs /\ exec \in Nat /\ pc = "idle"
      /\ exits' = <<>> /\ ends' = <<>>
      /\ UNCHANGED <<workdirs, raw, garbled, faults>>
  BY DEF Start, Reject, IInv, TypeOK, Execs, disk
<1>2. exec' \notin returned \cup workdirs \cup raw
  BY <1>1 DEF IInv, Fresh
<1>3. OneTranscript'
  BY <1>1 DEF OneTranscript
<1>4. CASE Start
  <2>1. TypeOK'
    <3>1. exec' \in 0..MaxExecs /\ 0 \in 0..MaxRetries
      BY <1>1 DEF Execs
    <3>2. <<>> \in Seq(ExitCodes) /\ <<>> \in Seq({"scored"} \cup Raised)
      OBVIOUS
    <3> QED
      BY <1>1, <1>4, <3>1, <3>2 DEF Start, Goto, IInv, TypeOK, Stages
  <2>2. Fresh'
    BY <1>1, <1>2, <1>4 DEF Start, IInv, Fresh
  <2>3. Chain'
    BY <1>1, <1>4 DEF Start, Goto, Chain, Raised, Transient, After
  <2> QED
    BY <1>1, <1>3, <1>4, <2>1, <2>2, <2>3 DEF Start, IInv, StatusTruthful, NothingLeftBehind
<1>5. CASE Reject
  <2>1. Isolated \in Row
    BY DEF Isolated, Row, Statuses
  <2>2. TypeOK'
    BY <1>1, <1>5, <2>1 DEF Reject, IInv, TypeOK, Execs
  <2>3. Fresh'
    BY <1>1, <1>5 DEF Reject, IInv, Fresh
  <2>4. Chain'
    BY <1>1, <1>5 DEF Reject, Chain
  <2>5. StatusTruthful'
    BY <1>1, <1>5 DEF Reject, StatusTruthful, Isolated
  <2>6. NothingLeftBehind'
    BY <1>1, <1>2, <1>5 DEF Reject, IInv, NothingLeftBehind
  <2> QED
    BY <1>3, <2>2, <2>3, <2>4, <2>5, <2>6 DEF IInv
<1> QED
  BY <1>4, <1>5

\* The stages that only move on, write to the log or make the workspace.
LEMMA SetUpInv ==
  ASSUME IInv, BeforeRun \/ HealthCheck \/ Workspace PROVE IInv'
<1> USE DEF Goto, Log
<1>1. /\ pc \in Before /\ artifacts = NoExit
      /\ UNCHANGED <<exec, row, returned, exits, ends, artifacts, attempt, faults, failing>>
  BY DEF BeforeRun, HealthCheck, Workspace, IInv, Chain, Before
<1>2. exec \in Execs
  BY <1>1 DEF Before, IInv, Fresh
<1>3. pc' \in Before \cup {"eval_error", "escaped"}
  BY DEF BeforeRun, HealthCheck, Workspace, Before
<1>4. /\ workdirs' \subseteq workdirs \cup {exec} /\ raw' \subseteq raw \cup {exec}
      /\ garbled' \in BOOLEAN
  BY DEF BeforeRun, HealthCheck, Workspace, IInv, TypeOK
<1>5. TypeOK'
  BY <1>1, <1>2, <1>3, <1>4 DEF IInv, TypeOK, Before, Stages, Raised
<1>6. Chain'
  BY <1>1, <1>3 DEF IInv, Chain, Before, After, Raised, Transient
<1>7. OneTranscript'
  BY <1>1 DEF IInv, OneTranscript
<1> QED
  BY <1>1, <1>4, <1>5, <1>6, <1>7, Passing DEF Before

LEMMA ContainerInv == ASSUME IInv, Container PROVE IInv'
<1> USE DEF Goto, Log
<1>1. /\ pc = "container" /\ artifacts = NoExit /\ exec \in Execs
      /\ UNCHANGED <<exec, row, returned, ends, attempt, failing, workdirs, faults>>
      /\ raw' \subseteq raw \cup {exec} /\ garbled' \in BOOLEAN
  BY DEF Container, IInv, TypeOK, Fresh, Chain, Before
<1>2. CASE UNCHANGED <<artifacts, exits>>
  <2>1. TypeOK'
    BY <1>1, <1>2 DEF Container, IInv, TypeOK, Stages, Raised, Transient
  <2>2. Chain'
    BY <1>1, <1>2, MarkerAssumption
       DEF Container, IInv, TypeOK, Chain, Before, After, Raised, Transient
  <2> QED
    BY <1>1, <1>2, <2>1, <2>2, Passing DEF IInv, OneTranscript
<1>3. ASSUME NEW x \in ExitCodes, artifacts' = x, exits' = Append(exits, x), pc' = "after_run"
      PROVE  IInv'
  <2>1. TypeOK'
    BY <1>1, <1>3 DEF IInv, TypeOK, Stages
  <2>2. Len(exits') = Len(exits) + 1 /\ exits'[Len(exits')] = x /\ x # NoExit
    BY <1>3, MarkerAssumption DEF IInv, TypeOK
  <2>3. Len(exits) = Len(ends) /\ Len(exits) <= attempt /\ attempt \in Nat
    BY <1>1, RetryAssumption DEF IInv, TypeOK, Chain
  <2>4. \A k \in 1..Len(ends) : ends[k] \in Transient
    BY <1>1 DEF IInv, Chain
  <2>5. Chain'
    BY <1>1, <1>3, <2>2, <2>3, <2>4 DEF IInv, TypeOK, Chain, LastExit, Before, Raised, Transient
  <2>6. OneTranscript'
    BY <1>3, <2>1, <2>5, RetryAssumption DEF TypeOK, Chain, OneTranscript
  <2> QED
    BY <1>1, <2>1, <2>5, <2>6, Passing
<1> QED
  BY <1>2, <1>3 DEF Container

\* The work on a container goes on, or ends with what is raised.
LEMMA PostInv == ASSUME IInv, AfterRun \/ Persist \/ EvaluateFails PROVE IInv'
<1> USE DEF Goto, Log, Note, disk
<1>1. /\ pc \in After /\ artifacts # NoExit /\ artifacts' = artifacts /\ failing' \in BOOLEAN
      /\ UNCHANGED <<exec, row, returned, exits, attempt, workdirs, faults>>
      /\ raw' \subseteq raw \cup {exec} /\ garbled' \in BOOLEAN
  BY DEF AfterRun, Persist, EvaluateFails, IInv, TypeOK, Chain, After
<1>2. exec \in Execs /\ pc # "idle" /\ pc \notin Raised
  BY <1>1 DEF After, Raised, Transient, IInv, Fresh
<1>3. CASE ends' = ends /\ pc' \in After
  <2>1. TypeOK'
    BY <1>1, <1>2, <1>3 DEF IInv, TypeOK, After, Stages
  <2>2. Chain'
    BY <1>1, <1>2, <1>3 DEF IInv, Chain, After, Before, Raised, Transient, LastExit
  <2> QED
    BY <1>1, <1>2, <1>3, <2>1, <2>2, Passing DEF IInv, OneTranscript
<1>4. ASSUME NEW how \in Raised, pc' = how, ends' = Append(ends, how)
      PROVE  IInv'
  <2>1. TypeOK'
    BY <1>1, <1>2, <1>4 DEF IInv, TypeOK
  <2>2. /\ Len(ends') = Len(ends) + 1 /\ ends'[Len(ends')] = how
        /\ \A k \in 1..Len(ends) : ends'[k] = ends[k]
    BY <1>4 DEF IInv, TypeOK
  <2>3. /\ Len(exits) \in 1..attempt + 1 /\ LastExit = artifacts /\ Len(ends) + 1 = Len(exits)
        /\ \A k \in 1..Len(ends) : ends[k] \in Transient
    BY <1>1, <1>2 DEF IInv, Chain
  <2>4. Len(ends) \in Nat
    BY DEF IInv, TypeOK
  <2>5. pc' # "idle" /\ pc' \notin Before /\ pc' \notin After /\ pc' \in Raised
    BY <1>4 DEF Raised, Transient, Before, After
  <2>6. LastEnd' = how /\ LastExit' = artifacts
    BY <1>1, <2>2, <2>3 DEF LastEnd, LastExit
  <2>7. \A k \in 1..Len(ends') : k < Len(ends') => ends'[k] \in Transient
    BY <2>2, <2>3, <2>4
  <2>8. Chain'
    BY <1>1, <1>4, <2>2, <2>3, <2>4, <2>5, <2>6, <2>7 DEF Chain
  <2>9. OneTranscript'
    BY <2>1, <2>5, <2>8, RetryAssumption DEF TypeOK, Chain, OneTranscript
  <2> QED
    BY <1>1, <1>2, <2>1, <2>8, <2>9, Passing
<1> QED
  BY <1>3, <1>4 DEF AfterRun, Persist, EvaluateFails, Ended, After, Raised, Transient

\* Before a container has run in a try, those of the earlier tries ended as
\* failures of the container; after it, the last one ended as pc tells.
LEMMA LastOfChain ==
  ASSUME IInv, pc # "idle", exits # <<>>, pc \in Before \cup Raised
  PROVE  LastEnd \in Transient \/ (artifacts # NoExit /\ LastEnd = pc /\ LastExit = artifacts)
<1>1. Len(exits) \in Nat \ {0}
  BY DEF IInv, TypeOK
<1>2. CASE artifacts = NoExit
  BY <1>1, <1>2 DEF IInv, Chain, LastEnd
<1>3. CASE artifacts # NoExit
  BY <1>3 DEF IInv, Chain, Before, Raised, Transient
<1> QED
  BY <1>2, <1>3

\* Every return is truthful.
LEMMA ReturnInv ==
  ASSUME IInv, SetupFailed \/ Evaluate \/ GiveUpDocker \/ GiveUpTimeout
               \/ EvalErrorReturn \/ Isolate
  PROVE  IInv'
<1> USE RetryAssumption
<1>1. attempt \in 0..MaxRetries /\ artifacts \in ExitCodes \cup {NoExit} /\ NoExit \notin ExitCodes
  BY MarkerAssumption DEF IInv, TypeOK
<1>2. ASSUME NEW status \in Statuses, NEW exit \in ExitCodes \cup {"-1"}, NEW passed \in BOOLEAN,
             Return(status, exit, passed), pc # "idle", ends' \in {ends, Append(ends, "scored")},
             status = "completed" => Says("0")',
             status = "failed" => Says("other")',
             status = "timeout" =>
               \/ Says("124")'
               \/ /\ attempt = MaxRetries
                  /\ RunnerTimesOut \/ (exits' # <<>> /\ LastEnd' = "timeout"),
             status = "setup_failed" => exits' = <<>> \/ LastEnd' \in Transient \cup {"escaped"},
             passed => status = "completed"
      PROVE  IInv'
  <2> DEFINE result == [status |-> status, exit |-> exit, retries |-> attempt, passed |-> passed]
  <2>1. result \in Row
    BY <1>1 DEF Row
  <2>2. End(result) /\ CleanUp /\ row' = result
    BY <1>2 DEF Return, End
  <2>3. /\ result.status = status /\ result.retries = attempt /\ result.passed = passed
    OBVIOUS
  <2>4. StatusTruthful'
    BY <1>2, <2>2, <2>3 DEF StatusTruthful
  <2> HIDE DEF result
  <2> QED
    BY <1>2, <2>1, <2>2, <2>4, Ending
<1>3. CASE SetupFailed \/ GiveUpDocker \/ (EvalErrorReturn /\ artifacts = NoExit)
  <2>1. /\ pc \in {"returning", "docker_error", "eval_error"} /\ ends' = ends
        /\ Return("setup_failed", "-1", FALSE)
        /\ pc = "eval_error" => artifacts = NoExit
    BY <1>3 DEF SetupFailed, GiveUpDocker, EvalErrorReturn
  <2>2. exits' = exits
    BY <2>1 DEF Return, End
  <2>3. exits # <<>> => LastEnd \in Transient
    BY <2>1, LastOfChain DEF Before, Raised, Transient, IInv, Chain
  <2>4. exits' = <<>> \/ LastEnd' \in Transient \cup {"escaped"}
    BY <2>1, <2>2, <2>3 DEF LastEnd
  <2> QED
    BY <1>2, <2>1, <2>4 DEF Statuses
<1>4. CASE Evaluate
  <2>1. /\ pc = "evaluate" /\ artifacts \in ExitCodes /\ ends' = Append(ends, "scored")
        /\ Len(exits) = Len(ends) + 1 /\ LastExit = artifacts
    BY <1>1, <1>4 DEF Evaluate, Ended, IInv, Chain, After, Raised, Transient
  <2>2. PICK f \in BOOLEAN :
          Return(StatusOf(artifacts), artifacts, StatusOf(artifacts) = "completed" /\ ~failing /\ ~f)
    BY <1>4 DEF Evaluate
  <2>3. exits' = exits /\ Len(exits) # 0 /\ exits # <<>>
    BY <2>1, <2>2 DEF Return, End, IInv, TypeOK
  <2>4. LastExit' = artifacts /\ LastEnd' = "scored"
    BY <2>1, <2>3 DEF LastExit, LastEnd, IInv, TypeOK
  <2>5. Says(artifacts)'
    <3>1. Says(artifacts)' = (exits' # <<>> /\ LastExit' = artifacts' /\ LastEnd' \in {"scored", "eval_error"})
      BY DEF Says
    <3>2. artifacts' = artifacts
      BY <2>2 DEF Return, End
    <3> QED
      BY <2>3, <2>4, <3>1, <3>2
  <2>6. artifacts' = artifacts
    BY <2>2 DEF Return, End
  <2> DEFINE passed == StatusOf(artifacts) = "completed" /\ ~failing /\ ~f
  <2>7. passed \in BOOLEAN /\ (passed => StatusOf(artifacts) = "completed")
    OBVIOUS
  <2> HIDE DEF passed
  <2>8. StatusOf(artifacts) \in Statuses \ {"setup_failed"}
    BY DEF StatusOf, Statuses
  <2>9. /\ StatusOf(artifacts) = "completed" => artifacts = "0"
        /\ StatusOf(artifacts) = "failed" => artifacts = "other"
        /\ StatusOf(artifacts) = "timeout" => artifacts = "124"
    BY <2>1 DEF StatusOf, ExitCodes
  <2>10. \A code : Says(code)' <=> (exits' # <<>> /\ LastExit' = code /\ LastEnd' \in {"scored", "eval_error"})
    BY DEF Says
  <2> QED
    BY <1>2, <2>1, <2>2, <2>3, <2>4, <2>7, <2>8, <2>9, <2>10 DEF passed
<1>5. CASE GiveUpTimeout
  <2>0. attempt = MaxRetries
    BY <1>1, <1>5 DEF GiveUpTimeout, MayRetry
  <2>1. pc = "timeout" /\ ends' = ends /\ Return("timeout", "124", FALSE)
    BY <1>5 DEF GiveUpTimeout
  <2>2. exits' = exits
    BY <2>1 DEF Return, End
  <2>3. artifacts # NoExit => exits # <<>> /\ LastEnd = "timeout"
    BY <2>1 DEF IInv, TypeOK, Chain, Raised, Transient
  <2>4. artifacts = NoExit => RunnerTimesOut
    BY <2>1 DEF IInv, Chain
  <2>5. RunnerTimesOut \/ (exits' # <<>> /\ LastEnd' = "timeout")
    BY <2>1, <2>2, <2>3, <2>4 DEF LastEnd
  <2> QED
    BY <1>2, <2>0, <2>1, <2>5 DEF Statuses, ExitCodes
<1>6. CASE EvalErrorReturn /\ artifacts # NoExit
  <2>1. /\ pc = "eval_error" /\ ends' = ends /\ artifacts \in ExitCodes
        /\ Return(StatusOf(artifacts), artifacts, FALSE)
    BY <1>1, <1>6 DEF EvalErrorReturn
  <2>2. exits' = exits /\ exits # <<>> /\ LastExit = artifacts /\ LastEnd = "eval_error"
    BY <1>6, <2>1 DEF Return, End, IInv, TypeOK, Chain, Raised
  <2>3. \A code : Says(code)' <=> code = artifacts
    BY <2>1, <2>2 DEF Says, LastExit, LastEnd
  <2>4. /\ StatusOf(artifacts) \in Statuses \ {"setup_failed"}
        /\ StatusOf(artifacts) = "completed" => artifacts = "0"
        /\ StatusOf(artifacts) = "failed" => artifacts = "other"
        /\ StatusOf(artifacts) = "timeout" => artifacts = "124"
    BY <2>1 DEF StatusOf, Statuses, ExitCodes
  <2> QED
    BY <1>2, <2>1, <2>3, <2>4
<1>7. CASE Isolate
  <2>1. /\ pc \in {"returning"} \cup Raised /\ (pc = "escaped" \/ garbled)
        /\ End(Isolated) /\ CleanUp /\ ends' = ends
    BY <1>7 DEF Isolate, Leaves, Raised
  <2>2. Isolated \in Row
    BY DEF Isolated, Row, Statuses
  <2>3. /\ row' = Isolated /\ exits' = exits /\ exec' = exec
        /\ garbled => exec \in faults'
    BY <2>1, CleanUpFacts DEF End
  <2>4. exits = <<>> \/ garbled \/ LastEnd \in Transient \cup {"escaped"}
    BY <2>1, LastOfChain DEF Before, Raised, Transient
  <2>5. StatusTruthful'
    BY <2>1, <2>3, <2>4 DEF StatusTruthful, Isolated, LastEnd
  <2> QED
    BY <2>1, <2>2, <2>5, Ending DEF Raised, Transient
<1> QED
  BY <1>3, <1>4, <1>5, <1>6, <1>7

LEMMA RetryInv == ASSUME IInv, Retry PROVE IInv'
<1> USE RetryAssumption DEF Goto
<1>1. /\ pc \in Transient /\ attempt < MaxRetries /\ attempt' = attempt + 1
      /\ artifacts' = NoExit /\ failing' = FALSE /\ pc' = "before_run" /\ CleanUp
      /\ UNCHANGED <<exec, row, returned, exits, ends>>
  BY DEF Retry, MayRetry
<1>2. pc # "idle" /\ pc \in Raised /\ attempt \in 0..MaxRetries /\ exec \in Execs
  BY <1>1 DEF Transient, Raised, IInv, TypeOK, Fresh
<1>3. TypeOK'
  <2>1. attempt' \in 0..MaxRetries
    BY <1>1, <1>2
  <2> QED
    BY <1>1, <1>2, <2>1, CleanUpFacts DEF IInv, TypeOK, Stages
<1>4. /\ Len(exits) = Len(ends) /\ Len(exits) <= attempt + 1
      /\ \A k \in 1..Len(ends) : ends[k] \in Transient
  <2>1. CASE artifacts = NoExit
    BY <1>2, <2>1 DEF IInv, TypeOK, Chain
  <2>2. CASE artifacts # NoExit
    <3>1. LastEnd = pc /\ Len(ends) = Len(exits) /\ Len(exits) <= attempt + 1
      BY <1>2, <2>2 DEF IInv, Chain, Raised, Transient
    <3>2. \A k \in 1..Len(ends) : k < Len(ends) => ends[k] \in Transient
      BY <1>2 DEF IInv, Chain, Raised, Transient
    <3>3. Len(ends) \in Nat
      BY DEF IInv, TypeOK
    <3> QED
      BY <1>1, <3>1, <3>2, <3>3 DEF LastEnd
  <2> QED
    BY <2>1, <2>2
<1>5. Chain'
  BY <1>1, <1>4 DEF Chain, After, Raised, Transient
<1> QED
  BY <1>1, <1>2, <1>3, <1>5, CleanUpFacts, Passing DEF IInv, OneTranscript

LEMMA StopInv == ASSUME IInv, Interrupted \/ Kill PROVE IInv'
<1>1. /\ pc # "idle" /\ pc' = "idle"
      /\ UNCHANGED <<exec, attempt, artifacts, failing, row, returned, exits, ends>>
      /\ workdirs' \subseteq workdirs /\ raw' \subseteq raw /\ faults \subseteq faults'
      /\ garbled' = garbled /\ faults' \subseteq faults \cup {exec}
  BY CleanUpFacts DEF Interrupted, Kill, Goto, disk
<1>2. TypeOK'
  BY <1>1 DEF IInv, TypeOK, Fresh
<1>3. Chain' /\ OneTranscript'
  BY <1>1 DEF IInv, Chain, OneTranscript
<1> QED
  BY <1>1, <1>2, <1>3, Passing

LEMMA NextInv == IInv /\ [Next]_vars => IInv'
<1> SUFFICES ASSUME IInv, [Next]_vars PROVE IInv'
  OBVIOUS
<1>1. CASE UNCHANGED vars
  BY <1>1 DEF vars, disk, IInv, TypeOK, Fresh, Chain, OneTranscript, StatusTruthful,
              NothingLeftBehind, Says, LastExit, LastEnd
<1> QED
  BY <1>1, StartInv, SetUpInv, ContainerInv, PostInv, ReturnInv, RetryInv, StopInv
     DEF Next, Advance

LEMMA Invariance == Spec => []IInv
BY InitInv, NextInv, PTL DEF Spec

\* Only an evaluator that raises what is taken for a failure of the container has
\* an execution run another one, and never more than there are tries.
THEOREM OneTranscriptHolds == Spec => []OneTranscript
BY Invariance, PTL DEF IInv

\* A returned status tells the truth about the last container of that execution.
THEOREM StatusTruthfulHolds == Spec => []StatusTruthful
BY Invariance, PTL DEF IInv

\* Every way out of run_one removes the workspace and masks the log, unless the
\* clean-up itself failed.
THEOREM NothingLeftBehindHolds == Spec => []NothingLeftBehind
BY Invariance, PTL DEF IInv

-----------------------------------------------------------------------------
(***************************************************************************)
(* The batch                                                               *)
(***************************************************************************)
\* What a job starts with.
Places(j) == Cut(strategy, skip)[j].left
First(j) == Cut(strategy, skip)[j].index

\* The places it has come past, and the row of one of them.
Past(j) == Places(j) \ jobs[j].left
IndexOf(j, n) == First(j) + Cardinality({m \in Places(j) : m < n})
RowAt(j, n) == ResultRow(Work[n], IndexOf(j, n))
Due(j) == {n \in Past(j) : Work[n] \notin skip}

\* A job goes through its places in order, counting all and returning a row of
\* those that are not skipped.
Advancing(j) ==
  /\ jobs[j].left \subseteq Places(j)
  /\ \A m \in Past(j), n \in jobs[j].left : m < n
  /\ jobs[j].index = First(j) + Cardinality(Past(j))
  /\ \A k \in DOMAIN jobs[j].rows : \E n \in Due(j) : jobs[j].rows[k] = RowAt(j, n)
  /\ \A n \in Due(j) : \E k \in DOMAIN jobs[j].rows : jobs[j].rows[k] = RowAt(j, n)
  /\ \A k, l \in DOMAIN jobs[j].rows : jobs[j].rows[k].cell = jobs[j].rows[l].cell => k = l

\* What it is past has ended, what is to come has not begun.
Serially(j) ==
  /\ \A n \in Past(j) : Work[n] \in ended \cup skip
  /\ \A n \in jobs[j].left : Work[n] \in begun =>
       At(j, n) /\ jobs[j].phase \in {"running", "failed", "collected"}
  /\ jobs[j].phase = "running" =>
       \E n \in DOMAIN Work : At(j, n) /\ Work[n] \in begun \ skip
  /\ jobs[j].phase = "done" => jobs[j].left = {}
  /\ jobs[j].phase = "collected" /\ main \in {"collecting", "returned"} => jobs[j].left = {}

Kin(j) == {n \in Places(j) : Work[n] \notin skip}

Collected ==
  /\ \A m \in DOMAIN results : \E j \in DOMAIN jobs : \E n \in Kin(j) : results[m] = RowAt(j, n)
  /\ main \in {"collecting", "returned"} =>
       /\ \A m \in DOMAIN results : \E j \in InPhase({"collected"}) : \E n \in Kin(j) : results[m] = RowAt(j, n)
       /\ \A j \in InPhase({"collected"}) : \A n \in Kin(j) : \E m \in DOMAIN results : results[m] = RowAt(j, n)
       /\ \A k, l \in DOMAIN results : results[k].cell = results[l].cell => k = l
  /\ main = "returned" => InPhase({"collected"}) = DOMAIN jobs

Begun == begun \subseteq Todo

Scheduled ==
  /\ Collected /\ Begun /\ NothingLeftRunning
  /\ \A j \in DOMAIN jobs : Advancing(j) /\ Serially(j)

-----------------------------------------------------------------------------
(***************************************************************************)
(* How a strategy cuts the matrix                                          *)
(***************************************************************************)
LEMMA FinitePlaces ==
  ASSUME NEW P \in SUBSET DOMAIN Work
  PROVE  IsFiniteSet(P) /\ Cardinality(P) \in Nat
<1>1. DOMAIN Work = 1..Len(Work) /\ Len(Work) \in Nat
  BY WorkAssumption
<1>2. IsFiniteSet(DOMAIN Work)
  BY <1>1, FS_Interval
<1>3. QED BY <1>2, FS_Subset, FS_CardinalityType

LEMMA JobFields ==
  ASSUME NEW places, NEW index
  PROVE  Job(places, index).left = places /\ Job(places, index).index = index
BY DEF Job

LEMMA SerialCut ==
  ASSUME NEW how, NEW S, Serial(how)
  PROVE  /\ DOMAIN Cut(how, S) = {1}
         /\ Cut(how, S) = [j \in {1} |-> Job(DOMAIN Work, 0)]
BY DEF Cut

\* Jobs are numbered and start with places of the matrix.
LEMMA CutShape ==
  ASSUME NEW how \in Strategies, NEW S
  PROVE  /\ DOMAIN Cut(how, S) \subseteq Nat
         /\ \A j \in DOMAIN Cut(how, S) :
              /\ Cut(how, S)[j].left \in SUBSET DOMAIN Work /\ Cut(how, S)[j].index \in Nat
              /\ Cut(how, S)[j] = Job(Cut(how, S)[j].left, Cut(how, S)[j].index)
         /\ Cut(how, S) = [j \in DOMAIN Cut(how, S) |-> Cut(how, S)[j]]
<1>1. CASE Serial(how)
  BY <1>1, SerialCut DEF Job
<1>2. CASE ~ Serial(how) /\ how = "per_task"
  <2>1. Cut(how, S) = [k \in DOMAIN Tasks |-> Job(PlacesOf(Tasks[k]), 0)]
    BY <1>2 DEF Cut
  <2>2. DOMAIN Tasks \subseteq Nat
    BY WorkAssumption
  <2>3. DOMAIN Cut(how, S) = DOMAIN Tasks
    BY <2>1
  <2>4. \A j \in DOMAIN Tasks : Cut(how, S)[j] = Job(PlacesOf(Tasks[j]), 0)
    BY <2>1
  <2>5. \A j \in DOMAIN Tasks : PlacesOf(Tasks[j]) \in SUBSET DOMAIN Work
    BY DEF PlacesOf
  <2>6. Cut(how, S) = [j \in DOMAIN Cut(how, S) |-> Cut(how, S)[j]]
    BY <2>1, <2>3, <2>4
  <2>7. QED BY <2>2, <2>3, <2>4, <2>5, <2>6, JobFields
<1>3. CASE ~ Serial(how) /\ how # "per_task"
  <2>1. Cut(how, S) = [n \in Kept(S) |-> Job({n}, Cardinality({m \in Kept(S) : m < n}))]
    BY <1>3 DEF Cut, CellJobs
  <2>2. Kept(S) \subseteq DOMAIN Work /\ DOMAIN Work \subseteq Nat
    BY WorkAssumption DEF Kept
  <2>3. \A n \in Kept(S) : Cardinality({m \in Kept(S) : m < n}) \in Nat
    BY <2>2, FinitePlaces
  <2>4. DOMAIN Cut(how, S) = Kept(S)
    BY <2>1
  <2>5. \A n \in Kept(S) : Cut(how, S)[n] = Job({n}, Cardinality({m \in Kept(S) : m < n}))
    BY <2>1
  <2>6. \A n \in Kept(S) : {n} \in SUBSET DOMAIN Work
    BY <2>2
  <2>7. Cut(how, S) = [j \in DOMAIN Cut(how, S) |-> Cut(how, S)[j]]
    BY <2>1, <2>4, <2>5
  <2>8. ASSUME NEW n \in Kept(S)
        PROVE  /\ Cut(how, S)[n].left \in SUBSET DOMAIN Work /\ Cut(how, S)[n].index \in Nat
               /\ Cut(how, S)[n] = Job(Cut(how, S)[n].left, Cut(how, S)[n].index)
    <3> DEFINE c == Cardinality({m \in Kept(S) : m < n})
    <3>1. Cut(how, S)[n] = Job({n}, c) /\ c \in Nat
      BY <2>3, <2>5
    <3> HIDE DEF c
    <3>2. Job({n}, c).left = {n} /\ Job({n}, c).index = c
      BY JobFields
    <3>3. QED BY <2>6, <3>1, <3>2
  <2>9. QED BY <2>2, <2>4, <2>7, <2>8
<1>4. QED BY <1>1, <1>2, <1>3

\* No place of the matrix goes to two jobs.
LEMMA CutDisjoint ==
  ASSUME NEW how \in Strategies, NEW S,
         NEW i \in DOMAIN Cut(how, S), NEW j \in DOMAIN Cut(how, S),
         NEW n \in Cut(how, S)[i].left, n \in Cut(how, S)[j].left
  PROVE  i = j
<1>1. CASE Serial(how)
  BY <1>1, SerialCut
<1>2. CASE ~ Serial(how) /\ how = "per_task"
  <2>1. Cut(how, S) = [k \in DOMAIN Tasks |-> Job(PlacesOf(Tasks[k]), 0)]
    BY <1>2 DEF Cut
  <2>2. TaskOf[Work[n]] = Tasks[i] /\ TaskOf[Work[n]] = Tasks[j]
    BY <2>1 DEF Job, PlacesOf
  <2>3. QED BY <2>1, <2>2, WorkAssumption
<1>3. CASE ~ Serial(how) /\ how # "per_task"
  BY <1>3 DEF Cut, CellJobs, Job
<1>4. QED BY <1>1, <1>2, <1>3

\* Every cell that is not skipped goes to a job.
LEMMA CutCovers ==
  ASSUME NEW how \in Strategies, NEW S, NEW n \in DOMAIN Work, Work[n] \notin S
  PROVE  \E j \in DOMAIN Cut(how, S) : n \in Cut(how, S)[j].left
<1>1. CASE Serial(how)
  BY <1>1, SerialCut DEF Job
<1>2. CASE ~ Serial(how) /\ how = "per_task"
  <2>1. Cut(how, S) = [k \in DOMAIN Tasks |-> Job(PlacesOf(Tasks[k]), 0)]
    BY <1>2 DEF Cut
  <2>2. Work[n] \in Cells
    BY WorkAssumption
  <2>3. PICK k \in DOMAIN Tasks : Tasks[k] = TaskOf[Work[n]]
    BY <2>2, WorkAssumption DEF Range
  <2>4. QED BY <2>1, <2>3 DEF Job, PlacesOf
<1>3. CASE ~ Serial(how) /\ how # "per_task"
  BY <1>3 DEF Cut, CellJobs, Job, Kept
<1>4. QED BY <1>1, <1>2, <1>3

\* The places whose order matters to place n.
Peers(how, n) == {m \in DOMAIN Work : Serial(how) \/ TaskOf[Work[m]] = TaskOf[Work[n]]}

\* Outside full parallelism a job has all places of its kind, and counts them from 0.
LEMMA CutPeers ==
  ASSUME NEW how \in Strategies, how # "full", NEW S,
         NEW j \in DOMAIN Cut(how, S), NEW n \in Cut(how, S)[j].left
  PROVE  Cut(how, S)[j].left = Peers(how, n) /\ Cut(how, S)[j].index = 0
<1>1. CASE Serial(how)
  BY <1>1, SerialCut DEF Job, Peers
<1>2. CASE ~ Serial(how)
  <2>1. how = "per_task"
    BY <1>2, StrategyAssumption DEF Serial
  <2>2. Cut(how, S) = [k \in DOMAIN Tasks |-> Job(PlacesOf(Tasks[k]), 0)]
    BY <1>2, <2>1 DEF Cut
  <2>3. QED BY <1>2, <2>2 DEF Job, PlacesOf, Peers
<1>3. QED BY <1>1, <1>2

-----------------------------------------------------------------------------
(***************************************************************************)
(* Sequences of rows                                                       *)
(***************************************************************************)
LEMMA Concatenation ==
  ASSUME NEW X, NEW s \in Seq(X), NEW t \in Seq(X)
  PROVE  /\ s \o t \in Seq(X)
         /\ \A k \in DOMAIN (s \o t) :
              \/ k \in DOMAIN s /\ (s \o t)[k] = s[k]
              \/ k - Len(s) \in DOMAIN t /\ (s \o t)[k] = t[k - Len(s)]
         /\ \A k \in DOMAIN s : k \in DOMAIN (s \o t) /\ (s \o t)[k] = s[k]
         /\ \A k \in DOMAIN t : Len(s) + k \in DOMAIN (s \o t) /\ (s \o t)[Len(s) + k] = t[k]
OBVIOUS

\* S is a set of places, s a sequence of one row for each of them.
RowsOf(s, j, S) ==
  /\ \A k \in DOMAIN s : \E n \in S : s[k] = RowAt(j, n)
  /\ \A n \in S : \E k \in DOMAIN s : s[k] = RowAt(j, n)
  /\ \A k, l \in DOMAIN s : s[k].cell = s[l].cell => k = l

\* Appending the row of the next place extends the rows of a job as they should be.
LEMMA Appended ==
  ASSUME NEW j, NEW S \in SUBSET DOMAIN Work, NEW n \in DOMAIN Work \ S,
         NEW s \in Seq(Rows), RowsOf(s, j, S), RowAt(j, n) \in Rows
  PROVE  RowsOf(Append(s, RowAt(j, n)), j, S \cup {n})
<1> DEFINE r == RowAt(j, n)
           t == Append(s, r)
<1>1. /\ DOMAIN t = 1..(Len(s) + 1) /\ t[Len(s) + 1] = r
      /\ \A k \in DOMAIN s : k \in DOMAIN t /\ t[k] = s[k]
      /\ \A k \in DOMAIN t : k \in DOMAIN s \/ k = Len(s) + 1
      /\ Len(s) + 1 \in DOMAIN t /\ Len(s) + 1 \notin DOMAIN s
  OBVIOUS
<1>2. \A k \in DOMAIN s : s[k].cell # Work[n]
  <2>1. \A m \in S : RowAt(j, m).cell = Work[m] /\ Work[m] # Work[n]
    BY WorkAssumption DEF RowAt, ResultRow
  <2>2. QED BY <2>1 DEF RowsOf
<1>3. r.cell = Work[n]
  BY DEF RowAt, ResultRow
<1> HIDE DEF t, r
<1>4. \A k \in DOMAIN t : \E m \in S \cup {n} : t[k] = RowAt(j, m)
  BY <1>1 DEF RowsOf, r
<1>5. \A m \in S \cup {n} : \E k \in DOMAIN t : t[k] = RowAt(j, m)
  BY <1>1 DEF RowsOf, r
<1>6. \A k, l \in DOMAIN t : t[k].cell = t[l].cell => k = l
  BY <1>1, <1>2, <1>3 DEF RowsOf
<1>7. RowsOf(t, j, S \cup {n})
  BY <1>4, <1>5, <1>6 DEF RowsOf
<1>8. QED BY <1>7 DEF t, r

-----------------------------------------------------------------------------
(***************************************************************************)
(* What is so of the jobs because of how they are cut                      *)
(***************************************************************************)
ScheduleInv == ScheduleTypeOK /\ Scheduled

\* What never changes while a batch is under way: who has which places.
LEMMA Static ==
  ASSUME ScheduleTypeOK
  PROVE  /\ DOMAIN jobs \subseteq Nat
         /\ \A j \in DOMAIN jobs : Places(j) \in SUBSET DOMAIN Work /\ First(j) \in Nat
         /\ \A i, j \in DOMAIN jobs : \A n \in Places(i) \cap Places(j) : i = j
         /\ \A n \in DOMAIN Work : Work[n] \notin skip => \E j \in DOMAIN jobs : n \in Kin(j)
<1>1. strategy \in Strategies /\ DOMAIN jobs = DOMAIN Cut(strategy, skip)
  BY DEF ScheduleTypeOK
<1>2. QED BY <1>1, CutShape, CutDisjoint, CutCovers DEF Places, First, Kin

LEMMA RowType ==
  ASSUME ScheduleTypeOK, NEW j \in DOMAIN jobs, NEW n \in Places(j)
  PROVE  RowAt(j, n) \in Rows /\ RowAt(j, n).cell = Work[n] /\ Work[n] \in Cells
<1>1. n \in DOMAIN Work /\ First(j) \in Nat /\ {m \in Places(j) : m < n} \in SUBSET DOMAIN Work
  BY Static
<1>2. IndexOf(j, n) \in Nat
  BY <1>1, FinitePlaces DEF IndexOf
<1>3. Work[n] \in Cells
  BY <1>1, WorkAssumption
<1>4. QED BY <1>2, <1>3 DEF RowAt, ResultRow, Rows

\* A job is at one place at a time.
LEMMA OneAt ==
  ASSUME ScheduleTypeOK, NEW j \in DOMAIN jobs, NEW m \in jobs[j].left, NEW n \in jobs[j].left,
         At(j, m), At(j, n)
  PROVE  m = n
<1>1. jobs[j].left \subseteq Nat
  BY WorkAssumption DEF ScheduleTypeOK
<1>2. QED BY <1>1 DEF At

\* At the place it has come to, a job has its index.
LEMMA IndexAt ==
  ASSUME ScheduleInv, NEW j \in DOMAIN jobs, NEW n, At(j, n)
  PROVE  /\ n \in Places(j) /\ n \in DOMAIN Work
         /\ Past(j) = {m \in Places(j) : m < n}
         /\ jobs[j].index = IndexOf(j, n)
         /\ n \notin Past(j)
<1>1. jobs[j].left \subseteq Places(j) /\ Places(j) \subseteq Nat /\ n \in jobs[j].left
  BY Static, WorkAssumption DEF ScheduleInv, Scheduled, Advancing, At
<1>2. Past(j) = {m \in Places(j) : m < n}
  <2>1. \A m \in Past(j) : m \in Places(j) /\ m < n
    BY <1>1 DEF ScheduleInv, Scheduled, Advancing, Past
  <2>2. ASSUME NEW m \in Places(j), m < n PROVE m \in Past(j)
    <3>1. n \in Nat /\ m \in Nat /\ ~ (n <= m)
      BY <1>1, <2>2
    <3>2. m \notin jobs[j].left
      BY <3>1 DEF At
    <3>3. QED BY <3>2 DEF Past
  <2>3. QED BY <2>1, <2>2
<1>3. jobs[j].index = IndexOf(j, n)
  BY <1>2 DEF ScheduleInv, Scheduled, Advancing, IndexOf
<1>4. QED BY <1>1, <1>2, <1>3, Static DEF ScheduleInv, Past

LEMMA StaticStays ==
  ASSUME UNCHANGED <<strategy, skip>>
  PROVE  /\ \A j : Places(j)' = Places(j) /\ First(j)' = First(j) /\ Kin(j)' = Kin(j)
         /\ \A j, n : RowAt(j, n)' = RowAt(j, n)
BY DEF Places, First, Kin, RowAt, IndexOf

-----------------------------------------------------------------------------
(***************************************************************************)
(* What a step of job j leaves alone                                       *)
(***************************************************************************)
JobType == [left : SUBSET DOMAIN Work, index : Nat, rows : Seq(Rows), phase : Phases]

OnlyJob(j) ==
  /\ UNCHANGED <<strategy, workers, skip>> /\ DOMAIN jobs' = DOMAIN jobs
  /\ \A i \in DOMAIN jobs \ {j} : jobs'[i] = jobs[i]

\* The other jobs stand where they stood, when one job moves.
LEMMA Others ==
  ASSUME ScheduleInv, NEW j \in DOMAIN jobs, OnlyJob(j),
         begun \subseteq begun', begun' \subseteq begun \cup {Work[n] : n \in jobs[j].left},
         ended \subseteq ended',
         main' \in {"collecting", "returned"} => main \in {"collecting", "returned"}
  PROVE  \A i \in DOMAIN jobs \ {j} : Advancing(i)' /\ Serially(i)'
<1> SUFFICES ASSUME NEW i \in DOMAIN jobs \ {j} PROVE Advancing(i)' /\ Serially(i)'
  OBVIOUS
<1>1. /\ Places(i)' = Places(i) /\ First(i)' = First(i) /\ jobs'[i] = jobs[i]
      /\ \A n : RowAt(i, n)' = RowAt(i, n) /\ skip' = skip
  BY StaticStays DEF OnlyJob
<1>2. Past(i)' = Past(i) /\ Due(i)' = Due(i)
  BY <1>1 DEF Past, Due
<1>3. Advancing(i) /\ Serially(i)
  BY DEF ScheduleInv, Scheduled
<1>4. Advancing(i)'
  BY <1>1, <1>2, <1>3 DEF Advancing
<1>5. \A n \in jobs[i].left : Work[n] \in begun' => Work[n] \in begun
  <2>1. ASSUME NEW n \in jobs[i].left, NEW m \in jobs[j].left, Work[n] = Work[m]
        PROVE  FALSE
    <3>1. n \in Places(i) /\ m \in Places(j)
      BY DEF ScheduleInv, Scheduled, Advancing
    <3>2. m = n
      BY <2>1, <3>1, Static, WorkAssumption DEF ScheduleInv
    <3>3. QED BY <3>1, <3>2, Static DEF ScheduleInv
  <2>2. QED BY <2>1
<1>6. Serially(i)'
  BY <1>1, <1>2, <1>3, <1>5 DEF Serially, At
<1>7. QED BY <1>4, <1>6

\* What has been collected stays so, when no job is collected.
LEMMA CollectedStands ==
  ASSUME ScheduleInv, NEW j \in DOMAIN jobs, OnlyJob(j), results' = results,
         (jobs'[j].phase = "collected") <=> (jobs[j].phase = "collected"),
         main' = main, main # "returned"
  PROVE  Collected'
<1>1. InPhase({"collected"})' = InPhase({"collected"})
  BY DEF InPhase, OnlyJob
<1>2. \A i, n : Kin(i)' = Kin(i) /\ RowAt(i, n)' = RowAt(i, n)
  BY StaticStays DEF OnlyJob
<1>3. Collected
  BY DEF ScheduleInv, Scheduled
<1>4. QED BY <1>1, <1>2, <1>3 DEF Collected, OnlyJob

\* A job moves on to another phase and no cell begins.
LEMMA Moved ==
  ASSUME ScheduleInv, NEW j \in DOMAIN jobs, NEW to \in Phases,
         jobs' = [jobs EXCEPT ![j].phase = to],
         UNCHANGED <<strategy, workers, skip, begun>>, ended \subseteq ended',
         main' \in {"collecting", "returned"} => main \in {"collecting", "returned"},
         to # "running", to = "done" => jobs[j].left = {},
         to = "collected" /\ main' \in {"collecting", "returned"} => jobs[j].left = {},
         \A n \in jobs[j].left : Work[n] \in begun => to \in {"failed", "collected"}
  PROVE  /\ OnlyJob(j)
         /\ jobs' \in [DOMAIN Cut(strategy, skip) -> JobType]
         /\ jobs'[j] = [jobs[j] EXCEPT !.phase = to]
         /\ Begun' /\ \A i \in DOMAIN jobs : Advancing(i)' /\ Serially(i)'
<1>1. jobs \in [DOMAIN jobs -> JobType] /\ DOMAIN jobs = DOMAIN Cut(strategy, skip)
  BY DEF ScheduleInv, ScheduleTypeOK, JobType
<1>2. /\ OnlyJob(j) /\ jobs' \in [DOMAIN jobs -> JobType]
      /\ jobs'[j] = [jobs[j] EXCEPT !.phase = to]
  BY <1>1 DEF OnlyJob, JobType
<1>3. \A i \in DOMAIN jobs \ {j} : Advancing(i)' /\ Serially(i)'
  BY <1>2, Others
<1>4. /\ Places(j)' = Places(j) /\ First(j)' = First(j)
      /\ \A n : RowAt(j, n)' = RowAt(j, n)
  BY StaticStays
<1>5. /\ jobs'[j].left = jobs[j].left /\ jobs'[j].index = jobs[j].index
      /\ jobs'[j].rows = jobs[j].rows /\ jobs'[j].phase = to
  BY <1>1, <1>2 DEF JobType
<1>6. Past(j)' = Past(j) /\ Due(j)' = Due(j)
  BY <1>4, <1>5 DEF Past, Due
<1>7. Advancing(j) /\ Serially(j)
  BY DEF ScheduleInv, Scheduled
<1>8. Advancing(j)'
  BY <1>4, <1>5, <1>6, <1>7 DEF Advancing
<1>9. Serially(j)'
  BY <1>4, <1>5, <1>6, <1>7 DEF Serially, At
<1>10. Begun'
  BY DEF ScheduleInv, Scheduled, Begun, Todo
<1>11. QED BY <1>1, <1>2, <1>3, <1>8, <1>9, <1>10

LEMMA TakeInv == ASSUME ScheduleInv, NEW j \in DOMAIN jobs, Take(j) PROVE ScheduleInv'
<1>1. /\ jobs[j].phase = "queued" /\ jobs' = [jobs EXCEPT ![j].phase = "idle"]
      /\ UNCHANGED <<strategy, workers, skip, begun, ended, results, main>>
      /\ PoolLives
  BY DEF Take, Move
<1>2. \A n \in jobs[j].left : Work[n] \notin begun
  BY <1>1 DEF ScheduleInv, Scheduled, Serially
<1>3. /\ OnlyJob(j) /\ jobs' \in [DOMAIN Cut(strategy, skip) -> JobType]
      /\ jobs'[j] = [jobs[j] EXCEPT !.phase = "idle"]
      /\ Begun' /\ \A i \in DOMAIN jobs : Advancing(i)' /\ Serially(i)'
  BY <1>1, <1>2, Moved DEF Phases
<1>4. jobs'[j].phase = "idle"
  BY <1>1, <1>3 DEF ScheduleInv, ScheduleTypeOK
<1>5. Collected'
  BY <1>1, <1>3, <1>4, CollectedStands DEF PoolLives
<1>6. ScheduleTypeOK'
  BY <1>1, <1>3 DEF ScheduleInv, ScheduleTypeOK, JobType
<1>7. NothingLeftRunning'
  BY <1>1 DEF NothingLeftRunning, PoolLives
<1>8. QED BY <1>1, <1>3, <1>5, <1>6, <1>7 DEF ScheduleInv, Scheduled, OnlyJob

\* While a job is not done, its pool lives.
LEMMA Live ==
  ASSUME ScheduleInv, NEW j \in DOMAIN jobs, jobs[j].phase \in {"queued", "idle", "running"}
  PROVE  PoolLives
BY DEF ScheduleInv, Scheduled, NothingLeftRunning, ScheduleTypeOK, PoolLives

\* A job is past the place it has come to.
LEMMA Passed ==
  ASSUME ScheduleInv, NEW j \in DOMAIN jobs, NEW n, At(j, n), NEW s \in Seq(Rows),
         jobs[j].phase \in {"idle", "running"},
         jobs' = [jobs EXCEPT ![j].left = @ \ {n}, ![j].index = @ + 1,
                              ![j].rows = s, ![j].phase = "idle"],
         UNCHANGED <<strategy, workers, skip, begun, results, main>>,
         ended \subseteq ended', ended' \subseteq begun, Work[n] \in ended' \cup skip,
         s = IF Work[n] \in skip THEN jobs[j].rows ELSE Append(jobs[j].rows, RowAt(j, n))
  PROVE  ScheduleInv'
<1>1. jobs \in [DOMAIN jobs -> JobType] /\ DOMAIN jobs = DOMAIN Cut(strategy, skip)
  BY DEF ScheduleInv, ScheduleTypeOK, JobType
<1>2. /\ n \in Places(j) /\ n \in DOMAIN Work /\ n \in jobs[j].left
      /\ Past(j) = {m \in Places(j) : m < n} /\ n \notin Past(j)
  BY IndexAt DEF At
<1>3. /\ jobs'[j].left = jobs[j].left \ {n} /\ jobs'[j].index = jobs[j].index + 1
      /\ jobs'[j].rows = s /\ jobs'[j].phase = "idle"
  BY <1>1 DEF JobType
<1>4. OnlyJob(j) /\ jobs' \in [DOMAIN jobs -> JobType]
  BY <1>1, <1>2, <1>3 DEF OnlyJob, JobType, Phases
<1>5. PoolLives
  BY Live
<1>6. \A i \in DOMAIN jobs \ {j} : Advancing(i)' /\ Serially(i)'
  BY <1>4, Others
<1>7. Collected'
  BY <1>3, <1>4, <1>5, CollectedStands DEF PoolLives
<1>8. /\ Places(j)' = Places(j) /\ First(j)' = First(j)
      /\ \A m : RowAt(j, m)' = RowAt(j, m)
  BY StaticStays
<1>9. Past(j)' = Past(j) \cup {n}
  BY <1>2, <1>3, <1>8 DEF Past
<1>10. Advancing(j) /\ Serially(j)
  BY DEF ScheduleInv, Scheduled
<1>11. Due(j) \in SUBSET DOMAIN Work /\ Past(j) \in SUBSET DOMAIN Work
       /\ Places(j) \in SUBSET DOMAIN Work
  BY Static DEF ScheduleInv, Due, Past
<1>12. jobs'[j].index = First(j) + Cardinality(Past(j)')
  <2>1. Cardinality(Past(j)') = Cardinality(Past(j)) + 1
    BY <1>2, <1>9, <1>11, FinitePlaces, FS_AddElement
  <2>2. First(j) \in Nat /\ Cardinality(Past(j)) \in Nat
    BY <1>11, FinitePlaces, Static DEF ScheduleInv
  <2>3. QED BY <1>3, <1>10, <2>1, <2>2 DEF Advancing
<1>13. RowsOf(jobs'[j].rows, j, Due(j)')
  <2>1. CASE Work[n] \in skip
    <3>1. Due(j)' = Due(j)
      BY <1>9, <2>1 DEF Due
    <3>2. RowsOf(jobs[j].rows, j, Due(j)) /\ jobs'[j].rows = jobs[j].rows
      BY <1>3, <1>10, <2>1 DEF Advancing, RowsOf
    <3>3. QED BY <3>1, <3>2
  <2>2. CASE Work[n] \notin skip
    <3>1. Due(j)' = Due(j) \cup {n} /\ n \notin Due(j)
      BY <1>2, <1>9, <2>2 DEF Due
    <3>2. RowAt(j, n) \in Rows
      BY <1>2, RowType DEF ScheduleInv
    <3>3. jobs[j].rows \in Seq(Rows)
      BY <1>1 DEF JobType
    <3>4. RowsOf(jobs[j].rows, j, Due(j))
      BY <1>10 DEF Advancing, RowsOf
    <3>5. RowsOf(Append(jobs[j].rows, RowAt(j, n)), j, Due(j) \cup {n})
      BY <1>2, <1>11, <3>1, <3>2, <3>3, <3>4, Appended
    <3>6. jobs'[j].rows = Append(jobs[j].rows, RowAt(j, n))
      BY <1>3, <2>2
    <3>7. QED BY <3>1, <3>5, <3>6
  <2>3. QED BY <2>1, <2>2
<1>14. \A m \in Past(j)', k \in jobs'[j].left : m < k
  <2>1. \A k \in jobs[j].left \ {n} : n < k
    <3>1. jobs[j].left \subseteq Nat
      BY <1>10, <1>11, WorkAssumption DEF Advancing
    <3>2. QED BY <1>2, <3>1 DEF At
  <2>2. QED BY <1>3, <1>9, <1>10, <2>1 DEF Advancing
<1>15. Advancing(j)'
  <2>1. /\ \A k \in DOMAIN jobs'[j].rows : \E m \in Due(j)' : jobs'[j].rows[k] = RowAt(j, m)
        /\ \A m \in Due(j)' : \E k \in DOMAIN jobs'[j].rows : jobs'[j].rows[k] = RowAt(j, m)
        /\ \A k, l \in DOMAIN jobs'[j].rows :
             jobs'[j].rows[k].cell = jobs'[j].rows[l].cell => k = l
    BY <1>13 DEF RowsOf
  <2>2. /\ jobs'[j].left \subseteq Places(j)'
        /\ jobs'[j].index = First(j)' + Cardinality(Past(j)')
    BY <1>3, <1>8, <1>10, <1>12 DEF Advancing
  <2>3. /\ \A k \in DOMAIN jobs'[j].rows : \E m \in Due(j)' : jobs'[j].rows[k] = RowAt(j, m)'
        /\ \A m \in Due(j)' : \E k \in DOMAIN jobs'[j].rows : jobs'[j].rows[k] = RowAt(j, m)'
        /\ \A k, l \in DOMAIN jobs'[j].rows :
             jobs'[j].rows[k].cell = jobs'[j].rows[l].cell => k = l
    <3>1. \A m \in Due(j)' : RowAt(j, m)' = RowAt(j, m)
      BY <1>8
    <3>2. \A k \in DOMAIN jobs'[j].rows : \E m \in Due(j)' : jobs'[j].rows[k] = RowAt(j, m)'
      BY <2>1, <3>1
    <3>3. \A m \in Due(j)' : \E k \in DOMAIN jobs'[j].rows : jobs'[j].rows[k] = RowAt(j, m)'
      BY <2>1, <3>1
    <3>4. QED BY <2>1, <3>2, <3>3
  <2>4. QED BY <1>14, <2>2, <2>3 DEF Advancing
<1>16. Serially(j)'
  <2>1. \A m \in jobs[j].left \ {n} : Work[m] \notin begun
    <3>1. ASSUME NEW m \in jobs[j].left \ {n}, Work[m] \in begun PROVE FALSE
      <4>1. At(j, m)
        BY <1>10, <3>1 DEF Serially
      <4>2. QED BY <1>2, <3>1, <4>1, OneAt DEF ScheduleInv
    <3>2. QED BY <3>1
  <2>2. \A m \in Past(j)' : Work[m] \in ended' \cup skip
    BY <1>9, <1>10 DEF Serially
  <2>3. QED BY <1>3, <2>1, <2>2 DEF Serially
<1>17. Begun' /\ NothingLeftRunning'
  BY <1>5 DEF ScheduleInv, Scheduled, Begun, Todo, NothingLeftRunning
<1>18. ScheduleTypeOK'
  BY <1>1, <1>4 DEF ScheduleInv, ScheduleTypeOK, JobType
<1>19. QED BY <1>4, <1>6, <1>7, <1>15, <1>16, <1>17, <1>18 DEF ScheduleInv, Scheduled, OnlyJob

LEMMA SkipInv == ASSUME ScheduleInv, NEW j \in DOMAIN jobs, Skip(j) PROVE ScheduleInv'
<1>1. PICK n \in DOMAIN Work :
        /\ At(j, n) /\ Work[n] \in skip
        /\ jobs' = [jobs EXCEPT ![j].left = @ \ {n}, ![j].index = @ + 1]
  BY DEF Skip
<1>2. jobs[j].phase = "idle" /\ UNCHANGED <<strategy, workers, skip, begun, ended, results, main>>
  BY DEF Skip
<1>3. jobs[j].rows \in Seq(Rows) /\ jobs \in [DOMAIN jobs -> JobType]
  BY DEF ScheduleInv, ScheduleTypeOK, JobType
<1>4. jobs' = [jobs EXCEPT ![j].left = @ \ {n}, ![j].index = @ + 1,
                           ![j].rows = jobs[j].rows, ![j].phase = "idle"]
  BY <1>1, <1>2, <1>3 DEF JobType
<1>5. ended \subseteq begun
  BY DEF ScheduleInv, ScheduleTypeOK
<1>6. QED BY <1>1, <1>2, <1>3, <1>4, <1>5, Passed

LEMMA EndCellInv == ASSUME ScheduleInv, NEW j \in DOMAIN jobs, EndCell(j) PROVE ScheduleInv'
<1>1. PICK n \in DOMAIN Work :
        /\ At(j, n)
        /\ ended' = ended \cup {Work[n]}
        /\ jobs' = [jobs EXCEPT ![j].left = @ \ {n}, ![j].index = @ + 1,
                                ![j].rows = Append(@, ResultRow(Work[n], jobs[j].index)),
                                ![j].phase = "idle"]
  BY DEF EndCell
<1>2. jobs[j].phase = "running" /\ UNCHANGED <<strategy, workers, skip, begun, results, main>>
  BY DEF EndCell
<1>3. jobs[j].rows \in Seq(Rows) /\ jobs \in [DOMAIN jobs -> JobType]
  BY DEF ScheduleInv, ScheduleTypeOK, JobType
<1>4. Work[n] \in begun \ skip
  <2>1. PICK m \in DOMAIN Work : At(j, m) /\ Work[m] \in begun \ skip
    BY <1>2 DEF ScheduleInv, Scheduled, Serially
  <2>2. m = n
    BY <1>1, <2>1, OneAt DEF ScheduleInv, At
  <2>3. QED BY <2>1, <2>2
<1>5. ResultRow(Work[n], jobs[j].index) = RowAt(j, n) /\ n \in Places(j)
  BY <1>1, IndexAt DEF RowAt
<1>6. Append(jobs[j].rows, RowAt(j, n)) \in Seq(Rows)
  BY <1>3, <1>5, RowType DEF ScheduleInv
<1>7. ended \subseteq begun
  BY DEF ScheduleInv, ScheduleTypeOK
<1>8. jobs' = [jobs EXCEPT ![j].left = @ \ {n}, ![j].index = @ + 1,
                           ![j].rows = Append(jobs[j].rows, RowAt(j, n)), ![j].phase = "idle"]
  BY <1>1, <1>5
<1>9. QED BY <1>1, <1>2, <1>4, <1>6, <1>7, <1>8, Passed

LEMMA BeginCellInv == ASSUME ScheduleInv, NEW j \in DOMAIN jobs, BeginCell(j) PROVE ScheduleInv'
<1>1. /\ jobs[j].phase = "idle" /\ jobs' = [jobs EXCEPT ![j].phase = "running"]
      /\ UNCHANGED <<strategy, workers, skip, ended, results, main>>
  BY DEF BeginCell, Move
<1>2. PICK n \in DOMAIN Work : At(j, n) /\ Work[n] \notin skip /\ begun' = begun \cup {Work[n]}
  BY DEF BeginCell
<1>3. jobs \in [DOMAIN jobs -> JobType] /\ DOMAIN jobs = DOMAIN Cut(strategy, skip)
  BY DEF ScheduleInv, ScheduleTypeOK, JobType
<1>4. /\ jobs'[j].left = jobs[j].left /\ jobs'[j].index = jobs[j].index
      /\ jobs'[j].rows = jobs[j].rows /\ jobs'[j].phase = "running"
  BY <1>1, <1>3 DEF JobType
<1>5. OnlyJob(j) /\ jobs' \in [DOMAIN jobs -> JobType]
  BY <1>1, <1>3 DEF OnlyJob, JobType, Phases
<1>6. PoolLives
  BY <1>1, Live
<1>7. n \in jobs[j].left /\ jobs[j].left \subseteq DOMAIN Work
  BY <1>2, <1>3 DEF At, JobType
<1>8. \A i \in DOMAIN jobs \ {j} : Advancing(i)' /\ Serially(i)'
  BY <1>1, <1>2, <1>5, <1>7, Others
<1>9. Collected'
  BY <1>1, <1>4, <1>5, <1>6, CollectedStands DEF PoolLives
<1>10. /\ Places(j)' = Places(j) /\ First(j)' = First(j)
       /\ \A m : RowAt(j, m)' = RowAt(j, m)
  BY <1>1, StaticStays
<1>11. Past(j)' = Past(j) /\ Due(j)' = Due(j)
  BY <1>1, <1>4, <1>10 DEF Past, Due
<1>12. Advancing(j) /\ Serially(j)
  BY DEF ScheduleInv, Scheduled
<1>13. Advancing(j)'
  BY <1>4, <1>10, <1>11, <1>12 DEF Advancing
<1>14. Serially(j)'
  <2>1. ASSUME NEW m \in jobs[j].left, Work[m] \in begun' PROVE m = n
    <3>1. Work[m] \notin begun
      BY <1>1, <1>12 DEF Serially
    <3>2. QED BY <1>2, <1>7, <2>1, <3>1, WorkAssumption
  <2>2. At(j, n)'
    BY <1>2, <1>4 DEF At
  <2>3. QED BY <1>1, <1>2, <1>4, <1>11, <1>12, <2>1, <2>2 DEF Serially
<1>15. Work[n] \in Todo /\ Work[n] \in Cells
  BY <1>2, WorkAssumption DEF Todo, Range
<1>16. Begun' /\ NothingLeftRunning'
  BY <1>1, <1>2, <1>6, <1>15 DEF ScheduleInv, Scheduled, Begun, Todo, NothingLeftRunning
<1>17. ScheduleTypeOK'
  BY <1>1, <1>2, <1>3, <1>5, <1>15 DEF ScheduleInv, ScheduleTypeOK, JobType
<1>18. QED BY <1>5, <1>8, <1>9, <1>13, <1>14, <1>16, <1>17 DEF ScheduleInv, Scheduled, OnlyJob

LEMMA EndJobInv == ASSUME ScheduleInv, NEW j \in DOMAIN jobs, EndJob(j) PROVE ScheduleInv'
<1>1. /\ jobs[j].left = {} /\ jobs[j].phase = "idle" /\ jobs' = [jobs EXCEPT ![j].phase = "done"]
      /\ UNCHANGED <<strategy, workers, skip, begun, ended, results, main>>
  BY DEF EndJob, Move
<1>2. /\ OnlyJob(j) /\ jobs' \in [DOMAIN Cut(strategy, skip) -> JobType]
      /\ jobs'[j] = [jobs[j] EXCEPT !.phase = "done"]
      /\ Begun' /\ \A i \in DOMAIN jobs : Advancing(i)' /\ Serially(i)'
  BY <1>1, Moved DEF Phases
<1>3. jobs'[j].phase = "done"
  BY <1>1, <1>2 DEF ScheduleInv, ScheduleTypeOK
<1>4. PoolLives
  BY <1>1, Live
<1>5. Collected'
  BY <1>1, <1>2, <1>3, <1>4, CollectedStands DEF PoolLives
<1>6. ScheduleTypeOK'
  BY <1>1, <1>2 DEF ScheduleInv, ScheduleTypeOK, JobType
<1>7. NothingLeftRunning'
  BY <1>1, <1>4 DEF NothingLeftRunning, PoolLives
<1>8. QED BY <1>1, <1>2, <1>5, <1>6, <1>7 DEF ScheduleInv, Scheduled, OnlyJob

LEMMA ReporterFailsInv == ASSUME ScheduleInv, NEW j \in DOMAIN jobs, ReporterFails(j) PROVE ScheduleInv'
<1>1. PICK n \in DOMAIN Work :
        /\ At(j, n)
        /\ \/ Move(j, "idle", "failed") /\ Work[n] \notin skip /\ UNCHANGED ended
           \/ Move(j, "running", "failed") /\ ended' = ended \cup {Work[n]}
  BY DEF ReporterFails
<1>2. /\ jobs[j].phase \in {"idle", "running"} /\ jobs' = [jobs EXCEPT ![j].phase = "failed"]
      /\ UNCHANGED <<strategy, workers, skip, begun, results, main>> /\ ended \subseteq ended'
  BY <1>1 DEF ReporterFails, Move
<1>3. ended' \subseteq begun
  <2>1. CASE jobs[j].phase = "running"
    <3>1. PICK m \in DOMAIN Work : At(j, m) /\ Work[m] \in begun
      BY <2>1 DEF ScheduleInv, Scheduled, Serially
    <3>2. m = n
      BY <1>1, <3>1, OneAt DEF ScheduleInv, At
    <3>3. QED BY <1>1, <3>1, <3>2 DEF ScheduleInv, ScheduleTypeOK
  <2>2. CASE jobs[j].phase # "running"
    BY <1>1, <2>2 DEF Move, ScheduleInv, ScheduleTypeOK
  <2>3. QED BY <2>1, <2>2
<1>4. /\ OnlyJob(j) /\ jobs' \in [DOMAIN Cut(strategy, skip) -> JobType]
      /\ jobs'[j] = [jobs[j] EXCEPT !.phase = "failed"]
      /\ Begun' /\ \A i \in DOMAIN jobs : Advancing(i)' /\ Serially(i)'
  BY <1>2, Moved DEF Phases
<1>5. jobs'[j].phase = "failed"
  BY <1>2, <1>4 DEF ScheduleInv, ScheduleTypeOK
<1>6. PoolLives
  BY <1>2, Live
<1>7. Collected'
  BY <1>2, <1>4, <1>5, <1>6, CollectedStands DEF PoolLives
<1>8. ScheduleTypeOK'
  BY <1>2, <1>3, <1>4 DEF ScheduleInv, ScheduleTypeOK, JobType
<1>9. NothingLeftRunning'
  BY <1>2, <1>6 DEF NothingLeftRunning, PoolLives
<1>10. QED BY <1>2, <1>4, <1>7, <1>8, <1>9 DEF ScheduleInv, Scheduled, OnlyJob

LEMMA CollectInv == ASSUME ScheduleInv, NEW j \in DOMAIN jobs, Collect(j) PROVE ScheduleInv'
<1>1. /\ jobs[j].phase = "done" /\ jobs' = [jobs EXCEPT ![j].phase = "collected"]
      /\ main = "collecting" /\ results' = results \o jobs[j].rows
      /\ UNCHANGED <<strategy, workers, skip, begun, ended, main>>
  BY DEF Collect, Move
<1>2. Advancing(j) /\ jobs[j].left = {}
  BY <1>1 DEF ScheduleInv, Scheduled, Serially
<1>3. /\ OnlyJob(j) /\ jobs' \in [DOMAIN Cut(strategy, skip) -> JobType]
      /\ jobs'[j] = [jobs[j] EXCEPT !.phase = "collected"]
      /\ Begun' /\ \A i \in DOMAIN jobs : Advancing(i)' /\ Serially(i)'
  BY <1>1, <1>2, Moved DEF Phases
<1>4. jobs'[j].phase = "collected"
  BY <1>1, <1>3 DEF ScheduleInv, ScheduleTypeOK
<1>5. InPhase({"collected"})' = InPhase({"collected"}) \cup {j} /\ j \notin InPhase({"collected"})
  BY <1>1, <1>3, <1>4 DEF InPhase, OnlyJob
<1>6. Due(j) = Kin(j)
  BY <1>2 DEF Due, Kin, Past
<1>7. \A i : Kin(i)' = Kin(i) /\ \A n : RowAt(i, n)' = RowAt(i, n)
  BY <1>1, StaticStays
<1>8. results \in Seq(Rows) /\ jobs[j].rows \in Seq(Rows)
  BY DEF ScheduleInv, ScheduleTypeOK
<1> DEFINE old == results
           new == jobs[j].rows
           all == results'
<1>9. /\ all \in Seq(Rows)
      /\ \A k \in DOMAIN all :
              \/ k \in DOMAIN old /\ all[k] = old[k]
              \/ k - Len(old) \in DOMAIN new /\ all[k] = new[k - Len(old)]
      /\ \A k \in DOMAIN old : k \in DOMAIN all /\ all[k] = old[k]
      /\ \A k \in DOMAIN new : Len(old) + k \in DOMAIN all /\ all[Len(old) + k] = new[k]
  BY <1>1, <1>8, Concatenation
<1>10. /\ \A m \in DOMAIN old : \E i \in InPhase({"collected"}) : \E n \in Kin(i) : old[m] = RowAt(i, n)
       /\ \A i \in InPhase({"collected"}) : \A n \in Kin(i) : \E m \in DOMAIN old : old[m] = RowAt(i, n)
       /\ \A k, l \in DOMAIN old : old[k].cell = old[l].cell => k = l
  BY <1>1 DEF ScheduleInv, Scheduled, Collected
<1>11. /\ \A k \in DOMAIN new : \E n \in Kin(j) : new[k] = RowAt(j, n)
       /\ \A n \in Kin(j) : \E k \in DOMAIN new : new[k] = RowAt(j, n)
       /\ \A k, l \in DOMAIN new : new[k].cell = new[l].cell => k = l
  BY <1>2, <1>6 DEF Advancing
<1>12. ASSUME NEW k \in DOMAIN old, NEW l \in DOMAIN new PROVE old[k].cell # new[l].cell
  <2>0. PICK i \in InPhase({"collected"}) : \E n \in Kin(i) : old[k] = RowAt(i, n)
    BY <1>10
  <2>1. PICK n \in Kin(i) : old[k] = RowAt(i, n)
    BY <2>0
  <2>2. PICK m \in Kin(j) : new[l] = RowAt(j, m)
    BY <1>11
  <2>3. i \in DOMAIN jobs /\ i # j /\ n \in Places(i) /\ m \in Places(j)
    BY <1>5 DEF InPhase, Kin
  <2>4. m # n /\ m \in DOMAIN Work /\ n \in DOMAIN Work
    BY <2>3, Static DEF ScheduleInv
  <2>5. old[k].cell = Work[n] /\ new[l].cell = Work[m]
    BY <2>1, <2>2, <2>3, RowType DEF ScheduleInv
  <2>6. QED BY <2>4, <2>5, WorkAssumption
<1> HIDE DEF old, new, all
<1>13. \A m \in DOMAIN all :
         \E i \in InPhase({"collected"}) \cup {j} : \E n \in Kin(i) : all[m] = RowAt(i, n)
  BY <1>9, <1>10, <1>11
<1>14. \A i \in InPhase({"collected"}) \cup {j} : \A n \in Kin(i) :
         \E m \in DOMAIN all : all[m] = RowAt(i, n)
  BY <1>9, <1>10, <1>11
<1>15. \A k, l \in DOMAIN all : all[k].cell = all[l].cell => k = l
  <2> SUFFICES ASSUME NEW k \in DOMAIN all, NEW l \in DOMAIN all, all[k].cell = all[l].cell
               PROVE  k = l
    OBVIOUS
  <2>1. k \in Nat /\ l \in Nat /\ Len(old) \in Nat
    BY <1>8, <1>9 DEF old
  <2>2. CASE k \in DOMAIN old /\ l \in DOMAIN old
    BY <1>9, <1>10, <2>2
  <2>3. CASE k \notin DOMAIN old /\ l \notin DOMAIN old
    BY <1>9, <1>11, <2>1, <2>3
  <2>4. CASE k \in DOMAIN old /\ l \notin DOMAIN old
    BY <1>9, <1>12, <2>4
  <2>5. CASE k \notin DOMAIN old /\ l \in DOMAIN old
    BY <1>9, <1>12, <2>5
  <2>6. QED BY <2>2, <2>3, <2>4, <2>5
<1>16. Collected'
  <2>1. \A m \in DOMAIN results' : \E i \in InPhase({"collected"})' :
          \E n \in Kin(i)' : results'[m] = RowAt(i, n)'
    BY <1>5, <1>7, <1>13 DEF all
  <2>2. \A i \in InPhase({"collected"})' : \A n \in Kin(i)' :
          \E m \in DOMAIN results' : results'[m] = RowAt(i, n)'
    BY <1>5, <1>7, <1>14 DEF all
  <2>3. \A k, l \in DOMAIN results' : results'[k].cell = results'[l].cell => k = l
    BY <1>15 DEF all
  <2>4. InPhase({"collected"})' \subseteq DOMAIN jobs' /\ main' = "collecting"
    BY <1>1 DEF InPhase
  <2>5. QED BY <2>1, <2>2, <2>3, <2>4 DEF Collected
<1>17. ScheduleTypeOK'
  <2>1. results' \in Seq(Rows)
    BY <1>9 DEF all
  <2>2. QED BY <1>1, <1>3, <2>1 DEF ScheduleInv, ScheduleTypeOK, JobType
<1>18. NothingLeftRunning'
  BY <1>1 DEF NothingLeftRunning
<1>19. QED BY <1>1, <1>3, <1>16, <1>17, <1>18 DEF ScheduleInv, Scheduled, OnlyJob

LEMMA CollectFailureInv == ASSUME ScheduleInv, NEW j \in DOMAIN jobs, CollectFailure(j) PROVE ScheduleInv'
<1>1. /\ jobs[j].phase = "failed" /\ jobs' = [jobs EXCEPT ![j].phase = "collected"]
      /\ main = "collecting" /\ main' = "draining"
      /\ UNCHANGED <<strategy, workers, skip, begun, ended, results>>
  BY DEF CollectFailure, Move
<1>2. /\ OnlyJob(j) /\ jobs' \in [DOMAIN Cut(strategy, skip) -> JobType]
      /\ jobs'[j] = [jobs[j] EXCEPT !.phase = "collected"]
      /\ Begun' /\ \A i \in DOMAIN jobs : Advancing(i)' /\ Serially(i)'
  BY <1>1, Moved DEF Phases
<1>3. \A i, n : Kin(i)' = Kin(i) /\ RowAt(i, n)' = RowAt(i, n)
  BY <1>1, StaticStays
<1>4. Collected'
  BY <1>1, <1>2, <1>3 DEF ScheduleInv, Scheduled, Collected, OnlyJob
<1>5. ScheduleTypeOK'
  BY <1>1, <1>2 DEF ScheduleInv, ScheduleTypeOK, JobType
<1>6. NothingLeftRunning'
  BY <1>1 DEF NothingLeftRunning
<1>7. QED BY <1>1, <1>2, <1>4, <1>5, <1>6 DEF ScheduleInv, Scheduled, OnlyJob

\* The main thread moves on and the jobs stay, but that all may fail at once.
LEMMA MainMoves ==
  ASSUME ScheduleInv, UNCHANGED <<strategy, workers, skip, begun, ended, results>>,
         \/ jobs' = jobs
         \/ /\ jobs' = [j \in DOMAIN jobs |-> [jobs[j] EXCEPT !.phase = "failed"]]
            /\ main' = "raised",
         \/ main' \in {"draining", "abandoned", "raised"}
         \/ /\ main = "collecting" /\ main' = "returned"
            /\ InPhase({"collected"}) = DOMAIN jobs /\ jobs' = jobs,
         NothingLeftRunning'
  PROVE  ScheduleInv'
<1>1. /\ \A j : Places(j)' = Places(j) /\ First(j)' = First(j) /\ Kin(j)' = Kin(j)
      /\ \A j, n : RowAt(j, n)' = RowAt(j, n)
  BY StaticStays
<1>2. jobs \in [DOMAIN jobs -> JobType] /\ DOMAIN jobs = DOMAIN Cut(strategy, skip)
  BY DEF ScheduleInv, ScheduleTypeOK, JobType
<1>3. jobs' \in [DOMAIN jobs -> JobType] /\ DOMAIN jobs' = DOMAIN jobs
  <2>1. CASE jobs' = jobs
    BY <1>2, <2>1
  <2>2. CASE jobs' = [j \in DOMAIN jobs |-> [jobs[j] EXCEPT !.phase = "failed"]]
    <3>1. \A j \in DOMAIN jobs : [jobs[j] EXCEPT !.phase = "failed"] \in JobType
      BY <1>2 DEF JobType, Phases
    <3>2. QED BY <2>2, <3>1
  <2>3. QED BY <2>1, <2>2
<1>4. ScheduleTypeOK'
  BY <1>2, <1>3 DEF ScheduleInv, ScheduleTypeOK, JobType
<1>5. Collected'
  <2>1. CASE main' = "returned"
    <3>1. InPhase({"collected"})' = InPhase({"collected"})
      BY <2>1 DEF InPhase
    <3>2. QED BY <1>1, <1>3, <2>1, <3>1 DEF ScheduleInv, Scheduled, Collected
  <2>2. CASE main' \in {"draining", "abandoned", "raised"}
    BY <1>1, <1>3, <2>2 DEF ScheduleInv, Scheduled, Collected
  <2>3. QED BY <2>1, <2>2
<1>6. ASSUME NEW j \in DOMAIN jobs PROVE Advancing(j)' /\ Serially(j)'
  <2>1. Advancing(j) /\ Serially(j)
    BY DEF ScheduleInv, Scheduled
  <2>2. /\ jobs'[j].left = jobs[j].left /\ jobs'[j].index = jobs[j].index
        /\ jobs'[j].rows = jobs[j].rows
        /\ jobs'[j].phase = jobs[j].phase \/ jobs'[j].phase = "failed"
    BY <1>2 DEF JobType
  <2>3. Past(j)' = Past(j) /\ Due(j)' = Due(j)
    BY <1>1, <2>2 DEF Past, Due
  <2>4. Advancing(j)'
    BY <1>1, <2>1, <2>2, <2>3 DEF Advancing
  <2>5. main' = "returned" => main = "collecting" /\ jobs'[j].phase = jobs[j].phase
    OBVIOUS
  <2>6. Serially(j)'
    BY <2>1, <2>2, <2>3, <2>5 DEF Serially, At
  <2>7. QED BY <2>4, <2>6
<1>7. Begun'
  BY DEF ScheduleInv, Scheduled, Begun, Todo
<1>8. QED BY <1>3, <1>4, <1>5, <1>6, <1>7 DEF ScheduleInv, Scheduled

LEMMA MainInv ==
  ASSUME ScheduleInv, Interrupt \/ Abandon \/ Raise \/ ReturnRows PROVE ScheduleInv'
<1>1. CASE Interrupt
  <2>1. CASE Serial(strategy)
    <3>1. /\ jobs' = [j \in DOMAIN jobs |-> [jobs[j] EXCEPT !.phase = "failed"]]
          /\ main = "collecting" /\ main' = "raised"
          /\ UNCHANGED <<strategy, workers, skip, begun, ended, results>>
      BY <1>1, <2>1 DEF Interrupt
    <3>2. jobs \in [DOMAIN jobs -> JobType]
      BY DEF ScheduleInv, ScheduleTypeOK, JobType
    <3>3. NothingLeftRunning'
      BY <3>1, <3>2 DEF NothingLeftRunning, JobType
    <3>4. QED BY <3>1, <3>3, MainMoves
  <2>2. CASE ~ Serial(strategy)
    <3>1. /\ jobs' = jobs /\ main = "collecting" /\ main' = "draining"
          /\ UNCHANGED <<strategy, workers, skip, begun, ended, results>>
      BY <1>1, <2>2 DEF Interrupt
    <3>2. NothingLeftRunning'
      BY <3>1 DEF NothingLeftRunning
    <3>3. QED BY <3>1, <3>2, MainMoves
  <2>3. QED BY <2>1, <2>2
<1>2. CASE Raise
  <2>1. /\ jobs' = jobs /\ main = "draining" /\ main' = "raised"
        /\ UNCHANGED <<strategy, workers, skip, begun, ended, results>>
    BY <1>2 DEF Raise
  <2>2. NothingLeftRunning'
    BY <1>2 DEF Raise, Drained, InPhase, NothingLeftRunning
  <2>3. QED BY <2>1, <2>2, MainMoves
<1>5. CASE Abandon
  <2>1. /\ jobs' = jobs /\ main' = "abandoned"
        /\ UNCHANGED <<strategy, workers, skip, begun, ended, results>>
    BY <1>5 DEF Abandon
  <2>2. NothingLeftRunning'
    BY <2>1 DEF NothingLeftRunning
  <2>3. QED BY <2>1, <2>2, MainMoves
<1>3. CASE ReturnRows
  <2>1. /\ jobs' = jobs /\ main = "collecting" /\ main' = "returned"
        /\ InPhase({"collected"}) = DOMAIN jobs
        /\ UNCHANGED <<strategy, workers, skip, begun, ended, results>>
    BY <1>3 DEF ReturnRows
  <2>2. NothingLeftRunning'
    BY <2>1 DEF InPhase, NothingLeftRunning
  <2>3. QED BY <2>1, <2>2, MainMoves
<1>4. QED BY <1>1, <1>2, <1>3, <1>5

-----------------------------------------------------------------------------
LEMMA ScheduleStarts == ScheduleInit => ScheduleInv
<1> SUFFICES ASSUME ScheduleInit PROVE ScheduleInv
  OBVIOUS
<1>1. /\ strategy \in Strategies /\ skip \subseteq Cells /\ jobs = Cut(strategy, skip)
      /\ begun = {} /\ ended = {} /\ results = <<>> /\ main = "collecting"
  BY DEF ScheduleInit
<1>2. \A j \in DOMAIN jobs :
        /\ jobs[j] = Job(Places(j), First(j))
        /\ Places(j) \in SUBSET DOMAIN Work /\ First(j) \in Nat
  BY <1>1, CutShape DEF Places, First
<1>3. ASSUME NEW j \in DOMAIN jobs
      PROVE  /\ jobs[j].left = Places(j) /\ jobs[j].index = First(j)
             /\ jobs[j].rows = <<>> /\ jobs[j].phase = "queued" /\ jobs[j] \in JobType
  <2>1. <<>> \in Seq(Rows) /\ "queued" \in Phases
    BY DEF Phases
  <2>2. jobs[j] = [left |-> Places(j), index |-> First(j), rows |-> <<>>, phase |-> "queued"]
    BY <1>2 DEF Job
  <2>3. QED BY <1>2, <2>1, <2>2 DEF JobType
<1>4. jobs = [j \in DOMAIN jobs |-> jobs[j]]
  BY <1>1, CutShape
<1>5. jobs \in [DOMAIN Cut(strategy, skip) -> JobType]
  BY <1>1, <1>3, <1>4
<1>6. ScheduleTypeOK
  BY <1>1, <1>5 DEF ScheduleInit, ScheduleTypeOK, JobType
<1>7. ASSUME NEW j \in DOMAIN jobs PROVE Advancing(j) /\ Serially(j)
  <2>1. Past(j) = {} /\ Due(j) = {}
    BY <1>3 DEF Past, Due
  <2>2. Cardinality(Past(j)) = 0
    BY <2>1, FS_EmptySet
  <2>3. QED BY <1>1, <1>2, <1>3, <2>1, <2>2 DEF Advancing, Serially
<1>8. InPhase({"collected"}) = {}
  BY <1>3 DEF InPhase
<1>9. Collected /\ Begun /\ NothingLeftRunning
  BY <1>1, <1>8 DEF Collected, Begun, NothingLeftRunning
<1>10. QED BY <1>6, <1>7, <1>9 DEF ScheduleInv, Scheduled

LEMMA ScheduleStep == ScheduleInv /\ [ScheduleNext]_scheduleVars => ScheduleInv'
<1> SUFFICES ASSUME ScheduleInv, [ScheduleNext]_scheduleVars PROVE ScheduleInv'
  OBVIOUS
<1>1. CASE UNCHANGED scheduleVars
  <2> USE <1>1 DEF scheduleVars
  <2>1. ScheduleTypeOK'
    BY DEF ScheduleInv, ScheduleTypeOK
  <2>2. /\ \A j : Places(j)' = Places(j) /\ First(j)' = First(j) /\ Kin(j)' = Kin(j)
        /\ \A j, n : RowAt(j, n)' = RowAt(j, n)
    BY StaticStays
  <2>3. \A j : Past(j)' = Past(j) /\ Due(j)' = Due(j)
    BY <2>2 DEF Past, Due
  <2>4. Collected'
    BY <2>2 DEF ScheduleInv, Scheduled, Collected, InPhase
  <2>5. Begun' /\ NothingLeftRunning'
    BY DEF ScheduleInv, Scheduled, Begun, Todo, NothingLeftRunning
  <2>6. ASSUME NEW j \in DOMAIN jobs PROVE Advancing(j)' /\ Serially(j)'
    <3>1. Advancing(j) /\ Serially(j)
      BY DEF ScheduleInv, Scheduled
    <3>2. Advancing(j)'
      BY <2>2, <2>3, <3>1 DEF Advancing
    <3>3. Serially(j)'
      BY <2>2, <2>3, <3>1 DEF Serially, At
    <3>4. QED BY <3>2, <3>3
  <2>7. QED BY <2>1, <2>4, <2>5, <2>6 DEF ScheduleInv, Scheduled
<1>2. ASSUME NEW j \in DOMAIN jobs,
             \/ Take(j) \/ Skip(j) \/ BeginCell(j) \/ EndCell(j) \/ EndJob(j)
             \/ Collect(j) \/ CollectFailure(j) \/ ReporterFails(j)
      PROVE  ScheduleInv'
  BY <1>2, TakeInv, SkipInv, BeginCellInv, EndCellInv, EndJobInv, CollectInv,
     CollectFailureInv, ReporterFailsInv
<1>3. CASE ScheduleNext
  BY <1>2, <1>3, MainInv DEF ScheduleNext, Proceed
<1>4. QED BY <1>1, <1>3

LEMMA ScheduleInvariance == ScheduleSpec => []ScheduleInv
BY ScheduleStarts, ScheduleStep, PTL DEF ScheduleSpec

(***************************************************************************)
(* When the batch has returned or raised, no thread of it is executing a   *)
(* cell or will, under any strategy and with any number of workers; only a *)
(* second Ctrl-C, while the pool is left, has the caller go on before.     *)
(***************************************************************************)
THEOREM NothingLeftRunningHolds == ScheduleSpec => []NothingLeftRunning
<1>1. ScheduleInv => NothingLeftRunning
  BY DEF ScheduleInv, Scheduled
<1>2. QED BY <1>1, ScheduleInvariance, PTL

(***************************************************************************)
(* Where an order of the variants is promised, a cell begins when those    *)
(* before it have ended or are skipped.                                    *)
(***************************************************************************)
THEOREM InOrderHolds == ScheduleSpec => []InOrder
<1>1. ASSUME ScheduleInv, strategy # "full", NEW k \in DOMAIN Work, NEW n \in 1..(k - 1),
             Work[k] \in begun, Serial(strategy) \/ TaskOf[Work[n]] = TaskOf[Work[k]]
      PROVE  Work[n] \in ended \cup skip
  <2>1. n \in DOMAIN Work /\ n \in Nat /\ k \in Nat /\ n < k
    BY WorkAssumption
  <2>2. strategy \in Strategies /\ DOMAIN jobs = DOMAIN Cut(strategy, skip)
    BY <1>1 DEF ScheduleInv, ScheduleTypeOK
  <2>3. Work[k] \notin skip
    BY <1>1 DEF ScheduleInv, Scheduled, Begun, Todo
  <2>4. PICK j \in DOMAIN jobs : k \in Places(j)
    BY <1>1, <2>3, Static DEF ScheduleInv, Kin
  <2>5. n \in Places(j)
    BY <1>1, <2>1, <2>2, <2>4, CutPeers DEF Places, Peers
  <2>6. Advancing(j) /\ Serially(j)
    BY <1>1 DEF ScheduleInv, Scheduled
  <2>7. n \in Past(j)
    <3>1. SUFFICES ASSUME n \in jobs[j].left PROVE FALSE
      BY <2>5 DEF Past
    <3>2. k \in jobs[j].left
      BY <2>1, <2>4, <2>6, <3>1 DEF Advancing, Past
    <3>3. At(j, k)
      BY <1>1, <2>6, <3>2 DEF Serially
    <3>4. QED BY <2>1, <3>1, <3>3 DEF At
  <2>8. QED BY <2>6, <2>7 DEF Serially
<1>2. ScheduleInv => InOrder
  BY <1>1 DEF InOrder
<1>3. QED BY <1>2, ScheduleInvariance, PTL

(***************************************************************************)
(* order_index is the position in the task ("per_task") or in the matrix   *)
(* ("off"), whatever is skipped.                                           *)
(***************************************************************************)
THEOREM IndexStableHolds == ScheduleSpec => []IndexStable
<1>1. ASSUME ScheduleInv, strategy # "full", NEW m \in DOMAIN results, NEW k \in DOMAIN Work,
             Work[k] = results[m].cell
      PROVE  results[m].index =
               Cardinality({n \in Peers(strategy, k) : n < k})
  <2>1. strategy \in Strategies /\ DOMAIN jobs = DOMAIN Cut(strategy, skip)
    BY <1>1 DEF ScheduleInv, ScheduleTypeOK
  <2>2. PICK j \in DOMAIN jobs : \E n \in Kin(j) : results[m] = RowAt(j, n)
    BY <1>1 DEF ScheduleInv, Scheduled, Collected
  <2>3. PICK n \in Kin(j) : results[m] = RowAt(j, n)
    BY <2>2
  <2>4. n \in Places(j) /\ n \in DOMAIN Work
    BY <1>1, Static DEF ScheduleInv, Kin
  <2>5. n = k
    BY <1>1, <2>3, <2>4, RowType, WorkAssumption DEF ScheduleInv
  <2>6. Places(j) = Peers(strategy, k) /\ First(j) = 0
    BY <1>1, <2>1, <2>4, <2>5, CutPeers DEF Places, First
  <2>7. results[m].index = 0 + Cardinality({i \in Peers(strategy, k) : i < k})
    BY <2>3, <2>5, <2>6 DEF RowAt, ResultRow, IndexOf
  <2>8. Cardinality({i \in Peers(strategy, k) : i < k}) \in Nat
    BY FinitePlaces DEF Peers
  <2>9. QED BY <2>7, <2>8
<1>2. ASSUME ScheduleInv PROVE IndexStable
  <2> SUFFICES ASSUME strategy # "full", NEW m \in DOMAIN results, NEW k \in DOMAIN Work,
                      Work[k] = results[m].cell
               PROVE  results[m].index =
                 Cardinality({n \in {i \in DOMAIN Work : Serial(strategy)
                               \/ TaskOf[Work[i]] = TaskOf[results[m].cell]} : n < k})
    BY DEF IndexStable
  <2>1. {i \in DOMAIN Work : Serial(strategy) \/ TaskOf[Work[i]] = TaskOf[results[m].cell]}
          = Peers(strategy, k)
    BY DEF Peers
  <2>2. QED BY <1>1, <1>2, <2>1
<1>3. QED BY <1>2, ScheduleInvariance, PTL

-----------------------------------------------------------------------------
(***************************************************************************)
(* Schedule implements Batch                                               *)
(***************************************************************************)
Seen == IF main = "returned" THEN [k \in DOMAIN results |-> results[k].cell] ELSE <<>>
Finish == IF main \in {"abandoned", "returned", "raised"} THEN main ELSE "running"

\* No step is taken after the batch has returned or raised.
LEMMA Running == ASSUME ScheduleInv, ScheduleNext PROVE PoolLives
<1>1. ASSUME NEW j \in DOMAIN jobs,
             Take(j) \/ Skip(j) \/ BeginCell(j) \/ EndCell(j) \/ EndJob(j) \/ ReporterFails(j)
      PROVE  PoolLives
  <2>1. jobs[j].phase \in {"queued", "idle", "running"}
    BY <1>1 DEF Take, Skip, BeginCell, EndCell, EndJob, ReporterFails, Move
  <2>2. QED BY <2>1, Live
<1>2. QED BY <1>1 DEF ScheduleNext, Proceed, Collect, CollectFailure, Interrupt, Abandon, Raise,
                      ReturnRows, PoolLives

\* When every job is collected, the rows are one of each cell to do.
LEMMA RowsComplete ==
  ASSUME ScheduleInv, main = "collecting", InPhase({"collected"}) = DOMAIN jobs
  PROVE  /\ begun = Todo
         /\ [k \in DOMAIN results |-> results[k].cell] \in Promise!Bijection(1..Promise!Cardinality(Todo), Todo)
<1> DEFINE f == [k \in DOMAIN results |-> results[k].cell]
<1>1. /\ \A m \in DOMAIN results : \E j \in DOMAIN jobs : \E n \in Kin(j) : results[m] = RowAt(j, n)
      /\ \A j \in DOMAIN jobs : \A n \in Kin(j) : \E m \in DOMAIN results : results[m] = RowAt(j, n)
      /\ \A k, l \in DOMAIN results : results[k].cell = results[l].cell => k = l
  BY DEF ScheduleInv, Scheduled, Collected
<1>2. \A j \in DOMAIN jobs : \A n \in Kin(j) :
        n \in Places(j) /\ n \in DOMAIN Work /\ RowAt(j, n).cell = Work[n] /\ Work[n] \in Todo
  <2>1. ASSUME NEW j \in DOMAIN jobs, NEW n \in Kin(j)
        PROVE  n \in Places(j) /\ n \in DOMAIN Work /\ RowAt(j, n).cell = Work[n] /\ Work[n] \in Todo
    <3>1. n \in Places(j) /\ n \in DOMAIN Work /\ Work[n] \notin skip
      BY Static DEF ScheduleInv, Kin
    <3>2. QED BY <3>1, RowType DEF ScheduleInv, Todo, Range
  <2>2. QED BY <2>1
<1>3. ASSUME NEW c \in Todo
      PROVE  \E j \in DOMAIN jobs : \E n \in Kin(j) : Work[n] = c
  <2>1. PICK n \in DOMAIN Work : Work[n] = c /\ c \notin skip
    BY DEF Todo, Range
  <2>2. QED BY <2>1, Static DEF ScheduleInv
<1>4. \A m \in DOMAIN results : f[m] \in Todo
  BY <1>1, <1>2
<1>5. ASSUME NEW c \in Todo PROVE \E m \in DOMAIN results : f[m] = c
  <2>1. PICK j \in DOMAIN jobs : \E n \in Kin(j) : Work[n] = c
    BY <1>3
  <2>2. PICK n \in Kin(j) : Work[n] = c
    BY <2>1
  <2>3. PICK m \in DOMAIN results : results[m] = RowAt(j, n)
    BY <1>1
  <2>4. QED BY <1>2, <2>2, <2>3
<1>6. DOMAIN results = 1..Len(results) /\ Len(results) \in Nat
  BY DEF ScheduleInv, ScheduleTypeOK
<1>7. f \in Bijection(1..Len(results), Todo)
  <2>1. f \in [1..Len(results) -> Todo]
    BY <1>4, <1>6
  <2>2. \A k, l \in 1..Len(results) : f[k] = f[l] => k = l
    BY <1>1, <1>6
  <2>3. IsInjective(f)
    BY <2>1, <2>2 DEF IsInjective
  <2>4. \A c \in Todo : \E m \in 1..Len(results) : f[m] = c
    BY <1>5, <1>6
  <2> HIDE DEF f
  <2>5. QED BY <2>1, <2>3, <2>4 DEF Bijection, Injection, Surjection
<1> HIDE DEF f
<1>8. Cardinality(Todo) = Len(results)
  <2>1. IsFiniteSet(1..Len(results)) /\ Cardinality(1..Len(results)) = Len(results)
    BY <1>6, FS_Interval
  <2>2. ExistsBijection(1..Len(results), Todo)
    BY <1>7 DEF ExistsBijection
  <2>3. QED BY <2>1, <2>2, FS_Bijection
<1>9. Promise!Cardinality(Todo) = Cardinality(Todo)
  BY DEF Promise!Cardinality, Cardinality
<1>10. f \in Promise!Bijection(1..Promise!Cardinality(Todo), Todo)
  BY <1>7, <1>8, <1>9 DEF Bijection, Injection, Surjection, IsInjective, Promise!Bijection,
                    Promise!Injection, Promise!Surjection, Promise!IsInjective
<1>11. \A c \in Todo : c \in begun
  <2>1. ASSUME NEW c \in Todo PROVE c \in begun
    <3>1. PICK j \in DOMAIN jobs : \E n \in Kin(j) : Work[n] = c
      BY <1>3
    <3>2. PICK n \in Kin(j) : Work[n] = c
      BY <3>1
    <3>3. jobs[j].left = {}
      BY DEF InPhase, ScheduleInv, Scheduled, Serially
    <3>4. Work[n] \in ended /\ ended \subseteq begun
      BY <3>3 DEF Past, Kin, ScheduleInv, ScheduleTypeOK, Scheduled, Serially
    <3>5. QED BY <3>2, <3>4
  <2>2. QED BY <2>1
<1>12. begun = Todo
  BY <1>11 DEF ScheduleInv, Scheduled, Begun
<1>13. QED BY <1>10, <1>12 DEF f

LEMMA InitBatch == ScheduleInit => Promise!Init
<1>1. \A n \in DOMAIN Work : Work[n] \in Cells
  BY WorkAssumption
<1>2. QED BY <1>1 DEF ScheduleInit, Promise!Init, Todo, Range

LEMMA StepBatch ==
  ASSUME ScheduleInv, [ScheduleNext]_scheduleVars
  PROVE  \/ Promise!Execute \/ Promise!Return \/ Promise!Raise \/ Promise!Abandon
         \/ UNCHANGED <<Todo, begun, Seen, Finish>>
<1>1. CASE UNCHANGED scheduleVars
  BY <1>1 DEF scheduleVars, Todo, Seen, Finish
<1>2. CASE ScheduleNext
  <2>1. main \in {"collecting", "draining", "abandoned"}
    BY <1>2, Running DEF PoolLives
  <2>2. /\ Seen = <<>> /\ Finish \in {"running", "abandoned"}
        /\ main \in {"collecting", "draining"} => Finish = "running"
    BY <2>1 DEF Seen, Finish
  <2>3. ASSUME NEW j \in DOMAIN jobs,
               \/ Take(j) \/ Skip(j) \/ EndCell(j) \/ EndJob(j)
               \/ Collect(j) \/ CollectFailure(j) \/ ReporterFails(j)
        PROVE  UNCHANGED <<Todo, begun, Seen, Finish>>
    <3>1. /\ UNCHANGED <<skip, begun>>
          /\ main' = main \/ (main = "collecting" /\ main' = "draining")
      BY <2>3 DEF Take, Skip, EndCell, EndJob, Collect, CollectFailure, ReporterFails
    <3>2. QED BY <2>1, <3>1 DEF Todo, Seen, Finish
  <2>4. ASSUME NEW j \in DOMAIN jobs, BeginCell(j) PROVE Promise!Execute
    <3>1. PICK n \in DOMAIN Work : At(j, n) /\ Work[n] \notin skip /\ begun' = begun \cup {Work[n]}
      BY <2>4 DEF BeginCell
    <3>2. Work[n] \in Todo
      BY <3>1 DEF Todo, Range
    <3>3. Work[n] \notin begun
      BY <2>4, <3>1 DEF BeginCell, Move, At, ScheduleInv, Scheduled, Serially
    <3>4. UNCHANGED <<Todo, Seen, Finish>>
      BY <2>4 DEF BeginCell, Todo, Seen, Finish
    <3>5. QED BY <2>2, <3>1, <3>2, <3>3, <3>4 DEF Promise!Execute, Seen, Finish
  <2>5. CASE Interrupt
    <3>1. UNCHANGED <<skip, begun>> /\ main = "collecting" /\ main' \in {"raised", "draining"}
      BY <2>5 DEF Interrupt
    <3>2. Todo' = Todo /\ Seen' = Seen
      BY <2>1, <3>1 DEF Todo, Seen
    <3>3. CASE main' = "raised"
      BY <2>2, <3>1, <3>2, <3>3 DEF Promise!Raise, Seen, Finish
    <3>4. CASE main' = "draining"
      BY <2>1, <3>1, <3>2, <3>4 DEF Finish
    <3>5. QED BY <3>1, <3>3, <3>4
  <2>6. CASE Raise
    <3>1. UNCHANGED <<skip, begun>> /\ main = "draining" /\ main' = "raised"
      BY <2>6 DEF Raise
    <3>2. Todo' = Todo /\ Seen' = Seen
      BY <2>1, <3>1 DEF Todo, Seen
    <3>3. QED BY <2>2, <3>1, <3>2 DEF Promise!Raise, Seen, Finish
  <2>7. CASE ReturnRows
    <3>1. /\ main = "collecting" /\ main' = "returned" /\ InPhase({"collected"}) = DOMAIN jobs
          /\ UNCHANGED <<skip, begun, results>>
      BY <2>7 DEF ReturnRows
    <3>2. /\ begun = Todo
          /\ [k \in DOMAIN results |-> results[k].cell] \in Promise!Bijection(1..Promise!Cardinality(Todo), Todo)
      BY <3>1, RowsComplete
    <3>3. Todo' = Todo /\ Seen' = [k \in DOMAIN results |-> results[k].cell]
      BY <3>1 DEF Todo, Seen
    <3>4. QED BY <2>2, <3>1, <3>2, <3>3 DEF Promise!Return, Seen, Finish
  <2>12. CASE Abandon
    <3>1. UNCHANGED <<skip, begun>> /\ main = "draining" /\ main' = "abandoned"
      BY <2>12 DEF Abandon
    <3>2. Todo' = Todo /\ Seen' = Seen
      BY <2>1, <3>1 DEF Todo, Seen
    <3>3. QED BY <2>2, <3>1, <3>2 DEF Promise!Abandon, Seen, Finish
  <2>8. \/ Interrupt \/ Abandon \/ Raise \/ ReturnRows
        \/ \E j \in DOMAIN jobs :
             \/ Take(j) \/ Skip(j) \/ EndCell(j) \/ EndJob(j)
             \/ Collect(j) \/ CollectFailure(j) \/ ReporterFails(j)
        \/ \E j \in DOMAIN jobs : BeginCell(j)
    BY <1>2 DEF ScheduleNext, Proceed
  <2>9. (\E j \in DOMAIN jobs :
           \/ Take(j) \/ Skip(j) \/ EndCell(j) \/ EndJob(j)
           \/ Collect(j) \/ CollectFailure(j) \/ ReporterFails(j))
        => UNCHANGED <<Todo, begun, Seen, Finish>>
    BY <2>3
  <2>10. (\E j \in DOMAIN jobs : BeginCell(j)) => Promise!Execute
    BY <2>4
  <2>11. QED BY <2>5, <2>6, <2>7, <2>8, <2>9, <2>10, <2>12
<1>3. QED BY <1>1, <1>2

(***************************************************************************)
(* Under every strategy, pool size and skip set, every cell to do is       *)
(* executed at most once and a batch that returns has executed them all    *)
(* and returns one row of each; otherwise it raises.                       *)
(***************************************************************************)
THEOREM ImplementsBatchHolds == ScheduleSpec => ImplementsBatch
<1>1. ScheduleInv /\ [ScheduleNext]_scheduleVars
        => [Promise!Execute \/ Promise!Return \/ Promise!Raise \/ Promise!Abandon]_<<Todo, begun, Seen, Finish>>
  BY StepBatch
<1>2. QED BY <1>1, InitBatch, ScheduleInvariance, PTL
      DEF ScheduleSpec, ImplementsBatch, Promise!Spec, Seen, Finish

=============================================================================
