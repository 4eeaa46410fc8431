--------------------------- MODULE Analyze_proofs ---------------------------
(***************************************************************************)
(* For every matrix, every number of executions and every way an analysis  *)
(* overlaps a resume: the types, that gates fail closed, that a gate which *)
(* passed on an earlier execution's trace never goes with full coverage,   *)
(* that --min-epochs counts epochs that are there, and that polling Jaeger *)
(* does not stop short of the traces it waits for.                         *)
(***************************************************************************)
EXTENDS Analyze, FiniteSetTheorems, TLAPS

\* Trace files replace each other: there is one of a cell at most.
OneFile(traces) == collector = "file" => \A t, u \in traces : t.cell = u.cell => t = u

\* Rows are missing only while every cell is executed again.
RunInv ==
  /\ collector \in Collectors
  /\ exec \in [Cells -> 1..MaxExec]
  /\ rows = NoManifest \/ rows \in Rows
  /\ todo \in SUBSET Cells
  /\ DOMAIN done \subseteq Cells /\ \A c \in DOMAIN done : done[c] \in Row
  /\ store \subseteq Trace /\ flight \subseteq Trace
  /\ \A c \in todo : exec[c] < MaxExec
  /\ rows = NoManifest => \/ todo = {} /\ done = NoRows
                          \/ Cells = todo \cup DOMAIN done
  /\ OneFile(store) /\ (collector = "file" => flight = {})

AttemptBound == IF Retries = 0 THEN 1 ELSE Retries

AnalysisTypes ==
  /\ pc \in {"new", "fetching", "gating", "reporting", "ended"}
  /\ opts \in Options
  /\ known = NoManifest \/ known \in Rows
  /\ attempt \in 0..AttemptBound
  /\ pc \in {"new", "fetching"} => attempt < AttemptBound
  /\ got \in SUBSET Trace
  /\ failed \in SUBSET Cells /\ unwell \in SUBSET Cells
  /\ outcome \in {"none", "green", "red"}

\* The gates have been checked, and nothing has failed for another reason.
Judged == pc = "reporting" \/ outcome = "green"

\* Unless a cell is failed, each has been seen, and with a good trace.
Gated ==
  (Judged /\ opts.gated /\ failed = {}) =>
    /\ \A t \in got : \E u \in got : u.cell = t.cell /\ u.kind = "pass"
    /\ known # NoManifest => \A c \in Cells : \E t \in got : t.cell = c

Swept == Judged => unwell = Uncovered

\* Green means no failed gate, and something to look at where gates are on.
Green ==
  outcome = "green" =>
    /\ pc = "ended" /\ failed = {}
    /\ (known = NoManifest /\ opts.gated) => Metrics # {}

AnalysisInv == AnalysisTypes /\ OneFile(got) /\ Gated /\ Swept /\ Green

-----------------------------------------------------------------------------
LEMMA DefaultIsOption == Default \in Options
BY AnalyzeAssumption DEF Default, Options

LEMMA InitRun == Init => RunInv
<1> SUFFICES ASSUME Init PROVE RunInv
  OBVIOUS
<1> USE AnalyzeAssumption
<1>1. PICK left \in [Cells -> UNION {Left(c, 1) : c \in Cells}] :
        /\ \A c \in Cells : left[c] \in Left(c, 1)
        /\ LET all == UNION {left[c] : c \in Cells} IN
           IF collector = "file" THEN store = all /\ flight = {}
           ELSE store = {} /\ flight = all
  BY DEF Init
<1> DEFINE all == UNION {left[c] : c \in Cells}
<1>2. \A c \in Cells : left[c] \subseteq Trace /\ \A t, u \in left[c] : t = u /\ t.cell = c
  <2> SUFFICES ASSUME NEW c \in Cells
               PROVE left[c] \subseteq Trace /\ \A t, u \in left[c] : t = u /\ t.cell = c
    OBVIOUS
  <2>1. left[c] \in Left(c, 1)
    BY <1>1
  <2>2. CASE left[c] = {}
    BY <2>2
  <2>3. CASE \E t \in [cell : {c}, exec : {1}, kind : {"pass", "fail", "opaque"}] : left[c] = {t}
    BY <2>3, 1 \in 1..MaxExec DEF Trace
  <2>4. CASE left[c] = {[cell |-> c, exec |-> 1, kind |-> "pass"]}
    BY <2>4, 1 \in 1..MaxExec DEF Trace
  <2> QED
    BY <2>1, <2>2, <2>3, <2>4 DEF Left
<1>3. all \subseteq Trace /\ \A t, u \in all : t.cell = u.cell => t = u
  BY <1>2
<1>4. /\ store \subseteq Trace /\ flight \subseteq Trace /\ OneFile(store)
      /\ (collector = "file" => flight = {})
  BY <1>1, <1>3 DEF OneFile
<1>5. rows = NoManifest \/ rows \in Rows
  <2>1. PICK status \in [Cells -> {"completed", "failed"}] :
          rows \in {NoManifest, [c \in Cells |-> [status |-> status[c], exec |-> 1]]}
    BY DEF Init
  <2> QED
    BY <2>1, 1 \in 1..MaxExec DEF Rows, Row
<1>6. collector \in Collectors /\ exec \in [Cells -> 1..MaxExec] /\ todo = {} /\ done = NoRows
  BY DEF Init
<1>7. DOMAIN done = {}
  BY <1>6 DEF NoRows
<1> QED
  BY <1>4, <1>5, <1>6, <1>7 DEF RunInv

LEMMA InitAnalysis == Init => AnalysisInv
BY AnalyzeAssumption, DefaultIsOption
   DEF Init, AnalysisInv, AnalysisTypes, AttemptBound, OneFile, Gated, Swept, Green, Judged, Default

-----------------------------------------------------------------------------
(* The run: what a resume does to the manifest and to the traces.          *)

\* What an execution leaves is one trace of it at most.
LEMMA LeftTraces ==
  ASSUME NEW c \in Cells, NEW e \in 1..MaxExec, NEW left \in Left(c, e)
  PROVE  left \subseteq Trace /\ \A t, u \in left : t = u /\ t.cell = c
<1>1. CASE left = {}
  BY <1>1
<1>2. CASE \E t \in [cell : {c}, exec : {e}, kind : {"pass", "fail", "opaque"}] : left = {t}
  BY <1>2 DEF Trace
<1>3. CASE left = {[cell |-> c, exec |-> e, kind |-> "pass"]}
  BY <1>3 DEF Trace
<1> QED
  BY <1>1, <1>2, <1>3 DEF Left

LEMMA ExecuteRun == ASSUME RunInv, NEW c \in Cells, Execute(c) PROVE RunInv'
<1> USE AnalyzeAssumption
<1>1. PICK status \in Statuses(c) :
        done' = [d \in DOMAIN done \cup {c} |->
                   IF d = c THEN [status |-> status, exec |-> exec'[c]] ELSE done[d]]
  BY DEF Execute
<1>2. PICK left \in Left(c, exec'[c]) :
        IF collector = "jaeger" THEN flight' = flight \cup left /\ UNCHANGED store
        ELSE /\ store' = IF left = {} THEN store ELSE {t \in store : t.cell # c} \cup left
             /\ UNCHANGED flight
  BY DEF Execute
<1>3. /\ exec' \in [Cells -> 1..MaxExec] /\ exec'[c] = exec[c] + 1
      /\ \A d \in Cells \ {c} : exec'[d] = exec[d]
  BY DEF RunInv, Execute
<1>4. /\ todo' \in SUBSET Cells /\ \A d \in todo' : exec'[d] < MaxExec
      /\ DOMAIN done' = DOMAIN done \cup {c} /\ todo = todo' \cup {c}
  BY <1>1, <1>3 DEF RunInv, Execute
<1>5. DOMAIN done' \subseteq Cells /\ \A d \in DOMAIN done' : done'[d] \in Row
  <2>1. status \in {"completed", "failed"}
    BY DEF Statuses
  <2> QED
    BY <1>1, <1>3, <1>4, <2>1 DEF RunInv, Row
<1>6. left \subseteq Trace /\ \A t, u \in left : t = u /\ t.cell = c
  BY <1>3, LeftTraces
<1>7. store' \subseteq Trace /\ flight' \subseteq Trace /\ (collector = "file" => flight' = {})
  BY <1>2, <1>6 DEF RunInv
<1>8. OneFile(store)'
  BY <1>2, <1>6 DEF RunInv, OneFile, Execute
<1>9. rows' = rows /\ collector' = collector
  BY DEF Execute
<1>10. rows' = NoManifest => Cells = todo' \cup DOMAIN done'
  <2>1. DOMAIN NoRows = {}
    BY DEF NoRows
  <2> QED
    BY <1>4, <1>9, <2>1 DEF RunInv, Execute
<1> QED
  BY <1>3, <1>4, <1>5, <1>7, <1>8, <1>9, <1>10 DEF RunInv

LEMMA RunStep == ASSUME RunInv, [Next]_vars PROVE RunInv'
<1> USE AnalyzeAssumption
<1>1. CASE Resume
  <2>1. DOMAIN done = {}
    BY <1>1 DEF Resume, NoRows
  <2> QED
    BY <1>1, <2>1 DEF Resume, RunInv, Incomplete, OneFile
<1>2. CASE \E c \in Cells : Execute(c)
  BY <1>2, ExecuteRun
<1>3. CASE Record
  <2>1. rows' \in Rows
    <3> SUFFICES ASSUME NEW c \in Cells
                 PROVE (IF c \in DOMAIN done THEN done[c] ELSE rows[c]) \in Row
      BY <1>3 DEF Record, Rows
    <3>1. CASE rows = NoManifest
      BY <1>3, <3>1 DEF Record, RunInv
    <3>2. CASE rows \in Rows
      BY <3>2 DEF Rows, RunInv
    <3> QED
      BY <3>1, <3>2 DEF RunInv
  <2> QED
    BY <1>3, <2>1 DEF Record, RunInv, NoRows, OneFile
<1>4. CASE KillResume
  BY <1>4 DEF KillResume, RunInv, NoRows, OneFile
<1>5. CASE \E t \in flight : Ingest(t)
  <2> QED
    BY <1>5 DEF Ingest, RunInv, OneFile
<1>6. CASE UNCHANGED run
  BY <1>6 DEF run, RunInv, OneFile
<1> QED
  BY <1>1, <1>2, <1>3, <1>4, <1>5, <1>6
     DEF Next, Run, Advance, Load, Fetch, ReadFiles, FetchFails, Gate, Conclude, Rest, vars, run

-----------------------------------------------------------------------------
(* The analysis.                                                           *)

\* Fetches bring back traces that are in the store, all of them from files.
LEMMA FetchStep ==
  ASSUME RunInv, AnalysisInv, Fetch \/ ReadFiles
  PROVE  AnalysisInv'
<1> USE AnalyzeAssumption
<1>1. got' \in SUBSET Trace /\ OneFile(got)'
  BY DEF Fetch, ReadFiles, Answers, RunInv, OneFile, run
<1>2. /\ pc' \in {"fetching", "gating"}
      /\ attempt' \in 0..AttemptBound /\ (pc' = "fetching" => attempt' < AttemptBound)
  BY DEF Fetch, ReadFiles, LastAttempt, AttemptBound, AnalysisInv, AnalysisTypes
<1>3. outcome' = outcome /\ outcome # "green"
  BY DEF Fetch, ReadFiles, AnalysisInv, Green
<1> QED
  BY <1>1, <1>2, <1>3
     DEF Fetch, ReadFiles, AnalysisInv, AnalysisTypes, Gated, Swept, Green, Judged

\* The first traces cover every cell that has one, and those of them that are no
\* good are failed cells.
LEMMA GateStep == ASSUME AnalysisInv, Gate PROVE AnalysisInv'
<1> USE AnalyzeAssumption
<1>1. PICK firsts \in Firsts, gated \in BOOLEAN :
        /\ opts' = [opts EXCEPT !.gated = gated]
        /\ failed' = IF gated
                     THEN {t.cell : t \in {u \in firsts : u.kind # "pass"}} \cup NoTelemetry(firsts)
                     ELSE {}
  BY DEF Gate
<1>2. /\ pc = "gating" /\ pc' = "reporting" /\ unwell' = Uncovered
      /\ UNCHANGED <<collector, known, attempt, got, outcome>>
  BY DEF Gate, run
<1>3. opts' \in Options /\ opts'.gated = gated
  BY <1>1 DEF AnalysisInv, AnalysisTypes, Options
<1>4. firsts \subseteq got /\ {t.cell : t \in firsts} = {t.cell : t \in got}
  BY DEF Firsts
<1>5. failed' \in SUBSET Cells /\ unwell' \in SUBSET Cells
  BY <1>1, <1>2, <1>4 DEF AnalysisInv, AnalysisTypes, Trace, NoTelemetry, Uncovered
<1>6. Gated'
  <2> SUFFICES ASSUME gated, failed' = {}
               PROVE  /\ \A t \in got : \E u \in got : u.cell = t.cell /\ u.kind = "pass"
                      /\ known # NoManifest => \A c \in Cells : \E t \in got : t.cell = c
    BY <1>2, <1>3 DEF Gated
  <2>1. \A u \in firsts : u.kind = "pass"
    BY <1>1
  <2>2. known # NoManifest => \A c \in Cells : \E u \in firsts : u.cell = c
    BY <1>1 DEF NoTelemetry
  <2> QED
    BY <1>4, <2>1, <2>2
<1>7. outcome # "green"
  BY <1>2 DEF AnalysisInv, Green
<1> QED
  BY <1>2, <1>3, <1>5, <1>6, <1>7
     DEF AnalysisInv, AnalysisTypes, OneFile, Swept, Uncovered, Covered, Green

LEMMA ConcludeStep == ASSUME AnalysisInv, Conclude PROVE AnalysisInv'
<1> USE AnalyzeAssumption
<1>1. /\ pc = "reporting" /\ pc' = "ended"
      /\ opts' \in Options /\ opts'.gated = opts.gated
      /\ UNCHANGED <<collector, known, attempt, got, unwell, failed>>
  BY DEF Conclude, run
<1>2. PICK baseline \in BOOLEAN :
        outcome' = IF Metrics = {} /\ known = NoManifest THEN Empty(opts')
                   ELSE IF \/ failed # {} \/ baseline
                           \/ GateEpochs(opts'.paired) < opts'.minEpochs THEN "red"
                   ELSE "green"
  BY DEF Conclude
<1>3. outcome' \in {"green", "red"}
  BY <1>2 DEF Empty
<1>4. outcome' = "green" =>
        failed = {} /\ ((known = NoManifest /\ opts'.gated) => Metrics # {})
  BY <1>2 DEF Empty
<1>5. Metrics' = Metrics /\ Uncovered' = Uncovered
  BY <1>1 DEF Metrics, Uncovered, Covered
<1> QED
  BY <1>1, <1>3, <1>4, <1>5
     DEF AnalysisInv, AnalysisTypes, OneFile, Gated, Swept, Green, Judged

LEMMA AnalysisStep ==
  ASSUME RunInv, AnalysisInv, [Next]_vars
  PROVE  AnalysisInv'
<1> USE AnalyzeAssumption
<1>1. CASE UNCHANGED <<collector, analysis>>
  BY <1>1 DEF analysis, AnalysisInv, AnalysisTypes, OneFile, Gated, Swept, Green, Judged,
              Metrics, Uncovered, Covered
<1>2. CASE Load
  BY <1>2 DEF Load, run, RunInv, AnalysisInv, AnalysisTypes, OneFile, Gated, Swept, Green, Judged
<1>3. CASE Fetch \/ ReadFiles
  BY <1>3, FetchStep
<1>4. CASE Gate
  BY <1>4, GateStep
<1>5. CASE Conclude
  BY <1>5, ConcludeStep
<1>6. CASE FetchFails
  BY <1>6 DEF FetchFails, run, AnalysisInv, AnalysisTypes, OneFile, Gated, Swept, Green, Judged
<1> QED
  BY <1>1, <1>2, <1>3, <1>4, <1>5, <1>6
     DEF Next, Run, Resume, Record, KillResume, Execute, Ingest, Advance, Rest, vars, run

\* What the two parts say of every state.
THEOREM Inductive == Spec => [](RunInv /\ AnalysisInv)
<1>1. Init => RunInv /\ AnalysisInv
  BY InitRun, InitAnalysis
<1>2. RunInv /\ AnalysisInv /\ [Next]_vars => (RunInv /\ AnalysisInv)'
  BY RunStep, AnalysisStep
<1> QED
  BY <1>1, <1>2, PTL DEF Spec

\* The state keeps its types, also while a resume and the analysis overlap.
THEOREM TypeCorrect == Spec => []TypeOK
<1>1. RunInv /\ AnalysisInv => TypeOK
  BY DEF RunInv, AnalysisInv, AnalysisTypes, AttemptBound, TypeOK
<1> QED
  BY <1>1, Inductive, PTL

\* Gates fail closed, for any matrix and any traces: Green and Gated say so.
THEOREM FailClosedHolds == Spec => []FailClosed
<1>1. AnalysisInv => FailClosed
  <2> SUFFICES ASSUME AnalysisInv, outcome = "green", opts.gated
               PROVE  IF known = NoManifest THEN \E t \in got : t.kind = "pass"
                      ELSE \A c \in Cells : \E t \in got : t.cell = c /\ t.kind = "pass"
    BY DEF FailClosed
  <2>1. /\ \A t \in got : \E u \in got : u.cell = t.cell /\ u.kind = "pass"
        /\ known # NoManifest => \A c \in Cells : \E t \in got : t.cell = c
        /\ known = NoManifest => Metrics # {}
    BY DEF AnalysisInv, Gated, Green, Judged
  <2> QED
    BY <2>1 DEF Metrics
<1> QED
  BY <1>1, Inductive, PTL

\* With full coverage and green gates, the trace of a cell is the one trace file
\* there is, has the test id of the manifest, and passes.
THEOREM StaleIsExposedHolds == Spec => []StaleIsExposed
<1>1. AnalysisInv => StaleIsExposed
  <2> SUFFICES ASSUME AnalysisInv, outcome = "green", opts.gated, known # NoManifest,
                      collector = "file", unwell = {}, NEW c \in Cells
               PROVE  [cell |-> c, exec |-> known[c].exec, kind |-> "pass"] \in got
    BY DEF StaleIsExposed
  <2>1. PICK t \in got : t.cell = c /\ t.kind = "pass"
    BY DEF AnalysisInv, Gated, Green, Judged
  <2>2. PICK u \in got : u.cell = c /\ u.exec = known[c].exec
    BY DEF AnalysisInv, Swept, Judged, Uncovered, Covered
  <2>3. t = u
    BY <2>1, <2>2 DEF AnalysisInv, OneFile
  <2>4. t = [cell |-> c, exec |-> known[c].exec, kind |-> "pass"]
    BY <2>1, <2>2, <2>3 DEF AnalysisInv, AnalysisTypes, Trace
  <2> QED
    BY <2>4
<1> QED
  BY <1>1, Inductive, PTL

-----------------------------------------------------------------------------
(* Counting.                                                               *)

\* A set of numbers has a smallest one.
LEMMA SmallestNumber ==
  ASSUME NEW s \in SUBSET Nat, s # {}
  PROVE  Smallest(s) \in s /\ \A m \in s : Smallest(s) <= m
<1>1. PICK k \in s : TRUE
  OBVIOUS
<1> DEFINE D == 1..k
           T == {1..n : n \in {m \in s : m <= k}}
<1>2. IsFiniteSet(D) /\ k \in Nat
  BY FS_Interval
<1>3. T # {} /\ T \subseteq SUBSET D
  <2>1. 1..k \in T
    BY <1>2
  <2>2. \A n \in {m \in s : m <= k} : 1..n \subseteq D
    BY <1>2
  <2> QED
    BY <2>1, <2>2
<1>4. IsWellFoundedOn(StrictSubsetOrdering(D), SUBSET D)
  BY <1>2, FS_FiniteSubsetsOfFinite, FS_StrictSubsetOrderingWellFounded
<1>5. PICK x \in T : \A y \in T : ~ (<<y, x>> \in StrictSubsetOrdering(D))
  <2> HIDE DEF D, T
  <2> QED
    BY <1>3, <1>4, WFMin
<1>6. PICK n \in s : n <= k /\ x = 1..n
  OBVIOUS
<1>7. ASSUME NEW m \in s PROVE n <= m
  <2> SUFFICES ASSUME m < n PROVE FALSE
    BY <1>2
  <2>1. 1..m \in T /\ 1..n \in T
    BY <1>2, <1>6
  <2>2. 1..m \subseteq 1..n /\ 1..m # 1..n
    <3>1. n \in 1..n /\ n \notin 1..m
      OBVIOUS
    <3>2. 1..m \subseteq 1..n
      OBVIOUS
    <3> QED
      BY <3>1, <3>2
  <2> HIDE DEF T
  <2>3. <<1..m, 1..n>> \in StrictSubsetOrdering(D)
    BY <1>3, <2>1, <2>2 DEF StrictSubsetOrdering
  <2> QED
    BY <1>5, <1>6, <2>1, <2>3
<1>8. \E i \in s : \A m \in s : i <= m
  BY <1>7
<1> QED
  BY <1>8 DEF Smallest

\* A finite set has subsets of every smaller size.
LEMMA SubsetOfSize ==
  ASSUME NEW S, IsFiniteSet(S), NEW n \in Nat, n <= Cardinality(S)
  PROVE  \E s \in SUBSET S : Cardinality(s) = n
<1> DEFINE size == Cardinality(S)
<1>1. size \in Nat
  BY FS_CardinalityType
<1>2. PICK f \in Bijection(1..size, S) : TRUE
  BY FS_CardinalityType DEF ExistsBijection
<1> HIDE DEF size
<1> DEFINE s == {f[i] : i \in 1..n}
           g == [i \in 1..n |-> f[i]]
<1>3. f \in [1..size -> S] /\ \A i, k \in 1..size : f[i] = f[k] => i = k
  BY <1>2 DEF Bijection, Injection, IsInjective
<1>4. \A i \in 1..n : i \in 1..size
  BY <1>1 DEF size
<1>5. s \in SUBSET S /\ g \in Bijection(1..n, s)
  BY <1>3, <1>4 DEF Bijection, Injection, Surjection, IsInjective
<1>6. IsFiniteSet(1..n) /\ Cardinality(1..n) = n
  BY FS_Interval
<1> HIDE DEF s, g
<1>7. Cardinality(s) = n
  BY <1>5, <1>6, FS_Bijection DEF ExistsBijection
<1> QED
  BY <1>5, <1>7

\* Traces are finitely many.
LEMMA FiniteTraces == IsFiniteSet(Trace)
<1> DEFINE Kinds == {"pass", "fail", "opaque"}
           D == (Cells \X (1..MaxExec)) \X Kinds
           f == [d \in D |-> [cell |-> d[1][1], exec |-> d[1][2], kind |-> d[2]]]
<1>1. IsFiniteSet(Kinds)
  <2>1. IsFiniteSet({"pass"})
    BY FS_Singleton
  <2>2. IsFiniteSet({"pass"} \cup {"fail"})
    BY <2>1, FS_AddElement
  <2>3. IsFiniteSet(({"pass"} \cup {"fail"}) \cup {"opaque"})
    BY <2>2, FS_AddElement
  <2>4. Kinds = ({"pass"} \cup {"fail"}) \cup {"opaque"}
    OBVIOUS
  <2> QED
    BY <2>3, <2>4
<1>2. IsFiniteSet(D)
  <2>1. IsFiniteSet(Cells) /\ IsFiniteSet(1..MaxExec)
    BY FS_Interval, AnalyzeAssumption
  <2>2. IsFiniteSet(Cells \X (1..MaxExec))
    BY <2>1, FS_Product
  <2> HIDE DEF Kinds
  <2> QED
    BY <1>1, <2>2, FS_Product
<1>3. f \in Surjection(D, Trace)
  <2>1. f \in [D -> Trace]
    BY DEF Trace
  <2>2. ASSUME NEW t \in Trace PROVE \E d \in D : f[d] = t
    <3>1. <<<<t.cell, t.exec>>, t.kind>> \in D
      BY DEF Trace
    <3>2. f[<<<<t.cell, t.exec>>, t.kind>>] = t
      BY <3>1 DEF Trace
    <3> QED
      BY <3>1, <3>2
  <2> HIDE DEF f, D
  <2> QED
    BY <2>1, <2>2 DEF Surjection
<1> HIDE DEF f, D
<1> QED
  BY <1>2, <1>3, FS_Surjection

-----------------------------------------------------------------------------
(* --min-epochs.                                                           *)

\* Green with something to report means enough epochs, as the gate counts them.
Counted ==
  (outcome = "green" /\ (known # NoManifest \/ Metrics # {})) =>
    ~ (GateEpochs(opts.paired) < opts.minEpochs)

LEMMA InitCounted == Init => Counted
BY DEF Init, Counted

LEMMA StepCounted == AnalysisInv /\ Counted /\ [Next]_vars => Counted'
<1> SUFFICES ASSUME AnalysisInv, Counted, [Next]_vars PROVE Counted'
  OBVIOUS
<1>1. CASE Conclude
  <2>1. UNCHANGED <<got, known>>
    BY <1>1 DEF Conclude
  <2>2. Metrics' = Metrics /\ Reported' = Reported /\ \A v \in Variants : EpochsOf(v)' = EpochsOf(v)
    BY <2>1 DEF Metrics, Reported, EpochsOf
  <2>3. GateEpochs(opts'.paired) = GateEpochs(opts.paired)'
    BY <2>1 DEF GateEpochs, Metrics, Reported, EpochsOf
  <2> QED
    BY <1>1, <2>1, <2>2, <2>3 DEF Conclude, Counted
<1>2. CASE UNCHANGED analysis
  <2>1. Metrics' = Metrics /\ GateEpochs(opts.paired)' = GateEpochs(opts.paired)
    BY <1>2 DEF analysis, GateEpochs, Metrics, Reported, EpochsOf
  <2> QED
    BY <1>2, <2>1 DEF analysis, Counted
<1>3. CASE Load \/ Fetch \/ ReadFiles \/ Gate \/ FetchFails
  <2>1. outcome' # "green"
    BY <1>3 DEF AnalysisInv, Green, Load, Fetch, ReadFiles, Gate, FetchFails
  <2> QED
    BY <2>1 DEF Counted
<1> QED
  BY <1>1, <1>2, <1>3
     DEF Next, Run, Resume, Record, KillResume, Execute, Ingest, Advance, Rest, vars

\* The traces of a variant, and their epochs: as many from trace files.
LEMMA EpochsCount ==
  ASSUME AnalysisInv, NEW v \in Variants
  PROVE  LET M == {t \in Metrics : t.cell[1] = v}
         IN  /\ IsFiniteSet(M) /\ IsFiniteSet(EpochsOf(v))
             /\ Cardinality(M) \in Nat /\ Cardinality(EpochsOf(v)) \in Nat
             /\ collector = "file" => Cardinality(M) = Cardinality(EpochsOf(v))
<1> DEFINE M == {t \in Metrics : t.cell[1] = v}
           f == [t \in M |-> t.cell[2]]
<1>1. M \subseteq got /\ got \subseteq Trace
  BY DEF Metrics, AnalysisInv, AnalysisTypes
<1>2. IsFiniteSet(M)
  BY <1>1, FiniteTraces, FS_Subset
<1>3. f \in Surjection(M, EpochsOf(v))
  BY DEF Surjection, EpochsOf
<1>4. collector = "file" => f \in Injection(M, EpochsOf(v))
  <2> SUFFICES ASSUME collector = "file", NEW t \in M, NEW u \in M, f[t] = f[u]
               PROVE  t = u
    BY <1>3 DEF Injection, Surjection, IsInjective
  <2>1. t.cell \in Variants \X Epochs /\ u.cell \in Variants \X Epochs
    BY <1>1 DEF Trace, Cells
  <2>2. t.cell = u.cell
    BY <2>1
  <2> QED
    BY <1>1, <2>2 DEF AnalysisInv, OneFile
<1> HIDE DEF M, f
<1>5. IsFiniteSet(EpochsOf(v)) /\ (collector = "file" => Cardinality(M) = Cardinality(EpochsOf(v)))
  BY <1>2, <1>3, <1>4, FS_Surjection
<1> QED
  BY <1>2, <1>5, FS_CardinalityType DEF M

\* Counting the epochs of each variant shows what --min-epochs promises.
LEMMA EnoughEpochs == AnalysisInv /\ Counted => EpochsAreReal
<1> SUFFICES ASSUME AnalysisInv, Counted, outcome = "green", known # NoManifest \/ Metrics # {}
             PROVE  /\ (opts.paired /\ Cardinality(Reported) = 2) =>
                         \E s \in SUBSET Epochs :
                           /\ Cardinality(s) = opts.minEpochs
                           /\ s \X Reported \subseteq {<<t.cell[2], t.cell[1]>> : t \in Metrics}
                    /\ collector = "file" =>
                         \A v \in Reported : Cardinality(EpochsOf(v)) >= opts.minEpochs
  BY DEF EpochsAreReal
<1> DEFINE n == opts.minEpochs
           shared == {e \in Epochs : \A v \in Reported : e \in EpochsOf(v)}
<1>1. n \in Nat
  BY AnalyzeAssumption DEF AnalysisInv, AnalysisTypes, Options
<1>2. ASSUME opts.paired, Cardinality(Reported) = 2
      PROVE  /\ Reported # {} /\ IsFiniteSet(shared) /\ Cardinality(shared) \in Nat
             /\ n <= Cardinality(shared)
             /\ \A v \in Reported : Cardinality(shared) <= Cardinality(EpochsOf(v))
  <2>1. ~ (Cardinality(shared) < n)
    BY <1>2 DEF Counted, GateEpochs
  <2>2. PICK w \in Reported : TRUE
    BY <1>2, FS_EmptySet
  <2>3. \A v \in Reported : v \in Variants /\ shared \subseteq EpochsOf(v)
    BY DEF Reported
  <2> HIDE DEF shared
  <2>4. /\ IsFiniteSet(shared)
        /\ \A v \in Reported : Cardinality(shared) <= Cardinality(EpochsOf(v))
    BY <2>2, <2>3, EpochsCount, FS_Subset
  <2>5. Cardinality(shared) \in Nat
    BY <2>4, FS_CardinalityType
  <2> QED
    BY <1>1, <2>1, <2>2, <2>4, <2>5
<1>3. ASSUME opts.paired, Cardinality(Reported) = 2
      PROVE  \E s \in SUBSET Epochs :
               /\ Cardinality(s) = n
               /\ s \X Reported \subseteq {<<t.cell[2], t.cell[1]>> : t \in Metrics}
  <2>1. PICK s \in SUBSET shared : Cardinality(s) = n
    <3> HIDE DEF n, shared
    <3> QED
      BY <1>1, <1>2, <1>3, SubsetOfSize
  <2>2. ASSUME NEW e \in s, NEW v \in Reported
        PROVE  <<e, v>> \in {<<t.cell[2], t.cell[1]>> : t \in Metrics}
    <3>1. e \in EpochsOf(v)
      BY <2>1
    <3>2. PICK t \in Metrics : t.cell[1] = v /\ t.cell[2] = e
      BY <3>1 DEF EpochsOf
    <3> QED
      BY <3>2
  <2> QED
    BY <2>1, <2>2
<1>4. ASSUME collector = "file", NEW v \in Reported
      PROVE  Cardinality(EpochsOf(v)) >= n
  <2>0. v \in Variants /\ Cardinality(EpochsOf(v)) \in Nat
    BY EpochsCount DEF Reported
  <2>1. CASE opts.paired /\ Cardinality(Reported) = 2
    <3> HIDE DEF shared, n
    <3> QED
      BY <1>1, <1>2, <2>0, <2>1
  <2>2. CASE ~ (opts.paired /\ Cardinality(Reported) = 2)
    <3> DEFINE Count(w) == Cardinality({t \in Metrics : t.cell[1] = w})
               counts == {Count(w) : w \in Reported}
    <3>1. counts \in SUBSET Nat
      BY EpochsCount DEF Reported
    <3>2. ~ (Smallest(counts) < n)
      BY <2>2 DEF Counted, GateEpochs
    <3>3. Count(v) \in counts /\ Count(v) = Cardinality(EpochsOf(v))
      BY <1>4, <2>0, EpochsCount
    <3> HIDE DEF counts, Count, n
    <3>4. Smallest(counts) \in Nat /\ Smallest(counts) <= Count(v)
      BY <3>1, <3>3, SmallestNumber
    <3> QED
      BY <1>1, <2>0, <3>2, <3>3, <3>4
  <2> QED
    BY <2>1, <2>2
<1> QED
  BY <1>3, <1>4

\* A green analysis has the epochs --min-epochs asks for: shared ones where the
\* report pairs two variants, however often Jaeger has an epoch, and epochs of
\* every variant where traces are files.
THEOREM EpochsAreRealHolds == Spec => []EpochsAreReal
BY InitCounted, StepCounted, EnoughEpochs, Inductive, PTL DEF Spec

-----------------------------------------------------------------------------
(* Polling Jaeger.                                                         *)

\* An execution leaves one trace at most, and none from the future.
Single(traces) == \A t, u \in traces : t.cell = u.cell /\ t.exec = u.exec => t = u
Past(traces) == \A t \in traces : t.exec <= exec[t.cell]

\* Polling went on unless there were as many traces as runs to wait for.
Polled ==
  /\ Single(store \cup flight) /\ Past(store \cup flight) /\ Single(got)
  /\ (pc = "gating" /\ collector = "jaeger" /\ attempt < Retries) => Enough(got)

LEMMA InitPolled == Init => Polled
<1> SUFFICES ASSUME Init PROVE Polled
  OBVIOUS
<1>1. PICK left \in [Cells -> UNION {Left(c, 1) : c \in Cells}] :
        /\ \A c \in Cells : left[c] \in Left(c, 1)
        /\ LET all == UNION {left[c] : c \in Cells} IN
           IF collector = "file" THEN store = all /\ flight = {}
           ELSE store = {} /\ flight = all
  BY DEF Init
<1>2. \A c \in Cells : \A t, u \in left[c] : t = u /\ t.cell = c /\ t.exec = 1
  <2> SUFFICES ASSUME NEW c \in Cells PROVE \A t, u \in left[c] : t = u /\ t.cell = c /\ t.exec = 1
    OBVIOUS
  <2>1. left[c] \in Left(c, 1)
    BY <1>1
  <2> QED
    BY <2>1 DEF Left
<1>3. store \cup flight = UNION {left[c] : c \in Cells}
  BY <1>1
<1>4. Single(store \cup flight)
  BY <1>2, <1>3 DEF Single
<1>5. Past(store \cup flight)
  BY <1>2, <1>3 DEF Past, Init
<1> QED
  BY <1>4, <1>5 DEF Init, Polled, Single

\* What an execution leaves is one trace, the cell's first with its number.
LEMMA ExecuteSingle ==
  ASSUME RunInv, Polled, NEW c \in Cells, Execute(c)
  PROVE  Single((store \cup flight)') /\ Past(store \cup flight)'
<1>1. PICK left \in Left(c, exec'[c]) :
        IF collector = "jaeger" THEN flight' = flight \cup left /\ UNCHANGED store
        ELSE /\ store' = IF left = {} THEN store ELSE {t \in store : t.cell # c} \cup left
             /\ UNCHANGED flight
  BY DEF Execute
<1>2. exec[c] \in Nat /\ exec'[c] = exec[c] + 1 /\ \A d \in Cells \ {c} : exec'[d] = exec[d]
  BY AnalyzeAssumption DEF RunInv, Execute
<1>3. \A t, u \in left : t = u /\ t.cell = c /\ t.exec = exec'[c]
  BY DEF Left
<1>4. (store \cup flight)' \subseteq (store \cup flight) \cup left
  BY <1>1
<1>5. \A t \in store \cup flight : t.cell \in Cells /\ t.exec \in Nat /\ exec[t.cell] \in Nat
  BY AnalyzeAssumption DEF RunInv, Trace
<1>6. Single((store \cup flight) \cup left)
  <2>1. \A t \in store \cup flight, u \in left : t.cell = u.cell => t.exec # u.exec
    BY <1>2, <1>3, <1>5 DEF Polled, Past
  <2> QED
    BY <1>3, <2>1 DEF Polled, Single
<1>7. \A t \in (store \cup flight) \cup left : t.exec <= exec'[t.cell]
  BY <1>2, <1>3, <1>5 DEF Polled, Past
<1> QED
  BY <1>4, <1>6, <1>7 DEF Single, Past

LEMMA StepPolled == RunInv /\ AnalysisInv /\ Polled /\ [Next]_vars => Polled'
<1> SUFFICES ASSUME RunInv, AnalysisInv, Polled, [Next]_vars PROVE Polled'
  OBVIOUS
<1>1. CASE UNCHANGED analysis /\ UNCHANGED <<collector, exec, store, flight>>
  BY <1>1 DEF analysis, Polled, Single, Past, Enough, Expected
<1>2. CASE \E c \in Cells : Execute(c)
  <2>1. Single((store \cup flight)') /\ Past(store \cup flight)'
    BY <1>2, ExecuteSingle
  <2> QED
    BY <1>2, <2>1 DEF Execute, analysis, Polled, Single, Enough, Expected
<1>3. CASE \E t \in flight : Ingest(t)
  <2>1. (store \cup flight)' = store \cup flight
    BY <1>3 DEF Ingest
  <2> QED
    BY <1>3, <2>1 DEF Ingest, analysis, Polled, Single, Past, Enough, Expected
<1>4. CASE Load
  BY <1>4 DEF Load, run, Polled, Single, Past
<1>5. CASE Fetch
  <2>1. PICK s \in Answers :
          got' = s /\ pc' = IF Enough(s) \/ LastAttempt THEN "gating" ELSE "fetching"
    BY <1>5 DEF Fetch
  <2>2. /\ UNCHANGED <<collector, exec, store, flight, known>> /\ attempt' = attempt + 1
        /\ collector = "jaeger"
    BY <1>5 DEF Fetch, run
  <2>3. Single(got') /\ s \subseteq store
    BY <2>1 DEF Answers, Polled, Single
  <2>4. attempt' < Retries => ~ LastAttempt
    BY <2>2, AnalyzeAssumption DEF LastAttempt, AnalysisInv, AnalysisTypes, AttemptBound
  <2>5. (pc' = "gating" /\ attempt' < Retries) => Enough(s)
    BY <2>1, <2>4
  <2>6. Enough(got)' <=> Enough(s)
    BY <2>1, <2>2 DEF Enough, Expected
  <2> QED
    BY <2>2, <2>3, <2>5, <2>6 DEF Polled, Single, Past
<1>6. CASE ReadFiles
  BY <1>6 DEF ReadFiles, run, Polled, Single, Past
<1>7. CASE Gate \/ Conclude \/ FetchFails
  BY <1>7 DEF Gate, Conclude, FetchFails, run, Polled, Single, Past
<1> QED
  BY <1>1, <1>2, <1>3, <1>4, <1>5, <1>6, <1>7
     DEF Next, Run, Resume, Record, KillResume, Advance, Rest, vars, run, analysis

\* As many traces as completed runs, each of another completed run: all are there.
LEMMA AllArrived == AnalysisInv /\ Polled => NotStoppedEarly
<1> SUFFICES ASSUME AnalysisInv, Polled,
                    pc = "gating", collector = "jaeger", known # NoManifest, attempt < Retries,
                    \A t \in got : known[t.cell] = [status |-> "completed", exec |-> t.exec],
                    NEW c \in Cells, known[c].status = "completed"
             PROVE  [cell |-> c, exec |-> known[c].exec]
                      \in {[cell |-> t.cell, exec |-> t.exec] : t \in got}
  BY DEF NotStoppedEarly
<1> DEFINE completed == {d \in Cells : known[d].status = "completed"}
           f == [t \in got |-> t.cell]
<1>0. \A t \in got : known[t.cell].status = "completed" /\ known[t.cell].exec = t.exec
  <2> SUFFICES ASSUME NEW t \in got
               PROVE  known[t.cell].status = "completed" /\ known[t.cell].exec = t.exec
    OBVIOUS
  <2>1. known[t.cell] = [status |-> "completed", exec |-> t.exec]
    OBVIOUS
  <2> QED
    BY <2>1
<1>1. Cardinality(got) >= Cardinality(completed)
  BY DEF Polled, Enough, Expected
<1>2. got \subseteq Trace /\ IsFiniteSet(got) /\ IsFiniteSet(completed)
  BY FiniteTraces, FS_Subset, AnalyzeAssumption DEF AnalysisInv, AnalysisTypes
<1>3. f \in Injection(got, completed)
  <2>1. f \in [got -> completed]
    <3> SUFFICES ASSUME NEW t \in got PROVE t.cell \in completed
      OBVIOUS
    <3> QED
      BY <1>0, <1>2 DEF Trace
  <2>2. \A t, u \in got : t.cell = u.cell => t = u
    <3> SUFFICES ASSUME NEW t \in got, NEW u \in got, t.cell = u.cell PROVE t = u
      OBVIOUS
    <3>1. [status |-> "completed", exec |-> t.exec] = [status |-> "completed", exec |-> u.exec]
      OBVIOUS
    <3>2. t.exec = u.exec
      BY <3>1
    <3> QED
      BY <3>2 DEF Polled, Single
  <2> QED
    BY <2>1, <2>2 DEF Injection, IsInjective
<1> HIDE DEF completed, f
<1>4. Cardinality(got) \in Nat /\ Cardinality(completed) \in Nat
  BY <1>2, FS_CardinalityType
<1>5. f \in Surjection(got, completed)
  BY <1>1, <1>2, <1>3, <1>4, FS_Injection
<1>6. PICK t \in got : t.cell = c
  BY <1>5 DEF Surjection, completed, f
<1> QED
  BY <1>0, <1>6

\* With any retries, limit and order of ingestion, polling that ends before its
\* last attempt has the trace of every completed run, unless traces of failed or
\* superseded executions make up the number.
THEOREM NotStoppedEarlyHolds == Spec => []NotStoppedEarly
BY InitPolled, StepPolled, AllArrived, Inductive, PTL DEF Spec

=============================================================================
