--------------------------- MODULE EvalRun_proofs ---------------------------
(***************************************************************************)
(* Theorems about module EvalRun, for any matrix, any number of runs and   *)
(* invocations and any interleaving of them.                               *)
(***************************************************************************)
EXTENDS EvalRun, TLAPS

USE DEF Invs

LEMMA EmptyTyped ==
  /\ NoRows \in Rows
  /\ Unreadable \in Manifest
  /\ NoPlan \in Plan
BY DEF NoRows, Rows, Unreadable, Manifest, NoPlan, Plan

LEMMA InitType == Init => TypeOK
BY EmptyTyped, BoundAssumption DEF Init, TypeOK, Rows

LEMMA ExitType ==
  ASSUME TypeOK, NEW i \in Invs, Exit(i)
  PROVE  /\ pc' \in [Invs -> {"new", "ended"} \cup Working]
         /\ plan' \in [Invs -> Plan]
         /\ hits' \in [Invs -> Rows]
         /\ keyed' \in [Invs -> SUBSET Cells]
         /\ results' \in [Invs -> Rows]
BY EmptyTyped DEF TypeOK, Exit

LEMMA BeginType ==
  ASSUME TypeOK, NEW i \in Invs, NEW r \in Runs, NEW resume \in BOOLEAN,
         NEW index \in Rows, Begin(i, r, resume, index)
  PROVE  /\ pc' \in [Invs -> {"new", "ended"} \cup Working]
         /\ plan' \in [Invs -> Plan]
<1>1. PICK m \in Modes, S \in SUBSET Tasks \ {{}}, lock \in LockStates :
         /\ plan' = [plan EXCEPT ![i] =
              [run |-> r, synthetic |-> m.synthetic, cache |-> m.cache,
               resume |-> resume, scope |-> S, index |-> index,
               fixtures |-> [t \in Tasks |->
                               IF lock /\ t \in S THEN content[t] ELSE NoHash]]]
         /\ pc' = [pc EXCEPT ![i] = IF m.cache THEN "lookup" ELSE "exec"]
  BY DEF Begin
<1>2. m.synthetic \in BOOLEAN /\ m.cache \in BOOLEAN
  BY ModeAssumption DEF Mode
<1>3. [t \in Tasks |-> IF lock /\ t \in S THEN content[t] ELSE NoHash]
        \in [Tasks -> Hashes \cup {NoHash}]
  BY DEF TypeOK
<1>4. pc' \in [Invs -> {"new", "ended"} \cup Working]
  BY <1>1 DEF TypeOK, Working
<1>5. plan' \in [Invs -> Plan]
  BY <1>1, <1>2, <1>3 DEF TypeOK, Plan
<1>6. QED BY <1>4, <1>5

LEMMA RowTyped ==
  ASSUME NEW s \in Statuses, NEW i \in Invs, NEW h \in Hashes,
         NEW b \in BOOLEAN, NEW d \in BOOLEAN
  PROVE  [status |-> s, by |-> i, input |-> h, synthetic |-> b, cached |-> d] \in Row
BY DEF Row

\* The merge of a resume is a manifest.
LEMMA MergedType ==
  ASSUME TypeOK, NEW i \in Invs
  PROVE  plan[i].run \in Runs => Merged(i) \in Manifest
<1>1. plan[i] \in Plan /\ results[i] \in Rows /\ hits[i] \in Rows
  BY DEF TypeOK
<1>2. MergedRows(i) \in Rows
  BY <1>1 DEF MergedRows, Rows, Plan
<1>3. SUFFICES ASSUME plan[i].run \in Runs
               PROVE  Merged(i) \in Manifest
  OBVIOUS
<1>4. manifest[plan[i].run] \in Manifest
  BY <1>3 DEF TypeOK
<1>5. MergedReplayed(i) \in BOOLEAN
  BY <1>1, <1>4 DEF MergedReplayed, Plan, Manifest
<1>6. MergedFixtures(i) \in [Tasks -> Hashes \cup {NoHash}]
  BY <1>1, <1>4 DEF MergedFixtures, Plan, Manifest
<1>7. QED BY <1>2, <1>5, <1>6 DEF Merged, Manifest

LEMMA NextType == TypeOK /\ [Next]_vars => TypeOK'
<1> SUFFICES ASSUME TypeOK, [Next]_vars PROVE TypeOK'
  OBVIOUS
<1>1. CASE UNCHANGED vars
  BY <1>1 DEF TypeOK, vars
<1>2. ASSUME NEW i \in Invs, StartFresh(i) PROVE TypeOK'
  <2>1. PICK r \in Runs \ dirs : dirs' = dirs \cup {r} /\ Begin(i, r, FALSE, NoRows)
    BY <1>2 DEF StartFresh
  <2>2. pc' \in [Invs -> {"new", "ended"} \cup Working] /\ plan' \in [Invs -> Plan]
    BY <2>1, BeginType, EmptyTyped
  <2>3. QED BY <2>1, <2>2 DEF TypeOK, Begin
<1>3. ASSUME NEW i \in Invs, StartResume(i) PROVE TypeOK'
  <2>1. PICK r \in dirs : Begin(i, r, TRUE, manifest[r].rows)
    BY <1>3 DEF StartResume
  <2>2. r \in Runs /\ manifest[r].rows \in Rows
    BY <2>1 DEF TypeOK, Manifest
  <2>3. pc' \in [Invs -> {"new", "ended"} \cup Working] /\ plan' \in [Invs -> Plan]
    BY <2>1, <2>2, BeginType
  <2>4. QED BY <1>3, <2>1, <2>3 DEF TypeOK, Begin, StartResume
<1>4. ASSUME NEW i \in Invs, Abort(i) PROVE TypeOK'
  BY <1>4 DEF TypeOK, Abort, Working
<1>5. ASSUME NEW i \in Invs, ResolveCache(i) PROVE TypeOK'
  <2>1. PICK K \in SUBSET (ScopeCells(i) \ Completed(plan[i].index)) :
          /\ keyed' = [keyed EXCEPT ![i] = K]
          /\ hits' = [hits EXCEPT ![i] =
               [c \in Cells |->
                  IF c \in K /\ cache[c][KeyHash(i, c)] # NoRow
                  THEN [cache[c][KeyHash(i, c)] EXCEPT !.cached = TRUE]
                  ELSE NoRow]]
    BY <1>5 DEF ResolveCache
  <2>2. \A c \in Cells : KeyHash(i, c) \in Hashes \cup {NoHash}
    BY CellAssumption DEF TypeOK, Plan, KeyHash
  <2>3. \A c \in Cells : cache[c][KeyHash(i, c)] \in Row \cup {NoRow}
    BY <2>2 DEF TypeOK
  <2>4. \A c \in Cells : cache[c][KeyHash(i, c)] # NoRow =>
          [cache[c][KeyHash(i, c)] EXCEPT !.cached = TRUE] \in Row
    BY <2>3 DEF Row
  <2>5. hits' \in [Invs -> Rows]
    BY <2>1, <2>4 DEF TypeOK, Rows
  <2>6. keyed' \in [Invs -> SUBSET Cells]
    BY <2>1 DEF TypeOK, ScopeCells
  <2>7. QED BY <1>5, <2>5, <2>6 DEF TypeOK, ResolveCache, Working
<1>6. ASSUME NEW i \in Invs, NEW c \in Cells, RunCell(i, c) PROVE TypeOK'
  <2>1. PICK s \in Statuses :
          results' = [results EXCEPT ![i][c] =
            [status |-> s, by |-> i, input |-> content[TaskOf[c]],
             synthetic |-> plan[i].synthetic, cached |-> FALSE]]
    BY <1>6 DEF RunCell
  <2>2. [status |-> s, by |-> i, input |-> content[TaskOf[c]],
         synthetic |-> plan[i].synthetic, cached |-> FALSE] \in Row
    BY RowTyped, CellAssumption DEF TypeOK, Plan
  <2>3. results' \in [Invs -> Rows]
    BY <2>1, <2>2 DEF TypeOK, Rows
  <2>4. QED BY <1>6, <2>3 DEF TypeOK, RunCell
<1>7. ASSUME NEW i \in Invs, StoreResults(i) PROVE TypeOK'
  <2>1. PICK D \in SUBSET Storable(i) :
          cache' = [c \in Cells |-> [h \in Hashes \cup {NoHash} |->
            IF c \in D /\ h = KeyHash(i, c) THEN results[i][c] ELSE cache[c][h]]]
    BY <1>7 DEF StoreResults
  <2>2. \A c \in Cells : results[i][c] \in Row \cup {NoRow}
    BY DEF TypeOK, Rows
  <2>3. cache' \in [Cells -> [Hashes \cup {NoHash} -> Row \cup {NoRow}]]
    BY <2>1, <2>2 DEF TypeOK
  <2>4. QED BY <1>7, <2>3 DEF TypeOK, StoreResults, Working
<1>8. ASSUME NEW i \in Invs, WriteManifest(i) PROVE TypeOK'
  <2>1. manifest' \in [Runs -> Manifest]
    BY <1>8, MergedType DEF TypeOK, WriteManifest
  <2>2. QED BY <1>8, <2>1, ExitType DEF TypeOK, WriteManifest
<1>9. ASSUME NEW i \in Invs, FailWrite(i) PROVE TypeOK'
  <2>1. manifest' \in [Runs -> Manifest]
    BY <1>9, EmptyTyped DEF TypeOK, FailWrite
  <2>2. QED BY <1>9, <2>1, ExitType DEF TypeOK, FailWrite
<1>10. ASSUME NEW i \in Invs, Kill(i) PROVE TypeOK'
  BY <1>10, ExitType DEF TypeOK, Kill
<1>11. ASSUME NEW t \in Tasks, EditFixture(t) PROVE TypeOK'
  <2>1. content' \in [Tasks -> Hashes]
    BY <1>11 DEF TypeOK, EditFixture
  <2>2. edits' \in 0..MaxEdits
    BY <1>11, BoundAssumption DEF TypeOK, EditFixture
  <2>3. QED BY <1>11, <2>1, <2>2 DEF TypeOK, EditFixture
<1>12. QED
  BY <1>1, <1>2, <1>3, <1>4, <1>5, <1>6, <1>7, <1>8, <1>9, <1>10, <1>11 DEF Next

(***************************************************************************)
(* Every variable keeps its type, whatever invocations overlap.            *)
(***************************************************************************)
THEOREM TypeCorrect == Spec => []TypeOK
BY InitType, NextType, PTL DEF Spec
-----------------------------------------------------------------------------
\* What Begin and Exit do, process by process.
Began(i, r, resume, index) ==
  /\ plan'[i].run = r /\ plan'[i].index = index /\ plan'[i].resume = resume
  /\ [synthetic |-> plan'[i].synthetic, cache |-> plan'[i].cache] \in Modes
  /\ pc'[i] = IF plan'[i].cache THEN "lookup" ELSE "exec"
  /\ LockStates = {TRUE} =>
       \A t \in plan'[i].scope : plan'[i].fixtures[t] = content[t]
  /\ \A j \in Invs \ {i} : plan'[j] = plan[j] /\ pc'[j] = pc[j]
  /\ UNCHANGED <<manifest, cache, content, edits, hits, keyed, results>>

\* Beginning changes the process that begins only.
LEMMA BeginStep ==
  ASSUME TypeOK, NEW i \in Invs, NEW r \in Runs, NEW resume \in BOOLEAN,
         NEW index \in Rows, Begin(i, r, resume, index)
  PROVE  Began(i, r, resume, index)
<1>1. PICK m \in Modes, S \in SUBSET Tasks \ {{}}, lock \in LockStates :
         /\ plan' = [plan EXCEPT ![i] =
              [run |-> r, synthetic |-> m.synthetic, cache |-> m.cache,
               resume |-> resume, scope |-> S, index |-> index,
               fixtures |-> [t \in Tasks |->
                               IF lock /\ t \in S THEN content[t] ELSE NoHash]]]
         /\ pc' = [pc EXCEPT ![i] = IF m.cache THEN "lookup" ELSE "exec"]
  BY DEF Begin
<1>2. plan'[i] = [run |-> r, synthetic |-> m.synthetic, cache |-> m.cache,
                  resume |-> resume, scope |-> S, index |-> index,
                  fixtures |-> [t \in Tasks |->
                                  IF lock /\ t \in S THEN content[t] ELSE NoHash]]
  BY <1>1 DEF TypeOK
<1>3. pc'[i] = IF plan'[i].cache THEN "lookup" ELSE "exec"
  BY <1>1, <1>2 DEF TypeOK
<1>4. \A j \in Invs \ {i} : plan'[j] = plan[j] /\ pc'[j] = pc[j]
  BY <1>1 DEF TypeOK
<1>5. m = [synthetic |-> m.synthetic, cache |-> m.cache]
  BY ModeAssumption DEF Mode
<1>6. [synthetic |-> plan'[i].synthetic, cache |-> plan'[i].cache] \in Modes
  BY <1>2, <1>5
<1>7. LockStates = {TRUE} =>
        \A t \in plan'[i].scope : plan'[i].fixtures[t] = content[t]
  BY <1>2
<1>8. plan'[i].run = r /\ plan'[i].index = index /\ plan'[i].resume = resume
  BY <1>2
<1>9. UNCHANGED <<manifest, cache, content, edits, hits, keyed, results>>
  BY DEF Begin
<1>10. QED BY <1>3, <1>4, <1>6, <1>7, <1>8, <1>9 DEF Began

\* An exit forgets all that the process held, and nothing else.
LEMMA ExitStep ==
  ASSUME TypeOK, NEW i \in Invs, Exit(i)
  PROVE  /\ pc'[i] = "ended" /\ plan'[i] = NoPlan
         /\ hits'[i] = NoRows /\ keyed'[i] = {} /\ results'[i] = NoRows
         /\ \A j \in Invs \ {i} :
              /\ pc'[j] = pc[j] /\ plan'[j] = plan[j]
              /\ hits'[j] = hits[j] /\ keyed'[j] = keyed[j] /\ results'[j] = results[j]
BY DEF TypeOK, Exit

LEMMA EmptyFacts ==
  /\ \A c \in Cells : NoRows[c] = NoRow
  /\ Unreadable.rows = NoRows
  /\ NoPlan.run = NoRun /\ NoPlan.index = NoRows /\ NoPlan.scope = {}
  /\ ~NoPlan.synthetic /\ ~NoPlan.cache /\ ~NoPlan.resume
  /\ Completed(NoRows) = {}
BY DEF NoRows, Unreadable, NoPlan, Completed

LEMMA InitTidy == Init => Tidy
BY EmptyFacts DEF Init, Tidy, Active, Working

LEMMA NextTidy == TypeOK /\ Tidy /\ [Next]_vars => Tidy'
<1> SUFFICES ASSUME TypeOK, Tidy, [Next]_vars PROVE Tidy'
  OBVIOUS
<1> USE DEF Active, Working
<1>1. CASE UNCHANGED vars
  BY <1>1 DEF Tidy, vars
<1>2. ASSUME NEW i \in Invs, StartFresh(i) PROVE Tidy'
  <2>1. PICK r \in Runs \ dirs : dirs' = dirs \cup {r} /\ Begin(i, r, FALSE, NoRows)
    BY <1>2 DEF StartFresh
  <2>2. Began(i, r, FALSE, NoRows)
    BY <2>1, BeginStep, EmptyTyped
  <2>3. QED BY <2>1, <2>2 DEF Tidy, Began
<1>3. ASSUME NEW i \in Invs, StartResume(i) PROVE Tidy'
  <2>1. PICK r \in dirs : Begin(i, r, TRUE, manifest[r].rows)
    BY <1>3 DEF StartResume
  <2>2. r \in Runs /\ manifest[r].rows \in Rows
    BY <2>1 DEF TypeOK, Manifest
  <2>3. Began(i, r, TRUE, manifest[r].rows)
    BY <2>1, <2>2, BeginStep
  <2>4. QED BY <1>3, <2>1, <2>3 DEF Tidy, Began, StartResume
<1>4. ASSUME NEW i \in Invs, Abort(i) PROVE Tidy'
  BY <1>4 DEF TypeOK, Tidy, Abort, IsNext
<1>5. ASSUME NEW i \in Invs, ResolveCache(i) PROVE Tidy'
  BY <1>5 DEF TypeOK, Tidy, ResolveCache
<1>6. ASSUME NEW i \in Invs, NEW c \in Cells, RunCell(i, c) PROVE Tidy'
  BY <1>6 DEF TypeOK, Tidy, RunCell
<1>7. ASSUME NEW i \in Invs, StoreResults(i) PROVE Tidy'
  BY <1>7 DEF TypeOK, Tidy, StoreResults, BatchDone
<1>8. ASSUME NEW i \in Invs, Exit(i), UNCHANGED dirs,
             \A r \in Runs \ dirs : manifest'[r] = manifest[r]
      PROVE  Tidy'
  <2>1. \A j \in Invs \ {i} :
          /\ pc'[j] = pc[j] /\ plan'[j] = plan[j]
          /\ hits'[j] = hits[j] /\ keyed'[j] = keyed[j] /\ results'[j] = results[j]
    BY <1>8, ExitStep
  <2>2. /\ pc'[i] = "ended" /\ plan'[i] = NoPlan
        /\ hits'[i] = NoRows /\ keyed'[i] = {} /\ results'[i] = NoRows
    BY <1>8, ExitStep
  <2>3. QED BY <1>8, <2>1, <2>2, EmptyFacts DEF Tidy
<1>9. ASSUME NEW i \in Invs, WriteManifest(i) \/ FailWrite(i) \/ Kill(i)
      PROVE  Tidy'
  <2>1. pc[i] \in Working => plan[i].run \in dirs
    BY DEF Tidy
  <2>2. \A r \in Runs \ dirs : manifest'[r] = manifest[r]
    BY <1>9, <2>1 DEF WriteManifest, FailWrite, Kill, TypeOK
  <2>3. QED BY <1>8, <1>9, <2>2 DEF WriteManifest, FailWrite, Kill
<1>10. ASSUME NEW t \in Tasks, EditFixture(t) PROVE Tidy'
  BY <1>10 DEF Tidy, EditFixture
<1>11. QED
  BY <1>1, <1>2, <1>3, <1>4, <1>5, <1>6, <1>7, <1>9, <1>10 DEF Next

LEMMA InitSkips == Init => SkipsCompleted
BY EmptyFacts DEF Init, SkipsCompleted

LEMMA NextSkips == TypeOK /\ Tidy /\ SkipsCompleted /\ [Next]_vars => SkipsCompleted'
<1> SUFFICES ASSUME TypeOK, Tidy, SkipsCompleted, [Next]_vars PROVE SkipsCompleted'
  OBVIOUS
<1> USE DEF Active, Working
<1>1. CASE UNCHANGED vars
  BY <1>1 DEF SkipsCompleted, Completed, vars
<1>2. ASSUME NEW i \in Invs, StartFresh(i) PROVE SkipsCompleted'
  <2>1. PICK r \in Runs \ dirs : dirs' = dirs \cup {r} /\ Begin(i, r, FALSE, NoRows)
    BY <1>2 DEF StartFresh
  <2>2. Began(i, r, FALSE, NoRows)
    BY <2>1, BeginStep, EmptyTyped
  <2>3. QED BY <2>2, EmptyFacts DEF SkipsCompleted, Completed, Began
<1>3. ASSUME NEW i \in Invs, StartResume(i) PROVE SkipsCompleted'
  <2>1. PICK r \in dirs : Begin(i, r, TRUE, manifest[r].rows)
    BY <1>3 DEF StartResume
  <2>2. r \in Runs /\ manifest[r].rows \in Rows
    BY <2>1 DEF TypeOK, Manifest
  <2>3. keyed[i] = {} /\ hits[i] = NoRows /\ results[i] = NoRows
    BY <1>3 DEF StartResume, IsNext, Tidy
  <2>4. Began(i, r, TRUE, manifest[r].rows)
    BY <2>1, <2>2, BeginStep
  <2>5. QED BY <2>3, <2>4, EmptyFacts DEF SkipsCompleted, Completed, Began
<1>4. ASSUME NEW i \in Invs, Abort(i) PROVE SkipsCompleted'
  BY <1>4 DEF SkipsCompleted, Completed, Abort
<1>5. ASSUME NEW i \in Invs, ResolveCache(i) PROVE SkipsCompleted'
  BY <1>5 DEF TypeOK, SkipsCompleted, Completed, ResolveCache
<1>6. ASSUME NEW i \in Invs, NEW c \in Cells, RunCell(i, c) PROVE SkipsCompleted'
  <2>1. c \notin Completed(plan[i].index) /\ UNCHANGED <<plan, hits, keyed>>
    BY <1>6 DEF RunCell, Todo, Skip
  <2>2. \A j \in Invs, d \in Cells : j # i \/ d # c => results'[j][d] = results[j][d]
    BY <1>6 DEF TypeOK, Rows, RunCell
  <2>3. QED BY <2>1, <2>2 DEF SkipsCompleted, Completed
<1>7. ASSUME NEW i \in Invs, StoreResults(i) PROVE SkipsCompleted'
  BY <1>7 DEF SkipsCompleted, Completed, StoreResults
<1>8. ASSUME NEW i \in Invs, Exit(i) PROVE SkipsCompleted'
  BY <1>8, ExitStep, EmptyFacts DEF SkipsCompleted, Completed
<1>9. ASSUME NEW t \in Tasks, EditFixture(t) PROVE SkipsCompleted'
  BY <1>9 DEF SkipsCompleted, Completed, EditFixture
<1>10. QED
  BY <1>1, <1>2, <1>3, <1>4, <1>5, <1>6, <1>7, <1>8, <1>9
     DEF Next, WriteManifest, FailWrite, Kill

(***************************************************************************)
(* No completed cell is paid for twice and none is lost (run_command with  *)
(* completed_cells, filter_schedule and merge_manifest_runs), however many *)
(* invocations work on the run at the same time.                           *)
(***************************************************************************)
THEOREM KeepsCompletedHolds == Spec => KeepsCompleted
<1>1. TypeOK /\ SkipsCompleted /\ [Next]_vars =>
        [\A i \in Invs : Writes(i) =>
           \A c \in Completed(plan[i].index) :
             manifest'[plan[i].run].rows[c] = plan[i].index[c]]_vars
  <2> SUFFICES ASSUME TypeOK, SkipsCompleted, NEW i \in Invs, Writes(i),
                      NEW c \in Completed(plan[i].index)
               PROVE  manifest'[plan[i].run].rows[c] = plan[i].index[c]
    OBVIOUS
  <2>1. c \in Cells /\ hits[i][c] = NoRow /\ results[i][c] = NoRow
    BY DEF SkipsCompleted, Completed
  <2>2. MergedRows(i)[c] = plan[i].index[c]
    BY <2>1 DEF MergedRows
  <2>3. QED BY <2>2 DEF Writes, Merged
<1>2. QED
  BY <1>1, InitType, NextType, InitTidy, NextTidy, InitSkips, NextSkips, PTL
     DEF Spec, KeepsCompleted

-----------------------------------------------------------------------------
\* What a process looks up, reuses or runs is in its scope, and a batch that is
\* over has a row of everything it had to run.
Scoped ==
  \A i \in Invs :
    /\ keyed[i] \subseteq ScopeCells(i)
    /\ \A c \in Cells : hits[i][c] # NoRow \/ results[i][c] # NoRow => c \in ScopeCells(i)
    /\ pc[i] = "write" => Todo(i) \subseteq Recorded(results[i])

LEMMA InitScoped == Init => Scoped
BY EmptyFacts DEF Init, Scoped

LEMMA NextScoped == TypeOK /\ Tidy /\ Scoped /\ [Next]_vars => Scoped'
<1> SUFFICES ASSUME TypeOK, Tidy, Scoped, [Next]_vars PROVE Scoped'
  OBVIOUS
<1> USE DEF ScopeCells, Todo, Skip, Recorded, Completed
<1>1. CASE UNCHANGED vars
  BY <1>1 DEF Scoped, vars
<1>2. ASSUME NEW i \in Invs, NEW r \in Runs, NEW resume \in BOOLEAN, NEW index \in Rows,
             pc[i] = "new", Begin(i, r, resume, index)
      PROVE  Scoped'
  <2>1. Began(i, r, resume, index)
    BY <1>2, BeginStep
  <2>2. keyed'[i] = {} /\ hits'[i] = NoRows /\ results'[i] = NoRows /\ pc'[i] # "write"
    BY <1>2, <2>1 DEF Began, Tidy, Active, Working
  <2>3. QED BY <2>1, <2>2, EmptyFacts DEF Scoped, Began
<1>3. ASSUME NEW i \in Invs, StartFresh(i) \/ StartResume(i) PROVE Scoped'
  <2>1. CASE StartFresh(i)
    BY <1>2, <2>1, EmptyTyped DEF StartFresh, IsNext
  <2>2. CASE StartResume(i)
    <3>1. PICK r \in dirs : Begin(i, r, TRUE, manifest[r].rows)
      BY <2>2 DEF StartResume
    <3>2. r \in Runs /\ manifest[r].rows \in Rows
      BY <3>1 DEF TypeOK, Manifest
    <3>3. QED BY <1>2, <2>2, <3>1, <3>2 DEF StartResume, IsNext
  <2>3. QED BY <1>3, <2>1, <2>2
<1>4. ASSUME NEW i \in Invs, Abort(i) PROVE Scoped'
  BY <1>4 DEF TypeOK, Scoped, Abort
<1>5. ASSUME NEW i \in Invs, ResolveCache(i) PROVE Scoped'
  <2>1. PICK K \in SUBSET (ScopeCells(i) \ Completed(plan[i].index)) :
          /\ keyed' = [keyed EXCEPT ![i] = K]
          /\ hits' = [hits EXCEPT ![i] =
               [c \in Cells |->
                  IF c \in K /\ cache[c][KeyHash(i, c)] # NoRow
                  THEN [cache[c][KeyHash(i, c)] EXCEPT !.cached = TRUE]
                  ELSE NoRow]]
    BY <1>5 DEF ResolveCache
  <2>2. /\ keyed'[i] = K /\ \A c \in Cells : hits'[i][c] # NoRow => c \in K
        /\ pc'[i] = "exec"
        /\ \A j \in Invs \ {i} : hits'[j] = hits[j] /\ keyed'[j] = keyed[j] /\ pc'[j] = pc[j]
        /\ UNCHANGED <<plan, results>>
    BY <1>5, <2>1 DEF TypeOK, ResolveCache
  <2>3. QED BY <2>2 DEF Scoped
<1>6. ASSUME NEW i \in Invs, NEW c \in Cells, RunCell(i, c) PROVE Scoped'
  <2>1. /\ UNCHANGED <<plan, hits, keyed, pc>>
        /\ c \in ScopeCells(i) /\ pc[i] = "exec"
        /\ \A j \in Invs, d \in Cells : j # i \/ d # c => results'[j][d] = results[j][d]
    BY <1>6 DEF TypeOK, Rows, RunCell
  <2>2. QED BY <2>1 DEF Scoped
<1>7. ASSUME NEW i \in Invs, StoreResults(i) PROVE Scoped'
  BY <1>7 DEF TypeOK, Scoped, StoreResults, BatchDone
<1>8. ASSUME NEW i \in Invs, WriteManifest(i) \/ FailWrite(i) \/ Kill(i)
      PROVE  Scoped'
  <2>1. Exit(i)
    BY <1>8 DEF WriteManifest, FailWrite, Kill
  <2>2. QED BY <2>1, ExitStep, EmptyFacts DEF Scoped
<1>9. ASSUME NEW t \in Tasks, EditFixture(t) PROVE Scoped'
  BY <1>9 DEF Scoped, EditFixture
<1>10. QED
  BY <1>1, <1>3, <1>4, <1>5, <1>6, <1>7, <1>8, <1>9 DEF Next

(***************************************************************************)
(* A manifest covers what was asked for (run_command, filter_schedule,     *)
(* merge_manifest_runs): of every cell the scope names or the scan found   *)
(* it has a row, and of no other, however invocations overlap.             *)
(***************************************************************************)
THEOREM CoversMatrixHolds == Spec => CoversMatrix
<1>1. Init => TypeOK /\ Tidy /\ Scoped
  BY InitType, InitTidy, InitScoped
<1>2. TypeOK /\ Tidy /\ Scoped /\ [Next]_vars => (TypeOK /\ Tidy /\ Scoped)'
  BY NextType, NextTidy, NextScoped
<1>3. TypeOK /\ Tidy /\ Scoped /\ [Next]_vars =>
        [\A i \in Invs : Writes(i) =>
           ScopeCells(i) \cup Recorded(plan[i].index)
             = Recorded(manifest'[plan[i].run].rows)]_vars
  <2> SUFFICES ASSUME Scoped, NEW i \in Invs, Writes(i)
               PROVE  ScopeCells(i) \cup Recorded(plan[i].index)
                        = Recorded(manifest'[plan[i].run].rows)
    OBVIOUS
  <2>1. /\ manifest'[plan[i].run].rows = MergedRows(i)
        /\ Todo(i) \subseteq Recorded(results[i])
    BY DEF Writes, Merged, Scoped
  <2>2. ASSUME NEW c \in Cells
        PROVE  c \in ScopeCells(i) \/ plan[i].index[c] # NoRow <=> MergedRows(i)[c] # NoRow
    <3>1. c \in ScopeCells(i) =>
            results[i][c] # NoRow \/ hits[i][c] # NoRow \/ plan[i].index[c] # NoRow
      BY <2>1 DEF Todo, Skip, Recorded, Completed
    <3>2. hits[i][c] # NoRow \/ results[i][c] # NoRow => c \in ScopeCells(i)
      BY DEF Scoped
    <3>3. QED BY <3>1, <3>2 DEF MergedRows
  <2>3. QED BY <2>1, <2>2 DEF ScopeCells, Recorded
<1>4. QED BY <1>1, <1>2, <1>3, PTL DEF Spec, CoversMatrix

-----------------------------------------------------------------------------
LEMMA InitIndex == Init => IndexCurrent
BY DEF Init, IndexCurrent, Active, Working

LEMMA NextIndex ==
  ASSUME ~Overlap
  PROVE  TypeOK /\ Tidy /\ IndexCurrent /\ [Next]_vars => IndexCurrent'
<1> SUFFICES ASSUME TypeOK, Tidy, IndexCurrent, [Next]_vars PROVE IndexCurrent'
  OBVIOUS
<1> USE DEF Active, Working
<1>1. CASE UNCHANGED vars
  BY <1>1 DEF IndexCurrent, vars
<1>2. ASSUME NEW i \in Invs, StartFresh(i) PROVE IndexCurrent'
  <2>1. PICK r \in Runs \ dirs : dirs' = dirs \cup {r} /\ Begin(i, r, FALSE, NoRows)
    BY <1>2 DEF StartFresh
  <2>2. Began(i, r, FALSE, NoRows)
    BY <2>1, BeginStep, EmptyTyped
  <2>3. manifest[r].rows = NoRows
    BY <2>1, EmptyFacts DEF Tidy
  <2>4. \A j \in Invs : Active(j) => plan[j].run # r
    BY <2>1 DEF Tidy
  <2>5. QED BY <2>2, <2>3, <2>4 DEF IndexCurrent, Began
<1>3. ASSUME NEW i \in Invs, StartResume(i) PROVE IndexCurrent'
  <2>1. PICK r \in dirs : Idle(r) /\ Begin(i, r, TRUE, manifest[r].rows)
    BY <1>3 DEF StartResume
  <2>2. r \in Runs /\ manifest[r].rows \in Rows
    BY <2>1 DEF TypeOK, Manifest
  <2>3. Began(i, r, TRUE, manifest[r].rows)
    BY <2>1, <2>2, BeginStep
  <2>4. QED BY <2>1, <2>3 DEF IndexCurrent, Began, Idle
<1>4. ASSUME NEW i \in Invs, Abort(i) PROVE IndexCurrent'
  BY <1>4 DEF TypeOK, IndexCurrent, Abort, IsNext
<1>5. ASSUME NEW i \in Invs, ResolveCache(i) PROVE IndexCurrent'
  BY <1>5 DEF TypeOK, IndexCurrent, ResolveCache
<1>6. ASSUME NEW i \in Invs, NEW c \in Cells, RunCell(i, c) PROVE IndexCurrent'
  BY <1>6 DEF IndexCurrent, RunCell
<1>7. ASSUME NEW i \in Invs, StoreResults(i) PROVE IndexCurrent'
  BY <1>7 DEF TypeOK, IndexCurrent, StoreResults, BatchDone
<1>8. ASSUME NEW i \in Invs, Active(i), Exit(i),
             \A r \in Runs : r # plan[i].run => manifest'[r] = manifest[r]
      PROVE  IndexCurrent'
  <2>1. \A j \in Invs : Active(j)' => j # i /\ Active(j) /\ plan'[j] = plan[j]
    BY <1>8, ExitStep
  <2>2. \A j \in Invs : Active(j)' => plan[j].run \in Runs /\ plan[j].run # plan[i].run
    BY <1>8, <2>1 DEF Tidy, TypeOK, IndexCurrent
  <2>3. QED BY <1>8, <2>1, <2>2 DEF IndexCurrent
<1>9. ASSUME NEW t \in Tasks, EditFixture(t) PROVE IndexCurrent'
  BY <1>9 DEF IndexCurrent, EditFixture
<1>10. ASSUME NEW i \in Invs, WriteManifest(i) \/ FailWrite(i) \/ Kill(i)
       PROVE  IndexCurrent'
  BY <1>8, <1>10 DEF WriteManifest, FailWrite, Kill, TypeOK
<1>11. QED
  BY <1>1, <1>2, <1>3, <1>4, <1>5, <1>6, <1>7, <1>9, <1>10 DEF Next

-----------------------------------------------------------------------------
ReplayApart == \A m \in Modes : ~(m.synthetic /\ m.cache)

LEMMA InitSynthetic == Init => SyntheticApart /\ MarkerSound
BY EmptyFacts DEF Init, SyntheticApart, MarkerSound

LEMMA NextSynthetic ==
  ASSUME ReplayApart
  PROVE  TypeOK /\ Tidy /\ SyntheticApart /\ [Next]_vars => SyntheticApart'
<1> SUFFICES ASSUME TypeOK, Tidy, SyntheticApart, [Next]_vars PROVE SyntheticApart'
  OBVIOUS
<1> USE DEF Active, Working
<1>1. CASE UNCHANGED vars
  BY <1>1 DEF SyntheticApart, vars
<1>2. ASSUME NEW i \in Invs, NEW r \in Runs, NEW resume \in BOOLEAN, NEW index \in Rows,
             pc[i] = "new", Begin(i, r, resume, index)
      PROVE  SyntheticApart'
  <2>1. Began(i, r, resume, index)
    BY <1>2, BeginStep
  <2>2. ~(plan'[i].synthetic /\ plan'[i].cache)
    BY <2>1 DEF Began, ReplayApart
  <2>3. keyed'[i] = {} /\ hits'[i] = NoRows /\ results'[i] = NoRows
    BY <1>2, <2>1 DEF Began, Tidy
  <2>4. QED BY <2>1, <2>2, <2>3, EmptyFacts DEF SyntheticApart, Began
<1>3. ASSUME NEW i \in Invs, StartFresh(i) \/ StartResume(i) PROVE SyntheticApart'
  <2>1. CASE StartFresh(i)
    BY <1>2, <2>1, EmptyTyped DEF StartFresh, IsNext
  <2>2. CASE StartResume(i)
    <3>1. PICK r \in dirs : Begin(i, r, TRUE, manifest[r].rows)
      BY <2>2 DEF StartResume
    <3>2. r \in Runs /\ manifest[r].rows \in Rows
      BY <3>1 DEF TypeOK, Manifest
    <3>3. QED BY <1>2, <2>2, <3>1, <3>2 DEF StartResume, IsNext
  <2>3. QED BY <1>3, <2>1, <2>2
<1>4. ASSUME NEW i \in Invs, Abort(i) PROVE SyntheticApart'
  BY <1>4 DEF TypeOK, SyntheticApart, Abort
<1>5. ASSUME NEW i \in Invs, ResolveCache(i) PROVE SyntheticApart'
  <2>1. PICK K \in SUBSET (ScopeCells(i) \ Completed(plan[i].index)) :
          /\ keyed' = [keyed EXCEPT ![i] = K]
          /\ hits' = [hits EXCEPT ![i] =
               [c \in Cells |->
                  IF c \in K /\ cache[c][KeyHash(i, c)] # NoRow
                  THEN [cache[c][KeyHash(i, c)] EXCEPT !.cached = TRUE]
                  ELSE NoRow]]
    BY <1>5 DEF ResolveCache
  <2>2. \A c \in Cells : KeyHash(i, c) \in Hashes \cup {NoHash}
    BY CellAssumption DEF TypeOK, Plan, KeyHash
  <2>3. \A c \in Cells : cache[c][KeyHash(i, c)] # NoRow =>
          /\ cache[c][KeyHash(i, c)] \in Row
          /\ ~cache[c][KeyHash(i, c)].synthetic
    BY <2>2 DEF TypeOK, SyntheticApart
  <2>4. \A c \in Cells : hits'[i][c] # NoRow => ~hits'[i][c].synthetic
    BY <2>1, <2>3 DEF TypeOK, Row
  <2>5. /\ \A j \in Invs \ {i} : hits'[j] = hits[j] /\ keyed'[j] = keyed[j] /\ pc'[j] = pc[j]
        /\ pc'[i] = "exec" /\ plan[i].cache
        /\ UNCHANGED <<plan, cache, results>>
    BY <1>5, <2>1 DEF TypeOK, ResolveCache, SyntheticApart
  <2>6. QED BY <2>4, <2>5 DEF SyntheticApart
<1>6. ASSUME NEW i \in Invs, NEW c \in Cells, RunCell(i, c) PROVE SyntheticApart'
  <2>1. UNCHANGED <<plan, hits, keyed, cache, pc>>
    BY <1>6 DEF RunCell
  <2>2. \A j \in Invs, d \in Cells : j # i \/ d # c => results'[j][d] = results[j][d]
    BY <1>6 DEF TypeOK, Rows, RunCell
  <2>3. results'[i][c].synthetic = plan[i].synthetic
    BY <1>6 DEF TypeOK, Rows, RunCell
  <2>4. QED BY <2>1, <2>2, <2>3 DEF SyntheticApart
<1>7. ASSUME NEW i \in Invs, StoreResults(i) PROVE SyntheticApart'
  <2>1. PICK D \in SUBSET Storable(i) :
          cache' = [c \in Cells |-> [h \in Hashes \cup {NoHash} |->
            IF c \in D /\ h = KeyHash(i, c) THEN results[i][c] ELSE cache[c][h]]]
    BY <1>7 DEF StoreResults
  <2>2. \A c \in D : ~results[i][c].synthetic
    BY <2>1 DEF Storable, Completed, SyntheticApart
  <2>3. \A c \in Cells, h \in Hashes \cup {NoHash} :
          cache'[c][h] # NoRow => ~cache'[c][h].synthetic
    BY <2>1, <2>2 DEF SyntheticApart
  <2>4. /\ \A j \in Invs \ {i} : pc'[j] = pc[j]
        /\ pc'[i] = "write"
        /\ UNCHANGED <<plan, hits, keyed, results>>
    BY <1>7 DEF TypeOK, StoreResults
  <2>5. QED BY <2>3, <2>4 DEF SyntheticApart
<1>8. ASSUME NEW i \in Invs, WriteManifest(i) \/ FailWrite(i) \/ Kill(i)
      PROVE  SyntheticApart'
  <2>1. Exit(i) /\ UNCHANGED cache
    BY <1>8 DEF WriteManifest, FailWrite, Kill
  <2>2. QED BY <2>1, ExitStep, EmptyFacts DEF SyntheticApart
<1>9. ASSUME NEW t \in Tasks, EditFixture(t) PROVE SyntheticApart'
  BY <1>9 DEF SyntheticApart, EditFixture
<1>10. QED
  BY <1>1, <1>3, <1>4, <1>5, <1>6, <1>7, <1>8, <1>9 DEF Next

\* The marker of the manifest a process writes covers every row in it.
LEMMA MergedMarker ==
  ASSUME TypeOK, Tidy, IndexCurrent, SyntheticApart, MarkerSound,
         NEW i \in Invs, Active(i), NEW c \in Cells,
         MergedRows(i)[c] # NoRow, MergedRows(i)[c].synthetic
  PROVE  MergedReplayed(i)
<1>1. plan[i].run \in Runs /\ plan[i].index = manifest[plan[i].run].rows
  BY DEF Tidy, TypeOK, IndexCurrent
<1>2. CASE results[i][c] # NoRow
  BY <1>2 DEF MergedRows, MergedReplayed, SyntheticApart
<1>3. CASE results[i][c] = NoRow /\ hits[i][c] # NoRow
  BY <1>3 DEF MergedRows, SyntheticApart
<1>4. CASE results[i][c] = NoRow /\ hits[i][c] = NoRow
  <2>1. MergedRows(i)[c] = plan[i].index[c]
    BY <1>4 DEF MergedRows
  <2>2. manifest[plan[i].run].replayed
    BY <1>1, <2>1 DEF MarkerSound
  <2>3. plan[i].resume
    BY <2>1, EmptyFacts DEF Tidy
  <2>4. QED BY <2>2, <2>3 DEF MergedReplayed
<1>5. QED BY <1>2, <1>3, <1>4

LEMMA NextMarker ==
  TypeOK /\ Tidy /\ IndexCurrent /\ SyntheticApart /\ MarkerSound /\ [Next]_vars
    => MarkerSound'
<1> SUFFICES ASSUME TypeOK, Tidy, IndexCurrent, SyntheticApart, MarkerSound, [Next]_vars
             PROVE  MarkerSound'
  OBVIOUS
<1>1. CASE UNCHANGED manifest
  BY <1>1 DEF MarkerSound
<1>2. ASSUME NEW i \in Invs, WriteManifest(i) PROVE MarkerSound'
  <2>1. /\ Active(i) /\ plan[i].run \in Runs
        /\ manifest' = [manifest EXCEPT ![plan[i].run] = Merged(i)]
    BY <1>2 DEF WriteManifest, Active, Working, Tidy, TypeOK
  <2>2. \A c \in Cells : MergedRows(i)[c] # NoRow /\ MergedRows(i)[c].synthetic
                          => MergedReplayed(i)
    BY <2>1, MergedMarker
  <2>3. QED BY <2>1, <2>2 DEF MarkerSound, Merged, TypeOK
<1>3. ASSUME NEW i \in Invs, FailWrite(i) PROVE MarkerSound'
  BY <1>3, EmptyFacts DEF FailWrite, MarkerSound, TypeOK
<1>4. QED
  BY <1>1, <1>2, <1>3 DEF Next, vars, StartFresh, StartResume, Begin, Abort, ResolveCache,
     RunCell, StoreResults, Kill, EditFixture

(***************************************************************************)
(* No synthetic row passes for a measurement (run_command, "Never drop the *)
(* synthetic marker on resume"), provided the replay backend is not used   *)
(* with --cache and no two invocations work on one run at a time.          *)
(***************************************************************************)
THEOREM MarkerSoundHolds == ASSUME ReplayApart, ~Overlap PROVE Spec => []MarkerSound
<1>1. Init => TypeOK /\ Tidy /\ IndexCurrent /\ SyntheticApart /\ MarkerSound
  BY InitType, InitTidy, InitIndex, InitSynthetic
<1>2. TypeOK /\ Tidy /\ IndexCurrent /\ SyntheticApart /\ MarkerSound /\ [Next]_vars
        => (TypeOK /\ Tidy /\ IndexCurrent /\ SyntheticApart /\ MarkerSound)'
  BY NextType, NextTidy, NextIndex, NextSynthetic, NextMarker
<1>3. QED BY <1>1, <1>2, PTL DEF Spec

-----------------------------------------------------------------------------
LEMMA InitKeys == Init => KeysTrue
BY EmptyFacts DEF Init, KeysTrue, Active, Working

LEMMA NextKeys ==
  ASSUME LockStates = {TRUE}
  PROVE  TypeOK /\ Tidy /\ KeysTrue /\ [Next]_vars => KeysTrue'
<1> SUFFICES ASSUME TypeOK, Tidy, KeysTrue, [Next]_vars PROVE KeysTrue'
  OBVIOUS
<1> USE DEF Active, Working, ScopeCells
<1>1. CASE UNCHANGED vars
  BY <1>1 DEF KeysTrue, vars
<1>2. ASSUME NEW i \in Invs, NEW r \in Runs, NEW resume \in BOOLEAN, NEW index \in Rows,
             pc[i] = "new", Begin(i, r, resume, index)
      PROVE  KeysTrue'
  <2>1. Began(i, r, resume, index)
    BY <1>2, BeginStep
  <2>2. keyed'[i] = {} /\ hits'[i] = NoRows /\ results'[i] = NoRows
    BY <1>2, <2>1 DEF Began, Tidy
  <2>3. QED BY <2>1, <2>2, EmptyFacts DEF KeysTrue, Began
<1>3. ASSUME NEW i \in Invs, StartFresh(i) \/ StartResume(i) PROVE KeysTrue'
  <2>1. CASE StartFresh(i)
    BY <1>2, <2>1, EmptyTyped DEF StartFresh, IsNext
  <2>2. CASE StartResume(i)
    <3>1. PICK r \in dirs : Begin(i, r, TRUE, manifest[r].rows)
      BY <2>2 DEF StartResume
    <3>2. r \in Runs /\ manifest[r].rows \in Rows
      BY <3>1 DEF TypeOK, Manifest
    <3>3. QED BY <1>2, <2>2, <3>1, <3>2 DEF StartResume, IsNext
  <2>3. QED BY <1>3, <2>1, <2>2
<1>4. ASSUME NEW i \in Invs, Abort(i) PROVE KeysTrue'
  BY <1>4 DEF TypeOK, KeysTrue, Abort
<1>5. ASSUME NEW i \in Invs, ResolveCache(i) PROVE KeysTrue'
  <2>1. PICK K \in SUBSET (ScopeCells(i) \ Completed(plan[i].index)) :
          /\ keyed' = [keyed EXCEPT ![i] = K]
          /\ hits' = [hits EXCEPT ![i] =
               [c \in Cells |->
                  IF c \in K /\ cache[c][KeyHash(i, c)] # NoRow
                  THEN [cache[c][KeyHash(i, c)] EXCEPT !.cached = TRUE]
                  ELSE NoRow]]
    BY <1>5 DEF ResolveCache
  <2>2. \A c \in K : KeyHash(i, c) = content[TaskOf[c]]
    BY <1>5, <2>1 DEF ResolveCache, KeyHash, KeysTrue
  <2>3. \A c \in K : cache[c][KeyHash(i, c)] # NoRow =>
          /\ cache[c][KeyHash(i, c)] \in Row
          /\ cache[c][KeyHash(i, c)].status = "completed"
          /\ cache[c][KeyHash(i, c)].input = content[TaskOf[c]]
    BY <2>2, CellAssumption DEF TypeOK, KeysTrue
  <2>4. \A c \in Cells : hits'[i][c] # NoRow =>
          /\ c \in ScopeCells(i)
          /\ hits'[i][c].status = "completed"
          /\ hits'[i][c].input = content[TaskOf[c]]
    BY <2>1, <2>3 DEF TypeOK, Row
  <2>5. /\ \A j \in Invs \ {i} : hits'[j] = hits[j] /\ keyed'[j] = keyed[j] /\ pc'[j] = pc[j]
        /\ keyed'[i] \subseteq ScopeCells(i)
        /\ UNCHANGED <<plan, cache, results, content>>
    BY <1>5, <2>1 DEF TypeOK, ResolveCache
  <2>6. QED BY <1>5, <2>4, <2>5 DEF KeysTrue, ResolveCache
<1>6. ASSUME NEW i \in Invs, NEW c \in Cells, RunCell(i, c) PROVE KeysTrue'
  <2>1. /\ UNCHANGED <<plan, hits, keyed, cache, pc, content>>
        /\ c \in ScopeCells(i)
    BY <1>6 DEF RunCell, Todo
  <2>2. \A j \in Invs, d \in Cells : j # i \/ d # c => results'[j][d] = results[j][d]
    BY <1>6 DEF TypeOK, Rows, RunCell
  <2>3. results'[i][c].input = content[TaskOf[c]]
    BY <1>6 DEF TypeOK, Rows, RunCell
  <2>4. QED BY <2>1, <2>2, <2>3 DEF KeysTrue
<1>7. ASSUME NEW i \in Invs, StoreResults(i) PROVE KeysTrue'
  <2>1. PICK D \in SUBSET Storable(i) :
          cache' = [c \in Cells |-> [h \in Hashes \cup {NoHash} |->
            IF c \in D /\ h = KeyHash(i, c) THEN results[i][c] ELSE cache[c][h]]]
    BY <1>7 DEF StoreResults
  <2>2. \A c \in D :
          /\ results[i][c].status = "completed"
          /\ results[i][c].input = KeyHash(i, c)
    BY <1>7, <2>1 DEF StoreResults, BatchDone, Storable, Completed, KeyHash, KeysTrue
  <2>3. \A c \in Cells, h \in Hashes \cup {NoHash} : cache'[c][h] # NoRow =>
          cache'[c][h].status = "completed" /\ cache'[c][h].input = h
    BY <2>1, <2>2 DEF KeysTrue
  <2>4. /\ \A j \in Invs \ {i} : pc'[j] = pc[j]
        /\ pc[i] = "exec"
        /\ UNCHANGED <<plan, hits, keyed, results, content>>
    BY <1>7 DEF TypeOK, StoreResults, BatchDone
  <2>5. QED BY <2>3, <2>4 DEF KeysTrue
<1>8. ASSUME NEW i \in Invs, WriteManifest(i) \/ FailWrite(i) \/ Kill(i)
      PROVE  KeysTrue'
  <2>1. Exit(i) /\ UNCHANGED <<cache, content>>
    BY <1>8 DEF WriteManifest, FailWrite, Kill
  <2>2. QED BY <2>1, ExitStep, EmptyFacts DEF KeysTrue
<1>9. ASSUME NEW t \in Tasks, EditFixture(t) PROVE KeysTrue'
  <2>1. \A i \in Invs : hits[i] = NoRows /\ results[i] = NoRows /\ keyed[i] = {}
    BY <1>9 DEF EditFixture, Tidy
  <2>2. QED BY <1>9, <2>1, EmptyFacts DEF KeysTrue, EditFixture
<1>10. QED
  BY <1>1, <1>3, <1>4, <1>5, <1>6, <1>7, <1>8, <1>9 DEF Next

(***************************************************************************)
(* A cache hit is a completed execution on the fixture content on disk     *)
(* (resolve_cache_hits, store_fresh_results), for any overlap, provided    *)
(* fixtures.lock is never malformed and fixtures are edited between runs.  *)
(***************************************************************************)
THEOREM HitsMatchInputsHolds == ASSUME LockStates = {TRUE} PROVE Spec => []HitsMatchInputs
<1>1. Init => TypeOK /\ Tidy /\ KeysTrue
  BY InitType, InitTidy, InitKeys
<1>2. TypeOK /\ Tidy /\ KeysTrue /\ [Next]_vars => (TypeOK /\ Tidy /\ KeysTrue)'
  BY NextType, NextTidy, NextKeys
<1>3. KeysTrue => HitsMatchInputs
  BY DEF KeysTrue, HitsMatchInputs
<1>4. QED BY <1>1, <1>2, <1>3, PTL DEF Spec

(***************************************************************************)
(* The fixture hash in a manifest is the content the rows its writer       *)
(* executed or reused ran on (run_command, write_manifest), under the same *)
(* provisos.                                                               *)
(***************************************************************************)
THEOREM NewRowsAuditedHolds == ASSUME LockStates = {TRUE} PROVE Spec => NewRowsAudited
<1>1. Init => TypeOK /\ Tidy /\ KeysTrue
  BY InitType, InitTidy, InitKeys
<1>2. TypeOK /\ Tidy /\ KeysTrue /\ [Next]_vars => (TypeOK /\ Tidy /\ KeysTrue)'
  BY NextType, NextTidy, NextKeys
<1>3. TypeOK /\ Tidy /\ KeysTrue /\ [Next]_vars =>
        [\A i \in Invs : Writes(i) =>
           \A c \in Recorded(results[i]) \cup Recorded(hits[i]) :
             manifest'[plan[i].run].fixtures[TaskOf[c]]
               = manifest'[plan[i].run].rows[c].input]_vars
  <2> SUFFICES ASSUME TypeOK, KeysTrue, NEW i \in Invs, Writes(i),
                      NEW c \in Recorded(results[i]) \cup Recorded(hits[i])
               PROVE  manifest'[plan[i].run].fixtures[TaskOf[c]]
                        = manifest'[plan[i].run].rows[c].input
    OBVIOUS
  <2>1. c \in Cells /\ c \in ScopeCells(i) /\ MergedRows(i)[c].input = content[TaskOf[c]]
    BY DEF Recorded, KeysTrue, MergedRows
  <2>2. TaskOf[c] \in Tasks /\ plan[i].fixtures[TaskOf[c]] = content[TaskOf[c]]
    BY <2>1, CellAssumption DEF KeysTrue, ScopeCells, Writes, Active, Working
  <2>3. content[TaskOf[c]] # NoHash
    BY <2>2, AbsentAssumption DEF TypeOK
  <2>4. MergedFixtures(i)[TaskOf[c]] = content[TaskOf[c]]
    BY <2>2, <2>3 DEF MergedFixtures
  <2>5. QED BY <2>1, <2>4 DEF Writes, Merged
<1>4. QED BY <1>1, <1>2, <1>3, PTL DEF Spec, NewRowsAudited

-----------------------------------------------------------------------------
\* The ledger of run r, and the refinement mapping.
LedgerOf(r) == [c \in Cells |->
  IF c \in Completed(manifest[r].rows) THEN manifest[r].rows[c] ELSE NoRow]
AllLedgers == [r \in Runs |-> LedgerOf(r)]

LEMMA InitLedger == Init => Ledger!Init
BY EmptyFacts DEF Init, Ledger!Init, Ledger!Empty

LEMMA NextLedger ==
  TypeOK /\ Tidy /\ SkipsCompleted /\ IndexCurrent /\ [Next]_vars
    => [Ledger!Next]_AllLedgers
<1> SUFFICES ASSUME TypeOK, Tidy, SkipsCompleted, IndexCurrent, [Next]_vars
             PROVE  Ledger!Next \/ UNCHANGED AllLedgers
  OBVIOUS
<1>1. CASE UNCHANGED manifest
  BY <1>1 DEF AllLedgers, LedgerOf, Completed
<1>2. ASSUME NEW i \in Invs, WriteManifest(i) PROVE Ledger!Next
  <2>1. PICK r \in Runs : /\ r = plan[i].run /\ Active(i)
                          /\ manifest' = [manifest EXCEPT ![r] = Merged(i)]
    BY <1>2 DEF WriteManifest, Active, Working, Tidy, TypeOK
  <2>2. \A c \in Completed(manifest[r].rows) : MergedRows(i)[c] = manifest[r].rows[c]
    BY <2>1 DEF IndexCurrent, SkipsCompleted, MergedRows, Completed
  <2>3. \A c \in Cells : LedgerOf(r)[c] # NoRow => LedgerOf(r)'[c] = LedgerOf(r)[c]
    BY <2>1, <2>2 DEF LedgerOf, Completed, Merged, TypeOK
  <2>4. \A q \in Runs \ {r} : LedgerOf(q)' = LedgerOf(q)
    BY <2>1 DEF LedgerOf, Completed, TypeOK
  <2>5. AllLedgers' = [AllLedgers EXCEPT ![r] = AllLedgers'[r]]
    BY <2>1, <2>4 DEF AllLedgers
  <2>6. Ledger!Record(r)
    BY <2>1, <2>3, <2>5 DEF Ledger!Record, AllLedgers, LedgerOf
  <2>7. QED BY <2>1, <2>6 DEF Ledger!Next
<1>3. ASSUME NEW i \in Invs, FailWrite(i), ~UNCHANGED manifest PROVE Ledger!Next
  <2>1. PICK r \in Runs : manifest' = [manifest EXCEPT ![r] = Unreadable]
    BY <1>3 DEF FailWrite, Active, Working, Tidy, TypeOK
  <2>2. LedgerOf(r)' = Ledger!Empty
    BY <2>1, EmptyFacts DEF LedgerOf, Ledger!Empty, TypeOK
  <2>3. \A q \in Runs \ {r} : LedgerOf(q)' = LedgerOf(q)
    BY <2>1 DEF LedgerOf, Completed, TypeOK
  <2>4. AllLedgers' = [AllLedgers EXCEPT ![r] = Ledger!Empty]
    BY <2>1, <2>2, <2>3 DEF AllLedgers
  <2>5. Ledger!Lose(r)
    BY <2>4 DEF Ledger!Lose, AllLedgers, LedgerOf
  <2>6. QED BY <2>1, <2>5 DEF Ledger!Next
<1>4. QED
  BY <1>1, <1>2, <1>3 DEF Next, vars, StartFresh, StartResume, Begin, Abort, ResolveCache,
     RunCell, StoreResults, Kill, EditFixture

(***************************************************************************)
(* EvalRun implements RunLedger when no two invocations work on one run at *)
(* a time: a recorded completion is neither lost nor replaced, save by a   *)
(* torn manifest (run_command, write_manifest_dicts, scan_run_results).    *)
(***************************************************************************)
THEOREM ImplementsLedgerHolds == ASSUME ~Overlap PROVE Spec => ImplementsLedger
<1>1. Init => TypeOK /\ Tidy /\ SkipsCompleted /\ IndexCurrent
  BY InitType, InitTidy, InitSkips, InitIndex
<1>2. TypeOK /\ Tidy /\ SkipsCompleted /\ IndexCurrent /\ [Next]_vars
        => (TypeOK /\ Tidy /\ SkipsCompleted /\ IndexCurrent)'
  BY NextType, NextTidy, NextSkips, NextIndex
<1>3. QED
  BY <1>1, <1>2, InitLedger, NextLedger, PTL
     DEF Spec, ImplementsLedger, Ledger!Spec, AllLedgers, LedgerOf

=============================================================================
