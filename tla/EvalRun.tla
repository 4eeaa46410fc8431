------------------------------ MODULE EvalRun ------------------------------
(***************************************************************************)
(* The `run` command (eval/services/orchestrator.py run_command) as a      *)
(* number of invocations that share the results directory: fresh runs,     *)
(* `run --resume`, `run --cache`, the offline replay backend, a process    *)
(* killed at any point.  The state that survives an invocation is the      *)
(* manifest results.json of every run directory and the content-hash       *)
(* cache; everything else lives in the process and is lost with it.        *)
(*                                                                         *)
(* A cell is a (task, variant, epoch, fixture) tuple.  Executing one is a  *)
(* single step with a nondeterministic outcome here: module Schedule opens *)
(* the pool that takes the cells, module RunOne what happens inside one,   *)
(* and module RunCache the files a cache entry is made of.                 *)
(***************************************************************************)
EXTENDS Naturals, FiniteSets

CONSTANTS
  Cells,        \* matrix cells of the whole configuration
  Tasks,        \* tasks; --task picks one, otherwise all; each has one fixture
  TaskOf,       \* the task (and so the fixture) of a cell
  Runs,         \* run ids
  Hashes,       \* contents a fixture directory may have, by content hash
  Modes,        \* backend and --cache combinations users start
  LockStates,   \* may fixtures.lock be readable (TRUE), malformed (FALSE)
  Overlap,      \* may two invocations work on one run directory at a time
  MaxInv,       \* bound: invocations
  MaxActive,    \* bound: invocations working at one time
  MaxEdits,     \* bound: edits of a fixture directory
  NoRun,        \* "not working on any run"
  NoRow,        \* "no row for this cell"
  NoHash        \* "no hash recorded for this fixture"

Invs == 1..MaxInv

Mode == [synthetic : BOOLEAN, cache : BOOLEAN]

\* RunStatus, as far as resume tells statuses apart: "completed" is
\* RunStatus.SUCCESS, "failed" stands for failed, timeout and setup_failed.
Statuses == {"completed", "failed"}

(***************************************************************************)
(* A manifest row (RunResult.to_dict).  `by` is the invocation whose       *)
(* container produced it: with the cell it identifies one execution, which *)
(* the code identifies by test_id.  `input` is the fixture content that    *)
(* execution copied into its workspace and `synthetic` whether the replay  *)
(* backend produced it; the code records neither in the row.               *)
(***************************************************************************)
Row == [status : Statuses, by : Invs, input : Hashes,
        synthetic : BOOLEAN, cached : BOOLEAN]
Rows == [Cells -> Row \cup {NoRow}]

\* results.json; an absent, torn or unreadable file reads as Unreadable.
Manifest == [rows : Rows, replayed : BOOLEAN,
             fixtures : [Tasks -> Hashes \cup {NoHash}]]

NoRows == [c \in Cells |-> NoRow]
Unreadable == [rows |-> NoRows, replayed |-> FALSE,
               fixtures |-> [t \in Tasks |-> NoHash]]

ASSUME CellAssumption == TaskOf \in [Cells -> Tasks]
ASSUME BoundAssumption == MaxInv \in Nat /\ MaxActive \in Nat /\ MaxEdits \in Nat
ASSUME ModeAssumption == Modes \subseteq Mode /\ LockStates \subseteq BOOLEAN /\ Overlap \in BOOLEAN
ASSUME AbsentAssumption == NoRow \notin Row /\ NoHash \notin Hashes /\ NoRun \notin Runs

VARIABLES
  dirs,       \* run directories that exist
  manifest,   \* manifest[r]: what reading results/<r>/results.json yields
  cache,      \* cache[c][h]: the stored row under the key of cell c with fixture hash h
  content,    \* content[t]: what the fixture directory of task t holds now
  edits,      \* edits of fixture directories so far
  pc,         \* control point of every invocation
  plan,       \* what an invocation fixed when it started
  hits,       \* rows it reused from the cache
  keyed,      \* cells it computed a cache key for
  results     \* rows of the cells it executed

vars == <<dirs, manifest, cache, content, edits, pc, plan, hits, keyed, results>>

Working == {"lookup", "exec", "write"}

Plan == [run : Runs \cup {NoRun}, synthetic : BOOLEAN, cache : BOOLEAN, resume : BOOLEAN,
         scope : SUBSET Tasks, fixtures : [Tasks -> Hashes \cup {NoHash}],
         index : Rows]

Completed(rows) == {c \in Cells : rows[c] # NoRow /\ rows[c].status = "completed"}
Recorded(rows) == {c \in Cells : rows[c] # NoRow}

TypeOK ==
  /\ dirs \subseteq Runs
  /\ manifest \in [Runs -> Manifest]
  /\ cache \in [Cells -> [Hashes \cup {NoHash} -> Row \cup {NoRow}]]
  /\ content \in [Tasks -> Hashes]
  /\ edits \in 0..MaxEdits
  /\ pc \in [Invs -> {"new", "ended"} \cup Working]
  /\ plan \in [Invs -> Plan]
  /\ hits \in [Invs -> Rows]
  /\ keyed \in [Invs -> SUBSET Cells]
  /\ results \in [Invs -> Rows]

NoPlan ==
  [run |-> NoRun, synthetic |-> FALSE, cache |-> FALSE,
   resume |-> FALSE, scope |-> {}, fixtures |-> [t \in Tasks |-> NoHash],
   index |-> NoRows]

Init ==
  /\ dirs = {}
  /\ manifest = [r \in Runs |-> Unreadable]
  /\ cache = [c \in Cells |-> [h \in Hashes \cup {NoHash} |-> NoRow]]
  /\ content \in [Tasks -> Hashes]
  /\ edits = 0
  /\ pc = [i \in Invs |-> "new"]
  /\ plan = [i \in Invs |-> NoPlan]
  /\ hits = [i \in Invs |-> NoRows]
  /\ keyed = [i \in Invs |-> {}]
  /\ results = [i \in Invs |-> NoRows]

-----------------------------------------------------------------------------
ScopeCells(i) == {c \in Cells : TaskOf[c] \in plan[i].scope}

\* Mutant: --resume forgets to skip the completed cells.
SkipHitsOnly(i) == Recorded(hits[i])

\* The cells the scheduler leaves out: completed when --resume scanned the
\* manifest, or reused from the cache.
Skip(i) == Completed(plan[i].index) \cup Recorded(hits[i])
Todo(i) == ScopeCells(i) \ Skip(i)

\* Mutant: the fixture content is left out of the cache key.
KeyHashConstant(i, c) == NoHash

\* The fixture part of a cell's cache key; every other input is held constant.
KeyHash(i, c) == plan[i].fixtures[TaskOf[c]]

Active(i) == pc[i] \in Working
Idle(r) == \A i \in Invs : Active(i) => plan[i].run # r

\* Invocations are numbered in the order they start.
IsNext(i) == pc[i] = "new" /\ \A j \in 1..(i - 1) : pc[j] # "new"

\* The process ends and its memory is gone.
Exit(i) ==
  /\ pc' = [pc EXCEPT ![i] = "ended"]
  /\ plan' = [plan EXCEPT ![i] = NoPlan]
  /\ hits' = [hits EXCEPT ![i] = NoRows]
  /\ keyed' = [keyed EXCEPT ![i] = {}]
  /\ results' = [results EXCEPT ![i] = NoRows]

(***************************************************************************)
(* run_command up to the point where work begins.  Fixtures are hashed     *)
(* here, once; a malformed fixtures.lock without --strict-fixtures skips   *)
(* verification and with it the hashing (_verify_fixtures_or_abort).       *)
(***************************************************************************)
Begin(i, r, resume, index) ==
  /\ Cardinality({j \in Invs : Active(j)}) < MaxActive
  /\ \E m \in Modes, S \in SUBSET Tasks \ {{}}, lock \in LockStates :
       /\ plan' = [plan EXCEPT ![i] =
            [run |-> r, synthetic |-> m.synthetic, cache |-> m.cache,
             resume |-> resume, scope |-> S, index |-> index,
             fixtures |-> [t \in Tasks |->
                             IF lock /\ t \in S THEN content[t] ELSE NoHash]]]
       /\ pc' = [pc EXCEPT ![i] = IF m.cache THEN "lookup" ELSE "exec"]
  /\ UNCHANGED <<manifest, cache, content, edits, hits, keyed, results>>

StartFresh(i) ==
  /\ IsNext(i)
  /\ \E r \in Runs \ dirs :
       /\ dirs' = dirs \cup {r}
       /\ Begin(i, r, FALSE, NoRows)

StartResume(i) ==
  /\ IsNext(i)
  /\ \E r \in dirs :
       /\ Overlap \/ Idle(r)
       /\ Begin(i, r, TRUE, manifest[r].rows)
  /\ UNCHANGED dirs

\* --dry-run, a blown budget, an unknown run id, fixture drift under
\* --strict-fixtures, a failed pre-flight: nothing ran, but a fresh run may
\* already have made its directory.
Abort(i) ==
  /\ IsNext(i)
  /\ dirs' \in {dirs} \cup {dirs \cup {r} : r \in Runs}
  /\ pc' = [pc EXCEPT ![i] = "ended"]
  /\ UNCHANGED <<manifest, cache, content, edits, plan, hits, keyed, results>>

\* resolve_cache_hits: K are the cells whose image digest resolved; only they
\* get a key, and those with an entry under it are reused as they are.
ResolveCache(i) ==
  /\ pc[i] = "lookup"
  /\ \E K \in SUBSET (ScopeCells(i) \ Completed(plan[i].index)) :
       /\ keyed' = [keyed EXCEPT ![i] = K]
       /\ hits' = [hits EXCEPT ![i] =
            [c \in Cells |->
               IF c \in K /\ cache[c][KeyHash(i, c)] # NoRow
               THEN [cache[c][KeyHash(i, c)] EXCEPT !.cached = TRUE]
               ELSE NoRow]]
  /\ pc' = [pc EXCEPT ![i] = "exec"]
  /\ UNCHANGED <<dirs, manifest, cache, content, edits, plan, results>>

\* One cell of the batch: _safe_run_one always returns a row, whatever
\* happened in the cell.
RunCell(i, c) ==
  /\ pc[i] = "exec"
  /\ c \in Todo(i)
  /\ results[i][c] = NoRow
  /\ \E s \in Statuses :
       results' = [results EXCEPT ![i][c] =
         [status |-> s, by |-> i, input |-> content[TaskOf[c]],
          synthetic |-> plan[i].synthetic, cached |-> FALSE]]
  /\ UNCHANGED <<dirs, manifest, cache, content, edits, pc, plan, hits, keyed>>

BatchDone(i) == pc[i] = "exec" /\ Todo(i) \subseteq Recorded(results[i])

\* store_fresh_results (keyed[i] is empty without --cache): completed cells
\* only, and only those (D) whose files could be written; the rest is a warning.
Storable(i) == keyed[i] \cap Completed(results[i])

StoreResults(i) ==
  /\ BatchDone(i)
  /\ \E D \in SUBSET Storable(i) :
       cache' = [c \in Cells |-> [h \in Hashes \cup {NoHash} |->
         IF c \in D /\ h = KeyHash(i, c) THEN results[i][c] ELSE cache[c][h]]]
  /\ pc' = [pc EXCEPT ![i] = "write"]
  /\ UNCHANGED <<dirs, manifest, content, edits, plan, hits, keyed, results>>

\* Mutant: the reused rows are not part of the merge.
MergedRowsNoHits(i) ==
  [c \in Cells |-> IF results[i][c] # NoRow THEN results[i][c] ELSE plan[i].index[c]]

\* merge_manifest_runs: this invocation's rows supersede those it scanned.
MergedRows(i) ==
  [c \in Cells |-> IF results[i][c] # NoRow THEN results[i][c]
                   ELSE IF hits[i][c] # NoRow THEN hits[i][c]
                   ELSE plan[i].index[c]]

\* Mutant: the marker of the file is dropped on resume.
MergedReplayedFresh(i) == plan[i].synthetic

\* Mutant: the recorded hash wins over the one just computed.
MergedFixturesOldFirst(i) ==
  [t \in Tasks |-> IF plan[i].resume /\ manifest[plan[i].run].fixtures[t] # NoHash
                   THEN manifest[plan[i].run].fixtures[t]
                   ELSE plan[i].fixtures[t]]

\* The marker and the fixture hashes carried over on resume are read from the
\* file when it is about to be replaced, not when the rows were scanned.
MergedReplayed(i) ==
  plan[i].synthetic \/ (plan[i].resume /\ manifest[plan[i].run].replayed)

MergedFixtures(i) ==
  [t \in Tasks |-> IF plan[i].fixtures[t] # NoHash \/ ~plan[i].resume
                   THEN plan[i].fixtures[t]
                   ELSE manifest[plan[i].run].fixtures[t]]

Merged(i) == [rows |-> MergedRows(i), replayed |-> MergedReplayed(i),
              fixtures |-> MergedFixtures(i)]

WriteManifest(i) ==
  /\ pc[i] = "write"
  /\ manifest' = [manifest EXCEPT ![plan[i].run] = Merged(i)]
  /\ Exit(i)
  /\ UNCHANGED <<dirs, cache, content, edits>>

\* The file is written in place: a full disk or a kill leaves it torn, or
\* opening it failed and it is as before.  An OSError is only a warning.
FailWrite(i) ==
  /\ pc[i] = "write"
  /\ \/ manifest' = [manifest EXCEPT ![plan[i].run] = Unreadable]
     \/ UNCHANGED manifest
  /\ Exit(i)
  /\ UNCHANGED <<dirs, cache, content, edits>>

Kill(i) ==
  /\ Active(i)
  /\ Exit(i)
  /\ UNCHANGED <<dirs, manifest, cache, content, edits>>

\* The user changes a fixture directory while no invocation is working.
EditFixture(t) ==
  /\ edits < MaxEdits
  /\ \A i \in Invs : ~Active(i)
  /\ \E h \in Hashes \ {content[t]} : content' = [content EXCEPT ![t] = h]
  /\ edits' = edits + 1
  /\ UNCHANGED <<dirs, manifest, cache, pc, plan, hits, keyed, results>>

Next ==
  \/ \E i \in Invs :
       \/ StartFresh(i) \/ StartResume(i) \/ Abort(i)
       \/ ResolveCache(i)
       \/ \E c \in Cells : RunCell(i, c)
       \/ StoreResults(i)
       \/ WriteManifest(i) \/ FailWrite(i) \/ Kill(i)
  \/ \E t \in Tasks : EditFixture(t)

Spec == Init /\ [][Next]_vars

-----------------------------------------------------------------------------
Writes(i) == pc[i] = "write" /\ pc'[i] = "ended" /\ manifest'[plan[i].run] = Merged(i)

(***************************************************************************)
(* No completed cell is paid for twice, and none is lost: whatever an      *)
(* invocation found completed when it scanned the manifest it resumes is,  *)
(* verbatim, in the manifest it writes, for any overlap with other         *)
(* invocations (completed_cells, filter_schedule, merge_manifest_runs).    *)
(***************************************************************************)
KeepsCompleted ==
  [][\A i \in Invs : Writes(i) =>
       \A c \in Completed(plan[i].index) :
         manifest'[plan[i].run].rows[c] = plan[i].index[c]]_vars

(***************************************************************************)
(* A manifest covers what was asked for: an invocation that gets as far as *)
(* writing leaves a row for every cell of its scope, executed by it,       *)
(* reused by it or carried over, and no cell its scope does not name is    *)
(* dropped (write_manifest, merge_manifest_runs).                          *)
(***************************************************************************)
CoversMatrix ==
  [][\A i \in Invs : Writes(i) =>
       ScopeCells(i) \cup Recorded(plan[i].index)
         = Recorded(manifest'[plan[i].run].rows)]_vars

(***************************************************************************)
(* A synthetic row can not pass for a measurement: while a manifest holds  *)
(* a row the replay backend produced, its `replayed` marker is set         *)
(* (run_command "Never drop the synthetic marker on resume").  Holds while *)
(* replayed runs stay away from --cache and resumes of a run do not        *)
(* overlap; findings and hazards name what happens otherwise.              *)
(***************************************************************************)
MarkerSound ==
  \A r \in Runs, c \in Cells :
    manifest[r].rows[c] # NoRow /\ manifest[r].rows[c].synthetic => manifest[r].replayed

(***************************************************************************)
(* A cache hit is the result of the same inputs: the reused execution ran  *)
(* to completion on the fixture content that is on disk now                *)
(* (CacheKeyInputs: "every input that must match").                        *)
(***************************************************************************)
HitsMatchInputs ==
  \A i \in Invs, c \in Cells : hits[i][c] # NoRow =>
    /\ hits[i][c].status = "completed"
    /\ hits[i][c].input = content[TaskOf[c]]

(***************************************************************************)
(* The audit record names what was consumed: the fixture hash a manifest   *)
(* gets is the content every row this invocation executed or reused ran    *)
(* on (run_command, write_manifest `fixtures`).                            *)
(***************************************************************************)
NewRowsAudited ==
  [][\A i \in Invs : Writes(i) =>
       \A c \in Recorded(results[i]) \cup Recorded(hits[i]) :
         manifest'[plan[i].run].fixtures[TaskOf[c]]
           = manifest'[plan[i].run].rows[c].input]_vars

\* The completed rows of every manifest are a ledger (module RunLedger).
Ledger == INSTANCE RunLedger WITH
  ledger <- [r \in Runs |-> [c \in Cells |->
               IF c \in Completed(manifest[r].rows) THEN manifest[r].rows[c] ELSE NoRow]]

(***************************************************************************)
(* Completions are only ever added to a run, except that a torn manifest   *)
(* empties it: EvalRun implements RunLedger when no two invocations work   *)
(* on one run at a time.                                                   *)
(***************************************************************************)
ImplementsLedger == Ledger!Spec

-----------------------------------------------------------------------------
(***************************************************************************)
(* The inductive invariants the theorems of EvalRun_proofs rest on.        *)
(***************************************************************************)

\* A process that is not running holds nothing, one that is works in a
\* directory that exists; a fresh one scanned nothing; a run id without a
\* directory has no manifest.
Tidy ==
  /\ \A i \in Invs : ~Active(i) =>
       plan[i] = NoPlan /\ hits[i] = NoRows /\ keyed[i] = {} /\ results[i] = NoRows
  /\ \A i \in Invs : Active(i) => plan[i].run \in dirs
  /\ \A i \in Invs : ~plan[i].resume => plan[i].index = NoRows
  /\ \A r \in Runs \ dirs : manifest[r] = Unreadable

\* What the scan found completed is neither looked up in the cache nor run.
SkipsCompleted ==
  \A i \in Invs : \A c \in Completed(plan[i].index) :
    c \notin keyed[i] /\ hits[i][c] = NoRow /\ results[i][c] = NoRow

\* Without overlap, each run has one process and the scan stays current.
IndexCurrent ==
  /\ \A i, j \in Invs : i # j /\ Active(i) /\ Active(j) => plan[i].run # plan[j].run
  /\ \A i \in Invs : Active(i) => plan[i].index = manifest[plan[i].run].rows

\* While replay stays away from --cache, only replayed processes hold
\* synthetic rows of their own and the cache holds none.
SyntheticApart ==
  /\ \A i \in Invs : ~(plan[i].synthetic /\ plan[i].cache)
  /\ \A i \in Invs : ~plan[i].cache => keyed[i] = {}
  /\ \A i \in Invs : pc[i] = "lookup" => plan[i].cache
  /\ \A i \in Invs, c \in Cells :
       /\ results[i][c] # NoRow /\ results[i][c].synthetic => plan[i].synthetic
       /\ hits[i][c] # NoRow => ~hits[i][c].synthetic
  /\ \A c \in Cells, h \in Hashes \cup {NoHash} :
       cache[c][h] # NoRow => ~cache[c][h].synthetic

\* While fixtures.lock is readable, keys are made of the content on disk, and
\* an entry holds a completed execution on the content its key names.
KeysTrue ==
  /\ \A i \in Invs : Active(i) =>
       \A t \in plan[i].scope : plan[i].fixtures[t] = content[t]
  /\ \A i \in Invs : keyed[i] \subseteq ScopeCells(i)
  /\ \A i \in Invs, c \in Cells : results[i][c] # NoRow =>
       c \in ScopeCells(i) /\ results[i][c].input = content[TaskOf[c]]
  /\ \A c \in Cells, h \in Hashes \cup {NoHash} : cache[c][h] # NoRow =>
       cache[c][h].status = "completed" /\ cache[c][h].input = h
  /\ \A i \in Invs, c \in Cells : hits[i][c] # NoRow =>
       /\ c \in ScopeCells(i)
       /\ hits[i][c].status = "completed" /\ hits[i][c].input = content[TaskOf[c]]

=============================================================================
