------------------------------ MODULE RunCache ------------------------------
(***************************************************************************)
(* The files behind `run --cache` (eval/services/cache_service.py): what a *)
(* cache entry and the run directories hold of one matrix cell, copied     *)
(* artifact by artifact by processes that may be killed at any point, and  *)
(* without a lock.  Entries of different keys share nothing, so there is   *)
(* one key here, whose inputs stay as they are.                            *)
(*                                                                         *)
(* A process is one `run`; it executes the cell at most once, and so also  *)
(* names that execution (the code's test_id).                              *)
(***************************************************************************)
EXTENDS Naturals, Sequences, FiniteSets

CONSTANTS
  Artifacts,   \* the artifacts of a cell in the order _cell_artifact_paths lists them
  Runs,        \* run ids
  MaxProcs,    \* bound: processes
  MaxActive,   \* bound: processes at work at one time
  Nothing,     \* no such file, no such row
  Torn         \* a result.json that does not parse

Procs == 1..MaxProcs

ASSUME ArtifactsAssumption ==
  Artifacts \in Seq({"log", "scores", "outputs", "trace"}) /\ "log" \in {Artifacts[n] : n \in DOMAIN Artifacts}
ASSUME BoundAssumption == MaxProcs \in Nat \ {0} /\ MaxActive \in Nat
ASSUME NothingAssumption ==
  Nothing \notin Procs /\ Torn \notin Procs /\ Nothing # Torn /\ Nothing \notin Runs

Slots == {Artifacts[n] : n \in DOMAIN Artifacts}

(***************************************************************************)
(* A slot holds fragments: <<e, TRUE>> is all that execution e wrote       *)
(* there, <<e, FALSE>> a part of it.  The empty set is an absent file.     *)
(***************************************************************************)
Fragments == Procs \X BOOLEAN
Of(fragments) == {f[1] : f \in fragments}

VARIABLES
  entry,      \* entry[s]: <cache_dir>/<key>/artifacts
  result,     \* <cache_dir>/<key>/result.json, as the execution it describes
  dirs,       \* dirs[r][s]: results/<r>
  row,        \* row[r]: execution of the completed row in results/<r>/results.json
  wrote,      \* wrote[e]: slots execution e filled, {} unless it completed
  pc,         \* control point of a process
  plan,       \* its run directory, whether it resumes it, whether the cell has a key
  hit,        \* the execution it reuses
  todo        \* artifacts it has yet to copy, by their places in Artifacts

vars == <<entry, result, dirs, row, wrote, pc, plan, hit, todo>>

Busy == {"lookup", "materialize", "materializing", "exec", "store", "storing",
         "commit", "committing", "manifest"}

Plan == [run : Runs \cup {Nothing}, resume : BOOLEAN, keyed : BOOLEAN]

TypeOK ==
  /\ entry \in [Slots -> SUBSET Fragments]
  /\ result \in Procs \cup {Nothing, Torn}
  /\ dirs \in [Runs -> [Slots -> SUBSET Fragments]]
  /\ row \in [Runs -> Procs \cup {Nothing}]
  /\ wrote \in [Procs -> SUBSET Slots]
  /\ pc \in [Procs -> {"new", "ended"} \cup Busy]
  /\ plan \in [Procs -> Plan]
  /\ hit \in [Procs -> Procs \cup {Nothing}]
  /\ todo \in [Procs -> SUBSET DOMAIN Artifacts]

Empty == [s \in Slots |-> {}]

Init ==
  /\ entry = Empty /\ result = Nothing
  /\ dirs = [r \in Runs |-> Empty]
  /\ row = [r \in Runs |-> Nothing]
  /\ wrote = [p \in Procs |-> {}]
  /\ pc = [p \in Procs |-> "new"]
  /\ plan = [p \in Procs |-> [run |-> Nothing, resume |-> FALSE, keyed |-> FALSE]]
  /\ hit = [p \in Procs |-> Nothing]
  /\ todo = [p \in Procs |-> {}]

-----------------------------------------------------------------------------
Active(p) == pc[p] \in Busy
Used == {plan[p].run : p \in {q \in Procs : pc[q] # "new"}}
Home(p) == dirs[plan[p].run]

Goto(p, from, to) == pc[p] = from /\ pc' = [pc EXCEPT ![p] = to]

\* The artifacts that exist in a directory, listed once before any is copied.
Present(dir) == {n \in DOMAIN Artifacts : dir[Artifacts[n]] # {}}
IsNext(n, p) == n \in todo[p] /\ \A m \in todo[p] : n <= m

\* Copying slot s of `from` over `to`, half way and all the way: a file is
\* replaced, the outputs directory is merged (copytree with dirs_exist_ok).
Keep(s, to, from) ==
  IF s = "outputs" THEN {f \in to[s] : f[1] \notin Of(from[s])} ELSE {}
HalfCopied(s, to, from) ==
  [to EXCEPT ![s] = Keep(s, to, from) \cup {<<e, FALSE>> : e \in Of(from[s])}]
Copied(s, to, from) == [to EXCEPT ![s] = Keep(s, to, from) \cup from[s]]

\* A new run, or a resume of one where the cell is not completed; resumes of
\* one run do not overlap here (module EvalRun has those).
Begin(p) ==
  /\ pc[p] = "new" /\ \A q \in 1..(p - 1) : pc[q] # "new"
  /\ Cardinality({q \in Procs : Active(q)}) < MaxActive
  /\ \E r \in Runs, keyed \in BOOLEAN :
       /\ r \in Used => row[r] = Nothing
       /\ \A q \in Procs : Active(q) => plan[q].run # r
       /\ plan' = [plan EXCEPT ![p] = [run |-> r, resume |-> r \in Used, keyed |-> keyed]]
       /\ pc' = [pc EXCEPT ![p] = IF keyed THEN "lookup" ELSE "exec"]
  /\ UNCHANGED <<entry, result, dirs, row, wrote, hit, todo>>

\* An absent or unreadable result.json is a miss.
Readable == result \in Procs

Lookup(p) ==
  /\ IF Readable
     THEN /\ Goto(p, "lookup", "materialize")
          /\ hit' = [hit EXCEPT ![p] = result]
          /\ todo' = [todo EXCEPT ![p] = Present(entry)]
     ELSE Goto(p, "lookup", "exec") /\ UNCHANGED <<hit, todo>>
  /\ UNCHANGED <<entry, result, dirs, row, wrote, plan>>

BeginMaterialize(p) ==
  /\ Goto(p, "materialize", "materializing")
  /\ \E n \in DOMAIN Artifacts :
       /\ IsNext(n, p)
       /\ dirs' = [dirs EXCEPT ![plan[p].run] = HalfCopied(Artifacts[n], Home(p), entry)]
  /\ UNCHANGED <<entry, result, row, wrote, plan, hit, todo>>

EndMaterialize(p) ==
  /\ Goto(p, "materializing", "materialize")
  /\ \E n \in DOMAIN Artifacts :
       /\ IsNext(n, p)
       /\ dirs' = [dirs EXCEPT ![plan[p].run] = Copied(Artifacts[n], Home(p), entry)]
       /\ todo' = [todo EXCEPT ![p] = @ \ {n}]
  /\ UNCHANGED <<entry, result, row, wrote, plan, hit>>

\* Mutant: the reused rows are stored back with the fresh ones.
ReuseStores(p) ==
  /\ todo[p] = {}
  /\ Goto(p, "materialize", "store")
  /\ todo' = [todo EXCEPT ![p] = Present(Home(p))]
  /\ UNCHANGED <<entry, result, dirs, row, wrote, plan, hit>>

\* The row is rebuilt from result.json; the scheduler skips the cell, and
\* store_fresh_results does not see it.
Reuse(p) ==
  /\ todo[p] = {}
  /\ Goto(p, "materialize", "manifest")
  /\ UNCHANGED <<entry, result, dirs, row, wrote, plan, hit, todo>>

\* What an execution that wrote slots W leaves in its run directory: the log
\* is appended to, outputs are merged, scores and trace replaced.
Written(p, W, whole) ==
  [s \in Slots |-> IF s \notin W THEN Home(p)[s]
                   ELSE {<<p, whole>>} \cup
                        (IF s \in {"log", "outputs"} THEN Home(p)[s] ELSE {})]

\* The cell ran to completion; there may be no evaluator, output or trace.
Complete(p) ==
  /\ Goto(p, "exec", IF plan[p].keyed THEN "store" ELSE "manifest")
  /\ \E W \in SUBSET Slots :
       /\ "log" \in W
       /\ dirs' = [dirs EXCEPT ![plan[p].run] = Written(p, W, TRUE)]
       /\ wrote' = [wrote EXCEPT ![p] = W]
       /\ todo' = [todo EXCEPT ![p] = Present(dirs'[plan[p].run])]
  /\ UNCHANGED <<entry, result, row, plan, hit>>

\* Any other status is never stored.
Fail(p) ==
  /\ Goto(p, "exec", "manifest")
  /\ \E W \in SUBSET Slots : dirs' = [dirs EXCEPT ![plan[p].run] = Written(p, W, TRUE)]
  /\ UNCHANGED <<entry, result, row, wrote, plan, hit, todo>>

BeginStore(p) ==
  /\ Goto(p, "store", "storing")
  /\ \E n \in DOMAIN Artifacts :
       IsNext(n, p) /\ entry' = HalfCopied(Artifacts[n], entry, Home(p))
  /\ UNCHANGED <<result, dirs, row, wrote, plan, hit, todo>>

EndStore(p) ==
  /\ Goto(p, "storing", "store")
  /\ \E n \in DOMAIN Artifacts :
       /\ IsNext(n, p)
       /\ entry' = Copied(Artifacts[n], entry, Home(p))
       /\ todo' = [todo EXCEPT ![p] = @ \ {n}]
  /\ UNCHANGED <<result, dirs, row, wrote, plan, hit>>

\* Mutant: result.json is written before the artifacts are.
CommitFirst(p) == TRUE

AllStored(p) == todo[p] = {}

\* result.json is opened and truncated, then written; meta.json, written after
\* it, is never read.
BeginCommit(p) ==
  /\ AllStored(p)
  /\ Goto(p, "store", "committing")
  /\ result' = Torn
  /\ UNCHANGED <<entry, dirs, row, wrote, plan, hit, todo>>

EndCommit(p) ==
  /\ Goto(p, "committing", "manifest")
  /\ result' = p
  /\ todo' = [todo EXCEPT ![p] = {}]
  /\ UNCHANGED <<entry, dirs, row, wrote, plan, hit>>

\* An OSError while storing is a warning; the rest of the store is left out.
AbandonStore(p) ==
  /\ pc[p] \in {"store", "storing", "committing"}
  /\ pc' = [pc EXCEPT ![p] = "manifest"]
  /\ todo' = [todo EXCEPT ![p] = {}]
  /\ UNCHANGED <<entry, result, dirs, row, wrote, plan, hit>>

Outcome(p) == IF hit[p] # Nothing THEN hit[p]
              ELSE IF wrote[p] # {} THEN p ELSE Nothing

\* The memory of the process is gone; its run directory stays.
Exit(p) ==
  /\ pc' = [pc EXCEPT ![p] = "ended"]
  /\ plan' = [plan EXCEPT ![p] = [run |-> @.run, resume |-> FALSE, keyed |-> FALSE]]
  /\ hit' = [hit EXCEPT ![p] = Nothing]
  /\ todo' = [todo EXCEPT ![p] = {}]

WriteManifest(p) ==
  /\ pc[p] = "manifest"
  /\ row' = [row EXCEPT ![plan[p].run] = Outcome(p)]
  /\ Exit(p)
  /\ UNCHANGED <<entry, result, dirs, wrote>>

\* A kill, an OSError while materializing (not caught), a manifest that could
\* not be written; a killed execution leaves parts of its files.
Die(p) ==
  /\ Active(p)
  /\ Exit(p)
  /\ IF pc[p] = "exec"
     THEN \E W \in SUBSET Slots : dirs' = [dirs EXCEPT ![plan[p].run] = Written(p, W, FALSE)]
     ELSE UNCHANGED dirs
  /\ UNCHANGED <<entry, result, row, wrote>>

Next == \E p \in Procs :
  \/ Begin(p) \/ Lookup(p)
  \/ BeginMaterialize(p) \/ EndMaterialize(p) \/ Reuse(p)
  \/ Complete(p) \/ Fail(p)
  \/ BeginStore(p) \/ EndStore(p) \/ BeginCommit(p) \/ EndCommit(p) \/ AbandonStore(p)
  \/ WriteManifest(p) \/ Die(p)

Spec == Init /\ [][Next]_vars

-----------------------------------------------------------------------------
(***************************************************************************)
(* A completed row is backed by its artifacts: whether the run executed    *)
(* the cell or reused it, everything the row's execution wrote is whole in *)
(* the directory of that run, and that execution completed.  This makes    *)
(* result.json, written last, the commit point of an entry (RunCache.store *)
(* and materialize) when stores of one key do not overlap.                 *)
(***************************************************************************)
RowsBacked ==
  \A r \in Runs : row[r] # Nothing =>
    /\ wrote[row[r]] # {}
    /\ \A s \in wrote[row[r]] : <<row[r], TRUE>> \in dirs[r][s]

(***************************************************************************)
(* Reuse freezes an entry: once it can be hit it is never written again,   *)
(* so every later run gets the same execution (resolve_cache_hits skips    *)
(* hits, store_fresh_results only stores misses).                          *)
(***************************************************************************)
EntryFrozen ==
  [][(result \in Procs) => UNCHANGED <<result, entry>>]_vars

=============================================================================
