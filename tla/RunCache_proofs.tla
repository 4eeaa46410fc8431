-------------------------- MODULE RunCache_proofs ---------------------------
(***************************************************************************)
(* Theorems about module RunCache, for any artifacts, runs and number of   *)
(* processes: types hold whatever the processes do; that rows are backed   *)
(* and entries frozen needs processes that do not overlap (MaxActive = 1), *)
(* because the code takes no lock and resolves hits before it stores.      *)
(***************************************************************************)
EXTENDS RunCache, FiniteSetTheorems, TLAPS

USE DEF Procs

-----------------------------------------------------------------------------
(***************************************************************************)
(* The inductive invariant.  Everything turns on the copies: a slot that   *)
(* is no longer to be copied holds the whole of what is copied.            *)
(***************************************************************************)
Alone == \A p, q \in Procs : Active(p) /\ Active(q) => p = q

ToCopy(p, s) == \E n \in todo[p] : Artifacts[n] = s
Whole(e, dir) == \A s \in wrote[e] : <<e, TRUE>> \in dir[s]

\* What is known of a process from where it is.
Placed(p) ==
  /\ pc[p] # "new" => plan[p].run \in Runs
  /\ Active(p) => row[plan[p].run] = Nothing
  /\ pc[p] \in {"new", "lookup", "materialize", "materializing", "exec"} => wrote[p] = {}
  /\ hit[p] # Nothing => pc[p] \in {"materialize", "materializing", "manifest"}

\* A run directory with a completed row is one that some process has used.
RowsUsed == \A r \in Runs : row[r] # Nothing => r \in Used

\* Who is going to store has missed.
Missed(p) ==
  pc[p] \in {"store", "storing", "committing"} \/ (pc[p] = "exec" /\ plan[p].keyed)
    => result \notin Procs

Committed == result \in Procs => wrote[result] # {} /\ Whole(result, entry)

Storing(p) ==
  pc[p] \in {"store", "storing", "committing"} =>
    /\ wrote[p] # {} /\ Whole(p, Home(p))
    /\ \A s \in wrote[p] : ToCopy(p, s) \/ <<p, TRUE>> \in entry[s]
    /\ pc[p] = "committing" => todo[p] = {}

Reusing(p) ==
  pc[p] \in {"materialize", "materializing"} =>
    /\ result \in Procs /\ hit[p] = result
    /\ \A s \in wrote[result] : ToCopy(p, s) \/ <<result, TRUE>> \in Home(p)[s]

Closing(p) ==
  pc[p] = "manifest" /\ Outcome(p) # Nothing =>
    wrote[Outcome(p)] # {} /\ Whole(Outcome(p), Home(p))

Backed ==
  /\ Alone /\ RowsUsed /\ Committed /\ RowsBacked
  /\ \A p \in Procs : Placed(p) /\ Missed(p) /\ Storing(p) /\ Reusing(p) /\ Closing(p)

-----------------------------------------------------------------------------
(***************************************************************************)
(* Types                                                                   *)
(***************************************************************************)
Directory == [Slots -> SUBSET Fragments]

LEMMA HalfCopiedType ==
  ASSUME NEW n \in DOMAIN Artifacts, NEW to \in Directory, NEW from \in Directory
  PROVE  HalfCopied(Artifacts[n], to, from) \in Directory
<1> DEFINE s == Artifacts[n]
<1>1. s \in Slots
  BY DEF Slots
<1>2. Of(from[s]) \subseteq Procs
  BY <1>1 DEF Of, Directory, Fragments
<1>3. \A e \in Of(from[s]) : <<e, FALSE>> \in Fragments
  BY <1>2 DEF Fragments
<1>4. Keep(s, to, from) \in SUBSET Fragments
  BY <1>1 DEF Keep, Directory
<1>5. Keep(s, to, from) \cup {<<e, FALSE>> : e \in Of(from[s])} \in SUBSET Fragments
  BY <1>3, <1>4
<1>6. QED BY <1>1, <1>5 DEF HalfCopied, Directory

LEMMA CopiedType ==
  ASSUME NEW n \in DOMAIN Artifacts, NEW to \in Directory, NEW from \in Directory
  PROVE  Copied(Artifacts[n], to, from) \in Directory
BY DEF Slots, Keep, Copied, Directory

LEMMA WrittenType ==
  ASSUME TypeOK, NEW p \in Procs, plan[p].run \in Runs,
         NEW W \in SUBSET Slots, NEW whole \in BOOLEAN
  PROVE  Written(p, W, whole) \in Directory
BY DEF TypeOK, Written, Home, Directory, Fragments

LEMMA PresentType == ASSUME NEW dir PROVE Present(dir) \in SUBSET DOMAIN Artifacts
BY DEF Present

\* A process that has begun has a run directory.
Housed == \A p \in Procs : pc[p] # "new" => plan[p].run \in Runs
Typed == TypeOK /\ Housed

LEMMA InitType == Init => Typed
BY NothingAssumption DEF Init, Typed, TypeOK, Housed, Empty, Plan

LEMMA ExitType ==
  ASSUME Typed, NEW p \in Procs, pc[p] # "new", Exit(p)
  PROVE  /\ pc' \in [Procs -> {"new", "ended"} \cup Busy]
         /\ plan' \in [Procs -> Plan]
         /\ hit' \in [Procs -> Procs \cup {Nothing}]
         /\ todo' \in [Procs -> SUBSET DOMAIN Artifacts]
         /\ Housed'
<1>1. plan[p].run \in Runs
  BY DEF Typed, Housed
<1>2. [run |-> plan[p].run, resume |-> FALSE, keyed |-> FALSE] \in Plan
  BY <1>1 DEF Plan
<1>3. QED BY <1>1, <1>2 DEF Typed, TypeOK, Housed, Exit

LEMMA NextType == Typed /\ [Next]_vars => Typed'
<1> SUFFICES ASSUME Typed, [Next]_vars PROVE Typed'
  OBVIOUS
<1> USE DEF Typed
<1>1. CASE UNCHANGED vars
  BY <1>1 DEF TypeOK, Housed, vars
<1>2. ASSUME NEW p \in Procs, Begin(p) PROVE Typed'
  <2>1. PICK r \in Runs, keyed \in BOOLEAN :
          /\ plan' = [plan EXCEPT ![p] = [run |-> r, resume |-> r \in Used, keyed |-> keyed]]
          /\ pc' = [pc EXCEPT ![p] = IF keyed THEN "lookup" ELSE "exec"]
    BY <1>2 DEF Begin
  <2>2. (r \in Used) \in BOOLEAN
    BY DEF Used
  <2>3. [run |-> r, resume |-> r \in Used, keyed |-> keyed] \in Plan
    BY <2>2 DEF Plan
  <2>4. QED BY <1>2, <2>1, <2>3 DEF TypeOK, Housed, Begin, Busy
<1>3. ASSUME NEW p \in Procs, Lookup(p) PROVE Typed'
  <2>1. hit' \in [Procs -> Procs \cup {Nothing}]
    BY <1>3 DEF TypeOK, Lookup, Readable
  <2>2. todo' \in [Procs -> SUBSET DOMAIN Artifacts]
    BY <1>3, PresentType DEF TypeOK, Lookup
  <2>3. pc' \in [Procs -> {"new", "ended"} \cup Busy] /\ Housed'
    BY <1>3 DEF TypeOK, Housed, Lookup, Goto, Busy
  <2>4. QED BY <1>3, <2>1, <2>2, <2>3 DEF TypeOK, Lookup
<1>4. ASSUME NEW p \in Procs, BeginMaterialize(p) PROVE Typed'
  <2>1. plan[p].run \in Runs
    BY <1>4 DEF Housed, BeginMaterialize, Goto
  <2>2. Home(p) \in Directory /\ entry \in Directory
    BY <2>1 DEF TypeOK, Home, Directory
  <2>3. PICK n \in DOMAIN Artifacts :
          dirs' = [dirs EXCEPT ![plan[p].run] = HalfCopied(Artifacts[n], Home(p), entry)]
    BY <1>4 DEF BeginMaterialize
  <2>4. dirs' \in [Runs -> Directory]
    BY <2>1, <2>2, <2>3, HalfCopiedType DEF TypeOK, Directory
  <2>5. QED BY <1>4, <2>4 DEF TypeOK, Housed, BeginMaterialize, Goto, Busy, Directory
<1>5. ASSUME NEW p \in Procs, EndMaterialize(p) PROVE Typed'
  <2>1. plan[p].run \in Runs
    BY <1>5 DEF Housed, EndMaterialize, Goto
  <2>2. Home(p) \in Directory /\ entry \in Directory
    BY <2>1 DEF TypeOK, Home, Directory
  <2>3. PICK n \in DOMAIN Artifacts :
          /\ dirs' = [dirs EXCEPT ![plan[p].run] = Copied(Artifacts[n], Home(p), entry)]
          /\ todo' = [todo EXCEPT ![p] = @ \ {n}]
    BY <1>5 DEF EndMaterialize
  <2>4. dirs' \in [Runs -> Directory]
    BY <2>1, <2>2, <2>3, CopiedType DEF TypeOK, Directory
  <2>5. QED BY <1>5, <2>3, <2>4 DEF TypeOK, Housed, EndMaterialize, Goto, Busy, Directory
<1>6. ASSUME NEW p \in Procs, Reuse(p) PROVE Typed'
  BY <1>6 DEF TypeOK, Housed, Reuse, Goto, Busy
<1>7. ASSUME NEW p \in Procs, Complete(p) PROVE Typed'
  <2>1. plan[p].run \in Runs
    BY <1>7 DEF Housed, Complete, Goto
  <2>2. PICK W \in SUBSET Slots :
          /\ dirs' = [dirs EXCEPT ![plan[p].run] = Written(p, W, TRUE)]
          /\ wrote' = [wrote EXCEPT ![p] = W]
          /\ todo' = [todo EXCEPT ![p] = Present(dirs'[plan[p].run])]
    BY <1>7 DEF Complete
  <2>3. dirs' \in [Runs -> Directory]
    BY <2>1, <2>2, WrittenType DEF TypeOK, Directory
  <2>4. QED BY <1>7, <2>2, <2>3, PresentType
         DEF TypeOK, Housed, Complete, Goto, Busy, Directory
<1>8. ASSUME NEW p \in Procs, Fail(p) PROVE Typed'
  <2>1. plan[p].run \in Runs
    BY <1>8 DEF Housed, Fail, Goto
  <2>2. PICK W \in SUBSET Slots : dirs' = [dirs EXCEPT ![plan[p].run] = Written(p, W, TRUE)]
    BY <1>8 DEF Fail
  <2>3. dirs' \in [Runs -> Directory]
    BY <2>1, <2>2, WrittenType DEF TypeOK, Directory
  <2>4. QED BY <1>8, <2>3 DEF TypeOK, Housed, Fail, Goto, Busy, Directory
<1>9. ASSUME NEW p \in Procs, BeginStore(p) PROVE Typed'
  <2>1. Home(p) \in Directory /\ entry \in Directory
    BY <1>9 DEF TypeOK, Housed, Home, Directory, BeginStore, Goto
  <2>2. entry' \in Directory
    BY <1>9, <2>1, HalfCopiedType DEF BeginStore
  <2>3. QED BY <1>9, <2>2 DEF TypeOK, Housed, BeginStore, Goto, Busy, Directory
<1>10. ASSUME NEW p \in Procs, EndStore(p) PROVE Typed'
  <2>1. Home(p) \in Directory /\ entry \in Directory
    BY <1>10 DEF TypeOK, Housed, Home, Directory, EndStore, Goto
  <2>2. entry' \in Directory
    BY <1>10, <2>1, CopiedType DEF EndStore
  <2>3. QED BY <1>10, <2>2 DEF TypeOK, Housed, EndStore, Goto, Busy, Directory
<1>11. ASSUME NEW p \in Procs, BeginCommit(p) PROVE Typed'
  BY <1>11 DEF TypeOK, Housed, BeginCommit, Goto, Busy
<1>12. ASSUME NEW p \in Procs, EndCommit(p) PROVE Typed'
  BY <1>12 DEF TypeOK, Housed, EndCommit, Goto, Busy
<1>13. ASSUME NEW p \in Procs, AbandonStore(p) PROVE Typed'
  BY <1>13 DEF TypeOK, Housed, AbandonStore, Busy
<1>14. ASSUME NEW p \in Procs, WriteManifest(p) PROVE Typed'
  <2>1. pc[p] # "new" /\ Exit(p)
    BY <1>14 DEF WriteManifest
  <2>2. Outcome(p) \in Procs \cup {Nothing}
    BY DEF TypeOK, Outcome
  <2>3. row' \in [Runs -> Procs \cup {Nothing}]
    BY <1>14, <2>2 DEF TypeOK, WriteManifest
  <2>4. QED BY <1>14, <2>1, <2>3, ExitType DEF TypeOK, WriteManifest
<1>15. ASSUME NEW p \in Procs, Die(p) PROVE Typed'
  <2>1. pc[p] # "new" /\ Exit(p)
    BY <1>15 DEF Die, Active, Busy
  <2>2. plan[p].run \in Runs
    BY <2>1 DEF Housed
  <2>3. dirs' \in [Runs -> Directory]
    <3>1. CASE pc[p] = "exec"
      <4>1. PICK W \in SUBSET Slots : dirs' = [dirs EXCEPT ![plan[p].run] = Written(p, W, FALSE)]
        BY <1>15, <3>1 DEF Die
      <4>2. QED BY <2>2, <4>1, WrittenType DEF TypeOK, Directory
    <3>2. CASE pc[p] # "exec"
      BY <1>15, <3>2 DEF TypeOK, Die, Directory
    <3>3. QED BY <3>1, <3>2
  <2>4. QED BY <1>15, <2>1, <2>3, ExitType DEF TypeOK, Die, Directory
<1>16. QED BY <1>1, <1>2, <1>3, <1>4, <1>5, <1>6, <1>7, <1>8, <1>9, <1>10, <1>11,
              <1>12, <1>13, <1>14, <1>15 DEF Next

(***************************************************************************)
(* Whatever the processes do, overlapping or not, the variables have their *)
(* types, and a process that has begun has a run directory.                *)
(***************************************************************************)
THEOREM TypeCorrect == Spec => []TypeOK
<1>1. Typed => TypeOK
  BY DEF Typed
<1>2. QED BY <1>1, InitType, NextType, PTL DEF Spec

-----------------------------------------------------------------------------
(***************************************************************************)
(* What a step of p leaves alone                                           *)
(***************************************************************************)
Untouched(q) ==
  pc'[q] = pc[q] /\ plan'[q] = plan[q] /\ wrote'[q] = wrote[q] /\ hit'[q] = hit[q]

Part(p) == Placed(p) /\ Missed(p) /\ Storing(p) /\ Reusing(p) /\ Closing(p)

\* Whom a step does not touch keeps its part of the invariant, while one process is active.
LEMMA Bystanders ==
  ASSUME Typed, Backed, NEW p \in Procs, Active(p),
         \A q \in Procs \ {p} : Untouched(q)
  PROVE  Alone' /\ \A q \in Procs \ {p} : Part(q)'
<1>1. \A q \in Procs \ {p} : ~ Active(q)
  BY DEF Backed, Alone
<1>2. \A q \in Procs \ {p} : ~ Active(q)'
  BY <1>1 DEF Active, Untouched
<1>3. Alone'
  BY <1>2 DEF Alone
<1>4. ASSUME NEW q \in Procs \ {p} PROVE Part(q)'
  <2>1. pc[q] \notin Busy /\ pc'[q] \notin Busy /\ Placed(q)
    BY <1>1, <1>2 DEF Active, Backed
  <2>2. Placed(q)'
    BY <2>1 DEF Placed, Active, Untouched
  <2>3. Missed(q)' /\ Storing(q)' /\ Reusing(q)' /\ Closing(q)'
    BY <2>1 DEF Missed, Storing, Reusing, Closing, Busy
  <2>4. QED BY <2>2, <2>3 DEF Part
<1>5. QED BY <1>3, <1>4

\* Rows stay backed while other directories and finished executions stay as they are.
LEMMA RowsStand ==
  ASSUME Typed, Backed, NEW p \in Procs, Active(p), row' = row,
         \A r \in Runs : r # plan[p].run => dirs'[r] = dirs[r],
         \A e \in Procs : wrote[e] # {} => wrote'[e] = wrote[e],
         \A q \in Procs : pc[q] # "new" => pc'[q] # "new" /\ plan'[q].run = plan[q].run
  PROVE  RowsUsed' /\ RowsBacked'
<1>1. RowsUsed'
  BY DEF Backed, RowsUsed, Used
<1>2. ASSUME NEW r \in Runs, row'[r] # Nothing
      PROVE  /\ wrote'[row'[r]] # {}
             /\ \A s \in wrote'[row'[r]] : <<row'[r], TRUE>> \in dirs'[r][s]
  <2>1. row[r] \in Procs /\ wrote[row[r]] # {}
    BY <1>2 DEF Typed, TypeOK, Backed, RowsBacked
  <2>2. \A s \in wrote[row[r]] : <<row[r], TRUE>> \in dirs[r][s]
    BY <1>2 DEF Backed, RowsBacked
  <2>3. row[plan[p].run] = Nothing
    BY DEF Backed, Placed
  <2>4. dirs'[r] = dirs[r]
    BY <1>2, <2>3
  <2>5. QED BY <2>1, <2>2, <2>4
<1>3. RowsBacked'
  BY <1>2 DEF RowsBacked
<1>4. QED BY <1>1, <1>3

\* A committed entry stays committed while nobody writes it.
LEMMA EntryStands ==
  ASSUME Typed, Backed, UNCHANGED <<entry, result>>,
         \A e \in Procs : wrote[e] # {} => wrote'[e] = wrote[e]
  PROVE  Committed'
BY DEF Backed, Committed, Whole

-----------------------------------------------------------------------------
LEMMA InitBacked == Init => Backed
<1> SUFFICES ASSUME Init PROVE Backed
  OBVIOUS
<1> USE DEF Init
<1>1. Alone /\ RowsUsed /\ RowsBacked
  BY DEF Alone, RowsUsed, RowsBacked, Active, Busy
<1>2. Committed
  BY NothingAssumption DEF Committed
<1>3. ASSUME NEW p \in Procs
      PROVE  Placed(p) /\ Missed(p) /\ Storing(p) /\ Reusing(p) /\ Closing(p)
  BY <1>3 DEF Placed, Missed, Storing, Reusing, Closing, Active, Busy
<1>4. QED BY <1>1, <1>2, <1>3 DEF Backed

\* With one active process at most, a process may begin only when there is none.
LEMMA NobodyActive ==
  ASSUME MaxActive = 1, Cardinality({q \in Procs : Active(q)}) < MaxActive
  PROVE  \A q \in Procs : ~ Active(q)
<1> DEFINE S == {q \in Procs : Active(q)}
<1>1. IsFiniteSet(S)
  BY BoundAssumption, FS_Interval, FS_Subset
<1>2. Cardinality(S) = 0
  BY <1>1, FS_CardinalityType
<1>3. S = {}
  BY <1>1, <1>2, FS_EmptySet
<1>4. QED BY <1>3

LEMMA BeginBacked ==
  ASSUME MaxActive = 1, Typed, Backed, NEW p \in Procs, Begin(p)
  PROVE  Backed'
<1>1. \A q \in Procs : ~ Active(q)
  BY NobodyActive DEF Begin
<1>2. PICK r \in Runs, keyed \in BOOLEAN :
        /\ r \in Used => row[r] = Nothing
        /\ plan' = [plan EXCEPT ![p] = [run |-> r, resume |-> r \in Used, keyed |-> keyed]]
        /\ pc' = [pc EXCEPT ![p] = IF keyed THEN "lookup" ELSE "exec"]
  BY DEF Begin
<1>3. pc[p] = "new" /\ UNCHANGED <<entry, result, dirs, row, wrote, hit, todo>>
  BY DEF Begin
<1>4. \A q \in Procs \ {p} : pc'[q] = pc[q] /\ plan'[q] = plan[q]
  BY <1>2 DEF Typed, TypeOK
<1>5. pc'[p] \in {"lookup", "exec"} /\ plan'[p].run = r /\ plan'[p].keyed = keyed
      /\ (keyed => pc'[p] = "lookup")
  BY <1>2 DEF Typed, TypeOK
<1>6. Alone'
  BY <1>1, <1>4 DEF Alone, Active
<1>7. RowsUsed' /\ RowsBacked' /\ Committed'
  <2>1. \A q \in Procs : pc[q] # "new" => pc'[q] # "new" /\ plan'[q] = plan[q]
    BY <1>3, <1>4
  <2>2. RowsUsed'
    BY <1>3, <2>1 DEF Backed, RowsUsed, Used
  <2>3. RowsBacked' /\ Committed'
    BY <1>3 DEF Backed, RowsBacked, Committed, Whole
  <2>4. QED BY <2>2, <2>3
<1>8. row[r] = Nothing
  BY <1>2 DEF Backed, RowsUsed
<1>9. Placed(p)
  BY DEF Backed
<1>10. Placed(p)' /\ Missed(p)' /\ Storing(p)' /\ Reusing(p)' /\ Closing(p)'
  BY <1>3, <1>5, <1>8, <1>9 DEF Placed, Missed, Storing, Reusing, Closing
<1>11. ASSUME NEW q \in Procs \ {p}
       PROVE  Placed(q)' /\ Missed(q)' /\ Storing(q)' /\ Reusing(q)' /\ Closing(q)'
  <2>1. pc[q] \notin Busy /\ pc'[q] = pc[q] /\ Placed(q)
    BY <1>1, <1>4 DEF Active, Backed
  <2>2. Placed(q)'
    BY <1>3, <1>4, <2>1 DEF Placed, Active
  <2>3. QED BY <2>1, <2>2 DEF Missed, Storing, Reusing, Closing, Busy
<1>12. QED BY <1>6, <1>7, <1>10, <1>11 DEF Backed

-----------------------------------------------------------------------------
(***************************************************************************)
(* A process reuses the entry                                              *)
(***************************************************************************)
LEMMA Listed ==
  ASSUME NEW s \in Slots, NEW dir, dir[s] # {}
  PROVE  \E n \in Present(dir) : Artifacts[n] = s
BY DEF Slots, Present

LEMMA LookupBacked ==
  ASSUME Typed, Backed, NEW p \in Procs, Lookup(p)
  PROVE  Backed'
<1>1. pc[p] = "lookup" /\ UNCHANGED <<entry, result, dirs, row, wrote, plan>>
  BY DEF Lookup, Goto
<1>2. Active(p) /\ plan[p].run \in Runs
  BY <1>1 DEF Active, Busy, Typed, Housed
<1>3. \A q \in Procs \ {p} : Untouched(q)
  BY <1>1 DEF Lookup, Goto, Untouched, Typed, TypeOK
<1>4. Alone' /\ \A q \in Procs \ {p} : Part(q)'
  BY <1>2, <1>3, Bystanders
<1>5. pc'[p] \in {"materialize", "exec"}
  BY DEF Lookup, Goto, Typed, TypeOK
<1>6. RowsUsed' /\ RowsBacked'
  BY <1>1, <1>2, <1>3, <1>5, RowsStand DEF Untouched
<1>7. Committed'
  BY <1>1, EntryStands
<1>8. Placed(p) /\ hit[p] = Nothing
  BY <1>1 DEF Backed, Placed
<1>9. CASE Readable
  <2>1. pc'[p] = "materialize" /\ hit'[p] = result /\ todo'[p] = Present(entry) /\ result \in Procs
    BY <1>9 DEF Lookup, Goto, Typed, TypeOK, Readable
  <2>2. \A s \in wrote[result] : s \in Slots /\ entry[s] # {}
    BY <2>1 DEF Backed, Committed, Whole, Typed, TypeOK
  <2>3. \A s \in wrote[result] : ToCopy(p, s)'
    BY <2>1, <2>2, Listed DEF ToCopy
  <2>4. Reusing(p)'
    BY <1>1, <2>1, <2>3 DEF Reusing
  <2>5. Placed(p)' /\ Missed(p)' /\ Storing(p)' /\ Closing(p)'
    BY <1>1, <1>2, <1>8, <2>1 DEF Placed, Missed, Storing, Closing, Active
  <2>6. QED BY <1>4, <1>6, <1>7, <2>4, <2>5 DEF Backed, Part
<1>10. CASE ~ Readable
  <2>1. pc'[p] = "exec" /\ hit' = hit /\ result \notin Procs
    BY <1>10 DEF Lookup, Goto, Typed, TypeOK, Readable
  <2>2. Part(p)'
    BY <1>1, <1>2, <1>8, <2>1
       DEF Part, Placed, Missed, Storing, Reusing, Closing, Active
  <2>3. QED BY <1>4, <1>6, <1>7, <2>2 DEF Backed, Part
<1>11. QED BY <1>9, <1>10

LEMMA BeginMaterializeBacked ==
  ASSUME Typed, Backed, NEW p \in Procs, BeginMaterialize(p)
  PROVE  Backed'
<1>1. pc[p] = "materialize" /\ UNCHANGED <<entry, result, row, wrote, plan, hit, todo>>
  BY DEF BeginMaterialize, Goto
<1>2. Active(p) /\ plan[p].run \in Runs
  BY <1>1 DEF Active, Busy, Typed, Housed
<1>3. \A q \in Procs \ {p} : Untouched(q)
  BY <1>1 DEF BeginMaterialize, Goto, Untouched, Typed, TypeOK
<1>4. Alone' /\ \A q \in Procs \ {p} : Part(q)'
  BY <1>2, <1>3, Bystanders
<1>5. pc'[p] = "materializing"
  BY DEF BeginMaterialize, Goto, Typed, TypeOK
<1>6. PICK n \in todo[p] :
        dirs' = [dirs EXCEPT ![plan[p].run] = HalfCopied(Artifacts[n], Home(p), entry)]
  BY DEF BeginMaterialize, IsNext
<1>7. \A r \in Runs : r # plan[p].run => dirs'[r] = dirs[r]
  BY <1>6 DEF Typed, TypeOK
<1>8. RowsUsed' /\ RowsBacked'
  BY <1>1, <1>2, <1>3, <1>5, <1>7, RowsStand DEF Untouched
<1>9. Committed'
  BY <1>1, EntryStands
<1>10. Placed(p) /\ Reusing(p)
  BY DEF Backed
<1>11. ASSUME NEW s \in wrote[result], ~ ToCopy(p, s)
       PROVE  <<result, TRUE>> \in dirs'[plan[p].run][s]
  <2>1. s # Artifacts[n] /\ s \in Slots
    BY <1>1, <1>10, <1>11 DEF ToCopy, Reusing, Typed, TypeOK
  <2>2. HalfCopied(Artifacts[n], Home(p), entry)[s] = Home(p)[s]
    BY <1>2, <2>1 DEF HalfCopied, Home, Typed, TypeOK
  <2>3. dirs'[plan[p].run][s] = Home(p)[s]
    BY <1>2, <1>6, <2>2 DEF Typed, TypeOK
  <2>4. QED BY <1>1, <1>10, <1>11, <2>3 DEF Reusing
<1>12. Reusing(p)'
  BY <1>1, <1>10, <1>11 DEF Reusing, ToCopy, Home
<1>13. Placed(p)' /\ Missed(p)' /\ Storing(p)' /\ Closing(p)'
  BY <1>1, <1>2, <1>5, <1>10 DEF Placed, Missed, Storing, Closing, Active, Busy
<1>14. QED BY <1>4, <1>8, <1>9, <1>12, <1>13 DEF Backed, Part

LEMMA EndMaterializeBacked ==
  ASSUME Typed, Backed, NEW p \in Procs, EndMaterialize(p)
  PROVE  Backed'
<1>1. pc[p] = "materializing" /\ UNCHANGED <<entry, result, row, wrote, plan, hit>>
  BY DEF EndMaterialize, Goto
<1>2. Active(p) /\ plan[p].run \in Runs
  BY <1>1 DEF Active, Busy, Typed, Housed
<1>3. \A q \in Procs \ {p} : Untouched(q)
  BY <1>1 DEF EndMaterialize, Goto, Untouched, Typed, TypeOK
<1>4. Alone' /\ \A q \in Procs \ {p} : Part(q)'
  BY <1>2, <1>3, Bystanders
<1>5. pc'[p] = "materialize"
  BY DEF EndMaterialize, Goto, Typed, TypeOK
<1>6. PICK n \in todo[p] :
        /\ dirs' = [dirs EXCEPT ![plan[p].run] = Copied(Artifacts[n], Home(p), entry)]
        /\ todo' = [todo EXCEPT ![p] = @ \ {n}]
  BY DEF EndMaterialize, IsNext
<1>7. \A r \in Runs : r # plan[p].run => dirs'[r] = dirs[r]
  BY <1>6 DEF Typed, TypeOK
<1>8. RowsUsed' /\ RowsBacked'
  BY <1>1, <1>2, <1>3, <1>5, <1>7, RowsStand DEF Untouched
<1>9. Committed'
  BY <1>1, EntryStands
<1>10. Placed(p) /\ Reusing(p) /\ Committed
  BY DEF Backed
<1>11. todo'[p] = todo[p] \ {n} /\ dirs'[plan[p].run] = Copied(Artifacts[n], Home(p), entry)
  BY <1>2, <1>6 DEF Typed, TypeOK
<1>12. ASSUME NEW s \in wrote[result], ~ ToCopy(p, s)'
       PROVE  <<result, TRUE>> \in dirs'[plan[p].run][s]
  <2>1. s \in Slots
    BY <1>1, <1>10, <1>12 DEF Reusing, Typed, TypeOK
  <2>2. CASE s = Artifacts[n]
    <3>1. <<result, TRUE>> \in entry[s]
      BY <1>1, <1>10 DEF Reusing, Committed, Whole
    <3>2. entry[s] \subseteq Copied(Artifacts[n], Home(p), entry)[s]
      BY <1>2, <2>1, <2>2 DEF Copied, Home, Typed, TypeOK
    <3>3. QED BY <1>11, <3>1, <3>2
  <2>3. CASE s # Artifacts[n]
    <3>1. ~ ToCopy(p, s)
      BY <1>11, <1>12, <2>3 DEF ToCopy
    <3>2. Copied(Artifacts[n], Home(p), entry)[s] = Home(p)[s]
      BY <1>2, <2>1, <2>3 DEF Copied, Home, Typed, TypeOK
    <3>3. QED BY <1>1, <1>10, <1>11, <3>1, <3>2 DEF Reusing
  <2>4. QED BY <2>2, <2>3
<1>13. Reusing(p)'
  BY <1>1, <1>10, <1>12 DEF Reusing, Home
<1>14. Placed(p)' /\ Missed(p)' /\ Storing(p)' /\ Closing(p)'
  BY <1>1, <1>2, <1>5, <1>10 DEF Placed, Missed, Storing, Closing, Active, Busy
<1>15. QED BY <1>4, <1>8, <1>9, <1>13, <1>14 DEF Backed, Part

LEMMA ReuseBacked ==
  ASSUME Typed, Backed, NEW p \in Procs, Reuse(p)
  PROVE  Backed'
<1>1. /\ pc[p] = "materialize" /\ todo[p] = {}
      /\ UNCHANGED <<entry, result, dirs, row, wrote, plan, hit, todo>>
  BY DEF Reuse, Goto
<1>2. Active(p) /\ plan[p].run \in Runs
  BY <1>1 DEF Active, Busy, Typed, Housed
<1>3. \A q \in Procs \ {p} : Untouched(q)
  BY <1>1 DEF Reuse, Goto, Untouched, Typed, TypeOK
<1>4. Alone' /\ \A q \in Procs \ {p} : Part(q)'
  BY <1>2, <1>3, Bystanders
<1>5. pc'[p] = "manifest"
  BY DEF Reuse, Goto, Typed, TypeOK
<1>6. RowsUsed' /\ RowsBacked'
  BY <1>1, <1>2, <1>3, <1>5, RowsStand DEF Untouched
<1>7. Committed'
  BY <1>1, EntryStands
<1>8. Placed(p) /\ Reusing(p) /\ Committed
  BY DEF Backed
<1>9. Outcome(p) = result /\ result \in Procs
  BY <1>1, <1>8, NothingAssumption DEF Reusing, Outcome
<1>10. wrote[result] # {} /\ Whole(result, Home(p))
  BY <1>1, <1>8 DEF Reusing, Committed, Whole, ToCopy
<1>11. Closing(p)'
  BY <1>1, <1>9, <1>10 DEF Closing, Outcome, Whole, Home
<1>12. Placed(p)' /\ Missed(p)' /\ Storing(p)' /\ Reusing(p)'
  BY <1>1, <1>2, <1>5, <1>8 DEF Placed, Missed, Storing, Reusing, Active, Busy
<1>13. QED BY <1>4, <1>6, <1>7, <1>11, <1>12 DEF Backed, Part

-----------------------------------------------------------------------------
(***************************************************************************)
(* A process executes the cell                                             *)
(***************************************************************************)
LEMMA CompleteBacked ==
  ASSUME Typed, Backed, NEW p \in Procs, Complete(p)
  PROVE  Backed'
<1>1. pc[p] = "exec" /\ UNCHANGED <<entry, result, row, plan, hit>>
  BY DEF Complete, Goto
<1>2. Active(p) /\ plan[p].run \in Runs
  BY <1>1 DEF Active, Busy, Typed, Housed
<1>3. PICK W \in SUBSET Slots :
        /\ "log" \in W
        /\ dirs' = [dirs EXCEPT ![plan[p].run] = Written(p, W, TRUE)]
        /\ wrote' = [wrote EXCEPT ![p] = W]
        /\ todo' = [todo EXCEPT ![p] = Present(dirs'[plan[p].run])]
  BY DEF Complete
<1>4. \A q \in Procs \ {p} : Untouched(q)
  BY <1>1, <1>3 DEF Complete, Goto, Untouched, Typed, TypeOK
<1>5. Alone' /\ \A q \in Procs \ {p} : Part(q)'
  BY <1>2, <1>4, Bystanders
<1>6. Placed(p) /\ Missed(p) /\ wrote[p] = {} /\ hit[p] = Nothing
  BY <1>1 DEF Backed, Placed
<1>7. \A e \in Procs : wrote[e] # {} => wrote'[e] = wrote[e]
  BY <1>3, <1>6 DEF Typed, TypeOK
<1>8. pc'[p] = IF plan[p].keyed THEN "store" ELSE "manifest"
  BY DEF Complete, Goto, Typed, TypeOK
<1>9. \A r \in Runs : r # plan[p].run => dirs'[r] = dirs[r]
  BY <1>3 DEF Typed, TypeOK
<1>10. \A q \in Procs : pc[q] # "new" => pc'[q] # "new" /\ plan'[q].run = plan[q].run
  BY <1>1, <1>4, <1>8 DEF Untouched
<1>11. RowsUsed' /\ RowsBacked'
  BY <1>1, <1>2, <1>7, <1>9, <1>10, RowsStand
<1>12. Committed'
  BY <1>1, <1>7, EntryStands
<1>13. /\ wrote'[p] = W /\ dirs'[plan[p].run] = Written(p, W, TRUE)
       /\ todo'[p] = Present(dirs'[plan[p].run])
  BY <1>2, <1>3 DEF Typed, TypeOK
<1>14. \A s \in W : s \in Slots /\ <<p, TRUE>> \in dirs'[plan[p].run][s]
  BY <1>13 DEF Written
<1>15. ASSUME NEW s \in W PROVE ToCopy(p, s)'
  <2>1. s \in Slots /\ dirs'[plan[p].run][s] # {}
    BY <1>14
  <2>2. \E n \in Present(dirs'[plan[p].run]) : Artifacts[n] = s
    BY <2>1, Listed
  <2>3. QED BY <1>13, <2>2 DEF ToCopy
<1>16. wrote'[p] # {} /\ Whole(p, Home(p))'
  BY <1>1, <1>3, <1>13, <1>14 DEF Whole, Home
<1>17. Outcome(p)' = p
  BY <1>1, <1>6, <1>16 DEF Outcome
<1>18. Closing(p)'
  BY <1>16, <1>17 DEF Closing
<1>19. Storing(p)'
  BY <1>8, <1>13, <1>15, <1>16 DEF Storing
<1>20. Missed(p)'
  BY <1>1, <1>6, <1>8 DEF Missed
<1>21. Placed(p)' /\ Reusing(p)'
  BY <1>1, <1>2, <1>6, <1>8 DEF Placed, Reusing, Active
<1>22. QED BY <1>5, <1>11, <1>12, <1>18, <1>19, <1>20, <1>21 DEF Backed, Part

LEMMA FailBacked ==
  ASSUME Typed, Backed, NEW p \in Procs, Fail(p)
  PROVE  Backed'
<1>1. pc[p] = "exec" /\ UNCHANGED <<entry, result, row, wrote, plan, hit, todo>>
  BY DEF Fail, Goto
<1>2. Active(p) /\ plan[p].run \in Runs
  BY <1>1 DEF Active, Busy, Typed, Housed
<1>3. \A q \in Procs \ {p} : Untouched(q)
  BY <1>1 DEF Fail, Goto, Untouched, Typed, TypeOK
<1>4. Alone' /\ \A q \in Procs \ {p} : Part(q)'
  BY <1>2, <1>3, Bystanders
<1>5. pc'[p] = "manifest"
  BY DEF Fail, Goto, Typed, TypeOK
<1>6. \A r \in Runs : r # plan[p].run => dirs'[r] = dirs[r]
  BY DEF Fail, Typed, TypeOK
<1>7. RowsUsed' /\ RowsBacked'
  BY <1>1, <1>2, <1>3, <1>5, <1>6, RowsStand DEF Untouched
<1>8. Committed'
  BY <1>1, EntryStands
<1>9. Placed(p) /\ wrote[p] = {} /\ hit[p] = Nothing
  BY <1>1 DEF Backed, Placed
<1>10. Part(p)'
  BY <1>1, <1>2, <1>5, <1>9
     DEF Part, Placed, Missed, Storing, Reusing, Closing, Outcome, Active
<1>11. QED BY <1>4, <1>7, <1>8, <1>10 DEF Backed, Part

-----------------------------------------------------------------------------
(***************************************************************************)
(* A process fills the entry                                               *)
(***************************************************************************)
LEMMA BeginStoreBacked ==
  ASSUME Typed, Backed, NEW p \in Procs, BeginStore(p)
  PROVE  Backed'
<1>1. pc[p] = "store" /\ UNCHANGED <<result, dirs, row, wrote, plan, hit, todo>>
  BY DEF BeginStore, Goto
<1>2. Active(p) /\ plan[p].run \in Runs
  BY <1>1 DEF Active, Busy, Typed, Housed
<1>3. \A q \in Procs \ {p} : Untouched(q)
  BY <1>1 DEF BeginStore, Goto, Untouched, Typed, TypeOK
<1>4. Alone' /\ \A q \in Procs \ {p} : Part(q)'
  BY <1>2, <1>3, Bystanders
<1>5. pc'[p] = "storing"
  BY DEF BeginStore, Goto, Typed, TypeOK
<1>6. RowsUsed' /\ RowsBacked'
  BY <1>1, <1>2, <1>3, <1>5, RowsStand DEF Untouched
<1>7. Placed(p) /\ Missed(p) /\ Storing(p)
  BY DEF Backed
<1>8. Committed'
  BY <1>1, <1>7 DEF Missed, Committed
<1>9. PICK n \in todo[p] : entry' = HalfCopied(Artifacts[n], entry, Home(p))
  BY DEF BeginStore, IsNext
<1>10. \A s \in wrote[p] : ~ ToCopy(p, s) => entry'[s] = entry[s]
  <2>1. \A s \in wrote[p] : ~ ToCopy(p, s) => s \in Slots /\ s # Artifacts[n]
    BY DEF ToCopy, Typed, TypeOK
  <2>2. QED BY <1>9, <2>1 DEF HalfCopied, Typed, TypeOK
<1>11. Storing(p)'
  BY <1>1, <1>5, <1>7, <1>10 DEF Storing, ToCopy, Whole, Home
<1>12. Placed(p)' /\ Missed(p)' /\ Reusing(p)' /\ Closing(p)'
  BY <1>1, <1>2, <1>5, <1>7 DEF Placed, Missed, Reusing, Closing, Active, Busy
<1>13. QED BY <1>4, <1>6, <1>8, <1>11, <1>12 DEF Backed, Part

LEMMA EndStoreBacked ==
  ASSUME Typed, Backed, NEW p \in Procs, EndStore(p)
  PROVE  Backed'
<1>1. pc[p] = "storing" /\ UNCHANGED <<result, dirs, row, wrote, plan, hit>>
  BY DEF EndStore, Goto
<1>2. Active(p) /\ plan[p].run \in Runs
  BY <1>1 DEF Active, Busy, Typed, Housed
<1>3. \A q \in Procs \ {p} : Untouched(q)
  BY <1>1 DEF EndStore, Goto, Untouched, Typed, TypeOK
<1>4. Alone' /\ \A q \in Procs \ {p} : Part(q)'
  BY <1>2, <1>3, Bystanders
<1>5. pc'[p] = "store"
  BY DEF EndStore, Goto, Typed, TypeOK
<1>6. RowsUsed' /\ RowsBacked'
  BY <1>1, <1>2, <1>3, <1>5, RowsStand DEF Untouched
<1>7. Placed(p) /\ Missed(p) /\ Storing(p)
  BY DEF Backed
<1>8. Committed'
  BY <1>1, <1>7 DEF Missed, Committed
<1>9. PICK n \in todo[p] : /\ entry' = Copied(Artifacts[n], entry, Home(p))
                          /\ todo' = [todo EXCEPT ![p] = @ \ {n}]
  BY DEF EndStore, IsNext
<1>10. todo'[p] = todo[p] \ {n}
  BY <1>9 DEF Typed, TypeOK
<1>11. ASSUME NEW s \in wrote[p], ~ ToCopy(p, s)'
       PROVE  <<p, TRUE>> \in entry'[s]
  <2>1. s \in Slots
    BY DEF Typed, TypeOK
  <2>2. CASE s = Artifacts[n]
    <3>1. <<p, TRUE>> \in Home(p)[s]
      BY <1>1, <1>7 DEF Storing, Whole
    <3>2. entry'[s] = Keep(s, entry, Home(p)) \cup Home(p)[s]
      BY <1>9, <2>1, <2>2 DEF Copied, Typed, TypeOK
    <3>3. QED BY <3>1, <3>2
  <2>3. CASE s # Artifacts[n]
    <3>1. ~ ToCopy(p, s)
      BY <1>10, <1>11, <2>3 DEF ToCopy
    <3>2. entry'[s] = entry[s]
      BY <1>9, <2>1, <2>3 DEF Copied, Typed, TypeOK
    <3>3. QED BY <1>1, <1>7, <3>1, <3>2 DEF Storing
  <2>4. QED BY <2>2, <2>3
<1>12. Storing(p)'
  BY <1>1, <1>5, <1>7, <1>11 DEF Storing, Whole, Home
<1>13. Placed(p)' /\ Missed(p)' /\ Reusing(p)' /\ Closing(p)'
  BY <1>1, <1>2, <1>5, <1>7 DEF Placed, Missed, Reusing, Closing, Active, Busy
<1>14. QED BY <1>4, <1>6, <1>8, <1>12, <1>13 DEF Backed, Part

LEMMA BeginCommitBacked ==
  ASSUME Typed, Backed, NEW p \in Procs, BeginCommit(p)
  PROVE  Backed'
<1>1. /\ pc[p] = "store" /\ todo[p] = {} /\ result' = Torn
      /\ UNCHANGED <<entry, dirs, row, wrote, plan, hit, todo>>
  BY DEF BeginCommit, AllStored, Goto
<1>2. Active(p) /\ plan[p].run \in Runs
  BY <1>1 DEF Active, Busy, Typed, Housed
<1>3. \A q \in Procs \ {p} : Untouched(q)
  BY <1>1 DEF BeginCommit, Goto, Untouched, Typed, TypeOK
<1>4. Alone' /\ \A q \in Procs \ {p} : Part(q)'
  BY <1>2, <1>3, Bystanders
<1>5. pc'[p] = "committing"
  BY DEF BeginCommit, Goto, Typed, TypeOK
<1>6. RowsUsed' /\ RowsBacked'
  BY <1>1, <1>2, <1>3, <1>5, RowsStand DEF Untouched
<1>7. Placed(p) /\ Storing(p)
  BY DEF Backed
<1>8. Committed' /\ Missed(p)'
  BY <1>1, NothingAssumption DEF Committed, Missed
<1>9. Storing(p)'
  BY <1>1, <1>5, <1>7 DEF Storing, ToCopy, Whole, Home
<1>10. Placed(p)' /\ Reusing(p)' /\ Closing(p)'
  BY <1>1, <1>2, <1>5, <1>7 DEF Placed, Reusing, Closing, Active, Busy
<1>11. QED BY <1>4, <1>6, <1>8, <1>9, <1>10 DEF Backed, Part

LEMMA EndCommitBacked ==
  ASSUME Typed, Backed, NEW p \in Procs, EndCommit(p)
  PROVE  Backed'
<1>1. /\ pc[p] = "committing" /\ result' = p
      /\ UNCHANGED <<entry, dirs, row, wrote, plan, hit>>
  BY DEF EndCommit, Goto
<1>2. Active(p) /\ plan[p].run \in Runs
  BY <1>1 DEF Active, Busy, Typed, Housed
<1>3. \A q \in Procs \ {p} : Untouched(q)
  BY <1>1 DEF EndCommit, Goto, Untouched, Typed, TypeOK
<1>4. Alone' /\ \A q \in Procs \ {p} : Part(q)'
  BY <1>2, <1>3, Bystanders
<1>5. pc'[p] = "manifest"
  BY DEF EndCommit, Goto, Typed, TypeOK
<1>6. RowsUsed' /\ RowsBacked'
  BY <1>1, <1>2, <1>3, <1>5, RowsStand DEF Untouched
<1>7. Placed(p) /\ Storing(p)
  BY DEF Backed
<1>8. wrote[p] # {} /\ Whole(p, Home(p)) /\ Whole(p, entry)
  BY <1>1, <1>7 DEF Storing, ToCopy, Whole
<1>9. Committed'
  BY <1>1, <1>8 DEF Committed, Whole
<1>10. hit[p] = Nothing
  BY <1>1, <1>7 DEF Placed
<1>11. Outcome(p)' = p
  BY <1>1, <1>8, <1>10 DEF Outcome
<1>12. Closing(p)'
  BY <1>1, <1>8, <1>11 DEF Closing, Whole, Home
<1>13. Placed(p)' /\ Missed(p)' /\ Storing(p)' /\ Reusing(p)'
  BY <1>1, <1>2, <1>5, <1>7 DEF Placed, Missed, Storing, Reusing, Active, Busy
<1>14. QED BY <1>4, <1>6, <1>9, <1>12, <1>13 DEF Backed, Part

LEMMA AbandonStoreBacked ==
  ASSUME Typed, Backed, NEW p \in Procs, AbandonStore(p)
  PROVE  Backed'
<1>1. /\ pc[p] \in {"store", "storing", "committing"}
      /\ UNCHANGED <<entry, result, dirs, row, wrote, plan, hit>>
  BY DEF AbandonStore
<1>2. Active(p) /\ plan[p].run \in Runs
  BY <1>1 DEF Active, Busy, Typed, Housed
<1>3. \A q \in Procs \ {p} : Untouched(q)
  BY <1>1 DEF AbandonStore, Untouched, Typed, TypeOK
<1>4. Alone' /\ \A q \in Procs \ {p} : Part(q)'
  BY <1>2, <1>3, Bystanders
<1>5. pc'[p] = "manifest"
  BY DEF AbandonStore, Typed, TypeOK
<1>6. RowsUsed' /\ RowsBacked'
  BY <1>1, <1>2, <1>3, <1>5, RowsStand DEF Untouched
<1>7. Committed'
  BY <1>1, EntryStands
<1>8. Placed(p) /\ Storing(p) /\ hit[p] = Nothing
  BY <1>1 DEF Backed, Placed
<1>9. wrote[p] # {} /\ Whole(p, Home(p))
  BY <1>1, <1>8 DEF Storing
<1>10. Outcome(p)' = p
  BY <1>1, <1>8, <1>9 DEF Outcome
<1>11. Closing(p)'
  BY <1>1, <1>9, <1>10 DEF Closing, Whole, Home
<1>12. Placed(p)' /\ Missed(p)' /\ Storing(p)' /\ Reusing(p)'
  BY <1>1, <1>2, <1>5, <1>8 DEF Placed, Missed, Storing, Reusing, Active, Busy
<1>13. QED BY <1>4, <1>6, <1>7, <1>11, <1>12 DEF Backed, Part

-----------------------------------------------------------------------------
(***************************************************************************)
(* A process ends                                                          *)
(***************************************************************************)
LEMMA Gone ==
  ASSUME Typed, Backed, NEW p \in Procs, Active(p), Exit(p), wrote' = wrote
  PROVE  /\ \A q \in Procs \ {p} : Untouched(q)
         /\ \A q \in Procs : pc[q] # "new" => pc'[q] # "new" /\ plan'[q].run = plan[q].run
         /\ Alone' /\ \A q \in Procs : Part(q)'
<1>1. plan[p].run \in Runs /\ pc[p] # "new"
  BY DEF Active, Busy, Typed, Housed
<1>2. \A q \in Procs \ {p} : Untouched(q)
  BY DEF Exit, Untouched, Typed, TypeOK
<1>3. Alone' /\ \A q \in Procs \ {p} : Part(q)'
  BY <1>2, Bystanders
<1>4. pc'[p] = "ended" /\ plan'[p].run = plan[p].run /\ hit'[p] = Nothing
  BY DEF Exit, Typed, TypeOK
<1>5. Part(p)'
  BY <1>1, <1>4 DEF Part, Placed, Missed, Storing, Reusing, Closing, Active, Busy
<1>6. QED BY <1>2, <1>3, <1>4, <1>5 DEF Untouched

LEMMA WriteManifestBacked ==
  ASSUME Typed, Backed, NEW p \in Procs, WriteManifest(p)
  PROVE  Backed'
<1>1. /\ pc[p] = "manifest" /\ UNCHANGED <<entry, result, dirs, wrote>>
      /\ row' = [row EXCEPT ![plan[p].run] = Outcome(p)]
  BY DEF WriteManifest
<1>2. Active(p) /\ plan[p].run \in Runs /\ pc[p] # "new"
  BY <1>1 DEF Active, Busy, Typed, Housed
<1>3. /\ \A q \in Procs : pc[q] # "new" => pc'[q] # "new" /\ plan'[q].run = plan[q].run
      /\ Alone' /\ \A q \in Procs : Part(q)'
  BY <1>1, <1>2, Gone DEF WriteManifest
<1>4. Committed'
  BY <1>1, EntryStands
<1>5. \A r \in Runs : row'[r] = IF r = plan[p].run THEN Outcome(p) ELSE row[r]
  BY <1>1 DEF Typed, TypeOK
<1>6. RowsUsed'
  BY <1>2, <1>3, <1>5 DEF Backed, RowsUsed, Used
<1>7. RowsBacked'
  BY <1>1, <1>2, <1>5 DEF Backed, RowsBacked, Closing, Whole, Home
<1>8. QED BY <1>3, <1>4, <1>6, <1>7 DEF Backed, Part

LEMMA DieBacked ==
  ASSUME Typed, Backed, NEW p \in Procs, Die(p)
  PROVE  Backed'
<1>1. Active(p) /\ UNCHANGED <<entry, result, row, wrote>>
  BY DEF Die
<1>2. /\ \A q \in Procs : pc[q] # "new" => pc'[q] # "new" /\ plan'[q].run = plan[q].run
      /\ Alone' /\ \A q \in Procs : Part(q)'
  BY <1>1, Gone DEF Die
<1>3. Committed'
  BY <1>1, EntryStands
<1>4. \A r \in Runs : r # plan[p].run => dirs'[r] = dirs[r]
  BY DEF Die, Typed, TypeOK
<1>5. RowsUsed' /\ RowsBacked'
  BY <1>1, <1>2, <1>4, RowsStand
<1>6. QED BY <1>2, <1>3, <1>5 DEF Backed, Part

-----------------------------------------------------------------------------
LEMMA NextBacked ==
  ASSUME MaxActive = 1, Typed, Backed, [Next]_vars
  PROVE  Backed'
<1>1. CASE UNCHANGED vars
  <2> USE <1>1 DEF vars
  <2>1. Alone' /\ RowsUsed' /\ Committed' /\ RowsBacked'
    BY DEF Backed, Alone, RowsUsed, Committed, RowsBacked, Active, Used, Whole
  <2>2. ASSUME NEW p \in Procs
        PROVE  Placed(p)' /\ Missed(p)' /\ Storing(p)' /\ Reusing(p)' /\ Closing(p)'
    <3>1. Placed(p) /\ Missed(p) /\ Storing(p) /\ Reusing(p) /\ Closing(p)
      BY DEF Backed
    <3>2. Placed(p)' /\ Missed(p)'
      BY <3>1 DEF Placed, Missed, Active
    <3>3. Storing(p)'
      BY <3>1 DEF Storing, Whole, ToCopy, Home
    <3>4. Reusing(p)'
      BY <3>1 DEF Reusing, ToCopy, Home
    <3>5. Closing(p)'
      BY <3>1 DEF Closing, Whole, Home, Outcome
    <3>6. QED BY <3>2, <3>3, <3>4, <3>5
  <2>3. QED BY <2>1, <2>2 DEF Backed
<1>2. CASE Next
  <2>1. PICK p \in Procs :
          \/ Begin(p) \/ Lookup(p)
          \/ BeginMaterialize(p) \/ EndMaterialize(p) \/ Reuse(p)
          \/ Complete(p) \/ Fail(p)
          \/ BeginStore(p) \/ EndStore(p) \/ BeginCommit(p) \/ EndCommit(p) \/ AbandonStore(p)
          \/ WriteManifest(p) \/ Die(p)
    BY <1>2 DEF Next
  <2>2. QED BY <2>1, BeginBacked, LookupBacked, BeginMaterializeBacked, EndMaterializeBacked,
               ReuseBacked, CompleteBacked, FailBacked, BeginStoreBacked, EndStoreBacked,
               BeginCommitBacked, EndCommitBacked, AbandonStoreBacked, WriteManifestBacked,
               DieBacked
<1>3. QED BY <1>1, <1>2

LEMMA Invariance == ASSUME MaxActive = 1 PROVE Spec => [](Typed /\ Backed)
<1>1. Typed /\ Backed /\ [Next]_vars => (Typed /\ Backed)'
  BY NextType, NextBacked
<1>2. QED BY <1>1, InitType, InitBacked, PTL DEF Spec

(***************************************************************************)
(* When the runs of a cell do not overlap, a completed row is backed by    *)
(* whole artifacts, wherever earlier runs were killed or failed to write.  *)
(***************************************************************************)
THEOREM RowsBackedHolds == ASSUME MaxActive = 1 PROVE Spec => []RowsBacked
<1>1. Backed => RowsBacked
  BY DEF Backed
<1>2. QED BY <1>1, Invariance, PTL

(***************************************************************************)
(* ... and an entry that can be hit is never written again.                *)
(***************************************************************************)
THEOREM EntryFrozenHolds == ASSUME MaxActive = 1 PROVE Spec => EntryFrozen
<1>1. ASSUME Typed, Backed, [Next]_vars, result \in Procs
      PROVE  UNCHANGED <<result, entry>>
  <2>1. CASE UNCHANGED vars
    BY <2>1 DEF vars
  <2>2. ASSUME NEW p \in Procs,
               BeginStore(p) \/ EndStore(p) \/ BeginCommit(p) \/ EndCommit(p)
        PROVE  FALSE
    <3>1. pc[p] \in {"store", "storing", "committing"}
      BY <2>2 DEF BeginStore, EndStore, BeginCommit, EndCommit, Goto
    <3>2. QED BY <1>1, <3>1 DEF Backed, Missed
  <2>3. CASE Next
    BY <2>2, <2>3 DEF Next, Begin, Lookup, BeginMaterialize, EndMaterialize, Reuse, Complete,
                      Fail, AbandonStore, WriteManifest, Die
  <2>4. QED BY <1>1, <2>1, <2>3
<1>2. Typed /\ Backed /\ [Next]_vars => [(result \in Procs) => UNCHANGED <<result, entry>>]_vars
  BY <1>1
<1>3. QED BY <1>2, Invariance, PTL DEF Spec, EntryFrozen

=============================================================================
