------------------------------- MODULE Batch --------------------------------
(***************************************************************************)
(* What executing a batch of cells promises (orchestrator.py run_command   *)
(* around _execute_schedule), with no strategy, pool or order in it: every *)
(* cell to do is executed at most once; the batch ends with one row of     *)
(* each, or it raises and the caller gets none.  It may also be abandoned: *)
(* the caller gets none, either, and cells are executed behind its back.   *)
(***************************************************************************)
EXTENDS Naturals, FiniteSets, Sequences, Functions

CONSTANT Cells

VARIABLES
  todo,      \* the cells to execute
  executed,  \* cells whose execution has begun
  rows,      \* what the caller has, as the cells of the rows in their order
  outcome    \* "running", "returned", "raised" or "abandoned"

Init ==
  /\ todo \subseteq Cells
  /\ executed = {} /\ rows = <<>> /\ outcome = "running"

Execute ==
  /\ outcome \in {"running", "abandoned"}
  /\ \E c \in todo \ executed : executed' = executed \cup {c}
  /\ UNCHANGED <<todo, rows, outcome>>

Return ==
  /\ outcome = "running" /\ executed = todo
  /\ outcome' = "returned"
  /\ rows' \in Bijection(1..Cardinality(todo), todo)
  /\ UNCHANGED <<todo, executed>>

Raise ==
  /\ outcome = "running"
  /\ outcome' = "raised"
  /\ UNCHANGED <<todo, executed, rows>>

Abandon ==
  /\ outcome = "running"
  /\ outcome' = "abandoned"
  /\ UNCHANGED <<todo, executed, rows>>

Spec == Init /\ [][Execute \/ Return \/ Raise \/ Abandon]_<<todo, executed, rows, outcome>>
=============================================================================
