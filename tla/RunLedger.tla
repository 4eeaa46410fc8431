----------------------------- MODULE RunLedger -----------------------------
(***************************************************************************)
(* What `run`, `run --resume` and `run --cache` promise together, with the *)
(* mechanism left out: every run directory is a ledger of the cells whose  *)
(* container ran to completion.  A recorded completion is never taken back *)
(* and never replaced by another execution of the cell; the one exception  *)
(* is a manifest file that was torn while it was written, which reads as   *)
(* an empty ledger (docs/configuration.md, "Resuming a run").              *)
(***************************************************************************)

CONSTANTS
  Runs,     \* run directories
  Cells,    \* cells of the evaluation matrix
  NoRow     \* "nothing recorded for this cell"

VARIABLE ledger   \* ledger[r][c]: the completed row of cell c in run r, or NoRow

Empty == [c \in Cells |-> NoRow]

Init == ledger = [r \in Runs |-> Empty]

\* Some cells of one run become recorded; those already recorded stay.
Record(r) ==
  /\ ledger' = [ledger EXCEPT ![r] = ledger'[r]]
  /\ \A c \in Cells : ledger[r][c] # NoRow => ledger'[r][c] = ledger[r][c]

\* The manifest file of one run is torn.
Lose(r) == ledger' = [ledger EXCEPT ![r] = Empty]

Next == \E r \in Runs : Record(r) \/ Lose(r)

Spec == Init /\ [][Next]_ledger

=============================================================================
