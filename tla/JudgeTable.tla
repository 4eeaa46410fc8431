----------------------------- MODULE JudgeTable -----------------------------
(***************************************************************************)
(* What judge scoring promises, with the mechanism left out: a table of    *)
(* judge scores, cell by cell.  A cell is judged as a whole: all its       *)
(* judges get an entry in one step, and no analysis leaves a cell half     *)
(* judged.  The only other step forgets a cell: it was executed again, or  *)
(* its file was torn.                                                      *)
(***************************************************************************)
CONSTANTS
  Cells,
  JudgesOf,   \* the judges of a cell's task
  Verdicts,   \* rows of the table
  NoEntry,
  Unjudged    \* the row without an entry

VARIABLE table   \* table[c][j]: the score of judge j for cell c, or NoEntry

Init == table \in [Cells -> Verdicts]

Whole(c, v) == \A j \in JudgesOf[c] : v[j] # NoEntry

Judge(c) ==
  \E v \in Verdicts : Whole(c, v) /\ table' = [table EXCEPT ![c] = v]

Forget(c) == table' = [table EXCEPT ![c] = Unjudged]

Next == \E c \in Cells : Judge(c) \/ Forget(c)

Spec == Init /\ [][Next]_table

=============================================================================
