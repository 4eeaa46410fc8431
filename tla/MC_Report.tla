------------------------------ MODULE MC_Report ------------------------------
(* Small instance of Report for TLC. *)
EXTENDS Report

CONSTANTS a, b   \* two words

\* One of the words is the mark of an epoch.
MCWords == {a, b, EpochWord(2)}

MCScores == {1, 2, 4}
MCPRange == {0, 1, 2, 3, 4, 6, 7}

=============================================================================
