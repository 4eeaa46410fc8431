--------------------------- MODULE MC_JudgeScoring ---------------------------
(* Two cells: one with inline and metric evaluators and two judges, one with *)
(* a single judge and nothing inline.                                        *)
EXTENDS JudgeScoring

CONSTANTS c1, c2, style, facts

MCJudgesOf == [c \in Cells |-> IF c = c1 THEN {style, facts} ELSE {facts}]

=============================================================================
