------------------------------ MODULE MC_Analyze ------------------------------
(* Two variants, two epochs; one cell is shaky.                               *)
EXTENDS Analyze

CONSTANTS base, exp

MCShaky == {<<base, 1>>}

=============================================================================
