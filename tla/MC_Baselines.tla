----------------------------- MODULE MC_Baselines -----------------------------
(* Two runs of one variant with two epochs; two commands.                   *)
EXTENDS Baselines, TLC

CONSTANTS variant, r1, r2, p1, p2

MCCells == {<<variant, 1>>, <<variant, 2>>}
MCShaky == {<<variant, 1>>}
Symmetry == Permutations(Runs) \cup Permutations(Commands)

=============================================================================
