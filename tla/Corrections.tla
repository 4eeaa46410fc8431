----------------------------- MODULE Corrections -----------------------------
(***************************************************************************)
(* Which deltas of a report keep their `*` when all tests of a task are    *)
(* taken together (report._apply_mc_correction): Holm-Bonferroni or        *)
(* Benjamini-Hochberg over the family's p-values, in row order.            *)
(*                                                                         *)
(* A p-value is a natural number of units of which Alpha make the level    *)
(* 0.05; the quotients of the code are compared after multiplying out      *)
(* (exactly, where the code rounds to floating point).                     *)
(***************************************************************************)
EXTENDS Integers, FiniteSets

CONSTANTS
  Alpha,         \* the level, in units of a p-value
  MinReliableN,  \* MIN_RELIABLE_N
  None           \* Python's None

ASSUME CorrectionsAssumption == Alpha \in Nat /\ MinReliableN \in Nat \ {0, 1} /\ None \notin BOOLEAN

\* A family is a function from the places of its rows to p-values.
Size(p) == Cardinality(DOMAIN p)

\* Place of i in the stable sort of the family, from 0.
Rank(p, i) == Cardinality({j \in DOMAIN p : p[j] < p[i] \/ (p[j] = p[i] /\ j < i)})

\* _holm_bonferroni: the first that fails its threshold stops all further ones.
Holm(p) ==
  {i \in DOMAIN p : \A j \in DOMAIN p :
     Rank(p, j) <= Rank(p, i) => p[j] * (Size(p) - Rank(p, j)) <= Alpha}

\* _benjamini_hochberg: everything up to the last that passes.
BenjaminiHochberg(p) ==
  {i \in DOMAIN p : \E k \in DOMAIN p :
     /\ Rank(p, i) <= Rank(p, k)
     /\ p[k] * Size(p) <= (Rank(p, k) + 1) * Alpha}

(***************************************************************************)
(* A row: its number of pairs, its p-value (none with fewer than two       *)
(* pairs) and its marker, None with fewer pairs than are reliable.  A row  *)
(* against a baseline also says whether it is a regression.                *)
(***************************************************************************)
Testable(rows) == {i \in DOMAIN rows : rows[i].p # None /\ rows[i].n >= MinReliableN}

PValues(rows) == [i \in Testable(rows) |-> rows[i].p]

Rejected(p, method) == IF method = "holm" THEN Holm(p) ELSE BenjaminiHochberg(p)

\* Mutant: the decision is taken over, for markers that were not set too.
MarkersDecided(rows, method) ==
  [i \in DOMAIN rows |->
     IF method # "none" /\ i \in Testable(rows)
     THEN [rows[i] EXCEPT !.significant = i \in Rejected(PValues(rows), method)] ELSE rows[i]]

\* _apply_mc_correction, and _apply_baseline_mc_correction for rows that say
\* whether they are a regression.
Markers(rows, method) ==
  [i \in DOMAIN rows |->
     IF /\ method # "none" /\ i \in Testable(rows)
        /\ rows[i].significant = TRUE /\ i \notin Rejected(PValues(rows), method)
     THEN [rows[i] EXCEPT !.significant = FALSE, !.regression = FALSE]
     ELSE rows[i]]

-----------------------------------------------------------------------------
\* Closed testing: i is rejected when Bonferroni rejects every intersection of
\* hypotheses with i in it.  Controls the family-wise error rate by definition.
ClosedTesting(p) ==
  {i \in DOMAIN p : \A s \in SUBSET DOMAIN p :
     i \in s => \E j \in s : p[j] * Cardinality(s) <= Alpha}

\* The false-discovery threshold: the largest level k/m Alpha below which there
\* are at least k p-values.
UpToThreshold(p) ==
  {i \in DOMAIN p : \E k \in 1..Size(p) :
     /\ p[i] * Size(p) <= k * Alpha
     /\ Cardinality({j \in DOMAIN p : p[j] * Size(p) <= k * Alpha}) >= k}

=============================================================================
