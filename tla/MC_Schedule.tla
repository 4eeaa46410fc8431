---------------------------- MODULE MC_Schedule -----------------------------
EXTENDS Schedule, TLC
CONSTANTS t1, t2, a1, a2, b1, b2

\* Two tasks of two variants, the second task in the opposite order.
MCWork == <<a1, a2, b2, b1>>
MCTasks == <<t1, t2>>
MCTaskOf == a1 :> t1 @@ a2 :> t1 @@ b1 :> t2 @@ b2 :> t2
=============================================================================
