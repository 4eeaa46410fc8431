---------------------------- MODULE MC_EvalRun -----------------------------
EXTENDS EvalRun, TLC
CONSTANTS t1, t2, c1, c2, r1, r2, h1, h2

\* One cell per task: the smallest matrix on which --task makes a difference.
MCTaskOf == c1 :> t1 @@ c2 :> t2

\* The mode sets: replay and --cache kept apart, or not.
Real == [synthetic |-> FALSE, cache |-> FALSE]
RealCached == [synthetic |-> FALSE, cache |-> TRUE]
Replay == [synthetic |-> TRUE, cache |-> FALSE]
ApartModes == {Real, RealCached, Replay}
DockerModes == {Real, RealCached}
AllModes == Mode

\* Run ids, fixture contents, and tasks together with their cell are
\* interchangeable.
SwapTasks == t1 :> t2 @@ t2 :> t1 @@ c1 :> c2 @@ c2 :> c1
SwapTasksOnly == {SwapTasks}
Interchangeable == Permutations({r1, r2}) \cup Permutations({h1, h2}) \cup {SwapTasks}
=============================================================================
