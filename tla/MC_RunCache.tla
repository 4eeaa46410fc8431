---------------------------- MODULE MC_RunCache -----------------------------
EXTENDS RunCache, TLC

\* Run ids are interchangeable.
RunIds == Permutations(Runs)

\* scores.json is replaced wherever the trace is, so it adds nothing.
MCArtifacts == <<"log", "outputs", "trace">>
=============================================================================
