-------------------------- MODULE MC_FixtureCache --------------------------
EXTENDS FixtureCache, TLC
CONSTANTS a, b, good, other, p1, p2, p3

\* Three calls race for one declared fixture; the server may answer with the
\* wrong bytes.
MCDigest == good :> a @@ other :> b
=============================================================================
