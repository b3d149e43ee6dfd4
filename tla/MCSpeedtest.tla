----------------------------- MODULE MCSpeedtest -----------------------------
EXTENDS Speedtest, TLC

CONSTANTS s1, s2, r1, r2

MCRamp == <<50000, 100000>>
Symmetric == Permutations(Sessions) \cup Permutations(Runs)
==============================================================================
