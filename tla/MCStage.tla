-------------------------------- MODULE MCStage --------------------------------
\* Two attempts, which overlap, streams of others and captures, which may be used again.
EXTENDS Stage, TLC

Interchangeable == Permutations(Attempt) \cup Permutations(Session) \cup Permutations(Capture)
=============================================================================
