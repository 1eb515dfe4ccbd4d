------------------------------- MODULE MCLanding -------------------------------
\* One page, attempts and requests that are alike.
EXTENDS Landing, TLC

Interchangeable == Permutations(Attempt) \cup Permutations(Call)
=============================================================================
