----------------------------- MODULE MCDaveSession -----------------------------
EXTENDS DaveSession, TLC

Symmetry == Permutations(Present) \cup Permutations(Users \ Present)

\* For a run of more batches, as a CONSTRAINT: no message overtakes another.
InOrderOnly == overtaken = {}
=============================================================================
