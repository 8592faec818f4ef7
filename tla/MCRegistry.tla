----------------------------- MODULE MCRegistry -----------------------------
EXTENDS Registry, TLC

OneField == {{"name"}, {"description"}}
Symmetry == Permutations(Requests) \cup Permutations(Apps)
=============================================================================
