----------------------------- MODULE MCJobQueue -----------------------------
EXTENDS JobQueue, TLC
Delays == <<1>>
Threads == Permutations(Workers)
=============================================================================
