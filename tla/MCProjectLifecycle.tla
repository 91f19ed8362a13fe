------------------------ MODULE MCProjectLifecycle ------------------------
\* Instances of ProjectLifecycle for TLC: the requests in flight and the workers
\* are interchangeable, so runs that check no liveness use their permutations.
EXTENDS ProjectLifecycle, TLC

Symmetry == Permutations(Requests) \cup Permutations(Workers)
=============================================================================
