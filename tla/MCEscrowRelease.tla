-------------------------- MODULE MCEscrowRelease --------------------------
\* Instances of EscrowRelease for TLC.  The amounts are a plain one, one whose
\* share is no whole cent, two whose share the floating-point product misses by
\* a cent (90 and 170) and the smallest charge the service accepts (50).
EXTENDS EscrowRelease, TLC

Amounts == {50, 90, 99, 100, 170}
OneAmount == {100}
Symmetry == Permutations(Requests) \cup Permutations(Workers)
=============================================================================
