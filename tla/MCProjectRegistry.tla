-------------------------- MODULE MCProjectRegistry --------------------------
\* Instances of ProjectRegistry for model checking.
EXTENDS ProjectRegistry, TLC

CONSTANTS c1, c2, c3, r1, r2

ThreeCalls == {c1, c2, c3}
TwoRoots   == {r1, r2}

\* Sound for the safety run: no property or constant names a call or a root.
Symmetry == Permutations(ThreeCalls) \cup Permutations(TwoRoots)

=============================================================================
