------------------------------ MODULE MCConfig -----------------------------
\* Instances of Config for TLC.
EXTENDS Config, TLC

CONSTANTS n1, n2

MCName  == {n1, n2}
Numbers == {40, 41}
None    == {}

\* Names are alike.
Symmetry == Permutations(MCName)
=============================================================================
