----------------------------- MODULE MCPageLock -----------------------------
\* PageLock for TLC: the tabs are interchangeable in every safety property.
EXTENDS PageLock, TLC

Symmetry == Permutations(Tabs)
=============================================================================
