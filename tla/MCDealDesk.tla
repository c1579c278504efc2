----------------------------- MODULE MCDealDesk -----------------------------
EXTENDS DealDesk, TLC

\* Calls are interchangeable: no action compares or orders them.
Symmetry == Permutations(Calls)
==============================================================================
