------------------------------ MODULE MCHiring -------------------------------
EXTENDS Hiring, TLC

\* Requests and documents are interchangeable: all are asked for by default.
Symmetry == Permutations(Requests) \union Permutations(Docs)
=============================================================================
