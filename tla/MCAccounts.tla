----------------------------- MODULE MCAccounts -----------------------------
EXTENDS Accounts, TLC

\* Requests, tabs, handles and links are interchangeable.
Symmetry == Permutations(Requests) \union Permutations(Tabs) \union Permutations(Handles)
                \union Permutations(Links)
=============================================================================
