------------------------------ MODULE MCCards -------------------------------
EXTENDS Cards, TLC

\* Nothing tells the requests of a session apart.
Alike == Permutations(Requests)

=============================================================================
