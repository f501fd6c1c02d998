------------------------------ MODULE MCStorage ------------------------------
EXTENDS Storage, TLC

\* Documents of an admissible size are alike, and so are the writers.
Alike == Permutations(Doc \ TooBig) \cup Permutations(Writer)
=============================================================================
