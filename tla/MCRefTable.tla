------------------------------- MODULE MCRefTable -------------------------------
\* Small instances of RefTable.
EXTENDS RefTable, TLC

Symmetric == Permutations(Processes) \cup Permutations(Objects)
================================================================================
