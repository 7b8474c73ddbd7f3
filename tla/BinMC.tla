------------------------------- MODULE BinMC -------------------------------
EXTENDS BinProps, TLC
Symmetric == Permutations(Job) \union Permutations(RecordId)
                \union Permutations(AttId)
=============================================================================
