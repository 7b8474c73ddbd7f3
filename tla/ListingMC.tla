----------------------------- MODULE ListingMC -----------------------------
EXTENDS Listing, TLC
MCPages == {1, 9}
MCSizes == {None, 0, 15}
Symmetric == Permutations(Writer)
=============================================================================
