----------------------------- MODULE LimiterMC -----------------------------
EXTENDS Limiter, TLC
Symmetric == Permutations(Thread) \union Permutations(Ip)
=============================================================================
