---- MODULE MCRupEndpoint ----
EXTENDS RupEndpoint, TLC
Sym == Permutations(IoObjs)
====
