---- MODULE MCRupConnector ----
EXTENDS RupConnector, TLC
Sym == Permutations(IoObjs)
====
