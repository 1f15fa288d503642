----------------------------- MODULE MCRupRecv -----------------------------
EXTENDS RupRecv

BodySizes == [op \in Opcodes |-> IF op = "HB" THEN 0 ELSE IF op = "TEST" THEN 1 ELSE 2]

=============================================================================
