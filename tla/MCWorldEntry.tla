---------------------------- MODULE MCWorldEntry ----------------------------
EXTENDS WorldEntry

MCUpper == [n \in Typed |-> IF n = "arlyon" THEN "ARLYON" ELSE n]
=============================================================================
