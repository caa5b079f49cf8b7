--------------------------- MODULE MCIndexManager ---------------------------
(***************************************************************************)
(* IndexManager for TLC: the two indexes that main creates, in one bucket, *)
(* the first with keys enough for every rotation on the way in and on the  *)
(* way out, the second with one.                                           *)
(***************************************************************************)
EXTENDS IndexManager

MCIndexes == {"customer.c_custkey", "orders.o_orderkey"}

MCKeysOf == [n \in MCIndexes |-> IF n = "customer.c_custkey" THEN 1 .. 6 ELSE {1}]

MCHashOf == [n \in MCIndexes |-> 0]
=============================================================================
