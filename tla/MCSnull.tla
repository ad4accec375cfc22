------------------------------ MODULE MCSnull ------------------------------
(* Instances of Snull for TLC: sn0 and sn1, with small pools.              *)
EXTENDS Snull

MCDev  == {"sn0", "sn1"}
MCPeer == [d \in MCDev |-> IF d = "sn0" THEN "sn1" ELSE "sn0"]

(* A failed kmalloc in snull_setup_pool leaves sn1 with a single buffer.   *)
MCPoolSize == [d \in MCDev |-> IF d = "sn0" THEN 2 ELSE 1]
=============================================================================
