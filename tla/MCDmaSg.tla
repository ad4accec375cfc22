------------------------------ MODULE MCDmaSg ------------------------------
(* Instances of DmaSg for TLC: eleven blocks of memory.  The coherent      *)
(* buffers are in blocks 1 and 2, the others in blocks 3 to 11.            *)
EXTENDS DmaSg

Place(w, r) ==
  [b \in Buffers |-> CASE b = "src" -> 1 [] b = "dst" -> 2
                       [] b \in {WBuf[i] : i \in 1..3} ->
                            w[CHOOSE i \in 1..3 : WBuf[i] = b]
                       [] OTHER -> r[CHOOSE i \in 1..3 : RBuf[i] = b]]

(* Adjacent and in order; the other way round; with holes between them.    *)
Adjacent  == Place(<<3, 4, 5>>, <<6, 7, 8>>)
Backwards == Place(<<8, 7, 6>>, <<5, 4, 3>>)
Scattered == Place(<<3, 6, 7>>, <<9, 8, 4>>)

AllLayouts == {Adjacent, Backwards, Scattered}
=============================================================================
