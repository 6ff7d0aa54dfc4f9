---------------------------- MODULE MCNodeEdges ----------------------------
(* A node of three slots and three edges. *)
EXTENDS NodeEdges

CONSTANTS e1, e2, e3

ThreeEdges == {e1, e2, e3}
=============================================================================
