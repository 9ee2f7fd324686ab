--------------------------- MODULE MCOpenIndices ----------------------------
(* Instances of OpenIndices for TLC. *)
EXTENDS OpenIndices

TwoPids == {1, 2}
=============================================================================
