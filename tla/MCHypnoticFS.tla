---------------------------- MODULE MCHypnoticFS ----------------------------
(***************************************************************************)
(* Two names on two levels, files of no bytes and of two, four slots, and  *)
(* an image that has room for seven bytes.  The kernel writes two bytes at *)
(* the beginning of a file or behind its first byte.                       *)
(***************************************************************************)
EXTENDS HypnoticFSWrite

MCNames == {"a", "b"}
MCSizes == {0, 2}
=============================================================================
