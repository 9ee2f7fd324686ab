---------------------------- MODULE MCDispatcher ----------------------------
(* Instances of Dispatcher for TLC. *)
EXTENDS DispatcherRefines

CONSTANTS c1, c2

OneCpu  == {c1}
TwoCpus == {c1, c2}

NoIrqs   == {}
\* The keyboard, a line without a handler, and the line with the wrong vector.
Lines == {1, 7, 18}
Keyboard == {1}
=============================================================================
