------------------------- MODULE DispatcherRefines --------------------------
(* Dispatcher implements ProcessLifecycle: the refinement mapping. *)
EXTENDS Dispatcher

OnCpu(p) == \E c \in CPUs : current_pid[c] = p

StateOf(p) ==
  IF ~InTable(p) THEN "absent"
  ELSE IF OnCpu(p) THEN "running"
  ELSE IF ~proc[p].run THEN "broken"
  ELSE IF proc[p].pending_exit THEN "exiting"
  ELSE IF proc[p].suspend # "none" THEN "blocked"
  ELSE "ready"

Lifecycle == INSTANCE ProcessLifecycle WITH
  None <- 0,
  state <- [p \in Pids |-> StateOf(p)],
  on <- current_pid

\* Every step of the dispatcher, of the kernel functions and of the interrupt
\* code is a legal move of the life cycle of one process, or none at all.
LifecycleSpec == Lifecycle!Spec
=============================================================================
