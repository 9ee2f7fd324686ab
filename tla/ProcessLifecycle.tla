-------------------------- MODULE ProcessLifecycle --------------------------
(***************************************************************************)
(* What the kernel promises of a process, whatever the order of its        *)
(* internal steps: the states a process goes through, and that a CPU runs  *)
(* at most one process and a process runs on at most one CPU.  Dispatcher  *)
(* implements this specification under the mapping of DispatcherRefines.   *)
(***************************************************************************)
CONSTANTS
  CPUs,
  Pids,
  None  \* the CPU runs no process; None is not in Pids

States == {"absent", "broken", "ready", "running", "blocked", "exiting"}

VARIABLES
  state, \* the state of each process
  on     \* the process each CPU runs, or None

vars == <<state, on>>

Init ==
  /\ state \in [Pids -> {"absent", "ready"}]
  /\ on = [c \in CPUs |-> None]

\* A process is created ready, or (when its set-up fails half-way) it can never
\* run.  It is created by a process that is running.
Create(p) ==
  /\ state[p] = "absent"
  /\ \E c \in CPUs : on[c] # None
  /\ state' \in {[state EXCEPT ![p] = s] : s \in {"ready", "broken"}}
  /\ UNCHANGED on

Dispatch(c, p) ==
  /\ on[c] = None /\ state[p] = "ready"
  /\ on' = [on EXCEPT ![c] = p]
  /\ state' = [state EXCEPT ![p] = "running"]

\* The process leaves its CPU: preempted, suspended, exited, or ended by an
\* exception.
Leave(c, next) ==
  /\ on[c] # None
  /\ state' = [state EXCEPT ![on[c]] = next]
  /\ on' = [on EXCEPT ![c] = None]

Wake(p) ==
  /\ state[p] = "blocked"
  /\ state' = [state EXCEPT ![p] = "ready"]
  /\ UNCHANGED on

Reap(p) ==
  /\ state[p] = "exiting"
  /\ state' = [state EXCEPT ![p] = "absent"]
  /\ UNCHANGED on

Next ==
  \/ \E p \in Pids : Create(p) \/ Wake(p) \/ Reap(p)
  \/ \E c \in CPUs, p \in Pids : Dispatch(c, p)
  \/ \E c \in CPUs, next \in {"ready", "blocked", "exiting", "absent"} :
       Leave(c, next)

Spec == Init /\ [][Next]_vars
=============================================================================
