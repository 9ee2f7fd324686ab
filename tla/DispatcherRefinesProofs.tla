----------------------- MODULE DispatcherRefinesProofs -----------------------
(***************************************************************************)
(* Proofs about Dispatcher: every step of the interrupt code, the kernel   *)
(* functions and the dispatcher is a legal move of ProcessLifecycle or     *)
(* none, and the cycle is not increased before everyone has been served,   *)
(* for every number of CPUs and pids and for every workload.               *)
(***************************************************************************)
EXTENDS DispatcherRefines, DispatcherProofs

-----------------------------------------------------------------------------
(* The invariants that the mapping needs besides Kernel.                   *)

\* A kernel function is called by a process only: a CPU that has none never has the
\* vector of the kernel functions, from the gate to the end of IdtCall.
Called ==
  \A c \in CPUs : current_pid[c] = 0 =>
    /\ pc[c] = "spin" => trap[c].vector # VectorFunction
    /\ pc[c] \in {"entry", "call"} => IdtCallFrame.vector # VectorFunction

\* Only a process that was released by run is ever suspended or exits.
Started ==
  \A p \in Pids :
    proc[p].suspend # "none" \/ proc[p].pending_exit => proc[p].run

-----------------------------------------------------------------------------
(* The state of one process under the mapping.                             *)

Life == [p \in Pids |-> StateOf(p)]

\* What StateOf looks at.
SameLife(p) ==
  /\ InTable(p)' <=> InTable(p)
  /\ OnCpu(p)' <=> OnCpu(p)
  /\ proc'[p].run = proc[p].run
  /\ proc'[p].pending_exit = proc[p].pending_exit
  /\ (proc'[p].suspend = "none") <=> (proc[p].suspend = "none")

LEMMA StateKept ==
  ASSUME NEW p \in Pids, SameLife(p)
  PROVE  StateOf(p)' = StateOf(p)
  BY DEF SameLife, StateOf

\* No process moves.
LEMMA LifeKept ==
  ASSUME \A p \in Pids : SameLife(p), current_pid' = current_pid
  PROVE  UNCHANGED Lifecycle!vars
<1>1. Life' = Life
  BY StateKept DEF Life
<1> QED BY <1>1 DEF Lifecycle!vars, Life

\* One process moves.
LEMMA LifeMoved ==
  ASSUME NEW p \in Pids, \A q \in Pids \ {p} : SameLife(q)
  PROVE  Life' = [Life EXCEPT ![p] = StateOf(p)']
<1>1. \A q \in Pids \ {p} : StateOf(q)' = StateOf(q)
  BY StateKept
<1> QED BY <1>1 DEF Life

\* The process of a CPU is "running".
LEMMA RunningState ==
  ASSUME Kernel, NEW c \in CPUs, NEW p, p = current_pid[c], p # 0
  PROVE  p \in Pids /\ InTable(p) /\ StateOf(p) = "running" /\ Runnable(proc[p])
  BY CurrentIsPid DEF Kernel, Table, CurrentInTable, CurrentRunnable, StateOf, OnCpu

-----------------------------------------------------------------------------
(* The moves.                                                              *)

\* A CPU gives its process up, which is then in the state next.
LEMMA LeaveMove ==
  ASSUME Kernel, NEW c \in CPUs, NEW p, p = current_pid[c], p # 0,
         current_pid' = [current_pid EXCEPT ![c] = 0],
         \A q \in Pids \ {p} : SameLife(q),
         StateOf(p)' \in {"ready", "blocked", "exiting", "absent"}
  PROVE  Lifecycle!Next
<1>1. p \in Pids
  BY RunningState
<1>2. Life' = [Life EXCEPT ![p] = StateOf(p)']
  BY <1>1, LifeMoved
<1>3. Lifecycle!Leave(c, StateOf(p)')
  BY <1>2 DEF Lifecycle!Leave, Life
<1> QED BY <1>3 DEF Lifecycle!Next

\* Without its CPU, a process is off all CPUs; the others stay where they are.
LEMMA OffCpu ==
  ASSUME Kernel, NEW c \in CPUs, NEW p, p = current_pid[c], p # 0,
         current_pid' = [current_pid EXCEPT ![c] = 0]
  PROVE  /\ ~OnCpu(p)'
         /\ \A q \in Pids \ {p} : OnCpu(q)' <=> OnCpu(q)
<1>1. current_pid'[c] = 0 /\ \A d \in CPUs \ {c} : current_pid'[d] = current_pid[d]
  BY DEF Kernel, TypeOK
<1>2. \A d \in CPUs \ {c} : current_pid[d] # p
  BY DEF Kernel, Table, OneCpuPerProcess
<1>3. 0 \notin Pids
  BY DEF Pids
<1> QED BY <1>1, <1>2, <1>3 DEF OnCpu

\* DispatcherSave of the structs pr takes a process off its CPU.
LEMMA SaveMove ==
  ASSUME Kernel, NEW c \in CPUs, current_pid[c] # 0,
         NEW pr \in [Pids -> ProcSet], proc' = DispatcherSave(pr, c),
         current_pid' = [current_pid EXCEPT ![c] = 0], processes' = processes,
         \A q \in Pids :
           /\ pr[q].run = proc[q].run
           /\ q # current_pid[c] =>
                /\ pr[q].pending_exit = proc[q].pending_exit
                /\ pr[q].suspend = proc[q].suspend
  PROVE  Lifecycle!Next
<1>1. PICK p : p = current_pid[c]
  OBVIOUS
<1>2. p \in Pids /\ InTable(p) /\ proc[p].run /\ IdtCallSaved \in RegSet
  BY <1>1, RunningState DEF Runnable, Kernel, TypeOK
<1>3. proc' = [pr EXCEPT ![p] = SaveIn(pr[p])]
  BY <1>1 DEF DispatcherSave
<1>4. \A f \in ProcSet : /\ SaveIn(f).run = f.run /\ SaveIn(f).suspend = f.suspend
                         /\ SaveIn(f).pending_exit = f.pending_exit
  BY DEF SaveIn, ProcSet
<1>5. /\ proc'[p].run
      /\ \A q \in Pids \ {p} : proc'[q] = pr[q]
  BY <1>2, <1>3, <1>4
<1>6. ~OnCpu(p)' /\ \A q \in Pids \ {p} : OnCpu(q)' <=> OnCpu(q)
  BY <1>1, OffCpu DEF OnCpu
<1>7. \A q : InTable(q)' <=> InTable(q)
  BY DEF InTable
<1>8. \A q \in Pids \ {p} : SameLife(q)
  BY <1>1, <1>5, <1>6, <1>7 DEF SameLife
<1>9. StateOf(p)' \in {"ready", "blocked", "exiting", "absent"}
  BY <1>2, <1>5, <1>6, <1>7 DEF StateOf
<1> QED BY <1>1, <1>8, <1>9, LeaveMove

LEMMA SuspendMove ==
  ASSUME Kernel, NEW c \in CPUs, current_pid[c] # 0, NEW suspend \in Suspends,
         NEW data \in DataSet, NEW pending_exit \in BOOLEAN,
         KernelFunctionSuspend(c, suspend, data, pending_exit)
  PROVE  Lifecycle!Next
<1> DEFINE pr == [proc EXCEPT ![current_pid[c]] =
                   [@ EXCEPT !.suspend = suspend, !.data = data,
                             !.pending_exit = pending_exit]]
<1>1. current_pid[c] \in Pids
  BY CurrentIsPid DEF Kernel
<1>2. \A q \in Pids : q # current_pid[c] => pr[q] = proc[q]
  BY DEF Kernel, TypeOK
<1>3. pr[current_pid[c]].run = proc[current_pid[c]].run
  BY <1>1 DEF Kernel, TypeOK, ProcSet
<1>4. pr \in [Pids -> ProcSet]
  BY <1>1, SuspendedType DEF Kernel, TypeOK
<1>5. /\ proc' = DispatcherSave(pr, c) /\ processes' = processes
      /\ current_pid' = [current_pid EXCEPT ![c] = 0]
  BY DEF KernelFunctionSuspend
<1> HIDE DEF pr
<1> QED BY <1>2, <1>3, <1>4, <1>5, SaveMove

LEMMA SuspendingMove ==
  ASSUME Kernel, NEW c \in CPUs, current_pid[c] # 0,
         KernelFunctionExit(c) \/ KernelFunctionSleep(c) \/ KernelFunctionRead(c)
  PROVE  Lifecycle!Next
<1>1. {"sleep", "read", "exit"} \subseteq Suspends /\ {TRUE, FALSE} \subseteq BOOLEAN
  BY DEF Suspends
<1>2. /\ \A n \in Nat, b \in BOOLEAN : [left |-> n, ok |-> b] \in DataSet
      /\ NoData \in DataSet
  BY DEF DataSet, NoData
<1>3. CASE KernelFunctionExit(c)
  BY <1>1, <1>2, <1>3, SuspendMove DEF KernelFunctionExit
<1>4. CASE KernelFunctionSleep(c)
  <2>1. \A ticks \in SleepUnits : ticks * SleepScale \in Nat
    BY BoundsAssumption
  <2> QED BY <1>1, <1>2, <1>4, <2>1, SuspendMove DEF KernelFunctionSleep
<1>5. CASE KernelFunctionRead(c)
  BY <1>1, <1>2, <1>5, BoundsAssumption, SuspendMove DEF KernelFunctionRead
<1> QED BY <1>3, <1>4, <1>5

\* Preemption, or a timer interrupt in the hlt loop.
LEMMA TimerMove ==
  ASSUME Kernel, NEW c \in CPUs, IdtCallTimer(c)
  PROVE  [Lifecycle!Next]_(Lifecycle!vars)
<1> DEFINE pr == IF c = ApicLocalBspId THEN Ticked(proc) ELSE proc
<1>1. pr \in [Pids -> ProcSet]
  BY TickOfType DEF Ticked, Kernel, TypeOK
<1>2. \A f \in ProcSet : /\ TickOf(f).run = f.run
                         /\ TickOf(f).pending_exit = f.pending_exit
                         /\ TickOf(f).suspend = f.suspend
  BY DEF TickOf, OneLess, ProcSet
<1>3. \A q \in Pids : /\ pr[q].run = proc[q].run
                      /\ pr[q].pending_exit = proc[q].pending_exit
                      /\ pr[q].suspend = proc[q].suspend
  BY <1>2 DEF Ticked, Kernel, TypeOK
<1>4. /\ proc' = DispatcherSave(pr, c) /\ processes' = processes
      /\ current_pid' = [current_pid EXCEPT ![c] = 0]
  BY DEF IdtCallTimer
<1> HIDE DEF pr
<1>5. CASE current_pid[c] # 0
  BY <1>1, <1>3, <1>4, <1>5, SaveMove
<1>6. CASE current_pid[c] = 0
  <2>1. proc' = pr /\ current_pid' = current_pid
    BY <1>4, <1>6 DEF DispatcherSave, Kernel, TypeOK
  <2>2. \A q \in Pids : SameLife(q)
    BY <1>3, <1>4, <2>1 DEF SameLife, InTable, OnCpu
  <2> QED BY <2>1, <2>2, LifeKept
<1> QED BY <1>5, <1>6

\* An exception ends the process that runs.
LEMMA ExceptionMove ==
  ASSUME Kernel, NEW c \in CPUs, ExceptionInProcess(c)
  PROVE  Lifecycle!Next
<1>1. PICK p : p = current_pid[c]
  OBVIOUS
<1>2. /\ p # 0 /\ DispatcherProcessDone(p)
      /\ current_pid' = [current_pid EXCEPT ![c] = 0]
  BY <1>1 DEF ExceptionInProcess
<1>3. p \in Pids /\ InTable(p)
  BY <1>1, <1>2, RunningState
<1>4. ~OnCpu(p)' /\ \A q \in Pids \ {p} : OnCpu(q)' <=> OnCpu(q)
  BY <1>1, <1>2, OffCpu DEF OnCpu
<1>5. \A q : InTable(q)' <=> (InTable(q) /\ q # p)
  <2>1. /\ current_pid' \in [CPUs -> Pid0]
        /\ \A d \in CPUs : /\ current_pid[d] = p => current_pid'[d] = 0
                           /\ current_pid[d] # p => current_pid'[d] = current_pid[d]
    <3>1. 0 \in Pid0
      BY PidAssumption DEF Pid0
    <3> QED BY <1>1, <1>2, <3>1 DEF Kernel, TypeOK, Table, OneCpuPerProcess
  <2> QED BY <1>2, <1>3, <2>1, TableRemoved DEF Kernel
<1>6. \A q \in Pids \ {p} : proc'[q] = proc[q]
  BY <1>2 DEF DispatcherProcessDone, Kernel, TypeOK
<1>7. \A q \in Pids \ {p} : SameLife(q)
  BY <1>4, <1>5, <1>6 DEF SameLife
<1>8. StateOf(p)' = "absent"
  BY <1>5 DEF StateOf
<1> QED BY <1>1, <1>2, <1>7, <1>8, LeaveMove

\* run of a process puts another one in the table.
LEMMA CreateMove ==
  ASSUME Kernel, NEW c \in CPUs, current_pid[c] # 0, NEW p \in Pids,
         NEW run \in BOOLEAN, ~InTable(p), DispatcherProcessNew(p, run),
         current_pid' = current_pid
  PROVE  Lifecycle!Next
<1>1. \A q : InTable(q)' <=> (InTable(q) \/ q = p)
  BY TableAdded DEF Kernel
<1>2. \A q \in Pids \ {p} : proc'[q] = proc[q]
  BY DEF DispatcherProcessNew, Kernel, TypeOK
<1>3. /\ ~proc'[p].pending_exit /\ proc'[p].suspend = "none"
  <2>1. proc'[p] = [NewProcess(p) EXCEPT !.run = run]
    BY DEF DispatcherProcessNew, Kernel, TypeOK
  <2> QED BY <2>1 DEF NewProcess
<1>4. \A q \in Pids : OnCpu(q)' <=> OnCpu(q)
  BY DEF OnCpu
<1>5. ~OnCpu(p)
  <2>1. p # 0
    BY DEF Pids
  <2> QED BY <2>1 DEF Kernel, Table, CurrentInTable, OnCpu
<1>6. StateOf(p) = "absent" /\ StateOf(p)' \in {"ready", "broken"}
  BY <1>1, <1>3, <1>4, <1>5 DEF StateOf
<1>7. Life' = [Life EXCEPT ![p] = StateOf(p)']
  <2>1. \A q \in Pids \ {p} : SameLife(q)
    BY <1>1, <1>2, <1>4 DEF SameLife
  <2> QED BY <2>1, LifeMoved
<1>8. Lifecycle!Create(p)
  BY <1>6, <1>7 DEF Lifecycle!Create, Life
<1> QED BY <1>8 DEF Lifecycle!Next

\* Whatever leaves the table, the structs and the CPUs' processes alone.
LEMMA QuietMove ==
  ASSUME processes' = processes, proc' = proc, current_pid' = current_pid
  PROVE  UNCHANGED Lifecycle!vars
<1>1. \A q \in Pids : SameLife(q)
  BY DEF SameLife, InTable, OnCpu
<1> QED BY <1>1, LifeKept

LEMMA RunMove ==
  ASSUME Kernel, NEW c \in CPUs, current_pid[c] # 0, KernelFunctionRun(c)
  PROVE  [Lifecycle!Next]_(Lifecycle!vars)
<1>1. CASE UNCHANGED <<processes, proc, current_pid>>
  BY <1>1, QuietMove
<1>2. CASE ~UNCHANGED <<processes, proc, current_pid>>
  <2>1. PICK k \in 1..MaxPid :
          /\ FreePid(k)
          /\ DispatcherProcessNew(PidTried(k), TRUE)
               \/ DispatcherProcessNew(PidTried(k), FALSE)
          /\ current_pid' = current_pid
    BY <1>2 DEF KernelFunctionRun, FunctionReturn, HALT, tabVars
  <2>2. PidTried(k) \in Pids /\ ~InTable(PidTried(k))
    BY <2>1, PidTriedType DEF FreePid, Kernel
  <2> QED BY <2>1, <2>2, CreateMove
<1> QED BY <1>1, <1>2

\* DispatcherSetUpNext removes a process that has exited, and no other.
LEMMA ReapMove ==
  ASSUME Kernel, Started, NEW c \in CPUs, ReapExited(c)
  PROVE  Lifecycle!Next
<1>1. PICK p : p = Visited
  OBVIOUS
<1>2. /\ Visiting(c, {"scan"}) /\ proc[p].pending_exit
      /\ DispatcherProcessDone(p) /\ current_pid' = current_pid
  BY <1>1 DEF ReapExited, cpuVars
<1>3. p \in Pids /\ InTable(p)
  BY <1>1, <1>2, VisitedType DEF Visiting, Visited, InTable, Kernel
<1>4. ~OnCpu(p)
  <2>1. p # 0
    BY <1>3 DEF Pids
  <2> QED BY <1>2, <2>1 DEF Kernel, Table, CurrentRunnable, Runnable, OnCpu
<1>5. \A q : InTable(q)' <=> (InTable(q) /\ q # p)
  <2>1. current_pid' \in [CPUs -> Pid0]
    BY <1>2 DEF Kernel, TypeOK
  <2>2. \A d \in CPUs : current_pid[d] # p
    BY <1>4 DEF OnCpu
  <2> QED BY <1>2, <1>3, <2>1, <2>2, TableRemoved DEF Kernel
<1>6. Life' = [Life EXCEPT ![p] = StateOf(p)']
  <2>1. \A q \in Pids \ {p} : proc'[q] = proc[q]
    BY <1>2 DEF DispatcherProcessDone, Kernel, TypeOK
  <2>2. \A q \in Pids \ {p} : SameLife(q)
    BY <1>2, <1>5, <2>1 DEF SameLife, OnCpu
  <2> QED BY <1>3, <2>2, LifeMoved
<1>7. StateOf(p) = "exiting" /\ StateOf(p)' = "absent"
  BY <1>2, <1>3, <1>4, <1>5 DEF StateOf, Started
<1>8. Lifecycle!Reap(p)
  BY <1>2, <1>3, <1>6, <1>7 DEF Lifecycle!Reap, Life
<1> QED BY <1>3, <1>8 DEF Lifecycle!Next

\* A sleep or a read ends, or goes on.
LEMMA TestMove ==
  ASSUME Kernel, Started, NEW c \in CPUs, TestSleep(c) \/ TestRead(c)
  PROVE  [Lifecycle!Next]_(Lifecycle!vars)
<1>1. PICK p : p = Visited
  OBVIOUS
<1>2. /\ Visiting(c, {"scan"}) /\ proc[p].suspend # "none" /\ ~proc[p].pending_exit
      /\ processes' = processes /\ current_pid' = current_pid
  BY <1>1 DEF TestSleep, TestRead, Testing
<1>3. p \in Pids /\ InTable(p)
  BY <1>1, <1>2, VisitedType DEF Visiting, Visited, InTable, Kernel
<1>4. ~OnCpu(p)
  <2>1. p # 0
    BY <1>3 DEF Pids
  <2> QED BY <1>2, <2>1 DEF Kernel, Table, CurrentRunnable, Runnable, OnCpu
<1>5. \/ proc' = proc
      \/ proc' = [proc EXCEPT ![p] = DoneIn(proc[p])]
      \/ proc' = [proc EXCEPT ![p] = OneLess(proc[p])]
  BY <1>1 DEF TestSleep, TestRead, KernelFunctionDone
<1>6. /\ proc[p] \in ProcSet /\ p \in DOMAIN proc
      /\ \A q \in Pids \ {p} : SameLife(q)
  BY <1>2, <1>3, <1>5 DEF SameLife, InTable, OnCpu, Kernel, TypeOK
<1>7. CASE proc' = proc
  BY <1>2, <1>7, QuietMove
<1>8. CASE proc' = [proc EXCEPT ![p] = OneLess(proc[p])]
  <2>1. /\ proc'[p].run = proc[p].run /\ proc'[p].suspend = proc[p].suspend
        /\ proc'[p].pending_exit = proc[p].pending_exit
    BY <1>6, <1>8 DEF OneLess, ProcSet
  <2>2. SameLife(p)
    BY <1>2, <2>1 DEF SameLife, InTable, OnCpu
  <2> QED BY <1>2, <1>6, <2>2, LifeKept
<1>9. CASE proc' = [proc EXCEPT ![p] = DoneIn(proc[p])]
  <2>1. /\ proc'[p].run = proc[p].run /\ proc'[p].suspend = "none"
        /\ proc'[p].pending_exit = proc[p].pending_exit
    BY <1>6, <1>9 DEF DoneIn, ProcSet
  <2>2. StateOf(p) = "blocked" /\ StateOf(p)' = "ready"
    <3>1. ~OnCpu(p)' /\ InTable(p)'
      BY <1>2, <1>3, <1>4 DEF OnCpu, InTable
    <3> QED BY <1>2, <1>3, <1>4, <2>1, <3>1 DEF StateOf, Started
  <2>3. Lifecycle!Wake(p)
    <3>1. Life' = [Life EXCEPT ![p] = StateOf(p)']
      BY <1>3, <1>6, LifeMoved
    <3> QED BY <1>2, <1>3, <2>2, <3>1 DEF Lifecycle!Wake, Life
  <2> QED BY <1>3, <2>3 DEF Lifecycle!Next
<1> QED BY <1>5, <1>7, <1>8, <1>9

\* A CPU that has no process takes a ready one.
LEMMA SelectMove ==
  ASSUME Kernel, NEW c \in CPUs, SelectProcess(c)
  PROVE  Lifecycle!Next
<1>1. PICK p : p = Visited
  OBVIOUS
<1>2. /\ Visiting(c, {"scan", "decide"}) /\ ~proc[p].pending_exit /\ Eligible(p)
      /\ processes' = processes
      /\ current_pid' = [current_pid EXCEPT ![c] = p]
      /\ proc' = [proc EXCEPT ![p] = [proc[p] EXCEPT !.lock = TRUE]]
  BY <1>1 DEF SelectProcess, Tested
<1>3. p \in Pids /\ InTable(p) /\ current_pid[c] = 0
  BY <1>1, <1>2, VisitedType
  DEF Visiting, Visited, InTable, Kernel, Control
<1>4. /\ current_pid'[c] = p
      /\ \A d \in CPUs \ {c} : current_pid'[d] = current_pid[d]
  BY <1>2 DEF Kernel, TypeOK
<1>5. ~OnCpu(p)
  BY <1>2, <1>3 DEF Kernel, Table, OneCpuPerProcess, Eligible, OnCpu
<1>6. \A q \in Pids \ {p} : SameLife(q)
  <2>1. \A q \in Pids \ {p} : OnCpu(q)' <=> OnCpu(q)
    <3>1. 0 \notin Pids
      BY DEF Pids
    <3> QED BY <1>3, <1>4, <3>1 DEF OnCpu
  <2>2. \A q \in Pids \ {p} : proc'[q] = proc[q]
    BY <1>2 DEF Kernel, TypeOK
  <2> QED BY <1>2, <2>1, <2>2 DEF SameLife, InTable
<1>7. StateOf(p) = "ready" /\ StateOf(p)' = "running"
  <2>1. InTable(p)' /\ OnCpu(p)'
    BY <1>2, <1>3, <1>4 DEF InTable, OnCpu
  <2> QED BY <1>2, <1>3, <1>5, <2>1 DEF StateOf, Eligible
<1>8. Lifecycle!Dispatch(c, p)
  <2>1. Life' = [Life EXCEPT ![p] = StateOf(p)']
    BY <1>3, <1>6, LifeMoved
  <2> QED BY <1>2, <1>3, <1>7, <2>1 DEF Lifecycle!Dispatch, Life
<1> QED BY <1>3, <1>8 DEF Lifecycle!Next

-----------------------------------------------------------------------------
(* Called is an invariant.                                                 *)

\* Only the gates and IdtGetLock change what a CPU has trapped, and only IdtGetLock
\* records it.
LEMMA TrapStep ==
  ASSUME NEW c \in CPUs,
         UserStep(c) \/ Interrupts(c) \/ IdtGetLock(c) \/ HandlerStep(c)
  PROVE  \/ \E v : trap' = [trap EXCEPT ![c] = v] /\ IdtCallFrame' = IdtCallFrame
                   /\ Interrupts(c)
         \/ IdtGetLock(c)
         \/ trap' = trap /\ IdtCallFrame' = IdtCallFrame
<1> USE DEF cpuVars, idtVars
<1>1. CASE UserStep(c)
  BY <1>1 DEF UserStep
<1>2. CASE Interrupts(c)
  BY <1>2 DEF Interrupts, TimerInterrupt, FunctionInterrupt, ProcessFault,
     SpuriousInterrupt, DeviceInterrupt, KernelFault, Interrupt
<1>3. CASE HandlerStep(c)
  BY <1>3 DEF HandlerStep, IdtCallManage, ExceptionInProcess, ExceptionInKernel,
     Spurious, HALT, KeyboardIrq, UnhandledIrq, KernelFunctions, KernelFunctionExit,
     KernelFunctionSleep, KernelFunctionRead, KernelFunctionRun, KernelFunctionOther,
     KernelFunctionSuspend, FunctionReturn, IdtCallTimer, SetUpNext, ReapExited,
     TestSleep, TestRead, TestReadBadFd, SkipProcess, SelectProcess, NextCycle,
     NothingToRun, RestoreRegisters, ReleaseAndReturn, IdtWait
<1> QED BY <1>1, <1>2, <1>3

\* The places to which the steps of a handler lead.
LEMMA HandlerGoes ==
  ASSUME TypeOK, NEW c \in CPUs, UserStep(c) \/ HandlerStep(c), ~IdtCallManage(c)
  PROVE  pc'[c] \notin {"spin", "entry", "call"}
<1> USE DEF cpuVars, idtVars
<1>1. CASE UserStep(c) \/ ReapExited(c) \/ NextCycle(c)
  BY <1>1 DEF UserStep, ReapExited, NextCycle, EndOfTable, Visiting
<1>2. CASE ~(UserStep(c) \/ ReapExited(c) \/ NextCycle(c))
  <2>1. \E x \in {"wait", "halted", "restore", "scan", "decide", "release", "user",
                  "idle"} : pc' = [pc EXCEPT ![c] = x]
    BY <1>2 DEF HandlerStep, ExceptionInProcess, ExceptionInKernel, Spurious, HALT,
       KeyboardIrq, UnhandledIrq, KernelFunctions, KernelFunctionExit,
       KernelFunctionSleep, KernelFunctionRead, KernelFunctionRun,
       KernelFunctionOther, KernelFunctionSuspend, FunctionReturn, AfterIdtCall,
       IdtCallTimer, SetUpNext, TestSleep, TestRead, TestReadBadFd, SkipProcess,
       SelectProcess, NothingToRun, RestoreRegisters, ReleaseAndReturn, IdtWait
  <2> QED BY <2>1 DEF TypeOK
<1> QED BY <1>1, <1>2

\* The gates: only a process has the vector of the kernel functions.
LEMMA InterruptVector ==
  ASSUME Kernel, NEW c \in CPUs, Interrupts(c), current_pid[c] = 0
  PROVE  pc'[c] = "spin" /\ trap'[c].vector # VectorFunction
<1>1. pc[c] # "user"
  BY DEF Kernel, Control
<1>2. PICK v : Interrupt(c, v) /\ v # VectorFunction
  <2>1. \A irq \in Irqs : VectorOfIrq(irq) # VectorFunction
    BY WorkloadAssumption DEF VectorOfIrq, VectorFunction
  <2>2. {VectorTimer, VectorSpurious, VectorPageFault} \subseteq 0..240
    BY DEF VectorTimer, VectorSpurious, VectorPageFault
  <2>3. VectorFunction = 241
    BY DEF VectorFunction
  <2> QED
    BY <1>1, <2>1, <2>2, <2>3
    DEF Interrupts, TimerInterrupt, FunctionInterrupt, ProcessFault,
        SpuriousInterrupt, DeviceInterrupt, KernelFault
<1> QED BY <1>2 DEF Interrupt, Kernel, TypeOK

LEMMA StepCalled ==
  ASSUME Kernel, Called, NEW c \in CPUs,
         UserStep(c) \/ Interrupts(c) \/ IdtGetLock(c) \/ HandlerStep(c)
  PROVE  Called'
<1>1. PICK x \in PcSet, q \in Pid0 :
        pc' = [pc EXCEPT ![c] = x] /\ current_pid' = [current_pid EXCEPT ![c] = q]
  BY StepControl DEF Kernel, ControlStep
<1>2. \A d \in CPUs \ {c} : pc'[d] = pc[d] /\ current_pid'[d] = current_pid[d]
  BY <1>1 DEF Kernel, TypeOK
<1>3. \A d \in CPUs \ {c} : trap'[d] = trap[d]
  <2>1. trap' = trap \/ \E v : trap' = [trap EXCEPT ![c] = v]
    BY TrapStep DEF IdtGetLock
  <2> QED BY <2>1 DEF Kernel, TypeOK
<1>4. ASSUME NEW d \in CPUs \ {c}, pc[d] \in {"entry", "call"}
      PROVE  IdtCallFrame' = IdtCallFrame
  <2>1. ~IdtGetLock(c)
    BY <1>4 DEF IdtGetLock, Kernel, MutualExclusion, InHandler, Handler
  <2> QED BY <2>1, TrapStep
<1>5. ASSUME current_pid'[c] = 0
      PROVE  /\ pc'[c] = "spin" => trap'[c].vector # VectorFunction
             /\ pc'[c] \in {"entry", "call"} => IdtCallFrame'.vector # VectorFunction
  <2>1. CASE Interrupts(c)
    <3>1. current_pid[c] = 0
      BY <1>5, <2>1 DEF Interrupts, TimerInterrupt, FunctionInterrupt, ProcessFault,
         SpuriousInterrupt, DeviceInterrupt, KernelFault, Interrupt
    <3> QED BY <2>1, <3>1, InterruptVector
  <2>2. CASE IdtGetLock(c)
    BY <1>5, <2>2 DEF IdtGetLock, Called, Kernel, TypeOK
  <2>3. CASE IdtCallManage(c)
    BY <1>5, <2>3 DEF IdtCallManage, Called, Kernel, TypeOK
  <2>4. CASE (UserStep(c) \/ HandlerStep(c)) /\ ~IdtCallManage(c)
    BY <2>4, HandlerGoes DEF Kernel
  <2> QED BY <2>1, <2>2, <2>3, <2>4
<1> QED BY <1>2, <1>3, <1>4, <1>5 DEF Called

-----------------------------------------------------------------------------
(* Started is an invariant.                                                *)

StartedIn(f) == f.suspend # "none" \/ f.pending_exit => f.run

LEMMA StartedKept ==
  ASSUME NEW f \in ProcSet, StartedIn(f)
  PROVE  /\ StartedIn(SaveIn(f)) /\ StartedIn(DoneIn(f)) /\ StartedIn(TickOf(f))
         /\ StartedIn(OneLess(f)) /\ StartedIn([f EXCEPT !.lock = TRUE])
  BY DEF StartedIn, ProcSet, SaveIn, DoneIn, TickOf, OneLess

LEMMA StartedNew ==
  ASSUME NEW p, NEW run
  PROVE  StartedIn(NewProcess(p)) /\ StartedIn([NewProcess(p) EXCEPT !.run = run])
  BY DEF StartedIn, NewProcess

LEMMA StartedSaved ==
  ASSUME Kernel, NEW c \in CPUs, NEW pr \in [Pids -> ProcSet],
         \A p \in Pids : StartedIn(pr[p]), proc' = DispatcherSave(pr, c)
  PROVE  Started'
  BY StartedKept DEF DispatcherSave, Started, StartedIn

LEMMA SuspendStarted ==
  ASSUME Kernel, Started, NEW c \in CPUs, current_pid[c] # 0,
         NEW suspend \in Suspends, NEW data \in DataSet, NEW pending_exit \in BOOLEAN,
         KernelFunctionSuspend(c, suspend, data, pending_exit)
  PROVE  Started'
<1> DEFINE pr == [proc EXCEPT ![current_pid[c]] =
                   [@ EXCEPT !.suspend = suspend, !.data = data,
                             !.pending_exit = pending_exit]]
<1>1. current_pid[c] \in Pids /\ proc[current_pid[c]].run
  BY CurrentIsPid DEF Kernel, Table, CurrentRunnable, Runnable
<1>2. \A p \in Pids : StartedIn(pr[p])
  BY <1>1 DEF Started, StartedIn, Kernel, TypeOK, ProcSet
<1>3. pr \in [Pids -> ProcSet]
  BY <1>1, SuspendedType DEF Kernel, TypeOK
<1>4. proc' = DispatcherSave(pr, c)
  BY DEF KernelFunctionSuspend
<1> HIDE DEF pr
<1> QED BY <1>2, <1>3, <1>4, StartedSaved

\* Every step but the three that suspend the caller changes structs by these means.
LEMMA StepStarted ==
  ASSUME Kernel, Called, Started, NEW c \in CPUs,
         UserStep(c) \/ Interrupts(c) \/ IdtGetLock(c) \/ HandlerStep(c)
  PROVE  Started'
<1>1. \A p \in Pids : proc[p] \in ProcSet /\ StartedIn(proc[p])
  BY DEF Started, StartedIn, Kernel, TypeOK
<1>2. CASE proc' = proc
  BY <1>2 DEF Started
<1>3. CASE KernelFunctionExit(c) \/ KernelFunctionSleep(c) \/ KernelFunctionRead(c)
  <2>1. current_pid[c] # 0
    BY <1>3 DEF KernelFunctionExit, KernelFunctionSleep, KernelFunctionRead,
       FunctionCall, InCall, Called
  <2>2. {"sleep", "read", "exit"} \subseteq Suspends /\ {TRUE, FALSE} \subseteq BOOLEAN
    BY DEF Suspends
  <2>3. /\ \A n \in Nat, b \in BOOLEAN : [left |-> n, ok |-> b] \in DataSet
        /\ NoData \in DataSet
    BY DEF DataSet, NoData
  <2>4. \A ticks \in SleepUnits : ticks * SleepScale \in Nat
    BY BoundsAssumption
  <2> QED
    BY <1>3, <2>1, <2>2, <2>3, <2>4, BoundsAssumption, SuspendStarted
    DEF KernelFunctionExit, KernelFunctionSleep, KernelFunctionRead
<1>4. CASE IdtCallTimer(c)
  <2> DEFINE pr == IF c = ApicLocalBspId THEN Ticked(proc) ELSE proc
  <2>1. pr \in [Pids -> ProcSet] /\ \A p \in Pids : StartedIn(pr[p])
    BY <1>1, TickOfType, StartedKept DEF Ticked, Kernel, TypeOK
  <2>2. proc' = DispatcherSave(pr, c)
    BY <1>4 DEF IdtCallTimer
  <2> HIDE DEF pr
  <2> QED BY <2>1, <2>2, StartedSaved
<1>5. ASSUME NEW p, NEW f, StartedIn(f), proc' = [proc EXCEPT ![p] = f]
      PROVE  Started'
  BY <1>1, <1>5 DEF Started, StartedIn, Kernel, TypeOK
<1>6. CASE TestSleep(c) \/ TestRead(c)
  <2>1. Visited \in Pids
    BY <1>6, VisitedType DEF TestSleep, TestRead, Testing, Kernel
  <2>2. \/ proc' = proc
        \/ proc' = [proc EXCEPT ![Visited] = DoneIn(proc[Visited])]
        \/ proc' = [proc EXCEPT ![Visited] = OneLess(proc[Visited])]
    BY <1>6 DEF TestSleep, TestRead, KernelFunctionDone
  <2> QED BY <1>1, <1>2, <1>5, <2>1, <2>2, StartedKept
<1>7. CASE SelectProcess(c)
  <2>1. Visited \in Pids
    BY <1>7, VisitedType DEF SelectProcess, Tested, Kernel
  <2>2. proc' = [proc EXCEPT ![Visited] = [proc[Visited] EXCEPT !.lock = TRUE]]
    BY <1>7 DEF SelectProcess
  <2> QED BY <1>1, <1>5, <2>1, <2>2, StartedKept
<1>8. CASE ReapExited(c) \/ ExceptionInProcess(c)
  BY <1>5, <1>8, StartedNew DEF ReapExited, ExceptionInProcess, DispatcherProcessDone
<1>9. CASE KernelFunctionRun(c)
  BY <1>2, <1>5, <1>9, StartedNew
  DEF KernelFunctionRun, DispatcherProcessNew, HALT, tabVars
<1>10. \/ proc' = proc
       \/ KernelFunctionExit(c) \/ KernelFunctionSleep(c) \/ KernelFunctionRead(c)
       \/ IdtCallTimer(c) \/ TestSleep(c) \/ TestRead(c) \/ SelectProcess(c)
       \/ ReapExited(c) \/ ExceptionInProcess(c) \/ KernelFunctionRun(c)
  BY DEF UserStep, Interrupts, TimerInterrupt, FunctionInterrupt, ProcessFault,
     SpuriousInterrupt, DeviceInterrupt, KernelFault, Interrupt, IdtGetLock,
     HandlerStep, IdtCallManage, ExceptionInKernel, Spurious, HALT, KeyboardIrq,
     UnhandledIrq, KernelFunctions, KernelFunctionOther, SetUpNext, TestReadBadFd,
     SkipProcess, NextCycle, NothingToRun, RestoreRegisters, ReleaseAndReturn,
     IdtWait, tabVars
<1> QED BY <1>2, <1>3, <1>4, <1>6, <1>7, <1>8, <1>9, <1>10

-----------------------------------------------------------------------------
(* The refinement.                                                         *)

LEMMA InitRefines ==
  Init => Called /\ Started /\ Lifecycle!Init
<1> SUFFICES ASSUME Init PROVE Called /\ Started /\ Lifecycle!Init
  OBVIOUS
<1>1. /\ pc = [c \in CPUs |-> "idle"] /\ current_pid = [c \in CPUs |-> 0]
      /\ processes = <<1>>
      /\ proc = [p \in Pids |-> [NewProcess(p) EXCEPT !.run = (p = 1)]]
  BY DEF Init
<1>2. Called
  BY <1>1 DEF Called
<1>3. \A p \in Pids : proc[p].suspend = "none" /\ ~proc[p].pending_exit
                      /\ proc[p].run = (p = 1)
  BY <1>1 DEF NewProcess
<1>4. Started
  BY <1>3 DEF Started
<1>5. ASSUME NEW p \in Pids
      PROVE  StateOf(p) \in {"absent", "ready"}
  <2>1. ~OnCpu(p)
    BY <1>1 DEF OnCpu, Pids
  <2>2. InTable(p) => p = 1
    BY <1>1 DEF InTable
  <2> QED BY <1>3, <2>1, <2>2 DEF StateOf
<1>6. Lifecycle!Init
  BY <1>1, <1>5 DEF Lifecycle!Init
<1> QED BY <1>2, <1>4, <1>6

\* One step of the detailed specification.
LEMMA StepRefines ==
  ASSUME Kernel, Called, Started, NEW c \in CPUs,
         UserStep(c) \/ Interrupts(c) \/ IdtGetLock(c) \/ HandlerStep(c)
  PROVE  [Lifecycle!Next]_(Lifecycle!vars)
<1>1. CASE KernelFunctions(c)
  <2>1. current_pid[c] # 0
    BY <1>1 DEF KernelFunctions, KernelFunctionExit, KernelFunctionSleep,
       KernelFunctionRead, KernelFunctionRun, KernelFunctionOther, RunCall,
       FunctionCall, InCall, Called
  <2>2. CASE KernelFunctionOther(c)
    BY <2>2, QuietMove DEF KernelFunctionOther, FunctionReturn, tabVars
  <2> QED BY <1>1, <2>1, <2>2, SuspendingMove, RunMove DEF KernelFunctions
<1>2. CASE SetUpNext(c)
  <2>1. CASE TestReadBadFd(c) \/ SkipProcess(c) \/ NextCycle(c)
    BY <2>1, QuietMove DEF TestReadBadFd, HALT, SkipProcess, NextCycle, cpuVars,
       tabVars
  <2>2. CASE NothingToRun(c)
    <3>1. current_pid' = current_pid /\ processes' = processes /\ proc' = proc
      BY <2>2 DEF NothingToRun, EndOfTable, Kernel, Control, TypeOK, tabVars
    <3> QED BY <3>1, QuietMove
  <2> QED BY <1>2, <2>1, <2>2, ReapMove, TestMove, SelectMove DEF SetUpNext
<1>3. CASE \/ UserStep(c) \/ Interrupts(c) \/ IdtGetLock(c) \/ IdtCallManage(c)
           \/ ExceptionInKernel(c) \/ Spurious(c) \/ KeyboardIrq(c)
           \/ UnhandledIrq(c) \/ RestoreRegisters(c) \/ ReleaseAndReturn(c)
           \/ IdtWait(c)
  BY <1>3, QuietMove
  DEF UserStep, Interrupts, TimerInterrupt, FunctionInterrupt, ProcessFault,
      SpuriousInterrupt, DeviceInterrupt, KernelFault, Interrupt, IdtGetLock,
      IdtCallManage, ExceptionInKernel, Spurious, HALT, KeyboardIrq, UnhandledIrq,
      RestoreRegisters, ReleaseAndReturn, IdtWait, tabVars
<1> QED BY <1>1, <1>2, <1>3, ExceptionMove, TimerMove DEF HandlerStep

LEMMA KernelInvariant == Spec => []Kernel
<1>1. TypeOK /\ MutualExclusion /\ Table /\ Control => Kernel
  BY DEF Kernel
<1> QED BY <1>1, TypeCorrect, KernelLock, TableInvariant, PTL

LEMMA LifeInvariant == Spec => [](Called /\ Started)
<1>1. Kernel /\ Called /\ Started /\ [Next]_vars => Called' /\ Started'
  <2> SUFFICES ASSUME Kernel, Called, Started, [Next]_vars
               PROVE  Called' /\ Started'
    OBVIOUS
  <2>1. CASE Next
    BY <2>1, StepCalled, StepStarted DEF Next
  <2>2. CASE UNCHANGED vars
    BY <2>2 DEF vars, cpuVars, idtVars, tabVars, Called, Started
  <2> QED BY <2>1, <2>2
<1> QED BY <1>1, InitRefines, KernelInvariant, PTL DEF Spec

\* Every step of the dispatcher, of the kernel functions and of the interrupt code,
\* on whatever CPU, is one legal move of the life cycle of one process, or none:
\* nobody runs who is not ready, nobody who is blocked or has exited is run, a process
\* is removed only from its CPU or when it has exited, and created only by another.
THEOREM DispatcherImplementsLifecycle == Spec => LifecycleSpec
<1>1. Kernel /\ Called /\ Started /\ [Next]_vars
        => [Lifecycle!Next]_(Lifecycle!vars)
  <2> SUFFICES ASSUME Kernel, Called, Started, [Next]_vars
               PROVE  [Lifecycle!Next]_(Lifecycle!vars)
    OBVIOUS
  <2>1. CASE Next
    BY <2>1, StepRefines DEF Next
  <2>2. CASE UNCHANGED vars
    BY <2>2, QuietMove DEF vars, cpuVars, tabVars
  <2> QED BY <2>1, <2>2
<1> QED
  BY <1>1, InitRefines, LifeInvariant, KernelInvariant, PTL
  DEF Spec, LifecycleSpec, Lifecycle!Spec

-----------------------------------------------------------------------------
(* The cycle.                                                              *)

\* The entries that the walk of a CPU has passed: who is ready among them has had a
\* turn in this cycle.
Passed ==
  \A c \in CPUs : pc[c] \in {"scan", "decide"} =>
    \A i \in DOMAIN processes :
      i < process_no /\ Ready(processes[i]) => processes[i] \in ran

\* Where the removed process stood, the entries in front of it stay.
LEMMA WithoutPrefix ==
  ASSUME NEW s \in Seq(Pids), NEW i \in DOMAIN s,
         \A j, k \in DOMAIN s : s[j] = s[k] => j = k
  PROVE  \A j \in DOMAIN Without(s, s[i]) :
           j < i => j \in DOMAIN s /\ Without(s, s[i])[j] = s[j]
<1> DEFINE h == CHOOSE h \in DOMAIN s : s[h] = s[i]
<1> DEFINE f == [j \in 1..(Len(s) - 1) |-> IF j < h THEN s[j] ELSE s[j + 1]]
<1>1. Without(s, s[i]) = f
  BY DEF Without
<1>2. h \in DOMAIN s /\ s[h] = s[i]
  OBVIOUS
<1> HIDE DEF h
<1>3. h = i
  BY <1>2
<1>4. DOMAIN s = 1..Len(s) /\ Len(s) \in Nat
  OBVIOUS
<1>5. \A j \in DOMAIN f : j < i => j \in DOMAIN s /\ f[j] = s[j]
  BY <1>3, <1>4
<1> QED BY <1>1, <1>5

\* A step of a CPU that does not hold the lock leaves the table and the walk alone.
LEMMA LockedOut ==
  ASSUME Kernel, NEW c \in CPUs, NEW d \in CPUs \ {c}, pc[d] \in {"scan", "decide"},
         UserStep(c) \/ Interrupts(c) \/ IdtGetLock(c) \/ HandlerStep(c)
  PROVE  UNCHANGED <<processes, proc, ran, process_no>>
<1>1. InHandler(d) /\ IdtBusy /\ ~InHandler(c)
  BY DEF Kernel, MutualExclusion, InHandler, Handler
<1>2. ~HandlerStep(c)
  <2>1. HandlerStep(c) => pc[c] \in Handler
    BY DEF HandlerStep, IdtCallManage, ExceptionInProcess, ExceptionInKernel,
       Spurious, KeyboardIrq, UnhandledIrq, KernelFunctions, KernelFunctionExit,
       KernelFunctionSleep, KernelFunctionRead, KernelFunctionRun,
       KernelFunctionOther, IdtCallTimer, SetUpNext, ReapExited, TestSleep,
       TestRead, TestReadBadFd, SkipProcess, SelectProcess, NextCycle,
       NothingToRun, RestoreRegisters, ReleaseAndReturn, IdtWait, InCall,
       FunctionCall, RunCall, Testing, Tested, Visiting, EndOfTable, Handler
  <2> QED BY <1>1, <2>1 DEF InHandler
<1>3. ~IdtGetLock(c)
  BY <1>1 DEF IdtGetLock
<1> QED
  BY <1>2, <1>3
  DEF UserStep, Interrupts, TimerInterrupt, FunctionInterrupt, ProcessFault,
      SpuriousInterrupt, DeviceInterrupt, KernelFault, Interrupt, tabVars, scanVars

\* The entries in front of process_no.
PassedNow ==
  \A i \in DOMAIN processes :
    i < process_no /\ Ready(processes[i]) => processes[i] \in ran

LEMMA ReapPasses ==
  ASSUME Kernel, PassedNow, NEW c \in CPUs, ReapExited(c)
  PROVE  PassedNow'
<1>1. PICK p : p = Visited
  OBVIOUS
<1>2. /\ Visiting(c, {"scan"}) /\ DispatcherProcessDone(p) /\ process_no' = process_no
      /\ proc[p].pending_exit /\ current_pid' = current_pid
  BY <1>1 DEF ReapExited, cpuVars
<1>3. p \in Pids /\ process_no \in DOMAIN processes /\ p = processes[process_no]
  BY <1>1, <1>2, VisitedType DEF Visiting, Visited, Kernel
<1>4. \A j \in DOMAIN processes' :
        j < process_no => j \in DOMAIN processes /\ processes'[j] = processes[j]
  <2>1. processes' = Without(processes, p) /\ processes \in Seq(Pids)
    BY <1>2 DEF DispatcherProcessDone, Kernel, TypeOK
  <2> QED BY <1>3, <2>1, WithoutPrefix DEF Kernel, Table, PidsUnique
<1>5. \A q : InTable(q)' <=> (InTable(q) /\ q # p)
  <2>1. InTable(p)
    BY <1>3 DEF InTable
  <2>2. \A d \in CPUs : current_pid[d] # p
    <3>1. p # 0
      BY <1>3 DEF Pids
    <3> QED BY <1>2, <3>1 DEF Kernel, Table, CurrentRunnable, Runnable
  <2>3. current_pid' \in [CPUs -> Pid0]
    BY <1>2 DEF Kernel, TypeOK
  <2> QED BY <1>2, <1>3, <2>1, <2>2, <2>3, TableRemoved DEF Kernel
<1>6. /\ \A q \in Pids \ {p} : proc'[q] = proc[q]
      /\ ran' = ran \ {p}
  BY <1>2 DEF DispatcherProcessDone, Kernel, TypeOK
<1>7. ASSUME NEW i \in DOMAIN processes', i < process_no', Ready(processes[i])'
      PROVE  processes'[i] \in ran'
  <2>1. PICK q : q = processes'[i]
    OBVIOUS
  <2>2. i \in DOMAIN processes /\ q = processes[i] /\ i < process_no
    BY <1>2, <1>4, <1>7, <2>1
  <2>3. /\ \E j \in DOMAIN processes' : processes'[j] = q
        /\ proc'[q].run /\ ~proc'[q].lock /\ proc'[q].suspend = "none"
    BY <1>7, <2>1 DEF Ready, InTable
  <2>4. q \in Pids /\ InTable(q) /\ q # p
    <3>1. q \in Pids
      BY <2>2 DEF Kernel, TypeOK
    <3>2. InTable(q)'
      BY <2>3 DEF InTable
    <3> QED BY <1>5, <3>1, <3>2
  <2>5. Ready(q)
    BY <1>6, <2>3, <2>4 DEF Ready
  <2> QED BY <1>6, <2>1, <2>2, <2>4, <2>5 DEF PassedNow
<1> QED BY <1>7 DEF PassedNow

LEMMA TestPasses ==
  ASSUME Kernel, PassedNow, NEW c \in CPUs, TestSleep(c) \/ TestRead(c)
  PROVE  PassedNow'
<1>1. /\ Visiting(c, {"scan"}) /\ UNCHANGED <<processes, ran, process_no>>
      /\ \/ proc' = proc
         \/ proc' = [proc EXCEPT ![Visited] = DoneIn(proc[Visited])]
         \/ proc' = [proc EXCEPT ![Visited] = OneLess(proc[Visited])]
  BY DEF TestSleep, TestRead, Testing, KernelFunctionDone, scanVars
<1>2. process_no \in DOMAIN processes
  BY <1>1 DEF Visiting
<1>3. ASSUME NEW i \in DOMAIN processes, i < process_no
      PROVE  proc'[processes[i]] = proc[processes[i]]
  <2>1. processes[i] \in Pids /\ processes[i] # Visited
    BY <1>2, <1>3 DEF Visited, Kernel, Table, PidsUnique, TypeOK
  <2> QED BY <1>1, <2>1 DEF Kernel, TypeOK
<1> QED BY <1>1, <1>3 DEF PassedNow, Ready, InTable

\* The entry that is passed is one that may not run, or has had its turn.
LEMMA SkipPasses ==
  ASSUME Kernel, PassedNow, NEW c \in CPUs, SkipProcess(c)
  PROVE  PassedNow'
<1>1. /\ ~Eligible(Visited) /\ process_no' = process_no + 1
      /\ UNCHANGED <<processes, ran, proc>>
  BY DEF SkipProcess, tabVars
<1>2. \A i \in DOMAIN processes : i \in Nat /\ process_no \in Nat
  BY DEF Kernel, TypeOK
<1>3. \A i \in DOMAIN processes : i < process_no' => i < process_no \/ i = process_no
  BY <1>1, <1>2
<1>4. Ready(Visited) => Visited \in ran
  BY <1>1 DEF Ready, Eligible
<1>5. \A q : Ready(q)' <=> Ready(q)
  BY <1>1 DEF Ready, InTable
<1> QED BY <1>1, <1>3, <1>4, <1>5 DEF PassedNow, Visited, Ready, InTable

\* A CPU is on its walk after a step of its own only if it was already, or if the
\* timer handler has just begun it.
LEMMA WalkSteps ==
  ASSUME Kernel, NEW c \in CPUs,
         UserStep(c) \/ Interrupts(c) \/ IdtGetLock(c) \/ HandlerStep(c),
         pc'[c] \in {"scan", "decide"}
  PROVE  IdtCallTimer(c) \/ NextCycle(c) \/ ReapExited(c) \/ TestSleep(c) \/ TestRead(c)
           \/ SkipProcess(c)
<1> USE DEF cpuVars, tabVars, scanVars
<1>1. PICK x \in PcSet : pc' = [pc EXCEPT ![c] = x]
  BY StepControl DEF Kernel, ControlStep
<1>2. pc'[c] = x
  BY <1>1 DEF Kernel, TypeOK
<1>3. CASE UserStep(c)
  BY <1>2, <1>3 DEF UserStep, Kernel
<1>4. CASE Interrupts(c) \/ IdtGetLock(c)
  BY <1>1, <1>2, <1>4
  DEF Interrupts, TimerInterrupt, FunctionInterrupt, ProcessFault,
      SpuriousInterrupt, DeviceInterrupt, KernelFault, Interrupt, IdtGetLock,
      Kernel, TypeOK
<1>5. CASE \/ IdtCallManage(c) \/ ExceptionInProcess(c)
           \/ ExceptionInKernel(c) \/ Spurious(c)
           \/ KeyboardIrq(c) \/ UnhandledIrq(c)
  BY <1>5
  DEF IdtCallManage, ExceptionInProcess, ExceptionInKernel, Spurious, HALT,
      KeyboardIrq, UnhandledIrq, AfterIdtCall, Kernel, TypeOK
<1>6. CASE KernelFunctions(c)
  <2>1. KernelFunctionExit(c) \/ KernelFunctionSleep(c) \/ KernelFunctionRead(c)
          => pc'[c] = "wait"
    BY DEF KernelFunctionExit, KernelFunctionSleep, KernelFunctionRead,
       KernelFunctionSuspend, Kernel, TypeOK
  <2>2. KernelFunctionRun(c) \/ KernelFunctionOther(c)
          => pc'[c] \in {"wait", "restore", "halted"}
    BY DEF KernelFunctionRun, KernelFunctionOther, FunctionReturn,
       AfterIdtCall, HALT, Kernel, TypeOK
  <2> QED BY <1>6, <2>1, <2>2 DEF KernelFunctions
<1>7. CASE \/ TestReadBadFd(c) \/ SelectProcess(c) \/ NothingToRun(c)
           \/ RestoreRegisters(c) \/ ReleaseAndReturn(c) \/ IdtWait(c)
  BY <1>7
  DEF TestReadBadFd, HALT, SelectProcess, NothingToRun, RestoreRegisters,
      ReleaseAndReturn, IdtWait, Kernel, TypeOK
<1> QED BY <1>3, <1>4, <1>5, <1>6, <1>7 DEF HandlerStep, SetUpNext

LEMMA StepPassed ==
  ASSUME Kernel, Passed, NEW c \in CPUs,
         UserStep(c) \/ Interrupts(c) \/ IdtGetLock(c) \/ HandlerStep(c)
  PROVE  Passed'
<1> USE DEF cpuVars, tabVars, scanVars
<1>1. PICK x \in PcSet : pc' = [pc EXCEPT ![c] = x]
  BY StepControl DEF Kernel, ControlStep
<1>2. pc'[c] = x /\ \A d \in CPUs \ {c} : pc'[d] = pc[d]
  BY <1>1 DEF Kernel, TypeOK
<1>3. ASSUME NEW d \in CPUs \ {c}, pc'[d] \in {"scan", "decide"}
      PROVE  PassedNow'
  <2>1. pc[d] \in {"scan", "decide"}
    BY <1>2, <1>3
  <2>2. UNCHANGED <<processes, proc, ran, process_no>>
    BY <2>1, LockedOut
  <2>3. PassedNow
    BY <2>1 DEF Passed, PassedNow
  <2> QED BY <2>2, <2>3 DEF PassedNow, Ready, InTable
<1>4. ASSUME pc'[c] \in {"scan", "decide"}
      PROVE  PassedNow'
  <2>1. CASE IdtCallTimer(c) \/ NextCycle(c)
    <3>1. process_no' = 1 /\ processes' = processes
      BY <2>1 DEF IdtCallTimer, NextCycle
    <3>2. \A i \in DOMAIN processes : ~(i < 1)
      BY DEF Kernel, TypeOK
    <3> QED BY <3>1, <3>2 DEF PassedNow
  <2>2. CASE ReapExited(c) \/ TestSleep(c) \/ TestRead(c) \/ SkipProcess(c)
    <3>1. pc[c] \in {"scan", "decide"}
      BY <2>2 DEF ReapExited, TestSleep, TestRead, SkipProcess, Testing, Tested,
         Visiting
    <3>2. PassedNow
      BY <3>1 DEF Passed, PassedNow
    <3> QED BY <2>2, <3>2, ReapPasses, TestPasses, SkipPasses
  <2>3. IdtCallTimer(c) \/ NextCycle(c) \/ ReapExited(c) \/ TestSleep(c) \/ TestRead(c)
          \/ SkipProcess(c)
    BY <1>4, WalkSteps
  <2> QED BY <2>1, <2>2, <2>3
<1>5. ASSUME NEW d \in CPUs, pc'[d] \in {"scan", "decide"}
      PROVE  PassedNow'
  BY <1>3, <1>4, <1>5
<1> QED BY <1>5 DEF Passed, PassedNow

\* A removal shortens the table.
LEMMA Shorter ==
  ASSUME NEW s \in Seq(Pids), NEW i \in DOMAIN s, NEW p
  PROVE  Without(s, p) # s
<1>1. Len(s) \in Nat \ {0} /\ DOMAIN s = 1..Len(s)
  OBVIOUS
<1>2. DOMAIN Without(s, p) = 1..(Len(s) - 1)
  BY DEF Without
<1>3. Len(s) \in DOMAIN s /\ Len(s) \notin 1..(Len(s) - 1)
  BY <1>1
<1> QED BY <1>2, <1>3

\* Of the steps that keep the table, only the end of a walk empties ran.
LEMMA RanStep ==
  ASSUME Kernel, NEW c \in CPUs,
         UserStep(c) \/ Interrupts(c) \/ IdtGetLock(c) \/ HandlerStep(c),
         ran # {}, ran' = {}, processes' = processes
  PROVE  NextCycle(c)
<1> USE DEF tabVars
<1>1. ~UserStep(c) /\ ~Interrupts(c) /\ ~IdtGetLock(c)
  BY DEF UserStep, Interrupts, TimerInterrupt, FunctionInterrupt, ProcessFault,
     SpuriousInterrupt, DeviceInterrupt, KernelFault, Interrupt, IdtGetLock
<1>2. ~ReapExited(c)
  <2> SUFFICES ASSUME ReapExited(c) PROVE FALSE
    OBVIOUS
  <2>1. process_no \in DOMAIN processes /\ processes' = Without(processes, Visited)
    BY DEF ReapExited, Visiting, DispatcherProcessDone
  <2> QED BY <2>1, Shorter DEF Kernel, TypeOK
<1>3. ~ExceptionInProcess(c)
  <2> SUFFICES ASSUME ExceptionInProcess(c) PROVE FALSE
    OBVIOUS
  <2>1. PICK p : p = current_pid[c]
    OBVIOUS
  <2>2. p # 0 /\ processes' = Without(processes, p)
    BY <2>1 DEF ExceptionInProcess, DispatcherProcessDone
  <2>3. \E i \in DOMAIN processes : processes[i] = p
    BY <2>1, <2>2 DEF Kernel, Table, CurrentInTable, InTable
  <2> QED BY <2>2, <2>3, Shorter DEF Kernel, TypeOK
<1>4. ~KernelFunctions(c)
  BY DEF KernelFunctions, KernelFunctionExit, KernelFunctionSleep,
     KernelFunctionRead, KernelFunctionRun, KernelFunctionOther,
     KernelFunctionSuspend, DispatcherProcessNew, HALT
<1>5. ~SelectProcess(c)
  BY DEF SelectProcess
<1>6. ~(TestSleep(c) \/ TestRead(c) \/ TestReadBadFd(c) \/ SkipProcess(c)
          \/ NothingToRun(c) \/ IdtCallTimer(c))
  BY DEF TestSleep, TestRead, TestReadBadFd, SkipProcess, NothingToRun,
     IdtCallTimer, HALT
<1>7. ~(IdtCallManage(c) \/ ExceptionInKernel(c) \/ Spurious(c)
          \/ KeyboardIrq(c) \/ UnhandledIrq(c) \/ RestoreRegisters(c)
          \/ ReleaseAndReturn(c) \/ IdtWait(c))
  BY DEF IdtCallManage, ExceptionInKernel, Spurious, KeyboardIrq, UnhandledIrq,
     HALT, RestoreRegisters, ReleaseAndReturn, IdtWait
<1> QED BY <1>1, <1>2, <1>3, <1>4, <1>5, <1>6, <1>7 DEF HandlerStep, SetUpNext

\* The walk behind the last entry has passed them all.
LEMMA CycleEnds ==
  ASSUME Kernel, Passed, NEW c \in CPUs, NextCycle(c), NEW p \in Pids, Ready(p)
  PROVE  p \in ran
<1>1. pc[c] = "scan" /\ process_no \notin DOMAIN processes
  BY DEF NextCycle, EndOfTable
<1>2. PICK i \in DOMAIN processes : processes[i] = p
  BY DEF Ready, InTable
<1>3. i < process_no
  <2>1. processes \in Seq(Pids) /\ process_no \in Nat \ {0}
    BY DEF Kernel, TypeOK
  <2>2. DOMAIN processes = 1..Len(processes) /\ Len(processes) \in Nat
    BY <2>1
  <2> QED BY <1>1, <2>1, <2>2
<1> QED BY <1>1, <1>2, <1>3 DEF Passed

\* Whenever a CPU walks the table, the entries behind it that are ready have had
\* their turn: removals of exited processes move the others forward, never past
\* the walk.
THEOREM WalkPassesOnlyServed == Spec => []Passed
<1>1. Init => Passed
  BY DEF Init, Passed
<1>2. Kernel /\ Passed /\ [Next]_vars => Passed'
  <2> SUFFICES ASSUME Kernel, Passed, [Next]_vars
               PROVE  Passed'
    OBVIOUS
  <2>1. CASE Next
    BY <2>1, StepPassed DEF Next
  <2>2. CASE UNCHANGED vars
    BY <2>2 DEF Passed, Ready, InTable, vars, cpuVars, tabVars, scanVars
  <2> QED BY <2>1, <2>2
<1> QED BY <1>1, <1>2, KernelInvariant, PTL DEF Spec

\* CycleServesAll: DispatcherCycle is increased only when every process that is
\* ready has had its turn in the cycle.
THEOREM CycleServesEveryone == Spec => CycleServesAll
<1>1. Kernel /\ Passed /\ [Next]_vars
        => [ran # {} /\ ran' = {} /\ processes' = processes =>
              \A p \in Pids : Ready(p) => p \in ran]_vars
  <2> SUFFICES ASSUME Kernel, Passed, Next,
                      ran # {}, ran' = {}, processes' = processes
               PROVE  \A p \in Pids : Ready(p) => p \in ran
    OBVIOUS
  <2>1. PICK c \in CPUs : NextCycle(c)
    BY RanStep DEF Next
  <2> QED BY <2>1, CycleEnds
<1> QED BY <1>1, WalkPassesOnlyServed, KernelInvariant, PTL
        DEF Spec, CycleServesAll
-----------------------------------------------------------------------------
(* The index of the walk.                                                  *)

\* The removal of the visited entry leaves the walk at most one past the end.
LEMMA ReapInTable ==
  ASSUME Kernel, NEW c \in CPUs, ReapExited(c)
  PROVE  process_no' \in 1..(Len(processes') + 1) /\ pc'[c] = "scan"
<1>1. /\ pc[c] = "scan" /\ pc' = pc /\ process_no' = process_no
      /\ process_no \in DOMAIN processes /\ processes' = Without(processes, Visited)
  BY DEF ReapExited, Visiting, DispatcherProcessDone, cpuVars
<1>2. DOMAIN processes = 1..Len(processes) /\ Len(processes) \in Nat
  BY DEF Kernel, TypeOK
<1>3. Len(processes) - 1 \in Nat
  BY <1>1, <1>2
<1>4. Len(processes') = Len(processes) - 1
  BY <1>1, <1>3 DEF Without
<1> QED BY <1>1, <1>2, <1>4

\* The other steps of the walk keep the table: they begin it, test the entry at
\* the index, or go on by one from an entry of the table.
LEMMA StepInTable ==
  ASSUME Kernel, WalkInTable, NEW c \in CPUs,
         IdtCallTimer(c) \/ NextCycle(c) \/ TestSleep(c) \/ TestRead(c) \/ SkipProcess(c)
  PROVE  /\ pc'[c] = "scan" => process_no' \in 1..(Len(processes') + 1)
         /\ pc'[c] = "decide" => process_no' \in DOMAIN processes'
<1> USE DEF cpuVars, tabVars, scanVars
<1>1. processes' = processes
  BY DEF IdtCallTimer, NextCycle, TestSleep, TestRead, SkipProcess
<1>2. DOMAIN processes = 1..Len(processes) /\ Len(processes) \in Nat
  BY DEF Kernel, TypeOK
<1>3. CASE IdtCallTimer(c) \/ NextCycle(c)
  <2>1. process_no' = 1 /\ pc'[c] = "scan"
    BY <1>3 DEF IdtCallTimer, NextCycle, EndOfTable, Kernel, TypeOK
  <2> QED BY <1>1, <1>2, <2>1
<1>4. CASE TestSleep(c) \/ TestRead(c)
  <2>1. process_no' = process_no /\ pc'[c] = "decide" /\ process_no \in DOMAIN processes
    BY <1>4 DEF TestSleep, TestRead, Testing, Visiting, Kernel, TypeOK
  <2> QED BY <1>1, <2>1
<1>5. CASE SkipProcess(c)
  <2>1. process_no' = process_no + 1 /\ pc'[c] = "scan" /\ process_no \in DOMAIN processes
    BY <1>5 DEF SkipProcess, Tested, Visiting, Kernel, TypeOK
  <2> QED BY <1>1, <1>2, <2>1
<1> QED BY <1>3, <1>4, <1>5

LEMMA StepWalkInTable ==
  ASSUME Kernel, WalkInTable, NEW c \in CPUs,
         UserStep(c) \/ Interrupts(c) \/ IdtGetLock(c) \/ HandlerStep(c)
  PROVE  WalkInTable'
<1>1. PICK x \in PcSet : pc' = [pc EXCEPT ![c] = x]
  BY StepControl DEF Kernel, ControlStep
<1>2. \A d \in CPUs \ {c} : pc'[d] = pc[d]
  BY <1>1 DEF Kernel, TypeOK
<1>3. ASSUME NEW d \in CPUs \ {c}, pc'[d] \in {"scan", "decide"}
      PROVE  UNCHANGED <<processes, process_no>>
  BY <1>2, <1>3, LockedOut
<1>4. ASSUME pc'[c] \in {"scan", "decide"}
      PROVE  /\ pc'[c] = "scan" => process_no' \in 1..(Len(processes') + 1)
             /\ pc'[c] = "decide" => process_no' \in DOMAIN processes'
  <2>1. CASE ReapExited(c)
    BY <2>1, ReapInTable
  <2>2. CASE ~ReapExited(c)
    BY <1>4, <2>2, WalkSteps, StepInTable
  <2> QED BY <2>1, <2>2
<1>5. ASSUME NEW d \in CPUs
      PROVE  /\ pc'[d] = "scan" => process_no' \in 1..(Len(processes') + 1)
             /\ pc'[d] = "decide" => process_no' \in DOMAIN processes'
  <2>1. CASE d = c
    BY <1>4, <2>1
  <2>2. CASE d # c
    BY <1>2, <1>3, <2>2 DEF WalkInTable
  <2> QED BY <2>1, <2>2
<1> QED BY <1>5 DEF WalkInTable

\* WalkInTable: the index of the walk is in the table or one past it, and the
\* entry that is tested or chosen is one of the table, whatever is removed.
THEOREM WalkStaysInTable == Spec => []WalkInTable
<1>1. Init => WalkInTable
  BY DEF Init, WalkInTable
<1>2. Kernel /\ WalkInTable /\ [Next]_vars => WalkInTable'
  <2> SUFFICES ASSUME Kernel, WalkInTable, [Next]_vars
               PROVE  WalkInTable'
    OBVIOUS
  <2>1. CASE Next
    BY <2>1, StepWalkInTable DEF Next
  <2>2. CASE UNCHANGED vars
    BY <2>2 DEF WalkInTable, vars, cpuVars, tabVars, scanVars
  <2> QED BY <2>1, <2>2
<1> QED BY <1>1, <1>2, KernelInvariant, PTL DEF Spec
=============================================================================
