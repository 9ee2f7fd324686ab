-------------------------- MODULE DispatcherProofs --------------------------
(***************************************************************************)
(* Proofs about Dispatcher, for every number of CPUs and pids and for      *)
(* every workload: types and the kernel lock, the process table, who runs  *)
(* on which CPU, and whose registers it has.                               *)
(***************************************************************************)
EXTENDS Dispatcher, TLAPS

-----------------------------------------------------------------------------
(* The table and the pids.                                                 *)

\* The pids that are tried for a new process are pids: 1..MaxPid, never 0.
LEMMA PidTriedType ==
  ASSUME TypeOK, NEW k \in 1..MaxPid
  PROVE  PidTried(k) \in Pids
<1>1. last_pid + k - 1 \in Nat /\ MaxPid \in Nat \ {0}
  BY PidAssumption DEF TypeOK, Pids
<1>2. (last_pid + k - 1) % MaxPid \in 0..(MaxPid - 1)
  BY <1>1
<1> QED
  BY <1>2, PidAssumption DEF PidTried, Pids

\* Removing an entry leaves a table of pids.
LEMMA WithoutType ==
  ASSUME NEW s \in Seq(Pids), NEW p
  PROVE  Without(s, p) \in Seq(Pids)
<1> DEFINE i == CHOOSE i \in DOMAIN s : s[i] = p
<1> DEFINE f == [j \in 1..(Len(s) - 1) |-> IF j < i THEN s[j] ELSE s[j + 1]]
<1>1. Without(s, p) = f
  BY DEF Without
<1> HIDE DEF i
<1>2. CASE Len(s) = 0
  <2>1. f \in [1..0 -> Pids]
    BY <1>2
  <2> QED
    BY <1>1, <2>1 DEF f
<1>3. CASE Len(s) # 0
  <2>1. Len(s) - 1 \in Nat
    BY <1>3
  <2>2. \A j \in 1..(Len(s) - 1) : s[j] \in Pids /\ s[j + 1] \in Pids
    BY <1>3
  <2>3. f \in [1..(Len(s) - 1) -> Pids]
    BY <2>2
  <2> QED
    BY <1>1, <2>1, <2>3
<1> QED
  BY <1>2, <1>3

-----------------------------------------------------------------------------
(* Type correctness.                                                       *)

\* The operators on process structs and registers keep their type.
LEMMA SaveInType ==
  ASSUME NEW f \in ProcSet, IdtCallSaved \in RegSet
  PROVE  SaveIn(f) \in ProcSet
<1>1. [f.save EXCEPT !.gp = IdtCallSaved.gp,
                     !.rflags = IdtCallSaved.rflags] \in RegSet
  BY DEF ProcSet, RegSet
<1> QED
  BY <1>1 DEF SaveIn, ProcSet

LEMMA DispatcherSaveType ==
  ASSUME TypeOK, NEW c \in CPUs, NEW pr \in [Pids -> ProcSet]
  PROVE  DispatcherSave(pr, c) \in [Pids -> ProcSet]
  BY SaveInType DEF DispatcherSave, TypeOK

LEMMA NewProcessType ==
  ASSUME NEW p \in Pids
  PROVE  NewProcess(p) \in ProcSet
<1>1. NewProcess(p).save \in RegSet
  BY PidAssumption DEF NewProcess, RegSet, Tokens, Pid0, Pids
<1>2. NoData \in DataSet /\ "none" \in Suspends
  BY DEF NoData, DataSet, Suspends
<1> QED
  BY <1>1, <1>2 DEF NewProcess, ProcSet

LEMMA NextVersionType ==
  ASSUME NEW t \in Tokens
  PROVE  NextVersion(t) \in Tokens
  BY DEF NextVersion, Tokens

LEMMA KernelRegsType == KernelRegs \in RegSet
  BY PidAssumption DEF KernelRegs, RegSet, Tokens, Pid0

LEMMA OneLessType ==
  ASSUME NEW f \in ProcSet, f.data.left > 0
  PROVE  OneLess(f) \in ProcSet
<1>1. f.data \in DataSet
  BY DEF ProcSet
<1>2. [f.data EXCEPT !.left = f.data.left - 1] \in DataSet
  BY <1>1 DEF DataSet
<1> QED
  BY <1>2 DEF OneLess, ProcSet

LEMMA TickOfType ==
  ASSUME NEW f \in ProcSet
  PROVE  TickOf(f) \in ProcSet
  BY OneLessType DEF TickOf

LEMMA DoneInType ==
  ASSUME NEW f \in ProcSet
  PROVE  DoneIn(f) \in ProcSet
<1>1. f.save \in RegSet /\ f.save.gp \in Tokens
  BY DEF ProcSet, RegSet
<1>2. [f.save EXCEPT !.gp = NextVersion(f.save.gp)] \in RegSet
  BY <1>1, NextVersionType DEF RegSet
<1>3. NoData \in DataSet /\ "none" \in Suspends
  BY DEF NoData, DataSet, Suspends
<1> QED
  BY <1>2, <1>3 DEF DoneIn, ProcSet

\* Every suspension keeps the type of the process struct.
LEMMA SuspendedType ==
  ASSUME NEW f \in ProcSet, NEW suspend \in Suspends, NEW data \in DataSet,
         NEW pending_exit \in BOOLEAN
  PROVE  [f EXCEPT !.suspend = suspend, !.data = data,
                   !.pending_exit = pending_exit] \in ProcSet
  BY DEF ProcSet

LEMMA InitType == Init => TypeOK
<1> SUFFICES ASSUME Init PROVE TypeOK
  OBVIOUS
<1>1. 1 \in Pids
  BY PidAssumption DEF Pids
<1>2. proc \in [Pids -> ProcSet]
  <2>1. ASSUME NEW p \in Pids
        PROVE  [NewProcess(p) EXCEPT !.run = (p = 1)] \in ProcSet
    <3>1. NewProcess(p) \in ProcSet /\ (p = 1) \in BOOLEAN
      BY NewProcessType
    <3> QED
      BY <3>1 DEF ProcSet
  <2> QED
    BY <2>1 DEF Init
<1>3. regs \in [CPUs -> RegSet] /\ IdtCallSaved \in RegSet
  BY KernelRegsType DEF Init
<1>4. processes \in Seq(Pids) /\ keyboard \in Seq(Keys)
  BY <1>1 DEF Init
<1>5. /\ pc \in [CPUs -> PcSet]
      /\ trap \in [CPUs -> [vector : 0..255, cpl : {0, 3}]]
      /\ current_pid \in [CPUs -> Pid0]
      /\ IdtCallFrame \in [vector : 0..255, cpl : {0, 3}]
  <2>1. NoTrap \in [vector : 0..255, cpl : {0, 3}] /\ 0 \in Pid0
    BY PidAssumption DEF NoTrap, Pid0
  <2> QED
    BY <2>1 DEF Init, PcSet
<1>6. /\ last_pid \in Pids /\ ran \in SUBSET Pids
      /\ process_no \in Nat \ {0} /\ version \in [Pids -> {0, 1}]
  BY <1>1 DEF Init
<1>7. /\ IdtBusy \in BOOLEAN /\ IdtFull \in BOOLEAN /\ cycle0 \in BOOLEAN
      /\ no_processes_to_run \in BOOLEAN
  BY DEF Init
<1> QED
  BY <1>2, <1>3, <1>4, <1>5, <1>6, <1>7 DEF TypeOK

\* User code, interrupts, and the entry and exit of handlers keep the types.
LEMMA EntryExitType ==
  ASSUME TypeOK, NEW c \in CPUs,
         UserStep(c) \/ Interrupts(c) \/ IdtGetLock(c) \/ IdtCallManage(c)
           \/ RestoreRegisters(c) \/ ReleaseAndReturn(c) \/ IdtWait(c)
  PROVE  TypeOK'
<1> USE DEF cpuVars, idtVars, tabVars, scanVars
<1>1. CASE UserStep(c)
  <2>1. regs[c] \in RegSet /\ regs[c].gp \in Tokens /\ current_pid[c] \in Pid0
    BY DEF TypeOK, RegSet
  <2>2. [regs[c] EXCEPT !.gp = NextVersion(regs[c].gp),
                        !.rflags = current_pid[c]] \in RegSet
    BY <2>1, NextVersionType DEF RegSet
  <2>3. regs' \in [CPUs -> RegSet]
    BY <1>1, <2>2 DEF UserStep, TypeOK
  <2>4. version' \in [Pids -> {0, 1}]
    <3>1. \A p \in Pids : 1 - version[p] \in {0, 1}
      BY DEF TypeOK
    <3>2. version' = [version EXCEPT ![current_pid[c]] = 1 - version[current_pid[c]]]
      BY <1>1 DEF UserStep
    <3> QED
      BY <3>1, <3>2 DEF TypeOK
  <2> QED
    BY <1>1, <2>3, <2>4 DEF UserStep, TypeOK
<1>2. CASE Interrupts(c)
  <2>1. ASSUME NEW vector \in 0..255, Interrupt(c, vector)
        PROVE  TypeOK'
    <3>1. pc' \in [CPUs -> PcSet]
      BY <2>1 DEF Interrupt, TypeOK, PcSet
    <3>2. trap' \in [CPUs -> [vector : 0..255, cpl : {0, 3}]]
      BY <2>1 DEF Interrupt, TypeOK
    <3> QED
      BY <2>1, <3>1, <3>2 DEF Interrupt, TypeOK
  <2>2. \E vector \in 0..255 : Interrupt(c, vector)
    <3>1. \A irq \in Irqs : VectorOfIrq(irq) \in 0..255
      BY WorkloadAssumption DEF VectorOfIrq
    <3>2. {VectorTimer, VectorFunction, VectorPageFault, VectorSpurious}
            \subseteq 0..255
      BY DEF VectorTimer, VectorFunction, VectorPageFault, VectorSpurious
    <3> QED
      BY <1>2, <3>1, <3>2 DEF Interrupts, TimerInterrupt, FunctionInterrupt,
         ProcessFault, SpuriousInterrupt, DeviceInterrupt, KernelFault
  <2> QED
    BY <2>1, <2>2
<1>3. CASE IdtGetLock(c)
  <2>1. trap[c] \in [vector : 0..255, cpl : {0, 3}]
    BY DEF TypeOK
  <2>2. NoTrap \in [vector : 0..255, cpl : {0, 3}]
    BY DEF NoTrap
  <2>3. pc' \in [CPUs -> PcSet]
    BY <1>3 DEF IdtGetLock, TypeOK, PcSet, Handler
  <2> QED
    BY <1>3, <2>1, <2>2, <2>3 DEF IdtGetLock, TypeOK
<1>4. CASE IdtCallManage(c)
  <2>1. pc' \in [CPUs -> PcSet]
    BY <1>4 DEF IdtCallManage, TypeOK, PcSet, Handler
  <2> QED
    BY <1>4, <2>1, KernelRegsType DEF IdtCallManage, TypeOK
<1>5. CASE RestoreRegisters(c)
  <2>1. pc' \in [CPUs -> PcSet]
    BY <1>5 DEF RestoreRegisters, TypeOK, PcSet, Handler
  <2> QED
    BY <1>5, <2>1 DEF RestoreRegisters, TypeOK
<1>6. CASE ReleaseAndReturn(c)
  <2>1. pc' \in [CPUs -> PcSet]
    BY <1>6 DEF ReleaseAndReturn, TypeOK, PcSet
  <2> QED
    BY <1>6, <2>1 DEF ReleaseAndReturn, TypeOK
<1>7. CASE IdtWait(c)
  <2>1. pc' \in [CPUs -> PcSet]
    BY <1>7 DEF IdtWait, TypeOK, PcSet
  <2> QED
    BY <1>7, <2>1 DEF IdtWait, TypeOK
<1> QED
  BY <1>1, <1>2, <1>3, <1>4, <1>5, <1>6, <1>7

\* Stopping, and the end of IdtCall, keep the types.
LEMMA HALTType ==
  ASSUME TypeOK, NEW c \in CPUs, HALT(c)
  PROVE  TypeOK'
<1>1. pc' \in [CPUs -> PcSet]
  BY DEF HALT, TypeOK, PcSet, Handler
<1> QED
  BY <1>1 DEF HALT, TypeOK, idtVars, tabVars, scanVars

LEMMA AfterIdtCallType ==
  ASSUME TypeOK, NEW c \in CPUs, AfterIdtCall(c)
  PROVE  pc' \in [CPUs -> PcSet]
  BY DEF AfterIdtCall, TypeOK, PcSet, Handler

\* The removal of a process keeps the types of the table.
LEMMA ProcessDoneType ==
  ASSUME TypeOK, NEW p \in Pids, DispatcherProcessDone(p)
  PROVE  /\ processes' \in Seq(Pids) /\ proc' \in [Pids -> ProcSet]
         /\ ran' \in SUBSET Pids /\ version' \in [Pids -> {0, 1}]
         /\ last_pid' \in Pids /\ cycle0' \in BOOLEAN
<1>1. processes' \in Seq(Pids)
  BY WithoutType DEF DispatcherProcessDone, TypeOK
<1>2. proc' \in [Pids -> ProcSet]
  BY NewProcessType DEF DispatcherProcessDone, TypeOK
<1> QED
  BY <1>1, <1>2 DEF DispatcherProcessDone, TypeOK

\* Exceptions and device interrupts keep the types.
LEMMA IdtCallType ==
  ASSUME TypeOK, NEW c \in CPUs,
         ExceptionInProcess(c) \/ ExceptionInKernel(c) \/ Spurious(c)
           \/ KeyboardIrq(c) \/ UnhandledIrq(c)
  PROVE  TypeOK'
<1> USE DEF cpuVars, idtVars, tabVars, scanVars
<1>1. CASE ExceptionInProcess(c)
  <2>1. current_pid[c] \in Pids
    BY <1>1 DEF ExceptionInProcess, TypeOK, Pids, Pid0
  <2>2. pc' \in [CPUs -> PcSet] /\ current_pid' \in [CPUs -> Pid0]
    BY <1>1, PidAssumption
    DEF ExceptionInProcess, TypeOK, PcSet, Handler, Pid0
  <2>3. /\ processes' \in Seq(Pids) /\ proc' \in [Pids -> ProcSet]
        /\ ran' \in SUBSET Pids /\ version' \in [Pids -> {0, 1}]
        /\ last_pid' \in Pids /\ cycle0' \in BOOLEAN
    BY <1>1, <2>1, ProcessDoneType DEF ExceptionInProcess
  <2> QED
    BY <1>1, <2>2, <2>3 DEF ExceptionInProcess, TypeOK
<1>2. CASE ExceptionInKernel(c) \/ Spurious(c)
  BY <1>2, HALTType DEF ExceptionInKernel, Spurious
<1>3. CASE KeyboardIrq(c)
  <2>1. keyboard' \in Seq(Keys)
    <3>1. keyboard \in Seq(Keys)
      BY DEF TypeOK
    <3>2. \A key \in Keys : Append(keyboard, key) \in Seq(Keys)
      BY <3>1
    <3> QED
      BY <1>3, <3>1, <3>2 DEF KeyboardIrq, KeyboardBufferQueue
  <2> QED
    BY <1>3, <2>1, AfterIdtCallType DEF KeyboardIrq, TypeOK
<1>4. CASE UnhandledIrq(c)
  BY <1>4, AfterIdtCallType DEF UnhandledIrq, TypeOK
<1> QED
  BY <1>1, <1>2, <1>3, <1>4

\* A suspension of the calling process keeps the types.
LEMMA KernelFunctionSuspendType ==
  ASSUME TypeOK, NEW c \in CPUs, NEW suspend \in Suspends, NEW data \in DataSet,
         NEW pending_exit \in BOOLEAN,
         KernelFunctionSuspend(c, suspend, data, pending_exit)
  PROVE  TypeOK'
<1> DEFINE pr == [proc EXCEPT ![current_pid[c]] =
                   [@ EXCEPT !.suspend = suspend, !.data = data,
                             !.pending_exit = pending_exit]]
<1>1. pr \in [Pids -> ProcSet]
  BY SuspendedType DEF TypeOK
<1>2. proc' = DispatcherSave(pr, c)
  BY DEF KernelFunctionSuspend
<1> HIDE DEF pr
<1>3. proc' \in [Pids -> ProcSet]
  BY <1>1, <1>2, DispatcherSaveType
<1>4. pc' \in [CPUs -> PcSet] /\ current_pid' \in [CPUs -> Pid0]
  BY PidAssumption DEF KernelFunctionSuspend, TypeOK, PcSet, Handler, Pid0
<1> QED
  BY <1>3, <1>4 DEF KernelFunctionSuspend, TypeOK, idtVars, scanVars

LEMMA SuspendingType ==
  ASSUME TypeOK, NEW c \in CPUs,
         KernelFunctionExit(c) \/ KernelFunctionSleep(c) \/ KernelFunctionRead(c)
  PROVE  TypeOK'
<1>1. {"sleep", "read", "exit"} \subseteq Suspends /\ {TRUE, FALSE} \subseteq BOOLEAN
  BY DEF Suspends
<1>2. \A n \in Nat, b \in BOOLEAN : [left |-> n, ok |-> b] \in DataSet
  BY DEF DataSet
<1>3. CASE KernelFunctionExit(c)
  <2>1. NoData \in DataSet
    BY DEF NoData, DataSet
  <2> QED
    BY <1>1, <1>3, <2>1, KernelFunctionSuspendType DEF KernelFunctionExit
<1>4. CASE KernelFunctionSleep(c)
  <2>1. \A ticks \in SleepUnits : ticks * SleepScale \in Nat
    BY BoundsAssumption
  <2> QED
    BY <1>1, <1>2, <1>4, <2>1, KernelFunctionSuspendType DEF KernelFunctionSleep
<1>5. CASE KernelFunctionRead(c)
  BY <1>1, <1>2, <1>5, BoundsAssumption, KernelFunctionSuspendType
  DEF KernelFunctionRead
<1> QED
  BY <1>3, <1>4, <1>5

\* The return of a kernel function keeps the types.
LEMMA FunctionReturnType ==
  ASSUME TypeOK, NEW c \in CPUs, FunctionReturn(c),
         version' = Answered(c, version)
  PROVE  /\ pc' \in [CPUs -> PcSet] /\ IdtCallSaved' \in RegSet
         /\ version' \in [Pids -> {0, 1}]
<1>1. IdtCallSaved.gp \in Tokens /\ IdtCallSaved \in RegSet
  BY DEF TypeOK, RegSet
<1>2. IdtCallSaved' \in RegSet
  BY <1>1, NextVersionType DEF FunctionReturn, RegSet
<1>3. version' \in [Pids -> {0, 1}]
  <2>1. \A p \in Pids : 1 - version[p] \in {0, 1}
    BY DEF TypeOK
  <2>2. version' = [version EXCEPT ![current_pid[c]] = 1 - version[current_pid[c]]]
    BY DEF Answered
  <2> QED
    BY ZenonT(30), <2>1, <2>2 DEF TypeOK
<1> QED
  BY <1>2, <1>3, AfterIdtCallType DEF FunctionReturn

\* The new process keeps the types of the table.
LEMMA ProcessNewType ==
  ASSUME TypeOK, NEW p \in Pids, NEW run \in BOOLEAN,
         DispatcherProcessNew(p, run)
  PROVE  /\ processes' \in Seq(Pids) /\ proc' \in [Pids -> ProcSet]
         /\ ran' \in SUBSET Pids /\ last_pid' \in Pids /\ cycle0' \in BOOLEAN
<1>1. processes' \in Seq(Pids)
  <2>1. processes \in Seq(Pids)
    BY DEF TypeOK
  <2> QED
    BY <2>1 DEF DispatcherProcessNew
<1>2. [NewProcess(p) EXCEPT !.run = run] \in ProcSet
  <2>1. NewProcess(p) \in ProcSet
    BY NewProcessType
  <2> QED
    BY <2>1 DEF ProcSet
<1>3. proc' \in [Pids -> ProcSet]
  BY <1>2 DEF DispatcherProcessNew, TypeOK
<1> QED
  BY <1>1, <1>3 DEF DispatcherProcessNew, TypeOK

LEMMA KernelFunctionsType ==
  ASSUME TypeOK, NEW c \in CPUs, KernelFunctions(c)
  PROVE  TypeOK'
<1>1. CASE KernelFunctionExit(c) \/ KernelFunctionSleep(c) \/ KernelFunctionRead(c)
  BY <1>1, SuspendingType
<1>2. CASE KernelFunctionRun(c)
  <2>1. CASE RunCall(c, "run") /\ ~PidsLeft /\ HALT(c)
    BY <2>1, HALTType
  <2>2. CASE ~(RunCall(c, "run") /\ ~PidsLeft /\ HALT(c))
    <3>1. PICK k \in 1..MaxPid :
            \/ DispatcherProcessNew(PidTried(k), TRUE)
            \/ DispatcherProcessNew(PidTried(k), FALSE)
            \/ /\ last_pid' = PidTried(k)
               /\ UNCHANGED <<processes, proc, ran, cycle0>>
      BY <1>2, <2>2 DEF KernelFunctionRun
    <3>2. version' = Answered(c, version) /\ FunctionReturn(c)
      BY <1>2, <2>2 DEF KernelFunctionRun
    <3>3. PidTried(k) \in Pids
      BY PidTriedType
    <3>4. /\ processes' \in Seq(Pids) /\ proc' \in [Pids -> ProcSet]
          /\ ran' \in SUBSET Pids /\ last_pid' \in Pids /\ cycle0' \in BOOLEAN
      <4>1. CASE \/ DispatcherProcessNew(PidTried(k), TRUE)
                 \/ DispatcherProcessNew(PidTried(k), FALSE)
        BY <3>3, <4>1, ProcessNewType
      <4>2. CASE /\ last_pid' = PidTried(k)
                 /\ UNCHANGED <<processes, proc, ran, cycle0>>
        BY <3>3, <4>2 DEF TypeOK
      <4> QED
        BY <3>1, <4>1, <4>2
    <3>5. /\ pc' \in [CPUs -> PcSet] /\ IdtCallSaved' \in RegSet
          /\ version' \in [Pids -> {0, 1}]
      BY <3>2, FunctionReturnType
    <3> QED
      BY <3>2, <3>4, <3>5 DEF FunctionReturn, TypeOK, scanVars
  <2> QED
    BY <2>1, <2>2
<1>3. CASE KernelFunctionOther(c)
  <2>1. /\ pc' \in [CPUs -> PcSet] /\ IdtCallSaved' \in RegSet
        /\ version' \in [Pids -> {0, 1}]
    BY <1>3, FunctionReturnType DEF KernelFunctionOther
  <2> QED
    BY <1>3, <2>1 DEF KernelFunctionOther, FunctionReturn, TypeOK, scanVars, tabVars
<1> QED
  BY <1>1, <1>2, <1>3 DEF KernelFunctions

\* The start of DispatcherSetUpNext keeps the types.
LEMMA TimerType ==
  ASSUME TypeOK, NEW c \in CPUs, IdtCallTimer(c)
  PROVE  TypeOK'
<1> DEFINE pr == IF c = ApicLocalBspId THEN Ticked(proc) ELSE proc
<1>1. pr \in [Pids -> ProcSet]
  BY TickOfType DEF Ticked, TypeOK
<1>2. proc' = DispatcherSave(pr, c)
  BY DEF IdtCallTimer
<1> HIDE DEF pr
<1>3. proc' \in [Pids -> ProcSet]
  BY <1>1, <1>2, DispatcherSaveType
<1>4. pc' \in [CPUs -> PcSet] /\ current_pid' \in [CPUs -> Pid0]
  BY PidAssumption DEF IdtCallTimer, TypeOK, PcSet, Handler, Pid0
<1> QED
  BY <1>3, <1>4 DEF IdtCallTimer, TypeOK, idtVars

\* The entry of the table that is visited is a pid.
LEMMA VisitedType ==
  ASSUME TypeOK, NEW c \in CPUs, NEW at, Visiting(c, at)
  PROVE  Visited \in Pids
<1>1. processes \in Seq(Pids)
  BY DEF TypeOK
<1> QED
  BY <1>1 DEF Visiting, Visited

LEMMA KernelFunctionDoneType ==
  ASSUME TypeOK, NEW p \in Pids, KernelFunctionDone(p)
  PROVE  proc' \in [Pids -> ProcSet] /\ version' \in [Pids -> {0, 1}]
<1>1. proc' \in [Pids -> ProcSet]
  BY DoneInType DEF KernelFunctionDone, TypeOK
<1>2. 1 - version[p] \in {0, 1}
  BY DEF TypeOK
<1> QED
  BY <1>1, <1>2 DEF KernelFunctionDone, TypeOK

\* Each step of DispatcherSetUpNext keeps the types.
LEMMA SetUpNextType ==
  ASSUME TypeOK, NEW c \in CPUs, SetUpNext(c)
  PROVE  TypeOK'
<1> USE DEF cpuVars, idtVars, tabVars, scanVars
<1> DEFINE TableType == /\ proc' \in [Pids -> ProcSet]
                        /\ version' \in [Pids -> {0, 1}]
<1>1. CASE ReapExited(c)
  <2>1. Visited \in Pids
    BY <1>1, VisitedType DEF ReapExited
  <2>2. /\ processes' \in Seq(Pids) /\ proc' \in [Pids -> ProcSet]
        /\ ran' \in SUBSET Pids /\ version' \in [Pids -> {0, 1}]
        /\ last_pid' \in Pids /\ cycle0' \in BOOLEAN
    BY <1>1, <2>1, ProcessDoneType DEF ReapExited
  <2> QED
    BY <1>1, <2>2 DEF ReapExited, TypeOK
<1>2. CASE TestSleep(c)
  <2>1. Visited \in Pids
    BY <1>2, VisitedType DEF TestSleep, Testing
  <2>2. \/ KernelFunctionDone(Visited)
        \/ UNCHANGED <<proc, version>>
    BY <1>2 DEF TestSleep
  <2>3. TableType
    BY <2>1, <2>2, KernelFunctionDoneType DEF TypeOK
  <2>4. pc' \in [CPUs -> PcSet]
    BY <1>2 DEF TestSleep, TypeOK, PcSet, Handler
  <2> QED
    BY <1>2, <2>3, <2>4 DEF TestSleep, TypeOK
<1>3. CASE TestRead(c)
  <2>1. Visited \in Pids
    BY <1>3, VisitedType DEF TestRead, Testing
  <2>2. \/ KernelFunctionDone(Visited)
        \/ UNCHANGED <<proc, version>>
        \/ /\ proc' = [proc EXCEPT ![Visited] = OneLess(proc[Visited])]
           /\ ~(proc[Visited].data.left <= 1)
           /\ UNCHANGED version
    BY <1>3 DEF TestRead
  <2>3. TableType
    <3>1. CASE /\ proc' = [proc EXCEPT ![Visited] = OneLess(proc[Visited])]
               /\ ~(proc[Visited].data.left <= 1)
               /\ UNCHANGED version
      <4>1. proc[Visited] \in ProcSet /\ proc[Visited].data.left \in Nat
        BY <2>1 DEF TypeOK, ProcSet, DataSet
      <4>2. proc[Visited].data.left > 0
        BY <3>1, <4>1
      <4>3. OneLess(proc[Visited]) \in ProcSet
        BY <4>1, <4>2, OneLessType
      <4> QED
        BY <3>1, <4>3 DEF TypeOK
    <3> QED
      BY <2>1, <2>2, <3>1, KernelFunctionDoneType DEF TypeOK
  <2>4. keyboard' \in Seq(Keys)
    <3>1. keyboard \in Seq(Keys)
      BY DEF TypeOK
    <3>2. keyboard # <<>> => KeyboardBufferGet \in Seq(Keys)
      <4>1. keyboard # <<>> => /\ Tail(keyboard) \in Seq(Keys)
                               /\ keyboard[Len(keyboard)] \in Keys
        BY <3>1
      <4> QED
        BY <4>1 DEF KeyboardBufferGet
    <3> QED
      BY <1>3, <3>1, <3>2 DEF TestRead
  <2>5. pc' \in [CPUs -> PcSet]
    BY <1>3 DEF TestRead, TypeOK, PcSet, Handler
  <2> QED
    BY <1>3, <2>3, <2>4, <2>5 DEF TestRead, TypeOK
<1>4. CASE TestReadBadFd(c)
  BY <1>4, HALTType DEF TestReadBadFd
<1>5. CASE SkipProcess(c)
  <2>1. pc' \in [CPUs -> PcSet]
    BY <1>5 DEF SkipProcess, TypeOK, PcSet, Handler
  <2> QED
    BY <1>5, <2>1 DEF SkipProcess, TypeOK
<1>6. CASE SelectProcess(c)
  <2>1. Visited \in Pids
    BY <1>6, VisitedType DEF SelectProcess, Tested
  <2>2. proc[Visited] \in ProcSet
    BY <2>1 DEF TypeOK
  <2>3. [proc[Visited] EXCEPT !.lock = TRUE] \in ProcSet
    BY <2>2 DEF ProcSet
  <2>4. proc' \in [Pids -> ProcSet] /\ ran' \in SUBSET Pids
    BY <1>6, <2>1, <2>3 DEF SelectProcess, TypeOK
  <2>5. proc[Visited].save \in RegSet
    BY <2>2 DEF ProcSet
  <2>6. IdtCallSaved' \in RegSet
    BY <1>6, <2>5 DEF SelectProcess, TypeOK, RegSet
  <2>7. pc' \in [CPUs -> PcSet] /\ current_pid' \in [CPUs -> Pid0]
    <3>1. Visited \in Pid0
      BY <2>1 DEF Pids, Pid0
    <3> QED
      BY <1>6, <3>1 DEF SelectProcess, TypeOK, PcSet, Handler
  <2> QED
    BY <1>6, <2>4, <2>6, <2>7 DEF SelectProcess, TypeOK
<1>7. CASE NextCycle(c)
  <2>1. ran' \in SUBSET Pids /\ process_no' \in Nat \ {0}
    BY <1>7 DEF NextCycle
  <2>2. cycle0' \in BOOLEAN /\ no_processes_to_run' \in BOOLEAN
    BY <1>7 DEF NextCycle
  <2> QED
    BY <1>7, <2>1, <2>2 DEF NextCycle, TypeOK
<1>8. CASE NothingToRun(c)
  <2>1. pc' \in [CPUs -> PcSet] /\ current_pid' \in [CPUs -> Pid0]
    BY <1>8, PidAssumption DEF NothingToRun, TypeOK, PcSet, Handler, Pid0
  <2> QED
    BY <1>8, <2>1 DEF NothingToRun, TypeOK
<1> QED
  BY <1>1, <1>2, <1>3, <1>4, <1>5, <1>6, <1>7, <1>8 DEF SetUpNext

LEMMA NextType == TypeOK /\ [Next]_vars => TypeOK'
<1> SUFFICES ASSUME TypeOK, [Next]_vars PROVE TypeOK'
  OBVIOUS
<1>1. CASE Next
  <2>1. PICK c \in CPUs :
          UserStep(c) \/ Interrupts(c) \/ IdtGetLock(c) \/ HandlerStep(c)
    BY <1>1 DEF Next
  <2> QED
    BY <2>1, EntryExitType, IdtCallType, KernelFunctionsType, TimerType,
       SetUpNextType DEF HandlerStep
<1>2. CASE UNCHANGED vars
  BY <1>2 DEF vars, cpuVars, idtVars, tabVars, scanVars, TypeOK
<1> QED
  BY <1>1, <1>2

\* Every variable keeps its type: whatever the processes, devices and CPUs do,
\* a pid is never 0 or beyond MaxPid, and the scan of the table never leaves it
\* but at its end.
THEOREM TypeCorrect == Spec => []TypeOK
<1>1. Init => TypeOK
  BY InitType
<1>2. TypeOK /\ [Next]_vars => TypeOK'
  BY NextType
<1> QED
  BY <1>1, <1>2, PTL DEF Spec

-----------------------------------------------------------------------------
(* The kernel lock.                                                        *)

\* What a step of CPU c does to IdtBusy: it leaves it alone and enters no
\* handler, takes it when it is free, or gives it back and leaves the handler.
LockStep(c) ==
  \E x \in PcSet :
    /\ pc' = [pc EXCEPT ![c] = x]
    /\ \/ IdtBusy' = IdtBusy /\ (InHandler(c) \/ x \notin Handler)
       \/ ~IdtBusy /\ IdtBusy'
       \/ InHandler(c) /\ ~IdtBusy' /\ x \notin Handler

\* A step that keeps the lock and stays where it is in the handler, or moves on.
LEMMA HandlerMove ==
  ASSUME NEW c \in CPUs, InHandler(c), NEW x \in PcSet,
         pc' = [pc EXCEPT ![c] = x], IdtBusy' = IdtBusy
  PROVE  LockStep(c)
  BY DEF LockStep

LEMMA HandlerStay ==
  ASSUME TypeOK, NEW c \in CPUs, InHandler(c), pc' = pc, IdtBusy' = IdtBusy
  PROVE  LockStep(c)
<1>1. pc' = [pc EXCEPT ![c] = pc[c]] /\ pc[c] \in PcSet
  BY DEF TypeOK
<1> QED
  BY <1>1, HandlerMove

LEMMA NextLock ==
  ASSUME TypeOK, NEW c \in CPUs,
         UserStep(c) \/ Interrupts(c) \/ IdtGetLock(c) \/ HandlerStep(c)
  PROVE  LockStep(c)
<1> USE DEF cpuVars, idtVars, tabVars, scanVars
<1>1. CASE UserStep(c)
  <2>1. /\ pc' = [pc EXCEPT ![c] = pc[c]] /\ pc[c] \in PcSet
        /\ pc[c] \notin Handler /\ IdtBusy' = IdtBusy
    BY <1>1 DEF UserStep, TypeOK, Handler
  <2> QED
    BY <2>1 DEF LockStep
<1>2. CASE Interrupts(c)
  <2>1. /\ pc' = [pc EXCEPT ![c] = "spin"] /\ IdtBusy' = IdtBusy
    BY <1>2 DEF Interrupts, TimerInterrupt, FunctionInterrupt, ProcessFault,
       SpuriousInterrupt, DeviceInterrupt, KernelFault, Interrupt
  <2>2. "spin" \in PcSet /\ "spin" \notin Handler
    BY DEF PcSet, Handler
  <2> QED
    BY <2>1, <2>2 DEF LockStep
<1>3. CASE IdtGetLock(c)
  <2>1. pc' = [pc EXCEPT ![c] = "entry"] /\ ~IdtBusy /\ IdtBusy'
    BY <1>3 DEF IdtGetLock
  <2>2. "entry" \in PcSet
    BY DEF PcSet, Handler
  <2> QED
    BY <2>1, <2>2 DEF LockStep
<1>4. CASE ReleaseAndReturn(c)
  <2>1. /\ pc' = [pc EXCEPT ![c] = "user"] /\ ~IdtBusy' /\ InHandler(c)
    BY <1>4 DEF ReleaseAndReturn, InHandler, Handler
  <2>2. "user" \in PcSet /\ "user" \notin Handler
    BY DEF PcSet, Handler
  <2> QED
    BY <2>1, <2>2 DEF LockStep
<1>5. CASE IdtWait(c)
  <2>1. /\ pc' = [pc EXCEPT ![c] = "idle"] /\ ~IdtBusy' /\ InHandler(c)
    BY <1>5 DEF IdtWait, InHandler, Handler
  <2>2. "idle" \in PcSet /\ "idle" \notin Handler
    BY DEF PcSet, Handler
  <2> QED
    BY <2>1, <2>2 DEF LockStep
<1>6. CASE ReapExited(c) \/ NextCycle(c)
  <2>1. pc' = pc /\ IdtBusy' = IdtBusy /\ InHandler(c)
    BY <1>6 DEF ReapExited, NextCycle, EndOfTable, Visiting, InHandler, Handler
  <2> QED
    BY <2>1, HandlerStay
<1>7. ASSUME \/ IdtCallManage(c) \/ ExceptionInProcess(c) \/ ExceptionInKernel(c)
             \/ Spurious(c) \/ KeyboardIrq(c) \/ UnhandledIrq(c)
             \/ KernelFunctions(c) \/ IdtCallTimer(c) \/ TestSleep(c)
             \/ TestRead(c) \/ TestReadBadFd(c) \/ SkipProcess(c)
             \/ SelectProcess(c) \/ NothingToRun(c) \/ RestoreRegisters(c)
      PROVE  LockStep(c)
  <2>1. InHandler(c)
    <3>1. pc[c] \in {"entry", "call", "scan", "decide", "restore"}
      BY <1>7 DEF IdtCallManage, ExceptionInProcess, ExceptionInKernel, Spurious,
         KeyboardIrq, UnhandledIrq, KernelFunctions, KernelFunctionExit,
         KernelFunctionSleep, KernelFunctionRead, KernelFunctionRun,
         KernelFunctionOther, IdtCallTimer, TestSleep, TestRead, TestReadBadFd,
         SkipProcess, SelectProcess, NothingToRun, RestoreRegisters, InCall,
         FunctionCall, RunCall, Testing, Tested, Visiting, EndOfTable
    <3> QED
      BY <3>1 DEF InHandler, Handler
  <2>2. IdtBusy' = IdtBusy
    BY <1>7 DEF IdtCallManage, ExceptionInProcess, ExceptionInKernel, Spurious,
       KeyboardIrq, UnhandledIrq, KernelFunctions, KernelFunctionExit,
       KernelFunctionSleep, KernelFunctionRead, KernelFunctionRun,
       KernelFunctionOther, KernelFunctionSuspend, FunctionReturn, HALT,
       IdtCallTimer, TestSleep, TestRead, TestReadBadFd,
       SkipProcess, SelectProcess, NothingToRun, RestoreRegisters
  <2>3. PICK x \in {"call", "wait", "halted", "restore", "scan", "decide",
                    "release"} : pc' = [pc EXCEPT ![c] = x]
    BY <1>7 DEF IdtCallManage, ExceptionInProcess, ExceptionInKernel, Spurious,
       KeyboardIrq, UnhandledIrq, KernelFunctions, KernelFunctionExit,
       KernelFunctionSleep, KernelFunctionRead, KernelFunctionRun,
       KernelFunctionOther, KernelFunctionSuspend, FunctionReturn, HALT,
       IdtCallTimer, TestSleep, TestRead, TestReadBadFd, AfterIdtCall,
       SkipProcess, SelectProcess, NothingToRun, RestoreRegisters
  <2>4. x \in PcSet
    BY DEF PcSet, Handler
  <2> QED
    BY <2>1, <2>2, <2>3, <2>4, HandlerMove
<1> QED
  BY <1>1, <1>2, <1>3, <1>4, <1>5, <1>6, <1>7 DEF HandlerStep, SetUpNext

\* At most one CPU is between IdtGetLock and the release of the kernel lock,
\* and only while IdtBusy is set, whatever the CPUs are doing.
THEOREM KernelLock == Spec => []MutualExclusion
<1>1. Init => MutualExclusion
  BY DEF Init, MutualExclusion, InHandler, Handler
<1>2. TypeOK /\ MutualExclusion /\ [Next]_vars => MutualExclusion'
  <2> SUFFICES ASSUME TypeOK, MutualExclusion, [Next]_vars
               PROVE  MutualExclusion'
    OBVIOUS
  <2>1. CASE Next
    <3>1. PICK c \in CPUs : LockStep(c)
      BY <2>1, NextLock DEF Next
    <3>2. PICK x \in PcSet :
            /\ pc' = [pc EXCEPT ![c] = x]
            /\ \/ IdtBusy' = IdtBusy /\ (InHandler(c) \/ x \notin Handler)
               \/ ~IdtBusy /\ IdtBusy'
               \/ InHandler(c) /\ ~IdtBusy' /\ x \notin Handler
      BY <3>1 DEF LockStep
    <3>3. pc'[c] = x /\ \A d \in CPUs \ {c} : pc'[d] = pc[d]
      BY <3>2 DEF TypeOK
    <3> QED
      BY <3>2, <3>3 DEF MutualExclusion, InHandler
  <2>2. CASE UNCHANGED vars
    BY <2>2 DEF vars, cpuVars, idtVars, MutualExclusion, InHandler
  <2> QED
    BY <2>1, <2>2
<1> QED
  BY <1>1, <1>2, TypeCorrect, PTL DEF Spec

-----------------------------------------------------------------------------
(* The invariant of the table.                                             *)

Runnable(f) == f.run /\ f.suspend = "none" /\ ~f.pending_exit

CurrentRunnable ==
  \A c \in CPUs : current_pid[c] # 0 => Runnable(proc[current_pid[c]])

\* Where in its handler a CPU has a process, and where it has none.
Control ==
  \A c \in CPUs :
    /\ pc[c] \in {"user", "restore", "release"} => current_pid[c] # 0
    /\ pc[c] \in {"idle", "scan", "decide", "wait"} => current_pid[c] = 0

Table == PidsUnique /\ CurrentInTable /\ OneCpuPerProcess /\ CurrentRunnable

-----------------------------------------------------------------------------
(* The table.                                                              *)

LEMMA CurrentIsPid ==
  ASSUME TypeOK, NEW c \in CPUs, current_pid[c] # 0
  PROVE  current_pid[c] \in Pids
  BY DEF TypeOK, Pids, Pid0

\* Removing the only entry of a pid keeps all others, once each.
LEMMA WithoutElements ==
  ASSUME NEW s \in Seq(Pids), NEW p \in Pids,
         \A i, j \in DOMAIN s : s[i] = s[j] => i = j,
         \E i \in DOMAIN s : s[i] = p
  PROVE  /\ \A i, j \in DOMAIN Without(s, p) :
              Without(s, p)[i] = Without(s, p)[j] => i = j
         /\ \A q : (\E j \in DOMAIN Without(s, p) : Without(s, p)[j] = q)
                     <=> (q # p /\ \E i \in DOMAIN s : s[i] = q)
<1> DEFINE i == CHOOSE i \in DOMAIN s : s[i] = p
<1> DEFINE f == [j \in 1..(Len(s) - 1) |-> IF j < i THEN s[j] ELSE s[j + 1]]
<1>1. Without(s, p) = f
  BY DEF Without
<1>2. i \in DOMAIN s /\ s[i] = p
  OBVIOUS
<1> HIDE DEF i
<1>3. DOMAIN s = 1..Len(s) /\ Len(s) \in Nat /\ i \in 1..Len(s)
  BY <1>2
<1>4. DOMAIN f = 1..(Len(s) - 1)
  OBVIOUS
<1>5. \A j \in DOMAIN f : /\ j \in 1..(Len(s) - 1)
                          /\ j < i => f[j] = s[j]
                          /\ ~(j < i) => f[j] = s[j + 1]
                          /\ j \in DOMAIN s /\ j + 1 \in DOMAIN s
  BY <1>3
<1> HIDE DEF f
<1>6. \A j, k \in DOMAIN f : f[j] = f[k] => j = k
  BY <1>3, <1>5
<1>7. ASSUME NEW q
      PROVE  (\E j \in DOMAIN f : f[j] = q) <=> (q # p /\ \E k \in DOMAIN s : s[k] = q)
  <2>1. ASSUME NEW j \in DOMAIN f, f[j] = q
        PROVE  q # p /\ \E k \in DOMAIN s : s[k] = q
    <3>1. CASE j < i
      BY <1>2, <1>5, <2>1, <3>1
    <3>2. CASE ~(j < i)
      <4>1. j + 1 \in DOMAIN s /\ s[j + 1] = q /\ j + 1 # i
        BY <1>3, <1>5, <2>1, <3>2
      <4> QED BY <1>2, <4>1
    <3> QED BY <3>1, <3>2
  <2>2. ASSUME q # p, NEW k \in DOMAIN s, s[k] = q
        PROVE  \E j \in DOMAIN f : f[j] = q
    <3>1. k # i
      BY <1>2, <2>2
    <3>2. CASE k < i
      <4>1. k \in DOMAIN f
        BY <1>3, <1>4, <3>2
      <4> QED BY <1>5, <2>2, <3>2, <4>1
    <3>3. CASE k > i
      <4>1. k - 1 \in DOMAIN f /\ ~(k - 1 < i) /\ (k - 1) + 1 = k
        BY <1>3, <1>4, <3>3
      <4>2. f[k - 1] = s[(k - 1) + 1]
        BY <1>5, <4>1
      <4> QED BY <2>2, <4>1, <4>2
    <3> QED BY <1>3, <3>1, <3>2, <3>3
  <2> QED BY <2>1, <2>2
<1> QED BY <1>1, <1>6, <1>7

\* A step that leaves the table, the assignment of CPUs, the locks and the processes
\* that run as they are.
LEMMA TableKept ==
  ASSUME TypeOK, Table, processes' = processes, current_pid' = current_pid,
         \A p \in Pids : /\ proc'[p].lock = proc[p].lock
                         /\ proc[p].lock /\ Runnable(proc[p]) => Runnable(proc'[p])
  PROVE  Table'
<1>1. PidsUnique' /\ CurrentInTable' /\ OneCpuPerProcess'
  BY DEF Table, PidsUnique, CurrentInTable, InTable, OneCpuPerProcess
<1>2. CurrentRunnable'
  <2> SUFFICES ASSUME NEW c \in CPUs, current_pid[c] # 0
               PROVE  Runnable(proc'[current_pid[c]])
    BY DEF CurrentRunnable, Runnable
  <2>1. current_pid[c] \in Pids
    BY CurrentIsPid
  <2>2. proc[current_pid[c]].lock /\ Runnable(proc[current_pid[c]])
    BY <2>1 DEF Table, OneCpuPerProcess, CurrentRunnable
  <2> QED BY <2>1, <2>2
<1> QED BY <1>1, <1>2 DEF Table

\* A CPU leaves its process: the process is unlocked, the others stay as they are.
LEMMA TableLeft ==
  ASSUME TypeOK, Table, NEW c \in CPUs, processes' = processes,
         current_pid' = [current_pid EXCEPT ![c] = 0],
         \A p \in Pids :
           /\ p = current_pid[c] => ~proc'[p].lock
           /\ p # current_pid[c] =>
                /\ proc'[p].lock = proc[p].lock
                /\ Runnable(proc[p]) /\ proc[p].lock => Runnable(proc'[p])
  PROVE  Table'
<1>1. current_pid'[c] = 0 /\ \A d \in CPUs : d # c => current_pid'[d] = current_pid[d]
  BY DEF TypeOK
<1>2. \A d \in CPUs : d # c /\ current_pid[d] # 0 => current_pid[d] # current_pid[c]
  BY DEF Table, OneCpuPerProcess
<1>3. PidsUnique' /\ CurrentInTable'
  BY <1>1 DEF Table, PidsUnique, CurrentInTable, InTable
<1>4. \A d, e \in CPUs :
        current_pid'[d] # 0 /\ current_pid'[d] = current_pid'[e] => d = e
  BY <1>1 DEF Table, OneCpuPerProcess
<1>5. ASSUME NEW p \in Pids
      PROVE  proc'[p].lock <=> \E d \in CPUs : current_pid'[d] = p
  <2>1. p # 0
    BY DEF Pids
  <2>2. CASE p = current_pid[c]
    BY <1>1, <1>2, <2>1, <2>2
  <2>3. CASE p # current_pid[c]
    BY <1>1, <2>1, <2>3 DEF Table, OneCpuPerProcess
  <2> QED BY <2>2, <2>3
<1>6. CurrentRunnable'
  <2> SUFFICES ASSUME NEW d \in CPUs, current_pid'[d] # 0
               PROVE  Runnable(proc'[current_pid'[d]])
    BY DEF CurrentRunnable, Runnable
  <2>1. d # c /\ current_pid'[d] = current_pid[d] /\ current_pid[d] # current_pid[c]
    BY <1>1, <1>2
  <2>2. current_pid[d] \in Pids
    BY <2>1, CurrentIsPid
  <2>3. proc[current_pid[d]].lock /\ Runnable(proc[current_pid[d]])
    BY <2>1, <2>2 DEF Table, OneCpuPerProcess, CurrentRunnable
  <2> QED BY <2>1, <2>2, <2>3
<1> QED BY <1>3, <1>4, <1>5, <1>6 DEF Table, OneCpuPerProcess

\* DispatcherProcessDone, when no CPU keeps the process that is removed.
LEMMA TableRemoved ==
  ASSUME TypeOK, Table, NEW p \in Pids, InTable(p), DispatcherProcessDone(p),
         current_pid' \in [CPUs -> Pid0],
         \A d \in CPUs : /\ current_pid[d] = p => current_pid'[d] = 0
                         /\ current_pid[d] # p => current_pid'[d] = current_pid[d]
  PROVE  Table' /\ \A q : InTable(q)' <=> (InTable(q) /\ q # p)
<1>1. /\ processes \in Seq(Pids)
      /\ \A i, j \in DOMAIN processes : processes[i] = processes[j] => i = j
      /\ \E i \in DOMAIN processes : processes[i] = p
      /\ processes' = Without(processes, p)
  BY DEF TypeOK, Table, PidsUnique, InTable, DispatcherProcessDone
<1>2. /\ \A i, j \in DOMAIN processes' : processes'[i] = processes'[j] => i = j
      /\ \A q : (\E j \in DOMAIN processes' : processes'[j] = q)
                  <=> (q # p /\ \E i \in DOMAIN processes : processes[i] = q)
  BY <1>1, WithoutElements
<1>3. \A q : InTable(q)' <=> (InTable(q) /\ q # p)
  BY <1>2 DEF InTable
<1>5. \A d \in CPUs : current_pid'[d] # 0 =>
        /\ current_pid[d] # 0 /\ current_pid[d] # p
        /\ current_pid'[d] = current_pid[d]
  OBVIOUS
<1>4. PidsUnique' /\ CurrentInTable'
  <2>1. PidsUnique'
    BY <1>2 DEF PidsUnique
  <2>2. ASSUME NEW d \in CPUs, current_pid'[d] # 0
        PROVE  InTable(current_pid[d])'
    <3>1. InTable(current_pid[d]) /\ current_pid[d] # p
      BY <1>5, <2>2 DEF Table, CurrentInTable
    <3>2. \E j \in DOMAIN processes' : processes'[j] = current_pid'[d]
      BY <1>2, <1>5, <2>2, <3>1 DEF InTable
    <3> QED BY <3>2 DEF InTable
  <2> QED BY <2>1, <2>2 DEF CurrentInTable
<1>6. \A d, e \in CPUs :
        current_pid'[d] # 0 /\ current_pid'[d] = current_pid'[e] => d = e
  BY <1>5 DEF Table, OneCpuPerProcess
<1>7. /\ ~proc'[p].lock
      /\ \A q \in Pids : q # p => proc'[q] = proc[q]
  BY DEF DispatcherProcessDone, TypeOK, NewProcess
<1>8. ASSUME NEW q \in Pids
      PROVE  proc'[q].lock <=> \E d \in CPUs : current_pid'[d] = q
  <2>1. q # 0
    BY DEF Pids
  <2>2. CASE q = p
    BY <1>5, <1>7, <2>1, <2>2
  <2>3. CASE q # p
    BY <1>7, <2>1, <2>3 DEF Table, OneCpuPerProcess
  <2> QED BY <2>2, <2>3
<1>9. CurrentRunnable'
  <2> SUFFICES ASSUME NEW d \in CPUs, current_pid'[d] # 0
               PROVE  Runnable(proc'[current_pid'[d]])
    BY DEF CurrentRunnable, Runnable
  <2>1. /\ current_pid[d] \in Pids /\ current_pid[d] # p
        /\ current_pid'[d] = current_pid[d]
    BY <1>5, CurrentIsPid
  <2> QED BY <1>5, <1>7, <2>1 DEF Table, CurrentRunnable
<1> QED BY <1>3, <1>4, <1>6, <1>8, <1>9 DEF Table, OneCpuPerProcess

\* DispatcherProcessNew, for a pid that DispatcherFind does not find.
LEMMA TableAdded ==
  ASSUME TypeOK, Table, NEW p \in Pids, NEW run \in BOOLEAN, ~InTable(p),
         DispatcherProcessNew(p, run), current_pid' = current_pid
  PROVE  Table' /\ \A q : InTable(q)' <=> (InTable(q) \/ q = p)
<1>1. /\ processes \in Seq(Pids) /\ processes' = Append(processes, p)
      /\ \A i \in DOMAIN processes : processes[i] # p
  BY DEF TypeOK, InTable, DispatcherProcessNew
<1>2. /\ DOMAIN processes = 1..Len(processes) /\ Len(processes) \in Nat
      /\ DOMAIN processes' = 1..(Len(processes) + 1)
      /\ processes'[Len(processes) + 1] = p
      /\ \A i \in DOMAIN processes : processes'[i] = processes[i]
  BY <1>1
<1>3. \A i \in DOMAIN processes' : i \in DOMAIN processes \/ i = Len(processes) + 1
  BY <1>2
<1>4. PidsUnique'
  BY <1>1, <1>2, <1>3 DEF Table, PidsUnique
<1>5. \A q : InTable(q)' <=> (InTable(q) \/ q = p)
  <2> SUFFICES ASSUME NEW q PROVE InTable(q)' <=> (InTable(q) \/ q = p)
    OBVIOUS
  <2>1. DOMAIN processes \subseteq DOMAIN processes'
        /\ Len(processes) + 1 \in DOMAIN processes'
    BY <1>2
  <2> QED BY <1>2, <1>3, <2>1 DEF InTable
<1>6. CurrentInTable'
  BY <1>5 DEF Table, CurrentInTable
<1>7. \A c \in CPUs : current_pid[c] # p
  <2>1. p # 0
    BY DEF Pids
  <2> QED BY <2>1 DEF Table, CurrentInTable
<1>8. /\ ~proc'[p].lock
      /\ \A q \in Pids : q # p => proc'[q] = proc[q]
  BY DEF DispatcherProcessNew, TypeOK, NewProcess
<1>9. OneCpuPerProcess'
  BY <1>7, <1>8 DEF Table, OneCpuPerProcess
<1>10. CurrentRunnable'
  <2> SUFFICES ASSUME NEW d \in CPUs, current_pid[d] # 0
               PROVE  Runnable(proc'[current_pid[d]])
    BY DEF CurrentRunnable, Runnable
  <2>1. current_pid[d] \in Pids
    BY CurrentIsPid
  <2> QED BY <1>7, <1>8, <2>1 DEF Table, CurrentRunnable
<1> QED BY <1>4, <1>5, <1>6, <1>9, <1>10 DEF Table

\* A CPU that has no process takes one that may run and that no CPU has.
LEMMA TableSelected ==
  ASSUME TypeOK, Table, NEW c \in CPUs, current_pid[c] = 0, SelectProcess(c)
  PROVE  Table'
<1> DEFINE p == Visited
<1>1. Visiting(c, {"scan", "decide"}) /\ ~proc[p].pending_exit /\ Eligible(p)
  BY DEF SelectProcess, Tested
<1>2. p \in Pids /\ InTable(p)
  BY <1>1, VisitedType DEF Visiting, Visited, InTable
<1>3. Runnable(proc[p]) /\ ~proc[p].lock
  BY <1>1 DEF Eligible, Runnable
<1>4. /\ processes' = processes
      /\ proc' = [proc EXCEPT ![p] = [proc[p] EXCEPT !.lock = TRUE]]
      /\ current_pid' = [current_pid EXCEPT ![c] = p]
  BY DEF SelectProcess
<1> HIDE DEF p
<1>5. proc[p] \in ProcSet
  BY <1>2 DEF TypeOK
<1>6. /\ proc'[p].lock /\ Runnable(proc'[p])
      /\ \A q \in Pids : q # p => proc'[q] = proc[q]
  BY <1>2, <1>3, <1>4, <1>5 DEF TypeOK, ProcSet, Runnable
<1>7. current_pid'[c] = p /\ \A d \in CPUs : d # c => current_pid'[d] = current_pid[d]
  BY <1>4 DEF TypeOK
<1>8. \A d \in CPUs : current_pid[d] # p
  BY <1>2, <1>3 DEF Table, OneCpuPerProcess
<1>9. PidsUnique' /\ CurrentInTable'
  BY <1>2, <1>4, <1>7 DEF Table, PidsUnique, CurrentInTable, InTable
<1>10. \A d, e \in CPUs :
         current_pid'[d] # 0 /\ current_pid'[d] = current_pid'[e] => d = e
  BY <1>7, <1>8 DEF Table, OneCpuPerProcess
<1>11. ASSUME NEW q \in Pids
       PROVE  proc'[q].lock <=> \E d \in CPUs : current_pid'[d] = q
  <2>1. q # 0
    BY DEF Pids
  <2>2. CASE q = p
    BY <1>6, <1>7, <2>2
  <2>3. CASE q # p
    BY <1>6, <1>7, <2>1, <2>3 DEF Table, OneCpuPerProcess
  <2> QED BY <2>2, <2>3
<1>12. CurrentRunnable'
  <2> SUFFICES ASSUME NEW d \in CPUs, current_pid'[d] # 0
               PROVE  Runnable(proc'[current_pid'[d]])
    BY DEF CurrentRunnable, Runnable
  <2>1. CASE d = c
    BY <1>6, <1>7, <2>1
  <2>2. CASE d # c
    <3>1. /\ current_pid'[d] = current_pid[d] /\ current_pid[d] # p
          /\ current_pid[d] # 0
      BY <1>7, <1>8, <2>2
    <3>2. current_pid[d] \in Pids
      BY <3>1, CurrentIsPid
    <3> QED BY <1>6, <3>1, <3>2 DEF Table, CurrentRunnable
  <2> QED BY <2>1, <2>2
<1> QED BY <1>9, <1>10, <1>11, <1>12 DEF Table, OneCpuPerProcess
-----------------------------------------------------------------------------
(* Every step keeps the invariant.                                         *)

\* The process structs after a suspension of the process of CPU c, or after the
\* timer has saved it: that process is unlocked, the others are as in pr.
LEMMA SavedStructs ==
  ASSUME TypeOK, NEW c \in CPUs, NEW pr \in [Pids -> ProcSet],
         proc' = DispatcherSave(pr, c)
  PROVE  \A p \in Pids : /\ p = current_pid[c] => ~proc'[p].lock
                         /\ p # current_pid[c] => proc'[p] = pr[p]
<1>1. CASE current_pid[c] = 0
  BY <1>1 DEF DispatcherSave, Pids
<1>2. CASE current_pid[c] # 0
  <2>1. current_pid[c] \in Pids
    BY <1>2, CurrentIsPid
  <2>2. proc' = [pr EXCEPT ![current_pid[c]] = SaveIn(pr[current_pid[c]])]
    BY <1>2 DEF DispatcherSave
  <2>3. \A f \in ProcSet : ~SaveIn(f).lock
    BY DEF SaveIn, ProcSet
  <2> QED BY <2>1, <2>2, <2>3
<1> QED BY <1>1, <1>2

LEMMA SuspendTable ==
  ASSUME TypeOK, Table, NEW c \in CPUs, NEW suspend \in Suspends,
         NEW data \in DataSet, NEW pending_exit \in BOOLEAN,
         KernelFunctionSuspend(c, suspend, data, pending_exit)
  PROVE  Table'
<1> DEFINE pr == [proc EXCEPT ![current_pid[c]] =
                   [@ EXCEPT !.suspend = suspend, !.data = data,
                             !.pending_exit = pending_exit]]
<1>1. /\ pr \in [Pids -> ProcSet]
      /\ \A p \in Pids : p # current_pid[c] => pr[p] = proc[p]
  BY SuspendedType DEF TypeOK
<1>2. /\ proc' = DispatcherSave(pr, c) /\ processes' = processes
      /\ current_pid' = [current_pid EXCEPT ![c] = 0]
  BY DEF KernelFunctionSuspend
<1> HIDE DEF pr
<1>3. \A p \in Pids : /\ p = current_pid[c] => ~proc'[p].lock
                      /\ p # current_pid[c] => proc'[p] = proc[p]
  BY <1>1, <1>2, SavedStructs
<1> QED BY <1>2, <1>3, TableLeft

LEMMA SuspendingTable ==
  ASSUME TypeOK, Table, NEW c \in CPUs,
         KernelFunctionExit(c) \/ KernelFunctionSleep(c) \/ KernelFunctionRead(c)
  PROVE  Table'
<1>1. {"sleep", "read", "exit"} \subseteq Suspends /\ {TRUE, FALSE} \subseteq BOOLEAN
  BY DEF Suspends
<1>2. \A n \in Nat, b \in BOOLEAN : [left |-> n, ok |-> b] \in DataSet
  BY DEF DataSet
<1>3. CASE KernelFunctionExit(c)
  <2>1. NoData \in DataSet
    BY DEF NoData, DataSet
  <2> QED BY <1>1, <1>3, <2>1, SuspendTable DEF KernelFunctionExit
<1>4. CASE KernelFunctionSleep(c)
  <2>1. \A ticks \in SleepUnits : ticks * SleepScale \in Nat
    BY BoundsAssumption
  <2> QED BY <1>1, <1>2, <1>4, <2>1, SuspendTable DEF KernelFunctionSleep
<1>5. CASE KernelFunctionRead(c)
  BY <1>1, <1>2, <1>5, BoundsAssumption, SuspendTable DEF KernelFunctionRead
<1> QED BY <1>3, <1>4, <1>5

LEMMA TimerTable ==
  ASSUME TypeOK, Table, NEW c \in CPUs, IdtCallTimer(c)
  PROVE  Table'
<1> DEFINE pr == IF c = ApicLocalBspId THEN Ticked(proc) ELSE proc
<1>1. pr \in [Pids -> ProcSet]
  BY TickOfType DEF Ticked, TypeOK
<1>2. \A f \in ProcSet : TickOf(f).lock = f.lock /\ (Runnable(f) => Runnable(TickOf(f)))
  BY DEF TickOf, OneLess, ProcSet, Runnable
<1>3. \A p \in Pids : /\ pr[p].lock = proc[p].lock
                      /\ Runnable(proc[p]) => Runnable(pr[p])
  BY <1>2 DEF Ticked, TypeOK
<1>4. /\ proc' = DispatcherSave(pr, c) /\ processes' = processes
      /\ current_pid' = [current_pid EXCEPT ![c] = 0]
  BY DEF IdtCallTimer
<1> HIDE DEF pr
<1>5. \A p \in Pids : /\ p = current_pid[c] => ~proc'[p].lock
                      /\ p # current_pid[c] => proc'[p] = pr[p]
  BY <1>1, <1>4, SavedStructs
<1>6. \A p \in Pids :
        p # current_pid[c] => /\ proc'[p].lock = proc[p].lock
                              /\ Runnable(proc[p]) /\ proc[p].lock
                                   => Runnable(proc'[p])
  BY <1>3, <1>5 DEF Runnable
<1>7. \A p \in Pids :
        /\ p = current_pid[c] => ~proc'[p].lock
        /\ p # current_pid[c] => /\ proc'[p].lock = proc[p].lock
                                 /\ Runnable(proc[p]) /\ proc[p].lock
                                      => Runnable(proc'[p])
  BY <1>5, <1>6
<1> QED BY <1>4, <1>7, TableLeft

LEMMA RunTable ==
  ASSUME TypeOK, Table, NEW c \in CPUs, KernelFunctionRun(c)
  PROVE  Table'
<1>1. CASE UNCHANGED <<processes, proc, current_pid>>
  BY <1>1, TableKept
<1>2. CASE ~UNCHANGED <<processes, proc, current_pid>>
  <2>1. PICK k \in 1..MaxPid :
          /\ FreePid(k)
          /\ DispatcherProcessNew(PidTried(k), TRUE)
               \/ DispatcherProcessNew(PidTried(k), FALSE)
          /\ current_pid' = current_pid
    BY <1>2 DEF KernelFunctionRun, FunctionReturn, HALT, tabVars
  <2>2. PidTried(k) \in Pids /\ ~InTable(PidTried(k))
    BY <2>1, PidTriedType DEF FreePid
  <2> QED BY <2>1, <2>2, TableAdded
<1> QED BY <1>1, <1>2

LEMMA ExceptionTable ==
  ASSUME TypeOK, Table, NEW c \in CPUs, ExceptionInProcess(c)
  PROVE  Table'
<1>1. /\ current_pid[c] \in Pids /\ InTable(current_pid[c])
      /\ DispatcherProcessDone(current_pid[c])
      /\ current_pid' = [current_pid EXCEPT ![c] = 0]
  BY CurrentIsPid DEF ExceptionInProcess, Table, CurrentInTable
<1>2. /\ current_pid' \in [CPUs -> Pid0]
      /\ \A d \in CPUs : /\ current_pid[d] = current_pid[c] => current_pid'[d] = 0
                         /\ current_pid[d] # current_pid[c]
                              => current_pid'[d] = current_pid[d]
  <2>1. 0 \in Pid0 /\ current_pid[c] # 0
    BY <1>1, PidAssumption DEF Pid0, Pids
  <2> QED BY <1>1, <2>1 DEF TypeOK, Table, OneCpuPerProcess
<1> QED BY <1>1, <1>2, TableRemoved

LEMMA ReapTable ==
  ASSUME TypeOK, Table, NEW c \in CPUs, ReapExited(c)
  PROVE  Table'
<1>1. /\ Visiting(c, {"scan"}) /\ proc[Visited].pending_exit
      /\ DispatcherProcessDone(Visited) /\ current_pid' = current_pid
  BY DEF ReapExited, cpuVars
<1>2. Visited \in Pids /\ InTable(Visited)
  BY <1>1, VisitedType DEF Visiting, Visited, InTable
<1>3. \A d \in CPUs : current_pid[d] # Visited
  <2>1. Visited # 0
    BY <1>2 DEF Pids
  <2> QED BY <1>1, <2>1 DEF Table, CurrentRunnable, Runnable
<1>4. current_pid' \in [CPUs -> Pid0]
  BY <1>1 DEF TypeOK
<1> QED BY <1>1, <1>2, <1>3, <1>4, TableRemoved

LEMMA SetUpNextTable ==
  ASSUME TypeOK, Table, Control, NEW c \in CPUs, SetUpNext(c)
  PROVE  Table'
<1> USE DEF cpuVars, tabVars
<1>1. CASE TestSleep(c) \/ TestRead(c)
  <2>1. /\ Visiting(c, {"scan"}) /\ proc[Visited].suspend # "none"
        /\ processes' = processes /\ current_pid' = current_pid
    BY <1>1 DEF TestSleep, TestRead, Testing
  <2>2. Visited \in Pids
    BY <2>1, VisitedType
  <2>3. \/ proc' = proc
        \/ proc' = [proc EXCEPT ![Visited] = DoneIn(proc[Visited])]
        \/ proc' = [proc EXCEPT ![Visited] = OneLess(proc[Visited])]
    BY <1>1 DEF TestSleep, TestRead, KernelFunctionDone
  <2>4. \A f \in ProcSet : DoneIn(f).lock = f.lock /\ OneLess(f).lock = f.lock
    BY DEF DoneIn, OneLess, ProcSet
  <2>5. /\ proc'[Visited].lock = proc[Visited].lock
        /\ \A p \in Pids : p # Visited => proc'[p] = proc[p]
    BY <2>2, <2>3, <2>4 DEF TypeOK
  <2>6. \A p \in Pids :
          /\ proc'[p].lock = proc[p].lock
          /\ proc[p].lock /\ Runnable(proc[p]) => Runnable(proc'[p])
    BY <2>1, <2>5 DEF Runnable
  <2> QED BY <2>1, <2>6, TableKept
<1>2. CASE TestReadBadFd(c) \/ SkipProcess(c) \/ NextCycle(c)
  BY <1>2, TableKept DEF TestReadBadFd, HALT, SkipProcess, NextCycle
<1>3. CASE NothingToRun(c)
  <2>1. current_pid[c] = 0
    BY <1>3 DEF NothingToRun, EndOfTable, Control
  <2>2. current_pid' = current_pid /\ processes' = processes /\ proc' = proc
    BY <1>3, <2>1 DEF NothingToRun, TypeOK
  <2> QED BY <2>2, TableKept
<1>4. CASE SelectProcess(c)
  <2>1. current_pid[c] = 0
    BY <1>4 DEF SelectProcess, Tested, Visiting, Control
  <2> QED BY <1>4, <2>1, TableSelected
<1> QED BY <1>1, <1>2, <1>3, <1>4, ReapTable DEF SetUpNext

LEMMA StepTable ==
  ASSUME TypeOK, Table, Control, NEW c \in CPUs,
         UserStep(c) \/ Interrupts(c) \/ IdtGetLock(c) \/ HandlerStep(c)
  PROVE  Table'
<1> USE DEF cpuVars, tabVars
<1>1. CASE UserStep(c) \/ Interrupts(c) \/ IdtGetLock(c)
  BY <1>1, TableKept
  DEF UserStep, Interrupts, TimerInterrupt, FunctionInterrupt, ProcessFault,
      SpuriousInterrupt, DeviceInterrupt, KernelFault, Interrupt, IdtGetLock
<1>2. CASE \/ IdtCallManage(c) \/ ExceptionInKernel(c) \/ Spurious(c)
           \/ KeyboardIrq(c) \/ UnhandledIrq(c) \/ KernelFunctionOther(c)
           \/ RestoreRegisters(c) \/ ReleaseAndReturn(c) \/ IdtWait(c)
  BY <1>2, TableKept
  DEF IdtCallManage, ExceptionInKernel, Spurious, HALT, KeyboardIrq, UnhandledIrq,
      KernelFunctionOther, FunctionReturn, RestoreRegisters, ReleaseAndReturn,
      IdtWait
<1> QED
  BY <1>1, <1>2, ExceptionTable, SuspendingTable, RunTable, TimerTable,
     SetUpNextTable DEF HandlerStep, KernelFunctions

-----------------------------------------------------------------------------
(* Where a CPU has a process.                                              *)

\* What a step of CPU c does: it goes to x, where it has the process q.
ControlStep(c) ==
  \E x \in PcSet, q \in Pid0 :
    /\ pc' = [pc EXCEPT ![c] = x] /\ current_pid' = [current_pid EXCEPT ![c] = q]
    /\ x \in {"user", "restore", "release"} => q # 0
    /\ x \in {"idle", "scan", "decide", "wait"} => q = 0

\* The CPU keeps its process, if it has one.
LEMMA ControlKept ==
  ASSUME TypeOK, NEW c \in CPUs, NEW x \in PcSet, pc' = [pc EXCEPT ![c] = x],
         current_pid' = current_pid,
         x \in {"user", "restore", "release"} => current_pid[c] # 0,
         x \in {"idle", "scan", "decide", "wait"} => current_pid[c] = 0
  PROVE  ControlStep(c)
<1>1. /\ current_pid[c] \in Pid0
      /\ current_pid' = [current_pid EXCEPT ![c] = current_pid[c]]
  BY DEF TypeOK
<1> QED BY <1>1 DEF ControlStep

LEMMA ControlLeft ==
  ASSUME NEW c \in CPUs, NEW x \in {"scan", "wait"}, pc' = [pc EXCEPT ![c] = x],
         current_pid' = [current_pid EXCEPT ![c] = 0]
  PROVE  ControlStep(c)
<1>1. 0 \in Pid0 /\ x \in PcSet /\ x \notin {"user", "restore", "release"}
  BY PidAssumption DEF PcSet, Handler, Pid0
<1> QED BY <1>1 DEF ControlStep

LEMMA StepControl ==
  ASSUME TypeOK, Control, NEW c \in CPUs,
         UserStep(c) \/ Interrupts(c) \/ IdtGetLock(c) \/ HandlerStep(c)
  PROVE  ControlStep(c)
<1> USE DEF cpuVars
<1>1. CASE UserStep(c) \/ ReapExited(c) \/ NextCycle(c)
  <2>1. /\ pc' = [pc EXCEPT ![c] = pc[c]] /\ pc[c] \in PcSet
        /\ current_pid' = current_pid
    BY <1>1 DEF UserStep, ReapExited, NextCycle, TypeOK
  <2> QED BY <2>1, ControlKept DEF Control
<1>2. CASE \/ Interrupts(c) \/ IdtGetLock(c) \/ IdtCallManage(c)
           \/ ExceptionInKernel(c) \/ Spurious(c) \/ TestReadBadFd(c)
  <2>1. /\ \E x \in {"spin", "entry", "call", "halted"} :
             pc' = [pc EXCEPT ![c] = x]
        /\ current_pid' = current_pid
    BY <1>2 DEF Interrupts, TimerInterrupt, FunctionInterrupt, ProcessFault,
       SpuriousInterrupt, DeviceInterrupt, KernelFault, Interrupt, IdtGetLock,
       IdtCallManage, ExceptionInKernel, Spurious, TestReadBadFd, HALT
  <2> QED BY <2>1, ControlKept DEF PcSet, Handler
<1>3. CASE AfterIdtCall(c) /\ current_pid' = current_pid
  BY <1>3, ControlKept DEF AfterIdtCall, PcSet, Handler
<1>4. CASE KeyboardIrq(c) \/ UnhandledIrq(c) \/ KernelFunctionOther(c)
  BY <1>3, <1>4 DEF KeyboardIrq, UnhandledIrq, KernelFunctionOther, FunctionReturn
<1>5. CASE KernelFunctionRun(c)
  <2>1. CASE HALT(c)
    BY <2>1, ControlKept DEF HALT, PcSet, Handler
  <2> QED BY <1>3, <1>5, <2>1 DEF KernelFunctionRun, FunctionReturn
<1>6. CASE \/ ExceptionInProcess(c) \/ KernelFunctionExit(c)
           \/ KernelFunctionSleep(c) \/ KernelFunctionRead(c)
           \/ IdtCallTimer(c) \/ NothingToRun(c)
  <2>1. /\ \E x \in {"scan", "wait"} : pc' = [pc EXCEPT ![c] = x]
        /\ current_pid' = [current_pid EXCEPT ![c] = 0]
    BY <1>6 DEF ExceptionInProcess, KernelFunctionExit, KernelFunctionSleep,
       KernelFunctionRead, KernelFunctionSuspend, IdtCallTimer, NothingToRun
  <2> QED BY <2>1, ControlLeft
<1>7. CASE TestSleep(c) \/ TestRead(c) \/ SkipProcess(c)
  <2>1. /\ \E x \in {"scan", "decide"} : pc' = [pc EXCEPT ![c] = x]
        /\ current_pid' = current_pid /\ pc[c] \in {"scan", "decide"}
    BY <1>7 DEF TestSleep, TestRead, SkipProcess, Testing, Tested, Visiting
  <2> QED BY <2>1, ControlKept DEF Control, PcSet, Handler
<1>8. CASE SelectProcess(c)
  <2>1. /\ pc' = [pc EXCEPT ![c] = "restore"]
        /\ current_pid' = [current_pid EXCEPT ![c] = Visited]
    BY <1>8 DEF SelectProcess
  <2>2. Visited \in Pids
    BY <1>8, VisitedType DEF SelectProcess, Tested
  <2>3. Visited \in Pid0 /\ Visited # 0 /\ "restore" \in PcSet
    BY <2>2 DEF Pids, Pid0, PcSet, Handler
  <2> QED BY <2>1, <2>3 DEF ControlStep
<1>9. CASE RestoreRegisters(c) \/ ReleaseAndReturn(c) \/ IdtWait(c)
  <2>1. /\ current_pid' = current_pid
        /\ \/ pc[c] \in {"restore", "release"}
                /\ \E x \in {"release", "user"} : pc' = [pc EXCEPT ![c] = x]
           \/ pc[c] = "wait" /\ pc' = [pc EXCEPT ![c] = "idle"]
    BY <1>9 DEF RestoreRegisters, ReleaseAndReturn, IdtWait
  <2> QED BY <2>1, ControlKept DEF Control, PcSet, Handler
<1> QED
  BY <1>1, <1>2, <1>4, <1>5, <1>6, <1>7, <1>8, <1>9
  DEF HandlerStep, KernelFunctions, SetUpNext

LEMMA NextControl ==
  ASSUME TypeOK, Control, NEW c \in CPUs, ControlStep(c)
  PROVE  Control'
<1>1. PICK x \in PcSet, q \in Pid0 :
        /\ pc' = [pc EXCEPT ![c] = x]
        /\ current_pid' = [current_pid EXCEPT ![c] = q]
        /\ x \in {"user", "restore", "release"} => q # 0
        /\ x \in {"idle", "scan", "decide", "wait"} => q = 0
  BY DEF ControlStep
<1>2. /\ pc'[c] = x /\ current_pid'[c] = q
      /\ \A d \in CPUs : d # c => pc'[d] = pc[d] /\ current_pid'[d] = current_pid[d]
  BY <1>1 DEF TypeOK
<1> QED BY <1>1, <1>2 DEF Control

-----------------------------------------------------------------------------
(* The theorems.                                                           *)

LEMMA TableInvariant == Spec => [](Table /\ Control)
<1>1. Init => Table /\ Control
  <2> SUFFICES ASSUME Init PROVE Table /\ Control
    OBVIOUS
  <2>1. /\ processes = <<1>> /\ current_pid = [c \in CPUs |-> 0]
        /\ pc = [c \in CPUs |-> "idle"]
        /\ proc = [p \in Pids |-> [NewProcess(p) EXCEPT !.run = (p = 1)]]
    BY DEF Init
  <2>2. \A p \in Pids : ~proc[p].lock /\ p # 0
    BY <2>1 DEF NewProcess, Pids
  <2>3. PidsUnique
    BY <2>1 DEF PidsUnique
  <2> QED
    BY <2>1, <2>2, <2>3
    DEF Table, CurrentInTable, OneCpuPerProcess, CurrentRunnable, Control
<1>2. TypeOK /\ Table /\ Control /\ [Next]_vars => Table' /\ Control'
  <2> SUFFICES ASSUME TypeOK, Table, Control, [Next]_vars
               PROVE  Table' /\ Control'
    OBVIOUS
  <2>1. CASE Next
    BY <2>1, StepTable, StepControl, NextControl DEF Next
  <2>2. CASE UNCHANGED vars
    <3>1. UNCHANGED <<pc, current_pid, processes, proc>>
      BY <2>2 DEF vars, cpuVars, tabVars
    <3> QED BY <3>1, TableKept DEF Control
  <2> QED BY <2>1, <2>2
<1> QED BY <1>1, <1>2, TypeCorrect, PTL DEF Spec

\* DispatcherFind is unambiguous: whatever processes are created and removed, also
\* with pids that are used again, no pid is in the table twice.
THEOREM PidsStayUnique == Spec => []PidsUnique
<1>1. Table => PidsUnique
  BY DEF Table
<1> QED BY <1>1, TableInvariant, PTL

\* The process of a CPU is never removed under it: DispatcherSave and the kernel
\* functions find it, by whatever CPU it is looked for.
THEOREM CurrentStaysInTable == Spec => []CurrentInTable
<1>1. Table => CurrentInTable
  BY DEF Table
<1> QED BY <1>1, TableInvariant, PTL

\* No process is on two CPUs, and a process is locked exactly while it is on one.
THEOREM OneCpuEach == Spec => []OneCpuPerProcess
<1>1. Table => OneCpuPerProcess
  BY DEF Table
<1> QED BY <1>1, TableInvariant, PTL

\* A CPU is in user code only with a process that is set up, not suspended and not
\* exited.
THEOREM OnlyRunnableProcessesRun == Spec => []OnlyRunnableRuns
<1>1. Table /\ Control => OnlyRunnableRuns
  BY DEF Table, Control, CurrentRunnable, Runnable, OnlyRunnableRuns
<1> QED BY <1>1, TableInvariant, PTL

-----------------------------------------------------------------------------
(* The registers: the newest ones of a process are in one place at a time, *)
(* on its CPU while that runs user code or has not saved it yet, in        *)
(* IdtCallSaved* while its CPU holds the kernel lock, and in its save area *)
(* while it has no CPU.  The invariant follows them round.                 *)

\* Where the registers of the process of CPU c are.  A CPU that kernel code has
\* interrupted waits for a lock that nobody is left to give back.
CpuRight(c) ==
  LET p == current_pid[c] IN
  p # 0 =>
    /\ (pc[c] \in {"user", "release", "entry"} \/ (pc[c] = "spin" /\ trap[c].cpl = 3))
         => regs[c].gp = <<p, version[p]>> /\ regs[c].cr3 = p
    /\ pc[c] \in {"call", "restore"}
         => IdtCallSaved.gp = <<p, version[p]>> /\ IdtCallSaved.cr3 = p
    /\ pc[c] = "spin" /\ trap[c].cpl = 0
         => IdtBusy /\ \A d \in CPUs : ~InHandler(d)

SaveRight ==
  \A p \in Pids : /\ proc[p].save.cr3 = p
                  /\ ~proc[p].lock => proc[p].save.gp = <<p, version[p]>>

\* A pid that is not in use has the registers of a new process.
Fresh == \A p \in Pids : ~InTable(p) => version[p] = 0

Isolated == (\A c \in CPUs : CpuRight(c)) /\ SaveRight /\ Fresh

\* What holds of the kernel besides.
Kernel == TypeOK /\ MutualExclusion /\ Table /\ Control

-----------------------------------------------------------------------------
(* The other CPUs.                                                         *)

\* A step of CPU c leaves the other CPUs and the registers of their processes alone,
\* and IdtCallSaved* too unless c is in a handler.
StepFrame(c) ==
  /\ \A d \in CPUs \ {c} :
       /\ pc'[d] = pc[d] /\ trap'[d] = trap[d] /\ regs'[d] = regs[d]
       /\ current_pid'[d] = current_pid[d]
       /\ current_pid[d] # 0 =>
            version'[current_pid[d]] = version[current_pid[d]]
  /\ InHandler(c) \/ IdtCallSaved' = IdtCallSaved

LEMMA OthersRight ==
  ASSUME Kernel, NEW c \in CPUs, LockStep(c), StepFrame(c),
         NEW d \in CPUs, d # c, CpuRight(d)
  PROVE  CpuRight(d)'
<1>1. /\ pc'[d] = pc[d] /\ trap'[d] = trap[d] /\ regs'[d] = regs[d]
      /\ current_pid'[d] = current_pid[d]
      /\ current_pid[d] # 0 =>
           version'[current_pid[d]] = version[current_pid[d]]
  BY DEF StepFrame
<1>2. pc[d] \in {"call", "restore"} => IdtCallSaved' = IdtCallSaved
  BY DEF StepFrame, Kernel, MutualExclusion, InHandler, Handler
<1>3. IdtBusy /\ (\A e \in CPUs : ~InHandler(e))
        => IdtBusy' /\ \A e \in CPUs : ~InHandler(e)'
  BY DEF LockStep, InHandler, Kernel, TypeOK
<1> QED BY <1>1, <1>2, <1>3 DEF CpuRight

LEMMA StepIsolated ==
  ASSUME Kernel, Isolated, NEW c \in CPUs, LockStep(c), StepFrame(c),
         CpuRight(c)', SaveRight', Fresh'
  PROVE  Isolated'
<1>1. ASSUME NEW d \in CPUs PROVE CpuRight(d)'
  <2>1. CASE d = c
    BY <2>1
  <2>2. CASE d # c
    BY <2>2, OthersRight DEF Isolated
  <2> QED BY <2>1, <2>2
<1> QED BY <1>1 DEF Isolated

\* A CPU that goes where its process, if it has one, has left it.
LEMMA CpuQuiet ==
  ASSUME TypeOK, NEW c \in CPUs,
         NEW x \in {"halted", "scan", "decide", "wait", "idle"}, pc'[c] = x
  PROVE  CpuRight(c)'
  BY DEF CpuRight

\* Two CPUs have different processes.
LEMMA OtherProcess ==
  ASSUME Kernel, NEW c \in CPUs, NEW d \in CPUs \ {c}, current_pid[d] # 0
  PROVE  /\ current_pid[d] # current_pid[c]
         /\ current_pid[d] \in Pids
         /\ proc[current_pid[d]].lock
<1>1. current_pid[d] \in Pids
  BY CurrentIsPid DEF Kernel
<1> QED BY <1>1 DEF Kernel, Table, OneCpuPerProcess

-----------------------------------------------------------------------------
(* Steps that leave the table and the versions alone.                      *)

LEMMA SavedKept ==
  ASSUME Isolated, UNCHANGED <<processes, proc, version>>
  PROVE  SaveRight' /\ Fresh'
  BY DEF Isolated, SaveRight, Fresh, InTable

LEMMA EntryExitIsolated ==
  ASSUME Kernel, Isolated, NEW c \in CPUs, LockStep(c),
         \/ Interrupts(c) \/ IdtGetLock(c) \/ IdtCallManage(c)
         \/ RestoreRegisters(c) \/ ReleaseAndReturn(c) \/ IdtWait(c)
  PROVE  Isolated'
<1> USE DEF tabVars, idtVars
<1>1. CASE Interrupts(c)
  <2>1. /\ pc' = [pc EXCEPT ![c] = "spin"]
        /\ \E vector \in 0..255 :
             trap' = [trap EXCEPT ![c] =
                        [vector |-> vector, cpl |-> IF pc[c] = "user" THEN 3 ELSE 0]]
        /\ UNCHANGED <<regs, current_pid, IdtBusy, IdtCallSaved, processes, proc,
                       version>>
        /\ pc[c] \in {"user", "idle"} \/ InHandler(c)
    <3>1. \A irq \in Irqs : VectorOfIrq(irq) \in 0..255
      BY WorkloadAssumption DEF VectorOfIrq
    <3>2. {VectorTimer, VectorFunction, VectorPageFault, VectorSpurious}
            \subseteq 0..255
      BY DEF VectorTimer, VectorFunction, VectorPageFault, VectorSpurious
    <3>3. \E vector \in 0..255 : Interrupt(c, vector)
      BY <1>1, <3>1, <3>2 DEF Interrupts, TimerInterrupt, FunctionInterrupt,
         ProcessFault, SpuriousInterrupt, DeviceInterrupt, KernelFault
    <3>4. pc[c] \in {"user", "idle"} \/ InHandler(c)
      BY <1>1 DEF Interrupts, TimerInterrupt, FunctionInterrupt, ProcessFault,
         SpuriousInterrupt, DeviceInterrupt, KernelFault, Interruptible, InHandler
    <3> QED BY <3>3, <3>4 DEF Interrupt
  <2>2. /\ pc'[c] = "spin"
        /\ trap'[c].cpl = IF pc[c] = "user" THEN 3 ELSE 0
        /\ \A d \in CPUs \ {c} : pc'[d] = pc[d] /\ trap'[d] = trap[d]
    BY <2>1 DEF Kernel, TypeOK
  <2>3. StepFrame(c)
    BY <2>1, <2>2 DEF StepFrame
  <2>4. CpuRight(c)'
    <3>1. CASE pc[c] = "user"
      BY <2>1, <2>2, <3>1 DEF Isolated, CpuRight
    <3>2. CASE pc[c] = "idle"
      BY <2>1, <2>2, <3>2 DEF Kernel, Control, CpuRight
    <3>3. CASE InHandler(c)
      <4>1. IdtBusy' /\ \A d \in CPUs : ~InHandler(d)'
        <5>1. IdtBusy /\ \A d \in CPUs \ {c} : ~InHandler(d)
          BY <3>3 DEF Kernel, MutualExclusion
        <5>2. ~InHandler(c)'
          BY <2>2 DEF InHandler, Handler
        <5> QED BY <2>1, <2>2, <5>1, <5>2 DEF InHandler
      <4>2. trap'[c].cpl = 0
        BY <2>2, <3>3 DEF InHandler, Handler
      <4> QED BY <2>2, <4>1, <4>2 DEF CpuRight
    <3> QED BY <2>1, <3>1, <3>2, <3>3
  <2> QED BY <2>1, <2>3, <2>4, SavedKept, StepIsolated
<1>2. CASE IdtGetLock(c)
  <2>1. /\ pc[c] = "spin" /\ ~IdtBusy
        /\ pc' = [pc EXCEPT ![c] = "entry"] /\ trap' = [trap EXCEPT ![c] = NoTrap]
        /\ UNCHANGED <<regs, current_pid, IdtCallSaved, processes, proc, version>>
    BY <1>2 DEF IdtGetLock
  <2>2. /\ pc'[c] = "entry"
        /\ \A d \in CPUs \ {c} : pc'[d] = pc[d] /\ trap'[d] = trap[d]
        /\ trap[c].cpl \in {0, 3}
    BY <2>1 DEF Kernel, TypeOK
  <2>3. StepFrame(c)
    BY <2>1, <2>2 DEF StepFrame
  <2>4. CpuRight(c)'
    BY <2>1, <2>2 DEF Isolated, CpuRight
  <2> QED BY <2>1, <2>3, <2>4, SavedKept, StepIsolated
<1>3. CASE IdtCallManage(c)
  <2>1. /\ pc[c] = "entry"
        /\ pc' = [pc EXCEPT ![c] = "call"] /\ IdtCallSaved' = regs[c]
        /\ regs' = [regs EXCEPT ![c] = KernelRegs]
        /\ UNCHANGED <<trap, current_pid, processes, proc, version>>
    BY <1>3 DEF IdtCallManage
  <2>2. /\ pc'[c] = "call"
        /\ \A d \in CPUs \ {c} : pc'[d] = pc[d] /\ regs'[d] = regs[d]
    BY <2>1 DEF Kernel, TypeOK
  <2>3. StepFrame(c)
    <3>1. InHandler(c)
      BY <2>1 DEF InHandler, Handler
    <3> QED BY <2>1, <2>2, <3>1 DEF StepFrame
  <2>4. CpuRight(c)'
    BY <2>1, <2>2 DEF Isolated, CpuRight
  <2> QED BY <2>1, <2>3, <2>4, SavedKept, StepIsolated
<1>4. CASE RestoreRegisters(c)
  <2>1. /\ pc[c] = "restore" /\ pc' = [pc EXCEPT ![c] = "release"]
        /\ regs' = [regs EXCEPT ![c] = IdtCallSaved]
        /\ UNCHANGED <<trap, current_pid, IdtCallSaved, processes, proc, version>>
    BY <1>4 DEF RestoreRegisters
  <2>2. /\ pc'[c] = "release" /\ regs'[c] = IdtCallSaved
        /\ \A d \in CPUs \ {c} : pc'[d] = pc[d] /\ regs'[d] = regs[d]
    BY <2>1 DEF Kernel, TypeOK
  <2>3. StepFrame(c)
    BY <2>1, <2>2 DEF StepFrame
  <2>4. CpuRight(c)'
    BY <2>1, <2>2 DEF Isolated, CpuRight
  <2> QED BY <2>1, <2>3, <2>4, SavedKept, StepIsolated
<1>5. CASE ReleaseAndReturn(c) \/ IdtWait(c)
  <2>1. /\ \/ pc[c] = "release" /\ pc' = [pc EXCEPT ![c] = "user"]
           \/ pc' = [pc EXCEPT ![c] = "idle"]
        /\ UNCHANGED <<trap, regs, current_pid, IdtCallSaved, processes, proc,
                       version>>
    BY <1>5 DEF ReleaseAndReturn, IdtWait
  <2>2. /\ (pc[c] = "release" /\ pc'[c] = "user") \/ pc'[c] = "idle"
        /\ \A d \in CPUs \ {c} : pc'[d] = pc[d]
    BY <2>1 DEF Kernel, TypeOK
  <2>3. StepFrame(c)
    BY <2>1, <2>2 DEF StepFrame
  <2>4. CpuRight(c)'
    BY <2>1, <2>2 DEF Isolated, CpuRight
  <2> QED BY <2>1, <2>3, <2>4, SavedKept, StepIsolated
<1> QED BY <1>1, <1>2, <1>3, <1>4, <1>5

\* The end of IdtCall: from "call" to "restore" the registers stay in IdtCallSaved*.
LEMMA QuietIsolated ==
  ASSUME Kernel, Isolated, NEW c \in CPUs, LockStep(c),
         \/ ExceptionInKernel(c) \/ Spurious(c) \/ KeyboardIrq(c) \/ UnhandledIrq(c)
         \/ TestReadBadFd(c) \/ HALT(c) \/ SkipProcess(c) \/ NextCycle(c)
         \/ NothingToRun(c)
  PROVE  Isolated'
<1> USE DEF cpuVars, tabVars, idtVars
<1>1. UNCHANGED <<trap, regs, IdtCallSaved, processes, proc, version>>
  BY DEF ExceptionInKernel, Spurious, KeyboardIrq, UnhandledIrq, TestReadBadFd, HALT,
     SkipProcess, NextCycle, NothingToRun
<1>2. \/ KeyboardIrq(c) \/ UnhandledIrq(c)
      \/ pc' = [pc EXCEPT ![c] = "halted"] /\ current_pid' = current_pid
      \/ pc' = [pc EXCEPT ![c] = "scan"] /\ current_pid' = current_pid
      \/ pc' = pc /\ pc[c] = "scan" /\ current_pid' = current_pid
      \/ /\ pc' = [pc EXCEPT ![c] = "wait"]
         /\ current_pid' = [current_pid EXCEPT ![c] = 0]
  BY DEF ExceptionInKernel, Spurious, TestReadBadFd, HALT, SkipProcess, NextCycle,
     EndOfTable, NothingToRun
<1>3. CASE KeyboardIrq(c) \/ UnhandledIrq(c)
  <2>1. /\ pc[c] = "call" /\ current_pid' = current_pid
        /\ \/ pc' = [pc EXCEPT ![c] = "wait"]
           \/ pc' = [pc EXCEPT ![c] = "restore"]
    BY <1>3 DEF KeyboardIrq, UnhandledIrq, InCall, AfterIdtCall
  <2>2. /\ pc'[c] \in {"wait", "restore"}
        /\ \A d \in CPUs \ {c} : pc'[d] = pc[d]
    BY <2>1 DEF Kernel, TypeOK
  <2>3. StepFrame(c)
    BY <1>1, <2>1, <2>2 DEF StepFrame
  <2>4. CpuRight(c)'
    BY <1>1, <2>1, <2>2 DEF Isolated, CpuRight
  <2> QED BY <1>1, <2>3, <2>4, SavedKept, StepIsolated
<1>4. CASE ~(KeyboardIrq(c) \/ UnhandledIrq(c))
  <2>1. /\ pc'[c] \in {"halted", "scan", "wait"}
        /\ \A d \in CPUs \ {c} : pc'[d] = pc[d] /\ current_pid'[d] = current_pid[d]
    BY <1>2, <1>4 DEF Kernel, TypeOK
  <2>2. StepFrame(c)
    BY <1>1, <2>1 DEF StepFrame
  <2>3. CpuRight(c)'
    BY <2>1, CpuQuiet DEF Kernel
  <2> QED BY <1>1, <2>2, <2>3, SavedKept, StepIsolated
<1> QED BY <1>3, <1>4

-----------------------------------------------------------------------------
(* Steps of the process of the CPU.                                        *)

\* The version of the process of CPU c changes, and with it its registers where they
\* are now.
LEMMA NewVersion ==
  ASSUME Kernel, Isolated, NEW c \in CPUs, current_pid[c] # 0,
         version' = [version EXCEPT ![current_pid[c]] = 1 - version[current_pid[c]]]
  PROVE  /\ version'[current_pid[c]] = 1 - version[current_pid[c]]
         /\ \A d \in CPUs \ {c} : current_pid[d] # 0 =>
              version'[current_pid[d]] = version[current_pid[d]]
         /\ \A p \in Pids : ~proc[p].lock \/ ~InTable(p) => version'[p] = version[p]
<1> DEFINE q == current_pid[c]
<1>1. q \in Pids /\ InTable(q) /\ proc[q].lock
  BY CurrentIsPid DEF Kernel, Table, CurrentInTable, OneCpuPerProcess
<1>2. /\ version'[q] = 1 - version[q]
      /\ \A p \in Pids : p # q => version'[p] = version[p]
  BY <1>1 DEF Kernel, TypeOK
<1>3. \A d \in CPUs \ {c} : current_pid[d] # 0 =>
        version'[current_pid[d]] = version[current_pid[d]]
  BY <1>2, OtherProcess
<1> QED BY <1>1, <1>2, <1>3

LEMMA NextVersionIs ==
  ASSUME NEW p, NEW v
  PROVE  NextVersion(<<p, v>>) = <<p, 1 - v>>
  BY DEF NextVersion

LEMMA UserIsolated ==
  ASSUME Kernel, Isolated, NEW c \in CPUs, LockStep(c), UserStep(c)
  PROVE  Isolated'
<1> USE DEF tabVars, idtVars
<1>1. /\ pc[c] = "user"
      /\ regs' = [regs EXCEPT ![c] = [regs[c] EXCEPT !.gp = NextVersion(regs[c].gp),
                                                     !.rflags = current_pid[c]]]
      /\ version' = [version EXCEPT ![current_pid[c]] = 1 - version[current_pid[c]]]
      /\ UNCHANGED <<pc, trap, current_pid, IdtCallSaved, processes, proc>>
  BY DEF UserStep
<1>2. current_pid[c] # 0
  BY <1>1 DEF Kernel, Control
<1>3. /\ version'[current_pid[c]] = 1 - version[current_pid[c]]
      /\ \A d \in CPUs \ {c} : current_pid[d] # 0 =>
           version'[current_pid[d]] = version[current_pid[d]]
      /\ \A p \in Pids : ~proc[p].lock \/ ~InTable(p) => version'[p] = version[p]
  BY <1>1, <1>2, NewVersion
<1>4. regs[c] \in RegSet
  BY DEF Kernel, TypeOK
<1>5. /\ regs'[c].gp = NextVersion(regs[c].gp) /\ regs'[c].cr3 = regs[c].cr3
      /\ \A d \in CPUs \ {c} : regs'[d] = regs[d]
  BY <1>1, <1>4 DEF Kernel, TypeOK, RegSet
<1>6. regs[c].gp = <<current_pid[c], version[current_pid[c]]>>
      /\ regs[c].cr3 = current_pid[c]
  BY <1>1, <1>2 DEF Isolated, CpuRight
<1>7. StepFrame(c)
  BY <1>1, <1>3, <1>5 DEF StepFrame
<1>8. CpuRight(c)'
  BY <1>1, <1>3, <1>5, <1>6, NextVersionIs DEF CpuRight
<1>9. SaveRight' /\ Fresh'
  BY <1>1, <1>3 DEF Isolated, SaveRight, Fresh, InTable
<1> QED BY <1>7, <1>8, <1>9, StepIsolated

\* A kernel function returns its result.
LEMMA ReturnCpu ==
  ASSUME Kernel, Isolated, NEW c \in CPUs, pc[c] = "call", FunctionReturn(c),
         version' = Answered(c, version)
  PROVE  /\ StepFrame(c) /\ CpuRight(c)'
         /\ \A p \in Pids : ~proc[p].lock \/ ~InTable(p) => version'[p] = version[p]
<1>1. /\ IdtCallSaved' = [IdtCallSaved EXCEPT !.gp = NextVersion(IdtCallSaved.gp)]
      /\ UNCHANGED <<trap, regs, current_pid>>
      /\ pc' = [pc EXCEPT ![c] = IF current_pid[c] = 0 THEN "wait" ELSE "restore"]
      /\ version' = [version EXCEPT ![current_pid[c]] = 1 - version[current_pid[c]]]
  BY DEF FunctionReturn, AfterIdtCall, Answered
<1>2. /\ pc'[c] = IF current_pid[c] = 0 THEN "wait" ELSE "restore"
      /\ \A d \in CPUs \ {c} : pc'[d] = pc[d]
      /\ InHandler(c)
  BY <1>1 DEF Kernel, TypeOK, InHandler, Handler
<1>3. CASE current_pid[c] = 0
  <2>1. version' = version
    BY <1>1, <1>3 DEF Kernel, TypeOK, Pids
  <2>2. StepFrame(c)
    BY <1>1, <1>2, <2>1 DEF StepFrame
  <2>3. CpuRight(c)'
    BY <1>1, <1>2, <1>3 DEF CpuRight
  <2> QED BY <2>1, <2>2, <2>3
<1>4. CASE current_pid[c] # 0
  <2>1. /\ version'[current_pid[c]] = 1 - version[current_pid[c]]
        /\ \A d \in CPUs \ {c} : current_pid[d] # 0 =>
             version'[current_pid[d]] = version[current_pid[d]]
        /\ \A p \in Pids : ~proc[p].lock \/ ~InTable(p) => version'[p] = version[p]
    BY <1>1, <1>4, NewVersion
  <2>2. IdtCallSaved \in RegSet
    BY DEF Kernel, TypeOK
  <2>3. /\ IdtCallSaved'.gp = NextVersion(IdtCallSaved.gp)
        /\ IdtCallSaved'.cr3 = IdtCallSaved.cr3
    BY <1>1, <2>2 DEF RegSet
  <2>4. /\ IdtCallSaved.gp = <<current_pid[c], version[current_pid[c]]>>
        /\ IdtCallSaved.cr3 = current_pid[c]
    BY <1>4 DEF Isolated, CpuRight
  <2>5. StepFrame(c)
    BY <1>1, <1>2, <2>1 DEF StepFrame
  <2>6. CpuRight(c)'
    BY <1>1, <1>2, <1>4, <2>1, <2>3, <2>4, NextVersionIs DEF CpuRight
  <2> QED BY <2>1, <2>5, <2>6
<1> QED BY <1>3, <1>4

LEMMA OtherIsolated ==
  ASSUME Kernel, Isolated, NEW c \in CPUs, LockStep(c), KernelFunctionOther(c)
  PROVE  Isolated'
<1>1. /\ pc[c] = "call" /\ FunctionReturn(c) /\ version' = Answered(c, version)
      /\ processes' = processes /\ proc' = proc
  BY DEF KernelFunctionOther, FunctionCall, InCall, tabVars
<1>2. /\ StepFrame(c) /\ CpuRight(c)'
      /\ \A p \in Pids : ~proc[p].lock \/ ~InTable(p) => version'[p] = version[p]
  BY <1>1, ReturnCpu
<1>3. SaveRight' /\ Fresh'
  BY <1>1, <1>2 DEF Isolated, SaveRight, Fresh, InTable
<1> QED BY <1>2, <1>3, StepIsolated

LEMMA RunIsolated ==
  ASSUME Kernel, Isolated, NEW c \in CPUs, LockStep(c), KernelFunctionRun(c)
  PROVE  Isolated'
<1>1. CASE HALT(c)
  BY <1>1, QuietIsolated
<1>2. CASE ~HALT(c)
  <2>1. /\ pc[c] = "call" /\ FunctionReturn(c) /\ version' = Answered(c, version)
        /\ \E k \in 1..MaxPid :
             /\ FreePid(k)
             /\ \/ \E run \in BOOLEAN : DispatcherProcessNew(PidTried(k), run)
                \/ UNCHANGED <<processes, proc>>
    BY <1>2 DEF KernelFunctionRun, FunctionCall, RunCall, InCall
  <2>2. /\ StepFrame(c) /\ CpuRight(c)'
        /\ \A p \in Pids : ~proc[p].lock \/ ~InTable(p) => version'[p] = version[p]
    BY <2>1, ReturnCpu
  <2>3. CASE UNCHANGED <<processes, proc>>
    <3>1. SaveRight' /\ Fresh'
      BY <2>2, <2>3 DEF Isolated, SaveRight, Fresh, InTable
    <3> QED BY <2>2, <3>1, StepIsolated
  <2>4. ASSUME NEW k \in 1..MaxPid, FreePid(k), NEW run \in BOOLEAN,
               DispatcherProcessNew(PidTried(k), run)
        PROVE  Isolated'
    <3> DEFINE p == PidTried(k)
    <3>1. p \in Pids /\ ~InTable(p)
      BY <2>4, PidTriedType DEF FreePid, Kernel
    <3>2. DispatcherProcessNew(p, run) /\ current_pid' = current_pid
      BY <2>1, <2>4 DEF FunctionReturn
    <3> HIDE DEF p
    <3>3. \A q : InTable(q)' <=> (InTable(q) \/ q = p)
      BY <3>1, <3>2, TableAdded DEF Kernel
    <3>4. /\ proc'[p].save.cr3 = p /\ proc'[p].save.gp = <<p, 0>>
          /\ \A q \in Pids : q # p => proc'[q] = proc[q]
      BY <3>1, <3>2 DEF DispatcherProcessNew, NewProcess, Kernel, TypeOK
    <3>5. version'[p] = 0
      BY <2>2, <3>1 DEF Isolated, Fresh
    <3>6. SaveRight'
      BY <2>2, <3>4, <3>5 DEF Isolated, SaveRight
    <3>7. Fresh'
      BY <2>2, <3>3 DEF Isolated, Fresh
    <3> QED BY <2>2, <3>6, <3>7, StepIsolated
  <2> QED BY <2>1, <2>3, <2>4
<1> QED BY <1>1, <1>2

-----------------------------------------------------------------------------
(* Steps that take the process from the CPU.                               *)

\* DispatcherSave puts the newest registers into the save area.
LEMMA SaveIsolated ==
  ASSUME Kernel, Isolated, NEW c \in CPUs, LockStep(c), pc[c] = "call",
         NEW x \in {"scan", "wait"}, pc' = [pc EXCEPT ![c] = x],
         current_pid' = [current_pid EXCEPT ![c] = 0],
         UNCHANGED <<trap, regs, IdtCallSaved, processes, version>>,
         NEW pr \in [Pids -> ProcSet], proc' = DispatcherSave(pr, c),
         \A p \in Pids : pr[p].save = proc[p].save /\ pr[p].lock = proc[p].lock
  PROVE  Isolated'
<1>1. /\ pc'[c] = x
      /\ \A d \in CPUs \ {c} : pc'[d] = pc[d] /\ current_pid'[d] = current_pid[d]
  BY DEF Kernel, TypeOK
<1>2. StepFrame(c)
  BY <1>1 DEF StepFrame
<1>3. CpuRight(c)'
  BY <1>1, CpuQuiet DEF Kernel
<1>4. Fresh'
  BY DEF Isolated, Fresh, InTable
<1>5. ASSUME NEW p \in Pids
      PROVE  /\ proc'[p].save.cr3 = p
             /\ ~proc'[p].lock => proc'[p].save.gp = <<p, version[p]>>
  <2>1. CASE p # current_pid[c]
    <3>1. proc'[p] = pr[p]
      BY <2>1, SavedStructs DEF Kernel
    <3> QED BY <3>1 DEF Isolated, SaveRight
  <2>2. CASE p = current_pid[c]
    <3>1. current_pid[c] # 0
      BY <2>2 DEF Pids
    <3>2. proc'[p] = SaveIn(pr[p])
      BY <2>2, <3>1 DEF DispatcherSave
    <3>3. /\ IdtCallSaved.gp = <<p, version[p]>> /\ proc[p].save.cr3 = p
      BY <2>2, <3>1 DEF Isolated, CpuRight, SaveRight
    <3>4. pr[p] \in ProcSet /\ pr[p].save \in RegSet
      BY DEF ProcSet
    <3>5. /\ SaveIn(pr[p]).save.gp = IdtCallSaved.gp
          /\ SaveIn(pr[p]).save.cr3 = pr[p].save.cr3
      BY <3>4 DEF SaveIn, ProcSet, RegSet
    <3> QED BY <3>2, <3>3, <3>5
  <2> QED BY <2>1, <2>2
<1>6. SaveRight'
  BY <1>5 DEF SaveRight
<1> QED BY <1>2, <1>3, <1>4, <1>6, StepIsolated

LEMMA TimerIsolated ==
  ASSUME Kernel, Isolated, NEW c \in CPUs, LockStep(c), IdtCallTimer(c)
  PROVE  Isolated'
<1> DEFINE pr == IF c = ApicLocalBspId THEN Ticked(proc) ELSE proc
<1>1. pr \in [Pids -> ProcSet]
  BY TickOfType DEF Ticked, Kernel, TypeOK
<1>2. \A f \in ProcSet : TickOf(f).lock = f.lock /\ TickOf(f).save = f.save
  BY DEF TickOf, OneLess, ProcSet
<1>3. \A p \in Pids : pr[p].save = proc[p].save /\ pr[p].lock = proc[p].lock
  BY <1>2 DEF Ticked, Kernel, TypeOK
<1>4. /\ proc' = DispatcherSave(pr, c) /\ pc[c] = "call"
      /\ pc' = [pc EXCEPT ![c] = "scan"]
      /\ current_pid' = [current_pid EXCEPT ![c] = 0]
      /\ UNCHANGED <<trap, regs, IdtCallSaved, processes, version>>
  BY DEF IdtCallTimer, InCall, idtVars
<1> HIDE DEF pr
<1> QED BY <1>1, <1>3, <1>4, SaveIsolated

LEMMA SuspendIsolated ==
  ASSUME Kernel, Isolated, NEW c \in CPUs, LockStep(c), pc[c] = "call",
         NEW suspend \in Suspends, NEW data \in DataSet, NEW pending_exit \in BOOLEAN,
         KernelFunctionSuspend(c, suspend, data, pending_exit)
  PROVE  Isolated'
<1> DEFINE pr == [proc EXCEPT ![current_pid[c]] =
                   [@ EXCEPT !.suspend = suspend, !.data = data,
                             !.pending_exit = pending_exit]]
<1>1. pr \in [Pids -> ProcSet]
  BY SuspendedType DEF Kernel, TypeOK
<1>2. \A p \in Pids : pr[p].save = proc[p].save /\ pr[p].lock = proc[p].lock
  BY DEF Kernel, TypeOK, ProcSet
<1>3. /\ proc' = DispatcherSave(pr, c)
      /\ pc' = [pc EXCEPT ![c] = "wait"]
      /\ current_pid' = [current_pid EXCEPT ![c] = 0]
      /\ UNCHANGED <<trap, regs, IdtCallSaved, processes, version>>
  BY DEF KernelFunctionSuspend, idtVars
<1> HIDE DEF pr
<1> QED BY <1>1, <1>2, <1>3, SaveIsolated

LEMMA SuspendingIsolated ==
  ASSUME Kernel, Isolated, NEW c \in CPUs, LockStep(c),
         KernelFunctionExit(c) \/ KernelFunctionSleep(c) \/ KernelFunctionRead(c)
  PROVE  Isolated'
<1>1. {"sleep", "read", "exit"} \subseteq Suspends /\ {TRUE, FALSE} \subseteq BOOLEAN
  BY DEF Suspends
<1>2. \A n \in Nat, b \in BOOLEAN : [left |-> n, ok |-> b] \in DataSet
  BY DEF DataSet
<1>3. pc[c] = "call"
  BY DEF KernelFunctionExit, KernelFunctionSleep, KernelFunctionRead, FunctionCall,
     InCall
<1>4. CASE KernelFunctionExit(c)
  <2>1. NoData \in DataSet
    BY DEF NoData, DataSet
  <2> QED BY <1>1, <1>3, <1>4, <2>1, SuspendIsolated DEF KernelFunctionExit
<1>5. CASE KernelFunctionSleep(c)
  <2>1. \A ticks \in SleepUnits : ticks * SleepScale \in Nat
    BY BoundsAssumption
  <2> QED BY <1>1, <1>2, <1>3, <1>5, <2>1, SuspendIsolated DEF KernelFunctionSleep
<1>6. CASE KernelFunctionRead(c)
  BY <1>1, <1>2, <1>3, <1>6, BoundsAssumption, SuspendIsolated DEF KernelFunctionRead
<1> QED BY <1>4, <1>5, <1>6

-----------------------------------------------------------------------------
(* Steps that remove a process.                                            *)

\* The pid is as new: whoever gets it next finds nothing of its last owner.
LEMMA RemoveSaved ==
  ASSUME Kernel, Isolated, NEW p \in Pids, InTable(p), DispatcherProcessDone(p),
         current_pid' \in [CPUs -> Pid0],
         \A d \in CPUs : /\ current_pid[d] = p => current_pid'[d] = 0
                         /\ current_pid[d] # p => current_pid'[d] = current_pid[d]
  PROVE  /\ SaveRight' /\ Fresh'
         /\ \A q \in Pids : q # p => version'[q] = version[q]
<1>1. \A q : InTable(q)' <=> (InTable(q) /\ q # p)
  BY TableRemoved DEF Kernel
<1>2. /\ version'[p] = 0
      /\ \A q \in Pids : q # p => version'[q] = version[q]
  BY DEF DispatcherProcessDone, Kernel, TypeOK
<1>3. /\ proc'[p].save.cr3 = p /\ proc'[p].save.gp = <<p, 0>>
      /\ \A q \in Pids : q # p => proc'[q] = proc[q]
  BY DEF DispatcherProcessDone, NewProcess, Kernel, TypeOK
<1>4. SaveRight'
  BY <1>2, <1>3 DEF Isolated, SaveRight
<1>5. Fresh'
  BY <1>1, <1>2 DEF Isolated, Fresh
<1> QED BY <1>2, <1>4, <1>5

LEMMA ExceptionIsolated ==
  ASSUME Kernel, Isolated, NEW c \in CPUs, LockStep(c), ExceptionInProcess(c)
  PROVE  Isolated'
<1>1. /\ current_pid[c] # 0 /\ DispatcherProcessDone(current_pid[c])
      /\ current_pid' = [current_pid EXCEPT ![c] = 0]
      /\ pc' = [pc EXCEPT ![c] = "wait"]
      /\ UNCHANGED <<trap, regs, IdtCallSaved>>
  BY DEF ExceptionInProcess, idtVars
<1>2. current_pid[c] \in Pids /\ InTable(current_pid[c])
  BY <1>1, CurrentIsPid DEF Kernel, Table, CurrentInTable
<1>3. /\ pc'[c] = "wait" /\ current_pid'[c] = 0
      /\ \A d \in CPUs \ {c} : pc'[d] = pc[d] /\ current_pid'[d] = current_pid[d]
  BY <1>1 DEF Kernel, TypeOK
<1>4. /\ current_pid' \in [CPUs -> Pid0]
      /\ \A d \in CPUs : /\ current_pid[d] = current_pid[c] => current_pid'[d] = 0
                         /\ current_pid[d] # current_pid[c]
                              => current_pid'[d] = current_pid[d]
  <2>1. 0 \in Pid0
    BY PidAssumption DEF Pid0
  <2> QED BY <1>1, <1>3, <2>1 DEF Kernel, TypeOK, Table, OneCpuPerProcess
<1>5. /\ SaveRight' /\ Fresh'
      /\ \A q \in Pids : q # current_pid[c] => version'[q] = version[q]
  BY <1>1, <1>2, <1>4, RemoveSaved
<1>6. StepFrame(c)
  BY <1>1, <1>3, <1>5, OtherProcess DEF StepFrame
<1>7. CpuRight(c)'
  BY <1>3, CpuQuiet DEF Kernel
<1> QED BY <1>5, <1>6, <1>7, StepIsolated

LEMMA ReapIsolated ==
  ASSUME Kernel, Isolated, NEW c \in CPUs, LockStep(c), ReapExited(c)
  PROVE  Isolated'
<1>1. /\ Visiting(c, {"scan"}) /\ proc[Visited].pending_exit
      /\ DispatcherProcessDone(Visited)
      /\ UNCHANGED <<pc, trap, regs, current_pid, IdtCallSaved>>
  BY DEF ReapExited, cpuVars, idtVars
<1>2. Visited \in Pids /\ InTable(Visited) /\ pc[c] = "scan"
  BY <1>1, VisitedType DEF Kernel, Visiting, Visited, InTable
<1>3. \A d \in CPUs : current_pid[d] # Visited
  <2>1. Visited # 0
    BY <1>2 DEF Pids
  <2> QED BY <1>1, <2>1 DEF Kernel, Table, CurrentRunnable, Runnable
<1>4. /\ SaveRight' /\ Fresh'
      /\ \A q \in Pids : q # Visited => version'[q] = version[q]
  <2>1. /\ current_pid' \in [CPUs -> Pid0]
        /\ \A d \in CPUs :
             /\ current_pid[d] = Visited => current_pid'[d] = 0
             /\ current_pid[d] # Visited => current_pid'[d] = current_pid[d]
    BY <1>1, <1>3 DEF Kernel, TypeOK
  <2> QED BY <1>1, <1>2, <2>1, RemoveSaved
<1>5. StepFrame(c)
  BY <1>1, <1>3, <1>4, OtherProcess DEF StepFrame
<1>6. CpuRight(c)'
  BY <1>1, <1>2, CpuQuiet DEF Kernel
<1> QED BY <1>4, <1>5, <1>6, StepIsolated

-----------------------------------------------------------------------------
(* The other steps of DispatcherSetUpNext.                                 *)

\* The result of a sleep or a read goes to the save area of a process that no CPU has.
LEMMA TestIsolated ==
  ASSUME Kernel, Isolated, NEW c \in CPUs, LockStep(c), TestSleep(c) \/ TestRead(c)
  PROVE  Isolated'
<1>1. /\ Visiting(c, {"scan"}) /\ proc[Visited].suspend # "none"
      /\ pc' = [pc EXCEPT ![c] = "decide"]
      /\ UNCHANGED <<trap, regs, current_pid, IdtCallSaved, processes>>
  BY DEF TestSleep, TestRead, Testing, idtVars
<1>2. \/ KernelFunctionDone(Visited)
      \/ UNCHANGED <<proc, version>>
      \/ /\ proc' = [proc EXCEPT ![Visited] = OneLess(proc[Visited])]
         /\ UNCHANGED version
  BY DEF TestSleep, TestRead
<1>3. Visited \in Pids /\ InTable(Visited)
  BY <1>1, VisitedType DEF Kernel, Visiting, Visited, InTable
<1>4. \A d \in CPUs : current_pid[d] # Visited
  <2>1. Visited # 0
    BY <1>3 DEF Pids
  <2> QED BY <1>1, <2>1 DEF Kernel, Table, CurrentRunnable, Runnable
<1>5. ~proc[Visited].lock /\ proc[Visited] \in ProcSet
  BY <1>3, <1>4 DEF Kernel, TypeOK, Table, OneCpuPerProcess
<1>6. /\ pc'[c] = "decide" /\ \A d \in CPUs \ {c} : pc'[d] = pc[d]
  BY <1>1 DEF Kernel, TypeOK
<1>7. \A q \in Pids : q # Visited => version'[q] = version[q] /\ proc'[q] = proc[q]
  BY <1>2 DEF KernelFunctionDone, Kernel, TypeOK
<1>8. /\ proc'[Visited].save.cr3 = Visited
      /\ proc'[Visited].save.gp = <<Visited, version'[Visited]>>
  <2>1. /\ proc[Visited].save.cr3 = Visited
        /\ proc[Visited].save.gp = <<Visited, version[Visited]>>
    BY <1>3, <1>5 DEF Isolated, SaveRight
  <2>2. CASE KernelFunctionDone(Visited)
    <3>1. /\ proc' = [proc EXCEPT ![Visited] = DoneIn(proc[Visited])]
          /\ version' = [version EXCEPT ![Visited] = 1 - version[Visited]]
      BY <2>2 DEF KernelFunctionDone
    <3>2. /\ proc'[Visited] = DoneIn(proc[Visited])
          /\ version'[Visited] = 1 - version[Visited]
      BY <1>3, <3>1 DEF Kernel, TypeOK
    <3>3. \A f \in ProcSet : /\ DoneIn(f).save.gp = NextVersion(f.save.gp)
                             /\ DoneIn(f).save.cr3 = f.save.cr3
      BY DEF DoneIn, ProcSet, RegSet
    <3>4. /\ proc'[Visited].save.gp = NextVersion(proc[Visited].save.gp)
          /\ proc'[Visited].save.cr3 = proc[Visited].save.cr3
      BY <1>5, <3>2, <3>3
    <3>5. NextVersion(<<Visited, version[Visited]>>)
            = <<Visited, 1 - version[Visited]>>
      BY NextVersionIs
    <3> QED BY <2>1, <3>2, <3>4, <3>5
  <2>3. CASE UNCHANGED <<proc, version>>
    BY <2>1, <2>3
  <2>4. CASE /\ proc' = [proc EXCEPT ![Visited] = OneLess(proc[Visited])]
             /\ UNCHANGED version
    <3>1. proc'[Visited] = OneLess(proc[Visited])
      BY <1>3, <2>4 DEF Kernel, TypeOK
    <3>2. OneLess(proc[Visited]).save = proc[Visited].save
      BY <1>5 DEF OneLess, ProcSet
    <3> QED BY <2>1, <2>4, <3>1, <3>2
  <2> QED BY <1>2, <2>2, <2>3, <2>4
<1>9. SaveRight'
  BY <1>7, <1>8 DEF Isolated, SaveRight
<1>10. Fresh'
  BY <1>1, <1>3, <1>7 DEF Isolated, Fresh, InTable
<1>11. StepFrame(c)
  BY <1>1, <1>4, <1>6, <1>7, OtherProcess DEF StepFrame
<1>12. CpuRight(c)'
  BY <1>6, CpuQuiet DEF Kernel
<1> QED BY <1>9, <1>10, <1>11, <1>12, StepIsolated

LEMMA SelectIsolated ==
  ASSUME Kernel, Isolated, NEW c \in CPUs, LockStep(c), SelectProcess(c)
  PROVE  Isolated'
<1> DEFINE p == Visited
<1>1. /\ Visiting(c, {"scan", "decide"}) /\ ~proc[p].lock
      /\ proc' = [proc EXCEPT ![p] = [proc[p] EXCEPT !.lock = TRUE]]
      /\ current_pid' = [current_pid EXCEPT ![c] = p]
      /\ IdtCallSaved' = [IdtCallSaved EXCEPT !.gp = proc[p].save.gp,
                                              !.cr3 = proc[p].save.cr3]
      /\ pc' = [pc EXCEPT ![c] = "restore"]
      /\ UNCHANGED <<trap, regs, processes, version>>
  BY DEF SelectProcess, Tested, Eligible
<1>2. p \in Pids /\ InHandler(c)
  BY <1>1, VisitedType DEF Kernel, Visiting, InHandler, Handler
<1> HIDE DEF p
<1>3. proc[p] \in ProcSet /\ IdtCallSaved \in RegSet
  BY <1>2 DEF Kernel, TypeOK
<1>4. /\ pc'[c] = "restore" /\ current_pid'[c] = p
      /\ \A d \in CPUs \ {c} : pc'[d] = pc[d] /\ current_pid'[d] = current_pid[d]
  BY <1>1 DEF Kernel, TypeOK
<1>5. /\ IdtCallSaved'.gp = proc[p].save.gp /\ IdtCallSaved'.cr3 = proc[p].save.cr3
  BY <1>1, <1>3 DEF RegSet
<1>6. proc[p].save.gp = <<p, version[p]>> /\ proc[p].save.cr3 = p
  BY <1>1, <1>2 DEF Isolated, SaveRight
<1>7. /\ proc'[p].lock /\ proc'[p].save = proc[p].save
      /\ \A q \in Pids : q # p => proc'[q] = proc[q]
  BY <1>1, <1>2, <1>3 DEF Kernel, TypeOK, ProcSet
<1>8. SaveRight'
  BY <1>1, <1>6, <1>7 DEF Isolated, SaveRight
<1>9. Fresh'
  BY <1>1 DEF Isolated, Fresh, InTable
<1>10. StepFrame(c)
  BY <1>1, <1>2, <1>4 DEF StepFrame
<1>11. CpuRight(c)'
  BY <1>1, <1>4, <1>5, <1>6 DEF CpuRight
<1> QED BY <1>8, <1>9, <1>10, <1>11, StepIsolated

-----------------------------------------------------------------------------
(* The theorem.                                                            *)

LEMMA StepIsolates ==
  ASSUME Kernel, Isolated, NEW c \in CPUs,
         UserStep(c) \/ Interrupts(c) \/ IdtGetLock(c) \/ HandlerStep(c)
  PROVE  Isolated'
<1>1. LockStep(c)
  BY NextLock DEF Kernel
<1> QED
  BY <1>1, UserIsolated, EntryExitIsolated, QuietIsolated, ExceptionIsolated,
     SuspendingIsolated, RunIsolated, OtherIsolated, TimerIsolated, ReapIsolated,
     TestIsolated, SelectIsolated
  DEF HandlerStep, KernelFunctions, SetUpNext

LEMMA InitIsolated == Init => Isolated
<1> SUFFICES ASSUME Init PROVE Isolated
  OBVIOUS
<1>1. /\ current_pid = [c \in CPUs |-> 0] /\ version = [p \in Pids |-> 0]
      /\ proc = [p \in Pids |-> [NewProcess(p) EXCEPT !.run = (p = 1)]]
  BY DEF Init
<1>2. ASSUME NEW p \in Pids
      PROVE  proc[p].save.cr3 = p /\ proc[p].save.gp = <<p, version[p]>>
  <2>1. proc[p] = [NewProcess(p) EXCEPT !.run = (p = 1)] /\ version[p] = 0
    BY <1>1
  <2>2. proc[p].save = NewProcess(p).save
    BY <2>1 DEF NewProcess
  <2>3. NewProcess(p).save.cr3 = p /\ NewProcess(p).save.gp = <<p, 0>>
    BY DEF NewProcess
  <2> QED BY <2>1, <2>2, <2>3
<1>3. \A c \in CPUs : CpuRight(c)
  BY <1>1 DEF CpuRight
<1>4. SaveRight
  BY <1>2 DEF SaveRight
<1>5. Fresh
  BY <1>1 DEF Fresh
<1> QED BY <1>3, <1>4, <1>5 DEF Isolated

\* Whatever runs in between on this CPU and on the others, through the one set of
\* IdtCallSaved* variables, a process finds its registers as it left them, or as the
\* result of its kernel function, and its own page tables.
THEOREM ContextsIsolated == Spec => []ContextIsolation
<1>1. Init => Isolated
  BY InitIsolated
<1>2. Kernel /\ Isolated /\ [Next]_vars => Isolated'
  <2> SUFFICES ASSUME Kernel, Isolated, [Next]_vars PROVE Isolated'
    OBVIOUS
  <2>1. CASE Next
    BY <2>1, StepIsolates DEF Next
  <2>2. CASE UNCHANGED vars
    <3>1. UNCHANGED <<pc, trap, regs, current_pid, IdtBusy, IdtCallSaved, processes,
                      proc, version>>
      BY <2>2 DEF vars, cpuVars, idtVars, tabVars
    <3> QED
      BY <3>1 DEF Isolated, CpuRight, SaveRight, Fresh, InTable, InHandler
  <2> QED BY <2>1, <2>2
<1>3. Kernel /\ Isolated => ContextIsolation
  BY DEF Kernel, Control, Isolated, CpuRight, SaveRight, ContextIsolation
<1>4. TypeOK /\ MutualExclusion /\ Table /\ Control => Kernel
  BY DEF Kernel
<1> QED
  BY <1>1, <1>2, <1>3, <1>4, TypeCorrect, KernelLock, TableInvariant, PTL DEF Spec

\* A CPU whose handler has raised an exception waits for a lock that nobody is left to
\* give back.
Stuck ==
  \A c \in CPUs : FaultedInHandler(c) => IdtBusy /\ \A d \in CPUs : ~InHandler(d)

\* Only kernel code that runs in a handler is interrupted there by a page fault.
LEMMA NextFaulted ==
  ASSUME TypeOK, NEW c \in CPUs, Interrupts(c), FaultedInHandler(c)'
  PROVE  InHandler(c)
<1> SUFFICES ASSUME ~KernelFault(c) PROVE FALSE
  BY DEF KernelFault, InHandler
<1>1. PICK vector \in Int : Interrupt(c, vector) /\ (vector = VectorPageFault => pc[c] = "user")
  <2>1. ASSUME NEW irq \in Irqs, Interrupt(c, VectorOfIrq(irq))
        PROVE  VectorOfIrq(irq) \in Int /\ VectorOfIrq(irq) # VectorPageFault
    <3>1. irq \in 0..23
      BY WorkloadAssumption
    <3> QED BY <3>1 DEF VectorOfIrq, VectorPageFault
  <2> QED
    BY <2>1 DEF Interrupts, TimerInterrupt, FunctionInterrupt, ProcessFault,
       SpuriousInterrupt, DeviceInterrupt, VectorTimer, VectorFunction, VectorPageFault,
       VectorSpurious
<1>2. trap'[c] = [vector |-> vector, cpl |-> IF pc[c] = "user" THEN 3 ELSE 0]
  BY <1>1 DEF Interrupt, TypeOK
<1>3. trap'[c] = [vector |-> VectorPageFault, cpl |-> 0]
  BY DEF FaultedInHandler
<1>4. vector = VectorPageFault /\ pc[c] # "user"
  BY <1>2, <1>3
<1> QED BY <1>1, <1>4

\* The steps of a handler take no interrupt.
LEMMA HandlerTraps ==
  ASSUME TypeOK, NEW c \in CPUs, HandlerStep(c)
  PROVE  trap' = trap /\ pc'[c] # "spin"
<1> USE DEF cpuVars, idtVars, tabVars, scanVars
<1>1. CASE ReleaseAndReturn(c) \/ IdtWait(c)
  BY <1>1 DEF ReleaseAndReturn, IdtWait, TypeOK
<1>2. CASE ReapExited(c) \/ NextCycle(c)
  BY <1>2 DEF ReapExited, NextCycle, EndOfTable, Visiting
<1>3. ASSUME \/ IdtCallManage(c) \/ ExceptionInProcess(c) \/ ExceptionInKernel(c)
             \/ Spurious(c) \/ KeyboardIrq(c) \/ UnhandledIrq(c)
             \/ KernelFunctions(c) \/ IdtCallTimer(c) \/ TestSleep(c)
             \/ TestRead(c) \/ TestReadBadFd(c) \/ SkipProcess(c)
             \/ SelectProcess(c) \/ NothingToRun(c) \/ RestoreRegisters(c)
      PROVE  trap' = trap /\ pc'[c] # "spin"
  <2>1. trap' = trap
    BY <1>3 DEF IdtCallManage, ExceptionInProcess, ExceptionInKernel, Spurious,
       KeyboardIrq, UnhandledIrq, KernelFunctions, KernelFunctionExit,
       KernelFunctionSleep, KernelFunctionRead, KernelFunctionRun,
       KernelFunctionOther, KernelFunctionSuspend, FunctionReturn, HALT,
       IdtCallTimer, TestSleep, TestRead, TestReadBadFd,
       SkipProcess, SelectProcess, NothingToRun, RestoreRegisters
  <2>2. PICK x \in {"call", "wait", "halted", "restore", "scan", "decide",
                    "release"} : pc' = [pc EXCEPT ![c] = x]
    BY <1>3 DEF IdtCallManage, ExceptionInProcess, ExceptionInKernel, Spurious,
       KeyboardIrq, UnhandledIrq, KernelFunctions, KernelFunctionExit,
       KernelFunctionSleep, KernelFunctionRead, KernelFunctionRun,
       KernelFunctionOther, KernelFunctionSuspend, FunctionReturn, HALT,
       IdtCallTimer, TestSleep, TestRead, TestReadBadFd, AfterIdtCall,
       SkipProcess, SelectProcess, NothingToRun, RestoreRegisters
  <2> QED BY <2>1, <2>2 DEF TypeOK
<1> QED BY <1>1, <1>2, <1>3 DEF HandlerStep, SetUpNext

LEMMA NextStuck ==
  ASSUME TypeOK, MutualExclusion, Stuck, Next
  PROVE  Stuck'
<1>1. PICK c \in CPUs :
        UserStep(c) \/ Interrupts(c) \/ IdtGetLock(c) \/ HandlerStep(c)
  BY DEF Next
<1>2. PICK x \in PcSet :
        /\ pc' = [pc EXCEPT ![c] = x]
        /\ \/ IdtBusy' = IdtBusy /\ (InHandler(c) \/ x \notin Handler)
           \/ ~IdtBusy /\ IdtBusy'
           \/ InHandler(c) /\ ~IdtBusy' /\ x \notin Handler
  BY <1>1, NextLock DEF LockStep
<1>3. pc'[c] = x /\ \A d \in CPUs \ {c} : pc'[d] = pc[d]
  BY <1>2 DEF TypeOK
<1> SUFFICES ASSUME NEW d \in CPUs, FaultedInHandler(d)'
             PROVE  IdtBusy' /\ \A e \in CPUs : ~InHandler(e)'
  BY DEF Stuck
<1>4. CASE FaultedInHandler(d)
  <2>1. IdtBusy /\ \A e \in CPUs : ~InHandler(e)
    BY <1>4 DEF Stuck
  <2> QED BY <1>2, <1>3, <2>1 DEF InHandler
<1>5. CASE ~FaultedInHandler(d)
  <2>1. CASE Interrupts(c)
    <3>1. trap' = [trap EXCEPT ![c] = trap'[c]] /\ IdtBusy' = IdtBusy /\ pc'[c] = "spin"
      BY <1>3, <2>1 DEF TypeOK, Interrupts, TimerInterrupt, FunctionInterrupt, ProcessFault,
         SpuriousInterrupt, DeviceInterrupt, KernelFault, Interrupt, idtVars
    <3>2. d = c
      BY <1>3, <1>5, <3>1 DEF FaultedInHandler, TypeOK
    <3>3. InHandler(c)
      BY <2>1, <3>2, NextFaulted
    <3>4. "spin" \notin Handler
      BY DEF Handler
    <3> QED BY <1>3, <3>1, <3>3, <3>4 DEF MutualExclusion, InHandler
  <2>2. CASE UserStep(c)
    BY <1>5, <2>2 DEF UserStep, FaultedInHandler
  <2>3. CASE IdtGetLock(c)
    <3>1. pc'[c] # "spin" /\ \A e \in CPUs \ {c} : trap'[e] = trap[e]
      BY <2>3 DEF IdtGetLock, TypeOK
    <3> QED BY <1>3, <1>5, <3>1 DEF FaultedInHandler
  <2>4. CASE HandlerStep(c)
    BY <1>3, <1>5, <2>4, HandlerTraps DEF FaultedInHandler
  <2> QED BY <1>1, <2>1, <2>2, <2>3, <2>4
<1> QED BY <1>4, <1>5

\* Once a CPU is halted, or its handler has raised an exception, the machine does nothing
\* any more: the lock stays taken, and only a CPU in a handler changes the table, the
\* keyboard or a current_pid.
THEOREM HaltStopsAll == Spec => HaltIsFinal
<1> DEFINE Halted == \E c \in CPUs : pc[c] = "halted" \/ FaultedInHandler(c)
<1>1. TypeOK /\ MutualExclusion /\ Stuck /\ [Next]_vars =>
        [Halted => UNCHANGED <<tabVars, keyboard, current_pid>>]_vars
  <2> SUFFICES ASSUME TypeOK, MutualExclusion, Stuck, Next,
                      NEW d \in CPUs, pc[d] = "halted" \/ FaultedInHandler(d)
               PROVE  UNCHANGED <<tabVars, keyboard, current_pid>>
    OBVIOUS
  <2>1. IdtBusy /\ \A c \in CPUs : InHandler(c) => pc[c] = "halted"
    <3>1. CASE pc[d] = "halted"
      BY <3>1 DEF MutualExclusion, InHandler, Handler
    <3>2. CASE FaultedInHandler(d)
      BY <3>2 DEF Stuck
    <3> QED BY <3>1, <3>2
  <2>2. PICK c \in CPUs :
          UserStep(c) \/ Interrupts(c) \/ IdtGetLock(c) \/ HandlerStep(c)
    BY DEF Next
  <2>3. ~HandlerStep(c)
    <3>1. HandlerStep(c) => pc[c] \in Handler /\ pc[c] # "halted"
      BY DEF HandlerStep, IdtCallManage, ExceptionInProcess, ExceptionInKernel,
         Spurious, KeyboardIrq, UnhandledIrq, KernelFunctions, KernelFunctionExit,
         KernelFunctionSleep, KernelFunctionRead, KernelFunctionRun,
         KernelFunctionOther, IdtCallTimer, SetUpNext, ReapExited, TestSleep,
         TestRead, TestReadBadFd, SkipProcess, SelectProcess, NextCycle,
         NothingToRun, RestoreRegisters, ReleaseAndReturn, IdtWait, InCall,
         FunctionCall, RunCall, Testing, Tested, Visiting, EndOfTable, Handler
    <3> QED BY <2>1, <3>1 DEF InHandler
  <2>4. ~IdtGetLock(c)
    BY <2>1 DEF IdtGetLock
  <2> QED
    BY <2>2, <2>3, <2>4
    DEF UserStep, Interrupts, TimerInterrupt, FunctionInterrupt, ProcessFault,
        SpuriousInterrupt, DeviceInterrupt, KernelFault, Interrupt, tabVars
<1>2. Init => Stuck
  BY DEF Init, Stuck, FaultedInHandler
<1>3. TypeOK /\ MutualExclusion /\ Stuck /\ [Next]_vars => Stuck'
  <2>1. TypeOK /\ MutualExclusion /\ Stuck /\ Next => Stuck'
    BY NextStuck
  <2>2. Stuck /\ UNCHANGED vars => Stuck'
    BY DEF vars, cpuVars, idtVars, Stuck, FaultedInHandler, InHandler
  <2> QED BY <2>1, <2>2
<1> QED BY <1>1, <1>2, <1>3, TypeCorrect, KernelLock, PTL DEF Spec, HaltIsFinal
=============================================================================
