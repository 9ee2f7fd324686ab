----------------------------- MODULE Dispatcher -----------------------------
(***************************************************************************)
(* Interrupt entry and exit, the process table, the round-robin dispatcher *)
(* and the kernel functions that suspend, create or end a process.         *)
(*                                                                         *)
(* Every CPU enters the kernel through an interrupt gate.  The stub spins  *)
(* on IdtBusy, then saves the registers of the interrupted code in the     *)
(* IdtCallSaved* variables, which all CPUs share, and calls IdtCall.  The  *)
(* lock is given back just before iretq, or in IdtWait when the CPU has no *)
(* process to return to.  The steps of a handler are separate actions, so  *)
(* that they interleave with the user code and the interrupts of the other *)
(* CPUs.                                                                   *)
(*                                                                         *)
(* Data is abstracted as follows.                                          *)
(*   - The general registers, rsp and rip of a process are one token: the  *)
(*     process that computed them and a version that changes with every    *)
(*     step the process takes.  rflags is the process that last set it.    *)
(*     cr3 is the process whose page tables it points to, 0 the kernel's.  *)
(*   - last_cycle and DispatcherCycle are only ever compared for equality  *)
(*     and a process's last_cycle never exceeds DispatcherCycle, so ran is *)
(*     the set of processes with last_cycle = DispatcherCycle.  cycle0     *)
(*     says that DispatcherCycle is still 0, the last_cycle of a new       *)
(*     process.                                                            *)
(*   - The deadline of a sleep is kept as the number of ticks left.        *)
(***************************************************************************)
EXTENDS Integers, Sequences, FiniteSets

CONSTANTS
  CPUs,               \* the entries of DispatcherCpus
  BSP,                \* the CPU that boots, which the I/O APIC interrupts
  ApicLocalBspId,     \* the CPU whose id this variable holds: the last CPU that
                      \* ran ApicLocalInit, an AP if there is one
  MaxPid,             \* 0xFFFF in the code
  SleepUnits,         \* the arguments processes give to sleep
  SleepScale,         \* 10000 in the code
  ReadCounts,         \* the byte counts processes give to read
  MaxProcesses,       \* bound: a process calls run while there are fewer
  KeyboardBufferSize, \* KEYBOARD_BUFFER_SIZE, 40 in the code
  Calls,              \* the kernel functions the processes call
  Events,             \* what happens on a CPU beside timer and function calls
  Irqs                \* the I/O APIC lines that devices raise

CallNames  == {"exit", "sleep", "sleep_overflow", "read", "read_bad_fd",
               "run", "run_fails", "run_fails_late", "other"}
EventNames == {"step", "fault", "spurious", "kernel_fault"}

ASSUME CPUsAssumption == BSP \in CPUs /\ ApicLocalBspId \in CPUs
ASSUME PidAssumption  == MaxPid \in Nat \ {0}
ASSUME BoundsAssumption ==
  /\ SleepUnits \subseteq Nat /\ ReadCounts \subseteq Nat
  /\ SleepScale \in Nat \ {0}
  /\ KeyboardBufferSize \in Nat \ {0}
  /\ MaxProcesses \in Nat
ASSUME WorkloadAssumption ==
  /\ Calls \subseteq CallNames
  /\ Events \subseteq EventNames
  /\ Irqs \subseteq 0..23

VARIABLES
  pc,                  \* where each CPU is
  trap,                \* the interrupt a CPU has taken but not yet recorded
  regs,                \* the registers of each CPU
  current_pid,         \* DispatcherCpu_t.current_pid, 0 when there is none
  IdtBusy,             \* the kernel lock
  IdtCallFrame,        \* IdtCallVector and the privilege level in IdtCallCs
  IdtCallSaved,        \* the IdtCallSaved* variables
  IdtFull,             \* the I/O APIC is mapped and the timers of the APs run
  processes,           \* DispatcherProcesses: the pids in table order
  proc,                \* the fields of each DispatcherProcess_t
  last_pid,
  ran,                 \* the processes with last_cycle = DispatcherCycle
  cycle0,              \* DispatcherCycle = 0
  process_no,          \* local of DispatcherSetUpNext (counted from 1)
  no_processes_to_run, \* local of DispatcherSetUpNext
  keyboard,            \* KeyboardBuffer
  version              \* history: the version of each process's own registers

cpuVars  == <<pc, trap, regs, current_pid>>
idtVars  == <<IdtBusy, IdtCallFrame, IdtCallSaved, IdtFull>>
tabVars  == <<processes, proc, last_pid, ran, cycle0>>
scanVars == <<process_no, no_processes_to_run>>
vars == <<cpuVars, idtVars, tabVars, scanVars, keyboard, version>>

-----------------------------------------------------------------------------
Pids    == 1..MaxPid
Pid0    == 0..MaxPid
Tokens  == Pid0 \X {0, 1}
RegSet  == [gp : Tokens, rflags : Pid0, cr3 : Pid0]
\* What a key read from the buffer means to KernelFunctionRead: a pressed key
\* with a character, or a release or a key without one.
Keys    == {"printable", "ignored"}

\* The registers of a CPU that executes kernel code or halts in IdtWait.
KernelRegs == [gp |-> <<0, 0>>, rflags |-> 0, cr3 |-> 0]
NextVersion(t) == <<t[1], 1 - t[2]>>

VectorTimer    == 160
VectorSpurious == 240
VectorFunction == 241
VectorPageFault == 14
VectorKeyboard == 49
\* The vector that the stub of an I/O APIC line records: Idt48 to Idt71 record
\* 48 to 71, except that Idt66 records 26.
VectorOfIrq(irq) == IF irq = 18 THEN 26 ELSE 48 + irq

NoTrap   == [vector |-> 0, cpl |-> 0]
Suspends == {"none", "sleep", "read", "exit"}
NoData   == [left |-> 0, ok |-> TRUE]

\* What DispatcherProcessNew stores; the page tables are those of the process.
NewProcess(p) ==
  [run |-> FALSE, lock |-> FALSE, suspend |-> "none", data |-> NoData,
   pending_exit |-> FALSE,
   save |-> [gp |-> <<p, 0>>, rflags |-> 0, cr3 |-> p]]

InTable(p) == \E i \in DOMAIN processes : processes[i] = p

\* DispatcherProcesses without p: the entries behind it move forward.
Without(s, p) ==
  LET i == CHOOSE i \in DOMAIN s : s[i] = p
  IN  [j \in 1..(Len(s) - 1) |-> IF j < i THEN s[j] ELSE s[j + 1]]

\* Where a CPU is while it holds the kernel lock.
Handler == {"entry", "call", "scan", "decide", "restore", "release", "wait",
            "halted"}
PcSet   == {"user", "idle", "spin"} \cup Handler

Init ==
  /\ pc = [c \in CPUs |-> "idle"]
  /\ trap = [c \in CPUs |-> NoTrap]
  /\ regs = [c \in CPUs |-> KernelRegs]
  /\ current_pid = [c \in CPUs |-> 0]
  /\ IdtBusy = FALSE
  /\ IdtCallFrame = NoTrap
  /\ IdtCallSaved = KernelRegs
  /\ IdtFull = FALSE
  /\ processes = <<1>>
  /\ proc = [p \in Pids |-> [NewProcess(p) EXCEPT !.run = (p = 1)]]
  /\ last_pid = 1
  /\ ran = {1}
  /\ cycle0 = TRUE
  /\ process_no = 1
  /\ no_processes_to_run = TRUE
  /\ keyboard = <<>>
  /\ version = [p \in Pids |-> 0]

-----------------------------------------------------------------------------
(* User code and interrupts.  A gate clears IF, so only user code and the  *)
(* hlt loop of IdtWait are interrupted; an AP, once its timer runs.        *)

\* A process takes a step: its registers and flags become its own newest.
UserStep(c) ==
  /\ "step" \in Events /\ pc[c] = "user"
  /\ LET p == current_pid[c] IN
       /\ regs' = [regs EXCEPT ![c] = [@ EXCEPT !.gp = NextVersion(regs[c].gp),
                                                !.rflags = p]]
       /\ version' = [version EXCEPT ![p] = 1 - @]
  /\ UNCHANGED <<pc, trap, current_pid, idtVars, tabVars, scanVars, keyboard>>

\* CPU c is interrupted: the stub of the vector's gate waits for the lock.
Interrupt(c, vector) ==
  /\ pc' = [pc EXCEPT ![c] = "spin"]
  /\ trap' = [trap EXCEPT ![c] = [vector |-> vector,
                                 cpl |-> IF pc[c] = "user" THEN 3 ELSE 0]]
  /\ UNCHANGED <<regs, current_pid, idtVars, tabVars, scanVars, keyboard,
                 version>>

Interruptible(c) == pc[c] \in {"user", "idle"} /\ (c = BSP \/ IdtFull)

TimerInterrupt(c)    == Interruptible(c) /\ Interrupt(c, VectorTimer)
FunctionInterrupt(c) == pc[c] = "user" /\ Interrupt(c, VectorFunction)
ProcessFault(c)      == /\ "fault" \in Events /\ pc[c] = "user"
                        /\ Interrupt(c, VectorPageFault)
SpuriousInterrupt(c) == /\ "spurious" \in Events /\ Interruptible(c)
                        /\ Interrupt(c, VectorSpurious)
DeviceInterrupt(c)   == /\ c = BSP /\ IdtFull /\ Interruptible(c)
                        /\ \E irq \in Irqs : Interrupt(c, VectorOfIrq(irq))
\* Kernel code itself raises an exception, inside a handler.
KernelFault(c)       == /\ "kernel_fault" \in Events
                        /\ pc[c] \in Handler \ {"halted"}
                        /\ Interrupt(c, VectorPageFault)

-----------------------------------------------------------------------------
(* Interrupt entry: IdtGetLock, the IdtN stubs, IdtCallManage.             *)

\* Mutant: the lock is taken without looking at its old value.
IdtGetLockBlind(c) ==
  /\ pc[c] = "spin"
  /\ IdtBusy' = TRUE
  /\ IdtCallFrame' = trap[c]
  /\ trap' = [trap EXCEPT ![c] = NoTrap]
  /\ pc' = [pc EXCEPT ![c] = "entry"]
  /\ UNCHANGED <<regs, current_pid, IdtCallSaved, IdtFull, tabVars, scanVars,
                 keyboard, version>>

IdtGetLock(c) ==
  /\ pc[c] = "spin" /\ ~IdtBusy
  /\ IdtBusy' = TRUE
  /\ IdtCallFrame' = trap[c]
  /\ trap' = [trap EXCEPT ![c] = NoTrap]
  /\ pc' = [pc EXCEPT ![c] = "entry"]
  /\ UNCHANGED <<regs, current_pid, IdtCallSaved, IdtFull, tabVars, scanVars,
                 keyboard, version>>

\* All registers go to IdtCallSaved*, then the kernel's page tables are loaded.
IdtCallManage(c) ==
  /\ pc[c] = "entry"
  /\ IdtCallSaved' = regs[c]
  /\ regs' = [regs EXCEPT ![c] = KernelRegs]
  /\ pc' = [pc EXCEPT ![c] = "call"]
  /\ UNCHANGED <<trap, current_pid, IdtBusy, IdtCallFrame, IdtFull, tabVars,
                 scanVars, keyboard, version>>

\* Mutant: the lock is given back before the CPU stops.
HALTUnlocked(c) ==
  /\ pc' = [pc EXCEPT ![c] = "halted"]
  /\ IdtBusy' = FALSE
  /\ UNCHANGED <<trap, regs, current_pid, IdtCallFrame, IdtCallSaved, IdtFull,
                 tabVars, scanVars, keyboard, version>>

\* HALT: the CPU stops in a hlt loop and keeps the lock.
HALT(c) ==
  /\ pc' = [pc EXCEPT ![c] = "halted"]
  /\ UNCHANGED <<trap, regs, current_pid, idtVars, tabVars, scanVars, keyboard,
                 version>>

\* The end of IdtCall: back to the interrupted process, or to IdtWait.
AfterIdtCall(c) ==
  pc' = [pc EXCEPT ![c] = IF current_pid[c] = 0 THEN "wait" ELSE "restore"]

-----------------------------------------------------------------------------
(* The process table.                                                      *)

\* Mutant: the process is unlocked but its registers are not copied.
SaveInLockOnly(f) == [f EXCEPT !.lock = FALSE]

\* What DispatcherSave does to the struct of the process (cr3 is not saved).
SaveIn(f) ==
  [f EXCEPT !.lock = FALSE,
            !.save = [@ EXCEPT !.gp = IdtCallSaved.gp,
                               !.rflags = IdtCallSaved.rflags]]

\* The process structs after DispatcherSave on CPU c.
DispatcherSave(pr, c) ==
  IF current_pid[c] = 0 THEN pr
  ELSE [pr EXCEPT ![current_pid[c]] = SaveIn(@)]

\* Mutant: the pid wraps round like an unsigned integer, to 0.
PidTriedFromZero(k) == (last_pid + k) % (MaxPid + 1)

\* The pids that DispatcherProcessNew tries, in order.
PidTried(k) == ((last_pid + k - 1) % MaxPid) + 1
\* Mutant: the next pid is taken without looking for it in the table.
FreePidUnchecked(k) == k = 1
FreePid(k) == ~InTable(PidTried(k)) /\ \A j \in 1..(k - 1) : InTable(PidTried(j))
PidsLeft == \E p \in Pids : ~InTable(p)

\* Append a process; its last_cycle is 0.
DispatcherProcessNew(p, run) ==
  /\ last_pid' = p
  /\ processes' = Append(processes, p)
  /\ proc' = [proc EXCEPT ![p] = [NewProcess(p) EXCEPT !.run = run]]
  /\ ran' = IF cycle0 THEN ran \cup {p} ELSE ran
  /\ UNCHANGED cycle0

\* Remove a process; its entry of proc is reset for a later use of the pid.
DispatcherProcessDone(p) ==
  /\ processes' = Without(processes, p)
  /\ proc' = [proc EXCEPT ![p] = NewProcess(p)]
  /\ ran' = ran \ {p}
  /\ version' = [version EXCEPT ![p] = 0]
  /\ UNCHANGED <<last_pid, cycle0>>
-----------------------------------------------------------------------------
(* IdtCall: exceptions, spurious interrupts and I/O APIC interrupts.       *)

InCall(c, vector) == pc[c] = "call" /\ IdtCallFrame.vector = vector
IsException == IdtCallFrame.vector <= 31

\* Mutant: the process is removed but stays the current one of the CPU.
ExceptionKeepsCurrent(c) ==
  /\ pc[c] = "call" /\ IsException
  /\ IdtCallFrame.cpl = 3 /\ current_pid[c] # 0
  /\ DispatcherProcessDone(current_pid[c])
  /\ pc' = [pc EXCEPT ![c] = "wait"]
  /\ UNCHANGED <<trap, regs, current_pid, idtVars, scanVars, keyboard>>

\* An exception of a process ends the process on the spot.
ExceptionInProcess(c) ==
  /\ pc[c] = "call" /\ IsException
  /\ IdtCallFrame.cpl = 3 /\ current_pid[c] # 0
  /\ DispatcherProcessDone(current_pid[c])
  /\ current_pid' = [current_pid EXCEPT ![c] = 0]
  /\ pc' = [pc EXCEPT ![c] = "wait"]
  /\ UNCHANGED <<trap, regs, idtVars, scanVars, keyboard>>

\* Any other exception halts the kernel.
ExceptionInKernel(c) ==
  /\ pc[c] = "call" /\ IsException /\ IdtCallFrame.cpl # 3
  /\ HALT(c)

Spurious(c) == InCall(c, VectorSpurious) /\ HALT(c)

\* A key is appended to KeyboardBuffer, or discarded when the buffer is full.
KeyboardBufferQueue(key) ==
  keyboard' = IF Len(keyboard) < KeyboardBufferSize
              THEN Append(keyboard, key) ELSE keyboard

\* IRQ 1 queues the key that was read from the controller, unless its scancode
\* is of no known key.
KeyboardIrq(c) ==
  /\ InCall(c, VectorKeyboard)
  /\ \/ \E key \in Keys : KeyboardBufferQueue(key)
     \/ UNCHANGED keyboard
  /\ AfterIdtCall(c)
  /\ UNCHANGED <<trap, regs, current_pid, idtVars, tabVars, scanVars, version>>

\* The other lines have no handler.
UnhandledIrq(c) ==
  /\ pc[c] = "call"
  /\ IdtCallFrame.vector \in 48..71 \ {VectorKeyboard}
  /\ AfterIdtCall(c)
  /\ UNCHANGED <<trap, regs, current_pid, idtVars, tabVars, scanVars, keyboard,
                 version>>

-----------------------------------------------------------------------------
(* IdtCall: kernel functions.  current_pid is in the table here, so the    *)
(* HALTs for a process that DispatcherFind does not know are left out:     *)
(* CurrentInTable is the invariant that makes them unreachable.            *)

FunctionCall(c, call) == InCall(c, VectorFunction) /\ call \in Calls
RunCall(c, call) == FunctionCall(c, call) /\ Len(processes) < MaxProcesses

\* Mutant: the CPU goes to IdtWait without DispatcherSave.
SuspendWithoutSave(c, suspend, data, pending_exit) ==
  LET p == current_pid[c] IN
  /\ proc' = [proc EXCEPT ![p] =
               [@ EXCEPT !.suspend = suspend, !.data = data,
                         !.pending_exit = pending_exit]]
  /\ pc' = [pc EXCEPT ![c] = "wait"]
  /\ UNCHANGED <<trap, regs, current_pid, idtVars, processes, last_pid, ran,
                 cycle0, scanVars, keyboard, version>>

\* KernelFunctionSuspend: note the reason, save the process, leave the CPU.
KernelFunctionSuspend(c, suspend, data, pending_exit) ==
  LET p == current_pid[c] IN
  /\ proc' = DispatcherSave([proc EXCEPT ![p] =
               [@ EXCEPT !.suspend = suspend, !.data = data,
                         !.pending_exit = pending_exit]], c)
  /\ current_pid' = [current_pid EXCEPT ![c] = 0]
  /\ pc' = [pc EXCEPT ![c] = "wait"]
  /\ UNCHANGED <<trap, regs, idtVars, processes, last_pid, ran, cycle0,
                 scanVars, keyboard, version>>

KernelFunctionExit(c) ==
  /\ FunctionCall(c, "exit")
  /\ KernelFunctionSuspend(c, "exit", NoData, TRUE)

\* The deadline is ticks * SleepScale ahead.  If adding it to IdtTicks wraps
\* round, the data only records the overflow.
KernelFunctionSleep(c) ==
  \/ /\ FunctionCall(c, "sleep")
     /\ \E ticks \in SleepUnits :
          KernelFunctionSuspend(c, "sleep",
                                [left |-> ticks * SleepScale, ok |-> TRUE], FALSE)
  \/ /\ FunctionCall(c, "sleep_overflow")
     /\ KernelFunctionSuspend(c, "sleep", [left |-> 0, ok |-> FALSE], FALSE)

\* left: the bytes still to read; ok: the descriptor is STDIN_FILENO.
KernelFunctionRead(c) ==
  \/ /\ FunctionCall(c, "read")
     /\ \E count \in ReadCounts :
          KernelFunctionSuspend(c, "read", [left |-> count, ok |-> TRUE], FALSE)
  \/ /\ FunctionCall(c, "read_bad_fd")
     /\ KernelFunctionSuspend(c, "read", [left |-> 1, ok |-> FALSE], FALSE)

\* A kernel function returns: its result replaces the saved rax.
FunctionReturn(c) ==
  /\ IdtCallSaved' = [IdtCallSaved EXCEPT !.gp = NextVersion(IdtCallSaved.gp)]
  /\ AfterIdtCall(c)
  /\ UNCHANGED <<trap, regs, current_pid, IdtBusy, IdtCallFrame, IdtFull,
                 scanVars, keyboard>>

\* The version of the caller's registers after the result is stored.
Answered(c, v) == [v EXCEPT ![current_pid[c]] = 1 - @]

\* run: the new process gets the first free pid after last_pid.  If it cannot
\* be set up once it is in the table it stays there with run = 0; if it fails
\* between the two, only its pid is used up.
KernelFunctionRun(c) ==
  \/ /\ \E k \in 1..MaxPid :
          /\ FreePid(k)
          /\ \/ /\ RunCall(c, "run")
                /\ DispatcherProcessNew(PidTried(k), TRUE)
             \/ /\ RunCall(c, "run_fails_late")
                /\ DispatcherProcessNew(PidTried(k), FALSE)
             \/ /\ FunctionCall(c, "run_fails")
                /\ last_pid' = PidTried(k)
                /\ UNCHANGED <<processes, proc, ran, cycle0>>
     /\ version' = Answered(c, version)
     /\ FunctionReturn(c)
  \/ /\ RunCall(c, "run") /\ ~PidsLeft   \* the search never ends
     /\ HALT(c)

\* The functions that neither suspend the process nor touch the table, and a
\* run that fails before it asks for a pid.
KernelFunctionOther(c) ==
  /\ FunctionCall(c, "other") \/ FunctionCall(c, "run_fails")
  /\ version' = Answered(c, version)
  /\ FunctionReturn(c)
  /\ UNCHANGED tabVars

-----------------------------------------------------------------------------
(* IdtCall: the timer.  DispatcherSetUpNext takes one action per entry of  *)
(* the table that it visits.                                               *)

\* One tick or one byte less to wait for.
OneLess(f) == [f EXCEPT !.data = [@ EXCEPT !.left = f.data.left - 1]]

\* Mutant: the last tick of a sleep is never counted.
TickOfShort(f) ==
  IF f.suspend = "sleep" /\ f.data.left > 1
  THEN OneLess(f) ELSE f

\* The clock of the sleepers advances by one tick.
TickOf(f) ==
  IF f.suspend = "sleep" /\ f.data.left > 0
  THEN OneLess(f) ELSE f
Ticked(pr) == [p \in Pids |-> TickOf(pr[p])]

\* Only one CPU counts ticks.  Then the process is saved, the scan starts.
IdtCallTimer(c) ==
  /\ InCall(c, VectorTimer)
  /\ proc' = DispatcherSave(IF c = ApicLocalBspId THEN Ticked(proc) ELSE proc, c)
  /\ current_pid' = [current_pid EXCEPT ![c] = 0]
  /\ process_no' = 1
  /\ no_processes_to_run' = TRUE
  /\ pc' = [pc EXCEPT ![c] = "scan"]
  /\ UNCHANGED <<trap, regs, idtVars, processes, last_pid, ran, cycle0, keyboard,
                 version>>

Visiting(c, at) == pc[c] \in at /\ process_no \in DOMAIN processes
Visited == processes[process_no]

\* Mutant: the walk goes on behind the place of the removed entry.
ReapExitedAndStep(c) ==
  /\ Visiting(c, {"scan"}) /\ proc[Visited].pending_exit
  /\ DispatcherProcessDone(Visited)
  /\ no_processes_to_run' = TRUE
  /\ process_no' = process_no + 1
  /\ UNCHANGED <<cpuVars, idtVars, keyboard>>

\* A process that has exited is removed and the scan restarts where it was.
ReapExited(c) ==
  /\ Visiting(c, {"scan"}) /\ proc[Visited].pending_exit
  /\ DispatcherProcessDone(Visited)
  /\ no_processes_to_run' = TRUE
  /\ UNCHANGED <<cpuVars, idtVars, process_no, keyboard>>

Testing(c, suspend) ==
  /\ Visiting(c, {"scan"})
  /\ ~proc[Visited].pending_exit
  /\ proc[Visited].suspend = suspend

\* KernelFunctionDone: the suspension is lifted, rax is the result.
DoneIn(f) == [f EXCEPT !.suspend = "none", !.data = NoData,
                       !.save = [@ EXCEPT !.gp = NextVersion(f.save.gp)]]
KernelFunctionDone(p) ==
  /\ proc' = [proc EXCEPT ![p] = DoneIn(@)]
  /\ version' = [version EXCEPT ![p] = 1 - @]

\* Mutant: the entry is passed over once its suspension has been tested.
TestSleepAndSkip(c) ==
  /\ Testing(c, "sleep")
  /\ LET data == proc[Visited].data IN
       IF data.ok /\ data.left = 0
       THEN KernelFunctionDone(Visited)
       ELSE UNCHANGED <<proc, version>>
  /\ process_no' = process_no + 1
  /\ UNCHANGED <<cpuVars, idtVars, processes, last_pid, ran, cycle0,
                 no_processes_to_run, keyboard>>

TestSleep(c) ==
  /\ Testing(c, "sleep")
  /\ LET data == proc[Visited].data IN
       IF data.ok /\ data.left = 0
       THEN KernelFunctionDone(Visited)
       ELSE UNCHANGED <<proc, version>>
  /\ pc' = [pc EXCEPT ![c] = "decide"]
  /\ UNCHANGED <<trap, regs, current_pid, idtVars, processes, last_pid, ran,
                 cycle0, scanVars, keyboard>>

\* The keys move forward by one.  The last byte of the buffer is copied but not
\* cleared: when the buffer is full, its last key stays in it.
KeyboardBufferGet ==
  IF Len(keyboard) = KeyboardBufferSize
  THEN Append(Tail(keyboard), keyboard[KeyboardBufferSize])
  ELSE Tail(keyboard)

\* One key is taken from the buffer, if there is one; a key with a character is
\* a byte of the read, which ends when offset >= count after that byte.
TestRead(c) ==
  /\ Testing(c, "read") /\ proc[Visited].data.ok
  /\ keyboard' = IF keyboard = <<>> THEN <<>> ELSE KeyboardBufferGet
  /\ LET left == proc[Visited].data.left IN
       IF keyboard = <<>> \/ (keyboard # <<>> /\ Head(keyboard) = "ignored")
       THEN UNCHANGED <<proc, version>>
       ELSE IF left <= 1
       THEN KernelFunctionDone(Visited)
       ELSE /\ proc' = [proc EXCEPT ![Visited] = OneLess(@)]
            /\ UNCHANGED version
  /\ pc' = [pc EXCEPT ![c] = "decide"]
  /\ UNCHANGED <<trap, regs, current_pid, idtVars, processes, last_pid, ran,
                 cycle0, scanVars>>

\* A read from another descriptor halts the kernel.
TestReadBadFd(c) ==
  Testing(c, "read") /\ ~proc[Visited].data.ok /\ HALT(c)

\* The entry has been tested, or there was nothing to test.
Tested(c) ==
  /\ Visiting(c, {"scan", "decide"})
  /\ ~proc[Visited].pending_exit
  /\ pc[c] = "decide" \/ proc[Visited].suspend = "none"

\* Mutant: a process that another CPU runs is not left out.
EligibleAnywhere(p) ==
  /\ proc[p].run /\ p \notin ran /\ proc[p].suspend = "none"

Eligible(p) ==
  /\ proc[p].run /\ ~proc[p].lock /\ p \notin ran
  /\ proc[p].suspend = "none"

SkipProcess(c) ==
  /\ Tested(c) /\ ~Eligible(Visited)
  /\ no_processes_to_run' = (no_processes_to_run /\ Visited \notin ran)
  /\ process_no' = process_no + 1
  /\ pc' = [pc EXCEPT ![c] = "scan"]
  /\ UNCHANGED <<trap, regs, current_pid, idtVars, tabVars, keyboard, version>>

\* The process is locked to this CPU and its registers become the ones to be
\* restored, all but rflags.  The first time, IdtCall then maps the I/O APIC and
\* starts the timers of the APs.
SelectProcess(c) ==
  /\ Tested(c) /\ Eligible(Visited)
  /\ LET p == Visited IN
       /\ ran' = ran \cup {p}
       /\ proc' = [proc EXCEPT ![p] = [@ EXCEPT !.lock = TRUE]]
       /\ current_pid' = [current_pid EXCEPT ![c] = p]
       /\ IdtCallSaved' = [IdtCallSaved EXCEPT !.gp = proc[p].save.gp,
                                               !.cr3 = proc[p].save.cr3]
  /\ IdtFull' = TRUE
  /\ pc' = [pc EXCEPT ![c] = "restore"]
  /\ UNCHANGED <<trap, regs, IdtBusy, IdtCallFrame, processes, last_pid, cycle0,
                 scanVars, keyboard, version>>

EndOfTable(c) == pc[c] = "scan" /\ process_no \notin DOMAIN processes

\* Mutant: the cycle is not increased.
NextCycleSame(c) ==
  /\ EndOfTable(c) /\ ~no_processes_to_run
  /\ process_no' = 1 /\ no_processes_to_run' = TRUE
  /\ UNCHANGED <<cpuVars, idtVars, tabVars, keyboard, version>>

\* DispatcherCycle++ and restart from the first entry.
NextCycle(c) ==
  /\ EndOfTable(c) /\ ~no_processes_to_run
  /\ ran' = {} /\ cycle0' = FALSE
  /\ process_no' = 1 /\ no_processes_to_run' = TRUE
  /\ UNCHANGED <<cpuVars, idtVars, processes, proc, last_pid, keyboard, version>>

NothingToRun(c) ==
  /\ EndOfTable(c) /\ no_processes_to_run
  /\ current_pid' = [current_pid EXCEPT ![c] = 0]
  /\ pc' = [pc EXCEPT ![c] = "wait"]
  /\ UNCHANGED <<trap, regs, idtVars, tabVars, scanVars, keyboard, version>>

-----------------------------------------------------------------------------
(* Interrupt exit: the end of IdtCallManage, or IdtWait.                   *)

RestoreRegisters(c) ==
  /\ pc[c] = "restore"
  /\ regs' = [regs EXCEPT ![c] = IdtCallSaved]
  /\ pc' = [pc EXCEPT ![c] = "release"]
  /\ UNCHANGED <<trap, current_pid, idtVars, tabVars, scanVars, keyboard, version>>

ReleaseAndReturn(c) ==
  /\ pc[c] = "release"
  /\ IdtBusy' = FALSE
  /\ pc' = [pc EXCEPT ![c] = "user"]
  /\ UNCHANGED <<trap, regs, current_pid, IdtCallFrame, IdtCallSaved, IdtFull,
                 tabVars, scanVars, keyboard, version>>

\* Mutant: the CPU waits without giving the lock back.
IdtWaitLocked(c) ==
  /\ pc[c] = "wait"
  /\ pc' = [pc EXCEPT ![c] = "idle"]
  /\ UNCHANGED <<trap, regs, current_pid, idtVars, tabVars, scanVars, keyboard,
                 version>>

IdtWait(c) ==
  /\ pc[c] = "wait"
  /\ IdtBusy' = FALSE
  /\ pc' = [pc EXCEPT ![c] = "idle"]
  /\ UNCHANGED <<trap, regs, current_pid, IdtCallFrame, IdtCallSaved, IdtFull,
                 tabVars, scanVars, keyboard, version>>

-----------------------------------------------------------------------------
KernelFunctions(c) == \/ KernelFunctionExit(c) \/ KernelFunctionSleep(c)
                      \/ KernelFunctionRead(c) \/ KernelFunctionRun(c)
                      \/ KernelFunctionOther(c)

SetUpNext(c) == \/ ReapExited(c) \/ TestSleep(c) \/ TestRead(c)
                \/ TestReadBadFd(c) \/ SkipProcess(c) \/ SelectProcess(c)
                \/ NextCycle(c) \/ NothingToRun(c)

\* The steps of a CPU that holds the lock.
HandlerStep(c) ==
  \/ IdtCallManage(c)
  \/ ExceptionInProcess(c) \/ ExceptionInKernel(c) \/ Spurious(c)
  \/ KeyboardIrq(c) \/ UnhandledIrq(c)
  \/ KernelFunctions(c)
  \/ IdtCallTimer(c) \/ SetUpNext(c)
  \/ RestoreRegisters(c) \/ ReleaseAndReturn(c) \/ IdtWait(c)

Interrupts(c) ==
  \/ TimerInterrupt(c) \/ FunctionInterrupt(c) \/ ProcessFault(c)
  \/ SpuriousInterrupt(c) \/ DeviceInterrupt(c) \/ KernelFault(c)

Next == \E c \in CPUs :
  UserStep(c) \/ Interrupts(c) \/ IdtGetLock(c) \/ HandlerStep(c)

Spec == Init /\ [][Next]_vars

\* A handler that runs on is never interrupted.  The local APIC keeps a timer
\* interrupt pending until the CPU can take it, so a CPU that can take one
\* again and again does.  The lock is a plain xchg loop: that no CPU loses it
\* for ever is an assumption about the bus.
Fairness == \A c \in CPUs :
  WF_vars(HandlerStep(c)) /\ SF_vars(TimerInterrupt(c)) /\ SF_vars(IdtGetLock(c))

FairSpec == Spec /\ Fairness

-----------------------------------------------------------------------------
(* Safety.                                                                 *)

DataSet == [left : Nat, ok : BOOLEAN]
ProcSet == [run : BOOLEAN, lock : BOOLEAN, suspend : Suspends, data : DataSet,
            pending_exit : BOOLEAN, save : RegSet]

\* The type of every variable.
TypeOK ==
  /\ pc \in [CPUs -> PcSet]
  /\ trap \in [CPUs -> [vector : 0..255, cpl : {0, 3}]]
  /\ regs \in [CPUs -> RegSet]
  /\ current_pid \in [CPUs -> Pid0]
  /\ IdtBusy \in BOOLEAN
  /\ IdtCallFrame \in [vector : 0..255, cpl : {0, 3}]
  /\ IdtCallSaved \in RegSet
  /\ IdtFull \in BOOLEAN
  /\ processes \in Seq(Pids)
  /\ proc \in [Pids -> ProcSet]
  /\ last_pid \in Pids
  /\ ran \in SUBSET Pids
  /\ cycle0 \in BOOLEAN
  /\ process_no \in Nat \ {0}
  /\ no_processes_to_run \in BOOLEAN
  /\ keyboard \in Seq(Keys)
  /\ version \in [Pids -> {0, 1}]

\* The index of DispatcherSetUpNext stays in the table, or one past it, although
\* entries are removed during the walk; and an entry that is about to be tested
\* or chosen is one of the table.
WalkInTable ==
  \A c \in CPUs :
    /\ pc[c] = "scan" => process_no \in 1..(Len(processes) + 1)
    /\ pc[c] = "decide" => process_no \in DOMAIN processes

InHandler(c) == pc[c] \in Handler

\* IdtBusy keeps every other CPU out of the kernel: while one CPU is between
\* IdtGetLock and the release of the lock, the lock is taken and no other CPU is
\* there.
MutualExclusion ==
  /\ \A c \in CPUs : InHandler(c) => IdtBusy
  /\ \A c, d \in CPUs : InHandler(c) /\ InHandler(d) => c = d

\* The pids of the table are those of DispatcherFind: none appears twice.
PidsUnique ==
  \A i, j \in DOMAIN processes : processes[i] = processes[j] => i = j

\* The process a CPU runs is in the table (else DispatcherSave and the kernel
\* function call halt the kernel).
CurrentInTable == \A c \in CPUs : current_pid[c] # 0 => InTable(current_pid[c])

\* A process is locked exactly while it is the current process of a CPU, and of
\* one CPU only: the dispatcher never runs a process on two CPUs, and no
\* process is left locked, never to be chosen again.
OneCpuPerProcess ==
  /\ \A c, d \in CPUs :
       current_pid[c] # 0 /\ current_pid[c] = current_pid[d] => c = d
  /\ \A p \in Pids : proc[p].lock <=> \E c \in CPUs : current_pid[c] = p

\* A CPU is in user code only for a process that may run: set up completely,
\* not suspended, not exited.
OnlyRunnableRuns ==
  \A c \in CPUs : LET p == current_pid[c] IN
    /\ pc[c] = "user" => p # 0
    /\ p # 0 => /\ proc[p].run /\ proc[p].suspend = "none"
                /\ ~proc[p].pending_exit

\* A process always finds the general registers as it left them (or as the
\* result of its kernel function) and its own page tables, whatever ran in
\* between on this CPU and on the others, through the one set of IdtCallSaved*
\* variables: those of its running CPU, or its save area while it has none.
ContextIsolation ==
  /\ \A c \in CPUs : LET p == current_pid[c] IN
       pc[c] = "user" => /\ regs[c].gp = <<p, version[p]>>
                         /\ regs[c].cr3 = p
  /\ \A p \in Pids : ~proc[p].lock => proc[p].save.gp = <<p, version[p]>>

-----------------------------------------------------------------------------
(* Action properties.                                                      *)

Ready(p) == /\ InTable(p) /\ proc[p].run /\ ~proc[p].lock
            /\ proc[p].suspend = "none"

\* Round robin: DispatcherCycle is increased only when every process that is
\* ready has had its turn in the cycle, although exited processes are removed
\* from the table while the dispatcher walks it.
CycleServesAll ==
  [][ran # {} /\ ran' = {} /\ processes' = processes =>
       \A p \in Pids : Ready(p) => p \in ran]_vars

\* Kernel code has faulted on c, which waits for the lock that it has itself.
FaultedInHandler(c) ==
  pc[c] = "spin" /\ trap[c] = [vector |-> VectorPageFault, cpl |-> 0]

\* HALT stops the whole machine, and so does an exception of kernel code, whose stub
\* never gets the lock: once a CPU has come to either, no process is created, chosen,
\* woken or removed and no key is queued, by whatever CPU.  So nobody meets the table
\* as a handler has left it half-way.
HaltIsFinal ==
  [][(\E c \in CPUs : pc[c] = "halted" \/ FaultedInHandler(c)) =>
       UNCHANGED <<tabVars, keyboard, current_pid>>]_vars

-----------------------------------------------------------------------------
(* Liveness.                                                               *)

Running(p) == \E c \in CPUs : current_pid[c] = p /\ pc[c] = "user"

\* From some time on no process is created.
CreationEnds == <>[][Len(processes') <= Len(processes)]_vars

\* A process that is ready gets a CPU: nobody is passed over for ever, once
\* processes are no longer created for ever.  (A new process may run in the
\* cycle it is created in, so a chain of processes that each run a successor
\* and exit keeps the cycle from ending.)
ReadyRuns ==
  CreationEnds =>
    \A p \in Pids : Ready(p) ~> (Running(p) \/ ~InTable(p))

\* A process that has called exit is removed from the table.
ExitedIsReaped ==
  \A p \in Pids : proc[p].pending_exit ~> ~InTable(p)

\* A sleep whose deadline did not overflow ends.
SleepersWake ==
  \A p \in Pids :
    (proc[p].suspend = "sleep" /\ proc[p].data.ok) ~> proc[p].suspend # "sleep"

-----------------------------------------------------------------------------
(* What documents and messages of the code say.                            *)

\* rflags is saved in DispatcherSave with the other registers, and "Restore
\* registers" of DispatcherSetUpNext gives the process its registers back.
FlagsRestored ==
  \A c \in CPUs : LET p == current_pid[c] IN
    pc[c] = "restore" /\ proc[p].save.rflags = p => IdtCallSaved.rflags = p
=============================================================================
