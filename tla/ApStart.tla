------------------------------ MODULE ApStart -------------------------------
(***************************************************************************)
(* How the BSP starts the other processors (APs): once while it parses the *)
(* ACPI tables (ApicLocalParseAcpi), and once more when its first timer    *)
(* interrupt arrives and the APs get their own timers                      *)
(* (ApicLocalStartInterruptsOnAPs).  Both times the BSP resets ApInitDone, *)
(* sends an interprocessor interrupt, and waits a bounded time for the AP  *)
(* to write the variable.                                                  *)
(*                                                                         *)
(* What the APs share is the reason to start them one by one: TssLast,     *)
(* ApStartStack, on which an AP runs until Idt242 gives it a stack of its  *)
(* own, and the kernel's heap, which Idt242 uses without the kernel lock.  *)
(*                                                                         *)
(* The waiting loops count to 0xFFFFFF.  Nothing bounds the time an AP     *)
(* takes, so a loop may end at any moment.                                 *)
(***************************************************************************)
EXTENDS Integers, Sequences, FiniteSets

CONSTANTS
  Bsp,
  APs,      \* the processors whose MADT entry is enabled, without the BSP
  Disabled, \* those whose entry is not
  Madt,     \* the local APIC entries of the MADT, in order
  MaxTss,   \* 255 in the code
  None      \* no processor

ASSUME ProcessorsAssumption ==
  /\ IsFiniteSet(APs) /\ None \notin APs \cup {Bsp}
  /\ Bsp \notin APs /\ Disabled \cap (APs \cup {Bsp}) = {}
  /\ Madt \in Seq(APs \cup Disabled \cup {Bsp})
  /\ \A i, j \in DOMAIN Madt : Madt[i] = Madt[j] => i = j
  /\ \E i \in DOMAIN Madt : Madt[i] = Bsp
ASSUME TssAssumption == MaxTss \in Nat /\ Len(Madt) <= MaxTss

CPUs == APs \cup {Bsp}

VARIABLES
  bsp,            \* where the BSP is
  at,             \* its index in the MADT, later in DispatcherCpus
  retry,          \* local of ApicLocalParseAcpi
  ap,             \* where each AP is
  ipi,            \* the APs with interrupt 242 pending
  ApInitDone,
  DispatcherCpus,
  ApicLocalBspId,
  TssTotal,
  TssLast,        \* the TSS a starting AP loads: 0 is that of the BSP
  tr,             \* the TSS each AP has loaded
  IdtBusy,        \* the processor that holds the kernel lock
  late            \* history: the APs for whose second answer the BSP did not wait

bootVars == <<retry, TssTotal, TssLast, DispatcherCpus>>
apVars   == <<tr, ApicLocalBspId>>
vars == <<bsp, at, ap, ipi, ApInitDone, IdtBusy, late, bootVars, apVars>>

BspSteps == {"parse", "tss", "start", "wait", "boot",
             "interrupts", "wait_1", "wait_2", "running", "halted"}
ApSteps  == {"off", "wait_sipi", "prepare", "apic", "answer", "hlt",
             "new_stack", "answer_1", "answer_2", "running", "halted"}

Init ==
  /\ bsp = "parse" /\ at = 1 /\ retry = 0
  /\ ap = [c \in APs |-> "off"]
  /\ ipi = {}
  /\ ApInitDone = 0
  /\ DispatcherCpus = <<Bsp>>
  /\ ApicLocalBspId = Bsp
  /\ TssTotal = 1 /\ TssLast = 0
  /\ tr = [c \in APs |-> 0]
  /\ IdtBusy = None
  /\ late = {}

-----------------------------------------------------------------------------
\* The BSP parses the ACPI tables.

NextEntry == bsp' = "parse" /\ at' = at + 1

\* Mutant: the loop of AcpiParseAPIC reads one entry too many.
SkipEntryPastEnd ==
  /\ bsp = "parse" /\ at <= Len(Madt) + 1
  /\ at = Len(Madt) + 1 \/ Madt[at] \notin APs
  /\ NextEntry
  /\ UNCHANGED <<ap, ipi, ApInitDone, IdtBusy, late, bootVars, apVars>>

\* An entry that is the BSP's own, or not enabled: nothing is started.
SkipEntry ==
  /\ bsp = "parse" /\ at <= Len(Madt)
  /\ Madt[at] \notin APs
  /\ NextEntry
  /\ UNCHANGED <<ap, ipi, ApInitDone, IdtBusy, late, bootVars, apVars>>

\* Mutant: the answer of the AP before is not reset.
AddApKeepsAnswer ==
  /\ bsp = "parse" /\ at <= Len(Madt)
  /\ Madt[at] \in APs
  /\ DispatcherCpus' = Append(DispatcherCpus, Madt[at])
  /\ ap' = [ap EXCEPT ![Madt[at]] = "wait_sipi"]
  /\ retry' = 0
  /\ bsp' = "tss"
  /\ UNCHANGED <<at, ipi, ApInitDone, IdtBusy, late, TssTotal, TssLast, apVars>>

\* The AP gets its entry in DispatcherCpus and an INIT.
AddAp ==
  /\ bsp = "parse" /\ at <= Len(Madt)
  /\ Madt[at] \in APs
  /\ DispatcherCpus' = Append(DispatcherCpus, Madt[at])
  /\ ApInitDone' = 0
  /\ ap' = [ap EXCEPT ![Madt[at]] = "wait_sipi"]
  /\ retry' = 0
  /\ bsp' = "tss"
  /\ UNCHANGED <<at, ipi, IdtBusy, late, TssTotal, TssLast, apVars>>

\* Mutant: TssTotal is not incremented.
TssNewSameEntry ==
  /\ bsp = "tss"
  /\ TssTotal < MaxTss
  /\ TssLast' = TssTotal /\ UNCHANGED TssTotal
  /\ bsp' = "start"
  /\ UNCHANGED <<at, ap, ipi, ApInitDone, IdtBusy, late, retry,
                 DispatcherCpus, apVars>>

\* TssNew; its caller does not look at the result.
TssNew ==
  /\ bsp = "tss"
  /\ IF TssTotal >= MaxTss
     THEN UNCHANGED <<TssTotal, TssLast>>
     ELSE TssLast' = TssTotal /\ TssTotal' = TssTotal + 1
  /\ bsp' = "start"
  /\ UNCHANGED <<at, ap, ipi, ApInitDone, IdtBusy, late, retry,
                 DispatcherCpus, apVars>>

\* The SIPI: the AP starts, unless it was not ready to accept it.  An AP that
\* runs ignores it.
SendSipi ==
  /\ bsp = "start" /\ ApInitDone = 0
  /\ bsp' = "wait"
  /\ \/ ap[Madt[at]] = "wait_sipi" /\ ap' = [ap EXCEPT ![Madt[at]] = "prepare"]
     \/ UNCHANGED ap
  /\ UNCHANGED <<at, ipi, ApInitDone, IdtBusy, late, bootVars, apVars>>

\* Mutant: after the retry the BSP goes on as if the AP were up.
WaitEndsGoesOn ==
  /\ bsp = "wait"
  /\ IF retry = 1
     THEN NextEntry /\ UNCHANGED retry
     ELSE bsp' = "start" /\ retry' = 1 /\ UNCHANGED at
  /\ UNCHANGED <<ap, ipi, ApInitDone, IdtBusy, late,
                 TssTotal, TssLast, DispatcherCpus, apVars>>

\* The AP has answered or the loop has ended.  The second time this is the
\* end: AcpiParse fails and Main halts, even if the AP has answered.
WaitEnds ==
  /\ bsp = "wait"
  /\ IF retry = 1
     THEN bsp' = "halted" /\ UNCHANGED retry
     ELSE bsp' = "start" /\ retry' = 1
  /\ UNCHANGED <<at, ap, ipi, ApInitDone, IdtBusy, late,
                 TssTotal, TssLast, DispatcherCpus, apVars>>

Started ==
  /\ bsp = "start" /\ ApInitDone # 0
  /\ NextEntry
  /\ UNCHANGED <<ap, ipi, ApInitDone, IdtBusy, late, bootVars, apVars>>

\* The rest of Main, up to its last loop.
MainDone ==
  /\ bsp = "parse" /\ at > Len(Madt)
  /\ bsp' = "boot"
  /\ UNCHANGED <<at, ap, ipi, ApInitDone, IdtBusy, late, bootVars, apVars>>

-----------------------------------------------------------------------------
\* The first timer interrupt of the BSP, which finds IdtFull still 0.  It holds
\* the kernel lock to the end of ApicLocalStartInterruptsOnAPs, so every later
\* one, on whatever processor, finds it 1.

FirstTick ==
  /\ bsp = "boot" /\ IdtBusy = None
  /\ IdtBusy' = Bsp
  /\ bsp' = "interrupts" /\ at' = 1
  /\ UNCHANGED <<ap, ipi, ApInitDone, late, bootVars, apVars>>

NextCpu == bsp' = "interrupts" /\ at' = at + 1

SkipBsp ==
  /\ bsp = "interrupts" /\ at <= Len(DispatcherCpus)
  /\ DispatcherCpus[at] = Bsp
  /\ NextCpu
  /\ UNCHANGED <<ap, ipi, ApInitDone, IdtBusy, late, bootVars, apVars>>

SendInterrupt ==
  /\ bsp = "interrupts" /\ at <= Len(DispatcherCpus)
  /\ DispatcherCpus[at] # Bsp
  /\ ApInitDone' = 0
  /\ ipi' = ipi \cup {DispatcherCpus[at]}
  /\ bsp' = "wait_1"
  /\ UNCHANGED <<at, ap, IdtBusy, late, bootVars, apVars>>

Wait1 ==
  /\ bsp = "wait_1"
  /\ bsp' = IF ApInitDone = 0 THEN "halted" ELSE "wait_2"
  /\ UNCHANGED <<at, ap, ipi, ApInitDone, IdtBusy, late, bootVars, apVars>>

\* The second wait goes on after the time, whatever the AP has done.
Wait2 ==
  /\ bsp = "wait_2"
  /\ late' = IF ApInitDone = 1 THEN late \cup {DispatcherCpus[at]} ELSE late
  /\ NextCpu
  /\ UNCHANGED <<ap, ipi, ApInitDone, IdtBusy, bootVars, apVars>>

\* Mutant: the last entry of DispatcherCpus is left out.
StartInterruptsDoneEarly ==
  /\ bsp = "interrupts" /\ at >= Len(DispatcherCpus)
  /\ IdtBusy' = None
  /\ bsp' = "running"
  /\ UNCHANGED <<at, ap, ipi, ApInitDone, late, bootVars, apVars>>

StartInterruptsDone ==
  /\ bsp = "interrupts" /\ at > Len(DispatcherCpus)
  /\ IdtBusy' = None
  /\ bsp' = "running"
  /\ UNCHANGED <<at, ap, ipi, ApInitDone, late, bootVars, apVars>>

-----------------------------------------------------------------------------
\* The APs.

ApStep(c, from, to) == ap[c] = from /\ ap' = [ap EXCEPT ![c] = to]

\* ApStartPrepare: ltr [TssLast].
ApStartPrepare(c) ==
  /\ ApStep(c, "prepare", "apic")
  /\ tr' = [tr EXCEPT ![c] = TssLast]
  /\ UNCHANGED <<bsp, at, ipi, ApInitDone, IdtBusy, late, bootVars,
                 ApicLocalBspId>>

\* CpuChecks and CpuApic halt an AP they cannot use.
ApicLocalInit(c) ==
  /\ \/ ApStep(c, "apic", "answer") /\ ApicLocalBspId' = c
     \/ ApStep(c, "apic", "halted") /\ UNCHANGED ApicLocalBspId
  /\ UNCHANGED <<bsp, at, ipi, ApInitDone, IdtBusy, late, bootVars, tr>>

ApStartAnswers(c) ==
  /\ ApStep(c, "answer", "hlt")
  /\ ApInitDone' = 1
  /\ UNCHANGED <<bsp, at, ipi, IdtBusy, late, bootVars, apVars>>

\* Mutant: the AP answers before it has its stack.
Idt242AnswersFirst(c) ==
  /\ c \in ipi
  /\ ApStep(c, "hlt", "new_stack")
  /\ ipi' = ipi \ {c}
  /\ ApInitDone' = 2
  /\ UNCHANGED <<bsp, at, IdtBusy, late, bootVars, apVars>>

\* Idt242 arrives at an AP that waits in ApStart, and ApStartNewStack starts.
Idt242(c) ==
  /\ c \in ipi
  /\ ApStep(c, "hlt", "new_stack")
  /\ ipi' = ipi \ {c}
  /\ UNCHANGED <<bsp, at, ApInitDone, IdtBusy, late, bootVars, apVars>>

\* malloc_align has returned and the AP has left ApStartStack.
ApStartNewStack(c) ==
  /\ ApStep(c, "new_stack", "answer_1")
  /\ UNCHANGED <<bsp, at, ipi, ApInitDone, IdtBusy, late, bootVars, apVars>>

\* The timer runs; sti takes effect only after the next instruction, the
\* second answer.
ApAnswers1(c) ==
  /\ ApStep(c, "answer_1", "answer_2")
  /\ ApInitDone' = 1
  /\ UNCHANGED <<bsp, at, ipi, IdtBusy, late, bootVars, apVars>>

ApAnswers2(c) ==
  /\ ApStep(c, "answer_2", "running")
  /\ ApInitDone' = 2
  /\ UNCHANGED <<bsp, at, ipi, IdtBusy, late, bootVars, apVars>>

-----------------------------------------------------------------------------
\* Timer interrupts once the processor runs: the handlers of Dispatcher.

Running(c) == IF c = Bsp THEN bsp = "running" ELSE ap[c] = "running"

EnterHandler(c) ==
  /\ Running(c) /\ IdtBusy = None
  /\ IdtBusy' = c
  /\ UNCHANGED <<bsp, at, ap, ipi, ApInitDone, late, bootVars, apVars>>

LeaveHandler(c) ==
  /\ Running(c) /\ IdtBusy = c
  /\ IdtBusy' = None
  /\ UNCHANGED <<bsp, at, ap, ipi, ApInitDone, late, bootVars, apVars>>

BspNext ==
  \/ SkipEntry \/ AddAp \/ TssNew \/ SendSipi \/ WaitEnds \/ Started \/ MainDone
  \/ FirstTick \/ SkipBsp \/ SendInterrupt \/ Wait1 \/ Wait2 \/ StartInterruptsDone

ApNext(c) ==
  \/ ApStartPrepare(c) \/ ApicLocalInit(c) \/ ApStartAnswers(c)
  \/ Idt242(c) \/ ApStartNewStack(c) \/ ApAnswers1(c) \/ ApAnswers2(c)

Next ==
  \/ BspNext
  \/ \E c \in APs : ApNext(c)
  \/ \E c \in CPUs : EnterHandler(c) \/ LeaveHandler(c)

Spec     == Init /\ [][Next]_vars
FairSpec == Spec /\ WF_vars(BspNext) /\ \A c \in APs : WF_vars(ApNext(c))

-----------------------------------------------------------------------------
\* Properties.

Booting     == {"parse", "tss", "start", "wait"}
ColdStart   == {"prepare", "apic", "answer"}
StackUsers  == {c \in APs : ap[c] \in ColdStart \cup {"new_stack"}}
\* In the loop of ApicLocalStartInterruptsOnAPs the BSP holds the lock but
\* does not touch the heap.
HeapUsers   == {c \in APs : ap[c] = "new_stack"}
                 \cup {c \in CPUs : Running(c) /\ IdtBusy = c}

\* Every variable stays in its domain: the indices in their tables (or one
\* past them), ApInitDone among its three values.
TypeOK ==
  /\ bsp \in BspSteps /\ retry \in 0..1
  /\ at \in 1..(1 + IF bsp \in Booting \cup {"boot"} THEN Len(Madt) ELSE
                    IF bsp = "halted" THEN Len(Madt) + Len(DispatcherCpus)
                    ELSE Len(DispatcherCpus))
  /\ ap \in [APs -> ApSteps]
  /\ ipi \subseteq APs
  /\ ApInitDone \in 0..2
  /\ DispatcherCpus \in Seq(CPUs)
  /\ ApicLocalBspId \in CPUs
  /\ TssTotal \in 1..MaxTss /\ TssLast \in 0..(MaxTss - 1)
  /\ tr \in [APs -> 0..(MaxTss - 1)]
  /\ IdtBusy \in CPUs \cup {None}
  /\ late \subseteq APs

\* A processor's task register selects the stack of its interrupts (IdtWait
\* reads it back with str): no two processors have loaded the same TSS, and no
\* AP that of the BSP, although all of them load [TssLast] at a moment of their
\* own choice.
OwnTss ==
  /\ \A c \in APs : ap[c] \notin {"off", "wait_sipi", "prepare"} => tr[c] # 0
  /\ \A c, d \in APs : c # d /\ tr[c] # 0 => tr[c] # tr[d]

\* Main goes on past AcpiParse only when every AP that was added to
\* DispatcherCpus waits in ApStart: ApicLocalStartInterruptsOnAPs and the
\* dispatcher take every entry of the table for a processor that runs.
AllApsAnswered ==
  bsp \notin Booting \cup {"halted"} =>
    \A i \in DOMAIN DispatcherCpus :
      DispatcherCpus[i] # Bsp =>
        ap[DispatcherCpus[i]] \notin {"off", "wait_sipi", "halted"} \cup ColdStart

\* ApStartStack has one user at a time, and one more for each second answer that came
\* after its time.  (A late one is taken for the answer of the next AP, which is then
\* left behind in its place.)
StartStackAlone == Cardinality(StackUsers) <= 1 + Cardinality(late)

\* Likewise the kernel's heap, which an AP uses without the kernel lock: no
\* other AP and no handler is in it, but for as many as second answers were late.
HeapAlone == Cardinality(HeapUsers) <= 1 + Cardinality(late)

\* Ticks are counted by the processor whose id is in ApicLocalBspId, the last
\* AP that was started: unless the system halts, that processor takes timer
\* interrupts in the end, like every other one of DispatcherCpus.
TimersRun ==
  <>[](\/ bsp = "halted"
       \/ /\ Running(ApicLocalBspId)
          /\ \A i \in DOMAIN DispatcherCpus : Running(DispatcherCpus[i]))
=============================================================================
