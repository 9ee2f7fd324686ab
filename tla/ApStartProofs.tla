--------------------------- MODULE ApStartProofs ----------------------------
(***************************************************************************)
(* That the processors are started one by one: proofs for every machine.   *)
(***************************************************************************)
EXTENDS ApStart, FiniteSetTheorems, TLAPS

Starting == {"wait_sipi"} \cup ColdStart
Answering == {"new_stack", "answer_1", "answer_2"}
Waiting  == {"tss", "start", "wait"}

Types ==
  /\ bsp \in BspSteps /\ at \in Nat \ {0}
  /\ ap \in [APs -> ApSteps]
  /\ ipi \subseteq APs
  /\ ApInitDone \in 0..2
  /\ DispatcherCpus \in Seq(CPUs)
  /\ TssTotal \in Nat \ {0} /\ TssLast \in Nat
  /\ tr \in [APs -> Nat]
  /\ late \subseteq APs

\* While the MADT is parsed, only the AP of the entry at hand can be in its
\* start, and the entries that follow have not been touched.
InMadt ==
  /\ bsp \in Waiting => at \in DOMAIN Madt /\ Madt[at] \in APs
  /\ bsp \in Waiting => ap[Madt[at]] \in Starting \cup {"hlt", "halted"}
  /\ bsp = "tss" => ap[Madt[at]] = "wait_sipi" /\ ApInitDone = 0
  /\ bsp \in {"start", "wait"} /\ ApInitDone # 0 => ap[Madt[at]] = "hlt"
  /\ \A c \in APs : ap[c] \in Starting \cup {"halted"} =>
       bsp \in Waiting \cup {"halted"} /\ at \in DOMAIN Madt /\ Madt[at] = c
  /\ \A c \in APs : ap[c] \in Starting => ipi = {}
       /\ \A d \in APs : ap[d] \notin Answering \cup {"running"}
  /\ bsp \in Booting =>
       /\ ipi = {}
       /\ \A c \in APs : ap[c] \notin Answering \cup {"running"}
       /\ \A i \in DOMAIN Madt : Madt[i] \in APs
            /\ (i > at \/ (i = at /\ bsp = "parse")) => ap[Madt[i]] = "off"

\* DispatcherCpus holds the APs that were added, each once.
InTable ==
  /\ \A i \in DOMAIN DispatcherCpus :
       DispatcherCpus[i] \in APs => ap[DispatcherCpus[i]] # "off"
  /\ \A i, j \in DOMAIN DispatcherCpus :
       DispatcherCpus[i] = DispatcherCpus[j] => i = j

\* A TSS is used once: TssLast is new as long as the AP at hand has not
\* loaded it.
TssNewer ==
  /\ TssLast < TssTotal
  /\ \A c \in APs : tr[c] < TssTotal
  /\ \A c \in APs : ap[c] \in {"off", "wait_sipi", "prepare"} <=> tr[c] = 0
  /\ \A c \in APs : ap[c] \in {"wait_sipi", "prepare"} /\ bsp # "tss" =>
       TssLast # 0 /\ \A d \in APs : tr[d] # TssLast
  /\ bsp \in {"parse", "tss"} => TssTotal <= at
  /\ bsp \in {"parse", "tss"} => \A i \in DOMAIN Madt :
       Madt[i] = Bsp /\ i < at => TssTotal < at
  /\ bsp \in {"start", "wait"} => TssTotal <= at + 1
  /\ bsp \in {"start", "wait"} => \A i \in DOMAIN Madt :
       Madt[i] = Bsp /\ i < at => TssTotal <= at
  /\ \A c, d \in APs : c # d /\ tr[c] # 0 => tr[c] # tr[d]

\* While the interrupts of the APs are started, and as long as no second answer was late,
\* only the AP at hand is outside of its halt loops, and its second answer means that it
\* is done.
InInterrupts ==
  /\ bsp \in {"wait_1", "wait_2"} =>
       at \in DOMAIN DispatcherCpus /\ DispatcherCpus[at] \in APs
  /\ late = {} => \A c \in APs : ap[c] \in Answering \/ c \in ipi =>
       /\ bsp \in {"wait_1", "wait_2", "halted"}
       /\ at \in DOMAIN DispatcherCpus /\ DispatcherCpus[at] = c
  /\ \A c \in ipi : ap[c] = "hlt"
  /\ bsp \in {"boot", "interrupts", "wait_1", "wait_2"} =>
       \A i \in DOMAIN DispatcherCpus : DispatcherCpus[i] \in APs
         /\ (bsp = "boot" \/ i > at \/ (i = at /\ bsp = "interrupts")) =>
         ap[DispatcherCpus[i]] = "hlt" /\ DispatcherCpus[i] \notin ipi
  /\ bsp = "wait_2" /\ late = {} => ApInitDone # 0
  /\ bsp \in {"wait_1", "wait_2"} /\ late = {} /\ ApInitDone = 2 =>
       ap[DispatcherCpus[at]] = "running"
  /\ bsp \in {"wait_1", "wait_2"} /\ late = {} /\ ApInitDone = 1 =>
       ap[DispatcherCpus[at]] \in {"answer_2", "running"}

\* The kernel lock is the BSP's as long as an AP may be in ApStartNewStack.
Locked ==
  /\ bsp \in {"interrupts", "wait_1", "wait_2"} => IdtBusy = Bsp
  /\ bsp \in Booting \cup {"boot"} => IdtBusy = None
  /\ (\E c \in APs : c \in ipi \/ ap[c] \in Answering \cup {"running"}) =>
       bsp = "running" \/ IdtBusy = Bsp

IInv == Types /\ InMadt /\ InTable /\ TssNewer /\ InInterrupts /\ Locked

-----------------------------------------------------------------------------
USE ProcessorsAssumption, TssAssumption

LEMMA InitIInv == Init => IInv
BY DEF Init, IInv, Types, InMadt, InTable, TssNewer, InInterrupts, Locked,
       BspSteps, ApSteps, Starting, ColdStart, Answering, Waiting, Booting, bootVars, apVars, CPUs

LEMMA NextIInv == IInv /\ [Next]_vars => IInv'
<1> SUFFICES ASSUME IInv, [Next]_vars PROVE IInv'
  OBVIOUS
<1> USE DEF IInv, Starting, ColdStart, Answering, Waiting, Booting, bootVars,
      apVars, CPUs
<1>1. ASSUME SkipEntry PROVE IInv'
  <2>1. Types'
    BY <1>1 DEF SkipEntry, NextEntry, Types, BspSteps, ApSteps
  <2>2. InMadt'
    BY <1>1 DEF SkipEntry, NextEntry, Types, InMadt
  <2>3. InTable'
    BY <1>1 DEF SkipEntry, NextEntry, Types, InMadt, InTable
  <2>4. TssNewer'
    BY <1>1 DEF SkipEntry, NextEntry, Types, InMadt, TssNewer
  <2>5. InInterrupts'
    BY <1>1 DEF SkipEntry, NextEntry, Types, InMadt, InTable, InInterrupts
  <2>6. Locked'
    BY <1>1 DEF SkipEntry, NextEntry, Types, InMadt, InInterrupts, Locked
  <2> QED BY <2>1, <2>2, <2>3, <2>4, <2>5, <2>6
<1>2. ASSUME AddAp PROVE IInv'
  <2>1. Types'
    BY <1>2 DEF AddAp, Types, BspSteps, ApSteps
  <2>2. InMadt'
    BY <1>2 DEF AddAp, Types, InMadt
  <2>3. InTable'
    BY SMTT(30), <1>2 DEF AddAp, Types, InMadt, InTable
  <2>4. TssNewer'
    BY <1>2 DEF AddAp, Types, InMadt, TssNewer
  <2>5. InInterrupts'
    BY <1>2 DEF AddAp, Types, InMadt, InTable, InInterrupts
  <2>6. Locked'
    BY <1>2 DEF AddAp, Types, InMadt, InInterrupts, Locked
  <2> QED BY <2>1, <2>2, <2>3, <2>4, <2>5, <2>6
<1>3. ASSUME TssNew PROVE IInv'
  <2>1. Types'
    BY <1>3 DEF TssNew, Types, BspSteps, ApSteps
  <2>2. InMadt'
    BY <1>3 DEF TssNew, Types, InMadt
  <2>3. InTable'
    BY <1>3 DEF TssNew, Types, InMadt, InTable
  <2>4. TssNewer'
    BY <1>3 DEF TssNew, Types, InMadt, TssNewer
  <2>5. InInterrupts'
    BY <1>3 DEF TssNew, Types, InMadt, InTable, InInterrupts
  <2>6. Locked'
    BY <1>3 DEF TssNew, Types, InMadt, InInterrupts, Locked
  <2> QED BY <2>1, <2>2, <2>3, <2>4, <2>5, <2>6
<1>4. ASSUME SendSipi PROVE IInv'
  <2>1. Types'
    BY <1>4 DEF SendSipi, Types, BspSteps, ApSteps
  <2>2. InMadt'
    BY <1>4 DEF SendSipi, Types, InMadt
  <2>3. InTable'
    BY <1>4 DEF SendSipi, Types, InMadt, InTable
  <2>4. TssNewer'
    BY <1>4 DEF SendSipi, Types, InMadt, TssNewer
  <2>5. InInterrupts'
    BY <1>4 DEF SendSipi, Types, InMadt, InTable, InInterrupts
  <2>6. Locked'
    BY <1>4 DEF SendSipi, Types, InMadt, InInterrupts, Locked
  <2> QED BY <2>1, <2>2, <2>3, <2>4, <2>5, <2>6
<1>5. ASSUME WaitEnds PROVE IInv'
  <2>1. Types'
    BY <1>5 DEF WaitEnds, Types, BspSteps, ApSteps
  <2>2. InMadt'
    BY <1>5 DEF WaitEnds, Types, InMadt
  <2>3. InTable'
    BY <1>5 DEF WaitEnds, Types, InMadt, InTable
  <2>4. TssNewer'
    BY <1>5 DEF WaitEnds, Types, InMadt, TssNewer
  <2>5. InInterrupts'
    BY <1>5 DEF WaitEnds, Types, InMadt, InTable, InInterrupts
  <2>6. Locked'
    BY <1>5 DEF WaitEnds, Types, InMadt, InInterrupts, Locked
  <2> QED BY <2>1, <2>2, <2>3, <2>4, <2>5, <2>6
<1>6. ASSUME Started PROVE IInv'
  <2>1. Types'
    BY <1>6 DEF Started, NextEntry, Types, BspSteps, ApSteps
  <2>2. InMadt'
    BY <1>6 DEF Started, NextEntry, Types, InMadt
  <2>3. InTable'
    BY <1>6 DEF Started, NextEntry, Types, InMadt, InTable
  <2>4. TssNewer'
    BY <1>6 DEF Started, NextEntry, Types, InMadt, TssNewer
  <2>5. InInterrupts'
    BY <1>6 DEF Started, NextEntry, Types, InMadt, InTable, InInterrupts
  <2>6. Locked'
    BY <1>6 DEF Started, NextEntry, Types, InMadt, InInterrupts, Locked
  <2> QED BY <2>1, <2>2, <2>3, <2>4, <2>5, <2>6
<1>7. ASSUME MainDone PROVE IInv'
  <2>1. Types'
    BY <1>7 DEF MainDone, Types, BspSteps, ApSteps
  <2>2. InMadt'
    BY <1>7 DEF MainDone, Types, InMadt
  <2>3. InTable'
    BY <1>7 DEF MainDone, Types, InMadt, InTable
  <2>4. TssNewer'
    BY <1>7 DEF MainDone, Types, InMadt, TssNewer
  <2>5. InInterrupts'
    BY <1>7 DEF MainDone, Types, ApSteps, InMadt, InTable, InInterrupts
  <2>6. Locked'
    BY <1>7 DEF MainDone, Types, InMadt, InInterrupts, Locked
  <2> QED BY <2>1, <2>2, <2>3, <2>4, <2>5, <2>6
<1>8. ASSUME FirstTick PROVE IInv'
  <2>1. Types'
    BY <1>8 DEF FirstTick, Types, BspSteps, ApSteps
  <2>2. InMadt'
    BY <1>8 DEF FirstTick, Types, InMadt
  <2>3. InTable'
    BY <1>8 DEF FirstTick, Types, InMadt, InTable
  <2>4. TssNewer'
    BY <1>8 DEF FirstTick, Types, InMadt, TssNewer
  <2>5. InInterrupts'
    BY <1>8 DEF FirstTick, Types, InMadt, InTable, InInterrupts
  <2>6. Locked'
    BY <1>8 DEF FirstTick, Types, InMadt, InInterrupts, Locked
  <2> QED BY <2>1, <2>2, <2>3, <2>4, <2>5, <2>6
<1>9. ASSUME SkipBsp PROVE IInv'
  <2>1. Types'
    BY <1>9 DEF SkipBsp, NextCpu, Types, BspSteps, ApSteps
  <2>2. InMadt'
    BY <1>9 DEF SkipBsp, NextCpu, Types, InMadt
  <2>3. InTable'
    BY <1>9 DEF SkipBsp, NextCpu, Types, InMadt, InTable
  <2>4. TssNewer'
    BY <1>9 DEF SkipBsp, NextCpu, Types, InMadt, TssNewer
  <2>5. InInterrupts'
    BY <1>9 DEF SkipBsp, NextCpu, Types, InMadt, InTable, InInterrupts
  <2>6. Locked'
    BY <1>9 DEF SkipBsp, NextCpu, Types, InMadt, InInterrupts, Locked
  <2> QED BY <2>1, <2>2, <2>3, <2>4, <2>5, <2>6
<1>10. ASSUME SendInterrupt PROVE IInv'
  <2>1. Types'
    BY <1>10 DEF SendInterrupt, Types, BspSteps, ApSteps
  <2>2. InMadt'
    BY <1>10 DEF SendInterrupt, Types, InMadt
  <2>3. InTable'
    BY <1>10 DEF SendInterrupt, Types, InMadt, InTable
  <2>4. TssNewer'
    BY <1>10 DEF SendInterrupt, Types, InMadt, TssNewer
  <2>5. InInterrupts'
    BY <1>10 DEF SendInterrupt, Types, InMadt, InTable, InInterrupts
  <2>6. Locked'
    BY <1>10 DEF SendInterrupt, Types, InMadt, InInterrupts, Locked
  <2> QED BY <2>1, <2>2, <2>3, <2>4, <2>5, <2>6
<1>11. ASSUME Wait1 PROVE IInv'
  <2>1. Types'
    BY <1>11 DEF Wait1, Types, BspSteps, ApSteps
  <2>2. InMadt'
    BY <1>11 DEF Wait1, Types, InMadt
  <2>3. InTable'
    BY <1>11 DEF Wait1, Types, InMadt, InTable
  <2>4. TssNewer'
    BY <1>11 DEF Wait1, Types, InMadt, TssNewer
  <2>5. InInterrupts'
    BY <1>11 DEF Wait1, Types, InMadt, InTable, InInterrupts
  <2>6. Locked'
    BY <1>11 DEF Wait1, Types, InMadt, InInterrupts, Locked
  <2> QED BY <2>1, <2>2, <2>3, <2>4, <2>5, <2>6
<1>12. ASSUME Wait2 PROVE IInv'
  <2>1. Types'
    BY <1>12 DEF Wait2, NextCpu, Types, BspSteps, InInterrupts
  <2>2. InMadt'
    BY <1>12 DEF Wait2, NextCpu, Types, InMadt
  <2>3. InTable'
    BY <1>12 DEF Wait2, NextCpu, Types, InMadt, InTable
  <2>4. TssNewer'
    BY <1>12 DEF Wait2, NextCpu, Types, InMadt, TssNewer
  <2>5. InInterrupts'
    <3>1. bsp = "wait_2" /\ bsp' = "interrupts" /\ at' = at + 1 /\ at \in Nat
      BY <1>12 DEF Wait2, NextCpu, Types
    <3>2. UNCHANGED <<ap, ipi, ApInitDone, DispatcherCpus>>
      BY <1>12 DEF Wait2
    <3>3. ASSUME late' = {}
          PROVE  \A c \in APs : ap[c] \notin Answering /\ c \notin ipi
      <4>1. late = {} /\ ApInitDone = 2
        <5>1. ApInitDone # 1
          BY <1>12, <3>3 DEF Wait2
        <5> QED BY <1>12, <3>3, <5>1 DEF Wait2, Types, InInterrupts
      <4>2. ap[DispatcherCpus[at]] = "running"
        BY <3>1, <4>1 DEF InInterrupts
      <4> QED BY <4>1, <4>2 DEF InInterrupts
    <3> QED BY <3>1, <3>2, <3>3 DEF InInterrupts
  <2>6. Locked'
    BY <1>12 DEF Wait2, NextCpu, Types, InMadt, InInterrupts, Locked
  <2> QED BY <2>1, <2>2, <2>3, <2>4, <2>5, <2>6
<1>13. ASSUME StartInterruptsDone PROVE IInv'
  <2>1. Types'
    BY <1>13 DEF StartInterruptsDone, Types, BspSteps, ApSteps
  <2>2. InMadt'
    BY <1>13 DEF StartInterruptsDone, Types, InMadt
  <2>3. InTable'
    BY <1>13 DEF StartInterruptsDone, Types, InMadt, InTable
  <2>4. TssNewer'
    BY <1>13 DEF StartInterruptsDone, Types, InMadt, TssNewer
  <2>5. InInterrupts'
    BY <1>13 DEF StartInterruptsDone, Types, InMadt, InTable, InInterrupts
  <2>6. Locked'
    BY <1>13 DEF StartInterruptsDone, Types, InMadt, InInterrupts, Locked
  <2> QED BY <2>1, <2>2, <2>3, <2>4, <2>5, <2>6
<1>14. ASSUME NEW c \in APs, ApStartPrepare(c) PROVE IInv'
  <2>1. Types'
    BY <1>14 DEF ApStartPrepare, ApStep, Types, BspSteps, ApSteps
  <2>2. InMadt'
    BY <1>14 DEF ApStartPrepare, ApStep, Types, InMadt
  <2>3. InTable'
    BY <1>14 DEF ApStartPrepare, ApStep, Types, InMadt, InTable
  <2>4. TssNewer'
    BY <1>14 DEF ApStartPrepare, ApStep, Types, InMadt, TssNewer
  <2>5. InInterrupts'
    BY <1>14 DEF ApStartPrepare, ApStep, Types, InMadt, InTable, InInterrupts
  <2>6. Locked'
    BY <1>14 DEF ApStartPrepare, ApStep, Types, InMadt, InInterrupts, Locked
  <2> QED BY <2>1, <2>2, <2>3, <2>4, <2>5, <2>6
<1>15. ASSUME NEW c \in APs, ApicLocalInit(c) PROVE IInv'
  <2>1. Types'
    BY <1>15 DEF ApicLocalInit, ApStep, Types, BspSteps, ApSteps
  <2>2. InMadt'
    BY <1>15 DEF ApicLocalInit, ApStep, Types, InMadt
  <2>3. InTable'
    BY <1>15 DEF ApicLocalInit, ApStep, Types, InMadt, InTable
  <2>4. TssNewer'
    BY <1>15 DEF ApicLocalInit, ApStep, Types, InMadt, TssNewer
  <2>5. InInterrupts'
    BY <1>15 DEF ApicLocalInit, ApStep, Types, InMadt, InTable, InInterrupts
  <2>6. Locked'
    BY <1>15 DEF ApicLocalInit, ApStep, Types, InMadt, InInterrupts, Locked
  <2> QED BY <2>1, <2>2, <2>3, <2>4, <2>5, <2>6
<1>16. ASSUME NEW c \in APs, ApStartAnswers(c) PROVE IInv'
  <2>1. Types'
    BY <1>16 DEF ApStartAnswers, ApStep, Types, BspSteps, ApSteps
  <2>2. InMadt'
    BY <1>16 DEF ApStartAnswers, ApStep, Types, InMadt
  <2>3. InTable'
    BY <1>16 DEF ApStartAnswers, ApStep, Types, InMadt, InTable
  <2>4. TssNewer'
    BY <1>16 DEF ApStartAnswers, ApStep, Types, InMadt, TssNewer
  <2>5. InInterrupts'
    BY <1>16 DEF ApStartAnswers, ApStep, Types, InMadt, InTable, InInterrupts
  <2>6. Locked'
    BY <1>16 DEF ApStartAnswers, ApStep, Types, InMadt, InInterrupts, Locked
  <2> QED BY <2>1, <2>2, <2>3, <2>4, <2>5, <2>6
<1>17. ASSUME NEW c \in APs, Idt242(c) PROVE IInv'
  <2>1. Types'
    BY <1>17 DEF Idt242, ApStep, Types, BspSteps, ApSteps
  <2>2. InMadt'
    BY <1>17 DEF Idt242, ApStep, Types, InMadt
  <2>3. InTable'
    BY <1>17 DEF Idt242, ApStep, Types, InMadt, InTable
  <2>4. TssNewer'
    BY <1>17 DEF Idt242, ApStep, Types, InMadt, TssNewer
  <2>5. InInterrupts'
    BY <1>17 DEF Idt242, ApStep, Types, InMadt, InTable, InInterrupts
  <2>6. Locked'
    BY <1>17 DEF Idt242, ApStep, Types, InMadt, InInterrupts, Locked
  <2> QED BY <2>1, <2>2, <2>3, <2>4, <2>5, <2>6
<1>18. ASSUME NEW c \in APs, ApStartNewStack(c) PROVE IInv'
  <2>1. Types'
    BY <1>18 DEF ApStartNewStack, ApStep, Types, BspSteps, ApSteps
  <2>2. InMadt'
    BY <1>18 DEF ApStartNewStack, ApStep, Types, InMadt
  <2>3. InTable'
    BY <1>18 DEF ApStartNewStack, ApStep, Types, InMadt, InTable
  <2>4. TssNewer'
    BY <1>18 DEF ApStartNewStack, ApStep, Types, InMadt, TssNewer
  <2>5. InInterrupts'
    BY <1>18 DEF ApStartNewStack, ApStep, Types, InMadt, InTable, InInterrupts
  <2>6. Locked'
    BY <1>18 DEF ApStartNewStack, ApStep, Types, InMadt, InInterrupts, Locked
  <2> QED BY <2>1, <2>2, <2>3, <2>4, <2>5, <2>6
<1>19. ASSUME NEW c \in APs, ApAnswers1(c) PROVE IInv'
  <2>1. Types'
    BY <1>19 DEF ApAnswers1, ApStep, Types, BspSteps, ApSteps
  <2>2. InMadt'
    BY <1>19 DEF ApAnswers1, ApStep, Types, InMadt
  <2>3. InTable'
    BY <1>19 DEF ApAnswers1, ApStep, Types, InMadt, InTable
  <2>4. TssNewer'
    BY <1>19 DEF ApAnswers1, ApStep, Types, InMadt, TssNewer
  <2>5. InInterrupts'
    BY <1>19 DEF ApAnswers1, ApStep, Types, InMadt, InTable, InInterrupts
  <2>6. Locked'
    BY <1>19 DEF ApAnswers1, ApStep, Types, InMadt, InInterrupts, Locked
  <2> QED BY <2>1, <2>2, <2>3, <2>4, <2>5, <2>6
<1>20. ASSUME NEW c \in APs, ApAnswers2(c) PROVE IInv'
  <2>1. Types'
    BY <1>20 DEF ApAnswers2, ApStep, Types, BspSteps, ApSteps
  <2>2. InMadt'
    BY <1>20 DEF ApAnswers2, ApStep, Types, InMadt
  <2>3. InTable'
    BY <1>20 DEF ApAnswers2, ApStep, Types, InMadt, InTable
  <2>4. TssNewer'
    BY <1>20 DEF ApAnswers2, ApStep, Types, InMadt, TssNewer
  <2>5. InInterrupts'
    BY <1>20 DEF ApAnswers2, ApStep, Types, InMadt, InTable, InInterrupts
  <2>6. Locked'
    BY <1>20 DEF ApAnswers2, ApStep, Types, InMadt, InInterrupts, Locked
  <2> QED BY <2>1, <2>2, <2>3, <2>4, <2>5, <2>6
<1>21. ASSUME NEW c \in CPUs, EnterHandler(c) PROVE IInv'
  <2>1. Types'
    BY <1>21 DEF EnterHandler, Running, Types, BspSteps, ApSteps
  <2>2. InMadt'
    BY <1>21 DEF EnterHandler, Running, Types, InMadt
  <2>3. InTable'
    BY <1>21 DEF EnterHandler, Running, Types, InMadt, InTable
  <2>4. TssNewer'
    BY <1>21 DEF EnterHandler, Running, Types, InMadt, TssNewer
  <2>5. InInterrupts'
    BY <1>21 DEF EnterHandler, Running, Types, InMadt, InTable, InInterrupts
  <2>6. Locked'
    BY <1>21 DEF EnterHandler, Running, Types, InMadt, InInterrupts, Locked
  <2> QED BY <2>1, <2>2, <2>3, <2>4, <2>5, <2>6
<1>22. ASSUME NEW c \in CPUs, LeaveHandler(c) PROVE IInv'
  <2>1. Types'
    BY <1>22 DEF LeaveHandler, Running, Types, BspSteps, ApSteps
  <2>2. InMadt'
    BY <1>22 DEF LeaveHandler, Running, Types, InMadt
  <2>3. InTable'
    BY <1>22 DEF LeaveHandler, Running, Types, InMadt, InTable
  <2>4. TssNewer'
    BY <1>22 DEF LeaveHandler, Running, Types, InMadt, TssNewer
  <2>5. InInterrupts'
    BY <1>22 DEF LeaveHandler, Running, Types, InMadt, InTable, InInterrupts
  <2>6. Locked'
    BY <1>22 DEF LeaveHandler, Running, Types, InMadt, InInterrupts, Locked
  <2> QED BY <2>1, <2>2, <2>3, <2>4, <2>5, <2>6
<1>23. CASE UNCHANGED vars
  BY <1>23 DEF vars, Types, InMadt, InTable, TssNewer, InInterrupts, Locked
<1> QED BY <1>1, <1>2, <1>3, <1>4, <1>5, <1>6, <1>7, <1>8, <1>9, <1>10, <1>11,
      <1>12, <1>13, <1>14, <1>15, <1>16, <1>17, <1>18, <1>19, <1>20, <1>21,
      <1>22, <1>23 DEF Next, BspNext, ApNext

LEMMA Inductive == Spec => []IInv
<1> QED BY InitIInv, NextIInv, PTL DEF Spec

\* Every AP runs on a TSS of its own, however the answers are delayed.
THEOREM TssPrivate == Spec => []OwnTss
<1>1. IInv => OwnTss
  BY DEF IInv, TssNewer, OwnTss
<1> QED BY <1>1, Inductive, PTL

\* The BSP leaves AcpiParse only with all APs of its table up.
THEOREM NoApMissing == Spec => []AllApsAnswered
<1>1. IInv => AllApsAnswered
    BY DEF IInv, Types, InMadt, InTable, AllApsAnswered, Starting, ColdStart,
        Waiting, Booting, CPUs
<1> QED BY <1>1, Inductive, PTL

-----------------------------------------------------------------------------
(* How many APs are on their way at once.  A second answer that comes      *)
(* after its time may be taken for that of the AP at hand, which is then   *)
(* left behind before it is done.  Each late answer can do this once: it   *)
(* is overwritten before the next AP is sent its interrupt.                *)

\* The AP that the BSP waits for.
Awaited ==
  IF bsp \in {"wait_1", "wait_2", "halted"} /\ at \in DOMAIN DispatcherCpus
  THEN {DispatcherCpus[at]} ELSE {}

\* The APs between their interrupt and their second answer, and those of them that the
\* BSP does not wait for.
OnTheirWay == {c \in APs : c \in ipi \/ ap[c] \in Answering}
LeftBehind == OnTheirWay \ Awaited

\* The second answer of another AP stands where that of the AP at hand belongs.
Mistaken ==
  /\ bsp \in {"wait_1", "wait_2"} /\ ApInitDone = 2
  /\ ap[DispatcherCpus[at]] # "running"

\* Every late answer is of an AP that the BSP has passed, and leaves one AP behind or can
\* still do so.
Counted ==
  /\ bsp = "wait_2" => ApInitDone # 0
  /\ bsp \in Booting \cup {"boot"} => late = {}
  /\ bsp \in {"interrupts", "wait_1", "wait_2"} =>
       \A i \in DOMAIN DispatcherCpus : DispatcherCpus[i] \in late => i < at
  /\ Cardinality(LeftBehind) + (IF Mistaken THEN 1 ELSE 0) <= Cardinality(late)

LEMMA OneElementMore ==
  ASSUME NEW S, NEW x, IsFiniteSet(S)
  PROVE  /\ IsFiniteSet(S \cup {x})
         /\ Cardinality(S \cup {x}) \in Nat
         /\ Cardinality(S \cup {x}) <= Cardinality(S) + 1
<1>1. /\ IsFiniteSet(S \cup {x})
      /\ Cardinality(S \cup {x}) = IF x \in S THEN Cardinality(S) ELSE Cardinality(S) + 1
  BY FS_AddElement
<1>2. Cardinality(S) \in Nat
  BY FS_CardinalityType
<1>3. Cardinality(S \cup {x}) \in Nat /\ Cardinality(S \cup {x}) <= Cardinality(S) + 1
  BY <1>1, <1>2
<1> QED BY <1>1, <1>3

LEMMA FewerLeft ==
  ASSUME Types, Types', LeftBehind' \subseteq LeftBehind
  PROVE  /\ IsFiniteSet(LeftBehind) /\ IsFiniteSet(LeftBehind') /\ IsFiniteSet(late)
         /\ Cardinality(LeftBehind) \in Nat /\ Cardinality(LeftBehind') \in Nat
         /\ Cardinality(late) \in Nat
         /\ Cardinality(LeftBehind') <= Cardinality(LeftBehind)
<1>1. LeftBehind \in SUBSET APs /\ late \in SUBSET APs
  BY DEF LeftBehind, OnTheirWay, Types
<1>2. IsFiniteSet(LeftBehind) /\ IsFiniteSet(late)
  BY <1>1, FS_Subset
<1>3. IsFiniteSet(LeftBehind') /\ Cardinality(LeftBehind') <= Cardinality(LeftBehind)
  BY <1>2, FS_Subset
<1> QED BY <1>2, <1>3, FS_CardinalityType

\* A step that leaves no AP behind and makes no mistake.
LEMMA CountKept ==
  ASSUME Types, Types', Counted, late' = late, LeftBehind' \subseteq LeftBehind,
         Mistaken' => Mistaken
  PROVE  Cardinality(LeftBehind') + (IF Mistaken' THEN 1 ELSE 0) <= Cardinality(late')
<1>1. Cardinality(LeftBehind) + (IF Mistaken THEN 1 ELSE 0) <= Cardinality(late)
  BY DEF Counted
<1>2. /\ Cardinality(LeftBehind) \in Nat /\ Cardinality(LeftBehind') \in Nat
      /\ Cardinality(late) \in Nat /\ Cardinality(LeftBehind') <= Cardinality(LeftBehind)
  BY FewerLeft
<1>3. Cardinality(late') = Cardinality(late)
  OBVIOUS
<1> QED BY <1>1, <1>2, <1>3

LEMMA InitCounted == Init => Counted
<1> SUFFICES ASSUME Init PROVE Counted
  OBVIOUS
<1>1. LeftBehind = {} /\ late = {} /\ ~Mistaken
  BY DEF Init, LeftBehind, OnTheirWay, Answering, Mistaken
<1> QED BY <1>1, FS_EmptySet DEF Init, Counted

\* The BSP goes on to the next AP: the one it leaves is done, or its answer is late, or
\* that of another AP has been taken for it.
LEMMA Wait2Counted ==
  ASSUME IInv, IInv', Counted, Wait2
  PROVE  Counted'
<1> DEFINE a == DispatcherCpus[at]
<1>1. /\ bsp = "wait_2" /\ bsp' = "interrupts" /\ at' = at + 1
      /\ at \in DOMAIN DispatcherCpus /\ at \in Nat /\ a \in APs
      /\ ApInitDone \in {1, 2} /\ ipi \subseteq APs /\ ap \in [APs -> ApSteps]
      /\ DOMAIN DispatcherCpus \subseteq Nat
  BY DEF Wait2, NextCpu, IInv, Types, InInterrupts, Counted
<1>2. UNCHANGED <<ap, ipi, ApInitDone, DispatcherCpus>>
  BY DEF Wait2, bootVars
<1>3. LeftBehind = OnTheirWay \ {a} /\ LeftBehind' = OnTheirWay /\ ~Mistaken'
  BY <1>1, <1>2 DEF LeftBehind, OnTheirWay, Awaited, Mistaken
<1>4. /\ IsFiniteSet(LeftBehind) /\ IsFiniteSet(late)
      /\ Cardinality(LeftBehind) \in Nat /\ Cardinality(late) \in Nat
  <2>1. LeftBehind \in SUBSET APs /\ late \in SUBSET APs
    BY DEF LeftBehind, OnTheirWay, IInv, Types
  <2> QED BY <2>1, FS_Subset, FS_CardinalityType
<1>5. Cardinality(LeftBehind) + (IF Mistaken THEN 1 ELSE 0) <= Cardinality(late)
  BY DEF Counted
<1>6. /\ IsFiniteSet(LeftBehind') /\ Cardinality(LeftBehind') \in Nat
      /\ Cardinality(LeftBehind') <= Cardinality(LeftBehind) + 1
  <2> HIDE DEF a
  <2>1. LeftBehind' \in SUBSET (LeftBehind \cup {a})
    BY <1>3
  <2>2. /\ IsFiniteSet(LeftBehind \cup {a})
        /\ Cardinality(LeftBehind \cup {a}) \in Nat
        /\ Cardinality(LeftBehind \cup {a}) <= Cardinality(LeftBehind) + 1
    BY <1>4, OneElementMore
  <2>3. IsFiniteSet(LeftBehind') /\ Cardinality(LeftBehind') <= Cardinality(LeftBehind \cup {a})
    BY <2>1, <2>2, FS_Subset
  <2> QED BY <1>4, <2>2, <2>3, FS_CardinalityType
<1>7. Cardinality(LeftBehind') <= Cardinality(late')
  <2>1. CASE ApInitDone = 1
    <3>1. late' = late \cup {a}
      BY <2>1 DEF Wait2
    <3>2. a \notin late
      BY <1>1 DEF Counted
    <3>3. Cardinality(late') = Cardinality(late) + 1
      BY <1>4, <3>1, <3>2, FS_AddElement
    <3>4. Cardinality(LeftBehind) <= Cardinality(late)
      BY <1>4, <1>5
    <3> QED BY <1>4, <1>6, <3>3, <3>4
  <2>2. CASE ApInitDone = 2
    <3>1. late' = late
      BY <2>2 DEF Wait2
    <3>2. CASE ap[a] = "running"
      <4>1. a \notin OnTheirWay
        BY <1>1, <3>2 DEF OnTheirWay, Answering, IInv, InInterrupts
      <4>2. LeftBehind' = LeftBehind
        BY <1>3, <4>1
      <4> QED BY <1>4, <1>5, <3>1, <4>2
    <3>3. CASE ap[a] # "running"
      <4>1. Mistaken
        BY <1>1, <2>2, <3>3 DEF Mistaken
      <4> QED BY <1>4, <1>5, <1>6, <3>1, <4>1
    <3> QED BY <3>2, <3>3
  <2> QED BY <1>1, <2>1, <2>2
<1>8. \A i \in DOMAIN DispatcherCpus : DispatcherCpus[i] \in late' => i < at'
  <2> SUFFICES ASSUME NEW i \in DOMAIN DispatcherCpus, DispatcherCpus[i] \in late'
               PROVE  i < at + 1
    BY <1>1
  <2>1. CASE DispatcherCpus[i] \in late
    <3>1. i < at /\ i \in Nat
      BY <1>1, <2>1 DEF Counted
    <3> QED BY <1>1, <3>1
  <2>2. CASE DispatcherCpus[i] = a
    <3>1. i = at
      BY <1>1, <2>2 DEF IInv, InTable
    <3> QED BY <1>1, <3>1
  <2> QED BY <2>1, <2>2 DEF Wait2
<1>9. Cardinality(LeftBehind') + (IF Mistaken' THEN 1 ELSE 0) <= Cardinality(late')
  BY <1>3, <1>6, <1>7
<1> QED BY <1>1, <1>2, <1>8, <1>9 DEF Counted, Booting

\* The second answer of an AP that the BSP waits for is no mistake; that of another AP
\* may be, but this one is not behind any more.
LEMMA Answers2Counted ==
  ASSUME IInv, IInv', Counted, NEW c \in APs, ApAnswers2(c)
  PROVE  Counted'
<1>1. /\ ap[c] = "answer_2" /\ ap' = [ap EXCEPT ![c] = "running"] /\ c \notin ipi
      /\ ApInitDone' = 2 /\ ap \in [APs -> ApSteps]
      /\ UNCHANGED <<bsp, at, ipi, DispatcherCpus, late>>
  BY DEF ApAnswers2, ApStep, bootVars, IInv, Types, InInterrupts
<1>2. OnTheirWay' = OnTheirWay \ {c} /\ Awaited' = Awaited /\ c \in OnTheirWay
  BY <1>1 DEF OnTheirWay, Answering, Awaited
<1>3. LeftBehind' = LeftBehind \ {c}
  BY <1>2 DEF LeftBehind
<1>4. Types /\ Types'
  BY DEF IInv
<1>5. Cardinality(LeftBehind') + (IF Mistaken' THEN 1 ELSE 0) <= Cardinality(late')
  <2>1. CASE c \in Awaited
    <3>1. ~Mistaken'
      BY <1>1, <2>1 DEF Awaited, Mistaken
    <3> QED BY <1>1, <1>3, <1>4, <3>1, CountKept
  <2>2. CASE c \notin Awaited
    <3>1. c \in LeftBehind
      BY <1>2, <2>2 DEF LeftBehind
    <3>2. /\ IsFiniteSet(LeftBehind) /\ Cardinality(LeftBehind) \in Nat
          /\ Cardinality(LeftBehind') \in Nat /\ Cardinality(late) \in Nat
      BY <1>3, <1>4, FewerLeft
    <3>3. Cardinality(LeftBehind') = Cardinality(LeftBehind) - 1
      BY <1>3, <3>1, <3>2, FS_RemoveElement
    <3>4. Cardinality(LeftBehind) <= Cardinality(late) /\ late' = late
      BY <1>1, <3>2 DEF Counted
    <3> QED BY <3>2, <3>3, <3>4
  <2> QED BY <2>1, <2>2
<1> QED BY <1>1, <1>5 DEF Counted

LEMMA NextCounted == IInv /\ IInv' /\ Counted /\ [Next]_vars => Counted'
<1> SUFFICES ASSUME IInv, IInv', Counted, [Next]_vars PROVE Counted'
  OBVIOUS
<1> DEFINE Fewer == /\ late' = late /\ LeftBehind' \subseteq LeftBehind
                    /\ Mistaken' => Mistaken
           Passed == /\ bsp' = "wait_2" => ApInitDone' # 0
                     /\ bsp' \in Booting \cup {"boot"} => late' = {}
                     /\ bsp' \in {"interrupts", "wait_1", "wait_2"} =>
                          \A i \in DOMAIN DispatcherCpus' :
                            DispatcherCpus'[i] \in late' => i < at'
<1>a. ASSUME Fewer, Passed PROVE Counted'
  <2>1. Types /\ Types'
    BY DEF IInv
  <2>2. Cardinality(LeftBehind') + (IF Mistaken' THEN 1 ELSE 0) <= Cardinality(late')
    BY <1>a, <2>1, CountKept
  <2> QED BY <1>a, <2>2 DEF Counted
<1> USE DEF Booting, bootVars, apVars
<1>1. ASSUME SkipEntry PROVE Counted'
  <2>1. Fewer
    BY <1>1 DEF SkipEntry, NextEntry, LeftBehind, OnTheirWay, Awaited, Mistaken, Answering,
       IInv, Types, InMadt, InTable, InInterrupts, Starting, ColdStart, Waiting, CPUs
  <2>2. Passed
    BY <1>1 DEF SkipEntry, NextEntry, Counted, IInv, Types, InInterrupts, CPUs
  <2> QED BY <1>a, <2>1, <2>2
<1>2. ASSUME AddAp PROVE Counted'
  <2>1. Fewer
    BY <1>2 DEF AddAp, LeftBehind, OnTheirWay, Awaited, Mistaken, Answering,
       IInv, Types, InMadt, InTable, InInterrupts, Starting, ColdStart, Waiting, CPUs
  <2>2. Passed
    BY <1>2 DEF AddAp, Counted, IInv, Types, InInterrupts, CPUs
  <2> QED BY <1>a, <2>1, <2>2
<1>3. ASSUME TssNew PROVE Counted'
  <2>1. Fewer
    BY <1>3 DEF TssNew, LeftBehind, OnTheirWay, Awaited, Mistaken, Answering,
       IInv, Types, InMadt, InTable, InInterrupts, Starting, ColdStart, Waiting, CPUs
  <2>2. Passed
    BY <1>3 DEF TssNew, Counted, IInv, Types, InInterrupts, CPUs
  <2> QED BY <1>a, <2>1, <2>2
<1>4. ASSUME SendSipi PROVE Counted'
  <2>1. Fewer
    BY <1>4 DEF SendSipi, LeftBehind, OnTheirWay, Awaited, Mistaken, Answering,
       IInv, Types, InMadt, InTable, InInterrupts, Starting, ColdStart, Waiting, CPUs
  <2>2. Passed
    BY <1>4 DEF SendSipi, Counted, IInv, Types, InInterrupts, CPUs
  <2> QED BY <1>a, <2>1, <2>2
<1>5. ASSUME WaitEnds PROVE Counted'
  <2>1. Fewer
    BY <1>5 DEF WaitEnds, LeftBehind, OnTheirWay, Awaited, Mistaken, Answering,
       IInv, Types, InMadt, InTable, InInterrupts, Starting, ColdStart, Waiting, CPUs
  <2>2. Passed
    BY <1>5 DEF WaitEnds, Counted, IInv, Types, InInterrupts, CPUs
  <2> QED BY <1>a, <2>1, <2>2
<1>6. ASSUME Started PROVE Counted'
  <2>1. Fewer
    BY <1>6 DEF Started, NextEntry, LeftBehind, OnTheirWay, Awaited, Mistaken, Answering,
       IInv, Types, InMadt, InTable, InInterrupts, Starting, ColdStart, Waiting, CPUs
  <2>2. Passed
    BY <1>6 DEF Started, NextEntry, Counted, IInv, Types, InInterrupts, CPUs
  <2> QED BY <1>a, <2>1, <2>2
<1>7. ASSUME MainDone PROVE Counted'
  <2>1. Fewer
    BY <1>7 DEF MainDone, LeftBehind, OnTheirWay, Awaited, Mistaken, Answering,
       IInv, Types, InMadt, InTable, InInterrupts, Starting, ColdStart, Waiting, CPUs
  <2>2. Passed
    BY <1>7 DEF MainDone, Counted, IInv, Types, InInterrupts, CPUs
  <2> QED BY <1>a, <2>1, <2>2
<1>8. ASSUME FirstTick PROVE Counted'
  <2>1. Fewer
    BY <1>8 DEF FirstTick, LeftBehind, OnTheirWay, Awaited, Mistaken, Answering,
       IInv, Types, InMadt, InTable, InInterrupts, Starting, ColdStart, Waiting, CPUs
  <2>2. Passed
    BY <1>8 DEF FirstTick, Counted, IInv, Types, InInterrupts, CPUs
  <2> QED BY <1>a, <2>1, <2>2
<1>9. ASSUME SkipBsp PROVE Counted'
  <2>1. Fewer
    BY <1>9 DEF SkipBsp, NextCpu, LeftBehind, OnTheirWay, Awaited, Mistaken, Answering,
       IInv, Types, InMadt, InTable, InInterrupts, Starting, ColdStart, Waiting, CPUs
  <2>2. Passed
    BY <1>9 DEF SkipBsp, NextCpu, Counted, IInv, Types, InInterrupts, CPUs
  <2> QED BY <1>a, <2>1, <2>2
<1>10. ASSUME SendInterrupt PROVE Counted'
  <2>1. Fewer
    BY <1>10 DEF SendInterrupt, LeftBehind, OnTheirWay, Awaited, Mistaken, Answering,
       IInv, Types, InMadt, InTable, InInterrupts, Starting, ColdStart, Waiting, CPUs
  <2>2. Passed
    BY <1>10 DEF SendInterrupt, Counted, IInv, Types, InInterrupts, CPUs
  <2> QED BY <1>a, <2>1, <2>2
<1>11. ASSUME Wait1 PROVE Counted'
  <2>1. Fewer
    BY <1>11 DEF Wait1, LeftBehind, OnTheirWay, Awaited, Mistaken, Answering,
       IInv, Types, InMadt, InTable, InInterrupts, Starting, ColdStart, Waiting, CPUs
  <2>2. Passed
    BY <1>11 DEF Wait1, Counted, IInv, Types, InInterrupts, CPUs
  <2> QED BY <1>a, <2>1, <2>2
<1>12. ASSUME StartInterruptsDone PROVE Counted'
  <2>1. Fewer
    BY <1>12 DEF StartInterruptsDone, LeftBehind, OnTheirWay, Awaited, Mistaken, Answering,
       IInv, Types, InMadt, InTable, InInterrupts, Starting, ColdStart, Waiting, CPUs
  <2>2. Passed
    BY <1>12 DEF StartInterruptsDone, Counted, IInv, Types, InInterrupts, CPUs
  <2> QED BY <1>a, <2>1, <2>2
<1>13. ASSUME NEW c \in APs, ApStartPrepare(c) PROVE Counted'
  <2>1. Fewer
    BY <1>13 DEF ApStartPrepare, ApStep, LeftBehind, OnTheirWay, Awaited, Mistaken, Answering,
       IInv, Types, InMadt, InTable, InInterrupts, Starting, ColdStart, Waiting, CPUs
  <2>2. Passed
    BY <1>13 DEF ApStartPrepare, ApStep, Counted, IInv, Types, InInterrupts, CPUs
  <2> QED BY <1>a, <2>1, <2>2
<1>14. ASSUME NEW c \in APs, ApicLocalInit(c) PROVE Counted'
  <2>1. Fewer
    BY <1>14 DEF ApicLocalInit, ApStep, LeftBehind, OnTheirWay, Awaited, Mistaken, Answering,
       IInv, Types, InMadt, InTable, InInterrupts, Starting, ColdStart, Waiting, CPUs
  <2>2. Passed
    BY <1>14 DEF ApicLocalInit, ApStep, Counted, IInv, Types, InInterrupts, CPUs
  <2> QED BY <1>a, <2>1, <2>2
<1>15. ASSUME NEW c \in APs, ApStartAnswers(c) PROVE Counted'
  <2>1. Fewer
    BY <1>15 DEF ApStartAnswers, ApStep, LeftBehind, OnTheirWay, Awaited, Mistaken, Answering,
       IInv, Types, InMadt, InTable, InInterrupts, Starting, ColdStart, Waiting, CPUs
  <2>2. Passed
    BY <1>15 DEF ApStartAnswers, ApStep, Counted, IInv, Types, InInterrupts, CPUs
  <2> QED BY <1>a, <2>1, <2>2
<1>16. ASSUME NEW c \in APs, Idt242(c) PROVE Counted'
  <2>1. Fewer
    BY <1>16 DEF Idt242, ApStep, LeftBehind, OnTheirWay, Awaited, Mistaken, Answering,
       IInv, Types, InMadt, InTable, InInterrupts, Starting, ColdStart, Waiting, CPUs
  <2>2. Passed
    BY <1>16 DEF Idt242, ApStep, Counted, IInv, Types, InInterrupts, CPUs
  <2> QED BY <1>a, <2>1, <2>2
<1>17. ASSUME NEW c \in APs, ApStartNewStack(c) PROVE Counted'
  <2>1. Fewer
    BY <1>17 DEF ApStartNewStack, ApStep, LeftBehind, OnTheirWay, Awaited, Mistaken, Answering,
       IInv, Types, InMadt, InTable, InInterrupts, Starting, ColdStart, Waiting, CPUs
  <2>2. Passed
    BY <1>17 DEF ApStartNewStack, ApStep, Counted, IInv, Types, InInterrupts, CPUs
  <2> QED BY <1>a, <2>1, <2>2
<1>18. ASSUME NEW c \in APs, ApAnswers1(c) PROVE Counted'
  <2>1. Fewer
    BY <1>18 DEF ApAnswers1, ApStep, LeftBehind, OnTheirWay, Awaited, Mistaken, Answering,
       IInv, Types, InMadt, InTable, InInterrupts, Starting, ColdStart, Waiting, CPUs
  <2>2. Passed
    BY <1>18 DEF ApAnswers1, ApStep, Counted, IInv, Types, InInterrupts, CPUs
  <2> QED BY <1>a, <2>1, <2>2
<1>19. ASSUME NEW c \in CPUs, EnterHandler(c) PROVE Counted'
  <2>1. Fewer
    BY <1>19 DEF EnterHandler, LeftBehind, OnTheirWay, Awaited, Mistaken, Answering,
       IInv, Types, InMadt, InTable, InInterrupts, Starting, ColdStart, Waiting, CPUs
  <2>2. Passed
    BY <1>19 DEF EnterHandler, Counted, IInv, Types, InInterrupts, CPUs
  <2> QED BY <1>a, <2>1, <2>2
<1>20. ASSUME NEW c \in CPUs, LeaveHandler(c) PROVE Counted'
  <2>1. Fewer
    BY <1>20 DEF LeaveHandler, LeftBehind, OnTheirWay, Awaited, Mistaken, Answering,
       IInv, Types, InMadt, InTable, InInterrupts, Starting, ColdStart, Waiting, CPUs
  <2>2. Passed
    BY <1>20 DEF LeaveHandler, Counted, IInv, Types, InInterrupts, CPUs
  <2> QED BY <1>a, <2>1, <2>2
<1>21. CASE Wait2
  BY <1>21, Wait2Counted
<1>22. ASSUME NEW c \in APs, ApAnswers2(c) PROVE Counted'
  BY <1>22, Answers2Counted
<1>23. CASE UNCHANGED vars
  <2>1. Fewer
    BY <1>23 DEF vars, LeftBehind, OnTheirWay, Awaited, Mistaken
  <2>2. Passed
    BY <1>23 DEF vars, Counted
  <2> QED BY <1>a, <2>1, <2>2
<1> QED BY <1>1, <1>2, <1>3, <1>4, <1>5, <1>6, <1>7, <1>8, <1>9, <1>10, <1>11, <1>12,
      <1>13, <1>14, <1>15, <1>16, <1>17, <1>18, <1>19, <1>20, <1>21, <1>22, <1>23 DEF Next, BspNext, ApNext

LEMMA AlwaysCounted == Spec => []Counted
<1> QED BY Inductive, InitCounted, NextCounted, PTL DEF Spec

\* How many can be on their way: one for each late answer, and the one at hand.
LEMMA OneMore ==
  ASSUME Types, Counted, NEW S \in SUBSET (LeftBehind \cup Awaited)
  PROVE  IsFiniteSet(S) /\ Cardinality(S) <= 1 + Cardinality(late)
<1>1. LeftBehind \in SUBSET APs /\ late \in SUBSET APs
  BY DEF LeftBehind, OnTheirWay, Types
<1>2. /\ IsFiniteSet(LeftBehind) /\ Cardinality(LeftBehind) \in Nat
      /\ IsFiniteSet(late) /\ Cardinality(late) \in Nat
  BY <1>1, FS_Subset, FS_CardinalityType
<1>3. Cardinality(LeftBehind) <= Cardinality(late)
  BY <1>2 DEF Counted
<1>4. PICK a : S \in SUBSET (LeftBehind \cup {a})
  BY DEF Awaited
<1>5. /\ IsFiniteSet(LeftBehind \cup {a})
      /\ Cardinality(LeftBehind \cup {a}) \in Nat
      /\ Cardinality(LeftBehind \cup {a}) <= Cardinality(LeftBehind) + 1
  BY <1>2, OneElementMore
<1>6. /\ IsFiniteSet(S) /\ Cardinality(S) <= Cardinality(LeftBehind \cup {a})
  BY <1>4, <1>5, FS_Subset
<1>7. Cardinality(S) \in Nat
  BY <1>6, FS_CardinalityType
<1> QED BY <1>2, <1>3, <1>5, <1>6, <1>7

\* ApStartStack has one user at a time, and at most one more for each second answer that
\* has come after its time.
THEOREM OneOnStartStack == Spec => []StartStackAlone
<1>1. IInv /\ Counted => StartStackAlone
  <2> SUFFICES ASSUME IInv, Counted PROVE StartStackAlone
    OBVIOUS
  <2>1. Types /\ Cardinality(late) \in Nat
    <3>1. late \in SUBSET APs /\ Types
      BY DEF IInv, Types
    <3> QED BY <3>1, FS_Subset, FS_CardinalityType
  <2>2. CASE \E c \in APs : ap[c] \in ColdStart
    <3>1. PICK c \in APs : ap[c] \in ColdStart
      BY <2>2
    <3>2. \A d \in APs : ap[d] \in ColdStart => d = c
      BY <3>1 DEF IInv, InMadt, Starting
    <3>3. \A d \in APs : ap[d] # "new_stack"
      BY <3>1 DEF IInv, InMadt, Starting, Answering
    <3>4. StackUsers = {c}
      BY <3>1, <3>2, <3>3 DEF StackUsers
    <3>5. Cardinality({c}) = 1
      BY FS_Singleton
    <3>6. Cardinality(StackUsers) = 1
      BY <3>4, <3>5
    <3> QED BY <2>1, <3>6 DEF StartStackAlone
  <2>3. CASE \A c \in APs : ap[c] \notin ColdStart
    <3>1. StackUsers \in SUBSET (LeftBehind \cup Awaited)
      BY <2>3 DEF StackUsers, LeftBehind, OnTheirWay, Answering
    <3> QED BY <2>1, <3>1, OneMore DEF StartStackAlone
  <2> QED BY <2>2, <2>3
<1> QED BY <1>1, Inductive, AlwaysCounted, PTL

\* Likewise the kernel's heap, although an AP does not hold the kernel lock there: when the
\* BSP has given the lock back, it waits for no AP any more.
THEOREM OneInHeap == Spec => []HeapAlone
<1>1. IInv /\ Counted => HeapAlone
  <2> SUFFICES ASSUME IInv, Counted PROVE HeapAlone
    OBVIOUS
  <2> DEFINE New == {c \in APs : ap[c] = "new_stack"}
             Holders == {c \in CPUs : Running(c) /\ IdtBusy = c}
  <2>1. Types /\ IsFiniteSet(late) /\ Cardinality(late) \in Nat
    <3>1. late \in SUBSET APs /\ Types
      BY DEF IInv, Types
    <3> QED BY <3>1, FS_Subset, FS_CardinalityType
  <2>2. New \in SUBSET OnTheirWay
    BY DEF OnTheirWay, Answering
  <2>3. Holders \in SUBSET {IdtBusy}
    OBVIOUS
  <2>4. HeapUsers = New \cup Holders
    BY DEF HeapUsers
  <2>5. CASE New = {}
    <3> HIDE DEF New, Holders
    <3>1. HeapUsers \in SUBSET {IdtBusy}
      BY <2>3, <2>4, <2>5
    <3>2. IsFiniteSet({IdtBusy}) /\ Cardinality({IdtBusy}) = 1
      BY FS_Singleton
    <3>3. IsFiniteSet(HeapUsers) /\ Cardinality(HeapUsers) <= 1
      BY <3>1, <3>2, FS_Subset
    <3>4. Cardinality(HeapUsers) \in Nat
      BY <3>3, FS_CardinalityType
    <3> QED BY <2>1, <3>3, <3>4 DEF HeapAlone
  <2>6. CASE New # {} /\ bsp = "running"
    <3>1. New \in SUBSET LeftBehind
      BY <2>2, <2>6 DEF LeftBehind, Awaited
    <3> HIDE DEF New, Holders
    <3>2. LeftBehind \in SUBSET APs
      BY DEF LeftBehind, OnTheirWay
    <3>3. IsFiniteSet(LeftBehind) /\ Cardinality(LeftBehind) \in Nat
      BY <3>2, FS_Subset, FS_CardinalityType
    <3>4. Cardinality(LeftBehind) <= Cardinality(late)
      BY <2>1, <3>3 DEF Counted
    <3>5. HeapUsers \in SUBSET (LeftBehind \cup {IdtBusy})
      BY <2>3, <2>4, <3>1
    <3>6. /\ IsFiniteSet(LeftBehind \cup {IdtBusy})
          /\ Cardinality(LeftBehind \cup {IdtBusy}) \in Nat
          /\ Cardinality(LeftBehind \cup {IdtBusy}) <= Cardinality(LeftBehind) + 1
      BY <3>3, OneElementMore
    <3>7. IsFiniteSet(HeapUsers) /\ Cardinality(HeapUsers) <= Cardinality(LeftBehind \cup {IdtBusy})
      BY <3>5, <3>6, FS_Subset
    <3>8. Cardinality(HeapUsers) \in Nat
      BY <3>7, FS_CardinalityType
    <3> QED BY <2>1, <3>3, <3>4, <3>6, <3>7, <3>8 DEF HeapAlone
  <2>7. CASE New # {} /\ bsp # "running"
    <3>1. IdtBusy = Bsp
      BY <2>7 DEF IInv, Locked, Answering
    <3>2. Holders = {}
      BY <2>7, <3>1 DEF Running
    <3>3. HeapUsers \in SUBSET (LeftBehind \cup Awaited)
      BY <2>2, <2>4, <3>2 DEF LeftBehind
    <3> QED BY <2>1, <3>3, OneMore DEF HeapAlone
  <2> QED BY <2>5, <2>6, <2>7
<1> QED BY <1>1, Inductive, AlwaysCounted, PTL

-----------------------------------------------------------------------------
\* What TypeOK says beyond Types: the two walks stop one past their tables, and
\* a TSS is one of the MaxTss there are.  This is inductive with IInv.
Bounds ==
  /\ retry \in 0..1
  /\ bsp \in Booting \cup {"boot"} => at <= Len(Madt) + 1
  /\ bsp \in {"interrupts", "wait_1", "wait_2", "running"} =>
       at <= Len(DispatcherCpus) + 1
  /\ bsp = "halted" => at <= 1 + Len(Madt) + Len(DispatcherCpus)
  /\ ApicLocalBspId \in CPUs
  /\ IdtBusy \in CPUs \cup {None}
  /\ TssTotal <= MaxTss

LEMMA InitBounds == Init => Bounds
BY DEF Init, Bounds, Booting, CPUs

LEMMA NextBounds == IInv /\ Bounds /\ [Next]_vars => Bounds'
<1> SUFFICES ASSUME IInv, Bounds, [Next]_vars PROVE Bounds'
  OBVIOUS
<1> USE DEF IInv, Types, Bounds, Waiting, Booting, bootVars, apVars, CPUs
<1>1. ASSUME SkipEntry PROVE Bounds'
  BY <1>1 DEF SkipEntry, NextEntry
<1>2. ASSUME AddAp PROVE Bounds'
  BY <1>2 DEF AddAp
<1>3. ASSUME TssNew PROVE Bounds'
  BY <1>3 DEF TssNew
<1>4. ASSUME SendSipi PROVE Bounds'
  BY <1>4 DEF SendSipi
<1>5. ASSUME WaitEnds PROVE Bounds'
  BY <1>5 DEF WaitEnds, InMadt
<1>6. ASSUME Started PROVE Bounds'
  BY <1>6 DEF Started, NextEntry, InMadt
<1>7. ASSUME MainDone PROVE Bounds'
  BY <1>7 DEF MainDone
<1>8. ASSUME FirstTick PROVE Bounds'
  BY <1>8 DEF FirstTick
<1>9. ASSUME SkipBsp PROVE Bounds'
  BY <1>9 DEF SkipBsp, NextCpu
<1>10. ASSUME SendInterrupt PROVE Bounds'
  BY <1>10 DEF SendInterrupt
<1>11. ASSUME Wait1 PROVE Bounds'
  BY <1>11 DEF Wait1, InInterrupts
<1>12. ASSUME Wait2 PROVE Bounds'
  BY <1>12 DEF Wait2, NextCpu, InInterrupts
<1>13. ASSUME StartInterruptsDone PROVE Bounds'
  BY <1>13 DEF StartInterruptsDone
<1>14. ASSUME NEW c \in APs, ApStartPrepare(c) PROVE Bounds'
  BY <1>14 DEF ApStartPrepare, ApStep
<1>15. ASSUME NEW c \in APs, ApicLocalInit(c) PROVE Bounds'
  BY <1>15 DEF ApicLocalInit, ApStep
<1>16. ASSUME NEW c \in APs, ApStartAnswers(c) PROVE Bounds'
  BY <1>16 DEF ApStartAnswers, ApStep
<1>17. ASSUME NEW c \in APs, Idt242(c) PROVE Bounds'
  BY <1>17 DEF Idt242, ApStep
<1>18. ASSUME NEW c \in APs, ApStartNewStack(c) PROVE Bounds'
  BY <1>18 DEF ApStartNewStack, ApStep
<1>19. ASSUME NEW c \in APs, ApAnswers1(c) PROVE Bounds'
  BY <1>19 DEF ApAnswers1, ApStep
<1>20. ASSUME NEW c \in APs, ApAnswers2(c) PROVE Bounds'
  BY <1>20 DEF ApAnswers2, ApStep
<1>21. ASSUME NEW c \in CPUs, EnterHandler(c) PROVE Bounds'
  BY <1>21 DEF EnterHandler
<1>22. ASSUME NEW c \in CPUs, LeaveHandler(c) PROVE Bounds'
  BY <1>22 DEF LeaveHandler
<1>23. CASE UNCHANGED vars
  BY <1>23 DEF vars
<1> QED BY <1>1, <1>2, <1>3, <1>4, <1>5, <1>6, <1>7, <1>8, <1>9, <1>10, <1>11,
      <1>12, <1>13, <1>14, <1>15, <1>16, <1>17, <1>18, <1>19, <1>20, <1>21,
      <1>22, <1>23 DEF Next, BspNext, ApNext

\* The indices of the BSP's walks stay in their tables, or one past them, and
\* TssLast and the task registers name a TSS that exists, however many
\* processors the MADT lists.
THEOREM ApStartTypeCorrect == Spec => []TypeOK
<1>1. IInv /\ Bounds => TypeOK
  <2> SUFFICES ASSUME IInv, Bounds PROVE TypeOK
    OBVIOUS
  <2> USE DEF IInv, Types, Bounds
  <2>1. /\ TssTotal \in 1..MaxTss /\ TssLast \in 0..(MaxTss - 1)
        /\ tr \in [APs -> 0..(MaxTss - 1)]
    BY DEF TssNewer
  <2>2. at \in 1..(1 + IF bsp \in Booting \cup {"boot"} THEN Len(Madt) ELSE
                       IF bsp = "halted" THEN Len(Madt) + Len(DispatcherCpus)
                       ELSE Len(DispatcherCpus))
    BY DEF BspSteps, Booting
  <2> QED BY <2>1, <2>2 DEF TypeOK
<1> QED BY <1>1, Inductive, InitBounds, NextBounds, PTL DEF Spec
=============================================================================
