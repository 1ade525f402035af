--------------------------------- MODULE SmpProofs ---------------------------------
(***************************************************************************)
(* Proofs about Smp, for any number of CPUs: every CPU is set up before it   *)
(* is used, and code outside interrupt handlers takes the locks in order.    *)
(***************************************************************************)
EXTENDS Smp, TLAPS

(* The statements from which a CPU is completely set up. *)
SetUp(c) == pc[c] \notin {"late_init", "smp", "register", "vectors", "gic", "timer", "enable"}

Registered(c) == c \in registered
HasVectors(c) == c \in vectors
HasTimer(c)   == c \in interface /\ c \in armed /\ (intc = "gicv2" => c \in ppi)

(* What each statement of the set-up sequences leaves behind, and that no          *)
(* secondary runs before the boot CPU is through with its own.                     *)
SetUpInv ==
  /\ \A c \in CPUs :
       /\ pc[c] \notin {"late_init", "smp", "register"} => Registered(c)
       /\ pc[c] \notin {"late_init", "register", "vectors"} => HasVectors(c)
       /\ pc[c] \in {"timer", "enable"} => c \in interface
       /\ pc[c] = "enable" \/ pc[c] = "smp" \/ SetUp(c) => HasTimer(c)
       /\ c \notin masked \/ c \in online \/ handler[c] # "none" => SetUp(c)
       /\ c # 0 /\ power[c] # "on" => pc[c] = "register"
       /\ c # 0 /\ power[c] # "off" => SetUp(0) /\ c < target
  /\ SetUp(0) => 0 \in online

(* A lock is held only by the code that took it, and a level that is not running   *)
(* is not in the middle of a wait.                                                  *)
SchedOf(c)   == owner["SCHED"] = c => pc[c] \in {"push", "exit"}
WriterOf(c)  == owner["WRITER"] = c => \E l \in Levels : print[c][l].writer
ConsoleOf(c) == owner["CONSOLE"] = c => pc[c] = "getb" \/ \E l \in Levels : print[c][l].at = "put"
PrintsOf(c) ==
  /\ \A l \in Levels : print[c][l].writer => print[c][l].at \in {"write", "put"}
  /\ pc[c] = "getb" => print[c]["base"].at = "none"
  /\ handler[c] # "warn" => print[c]["irq"].at = "none"
  /\ panicking[c] = "no" => print[c]["panic"].at = "none"
  /\ panicking[c] # "no" => /\ handler[c] = "none" /\ pc[c] # "getb"
                            /\ print[c]["base"].at \in {"none", "write"}
  /\ print[c]["panic"].at # "lock"
LockOf(c) == SchedOf(c) /\ WriterOf(c) /\ ConsoleOf(c) /\ PrintsOf(c)
LockInv == \A c \in CPUs : LockOf(c)

IInv == TypeOK /\ SetUpInv /\ LockInv

-----------------------------------------------------------------------------
(* The machine starts with nothing set up and no lock taken. *)
LEMMA InitInv == Init => IInv
<1> SUFFICES ASSUME Init PROVE IInv
  OBVIOUS
<1> USE SmpAssumption
<1>1. TypeOK
  BY DEF Init, TypeOK, CPUs, Levels, Locks, Prints, NoPrint, BootStatements, Statements
<1>2. SetUpInv
  BY DEF Init, SetUpInv, SetUp, CPUs, Registered, HasVectors, HasTimer
<1>3. LockInv
  BY DEF Init, LockInv, LockOf, SchedOf, WriterOf, ConsoleOf, PrintsOf, CPUs, Levels, Locks, NoPrint
<1> QED
  BY <1>1, <1>2, <1>3 DEF IInv

-----------------------------------------------------------------------------

(* Facts about the CPUs and levels. *)
LEMMA Basics == /\ 0 \in CPUs /\ None \notin CPUs
                /\ \A c \in CPUs : Level(c) \in Levels
BY SmpAssumption DEF CPUs, Level, Levels

(* What a CPU is printing is a print of the level it runs at. *)
LEMMA PrintingType == ASSUME TypeOK, NEW c \in CPUs PROVE Printing(c) \in Prints
BY Basics DEF TypeOK, Printing

(* The changes a print goes through. *)
LEMMA PrintUpdates ==
  ASSUME NEW p \in Prints
  PROVE  /\ \A b \in BOOLEAN : [p EXCEPT !.at = "write", !.writer = b] \in Prints
         /\ [p EXCEPT !.at = "write"] \in Prints
         /\ p.left > 0 => [p EXCEPT !.at = "put", !.left = @ - 1] \in Prints
         /\ NoPrint \in Prints
<1>1. ASSUME NEW b \in BOOLEAN PROVE [p EXCEPT !.at = "write", !.writer = b] \in Prints
  BY DEF Prints
<1>2. [p EXCEPT !.at = "write"] \in Prints
  BY DEF Prints
<1>3. ASSUME p.left > 0 PROVE [p EXCEPT !.at = "put", !.left = @ - 1] \in Prints
  <2>1. p.left - 1 \in Nat
    BY <1>3 DEF Prints
  <2> QED
    BY <2>1 DEF Prints
<1>4. NoPrint \in Prints
  BY DEF Prints, NoPrint
<1> QED
  BY <1>1, <1>2, <1>3, <1>4

(* A call starts one print and touches no other. *)
LEMMA CallChanges ==
  ASSUME TypeOK, NEW c \in CPUs, NEW l \in Levels, NEW how \in {"lock", "try"}, Call(c, l, how)
  PROVE  /\ print' \in [CPUs -> [Levels -> Prints]]
         /\ print'[c][l].at = how /\ ~print'[c][l].writer
         /\ \A d \in CPUs, k \in Levels : d # c \/ k # l => print'[d][k] = print[d][k]
<1>1. print' = [print EXCEPT ![c] = [print[c] EXCEPT ![l] = [at |-> how, left |-> RECORD, writer |-> FALSE]]]
  BY DEF Call
<1>2. print'[c][l] = [at |-> how, left |-> RECORD, writer |-> FALSE]
  BY <1>1 DEF TypeOK
<1>3. [at |-> how, left |-> RECORD, writer |-> FALSE] \in Prints
  BY SmpAssumption DEF Prints
<1>4. print' \in [CPUs -> [Levels -> Prints]]
  BY <1>1, <1>3 DEF TypeOK
<1>5. ASSUME NEW d \in CPUs, NEW k \in Levels, d # c \/ k # l PROVE print'[d][k] = print[d][k]
  BY <1>1, <1>5 DEF TypeOK
<1> QED
  BY <1>2, <1>4, <1>5

(* A step of a print changes the print of the running level. *)
LEMMA StepChanges ==
  ASSUME TypeOK, NEW c \in CPUs, NEW p \in Prints, Step(c, p)
  PROVE  /\ print' \in [CPUs -> [Levels -> Prints]]
         /\ print'[c][Level(c)] = p
         /\ \A d \in CPUs, k \in Levels : d # c \/ k # Level(c) => print'[d][k] = print[d][k]
<1> DEFINE l == Level(c)
<1>1. l \in Levels
  BY Basics
<1>2. print' = [print EXCEPT ![c] = [print[c] EXCEPT ![l] = p]]
  BY DEF Step
<1> HIDE DEF l
<1>3. print' \in [CPUs -> [Levels -> Prints]] /\ print'[c][l] = p
  BY <1>1, <1>2 DEF TypeOK
<1>4. ASSUME NEW d \in CPUs, NEW k \in Levels, d # c \/ k # l PROVE print'[d][k] = print[d][k]
  BY <1>1, <1>2, <1>4 DEF TypeOK
<1> QED
  BY <1>3, <1>4 DEF l

-----------------------------------------------------------------------------
(* A step keeps the types. *)
LEMMA TypeNext == TypeOK /\ [Next]_vars => TypeOK'
<1> SUFFICES ASSUME TypeOK, [Next]_vars PROVE TypeOK'
  OBVIOUS
<1> USE SmpAssumption, Basics DEF TypeOK, CPUs, Levels, Locks, BootStatements, Statements, bringup, setup, At, Goto
<1>1. CASE LateInit
  BY <1>1 DEF LateInit
<1>2. CASE StartSecondaries
  BY <1>2 DEF StartSecondaries
<1>3. CASE CpuOn
  <2>1. print' \in [CPUs -> [Levels -> Prints]]
    BY <1>3, CallChanges DEF CpuOn
  <2>2. target \in CPUs /\ target' \in 1 .. MAX_CPUS /\ woken' \in Nat
    BY <1>3 DEF CpuOn
  <2>3. power' \in [CPUs -> {"off", "starting", "on"}]
    BY <1>3, <2>2 DEF CpuOn
  <2> QED
    BY <1>3, <2>1, <2>2, <2>3 DEF CpuOn, setup
<1>4. CASE CpuOnDone
  BY <1>4 DEF CpuOnDone
<1>5. CASE WaitOnline
  <2>1. print' \in [CPUs -> [Levels -> Prints]]
    BY <1>5, CallChanges DEF WaitOnline
  <2>2. spins' \in 0 .. SPINS
    BY <1>5 DEF WaitOnline
  <2> QED
    BY <1>5, <2>1, <2>2 DEF WaitOnline
<1>6. CASE SpawnLock
  BY <1>6, CallChanges DEF SpawnLock
<1>7. CASE SpawnPush
  BY <1>7, CallChanges DEF SpawnPush
<1>8. CASE Run
  BY <1>8 DEF Run
<1>9. CASE Kprint
  BY <1>9, CallChanges DEF Kprint
<1>10. CASE Spawn
  BY <1>10 DEF Spawn
<1>11. CASE Getb
  BY <1>11, CallChanges DEF Getb
<1>12. CASE GetbDone
  BY <1>12 DEF GetbDone
<1>13. CASE ExitCurrent
  BY <1>13, CallChanges DEF ExitCurrent
<1>14. CASE ExitUnlock
  BY <1>14 DEF ExitUnlock
<1>15. ASSUME NEW c \in CPUs, LockWriter(c) PROVE TypeOK'
  <2>1. [Printing(c) EXCEPT !.at = "write", !.writer = TRUE] \in Prints
    BY <1>15, PrintingType, PrintUpdates DEF LockWriter
  <2>2. print' \in [CPUs -> [Levels -> Prints]]
    BY <1>15, <2>1, StepChanges DEF LockWriter
  <2> QED
    BY <1>15, <2>2 DEF LockWriter
<1>16. ASSUME NEW c \in CPUs, LockConsole(c) PROVE TypeOK'
  <2>1. [Printing(c) EXCEPT !.at = "put", !.left = Printing(c).left - 1] \in Prints
    BY <1>16, PrintingType, PrintUpdates DEF LockConsole
  <2>2. print' \in [CPUs -> [Levels -> Prints]]
    BY <1>16, <2>1, StepChanges DEF LockConsole
  <2> QED
    BY <1>16, <2>2 DEF LockConsole
<1>17. ASSUME NEW c \in CPUs, OnTick(c) PROVE TypeOK'
  BY <1>17 DEF OnTick
<1>18. ASSUME NEW c \in CPUs, TryWriter(c) PROVE TypeOK'
  <2>1. [Printing(c) EXCEPT !.at = "write", !.writer = owner["WRITER"] = None] \in Prints
    BY <1>18, PrintingType, PrintUpdates DEF TryWriter
  <2>2. print' \in [CPUs -> [Levels -> Prints]]
    BY <1>18, <2>1, StepChanges DEF TryWriter
  <2> QED
    BY <1>18, <2>2 DEF TryWriter
<1>19. ASSUME NEW c \in CPUs, UnlockConsole(c) PROVE TypeOK'
  <2>1. [Printing(c) EXCEPT !.at = "write"] \in Prints
    BY <1>19, PrintingType, PrintUpdates DEF UnlockConsole
  <2>2. print' \in [CPUs -> [Levels -> Prints]]
    BY <1>19, <2>1, StepChanges DEF UnlockConsole
  <2> QED
    BY <1>19, <2>2 DEF UnlockConsole
<1>20. ASSUME NEW c \in CPUs, EndRecord(c) PROVE TypeOK'
  <2>1. NoPrint \in Prints
    BY DEF NoPrint, Prints
  <2>2. print' \in [CPUs -> [Levels -> Prints]]
    BY <1>20, <2>1, CallChanges, StepChanges DEF EndRecord, Levels
  <2>3. panicking' \in [CPUs -> {"no", "message", "newline", "halted"}]
    BY <1>20 DEF EndRecord
  <2>4. owner' \in [Locks -> CPUs \cup {None}]
    BY <1>20 DEF EndRecord
  <2>5. handler' \in [CPUs -> {"none", "tick", "warn"}] /\ masked' \subseteq CPUs
    <3>1. CASE Level(c) = "irq"
      <4>1. handler' = [handler EXCEPT ![c] = "none"] /\ masked' = masked \ {c}
        BY <1>20, <3>1 DEF EndRecord
      <4> QED
        BY <4>1
    <3>2. CASE Level(c) # "irq"
      BY <1>20, <3>2 DEF EndRecord
    <3> QED
      BY <3>1, <3>2
  <2>6. UNCHANGED <<intc, power, pc, bringup, setup>>
    BY <1>20 DEF EndRecord
  <2> QED
    BY <2>2, <2>3, <2>4, <2>5, <2>6
<1>21. ASSUME NEW c \in CPUs, Register(c) PROVE TypeOK'
  BY <1>21 DEF Register
<1>22. ASSUME NEW c \in CPUs, InstallVectors(c) PROVE TypeOK'
  BY <1>22 DEF InstallVectors
<1>23. ASSUME NEW c \in CPUs, GicInitPerCpu(c) PROVE TypeOK'
  BY <1>23 DEF GicInitPerCpu
<1>24. ASSUME NEW c \in CPUs, TimerInit(c) PROVE TypeOK'
  BY <1>24 DEF TimerInit
<1>25. ASSUME NEW c \in CPUs, EnableIrqs(c) PROVE TypeOK'
  BY <1>25 DEF EnableIrqs
<1>26. ASSUME NEW c \in CPUs, MarkOnline(c) PROVE TypeOK'
  BY <1>26, CallChanges DEF MarkOnline
<1>27. ASSUME NEW c \in CPUs, PowerUp(c) PROVE TypeOK'
  BY <1>27 DEF PowerUp
<1>28. ASSUME NEW c \in CPUs, TakeTick(c) PROVE TypeOK'
  BY <1>28 DEF TakeTick
<1>29. ASSUME NEW c \in CPUs, TakeUnrouted(c) PROVE TypeOK'
  BY <1>29, CallChanges DEF TakeUnrouted
<1>30. ASSUME NEW c \in CPUs, PanicAt(c) PROVE TypeOK'
  BY <1>30, CallChanges DEF PanicAt
<1>31. CASE UNCHANGED vars
  BY <1>31 DEF vars
<1> QED
  BY <1>1, <1>2, <1>3, <1>4, <1>5, <1>6, <1>7, <1>8, <1>9, <1>10, <1>11, <1>12, <1>13, <1>14, <1>15, <1>16,
     <1>17, <1>18, <1>19, <1>20, <1>21, <1>22, <1>23, <1>24, <1>25, <1>26, <1>27, <1>28, <1>29, <1>30, <1>31
     DEF Next, Boot, Threads, Acquire, Advance, Secondary

(* A step keeps what the set-up statements have established. *)
LEMMA SetUpNext == TypeOK /\ SetUpInv /\ [Next]_vars => SetUpInv'
<1> SUFFICES ASSUME TypeOK /\ SetUpInv, [Next]_vars PROVE SetUpInv'
  OBVIOUS
<1> USE SmpAssumption, Basics DEF TypeOK, SetUpInv, SetUp, Registered, HasVectors, HasTimer, CPUs, BootStatements, Statements, bringup, setup, At, Goto
<1>1. CASE LateInit
  BY <1>1 DEF LateInit
<1>2. CASE StartSecondaries
  BY <1>2 DEF StartSecondaries
<1>3. CASE CpuOn
  BY <1>3 DEF CpuOn
<1>4. CASE CpuOnDone
  BY <1>4 DEF CpuOnDone
<1>5. CASE WaitOnline
  BY <1>5 DEF WaitOnline
<1>6. CASE SpawnLock
  BY <1>6 DEF SpawnLock
<1>7. CASE SpawnPush
  BY <1>7 DEF SpawnPush
<1>8. CASE Run
  BY <1>8 DEF Run
<1>9. CASE Kprint
  BY <1>9 DEF Kprint
<1>10. CASE Spawn
  BY <1>10 DEF Spawn
<1>11. CASE Getb
  BY <1>11 DEF Getb
<1>12. CASE GetbDone
  BY <1>12 DEF GetbDone
<1>13. CASE ExitCurrent
  BY <1>13 DEF ExitCurrent
<1>14. CASE ExitUnlock
  BY <1>14 DEF ExitUnlock
<1>15. ASSUME NEW c \in CPUs, LockWriter(c) PROVE SetUpInv'
  BY <1>15 DEF LockWriter
<1>16. ASSUME NEW c \in CPUs, LockConsole(c) PROVE SetUpInv'
  BY <1>16 DEF LockConsole
<1>17. ASSUME NEW c \in CPUs, OnTick(c) PROVE SetUpInv'
  BY <1>17 DEF OnTick, Interruptible, Level
<1>18. ASSUME NEW c \in CPUs, TryWriter(c) PROVE SetUpInv'
  BY <1>18 DEF TryWriter
<1>19. ASSUME NEW c \in CPUs, UnlockConsole(c) PROVE SetUpInv'
  BY <1>19 DEF UnlockConsole
<1>20. ASSUME NEW c \in CPUs, EndRecord(c) PROVE SetUpInv'
  <2>1. Level(c) = "irq" => handler[c] # "none"
    BY <1>20 DEF Level
  <2>2. CASE Level(c) = "irq"
    <3>1. handler' = [handler EXCEPT ![c] = "none"] /\ masked' = masked \ {c}
      BY <1>20, <2>2 DEF EndRecord
    <3>2. UNCHANGED <<intc, power, pc, bringup, setup>>
      BY <1>20 DEF EndRecord
    <3> QED
      BY <2>1, <2>2, <3>1, <3>2
  <2>3. CASE Level(c) # "irq"
    BY <1>20, <2>3 DEF EndRecord
  <2> QED
    BY <2>2, <2>3
<1>21. ASSUME NEW c \in CPUs, Register(c) PROVE SetUpInv'
  BY <1>21 DEF Register
<1>22. ASSUME NEW c \in CPUs, InstallVectors(c) PROVE SetUpInv'
  BY <1>22 DEF InstallVectors
<1>23. ASSUME NEW c \in CPUs, GicInitPerCpu(c) PROVE SetUpInv'
  BY <1>23 DEF GicInitPerCpu
<1>24. ASSUME NEW c \in CPUs, TimerInit(c) PROVE SetUpInv'
  BY <1>24 DEF TimerInit
<1>25. ASSUME NEW c \in CPUs, EnableIrqs(c) PROVE SetUpInv'
  BY <1>25, ZenonT(60) DEF EnableIrqs
<1>26. ASSUME NEW c \in CPUs, MarkOnline(c) PROVE SetUpInv'
  BY <1>26 DEF MarkOnline
<1>27. ASSUME NEW c \in CPUs, PowerUp(c) PROVE SetUpInv'
  BY <1>27 DEF PowerUp
<1>28. ASSUME NEW c \in CPUs, TakeTick(c) PROVE SetUpInv'
  BY <1>28 DEF TakeTick, Interruptible, Level
<1>29. ASSUME NEW c \in CPUs, TakeUnrouted(c) PROVE SetUpInv'
  BY <1>29 DEF TakeUnrouted, Interruptible, Level
<1>30. ASSUME NEW c \in CPUs, PanicAt(c) PROVE SetUpInv'
  BY <1>30 DEF PanicAt, Interruptible, Level
<1>31. CASE UNCHANGED vars
  BY <1>31 DEF vars
<1> QED
  BY <1>1, <1>2, <1>3, <1>4, <1>5, <1>6, <1>7, <1>8, <1>9, <1>10, <1>11, <1>12, <1>13, <1>14, <1>15, <1>16,
     <1>17, <1>18, <1>19, <1>20, <1>21, <1>22, <1>23, <1>24, <1>25, <1>26, <1>27, <1>28, <1>29, <1>30, <1>31
     DEF Next, Boot, Threads, Acquire, Advance, Secondary

(* A step that prints nothing keeps a CPU's locks with the code that took them, if it moves *)
(* the CPU's own code only between statements that go with the locks it holds.              *)
LEMMA SilentStep ==
  ASSUME NEW d \in CPUs, LockOf(d), \A k \in Levels : print'[d][k] = print[d][k],
         panicking'[d] = panicking[d],
         handler'[d] = handler[d] \/ (panicking[d] = "no" /\ print[d]["irq"].at = "none"),
         owner'["WRITER"] = d => owner["WRITER"] = d,
         owner'["SCHED"] = d => pc'[d] \in {"push", "exit"},
         owner'["CONSOLE"] = d => pc'[d] = "getb" \/ (owner["CONSOLE"] = d /\ pc[d] # "getb"),
         pc'[d] = "getb" => pc[d] = "getb" \/ (panicking[d] = "no" /\ print[d]["base"].at = "none")
  PROVE  LockOf(d)'
<1>1. SchedOf(d)'
  BY DEF SchedOf
<1>2. WriterOf(d)'
  BY DEF LockOf, WriterOf
<1>3. ConsoleOf(d)'
  BY DEF LockOf, ConsoleOf
<1>4. PrintsOf(d)'
  <2>1. PrintsOf(d)
    BY DEF LockOf
  <2>2. /\ print'[d]["base"] = print[d]["base"] /\ print'[d]["irq"] = print[d]["irq"]
        /\ print'[d]["panic"] = print[d]["panic"]
    BY DEF Levels
  <2>3. \A l \in Levels : print'[d][l].writer => print'[d][l].at \in {"write", "put"}
    BY <2>1 DEF PrintsOf
  <2> QED
    BY <2>1, <2>2, <2>3 DEF PrintsOf
<1> QED
  BY <1>1, <1>2, <1>3, <1>4 DEF LockOf

(* A CPU that a step of another CPU leaves alone, and which gains no lock by it, keeps its locks. *)
LEMMA Undisturbed ==
  ASSUME NEW d \in CPUs, LockOf(d), pc'[d] = pc[d], panicking'[d] = panicking[d], handler'[d] = handler[d],
         \A k \in Levels : print'[d][k] = print[d][k],
         \A k \in Locks : owner'[k] = d => owner[k] = d
  PROVE  LockOf(d)'
<1>1. owner'["SCHED"] = d => pc'[d] \in {"push", "exit"}
  BY DEF LockOf, SchedOf, Locks
<1>2. /\ owner'["WRITER"] = d => owner["WRITER"] = d
      /\ owner'["CONSOLE"] = d => owner["CONSOLE"] = d
  BY DEF Locks
<1> QED
  BY <1>1, <1>2, SilentStep

(* A step that changes the print of one level of a CPU keeps its locks with the code that   *)
(* took them, if what it takes, keeps and releases goes with the new state of that print.    *)
LEMMA PrintStep ==
  ASSUME NEW c \in CPUs, NEW l \in Levels, LockOf(c),
         \A k \in Levels : k # l => print'[c][k] = print[c][k],
         owner'["SCHED"] = c => pc'[c] \in {"push", "exit"},
         owner'["WRITER"] = c => print'[c][l].writer \/ (owner["WRITER"] = c /\ ~print[c][l].writer),
         owner'["CONSOLE"] = c =>
            \/ print'[c][l].at = "put"
            \/ owner["CONSOLE"] = c /\ print[c][l].at # "put" /\ (pc'[c] = pc[c] \/ pc[c] # "getb"),
         print'[c][l].writer => print'[c][l].at \in {"write", "put"},
         pc'[c] = "getb" => pc[c] = "getb" /\ l # "base",
         handler'[c] # "warn" => (handler[c] # "warn" /\ l # "irq") \/ (l = "irq" /\ print'[c][l].at = "none"),
         panicking'[c] = "no" => panicking[c] = "no" /\ l # "panic",
         panicking'[c] # "no" => /\ handler'[c] = "none" /\ pc'[c] # "getb" /\ l = "panic"
                                /\ print[c]["base"].at \in {"none", "write"},
         l = "panic" => print'[c][l].at # "lock"
  PROVE  LockOf(c)'
<1>1. SchedOf(c)'
  BY DEF SchedOf
<1>2. WriterOf(c)'
  <2>1. CASE owner["WRITER"] = c /\ ~print[c][l].writer
    <3>1. PICK k \in Levels : print[c][k].writer
      BY <2>1 DEF LockOf, WriterOf
    <3>2. k # l
      BY <2>1, <3>1
    <3> QED
      BY <3>1, <3>2 DEF WriterOf
  <2>2. CASE print'[c][l].writer
    BY <2>2 DEF WriterOf
  <2> QED
    BY <2>1, <2>2 DEF WriterOf
<1>3. ConsoleOf(c)'
  <2>1. CASE owner["CONSOLE"] = c /\ print[c][l].at # "put" /\ pc[c] # "getb"
    <3>1. PICK k \in Levels : print[c][k].at = "put"
      BY <2>1 DEF LockOf, ConsoleOf
    <3> QED
      BY <2>1, <3>1 DEF ConsoleOf
  <2>2. CASE print'[c][l].at = "put" \/ (pc'[c] = pc[c] /\ pc[c] = "getb")
    BY <2>2 DEF ConsoleOf
  <2> QED
    BY <2>1, <2>2 DEF ConsoleOf
<1>4. PrintsOf(c)'
  <2>1. PrintsOf(c)
    BY DEF LockOf
  <2>2. \A k \in Levels : print'[c][k].writer => print'[c][k].at \in {"write", "put"}
    <3> TAKE k \in Levels
    <3>1. CASE k = l
      BY <3>1
    <3>2. CASE k # l
      BY <2>1, <3>2 DEF PrintsOf
    <3> QED
      BY <3>1, <3>2
  <2>3. /\ l # "base" => print'[c]["base"] = print[c]["base"]
        /\ l # "irq" => print'[c]["irq"] = print[c]["irq"]
        /\ l # "panic" => print'[c]["panic"] = print[c]["panic"]
    BY DEF Levels
  <2>4. pc'[c] = "getb" => print'[c]["base"].at = "none"
    BY <2>1, <2>3 DEF PrintsOf
  <2>5. handler'[c] # "warn" => print'[c]["irq"].at = "none"
    BY <2>1, <2>3 DEF PrintsOf
  <2>6. panicking'[c] = "no" => print'[c]["panic"].at = "none"
    BY <2>1, <2>3 DEF PrintsOf
  <2>7. panicking'[c] # "no" => /\ handler'[c] = "none" /\ pc'[c] # "getb"
                               /\ print'[c]["base"].at \in {"none", "write"}
    BY <2>3
  <2>8. print'[c]["panic"].at # "lock"
    BY <2>1, <2>3 DEF PrintsOf
  <2> QED
    BY <2>2, <2>4, <2>5, <2>6, <2>7, <2>8 DEF PrintsOf
<1> QED
  BY <1>1, <1>2, <1>3, <1>4 DEF LockOf

(* A step keeps every lock with the code that took it. *)
LEMMA LockNext == TypeOK /\ LockInv /\ [Next]_vars => LockInv'
<1>0. SUFFICES ASSUME TypeOK /\ LockInv, [Next]_vars, NEW d \in CPUs PROVE LockOf(d)'
  BY DEF LockInv
<1> USE DEF At, Goto, bringup, setup
<1>a. LockOf(d) /\ SchedOf(d) /\ PrintsOf(d)
  BY <1>0 DEF LockInv, LockOf
<1>b. TypeOK
  BY <1>0
<1>t. /\ pc \in [CPUs -> BootStatements \cup Statements] /\ handler \in [CPUs -> {"none", "tick", "warn"}]
      /\ panicking \in [CPUs -> {"no", "message", "newline", "halted"}]
      /\ owner \in [Locks -> CPUs \cup {None}] /\ None \notin CPUs
      /\ 0 \in CPUs /\ \A c \in CPUs : Level(c) \in Levels
  BY <1>b, Basics DEF TypeOK
<1>l. /\ "base" \in Levels /\ "irq" \in Levels /\ "panic" \in Levels
      /\ "SCHED" \in Locks /\ "WRITER" \in Locks /\ "CONSOLE" \in Locks
  BY DEF Levels, Locks
<1>1. CASE LateInit
  <2>1. /\ \A k \in Levels : print'[d][k] = print[d][k]
        /\ panicking'[d] = panicking[d]
        /\ handler'[d] = handler[d]
        /\ owner'["WRITER"] = d => owner["WRITER"] = d
        /\ owner'["SCHED"] = d => pc'[d] \in {"push", "exit"}
        /\ owner'["CONSOLE"] = d => pc'[d] = "getb" \/ (owner["CONSOLE"] = d /\ pc[d] # "getb")
        /\ pc'[d] = "getb" => pc[d] = "getb" \/ (panicking[d] = "no" /\ print[d]["base"].at = "none")
    BY <1>t, <1>l, <1>a, <1>1 DEF LateInit, SchedOf, Level, Printing, Idle
  <2> QED
    BY <1>a, <2>1, SilentStep
<1>2. CASE StartSecondaries
  <2>1. /\ \A k \in Levels : print'[d][k] = print[d][k]
        /\ panicking'[d] = panicking[d]
        /\ handler'[d] = handler[d]
        /\ owner'["WRITER"] = d => owner["WRITER"] = d
        /\ owner'["SCHED"] = d => pc'[d] \in {"push", "exit"}
        /\ owner'["CONSOLE"] = d => pc'[d] = "getb" \/ (owner["CONSOLE"] = d /\ pc[d] # "getb")
        /\ pc'[d] = "getb" => pc[d] = "getb" \/ (panicking[d] = "no" /\ print[d]["base"].at = "none")
    BY <1>t, <1>l, <1>a, <1>2 DEF StartSecondaries, SchedOf, Level, Printing, Idle
  <2> QED
    BY <1>a, <2>1, SilentStep
<1>3. CASE CpuOn
  <2>1. CASE Call(0, "base", "lock")
    <3>1. /\ print'[0]["base"].at = "lock" /\ ~print'[0]["base"].writer
          /\ \A e \in CPUs, k \in Levels : e # 0 \/ k # "base" => print'[e][k] = print[e][k]
      BY <1>b, <1>t, <1>l, <2>1, CallChanges
    <3>2. /\ panicking[0] = "no" /\ handler[0] = "none" /\ print[0]["base"].at = "none"
          /\ pc[0] # "getb" /\ pc'[0] # "getb"
          /\ UNCHANGED <<handler, panicking>>
      BY <1>t, <1>l, <1>3 DEF CpuOn, Level, Idle, Printing
    <3>3. CASE d # 0
      <4>1. /\ \A k \in Levels : print'[d][k] = print[d][k]
            /\ \A k \in Locks : owner'[k] = d => owner[k] = d
            /\ pc'[d] = pc[d] /\ panicking'[d] = panicking[d] /\ handler'[d] = handler[d]
        BY <1>t, <1>l, <1>3, <3>1, <3>3 DEF CpuOn
      <4> QED
        BY <1>a, <4>1, Undisturbed
    <3>4. CASE d = 0
      <4>1. ~print[0]["base"].writer
        BY <1>l, <1>a, <3>2, <3>4 DEF PrintsOf
      <4>2. /\ owner'["SCHED"] = 0 => pc'[0] \in {"push", "exit"}
            /\ owner'["WRITER"] = 0 => owner["WRITER"] = 0
            /\ owner'["CONSOLE"] = 0 => owner["CONSOLE"] = 0
        BY <1>t, <1>l, <1>a, <1>3, <3>4 DEF CpuOn, SchedOf
      <4> QED
        BY <1>l, <1>a, <3>1, <3>2, <3>4, <4>1, <4>2, PrintStep
    <3> QED
      BY <3>3, <3>4
  <2>2. CASE print' = print
    <3>1. /\ \A k \in Levels : print'[d][k] = print[d][k]
          /\ panicking'[d] = panicking[d]
          /\ handler'[d] = handler[d]
          /\ owner'["WRITER"] = d => owner["WRITER"] = d
          /\ owner'["SCHED"] = d => pc'[d] \in {"push", "exit"}
          /\ owner'["CONSOLE"] = d => pc'[d] = "getb" \/ (owner["CONSOLE"] = d /\ pc[d] # "getb")
          /\ pc'[d] = "getb" => pc[d] = "getb" \/ (panicking[d] = "no" /\ print[d]["base"].at = "none")
      BY <1>t, <1>l, <1>a, <1>3, <2>2 DEF CpuOn, SchedOf, Level, Printing, Idle
    <3> QED
      BY <1>a, <3>1, SilentStep
  <2> QED
    BY <1>t, <1>l, <1>3, <2>1, <2>2 DEF CpuOn
<1>4. CASE CpuOnDone
  <2>1. /\ \A k \in Levels : print'[d][k] = print[d][k]
        /\ panicking'[d] = panicking[d]
        /\ handler'[d] = handler[d]
        /\ owner'["WRITER"] = d => owner["WRITER"] = d
        /\ owner'["SCHED"] = d => pc'[d] \in {"push", "exit"}
        /\ owner'["CONSOLE"] = d => pc'[d] = "getb" \/ (owner["CONSOLE"] = d /\ pc[d] # "getb")
        /\ pc'[d] = "getb" => pc[d] = "getb" \/ (panicking[d] = "no" /\ print[d]["base"].at = "none")
    BY <1>t, <1>l, <1>a, <1>4 DEF CpuOnDone, SchedOf, Level, Printing, Idle
  <2> QED
    BY <1>a, <2>1, SilentStep
<1>5. CASE WaitOnline
  <2>1. CASE Call(0, "base", "lock")
    <3>1. /\ print'[0]["base"].at = "lock" /\ ~print'[0]["base"].writer
          /\ \A e \in CPUs, k \in Levels : e # 0 \/ k # "base" => print'[e][k] = print[e][k]
      BY <1>b, <1>t, <1>l, <2>1, CallChanges
    <3>2. /\ panicking[0] = "no" /\ handler[0] = "none" /\ print[0]["base"].at = "none"
          /\ pc[0] # "getb" /\ pc'[0] # "getb"
          /\ UNCHANGED <<handler, panicking>>
      BY <1>t, <1>l, <1>5 DEF WaitOnline, Level, Idle, Printing
    <3>3. CASE d # 0
      <4>1. /\ \A k \in Levels : print'[d][k] = print[d][k]
            /\ \A k \in Locks : owner'[k] = d => owner[k] = d
            /\ pc'[d] = pc[d] /\ panicking'[d] = panicking[d] /\ handler'[d] = handler[d]
        BY <1>t, <1>l, <1>5, <3>1, <3>3 DEF WaitOnline
      <4> QED
        BY <1>a, <4>1, Undisturbed
    <3>4. CASE d = 0
      <4>1. ~print[0]["base"].writer
        BY <1>l, <1>a, <3>2, <3>4 DEF PrintsOf
      <4>2. /\ owner'["SCHED"] = 0 => pc'[0] \in {"push", "exit"}
            /\ owner'["WRITER"] = 0 => owner["WRITER"] = 0
            /\ owner'["CONSOLE"] = 0 => owner["CONSOLE"] = 0
        BY <1>t, <1>l, <1>a, <1>5, <3>4 DEF WaitOnline, SchedOf
      <4> QED
        BY <1>l, <1>a, <3>1, <3>2, <3>4, <4>1, <4>2, PrintStep
    <3> QED
      BY <3>3, <3>4
  <2>2. CASE print' = print
    <3>1. /\ \A k \in Levels : print'[d][k] = print[d][k]
          /\ panicking'[d] = panicking[d]
          /\ handler'[d] = handler[d]
          /\ owner'["WRITER"] = d => owner["WRITER"] = d
          /\ owner'["SCHED"] = d => pc'[d] \in {"push", "exit"}
          /\ owner'["CONSOLE"] = d => pc'[d] = "getb" \/ (owner["CONSOLE"] = d /\ pc[d] # "getb")
          /\ pc'[d] = "getb" => pc[d] = "getb" \/ (panicking[d] = "no" /\ print[d]["base"].at = "none")
      BY <1>t, <1>l, <1>a, <1>5, <2>2 DEF WaitOnline, SchedOf, Level, Printing, Idle
    <3> QED
      BY <1>a, <3>1, SilentStep
  <2> QED
    BY <1>t, <1>l, <1>5, <2>1, <2>2 DEF WaitOnline
<1>6. CASE SpawnLock
  <2>1. /\ \A k \in Levels : print'[d][k] = print[d][k]
        /\ panicking'[d] = panicking[d]
        /\ handler'[d] = handler[d]
        /\ owner'["WRITER"] = d => owner["WRITER"] = d
        /\ owner'["SCHED"] = d => pc'[d] \in {"push", "exit"}
        /\ owner'["CONSOLE"] = d => pc'[d] = "getb" \/ (owner["CONSOLE"] = d /\ pc[d] # "getb")
        /\ pc'[d] = "getb" => pc[d] = "getb" \/ (panicking[d] = "no" /\ print[d]["base"].at = "none")
    BY <1>t, <1>l, <1>a, <1>6 DEF SpawnLock, SchedOf, Level, Printing, Idle
  <2> QED
    BY <1>a, <2>1, SilentStep
<1>7. CASE SpawnPush
  <2>1. CASE Call(0, "base", "lock")
    <3>1. /\ print'[0]["base"].at = "lock" /\ ~print'[0]["base"].writer
          /\ \A e \in CPUs, k \in Levels : e # 0 \/ k # "base" => print'[e][k] = print[e][k]
      BY <1>b, <1>t, <1>l, <2>1, CallChanges
    <3>2. /\ panicking[0] = "no" /\ handler[0] = "none" /\ print[0]["base"].at = "none"
          /\ pc[0] # "getb" /\ pc'[0] # "getb"
          /\ UNCHANGED <<handler, panicking>>
      BY <1>t, <1>l, <1>7 DEF SpawnPush, Level, Idle, Printing
    <3>3. CASE d # 0
      <4>1. /\ \A k \in Levels : print'[d][k] = print[d][k]
            /\ \A k \in Locks : owner'[k] = d => owner[k] = d
            /\ pc'[d] = pc[d] /\ panicking'[d] = panicking[d] /\ handler'[d] = handler[d]
        BY <1>t, <1>l, <1>7, <3>1, <3>3 DEF SpawnPush
      <4> QED
        BY <1>a, <4>1, Undisturbed
    <3>4. CASE d = 0
      <4>1. ~print[0]["base"].writer
        BY <1>l, <1>a, <3>2, <3>4 DEF PrintsOf
      <4>2. /\ owner'["SCHED"] = 0 => pc'[0] \in {"push", "exit"}
            /\ owner'["WRITER"] = 0 => owner["WRITER"] = 0
            /\ owner'["CONSOLE"] = 0 => owner["CONSOLE"] = 0
        BY <1>t, <1>l, <1>a, <1>7, <3>4 DEF SpawnPush, SchedOf
      <4> QED
        BY <1>l, <1>a, <3>1, <3>2, <3>4, <4>1, <4>2, PrintStep
    <3> QED
      BY <3>3, <3>4
  <2>2. CASE print' = print
    <3>1. /\ \A k \in Levels : print'[d][k] = print[d][k]
          /\ panicking'[d] = panicking[d]
          /\ handler'[d] = handler[d]
          /\ owner'["WRITER"] = d => owner["WRITER"] = d
          /\ owner'["SCHED"] = d => pc'[d] \in {"push", "exit"}
          /\ owner'["CONSOLE"] = d => pc'[d] = "getb" \/ (owner["CONSOLE"] = d /\ pc[d] # "getb")
          /\ pc'[d] = "getb" => pc[d] = "getb" \/ (panicking[d] = "no" /\ print[d]["base"].at = "none")
      BY <1>t, <1>l, <1>a, <1>7, <2>2 DEF SpawnPush, SchedOf, Level, Printing, Idle
    <3> QED
      BY <1>a, <3>1, SilentStep
  <2> QED
    BY <1>t, <1>l, <1>7, <2>1, <2>2 DEF SpawnPush
<1>8. CASE Run
  <2>1. /\ \A k \in Levels : print'[d][k] = print[d][k]
        /\ panicking'[d] = panicking[d]
        /\ handler'[d] = handler[d]
        /\ owner'["WRITER"] = d => owner["WRITER"] = d
        /\ owner'["SCHED"] = d => pc'[d] \in {"push", "exit"}
        /\ owner'["CONSOLE"] = d => pc'[d] = "getb" \/ (owner["CONSOLE"] = d /\ pc[d] # "getb")
        /\ pc'[d] = "getb" => pc[d] = "getb" \/ (panicking[d] = "no" /\ print[d]["base"].at = "none")
    BY <1>t, <1>l, <1>a, <1>8 DEF Run, SchedOf, Level, Printing, Idle
  <2> QED
    BY <1>a, <2>1, SilentStep
<1>9. CASE Kprint
  <2>1. /\ print'[0]["base"].at = "try" /\ ~print'[0]["base"].writer
        /\ \A e \in CPUs, k \in Levels : e # 0 \/ k # "base" => print'[e][k] = print[e][k]
    BY <1>b, <1>t, <1>l, <1>9, CallChanges DEF Kprint
  <2>2. /\ panicking[0] = "no" /\ handler[0] = "none" /\ print[0]["base"].at = "none"
        /\ pc[0] # "getb" /\ pc'[0] # "getb"
        /\ UNCHANGED <<handler, panicking>>
    BY <1>t, <1>l, <1>9 DEF Kprint, Level, Idle, Printing
  <2>3. CASE d # 0
    <3>1. /\ \A k \in Levels : print'[d][k] = print[d][k]
          /\ \A k \in Locks : owner'[k] = d => owner[k] = d
          /\ pc'[d] = pc[d] /\ panicking'[d] = panicking[d] /\ handler'[d] = handler[d]
      BY <1>t, <1>l, <1>9, <2>1, <2>3 DEF Kprint
    <3> QED
      BY <1>a, <3>1, Undisturbed
  <2>4. CASE d = 0
    <3>1. ~print[0]["base"].writer
      BY <1>l, <1>a, <2>2, <2>4 DEF PrintsOf
    <3>2. /\ owner'["SCHED"] = 0 => pc'[0] \in {"push", "exit"}
          /\ owner'["WRITER"] = 0 => owner["WRITER"] = 0
          /\ owner'["CONSOLE"] = 0 => owner["CONSOLE"] = 0
      BY <1>t, <1>l, <1>a, <1>9, <2>4 DEF Kprint, SchedOf
    <3> QED
      BY <1>l, <1>a, <2>1, <2>2, <2>4, <3>1, <3>2, PrintStep
  <2> QED
    BY <2>3, <2>4
<1>10. CASE Spawn
  <2>1. /\ \A k \in Levels : print'[d][k] = print[d][k]
        /\ panicking'[d] = panicking[d]
        /\ handler'[d] = handler[d]
        /\ owner'["WRITER"] = d => owner["WRITER"] = d
        /\ owner'["SCHED"] = d => pc'[d] \in {"push", "exit"}
        /\ owner'["CONSOLE"] = d => pc'[d] = "getb" \/ (owner["CONSOLE"] = d /\ pc[d] # "getb")
        /\ pc'[d] = "getb" => pc[d] = "getb" \/ (panicking[d] = "no" /\ print[d]["base"].at = "none")
    BY <1>t, <1>l, <1>a, <1>10 DEF Spawn, SchedOf, Level, Printing, Idle
  <2> QED
    BY <1>a, <2>1, SilentStep
<1>11. CASE Getb
  <2>1. /\ \A k \in Levels : print'[d][k] = print[d][k]
        /\ panicking'[d] = panicking[d]
        /\ handler'[d] = handler[d]
        /\ owner'["WRITER"] = d => owner["WRITER"] = d
        /\ owner'["SCHED"] = d => pc'[d] \in {"push", "exit"}
        /\ owner'["CONSOLE"] = d => pc'[d] = "getb" \/ (owner["CONSOLE"] = d /\ pc[d] # "getb")
        /\ pc'[d] = "getb" => pc[d] = "getb" \/ (panicking[d] = "no" /\ print[d]["base"].at = "none")
    BY <1>t, <1>l, <1>a, <1>11 DEF Getb, SchedOf, Level, Printing, Idle
  <2> QED
    BY <1>a, <2>1, SilentStep
<1>12. CASE GetbDone
  <2>1. /\ \A k \in Levels : print'[d][k] = print[d][k]
        /\ panicking'[d] = panicking[d]
        /\ handler'[d] = handler[d]
        /\ owner'["WRITER"] = d => owner["WRITER"] = d
        /\ owner'["SCHED"] = d => pc'[d] \in {"push", "exit"}
        /\ owner'["CONSOLE"] = d => pc'[d] = "getb" \/ (owner["CONSOLE"] = d /\ pc[d] # "getb")
        /\ pc'[d] = "getb" => pc[d] = "getb" \/ (panicking[d] = "no" /\ print[d]["base"].at = "none")
    BY <1>t, <1>l, <1>a, <1>12 DEF GetbDone, SchedOf, Level, Printing, Idle
  <2> QED
    BY <1>a, <2>1, SilentStep
<1>13. CASE ExitCurrent
  <2>1. /\ print'[0]["base"].at = "lock" /\ ~print'[0]["base"].writer
        /\ \A e \in CPUs, k \in Levels : e # 0 \/ k # "base" => print'[e][k] = print[e][k]
    BY <1>b, <1>t, <1>l, <1>13, CallChanges DEF ExitCurrent
  <2>2. /\ panicking[0] = "no" /\ handler[0] = "none" /\ print[0]["base"].at = "none"
        /\ pc[0] # "getb" /\ pc'[0] # "getb"
        /\ UNCHANGED <<handler, panicking>>
    BY <1>t, <1>l, <1>13 DEF ExitCurrent, Level, Idle, Printing
  <2>3. CASE d # 0
    <3>1. /\ \A k \in Levels : print'[d][k] = print[d][k]
          /\ \A k \in Locks : owner'[k] = d => owner[k] = d
          /\ pc'[d] = pc[d] /\ panicking'[d] = panicking[d] /\ handler'[d] = handler[d]
      BY <1>t, <1>l, <1>13, <2>1, <2>3 DEF ExitCurrent
    <3> QED
      BY <1>a, <3>1, Undisturbed
  <2>4. CASE d = 0
    <3>1. ~print[0]["base"].writer
      BY <1>l, <1>a, <2>2, <2>4 DEF PrintsOf
    <3>2. /\ owner'["SCHED"] = 0 => pc'[0] \in {"push", "exit"}
          /\ owner'["WRITER"] = 0 => owner["WRITER"] = 0
          /\ owner'["CONSOLE"] = 0 => owner["CONSOLE"] = 0
      BY <1>t, <1>l, <1>a, <1>13, <2>4 DEF ExitCurrent, SchedOf
    <3> QED
      BY <1>l, <1>a, <2>1, <2>2, <2>4, <3>1, <3>2, PrintStep
  <2> QED
    BY <2>3, <2>4
<1>14. CASE ExitUnlock
  <2>1. /\ \A k \in Levels : print'[d][k] = print[d][k]
        /\ panicking'[d] = panicking[d]
        /\ handler'[d] = handler[d]
        /\ owner'["WRITER"] = d => owner["WRITER"] = d
        /\ owner'["SCHED"] = d => pc'[d] \in {"push", "exit"}
        /\ owner'["CONSOLE"] = d => pc'[d] = "getb" \/ (owner["CONSOLE"] = d /\ pc[d] # "getb")
        /\ pc'[d] = "getb" => pc[d] = "getb" \/ (panicking[d] = "no" /\ print[d]["base"].at = "none")
    BY <1>t, <1>l, <1>a, <1>14 DEF ExitUnlock, SchedOf, Level, Printing, Idle
  <2> QED
    BY <1>a, <2>1, SilentStep
<1>15. ASSUME NEW c \in CPUs, LockWriter(c) PROVE LockOf(d)'
  <2> DEFINE l == Level(c)
  <2> DEFINE p == [Printing(c) EXCEPT !.at = "write", !.writer = TRUE]
  <2>a. Printing(c) \in Prints /\ p \in Prints
    BY <1>b, <1>t, <1>l, <1>15, PrintingType, PrintUpdates DEF LockWriter
  <2>b. print'[c][l] = p /\ \A e \in CPUs, k \in Levels : e # c \/ k # l => print'[e][k] = print[e][k]
    BY <1>b, <1>t, <1>l, <1>15, <2>a, StepChanges DEF LockWriter
  <2>1. /\ print'[c][l].at = "write" /\ print'[c][l].writer
        /\ \A e \in CPUs, k \in Levels : e # c \/ k # l => print'[e][k] = print[e][k]
    BY <2>a, <2>b DEF Prints
  <2> HIDE DEF p
  <2>2. /\ l \in Levels /\ Printing(c) = print[c][l]
        /\ l = "base" => panicking[c] = "no" /\ handler[c] = "none"
        /\ l = "irq" => panicking[c] = "no" /\ handler[c] # "none"
        /\ l = "panic" => panicking[c] # "no"
        /\ UNCHANGED <<handler, panicking, pc>>
    BY <1>t, <1>l, <1>15 DEF LockWriter, Level, Printing
  <2> HIDE DEF l
  <2>3. CASE d # c
    <3>1. /\ \A k \in Levels : print'[d][k] = print[d][k]
          /\ \A k \in Locks : owner'[k] = d => owner[k] = d
          /\ pc'[d] = pc[d] /\ panicking'[d] = panicking[d] /\ handler'[d] = handler[d]
      BY <1>t, <1>l, <1>15, <2>1, <2>3 DEF LockWriter
    <3> QED
      BY <1>a, <3>1, Undisturbed
  <2>4. CASE d = c
    <3>1. /\ owner'["SCHED"] = c => pc'[c] \in {"push", "exit"}
          /\ owner'["WRITER"] = c => print'[c][l].writer
          /\ owner'["CONSOLE"] = c => owner["CONSOLE"] = c /\ print[c][l].at # "put"
      BY <1>t, <1>l, <1>a, <1>15, <2>1, <2>2, <2>4 DEF LockWriter, SchedOf
    <3>2. /\ l = "irq" => handler[c] = "warn"
          /\ l = "base" => pc[c] # "getb"
          /\ l = "panic" => /\ handler[c] = "none" /\ pc[c] # "getb"
                            /\ print[c]["base"].at \in {"none", "write"}
      BY <1>t, <1>l, <1>a, <1>15, <2>2, <2>4 DEF LockWriter, PrintsOf
    <3>4. /\ owner'["WRITER"] = c => print'[c][l].writer \/ (owner["WRITER"] = c /\ ~print[c][l].writer)
          /\ owner'["CONSOLE"] = c =>
               \/ print'[c][l].at = "put"
               \/ owner["CONSOLE"] = c /\ print[c][l].at # "put" /\ (pc'[c] = pc[c] \/ pc[c] # "getb")
          /\ print'[c][l].writer => print'[c][l].at \in {"write", "put"}
      BY <2>1, <2>2, <3>1, <3>2
    <3>5. /\ pc'[c] = "getb" => pc[c] = "getb" /\ l # "base"
          /\ handler'[c] # "warn" => (handler[c] # "warn" /\ l # "irq") \/ (l = "irq" /\ print'[c][l].at = "none")
          /\ panicking'[c] = "no" => panicking[c] = "no" /\ l # "panic"
          /\ panicking'[c] # "no" => /\ handler'[c] = "none" /\ pc'[c] # "getb" /\ l = "panic"
                                     /\ print[c]["base"].at \in {"none", "write"}
          /\ l = "panic" => print'[c][l].at # "lock"
      BY <2>1, <2>2, <3>2 DEF Levels
    <3>6. \A k \in Levels : k # l => print'[c][k] = print[c][k]
      BY <2>1
    <3> QED
      BY <1>a, <2>2, <2>4, <3>1, <3>4, <3>5, <3>6, PrintStep
  <2> QED
    BY <2>3, <2>4
<1>16. ASSUME NEW c \in CPUs, LockConsole(c) PROVE LockOf(d)'
  <2> DEFINE l == Level(c)
  <2> DEFINE p == [Printing(c) EXCEPT !.at = "put", !.left = @ - 1]
  <2>a. Printing(c) \in Prints /\ p \in Prints
    BY <1>b, <1>t, <1>l, <1>16, PrintingType, PrintUpdates DEF LockConsole
  <2>b. print'[c][l] = p /\ \A e \in CPUs, k \in Levels : e # c \/ k # l => print'[e][k] = print[e][k]
    BY <1>b, <1>t, <1>l, <1>16, <2>a, StepChanges DEF LockConsole
  <2>1. /\ print'[c][l].at = "put" /\ print'[c][l].writer = Printing(c).writer
        /\ \A e \in CPUs, k \in Levels : e # c \/ k # l => print'[e][k] = print[e][k]
    BY <2>a, <2>b DEF Prints
  <2> HIDE DEF p
  <2>2. /\ l \in Levels /\ Printing(c) = print[c][l]
        /\ l = "base" => panicking[c] = "no" /\ handler[c] = "none"
        /\ l = "irq" => panicking[c] = "no" /\ handler[c] # "none"
        /\ l = "panic" => panicking[c] # "no"
        /\ UNCHANGED <<handler, panicking, pc>>
    BY <1>t, <1>l, <1>16 DEF LockConsole, Level, Printing
  <2> HIDE DEF l
  <2>3. CASE d # c
    <3>1. /\ \A k \in Levels : print'[d][k] = print[d][k]
          /\ \A k \in Locks : owner'[k] = d => owner[k] = d
          /\ pc'[d] = pc[d] /\ panicking'[d] = panicking[d] /\ handler'[d] = handler[d]
      BY <1>t, <1>l, <1>16, <2>1, <2>3 DEF LockConsole
    <3> QED
      BY <1>a, <3>1, Undisturbed
  <2>4. CASE d = c
    <3>1. /\ owner'["SCHED"] = c => pc'[c] \in {"push", "exit"}
          /\ owner'["WRITER"] = c => owner["WRITER"] = c /\ (print[c][l].writer <=> print'[c][l].writer)
          /\ owner'["CONSOLE"] = c => print'[c][l].at = "put"
      BY <1>t, <1>l, <1>a, <1>16, <2>1, <2>2, <2>4 DEF LockConsole, SchedOf
    <3>2. /\ l = "irq" => handler[c] = "warn"
          /\ l = "base" => pc[c] # "getb"
          /\ l = "panic" => /\ handler[c] = "none" /\ pc[c] # "getb"
                            /\ print[c]["base"].at \in {"none", "write"}
      BY <1>t, <1>l, <1>a, <1>16, <2>2, <2>4 DEF LockConsole, PrintsOf
    <3>4. /\ owner'["WRITER"] = c => print'[c][l].writer \/ (owner["WRITER"] = c /\ ~print[c][l].writer)
          /\ owner'["CONSOLE"] = c =>
               \/ print'[c][l].at = "put"
               \/ owner["CONSOLE"] = c /\ print[c][l].at # "put" /\ (pc'[c] = pc[c] \/ pc[c] # "getb")
          /\ print'[c][l].writer => print'[c][l].at \in {"write", "put"}
      BY <2>1, <2>2, <3>1, <3>2
    <3>5. /\ pc'[c] = "getb" => pc[c] = "getb" /\ l # "base"
          /\ handler'[c] # "warn" => (handler[c] # "warn" /\ l # "irq") \/ (l = "irq" /\ print'[c][l].at = "none")
          /\ panicking'[c] = "no" => panicking[c] = "no" /\ l # "panic"
          /\ panicking'[c] # "no" => /\ handler'[c] = "none" /\ pc'[c] # "getb" /\ l = "panic"
                                     /\ print[c]["base"].at \in {"none", "write"}
          /\ l = "panic" => print'[c][l].at # "lock"
      BY <2>1, <2>2, <3>2 DEF Levels
    <3>6. \A k \in Levels : k # l => print'[c][k] = print[c][k]
      BY <2>1
    <3> QED
      BY <1>a, <2>2, <2>4, <3>1, <3>4, <3>5, <3>6, PrintStep
  <2> QED
    BY <2>3, <2>4
<1>17. ASSUME NEW c \in CPUs, OnTick(c) PROVE LockOf(d)'
  <2>1. /\ handler'[d] = handler[d] \/ (panicking[d] = "no" /\ handler[d] # "warn")
        /\ UNCHANGED <<pc, panicking, print, owner>>
    BY <1>t, <1>l, <1>17 DEF OnTick, Level
  <2>2. handler[d] # "warn" => print[d]["irq"].at = "none"
    BY <1>a DEF PrintsOf
  <2>3. owner'["SCHED"] = d => pc'[d] \in {"push", "exit"}
    BY <1>a, <2>1 DEF SchedOf
  <2> QED
    BY <1>a, <2>1, <2>2, <2>3, SilentStep
<1>18. ASSUME NEW c \in CPUs, TryWriter(c) PROVE LockOf(d)'
  <2> DEFINE l == Level(c)
  <2> DEFINE p == [Printing(c) EXCEPT !.at = "write", !.writer = owner["WRITER"] = None]
  <2>a. Printing(c) \in Prints /\ p \in Prints
    BY <1>b, <1>t, <1>l, <1>18, PrintingType, PrintUpdates DEF TryWriter
  <2>b. print'[c][l] = p /\ \A e \in CPUs, k \in Levels : e # c \/ k # l => print'[e][k] = print[e][k]
    BY <1>b, <1>t, <1>l, <1>18, <2>a, StepChanges DEF TryWriter
  <2>1. /\ print'[c][l].at = "write" /\ (print'[c][l].writer <=> owner["WRITER"] = None)
        /\ \A e \in CPUs, k \in Levels : e # c \/ k # l => print'[e][k] = print[e][k]
    BY <2>a, <2>b DEF Prints
  <2> HIDE DEF p
  <2>2. /\ l \in Levels /\ Printing(c) = print[c][l]
        /\ l = "base" => panicking[c] = "no" /\ handler[c] = "none"
        /\ l = "irq" => panicking[c] = "no" /\ handler[c] # "none"
        /\ l = "panic" => panicking[c] # "no"
        /\ UNCHANGED <<handler, panicking, pc>>
    BY <1>t, <1>l, <1>18 DEF TryWriter, Level, Printing
  <2> HIDE DEF l
  <2>3. CASE d # c
    <3>1. /\ \A k \in Levels : print'[d][k] = print[d][k]
          /\ \A k \in Locks : owner'[k] = d => owner[k] = d
          /\ pc'[d] = pc[d] /\ panicking'[d] = panicking[d] /\ handler'[d] = handler[d]
      BY <1>t, <1>l, <1>18, <2>1, <2>3 DEF TryWriter
    <3> QED
      BY <1>a, <3>1, Undisturbed
  <2>4. CASE d = c
    <3>1. /\ owner'["SCHED"] = c => pc'[c] \in {"push", "exit"}
          /\ owner'["WRITER"] = c => print'[c][l].writer \/ owner["WRITER"] = c
          /\ owner'["CONSOLE"] = c => owner["CONSOLE"] = c /\ print[c][l].at # "put"
      BY <1>t, <1>l, <1>a, <1>18, <2>1, <2>2, <2>4 DEF TryWriter, SchedOf
    <3>2. /\ l = "irq" => handler[c] = "warn"
          /\ l = "base" => pc[c] # "getb"
          /\ l = "panic" => /\ handler[c] = "none" /\ pc[c] # "getb"
                            /\ print[c]["base"].at \in {"none", "write"}
      BY <1>t, <1>l, <1>a, <1>18, <2>2, <2>4 DEF TryWriter, PrintsOf
    <3>3. ~print[c][l].writer
      BY <1>t, <1>l, <1>a, <1>18, <2>2, <2>4 DEF TryWriter, PrintsOf
    <3>4. /\ owner'["WRITER"] = c => print'[c][l].writer \/ (owner["WRITER"] = c /\ ~print[c][l].writer)
          /\ owner'["CONSOLE"] = c =>
               \/ print'[c][l].at = "put"
               \/ owner["CONSOLE"] = c /\ print[c][l].at # "put" /\ (pc'[c] = pc[c] \/ pc[c] # "getb")
          /\ print'[c][l].writer => print'[c][l].at \in {"write", "put"}
      BY <2>1, <2>2, <3>1, <3>2, <3>3
    <3>5. /\ pc'[c] = "getb" => pc[c] = "getb" /\ l # "base"
          /\ handler'[c] # "warn" => (handler[c] # "warn" /\ l # "irq") \/ (l = "irq" /\ print'[c][l].at = "none")
          /\ panicking'[c] = "no" => panicking[c] = "no" /\ l # "panic"
          /\ panicking'[c] # "no" => /\ handler'[c] = "none" /\ pc'[c] # "getb" /\ l = "panic"
                                     /\ print[c]["base"].at \in {"none", "write"}
          /\ l = "panic" => print'[c][l].at # "lock"
      BY <2>1, <2>2, <3>2 DEF Levels
    <3>6. \A k \in Levels : k # l => print'[c][k] = print[c][k]
      BY <2>1
    <3> QED
      BY <1>a, <2>2, <2>4, <3>1, <3>4, <3>5, <3>6, PrintStep
  <2> QED
    BY <2>3, <2>4
<1>19. ASSUME NEW c \in CPUs, UnlockConsole(c) PROVE LockOf(d)'
  <2> DEFINE l == Level(c)
  <2> DEFINE p == [Printing(c) EXCEPT !.at = "write"]
  <2>a. Printing(c) \in Prints /\ p \in Prints
    BY <1>b, <1>t, <1>l, <1>19, PrintingType, PrintUpdates DEF UnlockConsole
  <2>b. print'[c][l] = p /\ \A e \in CPUs, k \in Levels : e # c \/ k # l => print'[e][k] = print[e][k]
    BY <1>b, <1>t, <1>l, <1>19, <2>a, StepChanges DEF UnlockConsole
  <2>1. /\ print'[c][l].at = "write" /\ print'[c][l].writer = Printing(c).writer
        /\ \A e \in CPUs, k \in Levels : e # c \/ k # l => print'[e][k] = print[e][k]
    BY <2>a, <2>b DEF Prints
  <2> HIDE DEF p
  <2>2. /\ l \in Levels /\ Printing(c) = print[c][l]
        /\ l = "base" => panicking[c] = "no" /\ handler[c] = "none"
        /\ l = "irq" => panicking[c] = "no" /\ handler[c] # "none"
        /\ l = "panic" => panicking[c] # "no"
        /\ UNCHANGED <<handler, panicking, pc>>
    BY <1>t, <1>l, <1>19 DEF UnlockConsole, Level, Printing
  <2> HIDE DEF l
  <2>3. CASE d # c
    <3>1. /\ \A k \in Levels : print'[d][k] = print[d][k]
          /\ \A k \in Locks : owner'[k] = d => owner[k] = d
          /\ pc'[d] = pc[d] /\ panicking'[d] = panicking[d] /\ handler'[d] = handler[d]
      BY <1>t, <1>l, <1>19, <2>1, <2>3 DEF UnlockConsole
    <3> QED
      BY <1>a, <3>1, Undisturbed
  <2>4. CASE d = c
    <3>1. /\ owner'["SCHED"] = c => pc'[c] \in {"push", "exit"}
          /\ owner'["WRITER"] = c => owner["WRITER"] = c /\ (print[c][l].writer <=> print'[c][l].writer)
          /\ owner'["CONSOLE"] = c => print'[c][l].at = "put"
      BY <1>t, <1>l, <1>a, <1>19, <2>1, <2>2, <2>4 DEF UnlockConsole, SchedOf
    <3>2. /\ l = "irq" => handler[c] = "warn"
          /\ l = "base" => pc[c] # "getb"
          /\ l = "panic" => /\ handler[c] = "none" /\ pc[c] # "getb"
                            /\ print[c]["base"].at \in {"none", "write"}
      BY <1>t, <1>l, <1>a, <1>19, <2>2, <2>4 DEF UnlockConsole, PrintsOf
    <3>4. /\ owner'["WRITER"] = c => print'[c][l].writer \/ (owner["WRITER"] = c /\ ~print[c][l].writer)
          /\ owner'["CONSOLE"] = c =>
               \/ print'[c][l].at = "put"
               \/ owner["CONSOLE"] = c /\ print[c][l].at # "put" /\ (pc'[c] = pc[c] \/ pc[c] # "getb")
          /\ print'[c][l].writer => print'[c][l].at \in {"write", "put"}
      BY <2>1, <2>2, <3>1, <3>2
    <3>5. /\ pc'[c] = "getb" => pc[c] = "getb" /\ l # "base"
          /\ handler'[c] # "warn" => (handler[c] # "warn" /\ l # "irq") \/ (l = "irq" /\ print'[c][l].at = "none")
          /\ panicking'[c] = "no" => panicking[c] = "no" /\ l # "panic"
          /\ panicking'[c] # "no" => /\ handler'[c] = "none" /\ pc'[c] # "getb" /\ l = "panic"
                                     /\ print[c]["base"].at \in {"none", "write"}
          /\ l = "panic" => print'[c][l].at # "lock"
      BY <2>1, <2>2, <3>2 DEF Levels
    <3>6. \A k \in Levels : k # l => print'[c][k] = print[c][k]
      BY <2>1
    <3> QED
      BY <1>a, <2>2, <2>4, <3>1, <3>4, <3>5, <3>6, PrintStep
  <2> QED
    BY <2>3, <2>4
<1>20. ASSUME NEW c \in CPUs, EndRecord(c) PROVE LockOf(d)'
  <2> DEFINE l == Level(c)
  <2>a. Printing(c) \in Prints /\ NoPrint \in Prints
    BY <1>b, <1>t, <1>l, PrintingType, PrintUpdates
  <2>1. /\ print'[c][l].at # "lock" /\ ~print'[c][l].writer
        /\ print'[c][l].at = "none" \/ panicking[c] = "message"
        /\ \A e \in CPUs, k \in Levels : e # c \/ k # l => print'[e][k] = print[e][k]
    <3>1. CASE panicking[c] = "message"
      <4>1. Call(c, "panic", "try") /\ Level(c) = "panic"
        BY <1>t, <1>l, <1>20, <3>1 DEF EndRecord, Level
      <4> QED
        BY <1>b, <1>t, <1>l, <3>1, <4>1, CallChanges
    <3>2. CASE panicking[c] # "message"
      <4>1. Step(c, NoPrint)
        BY <1>t, <1>l, <1>20, <3>2 DEF EndRecord
      <4> QED
        BY <1>b, <1>t, <1>l, <2>a, <4>1, StepChanges DEF NoPrint
    <3> QED
      BY <3>1, <3>2
  <2>2. /\ l \in Levels /\ Printing(c) = print[c][l] /\ print[c][l].at = "write"
        /\ l = "base" => panicking[c] = "no" /\ handler[c] = "none" /\ handler'[c] = "none"
        /\ l = "irq" => panicking[c] = "no" /\ handler'[c] = "none"
        /\ l = "panic" => panicking[c] # "no" /\ handler'[c] = handler[c]
        /\ panicking'[c] = "no" <=> panicking[c] = "no"
        /\ pc' = pc
    BY <1>t, <1>l, <1>20 DEF EndRecord, Level, Printing
  <2> HIDE DEF l
  <2>3. CASE d # c
    <3>1. /\ \A k \in Levels : print'[d][k] = print[d][k]
          /\ \A k \in Locks : owner'[k] = d => owner[k] = d
          /\ pc'[d] = pc[d] /\ panicking'[d] = panicking[d] /\ handler'[d] = handler[d]
      BY <1>t, <1>l, <1>20, <2>1, <2>3 DEF EndRecord
    <3> QED
      BY <1>a, <3>1, Undisturbed
  <2>4. CASE d = c
    <3>1. /\ owner'["SCHED"] = c => pc'[c] \in {"push", "exit"}
          /\ owner'["WRITER"] = c => owner["WRITER"] = c /\ ~Printing(c).writer
          /\ owner'["CONSOLE"] = c => owner["CONSOLE"] = c
      BY <1>t, <1>l, <1>a, <1>20, <2>4 DEF EndRecord, SchedOf
    <3>2. /\ l = "base" => pc[c] # "getb"
          /\ l = "panic" => /\ handler[c] = "none" /\ pc[c] # "getb"
                            /\ print[c]["base"].at \in {"none", "write"}
      BY <1>a, <2>2, <2>4 DEF PrintsOf
    <3>4. /\ owner'["WRITER"] = c => print'[c][l].writer \/ (owner["WRITER"] = c /\ ~print[c][l].writer)
          /\ owner'["CONSOLE"] = c =>
               \/ print'[c][l].at = "put"
               \/ owner["CONSOLE"] = c /\ print[c][l].at # "put" /\ (pc'[c] = pc[c] \/ pc[c] # "getb")
          /\ print'[c][l].writer => print'[c][l].at \in {"write", "put"}
      BY <2>1, <2>2, <3>1, <3>2
    <3>5. /\ pc'[c] = "getb" => pc[c] = "getb" /\ l # "base"
          /\ handler'[c] # "warn" => (handler[c] # "warn" /\ l # "irq") \/ (l = "irq" /\ print'[c][l].at = "none")
          /\ panicking'[c] = "no" => panicking[c] = "no" /\ l # "panic"
          /\ panicking'[c] # "no" => /\ handler'[c] = "none" /\ pc'[c] # "getb" /\ l = "panic"
                                     /\ print[c]["base"].at \in {"none", "write"}
          /\ l = "panic" => print'[c][l].at # "lock"
      BY <2>1, <2>2, <3>2 DEF Levels
    <3>6. \A k \in Levels : k # l => print'[c][k] = print[c][k]
      BY <2>1
    <3> QED
      BY <1>a, <2>2, <2>4, <3>1, <3>4, <3>5, <3>6, PrintStep
  <2> QED
    BY <2>3, <2>4
<1>21. ASSUME NEW c \in CPUs, Register(c) PROVE LockOf(d)'
  <2>1. /\ \A k \in Levels : print'[d][k] = print[d][k]
        /\ panicking'[d] = panicking[d]
        /\ handler'[d] = handler[d]
        /\ owner'["WRITER"] = d => owner["WRITER"] = d
        /\ owner'["SCHED"] = d => pc'[d] \in {"push", "exit"}
        /\ owner'["CONSOLE"] = d => pc'[d] = "getb" \/ (owner["CONSOLE"] = d /\ pc[d] # "getb")
        /\ pc'[d] = "getb" => pc[d] = "getb" \/ (panicking[d] = "no" /\ print[d]["base"].at = "none")
    BY <1>t, <1>l, <1>a, <1>21 DEF Register, SchedOf, Level, Printing, Idle
  <2> QED
    BY <1>a, <2>1, SilentStep
<1>22. ASSUME NEW c \in CPUs, InstallVectors(c) PROVE LockOf(d)'
  <2>1. /\ \A k \in Levels : print'[d][k] = print[d][k]
        /\ panicking'[d] = panicking[d]
        /\ handler'[d] = handler[d]
        /\ owner'["WRITER"] = d => owner["WRITER"] = d
        /\ owner'["SCHED"] = d => pc'[d] \in {"push", "exit"}
        /\ owner'["CONSOLE"] = d => pc'[d] = "getb" \/ (owner["CONSOLE"] = d /\ pc[d] # "getb")
        /\ pc'[d] = "getb" => pc[d] = "getb" \/ (panicking[d] = "no" /\ print[d]["base"].at = "none")
    BY <1>t, <1>l, <1>a, <1>22 DEF InstallVectors, SchedOf, Level, Printing, Idle
  <2> QED
    BY <1>a, <2>1, SilentStep
<1>23. ASSUME NEW c \in CPUs, GicInitPerCpu(c) PROVE LockOf(d)'
  <2>1. /\ \A k \in Levels : print'[d][k] = print[d][k]
        /\ panicking'[d] = panicking[d]
        /\ handler'[d] = handler[d]
        /\ owner'["WRITER"] = d => owner["WRITER"] = d
        /\ owner'["SCHED"] = d => pc'[d] \in {"push", "exit"}
        /\ owner'["CONSOLE"] = d => pc'[d] = "getb" \/ (owner["CONSOLE"] = d /\ pc[d] # "getb")
        /\ pc'[d] = "getb" => pc[d] = "getb" \/ (panicking[d] = "no" /\ print[d]["base"].at = "none")
    BY <1>t, <1>l, <1>a, <1>23 DEF GicInitPerCpu, SchedOf, Level, Printing, Idle
  <2> QED
    BY <1>a, <2>1, SilentStep
<1>24. ASSUME NEW c \in CPUs, TimerInit(c) PROVE LockOf(d)'
  <2>1. /\ \A k \in Levels : print'[d][k] = print[d][k]
        /\ panicking'[d] = panicking[d]
        /\ handler'[d] = handler[d]
        /\ owner'["WRITER"] = d => owner["WRITER"] = d
        /\ owner'["SCHED"] = d => pc'[d] \in {"push", "exit"}
        /\ owner'["CONSOLE"] = d => pc'[d] = "getb" \/ (owner["CONSOLE"] = d /\ pc[d] # "getb")
        /\ pc'[d] = "getb" => pc[d] = "getb" \/ (panicking[d] = "no" /\ print[d]["base"].at = "none")
    BY <1>t, <1>l, <1>a, <1>24 DEF TimerInit, SchedOf, Level, Printing, Idle
  <2> QED
    BY <1>a, <2>1, SilentStep
<1>25. ASSUME NEW c \in CPUs, EnableIrqs(c) PROVE LockOf(d)'
  <2>1. /\ \A k \in Levels : print'[d][k] = print[d][k]
        /\ panicking'[d] = panicking[d]
        /\ handler'[d] = handler[d]
        /\ owner'["WRITER"] = d => owner["WRITER"] = d
        /\ owner'["SCHED"] = d => pc'[d] \in {"push", "exit"}
        /\ owner'["CONSOLE"] = d => pc'[d] = "getb" \/ (owner["CONSOLE"] = d /\ pc[d] # "getb")
        /\ pc'[d] = "getb" => pc[d] = "getb" \/ (panicking[d] = "no" /\ print[d]["base"].at = "none")
    BY <1>t, <1>l, <1>a, <1>25 DEF EnableIrqs, SchedOf, Level, Printing, Idle
  <2> QED
    BY <1>a, <2>1, SilentStep
<1>26. ASSUME NEW c \in CPUs, MarkOnline(c) PROVE LockOf(d)'
  <2>1. /\ print'[c]["base"].at = "lock" /\ ~print'[c]["base"].writer
        /\ \A e \in CPUs, k \in Levels : e # c \/ k # "base" => print'[e][k] = print[e][k]
    BY <1>b, <1>t, <1>l, <1>26, CallChanges DEF MarkOnline
  <2>2. /\ panicking[c] = "no" /\ handler[c] = "none" /\ print[c]["base"].at = "none"
        /\ pc[c] # "getb" /\ pc'[c] # "getb"
        /\ UNCHANGED <<handler, panicking>>
    BY <1>t, <1>l, <1>26 DEF MarkOnline, Level, Idle, Printing
  <2>3. CASE d # c
    <3>1. /\ \A k \in Levels : print'[d][k] = print[d][k]
          /\ \A k \in Locks : owner'[k] = d => owner[k] = d
          /\ pc'[d] = pc[d] /\ panicking'[d] = panicking[d] /\ handler'[d] = handler[d]
      BY <1>t, <1>l, <1>26, <2>1, <2>3 DEF MarkOnline
    <3> QED
      BY <1>a, <3>1, Undisturbed
  <2>4. CASE d = c
    <3>1. ~print[c]["base"].writer
      BY <1>l, <1>a, <2>2, <2>4 DEF PrintsOf
    <3>2. /\ owner'["SCHED"] = c => pc'[c] \in {"push", "exit"}
          /\ owner'["WRITER"] = c => owner["WRITER"] = c
          /\ owner'["CONSOLE"] = c => owner["CONSOLE"] = c
      BY <1>t, <1>l, <1>a, <1>26, <2>4 DEF MarkOnline, SchedOf
    <3> QED
      BY <1>l, <1>a, <2>1, <2>2, <2>4, <3>1, <3>2, PrintStep
  <2> QED
    BY <2>3, <2>4
<1>27. ASSUME NEW c \in CPUs, PowerUp(c) PROVE LockOf(d)'
  <2>1. /\ \A k \in Levels : print'[d][k] = print[d][k]
        /\ panicking'[d] = panicking[d]
        /\ handler'[d] = handler[d]
        /\ owner'["WRITER"] = d => owner["WRITER"] = d
        /\ owner'["SCHED"] = d => pc'[d] \in {"push", "exit"}
        /\ owner'["CONSOLE"] = d => pc'[d] = "getb" \/ (owner["CONSOLE"] = d /\ pc[d] # "getb")
        /\ pc'[d] = "getb" => pc[d] = "getb" \/ (panicking[d] = "no" /\ print[d]["base"].at = "none")
    BY <1>t, <1>l, <1>a, <1>27 DEF PowerUp, SchedOf, Level, Printing, Idle
  <2> QED
    BY <1>a, <2>1, SilentStep
<1>28. ASSUME NEW c \in CPUs, TakeTick(c) PROVE LockOf(d)'
  <2>1. /\ handler'[d] = handler[d] \/ (panicking[d] = "no" /\ handler[d] # "warn")
        /\ UNCHANGED <<pc, panicking, print, owner>>
    BY <1>t, <1>l, <1>28 DEF TakeTick, Interruptible, Level
  <2>2. handler[d] # "warn" => print[d]["irq"].at = "none"
    BY <1>a DEF PrintsOf
  <2>3. owner'["SCHED"] = d => pc'[d] \in {"push", "exit"}
    BY <1>a, <2>1 DEF SchedOf
  <2> QED
    BY <1>a, <2>1, <2>2, <2>3, SilentStep
<1>29. ASSUME NEW c \in CPUs, TakeUnrouted(c) PROVE LockOf(d)'
  <2>1. /\ print'[c]["irq"].at = "lock" /\ ~print'[c]["irq"].writer
        /\ \A e \in CPUs, k \in Levels : e # c \/ k # "irq" => print'[e][k] = print[e][k]
    BY <1>b, <1>t, <1>l, <1>29, CallChanges DEF TakeUnrouted
  <2>2. /\ handler[c] = "none" /\ panicking[c] = "no"
        /\ handler'[c] = "warn" /\ panicking'[c] = "no"
        /\ UNCHANGED <<pc, owner>>
    BY <1>t, <1>l, <1>29 DEF TakeUnrouted, Interruptible, Level
  <2>3. CASE d # c
    <3>1. /\ \A k \in Levels : print'[d][k] = print[d][k]
          /\ \A k \in Locks : owner'[k] = d => owner[k] = d
          /\ pc'[d] = pc[d] /\ panicking'[d] = panicking[d] /\ handler'[d] = handler[d]
      BY <1>t, <1>l, <1>29, <2>1, <2>3 DEF TakeUnrouted
    <3> QED
      BY <1>a, <3>1, Undisturbed
  <2>4. CASE d = c
    <3>1. /\ print[c]["irq"].at = "none"
          /\ owner["SCHED"] = c => pc[c] \in {"push", "exit"}
      BY <1>a, <2>2, <2>4 DEF PrintsOf, SchedOf
    <3>2. ~print[c]["irq"].writer
      BY <1>l, <1>a, <2>4, <3>1 DEF PrintsOf
    <3> QED
      BY <1>l, <1>a, <2>1, <2>2, <2>4, <3>1, <3>2, PrintStep
  <2> QED
    BY <2>3, <2>4
<1>30. ASSUME NEW c \in CPUs, PanicAt(c) PROVE LockOf(d)'
  <2>1. /\ print'[c]["panic"].at = "try" /\ ~print'[c]["panic"].writer
        /\ \A e \in CPUs, k \in Levels : e # c \/ k # "panic" => print'[e][k] = print[e][k]
    BY <1>b, <1>t, <1>l, <1>30, CallChanges DEF PanicAt
  <2>2. /\ handler[c] = "none" /\ panicking[c] = "no"
        /\ handler'[c] = "none" /\ panicking'[c] = "message" /\ pc[c] # "getb"
        /\ print[c]["base"].at \in {"none", "write"}
        /\ UNCHANGED <<pc, owner>>
    BY <1>t, <1>l, <1>30 DEF PanicAt, Level, Printing
  <2>3. CASE d # c
    <3>1. /\ \A k \in Levels : print'[d][k] = print[d][k]
          /\ \A k \in Locks : owner'[k] = d => owner[k] = d
          /\ pc'[d] = pc[d] /\ panicking'[d] = panicking[d] /\ handler'[d] = handler[d]
      BY <1>t, <1>l, <1>30, <2>1, <2>3 DEF PanicAt
    <3> QED
      BY <1>a, <3>1, Undisturbed
  <2>4. CASE d = c
    <3>1. /\ print[c]["panic"].at = "none"
          /\ owner["SCHED"] = c => pc[c] \in {"push", "exit"}
      BY <1>a, <2>2, <2>4 DEF PrintsOf, SchedOf
    <3>2. ~print[c]["panic"].writer
      BY <1>l, <1>a, <2>4, <3>1 DEF PrintsOf
    <3> QED
      BY <1>l, <1>a, <2>1, <2>2, <2>4, <3>1, <3>2, PrintStep
  <2> QED
    BY <2>3, <2>4
<1>31. CASE UNCHANGED vars
  <2>1. UNCHANGED <<pc, handler, panicking, print, owner>>
    BY <1>31 DEF vars
  <2> QED
    BY <1>a, <2>1, Undisturbed
<1> QED
  BY <1>0, <1>1, <1>2, <1>3, <1>4, <1>5, <1>6, <1>7, <1>8, <1>9, <1>10, <1>11, <1>12, <1>13, <1>14, <1>15, <1>16,
     <1>17, <1>18, <1>19, <1>20, <1>21, <1>22, <1>23, <1>24, <1>25, <1>26, <1>27, <1>28, <1>29, <1>30, <1>31
     DEF Next, Boot, Threads, Acquire, Advance, Secondary

-----------------------------------------------------------------------------
(* The inductive invariant holds in every state, for any number of CPUs. *)
THEOREM InductiveInvariant == Spec => []IInv
<1>1. IInv /\ [Next]_vars => IInv'
  BY TypeNext, SetUpNext, LockNext DEF IInv
<1> QED
  BY InitInv, <1>1, PTL DEF Spec

(* Every variable of the bring-up keeps its type. *)
THEOREM TypeCorrect == Spec => []TypeOK
<1>1. IInv => TypeOK
  BY DEF IInv
<1> QED
  BY InductiveInvariant, <1>1, PTL

(* A CPU that takes interrupts or counts as online is completely set up. *)
THEOREM ReadyWhenOnline == Spec => []SetUpBeforeUse
<1>1. IInv => SetUpBeforeUse
  <2> SUFFICES ASSUME IInv PROVE SetUpBeforeUse
    OBVIOUS
  <2>1. TypeOK /\ SetUpInv
    BY DEF IInv
  <2>2. ASSUME NEW c \in CPUs, c \notin masked \/ c \in online \/ handler[c] # "none"
        PROVE  /\ c \in registered \cap vectors \cap interface \cap armed
               /\ intc = "gicv2" => c \in ppi
    BY <2>1, <2>2 DEF SetUpInv, SetUp, Registered, HasVectors, HasTimer
  <2>3. ASSUME NEW c \in CPUs, power[c] # "off", c # 0 PROVE 0 \in online \cap interface
    BY <2>1, <2>3, Basics DEF SetUpInv, SetUp, HasTimer
  <2> QED
    BY <2>2, <2>3 DEF SetUpBeforeUse
<1> QED
  BY InductiveInvariant, <1>1, PTL

(* Outside interrupt handlers no CPU waits for a lock below or equal to one it       *)
(* holds, so waits of booting, exiting and panicking code never form a cycle.        *)
THEOREM LocksOrdered == Spec => []LockOrder
<1>1. IInv => LockOrder
  <2> SUFFICES ASSUME IInv, NEW c \in CPUs, Level(c) # "irq", NEW l \in Wanted(c),
                      NEW h \in Locks, owner[h] = c
               PROVE  Rank[h] < Rank[l]
    BY DEF LockOrder
  <2>1. TypeOK /\ SchedOf(c) /\ WriterOf(c) /\ ConsoleOf(c) /\ PrintsOf(c)
    BY DEF IInv, LockInv, LockOf
  <2>2. CASE l = "WRITER"
    <3>1. Printing(c).at = "lock"
      BY <2>2 DEF Wanted
    <3>2. Level(c) = "base" /\ Printing(c) = print[c]["base"] /\ handler[c] = "none" /\ panicking[c] = "no"
      BY <2>1, <3>1 DEF Level, Printing, PrintsOf
    <3>3. h = "SCHED"
      BY <2>1, <3>1, <3>2 DEF WriterOf, ConsoleOf, PrintsOf, Locks, Levels
    <3> QED
      BY <2>2, <3>3 DEF Rank
  <2>3. CASE l = "CONSOLE"
    <3>1. Printing(c).at = "write"
      BY <2>3 DEF Wanted
    <3>2. h # "CONSOLE"
      BY <2>1, <3>1 DEF ConsoleOf, PrintsOf, Locks, Levels, Level, Printing
    <3> QED
      BY <2>3, <3>2 DEF Rank, Locks
  <2>4. CASE l = "SCHED"
    <3>1. At(c, "spawn")
      BY <2>4 DEF Wanted
    <3>2. FALSE
      BY <2>1, <3>1 DEF SchedOf, WriterOf, ConsoleOf, PrintsOf, Locks, Levels, Level, Printing, Idle, At
    <3> QED
      BY <3>2
  <2> QED
    BY <2>2, <2>3, <2>4 DEF Wanted, Locks
<1> QED
  BY InductiveInvariant, <1>1, PTL
=============================================================================
