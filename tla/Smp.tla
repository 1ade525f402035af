------------------------------------ MODULE Smp ------------------------------------
(***************************************************************************)
(* Bring-up of the secondary CPUs and what all CPUs share afterwards: the   *)
(* console, its two locks, the run queue lock, interrupts and panics.       *)
(*                                                                          *)
(* A CPU executes at one of three levels: its own code ("base"), an         *)
(* interrupt handler on top of it ("irq"), or the panic handler ("panic").  *)
(* Each level may be in the middle of one print.  Locks that are only ever  *)
(* held for a few instructions with interrupts masked (PER_CPU and the STATE *)
(* of the interrupt controller) are part of the step that takes them.        *)
(***************************************************************************)
EXTENDS Naturals, FiniteSets

CONSTANTS MAX_CPUS,    \* CPU ids are 0 .. MAX_CPUS - 1, and 0 is the boot CPU
          SPINS,       \* rounds of the wait for secondaries
          RECORD,      \* bytes of a log record
          MaxPanics,   \* bound: panics in one behaviour
          None

ASSUME SmpAssumption ==
  /\ MAX_CPUS \in Nat \ {0}
  /\ SPINS \in Nat /\ RECORD \in Nat /\ MaxPanics \in Nat
  /\ None \notin 0 .. MAX_CPUS - 1

VARIABLES
  intc,         \* the interrupt controller of the machine
  power,        \* per CPU: "off", "starting" or "on"
  pc,           \* per CPU: the next statement of its own code
  handler,      \* per CPU: the interrupt being handled
  panicking,    \* per CPU: "no", the print under way, or "halted"
  print,        \* per CPU and level: the print under way
  masked,       \* CPUs with interrupts masked
  owner,        \* per lock: the CPU that holds it
  target, woken, spins,              \* start_secondaries
  registered, online,                \* PER_CPU and ONLINE_MASK
  vectors, interface, armed, ppi     \* CPUs set up to take timer interrupts

setup   == <<registered, online, vectors, interface, armed, ppi>>
bringup == <<target, woken, spins>>
vars == <<intc, power, pc, handler, panicking, print, masked, owner, bringup, setup>>

CPUs   == 0 .. MAX_CPUS - 1
Levels == {"base", "irq", "panic"}
Locks  == {"SCHED", "WRITER", "CONSOLE"}
NoPrint == [at |-> "none", left |-> 0, writer |-> FALSE]

Init ==
  /\ intc \in {"gicv2", "gicv3"}
  /\ power = [c \in CPUs |-> IF c = 0 THEN "on" ELSE "off"]
  /\ pc = [c \in CPUs |-> IF c = 0 THEN "late_init" ELSE "register"]
  /\ handler = [c \in CPUs |-> "none"]
  /\ panicking = [c \in CPUs |-> "no"]
  /\ print = [c \in CPUs |-> [l \in Levels |-> NoPrint]]
  /\ masked = CPUs
  /\ owner = [l \in Locks |-> None]
  /\ target = 1 /\ woken = 0 /\ spins = 0
  /\ registered = {} /\ online = {}
  /\ vectors = {} /\ interface = {} /\ armed = {} /\ ppi = {}

-----------------------------------------------------------------------------
Level(c) == IF panicking[c] # "no" THEN "panic" ELSE IF handler[c] # "none" THEN "irq" ELSE "base"
Printing(c) == print[c][Level(c)]
Idle(c) == Printing(c).at = "none"

(* Own code of c is at statement s, and about to execute it. *)
At(c, s) == power[c] = "on" /\ Level(c) = "base" /\ Idle(c) /\ pc[c] = s

Goto(c, s) == pc' = [pc EXCEPT ![c] = s]
Call(c, l, how) == print' = [print EXCEPT ![c][l] = [at |-> how, left |-> RECORD, writer |-> FALSE]]
Step(c, p) == print' = [print EXCEPT ![c][Level(c)] = p]

(* KernelLogger::log spins for WRITER; raw_print writes with or without it. *)
LockWriter(c) ==
  /\ Printing(c).at = "lock" /\ owner["WRITER"] = None
  /\ owner' = [owner EXCEPT !["WRITER"] = c]
  /\ Step(c, [Printing(c) EXCEPT !.at = "write", !.writer = TRUE])
  /\ UNCHANGED <<intc, power, pc, handler, panicking, masked, bringup, setup>>

\* Mutant: raw_print waits for the logger.
TryWriterBlocking(c) ==
  /\ Printing(c).at = "try" /\ owner["WRITER"] = None
  /\ owner' = [owner EXCEPT !["WRITER"] = c]
  /\ Step(c, [Printing(c) EXCEPT !.at = "write", !.writer = TRUE])
  /\ UNCHANGED <<intc, power, pc, handler, panicking, masked, bringup, setup>>

TryWriter(c) ==
  /\ Printing(c).at = "try"
  /\ owner' = [owner EXCEPT !["WRITER"] = IF @ = None THEN c ELSE @]
  /\ Step(c, [Printing(c) EXCEPT !.at = "write", !.writer = owner["WRITER"] = None])
  /\ UNCHANGED <<intc, power, pc, handler, panicking, masked, bringup, setup>>

(* putb: CONSOLE is held for one byte. *)
LockConsole(c) ==
  /\ Printing(c).at = "write" /\ Printing(c).left > 0 /\ owner["CONSOLE"] = None
  /\ owner' = [owner EXCEPT !["CONSOLE"] = c]
  /\ Step(c, [Printing(c) EXCEPT !.at = "put", !.left = @ - 1])
  /\ UNCHANGED <<intc, power, pc, handler, panicking, masked, bringup, setup>>

UnlockConsole(c) ==
  /\ Printing(c).at = "put"
  /\ owner' = [owner EXCEPT !["CONSOLE"] = None]
  /\ Step(c, [Printing(c) EXCEPT !.at = "write"])
  /\ UNCHANGED <<intc, power, pc, handler, panicking, masked, bringup, setup>>

(* The record ends and WRITER is released.  A handler returns after its record;   *)
(* a panic prints its message and then a line end, and halts.                     *)
EndRecord(c) ==
  /\ Printing(c).at = "write" /\ Printing(c).left = 0
  /\ owner' = [owner EXCEPT !["WRITER"] = IF Printing(c).writer THEN None ELSE @]
  /\ IF panicking[c] = "message"
     THEN Call(c, "panic", "try") ELSE Step(c, NoPrint)
  /\ panicking' = [panicking EXCEPT ![c] =
                     CASE @ = "message" -> "newline" [] @ = "newline" -> "halted" [] OTHER -> @]
  /\ IF Level(c) = "irq"
     THEN handler' = [handler EXCEPT ![c] = "none"] /\ masked' = masked \ {c}
     ELSE UNCHANGED <<handler, masked>>
  /\ UNCHANGED <<intc, power, pc, bringup, setup>>

-----------------------------------------------------------------------------
(* late_init on the boot CPU: vectors, gic::init, timer::init. *)
LateInit ==
  /\ At(0, "late_init") /\ Goto(0, "smp")
  /\ vectors' = {0} /\ interface' = {0} /\ armed' = {0} /\ ppi' = {0}
  /\ UNCHANGED <<intc, power, handler, panicking, print, masked, owner, bringup, registered, online>>

StartSecondaries ==
  /\ At(0, "smp") /\ Goto(0, "cpu_on")
  /\ registered' = {0} /\ online' = {0}
  /\ UNCHANGED <<intc, power, handler, panicking, print, masked, owner, bringup,
                 vectors, interface, armed, ppi>>

(* PSCI CPU_ON may start the CPU now or later, or fail silently; a CPU that does  *)
(* not exist ends the loop; any other answer is logged and the loop goes on.      *)
CpuOn ==
  /\ At(0, "cpu_on") /\ target < MAX_CPUS
  /\ \/ /\ \E p \in {"off", "starting"} : power' = [power EXCEPT ![target] = p]
        /\ Call(0, "base", "lock")
        /\ target' = target + 1 /\ woken' = woken + 1 /\ UNCHANGED <<pc, spins>>
     \/ /\ Goto(0, "wait")
        /\ UNCHANGED <<power, print, bringup>>
     \/ /\ Call(0, "base", "lock")
        /\ target' = target + 1 /\ UNCHANGED <<power, pc, woken, spins>>
  /\ UNCHANGED <<intc, handler, panicking, masked, owner, setup>>

CpuOnDone ==
  /\ At(0, "cpu_on") /\ target = MAX_CPUS /\ Goto(0, "wait")
  /\ UNCHANGED <<intc, power, handler, panicking, print, masked, owner, bringup, setup>>

\* Mutant: the boot CPU insists on every secondary.
WaitOnlineForEver ==
  /\ At(0, "wait") /\ Cardinality(online) >= woken + 1
  /\ Goto(0, "spawn") /\ Call(0, "base", "lock") /\ UNCHANGED spins
  /\ UNCHANGED <<intc, power, handler, panicking, masked, owner, target, woken, setup>>

(* The bounded wait, and the line that reports its outcome. *)
WaitOnline ==
  /\ At(0, "wait")
  /\ IF Cardinality(online) >= woken + 1 \/ spins = SPINS
     THEN Goto(0, "spawn") /\ Call(0, "base", "lock") /\ UNCHANGED spins
     ELSE spins' = spins + 1 /\ UNCHANGED <<pc, print>>
  /\ UNCHANGED <<intc, power, handler, panicking, masked, owner, target, woken, setup>>

(* spawn pushes onto the run queue under SCHED, which allocates. *)
SpawnLock ==
  /\ At(0, "spawn") /\ owner["SCHED"] = None /\ Goto(0, "push")
  /\ owner' = [owner EXCEPT !["SCHED"] = 0]
  /\ UNCHANGED <<intc, power, handler, panicking, print, masked, bringup, setup>>

SpawnPush ==
  /\ At(0, "push") /\ Goto(0, IF 0 \in masked THEN "run" ELSE "shell")
  /\ owner' = [owner EXCEPT !["SCHED"] = None]
  /\ IF 0 \in masked THEN Call(0, "base", "lock") ELSE UNCHANGED print
  /\ UNCHANGED <<intc, power, handler, panicking, masked, bringup, setup>>

Run ==
  /\ At(0, "run") /\ Goto(0, "shell")
  /\ masked' = masked \ {0}
  /\ UNCHANGED <<intc, power, handler, panicking, print, owner, bringup, setup>>

(* Threads of the boot CPU print, spawn, poll the console, and exit: exit_current *)
(* logs with SCHED held and interrupts open.                                      *)
Kprint ==
  /\ At(0, "shell") /\ Call(0, "base", "try")
  /\ UNCHANGED <<intc, power, pc, handler, panicking, masked, owner, bringup, setup>>

Spawn ==
  /\ At(0, "shell") /\ Goto(0, "spawn")
  /\ UNCHANGED <<intc, power, handler, panicking, print, masked, owner, bringup, setup>>

\* Mutant: the byte is echoed before the console is released.
GetbEchoes ==
  /\ At(0, "shell") /\ owner["CONSOLE"] = None /\ Goto(0, "getb")
  /\ owner' = [owner EXCEPT !["CONSOLE"] = 0]
  /\ Call(0, "base", "try")
  /\ UNCHANGED <<intc, power, handler, panicking, masked, bringup, setup>>

Getb ==
  /\ At(0, "shell") /\ owner["CONSOLE"] = None /\ Goto(0, "getb")
  /\ owner' = [owner EXCEPT !["CONSOLE"] = 0]
  /\ UNCHANGED <<intc, power, handler, panicking, print, masked, bringup, setup>>

GetbDone ==
  /\ At(0, "getb") /\ Goto(0, "shell")
  /\ owner' = [owner EXCEPT !["CONSOLE"] = None]
  /\ UNCHANGED <<intc, power, handler, panicking, print, masked, bringup, setup>>

ExitCurrent ==
  /\ At(0, "shell") /\ owner["SCHED"] = None /\ Goto(0, "exit")
  /\ owner' = [owner EXCEPT !["SCHED"] = 0]
  /\ Call(0, "base", "lock")
  /\ UNCHANGED <<intc, power, handler, panicking, masked, bringup, setup>>

ExitUnlock ==
  /\ At(0, "exit") /\ Goto(0, "shell")
  /\ owner' = [owner EXCEPT !["SCHED"] = None]
  /\ UNCHANGED <<intc, power, handler, panicking, print, masked, bringup, setup>>

-----------------------------------------------------------------------------
(* A woken CPU arrives at _start_secondary, at any time. *)
PowerUp(c) ==
  /\ power[c] = "starting"
  /\ power' = [power EXCEPT ![c] = "on"]
  /\ UNCHANGED <<intc, pc, handler, panicking, print, masked, owner, bringup, setup>>

Register(c) ==
  /\ At(c, "register") /\ Goto(c, "vectors")
  /\ registered' = registered \cup {c}
  /\ UNCHANGED <<intc, power, handler, panicking, print, masked, owner, bringup, online,
                 vectors, interface, armed, ppi>>

\* Mutant: interrupts are enabled before the CPU is set up.
InstallVectorsEnables(c) ==
  /\ At(c, "vectors") /\ Goto(c, "gic")
  /\ vectors' = vectors \cup {c} /\ masked' = masked \ {c}
  /\ UNCHANGED <<intc, power, handler, panicking, print, owner, bringup,
                 registered, online, interface, armed, ppi>>

InstallVectors(c) ==
  /\ At(c, "vectors") /\ Goto(c, "gic")
  /\ vectors' = vectors \cup {c}
  /\ UNCHANGED <<intc, power, handler, panicking, print, masked, owner, bringup,
                 registered, online, interface, armed, ppi>>

GicInitPerCpu(c) ==
  /\ At(c, "gic") /\ Goto(c, "timer")
  /\ interface' = interface \cup {c}
  /\ UNCHANGED <<intc, power, handler, panicking, print, masked, owner, bringup,
                 registered, online, vectors, armed, ppi>>

(* timer::init arms the timer and enables its interrupt: on GICv3 in the stored    *)
(* redistributor, which is the boot CPU's.                                         *)
TimerInit(c) ==
  /\ At(c, "timer") /\ Goto(c, "enable")
  /\ armed' = armed \cup {c}
  /\ ppi' = ppi \cup {IF intc = "gicv3" THEN 0 ELSE c}
  /\ UNCHANGED <<intc, power, handler, panicking, print, masked, owner, bringup,
                 registered, online, vectors, interface>>

EnableIrqs(c) ==
  /\ At(c, "enable") /\ Goto(c, "mark")
  /\ masked' = masked \ {c}
  /\ UNCHANGED <<intc, power, handler, panicking, print, owner, bringup, setup>>

MarkOnline(c) ==
  /\ At(c, "mark") /\ Goto(c, "idle")
  /\ online' = online \cup {c}
  /\ Call(c, "base", "lock")
  /\ UNCHANGED <<intc, power, handler, panicking, masked, owner, bringup, registered,
                 vectors, interface, armed, ppi>>

Secondary(c) ==
  Register(c) \/ InstallVectors(c) \/ GicInitPerCpu(c) \/ TimerInit(c) \/ EnableIrqs(c) \/ MarkOnline(c)

-----------------------------------------------------------------------------
(* An interrupt is taken between any two steps of unmasked code: the timer's where *)
(* it is enabled, or one nobody routes, which the handler logs.                    *)
Interruptible(c) == power[c] = "on" /\ Level(c) = "base" /\ c \notin masked /\ c \in interface

TakeTick(c) ==
  /\ Interruptible(c) /\ c \in armed \cap ppi
  /\ handler' = [handler EXCEPT ![c] = "tick"] /\ masked' = masked \cup {c}
  /\ UNCHANGED <<intc, power, pc, panicking, print, owner, bringup, setup>>

TakeUnrouted(c) ==
  /\ Interruptible(c)
  /\ handler' = [handler EXCEPT ![c] = "warn"] /\ masked' = masked \cup {c}
  /\ Call(c, "irq", "lock")
  /\ UNCHANGED <<intc, power, pc, panicking, owner, bringup, setup>>

(* rearm, on_tick under SCHED, end of interrupt, return. *)
OnTick(c) ==
  /\ Level(c) = "irq" /\ handler[c] = "tick" /\ owner["SCHED"] = None
  /\ handler' = [handler EXCEPT ![c] = "none"] /\ masked' = masked \ {c}
  /\ UNCHANGED <<intc, power, pc, panicking, print, owner, bringup, setup>>

(* A CPU panics in its own code, outside putb and getb: while it formats a record, *)
(* allocates under SCHED, or runs a command.                                       *)
PanicAt(c) ==
  /\ power[c] = "on" /\ Level(c) = "base" /\ Printing(c).at \in {"none", "write"} /\ pc[c] # "getb"
  /\ Cardinality({d \in CPUs : panicking[d] # "no"}) < MaxPanics
  /\ panicking' = [panicking EXCEPT ![c] = "message"]
  /\ masked' = masked \cup {c}
  /\ Call(c, "panic", "try")
  /\ UNCHANGED <<intc, power, pc, handler, owner, bringup, setup>>

-----------------------------------------------------------------------------
Boot ==
  LateInit \/ StartSecondaries \/ CpuOn \/ CpuOnDone \/ WaitOnline \/ SpawnLock \/ SpawnPush \/ Run
Threads == Kprint \/ Spawn \/ Getb \/ GetbDone \/ ExitCurrent \/ ExitUnlock
Acquire(c) == LockWriter(c) \/ LockConsole(c) \/ OnTick(c)
Advance(c) == TryWriter(c) \/ UnlockConsole(c) \/ EndRecord(c) \/ Secondary(c)

Next ==
  \/ Boot \/ Threads
  \/ \E c \in CPUs : Acquire(c) \/ Advance(c) \/ PowerUp(c) \/ TakeTick(c) \/ TakeUnrouted(c) \/ PanicAt(c)

Spec == Init /\ [][Next]_vars

(* A CPU keeps executing: its own code runs on between interrupts, which are far    *)
(* apart, and one that spins for a lock gets it if it is free again and again.      *)
(* Interrupts, panics and the power-up of a CPU need never happen, and threads may  *)
(* stop printing.                                                                   *)
OwnStep(c) == Level(c) = "base" /\ (Acquire(c) \/ Advance(c))
HandlerStep(c) == Level(c) # "base" /\ (Acquire(c) \/ Advance(c))
Fairness ==
  /\ SF_vars(Boot) /\ SF_vars(GetbDone \/ ExitUnlock)
  /\ \A c \in CPUs : SF_vars(OwnStep(c)) /\ SF_vars(HandlerStep(c))
FairSpec == Spec /\ Fairness

-----------------------------------------------------------------------------
BootStatements == {"late_init", "smp", "cpu_on", "wait", "spawn", "push", "run", "shell", "getb", "exit"}
Statements == {"register", "vectors", "gic", "timer", "enable", "mark", "idle"}
Prints == [at : {"none", "lock", "try", "write", "put"}, left : Nat, writer : BOOLEAN]

(* Every variable keeps its type. *)
TypeOK ==
  /\ intc \in {"gicv2", "gicv3"}
  /\ power \in [CPUs -> {"off", "starting", "on"}]
  /\ pc \in [CPUs -> BootStatements \cup Statements]
  /\ \A c \in CPUs : pc[c] \in BootStatements <=> c = 0
  /\ handler \in [CPUs -> {"none", "tick", "warn"}]
  /\ panicking \in [CPUs -> {"no", "message", "newline", "halted"}]
  /\ print \in [CPUs -> [Levels -> Prints]]
  /\ masked \subseteq CPUs
  /\ owner \in [Locks -> CPUs \cup {None}]
  /\ target \in 1 .. MAX_CPUS /\ woken \in Nat /\ spins \in 0 .. SPINS
  /\ registered \subseteq CPUs /\ online \subseteq CPUs
  /\ vectors \subseteq CPUs /\ interface \subseteq CPUs /\ armed \subseteq CPUs /\ ppi \subseteq CPUs

Rank == [SCHED |-> 1, WRITER |-> 2, CONSOLE |-> 3]
Wanted(c) ==
  {l \in Locks : \/ l = "WRITER" /\ Printing(c).at = "lock"
                 \/ l = "CONSOLE" /\ Printing(c).at = "write" /\ Printing(c).left > 0
                 \/ l = "SCHED" /\ At(c, "spawn")}

(* Outside interrupt handlers, a CPU that waits for a lock holds only locks that    *)
(* come before it in the order SCHED, WRITER, CONSOLE, whether it boots, exits a     *)
(* thread with the run queue locked, or panics with any of them held.  Waits of      *)
(* these kinds can therefore never form a cycle of CPUs.                             *)
LockOrder ==
  \A c \in CPUs : Level(c) # "irq" =>
    \A l \in Wanted(c), h \in Locks : owner[h] = c => Rank[h] < Rank[l]

(* A CPU that can be interrupted has the real vectors, a live CPU interface and an  *)
(* armed timer, with its own timer interrupt enabled on GICv2, and it has           *)
(* registered itself; a CPU counted online has come that far.                       *)
SetUpBeforeUse ==
  /\ \A c \in CPUs : c \notin masked \/ c \in online \/ handler[c] # "none" =>
       /\ c \in registered \cap vectors \cap interface \cap armed
       /\ intc = "gicv2" => c \in ppi
  /\ \A c \in CPUs : power[c] # "off" /\ c # 0 => 0 \in online \cap interface

(* A CPU that waits, in an interrupt handler, for a lock that is never released:    *)
(* a lock of the code it interrupted, or one of a CPU that has panicked.            *)
Stuck(c) ==
  \E l \in Locks : /\ \/ l = "SCHED" /\ handler[c] = "tick"
                      \/ l = "WRITER" /\ handler[c] = "warn" /\ Printing(c).at = "lock"
                      \/ l = "CONSOLE" /\ handler[c] = "warn" /\ l \in Wanted(c)
                   /\ owner[l] # None
                   /\ owner[l] = c \/ panicking[owner[l]] # "no"

(* The boot CPU reaches the shell whatever the firmware answers and however late    *)
(* the secondaries are, unless some CPU panics or an unrouted interrupt hits a CPU  *)
(* in the middle of a log record.                                                   *)
BootCompletes ==
  <>(pc[0] = "shell" \/ \E c \in CPUs : panicking[c] # "no" \/ Stuck(c))

(* A CPU that panics prints its message and halts, also when it holds the logger or *)
(* the run queue or when another CPU does: only a CPU stuck in an interrupt handler  *)
(* with the console in its hands can prevent it.                                    *)
PanicHalts ==
  \A c \in CPUs : panicking[c] = "message" ~>
    panicking[c] = "halted" \/ owner["CONSOLE"] \in {d \in CPUs : Stuck(d)}
=============================================================================
