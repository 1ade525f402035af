------------------------------ MODULE Scheduler ------------------------------
(***************************************************************************)
(* The run queue of proc/scheduler.rs on the boot CPU, at the granularity   *)
(* at which other CPUs and interrupt handlers can observe it: taking the    *)
(* SCHED spin lock, the body of the critical section, masking interrupts    *)
(* (sync.rs IrqLock) and the context switch are steps of their own.         *)
(*                                                                         *)
(* Only the boot CPU runs threads.  Every CPU in TimerCpus takes timer      *)
(* interrupts, whose handler (on_tick) takes the same SCHED lock.  On the   *)
(* boot CPU the handler runs on top of the interrupted thread, which cannot *)
(* execute until the handler returns.                                       *)
(***************************************************************************)
EXTENDS Naturals, Sequences

CONSTANTS
  MaxTid,      \* bound on the threads ever created (NEXT_TID is a u64)
  TimerCpus    \* the CPUs whose timer interrupt is delivered

BootCpu == 0
BootTid == 1
Tids    == 1 .. MaxTid
Cpus    == TimerCpus \cup {BootCpu}

ASSUME MaxTidAssumption == MaxTid \in Nat /\ MaxTid >= 1
ASSUME TimerCpusAssumption == TimerCpus \subseteq Nat

VARIABLES
  current,       \* Sched.current: tid of the Box<Thread> it holds
  ready,         \* Sched.ready
  need_resched,  \* Sched.need_resched
  holder,        \* who holds the SCHED mutex
  next_tid,      \* NEXT_TID
  state,         \* Thread.state, "Unborn" before Thread::new
  ctx,           \* what Thread.ctx is worth: see CtxValues
  running,       \* the thread whose instructions the boot CPU executes
  masked,        \* interrupt mask of the boot CPU
  pc,            \* control point of each thread
  ret,           \* where a scheduler call returns to
  saved,         \* IrqLock.saved of the guard on each thread's stack
  local,         \* a thread's local: the new thread, or the switch target
  handler        \* interrupt handler of each CPU

vars == <<current, ready, need_resched, holder, next_tid, state, ctx, running,
          masked, pc, ret, saved, local, handler>>

sched   == <<current, ready, need_resched>>
threads == <<next_tid, state, ctx>>
cpu     == <<running, masked>>
stack   == <<ret, saved, local>>

Free      == <<"free", 0>>
Thread(t) == <<"thread", t>>
Irq(c)    == <<"irq", c>>

(* "fresh": built by init_context; "saved": written by __ctx_switch;        *)
(* "stale": the thread is executing, so the saved registers are old;        *)
(* "dropped": the Box<Thread>, its stack included, has been freed.          *)
CtxValues   == {"none", "fresh", "saved", "stale", "dropped"}
ThreadState == {"Unborn", "Ready", "Running", "Exited"}
Callers     == {"kmain", "loop", "body", "user"}
PcValues    == Callers \cup
  {"unborn", "idle", "loopHeld", "spawnLock", "spawnHeld", "snapLock", "snapHeld",
   "yieldMask", "yieldLock", "yieldHeld", "yieldSwitch", "yieldDrop",
   "exitLock", "exitHeld", "exitMask", "exitLock2", "exitHeld2", "exitSwitch",
   "gone"}

TypeOK ==
  /\ current \in Tids /\ running \in Tids
  /\ ready \in Seq(Tids)
  /\ need_resched \in BOOLEAN /\ masked \in BOOLEAN
  /\ holder \in {Free} \cup {Thread(t) : t \in Tids} \cup {Irq(c) : c \in Cpus}
  /\ next_tid \in 2 .. MaxTid + 1
  /\ state \in [Tids -> ThreadState]
  /\ ctx \in [Tids -> CtxValues]
  /\ pc \in [Tids -> PcValues]
  /\ ret \in [Tids -> Callers]
  /\ saved \in [Tids -> BOOLEAN]
  /\ local \in [Tids -> Tids]
  /\ handler \in [Cpus -> {"none", "lock", "held"}]

(* kmain after proc::init: the boot thread is current, interrupts masked. *)
Init ==
  /\ current = BootTid /\ running = BootTid
  /\ ready = <<>>
  /\ need_resched = FALSE
  /\ holder = Free
  /\ next_tid = BootTid + 1
  /\ state = [t \in Tids |-> IF t = BootTid THEN "Running" ELSE "Unborn"]
  /\ ctx = [t \in Tids |-> IF t = BootTid THEN "stale" ELSE "none"]
  /\ masked = TRUE
  /\ pc = [t \in Tids |-> IF t = BootTid THEN "kmain" ELSE "unborn"]
  /\ ret = [t \in Tids |-> "body"]
  /\ saved = [t \in Tids |-> TRUE]
  /\ local = [t \in Tids |-> t]
  /\ handler = [c \in Cpus |-> "none"]

-----------------------------------------------------------------------------
(* Steps of the thread the boot CPU executes.                              *)

At(t, label) ==
  /\ running = t
  /\ handler[BootCpu] = "none"
  /\ pc[t] = label

Goto(t, label) == pc' = [pc EXCEPT ![t] = label]

Lock(t, from, to) ==
  /\ At(t, from)
  /\ holder = Free
  /\ holder' = Thread(t)
  /\ Goto(t, to)
  /\ UNCHANGED <<sched, threads, cpu, stack, handler>>

Unlock == holder' = Free

(* scheduler::run: unmask, then loop testing the run queue. *)
RunEnable(t) ==
  /\ At(t, "kmain")
  /\ masked' = FALSE
  /\ Goto(t, "loop")
  /\ UNCHANGED <<sched, holder, threads, running, stack, handler>>

RunLock(t) == Lock(t, "loop", "loopHeld")

RunDecide(t) ==
  /\ At(t, "loopHeld")
  /\ Unlock
  /\ IF ready # <<>>
       THEN Goto(t, "yieldMask") /\ ret' = [ret EXCEPT ![t] = "loop"]
       ELSE Goto(t, "idle") /\ UNCHANGED ret
  /\ UNCHANGED <<sched, threads, cpu, saved, local, handler>>

(* spawn: Thread::new takes a tid and builds the context before the lock. *)
SpawnNew(t, caller) ==
  /\ At(t, caller)
  /\ next_tid <= MaxTid
  /\ next_tid' = next_tid + 1
  /\ state' = [state EXCEPT ![next_tid] = "Ready"]
  /\ ctx' = [ctx EXCEPT ![next_tid] = "fresh"]
  /\ local' = [local EXCEPT ![t] = next_tid]
  /\ ret' = [ret EXCEPT ![t] = caller]
  /\ Goto(t, "spawnLock")
  /\ UNCHANGED <<sched, holder, cpu, saved, handler>>

SpawnLock(t) == Lock(t, "spawnLock", "spawnHeld")

SpawnPush(t) ==
  /\ At(t, "spawnHeld")
  /\ ready' = Append(ready, local[t])
  /\ Unlock
  /\ pc' = [pc EXCEPT ![t] = ret[t], ![local[t]] = "body"]
  /\ UNCHANGED <<current, need_resched, threads, cpu, stack, handler>>

(* snapshot: read-only, but it takes the lock. *)
Snapshot(t) ==
  /\ At(t, "body")
  /\ Goto(t, "snapLock")
  /\ UNCHANGED <<sched, holder, threads, cpu, stack, handler>>

SnapshotLock(t) == Lock(t, "snapLock", "snapHeld")

SnapshotDone(t) ==
  /\ At(t, "snapHeld")
  /\ Unlock
  /\ Goto(t, "body")
  /\ UNCHANGED <<sched, threads, cpu, stack, handler>>

(* proc/user.rs enter_el0: eret with SPSR = 0 opens interrupts. *)
EnterUser(t) ==
  /\ At(t, "body")
  /\ masked' = FALSE
  /\ Goto(t, "user")
  /\ UNCHANGED <<sched, holder, threads, running, stack, handler>>

(* A call of yield_now: from the kernel, or by the Yield system call, whose *)
(* exception entry masks interrupts.                                        *)
YieldCall(t, caller) ==
  /\ At(t, caller)
  /\ masked' = (masked \/ caller = "user")
  /\ ret' = [ret EXCEPT ![t] = caller]
  /\ Goto(t, "yieldMask")
  /\ UNCHANGED <<sched, holder, threads, running, saved, local, handler>>

\* Mutant: the mask is written with the wrong polarity.
IrqLockNewEnables(t, from, to) ==
  /\ At(t, from)
  /\ saved' = [saved EXCEPT ![t] = masked]
  /\ masked' = FALSE
  /\ Goto(t, to)
  /\ UNCHANGED <<sched, holder, threads, running, ret, local, handler>>

(* IrqLock::new *)
IrqLockNew(t, from, to) ==
  /\ At(t, from)
  /\ saved' = [saved EXCEPT ![t] = masked]
  /\ masked' = TRUE
  /\ Goto(t, to)
  /\ UNCHANGED <<sched, holder, threads, running, ret, local, handler>>

YieldMask(t) == IrqLockNew(t, "yieldMask", "yieldLock")
YieldLock(t) == Lock(t, "yieldLock", "yieldHeld")

(* The next thread becomes current; rest is what the run queue is left      *)
(* with. The return on an empty queue (next is None) is never taken:        *)
(* SuccessorQueued.                                                         *)
SwapWith(t, rest) ==
  /\ At(t, "yieldHeld")
  /\ ready # <<>>
  /\ need_resched' = FALSE
  /\ current' = Head(ready)
  /\ ready' = rest
  /\ state' = [state EXCEPT ![current] = "Ready", ![Head(ready)] = "Running"]
  /\ local' = [local EXCEPT ![t] = Head(ready)]
  /\ Unlock
  /\ Goto(t, "yieldSwitch")
  /\ UNCHANGED <<next_tid, ctx, cpu, ret, saved, handler>>

\* Mutants: the yielding thread is pushed at the front, or not at all.
YieldSwapPushFront(t) == SwapWith(t, <<current>> \o Tail(ready))
YieldSwapForgets(t)   == SwapWith(t, Tail(ready))

YieldSwap(t) == SwapWith(t, Append(Tail(ready), current))

\* Mutant: the switch saves into a scratch context instead of prev's own.
YieldSwitchTossed(t) ==
  /\ At(t, "yieldSwitch")
  /\ running' = local[t]
  /\ ctx' = [ctx EXCEPT ![local[t]] = "stale"]
  /\ Goto(t, "yieldDrop")
  /\ UNCHANGED <<sched, holder, next_tid, state, masked, stack, handler>>

(* __ctx_switch(&prev.ctx, &next.ctx): t is suspended inside yield_now. *)
YieldSwitch(t) ==
  /\ At(t, "yieldSwitch")
  /\ running' = local[t]
  /\ ctx' = [ctx EXCEPT ![t] = "saved", ![local[t]] = "stale"]
  /\ Goto(t, "yieldDrop")
  /\ UNCHANGED <<sched, holder, next_tid, state, masked, stack, handler>>

\* Mutant: the guard's drop does not restore the mask.
YieldDropKeepsMask(t) ==
  /\ At(t, "yieldDrop")
  /\ masked' = (masked /\ ret[t] # "user")
  /\ Goto(t, ret[t])
  /\ UNCHANGED <<sched, holder, threads, running, stack, handler>>

(* IrqLock::drop on return from yield_now, then the return to the caller:   *)
(* for a system call, an exception return that opens interrupts.            *)
YieldDrop(t) ==
  /\ At(t, "yieldDrop")
  /\ masked' = (saved[t] /\ ret[t] # "user")
  /\ Goto(t, ret[t])
  /\ UNCHANGED <<sched, holder, threads, running, stack, handler>>

(* exit_current, called by a returning thread or the Exit system call. *)
ExitCall(t, caller) ==
  /\ At(t, caller)
  /\ masked' = (masked \/ caller = "user")
  /\ Goto(t, "exitLock")
  /\ UNCHANGED <<sched, holder, threads, running, stack, handler>>

ExitLock(t) == Lock(t, "exitLock", "exitHeld")

MarkCurrent(t, mark) ==
  /\ At(t, "exitHeld")
  /\ state' = [state EXCEPT ![current] = mark]
  /\ Unlock
  /\ Goto(t, "exitMask")
  /\ UNCHANGED <<sched, next_tid, ctx, cpu, stack, handler>>

ExitMark(t) == MarkCurrent(t, "Exited")

ExitMask(t)  == IrqLockNew(t, "exitMask", "exitLock2")
ExitLock2(t) == Lock(t, "exitLock2", "exitHeld2")

(* Assigning s.current drops the exiting thread's Box and, with it, the     *)
(* stack the CPU is still executing on.                                     *)
ReplaceCurrent(t, rest) ==
  /\ At(t, "exitHeld2")
  /\ ready # <<>>
  /\ current' = Head(ready)
  /\ ready' = rest
  /\ state' = [state EXCEPT ![Head(ready)] = "Running"]
  /\ ctx' = [ctx EXCEPT ![current] = "dropped"]
  /\ local' = [local EXCEPT ![t] = Head(ready)]
  /\ Unlock
  /\ Goto(t, "exitSwitch")
  /\ UNCHANGED <<need_resched, next_tid, cpu, ret, saved, handler>>

\* Mutant: the exiting thread is queued again.
ExitSwapRequeues(t) == ReplaceCurrent(t, Append(Tail(ready), current))

ExitSwap(t) == ReplaceCurrent(t, Tail(ready))

ExitSwitch(t) ==
  /\ At(t, "exitSwitch")
  /\ running' = local[t]
  /\ ctx' = [ctx EXCEPT ![local[t]] = "stale"]
  /\ Goto(t, "gone")
  /\ UNCHANGED <<sched, holder, next_tid, state, masked, stack, handler>>

-----------------------------------------------------------------------------
(* Timer interrupts.                                                       *)

TickIrq(c) ==
  /\ c \in TimerCpus
  /\ handler[c] = "none"
  /\ c = BootCpu => ~masked
  /\ handler' = [handler EXCEPT ![c] = "lock"]
  /\ UNCHANGED <<sched, holder, threads, cpu, pc, stack>>

TickLock(c) ==
  /\ handler[c] = "lock"
  /\ holder = Free
  /\ holder' = Irq(c)
  /\ handler' = [handler EXCEPT ![c] = "held"]
  /\ UNCHANGED <<sched, threads, cpu, pc, stack>>

(* on_tick; returning from it also ends the wait of arch::idle.  Nothing    *)
(* looks at need_resched on the way out of the handler.                     *)
TickDone(c) ==
  /\ handler[c] = "held"
  /\ need_resched' = TRUE
  /\ Unlock
  /\ handler' = [handler EXCEPT ![c] = "none"]
  /\ IF c = BootCpu /\ pc[running] = "idle" THEN Goto(running, "loop") ELSE UNCHANGED pc
  /\ UNCHANGED <<current, ready, threads, cpu, stack>>

-----------------------------------------------------------------------------
(* What a thread's own code decides to do ... *)
Call(t) ==
  \/ \E caller \in {"kmain", "body"} : SpawnNew(t, caller)
  \/ Snapshot(t)
  \/ EnterUser(t)
  \/ \E caller \in {"body", "user"} : YieldCall(t, caller) \/ ExitCall(t, caller)

(* ... and the steps the kernel then takes on its behalf. *)
KernelStep(t) ==
  \/ RunEnable(t) \/ RunLock(t) \/ RunDecide(t)
  \/ SpawnLock(t) \/ SpawnPush(t)
  \/ SnapshotLock(t) \/ SnapshotDone(t)
  \/ YieldMask(t) \/ YieldLock(t) \/ YieldSwap(t)
  \/ YieldSwitch(t) \/ YieldDrop(t)
  \/ ExitLock(t) \/ ExitMark(t) \/ ExitMask(t) \/ ExitLock2(t)
  \/ ExitSwap(t) \/ ExitSwitch(t)

Tick(c) == TickIrq(c) \/ TickLock(c) \/ TickDone(c)

Next ==
  \/ \E t \in Tids : Call(t) \/ KernelStep(t)
  \/ \E c \in Cpus : Tick(c)

Spec == Init /\ [][Next]_vars

(* The timers fire, and the CPU executes kernel code between two ticks      *)
(* (strong fairness: a tick every 10 ms does not keep it from progressing). *)
(* Nothing is assumed of what a thread's own code calls.                    *)
FairSpec ==
  /\ Spec
  /\ \A t \in Tids : SF_vars(KernelStep(t))
  /\ \A c \in Cpus : WF_vars(Tick(c))

(* In addition every thread keeps returning to the scheduler. *)
CooperativeSpec ==
  /\ FairSpec
  /\ \A t \in Tids :
       SF_vars(\E caller \in {"body", "user"} : YieldCall(t, caller) \/ ExitCall(t, caller))

-----------------------------------------------------------------------------
(* Properties.                                                             *)

Queued == {ready[i] : i \in 1 .. Len(ready)}

(* Threads that exist: pushed by spawn and not yet dropped by exit_current. *)
Live == {t \in Tids : pc[t] \notin {"unborn", "gone"} /\ ctx[t] # "dropped"}

(* The run queue owns every live thread exactly once: ready has no          *)
(* duplicates, current is not queued, and no live thread is lost, whatever  *)
(* yields, spawns and exits interleave (scheduler.rs spawn, yield_now,      *)
(* exit_current move Box<Thread>s between the two places).                  *)
RunqueueOwnsThreads ==
  /\ \A i, j \in 1 .. Len(ready) : ready[i] = ready[j] => i = j
  /\ current \notin Queued
  /\ Live = Queued \cup {current}
  /\ \A t \in Queued : state[t] = "Ready"

(* Every thread the CPU may switch to has a complete register context: one  *)
(* built by init_context or written by __ctx_switch.  A yielding thread is  *)
(* queued before its registers are saved (scheduler.rs:80-87), so this      *)
(* relies on no one else popping the queue in between.                      *)
ContextComplete ==
  /\ \A t \in Queued : t # running => ctx[t] \in {"fresh", "saved"}
  /\ pc[running] \in {"yieldSwitch", "exitSwitch"} =>
       local[running] # running /\ ctx[local[running]] \in {"fresh", "saved"}

(* Interrupts are open whenever the idle loop or user code executes and     *)
(* closed from IrqLock::new to the switch: the guard restored on return     *)
(* from yield_now is the one on the resumed thread's own stack.             *)
InterruptMaskRestored ==
  /\ pc[running] \in {"loop", "loopHeld", "idle", "user"} => ~masked
  /\ pc[running] \in {"yieldLock", "yieldHeld", "yieldSwitch", "yieldDrop",
                      "exitLock2", "exitHeld2", "exitSwitch"} => masked

(* Whoever pops the run queue under the lock finds a thread in it: the      *)
(* expect("must have something to switch to (idle missing?)") of            *)
(* exit_current never fires, and yield_now never takes its return for an    *)
(* empty queue. The boot thread never exits and is queued whenever another  *)
(* thread runs; when it runs itself, what run() saw before it released the  *)
(* lock is still there when yield_now takes it again.                       *)
SuccessorQueued == pc[running] \in {"yieldHeld", "exitHeld2"} => ready # <<>>

(* While the CPU executes on the stack that exit_current has just freed,    *)
(* interrupts are masked and no handler frame is on it.                     *)
FreedStackUndisturbed ==
  ctx[running] = "dropped" => masked /\ handler[BootCpu] = "none"

(* Seen from outside its critical sections, the run queue is the FIFO round *)
(* robin of module RoundRobin: every step of the code is one of its whole   *)
(* spawn, yield or exit steps, or changes nothing.                          *)
Born == {t \in Tids : pc[t] # "unborn"}
RR == INSTANCE RoundRobin WITH Threads <- Tids, Boot <- BootTid, born <- Born
ImplementsRoundRobin == RR!Spec

(* Round robin: a queued thread eventually becomes current, if every thread *)
(* keeps calling the scheduler.                                             *)
NoStarvation == \A t \in Tids : t \in Queued ~> current = t

(* sync.rs:5-6: the run queue's critical sections are uninterruptible.  Run *)
(* takes SCHED with interrupts open (scheduler.rs:97); a tick in that       *)
(* window spins on the lock its own CPU holds.                              *)
RunqueueUninterruptible ==
  holder = Thread(running) => masked

(* scheduler.rs:4-6: a tick marks the current thread for a reschedule and   *)
(* the switch happens at the latest at the end of an interrupt handler.  A  *)
(* thread that computes in user mode keeps the CPU for ever: need_resched   *)
(* is set on every tick and nothing reads it.                               *)
TickPreempts ==
  \A t \in Tids :
    (current = t /\ pc[t] = "user" /\ need_resched /\ Queued # {}) ~> current # t
=============================================================================
