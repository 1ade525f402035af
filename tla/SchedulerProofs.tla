--------------------------- MODULE SchedulerProofs ---------------------------
(***************************************************************************)
(* Proofs about module Scheduler, for any number of threads and any set of  *)
(* CPUs with timers.                                                        *)
(***************************************************************************)
EXTENDS Scheduler, TLAPS

Elems(q) == {q[i] : i \in 1 .. Len(q)}
Distinct(q) == \A i, j \in 1 .. Len(q) : q[i] = q[j] => i = j

SpawnPcs  == {"spawnLock", "spawnHeld"}
SnapPcs   == {"snapLock", "snapHeld"}
YieldPcs  == {"yieldMask", "yieldLock", "yieldHeld", "yieldSwitch", "yieldDrop"}
GuardPcs  == {"yieldLock", "yieldHeld", "yieldSwitch", "yieldDrop"}
ExitPcs   == {"exitLock", "exitHeld", "exitMask", "exitLock2", "exitHeld2", "exitSwitch"}
SwitchPcs == {"yieldSwitch", "exitSwitch"}
OpenPcs   == {"loop", "loopHeld", "idle", "user"}

(* Which code each thread can be in: the boot thread never leaves           *)
(* scheduler::run, the others never enter it.                               *)
ControlInv ==
  /\ pc[BootTid] \in {"kmain", "loop", "loopHeld", "idle"} \cup SpawnPcs \cup YieldPcs
  /\ pc[BootTid] \in SpawnPcs => ret[BootTid] = "kmain"
  /\ pc[BootTid] \in YieldPcs => ret[BootTid] = "loop"
  /\ \A t \in Tids \ {BootTid} :
       /\ pc[t] \in {"unborn", "body", "user", "gone"}
                      \cup SpawnPcs \cup SnapPcs \cup YieldPcs \cup ExitPcs
       /\ pc[t] \in SpawnPcs => ret[t] = "body"
       /\ pc[t] \in YieldPcs => ret[t] \in {"body", "user"}

(* The current field leads the CPU by the instructions between the          *)
(* critical section and the switch; every other live thread is suspended.   *)
SwitchInv ==
  /\ IF pc[running] \in SwitchPcs
       THEN local[running] = current /\ current # running
       ELSE current = running
  /\ pc[running] \notin {"unborn", "gone"}
  /\ ctx[running] = IF pc[running] = "exitSwitch" THEN "dropped" ELSE "stale"
  /\ \A t \in Tids \ {running} :
       \/ pc[t] = "unborn" /\ ctx[t] # "dropped"
       \/ pc[t] = "gone"
       \/ pc[t] = "body" /\ ctx[t] = "fresh"
       \/ pc[t] = "yieldDrop" /\ ctx[t] = "saved"

(* The thread being spawned is not yet in the run queue. *)
SpawnInv ==
  /\ \A t \in Tids : t >= next_tid => pc[t] = "unborn"
  /\ pc[running] \in SpawnPcs =>
       /\ local[running] < next_tid
       /\ pc[local[running]] = "unborn"
       /\ ctx[local[running]] = "fresh"
       /\ state[local[running]] = "Ready"

QueueInv ==
  /\ Distinct(ready)
  /\ current \notin Elems(ready)
  /\ Elems(ready) \cup {current} =
       {t \in Tids : pc[t] \notin {"unborn", "gone"} /\ (t = running => pc[t] # "exitSwitch")}
  /\ \A t \in Elems(ready) : state[t] = "Ready"

(* Exactly the run loop and user code execute with interrupts open, and     *)
(* each suspended guard will restore what its own thread had.               *)
MaskInv ==
  /\ masked <=> /\ pc[running] \notin OpenPcs
                /\ ~(running = BootTid /\ pc[running] = "yieldMask")
  /\ \A t \in Tids : pc[t] \in GuardPcs => (saved[t] <=> t # BootTid)
  /\ handler[BootCpu] # "none" => ~masked

IInv == TypeOK /\ ControlInv /\ SwitchInv /\ SpawnInv /\ QueueInv /\ MaskInv
-----------------------------------------------------------------------------
(* What push_back and pop_front do to the elements of the queue.            *)

(* push_back of a thread that is not queued. *)
LEMMA PushBack ==
  ASSUME NEW q \in Seq(Tids), NEW x \in Tids, Distinct(q), x \notin Elems(q)
  PROVE  /\ Append(q, x) \in Seq(Tids)
         /\ Append(q, x) # <<>>
         /\ Distinct(Append(q, x))
         /\ Elems(Append(q, x)) = Elems(q) \cup {x}
  BY DEF Distinct, Elems

(* pop_front on a non-empty queue without duplicates. *)
LEMMA PopFront ==
  ASSUME NEW q \in Seq(Tids), q # <<>>, Distinct(q)
  PROVE  /\ Head(q) \in Tids
         /\ Tail(q) \in Seq(Tids)
         /\ Distinct(Tail(q))
         /\ Head(q) \notin Elems(Tail(q))
         /\ Elems(q) = Elems(Tail(q)) \cup {Head(q)}
<1>1. /\ Len(q) \in Nat /\ Len(q) >= 1
      /\ Head(q) = q[1] /\ Head(q) \in Tids
      /\ Tail(q) \in Seq(Tids) /\ Len(Tail(q)) = Len(q) - 1
      /\ \A i \in 1 .. Len(q) - 1 : Tail(q)[i] = q[i + 1]
  OBVIOUS
<1>2. Distinct(Tail(q)) /\ Head(q) \notin Elems(Tail(q))
  BY <1>1 DEF Distinct, Elems
<1>3. Elems(q) = Elems(Tail(q)) \cup {Head(q)}
  <2>1. ASSUME NEW i \in 1 .. Len(q) PROVE q[i] \in Elems(Tail(q)) \cup {Head(q)}
    <3>1. CASE i = 1
      BY <1>1, <3>1
    <3>2. CASE i # 1
      <4>1. i - 1 \in 1 .. Len(Tail(q)) /\ Tail(q)[i - 1] = q[i]
        BY <1>1, <3>2
      <4> QED BY <4>1 DEF Elems
    <3> QED BY <3>1, <3>2
  <2>2. Elems(Tail(q)) \cup {Head(q)} \subseteq Elems(q)
    BY <1>1 DEF Elems
  <2> QED BY <2>1, <2>2 DEF Elems
<1> QED BY <1>1, <1>2, <1>3

(* The invariant holds initially. *)
LEMMA InitInv == Init => IInv
<1> SUFFICES ASSUME Init PROVE IInv
  OBVIOUS
<1> USE MaxTidAssumption DEF Init, BootTid, BootCpu, Tids
<1>1. TypeOK
  <2>1. next_tid \in 2 .. MaxTid + 1 /\ ready \in Seq(Tids)
    OBVIOUS
  <2>2. pc \in [Tids -> PcValues] /\ ret \in [Tids -> Callers]
    BY DEF PcValues, Callers
  <2>3. state \in [Tids -> ThreadState] /\ ctx \in [Tids -> CtxValues]
    BY DEF ThreadState, CtxValues
  <2>4. saved \in [Tids -> BOOLEAN] /\ local \in [Tids -> Tids]
    OBVIOUS
  <2>5. handler \in [Cpus -> {"none", "lock", "held"}]
    OBVIOUS
  <2>6. current \in Tids /\ running \in Tids
    OBVIOUS
  <2>7. need_resched \in BOOLEAN /\ masked \in BOOLEAN
    BY Zenon
  <2> QED BY <2>1, <2>2, <2>3, <2>4, <2>5, <2>6, <2>7, Zenon DEF TypeOK
<1>2. ControlInv
  BY DEF ControlInv, SpawnPcs, YieldPcs
<1>3. SwitchInv
  BY DEF SwitchInv, SwitchPcs
<1>4. SpawnInv
  BY DEF SpawnInv, SpawnPcs
<1>5. QueueInv
  <2>1. Elems(ready) = {} /\ Distinct(ready)
    BY DEF Elems, Distinct
  <2>2. \A t \in Tids : pc[t] \notin {"unborn", "gone"} <=> t = BootTid
    OBVIOUS
  <2>3. pc[BootTid] # "exitSwitch"
    OBVIOUS
  <2>4. {t \in Tids : pc[t] \notin {"unborn", "gone"} /\ (t = running => pc[t] # "exitSwitch")}
          = {BootTid}
    <3>1. BootTid \in Tids /\ running = BootTid
      OBVIOUS
    <3> HIDE DEF Init, BootTid, Tids
    <3> QED BY <2>2, <2>3, <3>1, Zenon
  <2>5. current = BootTid
    OBVIOUS
  <2> HIDE DEF Init, BootTid, Tids
  <2> QED BY <2>1, <2>4, <2>5 DEF QueueInv
<1>6. MaskInv
  BY DEF MaskInv, GuardPcs, OpenPcs, Cpus
<1> QED BY <1>1, <1>2, <1>3, <1>4, <1>5, <1>6 DEF IInv

(* The steps that only take the SCHED lock. *)
AnyLock(t) ==
  RunLock(t) \/ SpawnLock(t) \/ SnapshotLock(t) \/ YieldLock(t) \/ ExitLock(t) \/ ExitLock2(t)

(* Taking the lock preserves the invariant. *)
LEMMA AnyLockStep ==
  ASSUME IInv, NEW t \in Tids, AnyLock(t)
  PROVE  IInv'
<1> USE DEF IInv, AnyLock, RunLock, SpawnLock, SnapshotLock, YieldLock, ExitLock, ExitLock2,
           Lock, At, Goto, sched, threads, cpu, stack
<1>1. TypeOK'
  BY SMTT(30) DEF TypeOK, PcValues, Callers
<1>2. ControlInv'
  <2>1. ret' = ret /\ \A u \in Tids : u # t => pc'[u] = pc[u]
    BY DEF TypeOK
  <2>2. \/ pc[t] = "loop" /\ pc'[t] = "loopHeld"
        \/ pc[t] = "spawnLock" /\ pc'[t] = "spawnHeld"
        \/ pc[t] = "snapLock" /\ pc'[t] = "snapHeld"
        \/ pc[t] = "yieldLock" /\ pc'[t] = "yieldHeld"
        \/ pc[t] = "exitLock" /\ pc'[t] = "exitHeld"
        \/ pc[t] = "exitLock2" /\ pc'[t] = "exitHeld2"
    BY DEF TypeOK
  <2>3. BootTid \in Tids
    BY MaxTidAssumption DEF Tids, BootTid
  <2> HIDE DEF AnyLock
  <2> QED BY <2>1, <2>2, <2>3 DEF ControlInv, SpawnPcs, SnapPcs, YieldPcs, ExitPcs
<1>3. SwitchInv'
  BY DEF TypeOK, ControlInv, SwitchInv, SwitchPcs
<1>4. SpawnInv'
  BY DEF TypeOK, SwitchInv, SpawnInv, SpawnPcs
<1>5. QueueInv'
  BY DEF TypeOK, SwitchInv, QueueInv
<1>6. MaskInv'
  BY DEF TypeOK, ControlInv, SwitchInv, MaskInv, GuardPcs, OpenPcs, SpawnPcs, YieldPcs, SnapPcs, ExitPcs
<1> QED BY <1>1, <1>2, <1>3, <1>4, <1>5, <1>6

(* RunEnable preserves the invariant. *)
LEMMA RunEnableStep ==
  ASSUME IInv, NEW t \in Tids, RunEnable(t)
  PROVE  IInv'
<1> USE DEF IInv, RunEnable, At, Goto, sched, threads, cpu, stack
<1>1. TypeOK'
  BY DEF TypeOK, PcValues, Callers
<1>2. ControlInv'
  BY DEF TypeOK, ControlInv, SpawnPcs, SnapPcs, YieldPcs, ExitPcs
<1>3. SwitchInv'
  BY DEF TypeOK, ControlInv, SwitchInv, SwitchPcs
<1>4. SpawnInv'
  BY DEF TypeOK, SwitchInv, SpawnInv, SpawnPcs
<1>5. QueueInv'
  BY DEF TypeOK, SwitchInv, QueueInv
<1>6. MaskInv'
  BY DEF TypeOK, ControlInv, SwitchInv, MaskInv, GuardPcs, OpenPcs, SpawnPcs, YieldPcs, SnapPcs, ExitPcs
<1> QED BY <1>1, <1>2, <1>3, <1>4, <1>5, <1>6

(* RunDecide preserves the invariant. *)
LEMMA RunDecideStep ==
  ASSUME IInv, NEW t \in Tids, RunDecide(t)
  PROVE  IInv'
<1> USE DEF IInv, RunDecide, Unlock, At, Goto, sched, threads, cpu, stack
<1>1. TypeOK'
  BY DEF TypeOK, PcValues, Callers
<1>2. ControlInv'
  BY DEF TypeOK, ControlInv, SpawnPcs, SnapPcs, YieldPcs, ExitPcs
<1>3. SwitchInv'
  BY DEF TypeOK, ControlInv, SwitchInv, SwitchPcs
<1>4. SpawnInv'
  BY DEF TypeOK, SwitchInv, SpawnInv, SpawnPcs
<1>5. QueueInv'
  BY DEF TypeOK, SwitchInv, QueueInv
<1>6. MaskInv'
  <2>1. t = running /\ t = BootTid /\ ~masked
    BY DEF TypeOK, ControlInv, MaskInv, OpenPcs, SpawnPcs, YieldPcs, SnapPcs, ExitPcs
  <2>2. pc'[t] \in {"yieldMask", "idle"} /\ \A u \in Tids \ {t} : pc'[u] = pc[u]
    BY DEF TypeOK
  <2> QED BY <2>1, <2>2 DEF MaskInv, GuardPcs, OpenPcs
<1> QED BY <1>1, <1>2, <1>3, <1>4, <1>5, <1>6

(* SpawnPush preserves the invariant. *)
LEMMA SpawnPushStep ==
  ASSUME IInv, NEW t \in Tids, SpawnPush(t)
  PROVE  IInv'
<1> USE DEF IInv, SpawnPush, Unlock, At, Goto, sched, threads, cpu, stack
<1>a. /\ running = t /\ current = t /\ pc[t] = "spawnHeld"
      /\ local[t] \in Tids /\ local[t] # t /\ local[t] # BootTid /\ local[t] < next_tid
      /\ pc[local[t]] = "unborn" /\ ctx[local[t]] = "fresh" /\ state[local[t]] = "Ready"
      /\ t = BootTid => ret[t] = "kmain"
      /\ t # BootTid => ret[t] = "body"
  <2>1. running = t /\ pc[t] = "spawnHeld" /\ local[t] \in Tids
    BY DEF TypeOK
  <2>2. current = t
    BY <2>1 DEF SwitchInv, SwitchPcs
  <2>3. /\ local[t] < next_tid /\ pc[local[t]] = "unborn"
        /\ ctx[local[t]] = "fresh" /\ state[local[t]] = "Ready"
    BY <2>1 DEF SpawnInv, SpawnPcs
  <2>4. local[t] # t
    BY <2>1, <2>3
  <2>5. local[t] # BootTid
    BY <2>3 DEF ControlInv, SpawnPcs, YieldPcs
  <2>6. (t = BootTid => ret[t] = "kmain") /\ (t # BootTid => ret[t] = "body")
    BY <2>1 DEF ControlInv, SpawnPcs
  <2> QED BY <2>1, <2>2, <2>3, <2>4, <2>5, <2>6
<1>b. local[t] \notin Elems(ready)
  BY <1>a DEF QueueInv
<1>c. /\ pc' \in [Tids -> PcValues] /\ pc'[t] = ret[t] /\ pc'[local[t]] = "body"
      /\ \A u \in Tids : u # t /\ u # local[t] => pc'[u] = pc[u]
  BY <1>a DEF TypeOK, PcValues, Callers
<1>d. UNCHANGED <<current, need_resched, next_tid, state, ctx, running, masked, ret, saved, local, handler>>
  OBVIOUS
<1>e. /\ ready' = Append(ready, local[t]) /\ ready' \in Seq(Tids) /\ Distinct(ready')
      /\ Elems(ready') = Elems(ready) \cup {local[t]}
  BY <1>a, <1>b, PushBack DEF TypeOK, QueueInv
<1>1. TypeOK'
  BY <1>c, <1>d, <1>e DEF TypeOK
<1> HIDE DEF SpawnPush
<1>2. ControlInv'
  <2> USE DEF SpawnPcs, SnapPcs, YieldPcs, ExitPcs
  <2>1. CASE t = BootTid
    BY <1>a, <1>c, <1>d, <2>1 DEF ControlInv
  <2>2. CASE t # BootTid
    <3>1. BootTid \in Tids /\ pc'[BootTid] = pc[BootTid]
      BY <1>a, <1>c, <2>2, MaxTidAssumption DEF Tids, BootTid
    <3> QED BY <1>a, <1>c, <1>d, <2>2, <3>1 DEF ControlInv
  <2> QED BY <2>1, <2>2
<1>3. SwitchInv'
  BY <1>a, <1>c, <1>d DEF SwitchInv, SwitchPcs
<1>4. SpawnInv'
  <2>1. \A u \in Tids : u >= next_tid => u # local[t] /\ u # t
    BY <1>a DEF TypeOK, SpawnInv, Tids
  <2> QED BY <1>a, <1>c, <1>d, <2>1 DEF SpawnInv, SpawnPcs
<1>5. QueueInv'
  <2>1. current' \notin Elems(ready')
    BY <1>a, <1>d, <1>e DEF QueueInv
  <2>2. \A u \in Elems(ready') : state'[u] = "Ready"
    BY <1>a, <1>d, <1>e DEF QueueInv
  <2>3. Elems(ready') \cup {current'} =
          {u \in Tids : pc'[u] \notin {"unborn", "gone"} /\ (u = running' => pc'[u] # "exitSwitch")}
    BY <1>a, <1>c, <1>d, <1>e DEF QueueInv
  <2> QED BY <1>e, <2>1, <2>2, <2>3 DEF QueueInv
<1>6. MaskInv'
  BY <1>a, <1>c, <1>d DEF MaskInv, GuardPcs, OpenPcs
<1> QED BY <1>1, <1>2, <1>3, <1>4, <1>5, <1>6

(* Snapshot preserves the invariant. *)
LEMMA SnapshotStep ==
  ASSUME IInv, NEW t \in Tids, Snapshot(t)
  PROVE  IInv'
<1> USE DEF IInv, Snapshot, At, Goto, sched, threads, cpu, stack
<1>1. TypeOK'
  BY DEF TypeOK, PcValues, Callers
<1>2. ControlInv'
  BY DEF TypeOK, ControlInv, SpawnPcs, SnapPcs, YieldPcs, ExitPcs
<1>3. SwitchInv'
  BY DEF TypeOK, ControlInv, SwitchInv, SwitchPcs
<1>4. SpawnInv'
  BY DEF TypeOK, SwitchInv, SpawnInv, SpawnPcs
<1>5. QueueInv'
  BY DEF TypeOK, SwitchInv, QueueInv
<1>6. MaskInv'
  BY DEF TypeOK, ControlInv, SwitchInv, MaskInv, GuardPcs, OpenPcs, SpawnPcs, YieldPcs, SnapPcs, ExitPcs
<1> QED BY <1>1, <1>2, <1>3, <1>4, <1>5, <1>6

(* SnapshotDone preserves the invariant. *)
LEMMA SnapshotDoneStep ==
  ASSUME IInv, NEW t \in Tids, SnapshotDone(t)
  PROVE  IInv'
<1> USE DEF IInv, SnapshotDone, Unlock, At, Goto, sched, threads, cpu, stack
<1>1. TypeOK'
  BY DEF TypeOK, PcValues, Callers
<1>2. ControlInv'
  BY DEF TypeOK, ControlInv, SpawnPcs, SnapPcs, YieldPcs, ExitPcs
<1>3. SwitchInv'
  BY DEF TypeOK, ControlInv, SwitchInv, SwitchPcs
<1>4. SpawnInv'
  BY DEF TypeOK, SwitchInv, SpawnInv, SpawnPcs
<1>5. QueueInv'
  BY DEF TypeOK, SwitchInv, QueueInv
<1>6. MaskInv'
  BY DEF TypeOK, ControlInv, SwitchInv, MaskInv, GuardPcs, OpenPcs, SpawnPcs, YieldPcs, SnapPcs, ExitPcs
<1> QED BY <1>1, <1>2, <1>3, <1>4, <1>5, <1>6

(* EnterUser preserves the invariant. *)
LEMMA EnterUserStep ==
  ASSUME IInv, NEW t \in Tids, EnterUser(t)
  PROVE  IInv'
<1> USE DEF IInv, EnterUser, At, Goto, sched, threads, cpu, stack
<1>1. TypeOK'
  BY DEF TypeOK, PcValues, Callers
<1>2. ControlInv'
  BY DEF TypeOK, ControlInv, SpawnPcs, SnapPcs, YieldPcs, ExitPcs
<1>3. SwitchInv'
  BY DEF TypeOK, ControlInv, SwitchInv, SwitchPcs
<1>4. SpawnInv'
  BY DEF TypeOK, SwitchInv, SpawnInv, SpawnPcs
<1>5. QueueInv'
  BY DEF TypeOK, SwitchInv, QueueInv
<1>6. MaskInv'
  BY DEF TypeOK, ControlInv, SwitchInv, MaskInv, GuardPcs, OpenPcs, SpawnPcs, YieldPcs, SnapPcs, ExitPcs
<1> QED BY <1>1, <1>2, <1>3, <1>4, <1>5, <1>6

(* YieldMask preserves the invariant. *)
LEMMA YieldMaskStep ==
  ASSUME IInv, NEW t \in Tids, YieldMask(t)
  PROVE  IInv'
<1> USE DEF IInv, YieldMask, IrqLockNew, At, Goto, sched, threads, cpu, stack
<1>1. TypeOK'
  BY DEF TypeOK, PcValues, Callers
<1>2. ControlInv'
  BY DEF TypeOK, ControlInv, SpawnPcs, SnapPcs, YieldPcs, ExitPcs
<1>3. SwitchInv'
  BY DEF TypeOK, ControlInv, SwitchInv, SwitchPcs
<1>4. SpawnInv'
  BY DEF TypeOK, SwitchInv, SpawnInv, SpawnPcs
<1>5. QueueInv'
  BY DEF TypeOK, SwitchInv, QueueInv
<1>6. MaskInv'
  BY DEF TypeOK, ControlInv, SwitchInv, MaskInv, GuardPcs, OpenPcs, SpawnPcs, YieldPcs, SnapPcs, ExitPcs
<1> QED BY <1>1, <1>2, <1>3, <1>4, <1>5, <1>6

(* YieldSwap preserves the invariant. *)
LEMMA YieldSwapStep ==
  ASSUME IInv, NEW t \in Tids, YieldSwap(t)
  PROVE  IInv'
<1> USE DEF IInv, YieldSwap, SwapWith, Unlock, At, Goto, cpu
<1> DEFINE h == Head(ready)
<1>a. running = t /\ current = t /\ pc[t] = "yieldHeld" /\ ready \in Seq(Tids) /\ Distinct(ready)
  BY DEF TypeOK, SwitchInv, SwitchPcs, QueueInv
<1>b. /\ h \in Tids /\ Tail(ready) \in Seq(Tids) /\ Distinct(Tail(ready))
      /\ h \notin Elems(Tail(ready))
      /\ Elems(ready) = Elems(Tail(ready)) \cup {h}
  BY <1>a, PopFront
<1>c. t \notin Elems(Tail(ready)) /\ h # t
  BY <1>a, <1>b DEF QueueInv
<1>d. /\ ready' \in Seq(Tids) /\ Distinct(ready')
      /\ Elems(ready') = Elems(Tail(ready)) \cup {t}
  BY <1>a, <1>b, <1>c, PushBack
<1>1. TypeOK'
  BY <1>a, <1>b, <1>d DEF TypeOK, PcValues, ThreadState
<1>2. ControlInv'
  BY DEF TypeOK, ControlInv, SpawnPcs, SnapPcs, YieldPcs, ExitPcs
<1>3. SwitchInv'
  BY <1>a, <1>c DEF TypeOK, SwitchInv, SwitchPcs
<1>4. SpawnInv'
  BY DEF TypeOK, SwitchInv, SpawnInv, SpawnPcs
<1>5. QueueInv'
  <2>1. current' = h /\ running' = t
    BY <1>a
  <2>2. Elems(ready') \cup {current'} = Elems(ready) \cup {current}
    BY <1>a, <1>b, <1>d, <2>1
  <2>3. \A u \in Tids : u # t => pc'[u] = pc[u]
    BY DEF TypeOK
  <2>4. pc'[t] = "yieldSwitch"
    BY DEF TypeOK
  <2>5. \A u \in Elems(ready') : state'[u] = "Ready"
    BY <1>a, <1>b, <1>c, <1>d DEF TypeOK, QueueInv
  <2>6. {u \in Tids : pc'[u] \notin {"unborn", "gone"} /\ (u = running' => pc'[u] # "exitSwitch")}
          = {u \in Tids : pc[u] \notin {"unborn", "gone"} /\ (u = running => pc[u] # "exitSwitch")}
    BY <1>a, <2>1, <2>3, <2>4
  <2> QED BY <1>b, <1>c, <1>d, <2>1, <2>2, <2>5, <2>6 DEF QueueInv
<1>6. MaskInv'
  BY DEF TypeOK, ControlInv, SwitchInv, MaskInv, GuardPcs, OpenPcs, YieldPcs
<1> QED BY <1>1, <1>2, <1>3, <1>4, <1>5, <1>6

(* YieldSwitch preserves the invariant. *)
LEMMA YieldSwitchStep ==
  ASSUME IInv, NEW t \in Tids, YieldSwitch(t)
  PROVE  IInv'
<1> USE DEF IInv, YieldSwitch, At, Goto, sched, stack
<1>a. /\ running = t /\ pc[t] = "yieldSwitch" /\ local[t] = current /\ current # t
      /\ current \in Tids /\ running' = current
  BY DEF TypeOK, SwitchInv, SwitchPcs
<1>b. current \in Elems(ready) \cup {current}
  OBVIOUS
<1>c. pc[current] \in {"body", "yieldDrop"}
  BY <1>a, <1>b DEF SwitchInv, QueueInv
<1>d. /\ pc'[t] = "yieldDrop" /\ \A u \in Tids : u # t => pc'[u] = pc[u]
      /\ ctx'[t] = "saved" /\ ctx'[current] = "stale"
      /\ \A u \in Tids : u # t /\ u # current => ctx'[u] = ctx[u]
  BY <1>a DEF TypeOK
<1>1. TypeOK'
  BY <1>a DEF TypeOK, PcValues, CtxValues
<1>2. ControlInv'
  BY DEF TypeOK, ControlInv, SpawnPcs, SnapPcs, YieldPcs, ExitPcs
<1>3. SwitchInv'
  <2> HIDE DEF YieldSwitch
  <2>1. current' = current
    BY DEF YieldSwitch
  <2>2. \A u \in Tids \ {current} : u # t =>
          (pc'[u] = pc[u] /\ ctx'[u] = ctx[u])
    BY <1>d
  <2> QED BY <1>a, <1>c, <1>d, <2>1, <2>2 DEF SwitchInv, SwitchPcs
<1>4. SpawnInv'
  BY <1>a, <1>c, <1>d DEF TypeOK, SpawnInv, SpawnPcs
<1>5. QueueInv'
  BY <1>a, <1>c, <1>d DEF QueueInv
<1>6. MaskInv'
  BY <1>a, <1>c, <1>d DEF MaskInv, GuardPcs, OpenPcs
<1> QED BY <1>1, <1>2, <1>3, <1>4, <1>5, <1>6

(* YieldDrop preserves the invariant. *)
LEMMA YieldDropStep ==
  ASSUME IInv, NEW t \in Tids, YieldDrop(t)
  PROVE  IInv'
<1> USE DEF IInv, YieldDrop, At, Goto, sched, threads, stack
<1>a. /\ running = t /\ current = t /\ pc[t] = "yieldDrop" /\ ret[t] \in {"loop", "body", "user"}
      /\ t = BootTid => ret[t] = "loop"
      /\ t # BootTid => ret[t] \in {"body", "user"}
      /\ saved[t] <=> t # BootTid
  BY DEF TypeOK, ControlInv, SwitchInv, SwitchPcs, MaskInv, YieldPcs, GuardPcs
<1>b. pc'[t] = ret[t] /\ \A u \in Tids : u # t => pc'[u] = pc[u]
  BY DEF TypeOK
<1>1. TypeOK'
  BY DEF TypeOK, PcValues, Callers
<1>2. ControlInv'
  BY DEF TypeOK, ControlInv, SpawnPcs, SnapPcs, YieldPcs, ExitPcs
<1>3. SwitchInv'
  BY <1>a, <1>b DEF SwitchInv, SwitchPcs
<1>4. SpawnInv'
  BY <1>a, <1>b DEF SpawnInv, SpawnPcs
<1>5. QueueInv'
  BY <1>a, <1>b DEF QueueInv
<1>6. MaskInv'
  <2>1. masked' <=> ret[t] = "body"
    BY <1>a
  <2>2. masked /\ handler[BootCpu] = "none"
    BY <1>a DEF MaskInv, OpenPcs
  <2> QED BY <1>a, <1>b, <2>1, <2>2 DEF MaskInv, GuardPcs, OpenPcs
<1> QED BY <1>1, <1>2, <1>3, <1>4, <1>5, <1>6

(* ExitMark preserves the invariant. *)
LEMMA ExitMarkStep ==
  ASSUME IInv, NEW t \in Tids, ExitMark(t)
  PROVE  IInv'
<1> USE DEF IInv, ExitMark, MarkCurrent, Unlock, At, Goto, sched, cpu, stack
<1>1. TypeOK'
  BY DEF TypeOK, PcValues, ThreadState
<1>2. ControlInv'
  BY DEF TypeOK, ControlInv, SpawnPcs, SnapPcs, YieldPcs, ExitPcs
<1>3. SwitchInv'
  BY DEF TypeOK, ControlInv, SwitchInv, SwitchPcs
<1>4. SpawnInv'
  BY DEF TypeOK, SwitchInv, SpawnInv, SpawnPcs
<1>5. QueueInv'
  BY DEF TypeOK, SwitchInv, QueueInv
<1>6. MaskInv'
  BY DEF TypeOK, ControlInv, SwitchInv, MaskInv, GuardPcs, OpenPcs, ExitPcs
<1> QED BY <1>1, <1>2, <1>3, <1>4, <1>5, <1>6

(* ExitMask preserves the invariant. *)
LEMMA ExitMaskStep ==
  ASSUME IInv, NEW t \in Tids, ExitMask(t)
  PROVE  IInv'
<1> USE DEF IInv, ExitMask, IrqLockNew, At, Goto, sched, threads, cpu, stack
<1>1. TypeOK'
  BY DEF TypeOK, PcValues, Callers
<1>2. ControlInv'
  BY DEF TypeOK, ControlInv, SpawnPcs, SnapPcs, YieldPcs, ExitPcs
<1>3. SwitchInv'
  BY DEF TypeOK, ControlInv, SwitchInv, SwitchPcs
<1>4. SpawnInv'
  BY DEF TypeOK, SwitchInv, SpawnInv, SpawnPcs
<1>5. QueueInv'
  BY DEF TypeOK, SwitchInv, QueueInv
<1>6. MaskInv'
  BY DEF TypeOK, ControlInv, SwitchInv, MaskInv, GuardPcs, OpenPcs, SpawnPcs, YieldPcs, SnapPcs, ExitPcs
<1> QED BY <1>1, <1>2, <1>3, <1>4, <1>5, <1>6

(* ExitSwap preserves the invariant. *)
LEMMA ExitSwapStep ==
  ASSUME IInv, NEW t \in Tids, ExitSwap(t)
  PROVE  IInv'
<1> USE DEF IInv, ExitSwap, ReplaceCurrent, Unlock, At, Goto, cpu
<1> DEFINE h == Head(ready)
<1>a. running = t /\ current = t /\ pc[t] = "exitHeld2" /\ ready \in Seq(Tids) /\ Distinct(ready)
  BY DEF TypeOK, SwitchInv, SwitchPcs, QueueInv
<1>b. /\ h \in Tids /\ ready' = Tail(ready) /\ ready' \in Seq(Tids) /\ Distinct(ready')
      /\ h \notin Elems(ready')
      /\ Elems(ready) = Elems(ready') \cup {h}
  BY <1>a, PopFront
<1>c. t \notin Elems(ready') /\ h # t
  BY <1>a, <1>b DEF QueueInv
<1>d. /\ current' = h /\ running' = t /\ local'[t] = h
      /\ pc'[t] = "exitSwitch" /\ \A u \in Tids : u # t => pc'[u] = pc[u]
      /\ ctx'[t] = "dropped" /\ \A u \in Tids : u # t => ctx'[u] = ctx[u]
  BY <1>a DEF TypeOK
<1>1. TypeOK'
  BY <1>a, <1>b DEF TypeOK, PcValues, ThreadState, CtxValues
<1>2. ControlInv'
  BY DEF TypeOK, ControlInv, SpawnPcs, SnapPcs, YieldPcs, ExitPcs
<1>3. SwitchInv'
  BY <1>a, <1>c, <1>d DEF SwitchInv, SwitchPcs
<1>4. SpawnInv'
  BY DEF TypeOK, SwitchInv, SpawnInv, SpawnPcs
<1>5. QueueInv'
  <2>1. \A u \in Elems(ready') : state'[u] = "Ready"
    BY <1>b DEF TypeOK, QueueInv
  <2>2. Elems(ready') \cup {current'} = (Elems(ready) \cup {current}) \ {t}
    BY <1>a, <1>b, <1>c, <1>d
  <2>3. (Elems(ready) \cup {current}) \ {t} =
          {u \in Tids : pc'[u] \notin {"unborn", "gone"} /\ (u = running' => pc'[u] # "exitSwitch")}
    BY <1>a, <1>d DEF QueueInv
  <2> QED BY <1>b, <1>d, <2>1, <2>2, <2>3 DEF QueueInv
<1>6. MaskInv'
  BY DEF TypeOK, ControlInv, SwitchInv, MaskInv, GuardPcs, OpenPcs, ExitPcs
<1> QED BY <1>1, <1>2, <1>3, <1>4, <1>5, <1>6

(* ExitSwitch preserves the invariant. *)
LEMMA ExitSwitchStep ==
  ASSUME IInv, NEW t \in Tids, ExitSwitch(t)
  PROVE  IInv'
<1> USE DEF IInv, ExitSwitch, At, Goto, sched, stack
<1>a. /\ running = t /\ pc[t] = "exitSwitch" /\ local[t] = current /\ current # t
      /\ current \in Tids /\ running' = current
  BY DEF TypeOK, SwitchInv, SwitchPcs
<1>b. current \in Elems(ready) \cup {current}
  OBVIOUS
<1>c. pc[current] \in {"body", "yieldDrop"}
  BY <1>a, <1>b DEF SwitchInv, QueueInv
<1>d. /\ pc'[t] = "gone" /\ \A u \in Tids : u # t => pc'[u] = pc[u]
      /\ ctx'[current] = "stale" /\ \A u \in Tids : u # current => ctx'[u] = ctx[u]
  BY <1>a DEF TypeOK
<1>1. TypeOK'
  BY <1>a DEF TypeOK, PcValues, CtxValues
<1>2. ControlInv'
  BY DEF TypeOK, ControlInv, SpawnPcs, SnapPcs, YieldPcs, ExitPcs
<1>3. SwitchInv'
  BY <1>a, <1>c, <1>d DEF SwitchInv, SwitchPcs
<1>4. SpawnInv'
  BY <1>a, <1>c, <1>d DEF TypeOK, SpawnInv, SpawnPcs
<1>5. QueueInv'
  BY <1>a, <1>c, <1>d DEF QueueInv
<1>6. MaskInv'
  BY <1>a, <1>c, <1>d DEF MaskInv, GuardPcs, OpenPcs
<1> QED BY <1>1, <1>2, <1>3, <1>4, <1>5, <1>6

(* SpawnNew preserves the invariant. *)
LEMMA SpawnNewStep ==
  ASSUME IInv, NEW t \in Tids, NEW caller \in {"kmain", "body"}, SpawnNew(t, caller)
  PROVE  IInv'
<1> USE DEF IInv, SpawnNew, At, Goto, sched, cpu
<1>a. /\ running = t /\ current = t /\ pc[t] = caller
      /\ next_tid \in Tids /\ next_tid # t /\ next_tid # BootTid /\ pc[next_tid] = "unborn"
  <2>1. running = t /\ pc[t] = caller
    OBVIOUS
  <2>2. current = t
    BY <2>1 DEF SwitchInv, SwitchPcs
  <2>3. next_tid \in Tids /\ next_tid # BootTid
    BY MaxTidAssumption DEF TypeOK, Tids, BootTid
  <2>4. pc[next_tid] = "unborn"
    BY <2>3 DEF TypeOK, SpawnInv, Tids
  <2> QED BY <2>1, <2>2, <2>3, <2>4
<1>b. /\ pc'[t] = "spawnLock" /\ \A u \in Tids : u # t => pc'[u] = pc[u]
      /\ ctx'[next_tid] = "fresh" /\ \A u \in Tids : u # next_tid => ctx'[u] = ctx[u]
      /\ state'[next_tid] = "Ready" /\ local'[t] = next_tid
  BY <1>a DEF TypeOK
<1>1. TypeOK'
  <2>1. next_tid' \in 2 .. MaxTid + 1
    BY MaxTidAssumption DEF TypeOK
  <2> QED BY <1>a, <2>1 DEF TypeOK, PcValues, Callers, ThreadState, CtxValues
<1>2. ControlInv'
  BY DEF TypeOK, ControlInv, SpawnPcs, SnapPcs, YieldPcs, ExitPcs
<1>3. SwitchInv'
  BY <1>a, <1>b DEF SwitchInv, SwitchPcs
<1>4. SpawnInv'
  <2>1. \A u \in Tids : u >= next_tid' => u >= next_tid /\ u # t
    BY <1>a DEF TypeOK, SpawnInv, Tids
  <2>2. next_tid < next_tid'
    BY DEF TypeOK
  <2> QED BY <1>a, <1>b, <2>1, <2>2 DEF SpawnInv, SpawnPcs
<1>5. QueueInv'
  BY DEF TypeOK, SwitchInv, QueueInv
<1>6. MaskInv'
  BY DEF TypeOK, ControlInv, SwitchInv, MaskInv, GuardPcs, OpenPcs, SpawnPcs
<1> QED BY <1>1, <1>2, <1>3, <1>4, <1>5, <1>6

(* YieldCall preserves the invariant. *)
LEMMA YieldCallStep ==
  ASSUME IInv, NEW t \in Tids, NEW caller \in {"body", "user"}, YieldCall(t, caller)
  PROVE  IInv'
<1> USE DEF IInv, YieldCall, At, Goto, sched, threads, stack
<1>a. t # BootTid /\ running = t /\ pc[t] = caller
  BY DEF ControlInv, SpawnPcs, YieldPcs
<1>b. handler[BootCpu] = "none" /\ (masked <=> caller = "body")
  BY <1>a DEF MaskInv, OpenPcs
<1>1. TypeOK'
  BY <1>b DEF TypeOK, PcValues, Callers
<1>2. ControlInv'
  BY DEF TypeOK, ControlInv, SpawnPcs, SnapPcs, YieldPcs, ExitPcs
<1>3. SwitchInv'
  BY DEF TypeOK, ControlInv, SwitchInv, SwitchPcs
<1>4. SpawnInv'
  BY DEF TypeOK, SwitchInv, SpawnInv, SpawnPcs
<1>5. QueueInv'
  BY DEF TypeOK, SwitchInv, QueueInv
<1>6. MaskInv'
  <2>1. masked'
    BY <1>b
  <2> QED BY <1>a, <1>b, <2>1 DEF TypeOK, MaskInv, GuardPcs, OpenPcs
<1> QED BY <1>1, <1>2, <1>3, <1>4, <1>5, <1>6

(* ExitCall preserves the invariant. *)
LEMMA ExitCallStep ==
  ASSUME IInv, NEW t \in Tids, NEW caller \in {"body", "user"}, ExitCall(t, caller)
  PROVE  IInv'
<1> USE DEF IInv, ExitCall, At, Goto, sched, threads, stack
<1>a. t # BootTid /\ running = t /\ pc[t] = caller
  BY DEF ControlInv, SpawnPcs, YieldPcs
<1>b. handler[BootCpu] = "none" /\ (masked <=> caller = "body")
  BY <1>a DEF MaskInv, OpenPcs
<1>1. TypeOK'
  BY <1>b DEF TypeOK, PcValues, Callers
<1>2. ControlInv'
  BY DEF TypeOK, ControlInv, SpawnPcs, SnapPcs, YieldPcs, ExitPcs
<1>3. SwitchInv'
  BY DEF TypeOK, ControlInv, SwitchInv, SwitchPcs
<1>4. SpawnInv'
  BY DEF TypeOK, SwitchInv, SpawnInv, SpawnPcs
<1>5. QueueInv'
  BY DEF TypeOK, SwitchInv, QueueInv
<1>6. MaskInv'
  <2>1. masked'
    BY <1>b
  <2> QED BY <1>a, <1>b, <2>1 DEF TypeOK, MaskInv, GuardPcs, OpenPcs
<1> QED BY <1>1, <1>2, <1>3, <1>4, <1>5, <1>6

(* Only the boot thread idles. *)
LEMMA OnlyBootIdles ==
  ASSUME TypeOK, ControlInv, pc[running] = "idle"
  PROVE  running = BootTid
BY DEF TypeOK, ControlInv, SpawnPcs, SnapPcs, YieldPcs, ExitPcs

(* Steps of the timer interrupt handlers preserve the invariant. *)
LEMMA TickStep ==
  ASSUME IInv, NEW c \in Cpus, Tick(c)
  PROVE  IInv'
<1> USE DEF IInv, sched, threads, cpu, stack
<1>a. BootCpu \in Cpus
  BY DEF Cpus
<1>1. CASE TickIrq(c) \/ TickLock(c)
  <2> USE <1>1 DEF TickIrq, TickLock
  <2>1. TypeOK'
    BY DEF TypeOK
  <2>2. ControlInv' /\ SwitchInv' /\ SpawnInv' /\ QueueInv'
    BY SMTT(30) DEF ControlInv, SwitchInv, SpawnInv, QueueInv
  <2>3. MaskInv'
    BY <1>a DEF TypeOK, MaskInv
  <2> QED BY <2>1, <2>2, <2>3
<1>2. CASE TickDone(c) /\ ~(c = BootCpu /\ pc[running] = "idle")
  <2> USE <1>2 DEF TickDone, Unlock
  <2>1. TypeOK'
    BY DEF TypeOK
  <2>2. ControlInv' /\ SwitchInv' /\ SpawnInv' /\ QueueInv'
    BY SMTT(30) DEF ControlInv, SwitchInv, SpawnInv, QueueInv
  <2>3. MaskInv'
    BY <1>a DEF TypeOK, MaskInv
  <2> QED BY <2>1, <2>2, <2>3
<1>3. CASE TickDone(c) /\ c = BootCpu /\ pc[running] = "idle"
  <2> USE <1>3 DEF TickDone, Unlock, Goto
  <2>1. running = BootTid
    BY OnlyBootIdles
  <2>2. TypeOK'
    BY DEF TypeOK, PcValues, Callers
  <2>3. ControlInv'
    BY <2>1 DEF TypeOK, ControlInv, SpawnPcs, SnapPcs, YieldPcs, ExitPcs
  <2>4. SwitchInv'
    BY DEF TypeOK, SwitchInv, SwitchPcs
  <2>5. SpawnInv'
    BY DEF TypeOK, SpawnInv, SpawnPcs
  <2>6. QueueInv'
    BY DEF TypeOK, QueueInv
  <2>7. MaskInv'
    BY <1>a, <2>1 DEF TypeOK, MaskInv, GuardPcs, OpenPcs
  <2> QED BY <2>2, <2>3, <2>4, <2>5, <2>6, <2>7
<1> QED BY <1>1, <1>2, <1>3 DEF Tick

(* The invariant depends on the specification's variables only. *)
LEMMA StutterStep ==
  ASSUME IInv, UNCHANGED vars
  PROVE  IInv'
<1>1. TypeOK'
  BY DEF IInv, vars, TypeOK
<1>2. ControlInv'
  BY DEF IInv, vars, ControlInv
<1>3. SwitchInv'
  BY DEF IInv, vars, SwitchInv
<1>4. SpawnInv'
  BY DEF IInv, vars, SpawnInv
<1>5. QueueInv'
  BY DEF IInv, vars, QueueInv
<1>6. MaskInv'
  BY DEF IInv, vars, MaskInv
<1> QED BY <1>1, <1>2, <1>3, <1>4, <1>5, <1>6 DEF IInv

(* The invariant is inductive. *)
LEMMA NextInv == IInv /\ [Next]_vars => IInv'
<1> SUFFICES ASSUME IInv, [Next]_vars PROVE IInv'
  OBVIOUS
<1>1. ASSUME NEW t \in Tids, Call(t) PROVE IInv'
  BY <1>1, SpawnNewStep, SnapshotStep, EnterUserStep, YieldCallStep, ExitCallStep DEF Call
<1>2. ASSUME NEW t \in Tids, KernelStep(t) PROVE IInv'
  BY <1>2, AnyLockStep, RunEnableStep, RunDecideStep, SpawnPushStep, SnapshotDoneStep,
     YieldMaskStep, YieldSwapStep, YieldSwitchStep, YieldDropStep,
     ExitMarkStep, ExitMaskStep, ExitSwapStep, ExitSwitchStep
     DEF KernelStep, AnyLock
<1>3. ASSUME NEW c \in Cpus, Tick(c) PROVE IInv'
  BY <1>3, TickStep
<1>4. CASE UNCHANGED vars
  BY <1>4, StutterStep
<1> QED BY <1>1, <1>2, <1>3, <1>4 DEF Next

(* Every reachable state of the scheduler satisfies the invariant. *)
THEOREM InductiveInvariant == Spec => []IInv
<1> QED BY InitInv, NextInv, PTL DEF Spec

-----------------------------------------------------------------------------
(* Type correctness. *)
THEOREM TypeCorrect == Spec => []TypeOK
<1>1. IInv => TypeOK
  BY DEF IInv
<1> QED BY <1>1, InductiveInvariant, PTL

(* The run queue owns every live thread exactly once, for any number of     *)
(* threads and timers.                                                      *)
THEOREM RunqueueSound == Spec => []RunqueueOwnsThreads
<1>1. IInv => RunqueueOwnsThreads
  <2> SUFFICES ASSUME IInv PROVE RunqueueOwnsThreads
    OBVIOUS
  <2>1. Queued = Elems(ready)
    BY DEF Queued, Elems
  <2>2. Live = {t \in Tids : pc[t] \notin {"unborn", "gone"} /\ (t = running => pc[t] # "exitSwitch")}
    BY DEF IInv, SwitchInv, Live
  <2> QED BY <2>1, <2>2 DEF IInv, QueueInv, RunqueueOwnsThreads, Distinct
<1> QED BY <1>1, InductiveInvariant, PTL

(* Every thread the CPU may switch to has a complete register context. *)
THEOREM SwitchTargetsComplete == Spec => []ContextComplete
<1>1. IInv => ContextComplete
  <2> SUFFICES ASSUME IInv PROVE ContextComplete
    OBVIOUS
  <2>1. \A t \in Elems(ready) \cup {current} :
          t \in Tids /\ (t # running => ctx[t] \in {"fresh", "saved"})
    BY DEF IInv, SwitchInv, QueueInv
  <2>2. Queued = Elems(ready)
    BY DEF Queued, Elems
  <2> QED BY <2>1, <2>2 DEF IInv, SwitchInv, SwitchPcs, ContextComplete
<1> QED BY <1>1, InductiveInvariant, PTL

(* Interrupts are open in the idle loop and in user code, closed from       *)
(* IrqLock::new to the switch.                                              *)
THEOREM MaskRestored == Spec => []InterruptMaskRestored
<1>1. IInv => InterruptMaskRestored
  BY DEF IInv, MaskInv, OpenPcs, InterruptMaskRestored
<1> QED BY <1>1, InductiveInvariant, PTL

(* Between run()'s look at the queue and yield_now's pop nobody empties it. *)
WorkInv == pc[BootTid] \in {"yieldMask", "yieldLock", "yieldHeld"} => ready # <<>>

(* WorkInv is inductive relative to the invariant: while the boot thread is *)
(* inside yield_now before its pop, it is the thread that runs.             *)
LEMMA NextWork == IInv /\ WorkInv /\ [Next]_vars => WorkInv'
<1> SUFFICES ASSUME IInv, WorkInv, [Next]_vars PROVE WorkInv'
  OBVIOUS
<1> USE DEF WorkInv, sched
<1>0. BootTid \in Tids /\ pc \in [Tids -> PcValues] /\ ret \in [Tids -> Callers]
  <2>1. BootTid \in Tids
    BY MaxTidAssumption DEF Tids, BootTid
  <2> QED BY <2>1 DEF IInv, TypeOK
<1>a. ASSUME running # BootTid PROVE pc[BootTid] = "yieldDrop"
  BY <1>a, <1>0 DEF IInv, ControlInv, SwitchInv, SpawnPcs, YieldPcs
<1>1. ASSUME NEW t \in Tids, Call(t) PROVE WorkInv'
  <2>1. CASE YieldCall(t, "body") \/ YieldCall(t, "user") \/ ExitCall(t, "body") \/ ExitCall(t, "user")
    BY <2>1, <1>0 DEF YieldCall, ExitCall, At, Goto, IInv, ControlInv, SpawnPcs, YieldPcs
  <2> QED BY <1>1, <2>1, <1>0 DEF Call, SpawnNew, Snapshot, EnterUser, At, Goto
<1>2. ASSUME NEW t \in Tids, KernelStep(t) PROVE WorkInv'
  <2>1. CASE AnyLock(t) \/ RunEnable(t) \/ RunDecide(t) \/ SnapshotDone(t) \/ YieldMask(t)
    BY <2>1, <1>0 DEF AnyLock, RunLock, SpawnLock, SnapshotLock, YieldLock, ExitLock, ExitLock2,
       Lock, RunEnable, RunDecide, SnapshotDone, YieldMask, IrqLockNew, At, Goto
  <2>2. CASE SpawnPush(t)
    <3>1. Append(ready, local[t]) # <<>>
      BY DEF IInv, TypeOK
    <3>2. ready' = Append(ready, local[t])
      BY <2>2 DEF SpawnPush
    <3> QED BY <3>1, <3>2
  <2>3. CASE YieldSwap(t) \/ ExitSwap(t)
    BY <2>3, <1>0, <1>a DEF YieldSwap, SwapWith, ExitSwap, ReplaceCurrent, At, Goto
  <2>4. CASE YieldSwitch(t) \/ ExitMark(t) \/ ExitMask(t) \/ ExitSwitch(t) \/ YieldDrop(t)
    BY <2>4, <1>0 DEF YieldSwitch, ExitMark, MarkCurrent, ExitMask, IrqLockNew, ExitSwitch,
       YieldDrop, Callers, At, Goto
  <2> QED BY <1>2, <2>1, <2>2, <2>3, <2>4 DEF KernelStep, AnyLock
<1>3. ASSUME NEW c \in Cpus, Tick(c) PROVE WorkInv'
  BY <1>3, <1>0 DEF Tick, TickIrq, TickLock, TickDone, Goto
<1>4. CASE UNCHANGED vars
  BY <1>4 DEF vars
<1> QED BY <1>1, <1>2, <1>3, <1>4 DEF Next

(* The expect in exit_current never fires, and yield_now always switches. *)
THEOREM PopNeverFails == Spec => []SuccessorQueued
<1>1. Init => WorkInv
  BY MaxTidAssumption DEF Init, WorkInv, BootTid, Tids
<1>2. IInv /\ WorkInv => SuccessorQueued
  <2> SUFFICES ASSUME IInv, WorkInv, pc[running] \in {"yieldHeld", "exitHeld2"}, ready = <<>>
               PROVE  FALSE
    BY DEF SuccessorQueued
  <2>1. running # BootTid /\ current = running
    BY DEF IInv, WorkInv, ControlInv, SpawnPcs, YieldPcs, SwitchInv, SwitchPcs
  <2>2. BootTid \in Tids
    BY MaxTidAssumption DEF Tids, BootTid
  <2>3. BootTid \in Elems(ready) \cup {current}
    BY <2>1, <2>2 DEF IInv, QueueInv, ControlInv, SpawnPcs, YieldPcs
  <2>4. Elems(ready) = {}
    BY DEF Elems
  <2> QED BY <2>1, <2>3, <2>4
<1> QED BY <1>1, <1>2, InductiveInvariant, NextWork, PTL DEF Spec

(* No interrupt handler runs on a stack that exit_current has freed. *)
THEOREM FreedStackSafe == Spec => []FreedStackUndisturbed
<1>1. IInv => FreedStackUndisturbed
  <2> SUFFICES ASSUME IInv, ctx[running] = "dropped" PROVE masked /\ handler[BootCpu] = "none"
    BY DEF FreedStackUndisturbed
  <2>1. pc[running] = "exitSwitch"
    BY DEF IInv, SwitchInv
  <2> QED BY <2>1 DEF IInv, MaskInv, OpenPcs
<1> QED BY <1>1, InductiveInvariant, PTL

-----------------------------------------------------------------------------
(* The scheduler implements the abstract round robin.                       *)

(* Only the push at the end of spawn adds a thread to the abstract state. *)
LEMMA BornUnchanged ==
  ASSUME IInv, Next, ~(\E t \in Tids : SpawnPush(t))
  PROVE  Born' = Born
<1>1. ASSUME NEW t \in Tids, Call(t) PROVE Born' = Born
  BY <1>1 DEF IInv, TypeOK, Call, SpawnNew, Snapshot, EnterUser, YieldCall, ExitCall, At, Goto, Born
<1>2. ASSUME NEW t \in Tids, KernelStep(t) PROVE Born' = Born
  <2>1. CASE AnyLock(t) \/ RunEnable(t) \/ RunDecide(t) \/ SnapshotDone(t) \/ YieldMask(t)
    BY <2>1 DEF IInv, TypeOK, AnyLock, RunLock, SpawnLock, SnapshotLock, YieldLock, ExitLock,
       ExitLock2, Lock, RunEnable, RunDecide, SnapshotDone, YieldMask, IrqLockNew,
       At, Goto, Born
  <2>2. CASE YieldSwap(t) \/ YieldSwitch(t) \/ ExitMark(t) \/ ExitMask(t) \/ ExitSwap(t) \/ ExitSwitch(t)
    BY <2>2 DEF IInv, TypeOK, YieldSwap, SwapWith, YieldSwitch, ExitMark, MarkCurrent, ExitMask,
       IrqLockNew, ExitSwap, ReplaceCurrent, ExitSwitch, At, Goto, Born
  <2>3. CASE YieldDrop(t)
    BY <2>3 DEF IInv, TypeOK, Callers, YieldDrop, At, Goto, Born
  <2> QED BY <1>2, <2>1, <2>2, <2>3 DEF KernelStep, AnyLock
<1>3. ASSUME NEW c \in Cpus, Tick(c) PROVE Born' = Born
  BY <1>3 DEF IInv, TypeOK, Tick, TickIrq, TickLock, TickDone, Goto, Born
<1> QED BY <1>1, <1>2, <1>3 DEF Next

(* Only three steps of the code touch current and ready. *)
LEMMA QueueUnchanged ==
  ASSUME IInv, Next, ~(\E t \in Tids : SpawnPush(t) \/ YieldSwap(t) \/ ExitSwap(t))
  PROVE  UNCHANGED <<current, ready>>
<1> USE DEF sched
<1>1. ASSUME NEW t \in Tids, Call(t) PROVE UNCHANGED <<current, ready>>
  BY <1>1 DEF Call, SpawnNew, Snapshot, EnterUser, YieldCall, ExitCall
<1>2. ASSUME NEW t \in Tids, KernelStep(t) PROVE UNCHANGED <<current, ready>>
  BY <1>2 DEF KernelStep, RunLock, SpawnLock, SnapshotLock, YieldLock, ExitLock, ExitLock2, Lock,
     RunEnable, RunDecide, SnapshotDone, YieldMask, IrqLockNew, YieldSwitch,
     YieldDrop, ExitMark, MarkCurrent, ExitMask, ExitSwitch
<1>3. ASSUME NEW c \in Cpus, Tick(c) PROVE UNCHANGED <<current, ready>>
  BY <1>3 DEF Tick, TickIrq, TickLock, TickDone
<1> QED BY <1>1, <1>2, <1>3 DEF Next

(* Every step maps to a step of RoundRobin or to a stutter. *)
LEMMA RefinementStep == IInv /\ [Next]_vars => [RR!Next]_(RR!rrvars)
<1> SUFFICES ASSUME IInv, [Next]_vars PROVE RR!Next \/ UNCHANGED RR!rrvars
  BY DEF RR!rrvars
<1>1. ASSUME NEW t \in Tids, SpawnPush(t) PROVE RR!Spawn(local[t])
  <2>1. local[t] \in Tids /\ local[t] # t /\ pc[local[t]] = "unborn" /\ pc[t] # "unborn"
        /\ ret[t] \in Callers
    BY <1>1 DEF IInv, TypeOK, SpawnInv, SpawnPush, At, SpawnPcs
  <2>2. pc' = [pc EXCEPT ![t] = ret[t], ![local[t]] = "body"]
    BY <1>1 DEF SpawnPush
  <2>3. Born' = Born \cup {local[t]}
    BY <2>1, <2>2 DEF IInv, TypeOK, Born, Callers
  <2> QED BY <1>1, <2>1, <2>3 DEF RR!Spawn, SpawnPush, Born
<1>2. ASSUME NEW t \in Tids, YieldSwap(t) PROVE RR!Yield
  <2>1. Next /\ ~(\E u \in Tids : SpawnPush(u))
    BY <1>2 DEF Next, KernelStep, YieldSwap, SwapWith, SpawnPush, At
  <2>2. Born' = Born
    BY <2>1, BornUnchanged
  <2> QED BY <1>2, <2>2 DEF RR!Yield, YieldSwap, SwapWith
<1>3. ASSUME NEW t \in Tids, ExitSwap(t) PROVE RR!Exit
  <2>1. Next /\ ~(\E u \in Tids : SpawnPush(u))
    BY <1>3 DEF Next, KernelStep, ExitSwap, ReplaceCurrent, SpawnPush, At
  <2>2. Born' = Born
    BY <2>1, BornUnchanged
  <2>3. current # BootTid
    BY <1>3 DEF IInv, ControlInv, SwitchInv, SwitchPcs, SpawnPcs, YieldPcs, ExitSwap, ReplaceCurrent, At
  <2> QED BY <1>3, <2>2, <2>3 DEF RR!Exit, ExitSwap, ReplaceCurrent
<1>4. CASE Next /\ ~(\E t \in Tids : SpawnPush(t) \/ YieldSwap(t) \/ ExitSwap(t))
  BY <1>4, BornUnchanged, QueueUnchanged DEF RR!rrvars
<1>5. CASE UNCHANGED vars
  BY <1>5 DEF vars, RR!rrvars, Born
<1>6. ASSUME NEW t \in Tids, SpawnPush(t) PROVE RR!Next
  BY <1>1, <1>6 DEF RR!Next, IInv, TypeOK
<1> QED BY <1>2, <1>3, <1>4, <1>5, <1>6 DEF RR!Next

(* The lock-level scheduler implements the FIFO round robin of module       *)
(* RoundRobin, for any number of threads and any set of timer CPUs.         *)
THEOREM Refinement == Spec => ImplementsRoundRobin
<1>1. Init => RR!Init
  <2> SUFFICES ASSUME Init PROVE RR!Init
    OBVIOUS
  <2>1. BootTid \in Tids
    BY MaxTidAssumption DEF BootTid, Tids
  <2>2. \A t \in Tids : pc[t] # "unborn" <=> t = BootTid
    BY DEF Init
  <2>3. Born = {BootTid}
    BY <2>1, <2>2, Zenon DEF Born
  <2> QED BY <2>3 DEF Init, RR!Init
<1> QED BY <1>1, InductiveInvariant, RefinementStep, PTL DEF Spec, ImplementsRoundRobin, RR!Spec

=============================================================================
