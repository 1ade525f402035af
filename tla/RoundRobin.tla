------------------------------ MODULE RoundRobin ------------------------------
(***************************************************************************)
(* What proc/scheduler.rs promises its callers: one running thread and a    *)
(* FIFO queue of the others, changed by whole spawn, yield and exit steps.  *)
(* Locks, interrupts, register contexts and the steps in between are the    *)
(* business of module Scheduler, which implements this one.                 *)
(***************************************************************************)
EXTENDS Sequences

CONSTANTS Threads, Boot

VARIABLES current, ready, born

rrvars == <<current, ready, born>>

Init ==
  /\ current = Boot
  /\ ready = <<>>
  /\ born = {Boot}

Spawn(t) ==
  /\ t \in Threads \ born
  /\ born' = born \cup {t}
  /\ ready' = Append(ready, t)
  /\ UNCHANGED current

(* yield_now's return on an empty queue would be a stutter. *)
Yield ==
  /\ ready # <<>>
  /\ current' = Head(ready)
  /\ ready' = Append(Tail(ready), current)
  /\ UNCHANGED born

(* The boot thread runs scheduler::run, which never returns. *)
Exit ==
  /\ current # Boot
  /\ ready # <<>>
  /\ current' = Head(ready)
  /\ ready' = Tail(ready)
  /\ UNCHANGED born

Next == (\E t \in Threads : Spawn(t)) \/ Yield \/ Exit

Spec == Init /\ [][Next]_rrvars
=============================================================================
