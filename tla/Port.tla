---------------------------------- MODULE Port ----------------------------------
(***************************************************************************)
(* Message ports and the port registry (ipc/port.rs), used by threads that  *)
(* share the boot CPU under the round robin of module RoundRobin: only the  *)
(* current thread executes, and it keeps the CPU until it yields, blocks in *)
(* recv, is turned away by a full queue in send, or exits.                  *)
(*                                                                         *)
(* Calls that only return an error or an answer change nothing and are no   *)
(* steps: send on a closed port, try_send on a full one, try_recv on an     *)
(* empty one, get, lookup, list and pending.                                *)
(***************************************************************************)
EXTENDS Naturals, Sequences, FiniteSets

CONSTANTS
  Threads, Boot,   \* as in RoundRobin, numbered in the order of their creation
  Names,           \* port names
  PORT_CAPACITY,
  MaxPorts,        \* bound on NEXT_PORT_ID
  MaxMessages      \* bound on the messages accepted by send

ASSUME PortAssumption ==
  /\ PORT_CAPACITY \in Nat \ {0} /\ MaxPorts \in Nat /\ MaxMessages \in Nat
  /\ Boot \in Threads /\ Threads \subseteq Nat

VARIABLES
  current, ready, born,   \* the scheduler
  ports,                  \* every Port made so far, by id: name, queue, closed
  by_id, by_name,         \* Registry: registered ids, and name -> id (0: absent)
  handle,                 \* the Arc<Port> each thread works with (0: none)
  pc,                     \* "run", or suspended inside "recv" or "send"
  next_msg,               \* the next message: messages are told apart by number
  sent, received          \* history: what each port accepted and delivered

RR == INSTANCE RoundRobin

schedvars == <<current, ready, born>>
registry  == <<by_id, by_name>>
history   == <<next_msg, sent, received>>
vars      == <<schedvars, ports, registry, handle, pc, history>>

PortIds  == 1 .. MaxPorts
Messages == 1 .. MaxMessages

(* The state after ipc::init, whose port "kernel" no other code uses. *)
Init ==
  /\ RR!Init
  /\ ports = <<>>
  /\ by_id = {}
  /\ by_name = [n \in Names |-> 0]
  /\ handle = [t \in Threads |-> 0]
  /\ pc = [t \in Threads |-> "run"]
  /\ next_msg = 1
  /\ sent = [p \in PortIds |-> <<>>]
  /\ received = [p \in PortIds |-> <<>>]

-----------------------------------------------------------------------------
Runs(t, label) == current = t /\ t # Boot /\ pc[t] = label

\* Mutant: registration replaces whatever the name stood for.
RegisterOverwrites(p, n) ==
  by_id' = by_id \cup {p} /\ by_name' = [by_name EXCEPT ![n] = p]

(* register: refused when the id or the name is taken. *)
Register(p, n) ==
  IF p \in by_id \/ by_name[n] # 0
    THEN UNCHANGED registry
    ELSE by_id' = by_id \cup {p} /\ by_name' = [by_name EXCEPT ![n] = p]

(* Port::new followed by register. *)
NewPort(t, n) ==
  /\ Runs(t, "run")
  /\ Len(ports) < MaxPorts
  /\ ports' = Append(ports, [name |-> n, queue |-> <<>>, closed |-> FALSE])
  /\ Register(Len(ports) + 1, n)
  /\ handle' = [handle EXCEPT ![t] = Len(ports) + 1]
  /\ UNCHANGED <<schedvars, pc, history>>

(* create, when a port of that name is registered. *)
CreateFinds(t, n) ==
  /\ Runs(t, "run")
  /\ by_name[n] # 0
  /\ handle' = [handle EXCEPT ![t] = by_name[n]]
  /\ UNCHANGED <<schedvars, ports, registry, pc, history>>

\* Mutant: a closed port still accepts messages.
SendAcceptedClosed(t) ==
  LET p == handle[t] IN
  /\ Runs(t, "run") /\ p # 0 /\ next_msg <= MaxMessages
  /\ Len(ports[p].queue) < PORT_CAPACITY
  /\ ports' = [ports EXCEPT ![p].queue = Append(@, next_msg)]
  /\ sent' = [sent EXCEPT ![p] = Append(@, next_msg)]
  /\ next_msg' = next_msg + 1
  /\ UNCHANGED <<schedvars, registry, handle, pc, received>>

(* send and try_send, accepted. *)
SendAccepted(t) ==
  LET p == handle[t] IN
  /\ Runs(t, "run") /\ p # 0 /\ next_msg <= MaxMessages
  /\ ~ ports[p].closed
  /\ Len(ports[p].queue) < PORT_CAPACITY
  /\ ports' = [ports EXCEPT ![p].queue = Append(@, next_msg)]
  /\ sent' = [sent EXCEPT ![p] = Append(@, next_msg)]
  /\ next_msg' = next_msg + 1
  /\ UNCHANGED <<schedvars, registry, handle, pc, received>>

(* send on a full queue yields once ... *)
SendFull(t) ==
  LET p == handle[t] IN
  /\ Runs(t, "run") /\ p # 0
  /\ ~ ports[p].closed
  /\ Len(ports[p].queue) >= PORT_CAPACITY
  /\ pc' = [pc EXCEPT ![t] = "send"]
  /\ RR!Yield
  /\ UNCHANGED <<ports, registry, handle, history>>

(* ... and then returns Err(Full) without looking at the queue again. *)
SendReturnsFull(t) ==
  /\ Runs(t, "send")
  /\ pc' = [pc EXCEPT ![t] = "run"]
  /\ UNCHANGED <<schedvars, ports, registry, handle, history>>

Receives(t) == (Runs(t, "run") \/ Runs(t, "recv")) /\ handle[t] # 0

\* Mutant: the newest message is taken instead of the oldest.
RecvTakesNewest(t) ==
  LET p == handle[t]
      q == ports[p].queue
  IN
  /\ Receives(t)
  /\ q # <<>>
  /\ ports' = [ports EXCEPT ![p].queue = SubSeq(@, 1, Len(@) - 1)]
  /\ received' = [received EXCEPT ![p] = Append(@, q[Len(q)])]
  /\ pc' = [pc EXCEPT ![t] = "run"]
  /\ UNCHANGED <<schedvars, registry, handle, next_msg, sent>>

\* Mutant: only the first poll of recv looks at the queue.
RecvTakesFirstPoll(t) ==
  LET p == handle[t]
      q == ports[p].queue
  IN
  /\ Receives(t) /\ pc[t] = "run"
  /\ q # <<>>
  /\ ports' = [ports EXCEPT ![p].queue = Tail(@)]
  /\ received' = [received EXCEPT ![p] = Append(@, Head(q))]
  /\ UNCHANGED <<schedvars, registry, handle, pc, next_msg, sent>>

(* try_recv, or recv on its first or a later poll, finds a message. *)
RecvTakes(t) ==
  LET p == handle[t]
      q == ports[p].queue
  IN
  /\ Receives(t)
  /\ q # <<>>
  /\ ports' = [ports EXCEPT ![p].queue = Tail(@)]
  /\ received' = [received EXCEPT ![p] = Append(@, Head(q))]
  /\ pc' = [pc EXCEPT ![t] = "run"]
  /\ UNCHANGED <<schedvars, registry, handle, next_msg, sent>>

\* Mutant: recv keeps polling a port that has been closed.
RecvWaitsClosed(t) ==
  /\ Receives(t)
  /\ ports[handle[t]].queue = <<>>
  /\ pc' = [pc EXCEPT ![t] = "recv"]
  /\ RR!Yield
  /\ UNCHANGED <<ports, registry, handle, history>>

(* recv polls an empty open port and yields. *)
RecvWaits(t) ==
  LET p == handle[t] IN
  /\ Receives(t)
  /\ ports[p].queue = <<>> /\ ~ ports[p].closed
  /\ pc' = [pc EXCEPT ![t] = "recv"]
  /\ RR!Yield
  /\ UNCHANGED <<ports, registry, handle, history>>

(* A waiting recv finds the port drained and closed: Err(Closed). *)
RecvClosed(t) ==
  LET p == handle[t] IN
  /\ Runs(t, "recv")
  /\ ports[p].queue = <<>> /\ ports[p].closed
  /\ pc' = [pc EXCEPT ![t] = "run"]
  /\ UNCHANGED <<schedvars, ports, registry, handle, history>>

Close(t) ==
  /\ Runs(t, "run") /\ handle[t] # 0
  /\ ports' = [ports EXCEPT ![handle[t]].closed = TRUE]
  /\ UNCHANGED <<schedvars, registry, handle, pc, history>>

(* Scheduler calls of a thread outside the port code. *)
YieldNow(t) == Runs(t, "run") /\ RR!Yield /\ UNCHANGED <<ports, registry, handle, pc, history>>
ExitCurrent(t) == Runs(t, "run") /\ RR!Exit /\ UNCHANGED <<ports, registry, handle, pc, history>>

(* The boot thread starts the others and then runs scheduler::run. *)
BootStep ==
  /\ current = Boot
  /\ \/ RR!Yield
     \/ \E t \in Threads : (\A u \in Threads \ born : t <= u) /\ RR!Spawn(t)
  /\ UNCHANGED <<ports, registry, handle, pc, history>>

Call(t) ==
  \/ \E n \in Names : NewPort(t, n) \/ CreateFinds(t, n)
  \/ SendAccepted(t) \/ SendFull(t)
  \/ Runs(t, "run") /\ (RecvTakes(t) \/ RecvWaits(t))
  \/ Close(t)
  \/ YieldNow(t) \/ ExitCurrent(t)

(* The rest of a call that gave up the CPU. *)
Resume(t) ==
  \/ SendReturnsFull(t)
  \/ Runs(t, "recv") /\ (RecvTakes(t) \/ RecvWaits(t))
  \/ RecvClosed(t)

Next == BootStep \/ \E t \in Threads : Call(t) \/ Resume(t)

Spec == Init /\ [][Next]_vars

(* Code that has been resumed runs on, and every thread keeps giving up the *)
(* CPU (nothing else would: the timer does not preempt).                    *)
FairSpec ==
  /\ Spec
  /\ WF_vars(BootStep)
  /\ \A t \in Threads : WF_vars(Resume(t)) /\ SF_vars(YieldNow(t) \/ ExitCurrent(t))

-----------------------------------------------------------------------------
(* No message is lost, duplicated or reordered: what a port has delivered   *)
(* followed by what it still queues is what it accepted, in order, however  *)
(* many threads share it and wherever they are suspended, and it never      *)
(* queues more than its capacity.                                           *)
DeliveryExact ==
  \A p \in DOMAIN ports :
    received[p] \o ports[p].queue = sent[p] /\ Len(ports[p].queue) <= PORT_CAPACITY

(* The two maps of the registry agree, so lookup never misses a registered  *)
(* port and a name always means the same one; a port that lost the race for *)
(* its name is not reachable by id either.                                  *)
RegistryConsistent ==
  /\ by_id \subseteq DOMAIN ports
  /\ \A n \in Names : by_name[n] # 0 => by_name[n] \in by_id /\ ports[by_name[n]].name = n
  /\ \A p \in by_id : by_name[ports[p].name] = p

(* close is final: a closed port accepts nothing more and never reopens,    *)
(* also for threads that found it by name or were waiting in it.            *)
ClosedIsFinal ==
  [][\A p \in DOMAIN ports : ports[p].closed => ports'[p].closed /\ sent'[p] = sent[p]]_vars

Waiting(t, p) == pc[t] = "recv" /\ handle[t] = p

(* close releases every waiting receiver. *)
CloseReleasesReceivers ==
  \A t \in Threads : \A p \in PortIds :
    (Waiting(t, p) /\ ports[p].closed) ~> ~ Waiting(t, p)

(* The oldest message of a port on which somebody waits is delivered. *)
AwaitedMessageDelivered ==
  \A p \in PortIds : \A m \in Messages :
    (/\ \E t \in Threads : Waiting(t, p)
     /\ ports[p].queue # <<>> /\ Head(ports[p].queue) = m)
      ~> (\E i \in DOMAIN received[p] : received[p][i] = m)

(* port.rs:113: "if the queue is full, yield once and try again".  After    *)
(* the yield send reports Full although a receiver has made room.           *)
SendTriesAgain ==
  \A t \in Threads :
    (Runs(t, "send") /\ ~ ports[handle[t]].closed) =>
      Len(ports[handle[t]].queue) >= PORT_CAPACITY
=============================================================================
