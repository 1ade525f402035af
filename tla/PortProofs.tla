------------------------------- MODULE PortProofs -------------------------------
(***************************************************************************)
(* Proofs about message ports and their registry, for any number of         *)
(* threads, names, ports and messages and any queue capacity.               *)
(***************************************************************************)
EXTENDS Port, DataLemmas

PortRecords == [name : Names, queue : Seq(Nat), closed : BOOLEAN]

TypeOK ==
  /\ ports \in Seq(PortRecords) /\ Len(ports) <= MaxPorts
  /\ by_id \subseteq Nat /\ by_name \in [Names -> Nat]
  /\ handle \in [Threads -> 0 .. Len(ports)]
  /\ pc \in [Threads -> {"run", "recv", "send"}]
  /\ next_msg \in Nat
  /\ sent \in [PortIds -> Seq(Nat)] /\ received \in [PortIds -> Seq(Nat)]

(* Ports that are still to be made have no history. *)
FreshIds == \A p \in PortIds : p > Len(ports) => sent[p] = <<>> /\ received[p] = <<>>

IInv == TypeOK /\ FreshIds /\ DeliveryExact /\ RegistryConsistent

-----------------------------------------------------------------------------
(* The ports that exist are among those that may. *)
LEMMA PortExists == TypeOK => DOMAIN ports \subseteq PortIds
<1> SUFFICES ASSUME TypeOK PROVE DOMAIN ports \subseteq PortIds
  OBVIOUS
<1>1. DOMAIN ports = 1 .. Len(ports) /\ Len(ports) \in Nat
  BY LenProperties DEF TypeOK
<1>2. Len(ports) <= MaxPorts
  BY DEF TypeOK
<1> QED
  BY <1>1, <1>2, PortAssumption DEF PortIds

-----------------------------------------------------------------------------
(* ipc::init leaves an empty registry. *)
LEMMA InitInv == Init => IInv
<1> SUFFICES ASSUME Init PROVE IInv
  OBVIOUS
<1> USE PortAssumption DEF Init
<1>1. TypeOK
  BY DEF TypeOK, PortIds, PortRecords
<1>2. FreshIds /\ DeliveryExact /\ RegistryConsistent
  BY DEF FreshIds, DeliveryExact, RegistryConsistent
<1> QED
  BY <1>1, <1>2 DEF IInv

(* Port::new and register. *)
LEMMA NewPortStep ==
  ASSUME IInv, NEW t \in Threads, NEW n \in Names, NewPort(t, n)
  PROVE  IInv'
<1> USE PortAssumption
<1> DEFINE new == [name |-> n, queue |-> <<>>, closed |-> FALSE]
           id  == Len(ports) + 1
<1>1. /\ Len(ports) < MaxPorts /\ ports' = Append(ports, new) /\ Register(id, n)
      /\ handle' = [handle EXCEPT ![t] = id]
      /\ UNCHANGED <<schedvars, pc, history>>
  BY DEF NewPort
<1>2. /\ TypeOK /\ FreshIds /\ DeliveryExact /\ RegistryConsistent
      /\ Len(ports) \in Nat /\ DOMAIN ports = 1 .. Len(ports) /\ new \in PortRecords
  BY DEF IInv, TypeOK, PortRecords
<1> HIDE DEF new
<1>3. /\ ports' \in Seq(PortRecords) /\ Len(ports') = id /\ ports'[id] = new
      /\ DOMAIN ports' = 1 .. id
      /\ \A p \in 1 .. Len(ports) : ports'[p] = ports[p]
  BY <1>1, <1>2, AppendProperties, LenProperties DEF TypeOK
<1>4. /\ by_id' \subseteq Nat /\ by_name' \in [Names -> Nat]
      /\ handle' \in [Threads -> 0 .. id]
  <2>1. id \in Nat /\ id \in 0 .. id /\ \A h \in 0 .. Len(ports) : h \in 0 .. id
    BY <1>2
  <2>2. by_id' \subseteq Nat /\ by_name' \in [Names -> Nat]
    BY <1>1, <1>2, <2>1 DEF Register, registry, TypeOK
  <2>3. handle' \in [Threads -> 0 .. id]
    BY <1>1, <1>2, <2>1 DEF TypeOK
  <2> QED
    BY <2>2, <2>3
<1>5. TypeOK'
  <2>1. id <= MaxPorts
    BY <1>1, <1>2
  <2>2. /\ pc' = pc /\ next_msg' = next_msg /\ sent' = sent /\ received' = received
    BY <1>1 DEF history
  <2>3. /\ pc \in [Threads -> {"run", "recv", "send"}] /\ next_msg \in Nat
        /\ sent \in [PortIds -> Seq(Nat)] /\ received \in [PortIds -> Seq(Nat)]
    BY <1>2 DEF TypeOK
  <2> HIDE DEF id
  <2> QED
    BY <1>3, <1>4, <2>1, <2>2, <2>3 DEF TypeOK
<1>6. FreshIds'
  BY <1>1, <1>2, <1>3 DEF FreshIds, history, PortIds
<1>7. DeliveryExact'
  <2> SUFFICES ASSUME NEW p \in 1 .. id
               PROVE  received[p] \o ports'[p].queue = sent[p] /\ Len(ports'[p].queue) <= PORT_CAPACITY
    BY <1>1, <1>3 DEF DeliveryExact, history
  <2>1. CASE p = id
    <3>1. ports'[p].queue = <<>> /\ received[p] = <<>> /\ sent[p] = <<>>
      BY <1>1, <1>2, <1>3, <2>1 DEF FreshIds, PortIds, new
    <3> QED
      BY <3>1
  <2>2. CASE p # id
    <3>1. p \in DOMAIN ports /\ ports'[p] = ports[p]
      BY <1>2, <1>3, <2>2
    <3> QED
      BY <1>2, <3>1 DEF DeliveryExact
  <2> QED
    BY <2>1, <2>2
<1>8. RegistryConsistent'
  <2>1. CASE UNCHANGED registry
    BY <1>2, <1>3, <2>1 DEF RegistryConsistent, registry
  <2>2. CASE /\ ~(id \in by_id \/ by_name[n] # 0)
             /\ by_id' = by_id \cup {id} /\ by_name' = [by_name EXCEPT ![n] = id]
    <3>1. by_id' \subseteq DOMAIN ports'
      BY <1>2, <1>3, <2>2 DEF RegistryConsistent
    <3>2. ASSUME NEW m \in Names, by_name'[m] # 0
          PROVE  by_name'[m] \in by_id' /\ ports'[by_name'[m]].name = m
      <4>1. CASE m = n
        BY <1>2, <1>3, <2>2, <4>1 DEF TypeOK, new
      <4>2. CASE m # n
        <5>1. by_name'[m] = by_name[m] /\ by_name[m] \in by_id /\ ports[by_name[m]].name = m
          BY <1>2, <2>2, <3>2, <4>2 DEF TypeOK, RegistryConsistent
        <5>2. by_name[m] \in 1 .. Len(ports)
          BY <1>2, <5>1 DEF RegistryConsistent
        <5> QED
          BY <1>3, <2>2, <5>1, <5>2
      <4> QED
        BY <4>1, <4>2
    <3>3. ASSUME NEW p \in by_id' PROVE by_name'[ports'[p].name] = p
      <4>1. CASE p = id
        BY <1>2, <1>3, <2>2, <4>1 DEF TypeOK, new
      <4>2. CASE p # id
        <5>1. p \in by_id /\ p \in 1 .. Len(ports) /\ ports'[p] = ports[p]
          BY <1>2, <1>3, <2>2, <4>2 DEF RegistryConsistent
        <5>2. by_name[ports[p].name] = p /\ ports[p].name \in Names
          <6>1. ports[p] \in PortRecords
            BY <1>2, <5>1, ElementOfSeq DEF TypeOK
          <6> QED
            BY <1>2, <5>1, <6>1 DEF RegistryConsistent, PortRecords
        <5> QED
          BY <1>2, <2>2, <5>1, <5>2 DEF TypeOK
      <4> QED
        BY <4>1, <4>2
    <3> QED
      BY <3>1, <3>2, <3>3 DEF RegistryConsistent
  <2> QED
    BY <1>1, <2>1, <2>2 DEF Register
<1> QED
  BY <1>5, <1>6, <1>7, <1>8 DEF IInv

(* A step that changes the queue or the closed flag of one port leaves the  *)
(* others and the registry as they were.                                    *)
LEMMA PortUpdate ==
  ASSUME IInv, NEW p \in 1 .. Len(ports), NEW r \in PortRecords,
         r.name = ports[p].name, ports' = [ports EXCEPT ![p] = r], UNCHANGED registry
  PROVE  /\ ports' \in Seq(PortRecords) /\ Len(ports') = Len(ports) /\ DOMAIN ports' = DOMAIN ports
         /\ ports'[p] = r /\ \A k \in DOMAIN ports : k # p => ports'[k] = ports[k]
         /\ RegistryConsistent'
<1>1. ports \in Seq(PortRecords) /\ DOMAIN ports = 1 .. Len(ports) /\ RegistryConsistent
  BY DEF IInv, TypeOK
<1>2. /\ ports' \in Seq(PortRecords) /\ Len(ports') = Len(ports) /\ DOMAIN ports' = DOMAIN ports
      /\ ports'[p] = r /\ \A k \in DOMAIN ports : k # p => ports'[k] = ports[k]
  BY <1>1, ExceptSeq, LenProperties
<1>3. \A k \in DOMAIN ports : ports'[k].name = ports[k].name
  BY <1>2
<1>4. RegistryConsistent'
  BY <1>1, <1>2, <1>3 DEF RegistryConsistent, registry
<1> QED
  BY <1>2, <1>4

(* The port a thread works with exists. *)
LEMMA HandleType ==
  ASSUME IInv, NEW t \in Threads, handle[t] # 0
  PROVE  /\ handle[t] \in 1 .. Len(ports) /\ handle[t] \in PortIds /\ handle[t] \in DOMAIN ports
         /\ ports[handle[t]] \in PortRecords
         /\ ports[handle[t]].queue \in Seq(Nat) /\ ports[handle[t]].name \in Names
<1>1. handle[t] \in 1 .. Len(ports) /\ Len(ports) <= MaxPorts /\ ports \in Seq(PortRecords)
  BY PortAssumption DEF IInv, TypeOK
<1>2. ports[handle[t]] \in PortRecords
  BY <1>1, ElementOfSeq
<1>3. handle[t] \in PortIds
  BY <1>1, PortAssumption DEF PortIds
<1> QED
  BY <1>1, <1>2, <1>3 DEF PortRecords

(* send and try_send. *)
LEMMA SendStep ==
  ASSUME IInv, NEW t \in Threads, SendAccepted(t)
  PROVE  IInv'
<1> USE PortAssumption
<1> DEFINE p == handle[t]
           q == ports[p].queue
           r == [ports[p] EXCEPT !.queue = Append(q, next_msg)]
<1>1. /\ p # 0 /\ Len(q) < PORT_CAPACITY
      /\ ports' = [ports EXCEPT ![p] = r]
      /\ sent' = [sent EXCEPT ![p] = Append(sent[p], next_msg)]
      /\ next_msg' = next_msg + 1
      /\ UNCHANGED <<schedvars, registry, handle, pc, received>>
  BY DEF SendAccepted
<1>2. /\ p \in 1 .. Len(ports) /\ p \in PortIds /\ p \in DOMAIN ports
      /\ ports[p] \in PortRecords /\ q \in Seq(Nat)
  BY <1>1, HandleType
<1>3. /\ next_msg \in Nat /\ sent \in [PortIds -> Seq(Nat)] /\ received \in [PortIds -> Seq(Nat)]
      /\ FreshIds /\ DeliveryExact
  BY DEF IInv, TypeOK
<1>4. /\ Append(q, next_msg) \in Seq(Nat) /\ Len(Append(q, next_msg)) = Len(q) + 1
      /\ r \in PortRecords /\ r.name = ports[p].name /\ r.queue = Append(q, next_msg)
  <2>1. Append(q, next_msg) \in Seq(Nat) /\ Len(Append(q, next_msg)) = Len(q) + 1
    BY <1>2, <1>3, AppendProperties
  <2> QED
    BY <1>2, <2>1 DEF PortRecords
<1> HIDE DEF p, q, r
<1>5. /\ ports' \in Seq(PortRecords) /\ Len(ports') = Len(ports) /\ DOMAIN ports' = DOMAIN ports
      /\ ports'[p] = r /\ \A k \in DOMAIN ports : k # p => ports'[k] = ports[k]
      /\ RegistryConsistent'
  BY <1>1, <1>2, <1>4, PortUpdate
<1>6. sent' \in [PortIds -> Seq(Nat)] /\ sent'[p] = Append(sent[p], next_msg)
      /\ \A k \in PortIds : k # p => sent'[k] = sent[k]
  BY <1>1, <1>2, <1>3, AppendProperties
<1>7. TypeOK'
  <2>1. /\ Len(ports) <= MaxPorts /\ by_id \subseteq Nat /\ by_name \in [Names -> Nat]
        /\ handle \in [Threads -> 0 .. Len(ports)]
        /\ pc \in [Threads -> {"run", "recv", "send"}]
    BY DEF IInv, TypeOK
  <2>2. /\ by_id' = by_id /\ by_name' = by_name /\ handle' = handle /\ pc' = pc
        /\ received' = received /\ next_msg' \in Nat
    BY <1>1, <1>3 DEF registry
  <2> QED
    BY <1>3, <1>5, <1>6, <2>1, <2>2 DEF TypeOK
<1>8. FreshIds'
  BY <1>1, <1>2, <1>3, <1>5, <1>6 DEF FreshIds
<1>9. DeliveryExact'
  <2> SUFFICES ASSUME NEW k \in DOMAIN ports
               PROVE  received[k] \o ports'[k].queue = sent'[k] /\ Len(ports'[k].queue) <= PORT_CAPACITY
    BY <1>1, <1>5 DEF DeliveryExact
  <2>1. k \in PortIds
    BY PortExists DEF IInv
  <2>2. CASE k = p
    <3>1. received[p] \o Append(q, next_msg) = Append(received[p] \o q, next_msg)
      <4>1. received[p] \in Seq(Nat)
        BY <1>2, <1>3
      <4> QED
        BY <1>2, <1>3, <4>1, AppendConcat, Zenon
    <3>2. received[p] \o q = sent[p]
      BY <1>2, <1>3 DEF DeliveryExact, q
    <3>3. Len(q) \in Nat /\ Len(q) + 1 <= PORT_CAPACITY
      BY <1>1, <1>2
    <3> QED
      BY <1>4, <1>5, <1>6, <2>2, <3>1, <3>2, <3>3
  <2>3. CASE k # p
    BY <1>3, <1>5, <1>6, <2>1, <2>3 DEF DeliveryExact
  <2> QED
    BY <2>2, <2>3
<1> QED
  BY <1>5, <1>7, <1>8, <1>9 DEF IInv

(* try_recv and recv. *)
LEMMA RecvStep ==
  ASSUME IInv, NEW t \in Threads, RecvTakes(t)
  PROVE  IInv'
<1> USE PortAssumption
<1> DEFINE p == handle[t]
           q == ports[p].queue
           r == [ports[p] EXCEPT !.queue = Tail(q)]
<1>1. /\ p # 0 /\ q # <<>>
      /\ ports' = [ports EXCEPT ![p] = r]
      /\ received' = [received EXCEPT ![p] = Append(received[p], Head(q))]
      /\ pc' = [pc EXCEPT ![t] = "run"]
      /\ UNCHANGED <<schedvars, registry, handle, next_msg, sent>>
  BY DEF RecvTakes, Receives
<1>2. /\ p \in 1 .. Len(ports) /\ p \in PortIds /\ p \in DOMAIN ports
      /\ ports[p] \in PortRecords /\ q \in Seq(Nat)
  BY <1>1, HandleType
<1>3. /\ sent \in [PortIds -> Seq(Nat)] /\ received \in [PortIds -> Seq(Nat)]
      /\ FreshIds /\ DeliveryExact
  BY DEF IInv, TypeOK
<1>4. /\ Append(received[p], Head(q)) \o Tail(q) = received[p] \o q
      /\ Append(received[p], Head(q)) \in Seq(Nat) /\ Tail(q) \in Seq(Nat) /\ Len(Tail(q)) <= Len(q)
  BY <1>1, <1>2, <1>3, MoveHead
<1>5. r \in PortRecords /\ r.name = ports[p].name /\ r.queue = Tail(q)
  BY <1>2, <1>4 DEF PortRecords
<1> HIDE DEF p, q, r
<1>6. /\ ports' \in Seq(PortRecords) /\ Len(ports') = Len(ports) /\ DOMAIN ports' = DOMAIN ports
      /\ ports'[p] = r /\ \A k \in DOMAIN ports : k # p => ports'[k] = ports[k]
      /\ RegistryConsistent'
  BY <1>1, <1>2, <1>5, PortUpdate
<1>7. /\ received' \in [PortIds -> Seq(Nat)] /\ received'[p] = Append(received[p], Head(q))
      /\ \A k \in PortIds : k # p => received'[k] = received[k]
  BY <1>1, <1>2, <1>3, <1>4
<1>8. TypeOK'
  BY <1>1, <1>6, <1>7 DEF IInv, TypeOK, registry
<1>9. FreshIds'
  BY <1>1, <1>2, <1>3, <1>6, <1>7 DEF FreshIds
<1>10. DeliveryExact'
  <2> SUFFICES ASSUME NEW k \in DOMAIN ports
               PROVE  received'[k] \o ports'[k].queue = sent[k] /\ Len(ports'[k].queue) <= PORT_CAPACITY
    BY <1>1, <1>6 DEF DeliveryExact
  <2>1. k \in PortIds
    BY PortExists DEF IInv
  <2>2. CASE k = p
    <3>1. received[p] \o q = sent[p] /\ Len(q) <= PORT_CAPACITY
      BY <1>2, <1>3 DEF DeliveryExact, q
    <3>2. Len(Tail(q)) \in Nat /\ Len(q) \in Nat
      BY <1>2, <1>4
    <3>3. Len(Tail(q)) <= PORT_CAPACITY
      BY <1>4, <3>1, <3>2
    <3>4. ports'[k].queue = Tail(q) /\ received'[k] = Append(received[p], Head(q))
      BY <1>5, <1>6, <1>7, <2>2
    <3> QED
      BY <1>4, <2>2, <3>1, <3>3, <3>4
  <2>3. CASE k # p
    BY <1>3, <1>6, <1>7, <2>1, <2>3 DEF DeliveryExact
  <2> QED
    BY <2>2, <2>3
<1> QED
  BY <1>6, <1>8, <1>9, <1>10 DEF IInv

(* close. *)
LEMMA CloseStep ==
  ASSUME IInv, NEW t \in Threads, Close(t)
  PROVE  IInv'
<1> USE PortAssumption
<1> DEFINE p == handle[t]
           r == [ports[p] EXCEPT !.closed = TRUE]
<1>1. /\ p # 0 /\ ports' = [ports EXCEPT ![p] = r]
      /\ UNCHANGED <<schedvars, registry, handle, pc, history>>
  BY DEF Close
<1>2. p \in 1 .. Len(ports) /\ p \in DOMAIN ports /\ ports[p] \in PortRecords
  BY <1>1, HandleType
<1>3. r \in PortRecords /\ r.name = ports[p].name /\ r.queue = ports[p].queue
  BY <1>2 DEF PortRecords
<1> HIDE DEF r
<1>4. /\ ports' \in Seq(PortRecords) /\ Len(ports') = Len(ports) /\ DOMAIN ports' = DOMAIN ports
      /\ ports'[p] = r /\ \A k \in DOMAIN ports : k # p => ports'[k] = ports[k]
      /\ RegistryConsistent'
  BY <1>1, <1>2, <1>3, PortUpdate
<1>5. TypeOK' /\ FreshIds'
  BY <1>1, <1>4 DEF IInv, TypeOK, FreshIds, history, registry
<1>6. DeliveryExact'
  BY <1>1, <1>2, <1>3, <1>4 DEF IInv, DeliveryExact, history
<1> QED
  BY <1>4, <1>5, <1>6 DEF IInv

(* Steps that leave ports, registry and history alone. *)
LEMMA OtherStep ==
  ASSUME IInv, UNCHANGED <<ports, registry, history>>,
         handle' \in [Threads -> 0 .. Len(ports)], pc' \in [Threads -> {"run", "recv", "send"}]
  PROVE  IInv'
BY DEF IInv, TypeOK, FreshIds, DeliveryExact, RegistryConsistent, registry, history

(* Every call a thread makes, and every resumption of one, preserves IInv. *)
LEMMA NextInv == IInv /\ [Next]_vars => IInv'
<1> SUFFICES ASSUME IInv, [Next]_vars PROVE IInv'
  OBVIOUS
<1>1. /\ handle \in [Threads -> 0 .. Len(ports)] /\ pc \in [Threads -> {"run", "recv", "send"}]
      /\ RegistryConsistent /\ DOMAIN ports = 1 .. Len(ports)
  BY DEF IInv, TypeOK
<1>2. ASSUME NEW t \in Threads, NEW n \in Names, CreateFinds(t, n) PROVE IInv'
  <2>1. by_name[n] \in 0 .. Len(ports)
    BY <1>1, <1>2 DEF CreateFinds, RegistryConsistent
  <2>2. handle' \in [Threads -> 0 .. Len(ports)]
    BY <1>1, <1>2, <2>1 DEF CreateFinds
  <2> QED
    BY <1>1, <1>2, <2>2, OtherStep DEF CreateFinds
<1>3. ASSUME NEW t \in Threads,
             SendFull(t) \/ SendReturnsFull(t) \/ RecvWaits(t) \/ RecvClosed(t) \/ YieldNow(t) \/ ExitCurrent(t)
      PROVE  IInv'
  <2>1. UNCHANGED <<ports, registry, history, handle>>
    BY <1>3 DEF SendFull, SendReturnsFull, RecvWaits, RecvClosed, YieldNow, ExitCurrent
  <2>2. pc' \in [Threads -> {"run", "recv", "send"}]
    BY <1>1, <1>3 DEF SendFull, SendReturnsFull, RecvWaits, RecvClosed, YieldNow, ExitCurrent
  <2> QED
    BY <1>1, <2>1, <2>2, OtherStep
<1>4. CASE BootStep
  BY <1>1, <1>4, OtherStep DEF BootStep
<1>5. CASE UNCHANGED vars
  BY <1>1, <1>5, OtherStep DEF vars
<1> QED
  BY <1>2, <1>3, <1>4, <1>5, NewPortStep, SendStep, RecvStep, CloseStep DEF Next, Call, Resume

(* The inductive invariant holds in every state. *)
THEOREM InductiveInvariant == Spec => []IInv
<1> QED
  BY InitInv, NextInv, PTL DEF Spec

(* No port loses, duplicates or reorders a message, or holds more than its  *)
(* capacity: send appends, recv removes the oldest, nothing else touches a  *)
(* queue (port.rs send, try_send, recv, try_recv).                          *)
THEOREM MessagesDeliveredExactly == Spec => []DeliveryExact
<1>1. IInv => DeliveryExact
  BY DEF IInv
<1> QED
  BY InductiveInvariant, <1>1, PTL

(* The registry's two maps agree (port.rs register, create). *)
THEOREM RegistryAgrees == Spec => []RegistryConsistent
<1>1. IInv => RegistryConsistent
  BY DEF IInv
<1> QED
  BY InductiveInvariant, <1>1, PTL

(* A closed port stays closed and accepts nothing more (port.rs close, send). *)
THEOREM CloseFinal == Spec => ClosedIsFinal
<1> DEFINE Final == \A p \in DOMAIN ports : ports[p].closed => ports'[p].closed /\ sent'[p] = sent[p]
<1>1. IInv /\ [Next]_vars => [Final]_vars
  <2> SUFFICES ASSUME IInv, Next, NEW p \in DOMAIN ports, ports[p].closed
               PROVE  ports'[p].closed /\ sent'[p] = sent[p]
    OBVIOUS
  <2>1. ports \in Seq(PortRecords) /\ DOMAIN ports = 1 .. Len(ports) /\ p \in PortIds
    <3>1. TypeOK /\ ports \in Seq(PortRecords)
      BY DEF IInv, TypeOK
    <3> QED
      BY <3>1, PortExists, LenProperties
  <2>2. CASE UNCHANGED <<ports, sent>>
    BY <2>2
  <2>3. ASSUME NEW t \in Threads, NEW n \in Names, NewPort(t, n) PROVE ports'[p].closed /\ sent'[p] = sent[p]
    <3> DEFINE new == [name |-> n, queue |-> <<>>, closed |-> FALSE]
    <3>1. ports' = Append(ports, new) /\ sent' = sent /\ new \in PortRecords
      BY <2>3 DEF NewPort, history, PortRecords
    <3> QED
      BY <2>1, <3>1, AppendProperties
  <2>4. ASSUME NEW t \in Threads, SendAccepted(t) PROVE ports'[p].closed /\ sent'[p] = sent[p]
    <3>1. handle[t] # p
      BY <2>4 DEF SendAccepted
    <3> QED
      BY <2>1, <2>4, <3>1 DEF SendAccepted, IInv, TypeOK
  <2>5. ASSUME NEW t \in Threads, RecvTakes(t) PROVE ports'[p].closed /\ sent'[p] = sent[p]
    BY <2>1, <2>5 DEF RecvTakes
  <2>6. ASSUME NEW t \in Threads, Close(t) PROVE ports'[p].closed /\ sent'[p] = sent[p]
    BY <2>1, <2>6 DEF Close, history
  <2>7. ASSUME NEW t \in Threads,
               \/ \E n \in Names : CreateFinds(t, n)
               \/ SendFull(t) \/ SendReturnsFull(t) \/ RecvWaits(t) \/ RecvClosed(t)
               \/ YieldNow(t) \/ ExitCurrent(t)
        PROVE  UNCHANGED <<ports, sent>>
    BY <2>7 DEF CreateFinds, SendFull, SendReturnsFull, RecvWaits, RecvClosed, YieldNow, ExitCurrent, history
  <2>8. CASE BootStep
    BY <2>2, <2>8 DEF BootStep, history
  <2> QED
    BY <2>2, <2>3, <2>4, <2>5, <2>6, <2>7, <2>8 DEF Next, Call, Resume
<1> QED
  BY InductiveInvariant, <1>1, PTL DEF Spec, ClosedIsFinal
=============================================================================
