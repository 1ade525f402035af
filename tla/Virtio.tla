--------------------------------- MODULE Virtio ---------------------------------
(***************************************************************************)
(* The virtio-blk, virtio-gpu and virtio-net drivers (drivers/virtio/) and  *)
(* the UDP echo of drivers/net/mod.rs over them, after their init.  Kernel  *)
(* code runs on one CPU and does not yield inside a driver, so one call is  *)
(* under way at a time; the devices work concurrently with it.              *)
(***************************************************************************)
EXTENDS Virtqueue, FiniteSets

CONSTANTS
  SyncQueues,   \* queues driven by one blocking request at a time
  ChainLength,  \* descriptors per request on each of them
  QueueSizes,   \* what the devices may offer, capped by QUEUE_SIZE, by queue
  MaxFrames     \* bound on the frames that arrive

Queues == SyncQueues \cup {"rx"}

ASSUME QueueAssumption ==
  /\ "tx" \in SyncQueues /\ "rx" \notin SyncQueues
  /\ \A size \in QueueSizes : \A k \in Queues :
       size[k] \in Nat \ {0} /\ IdxMod % size[k] = 0 /\ size[k] < IdxMod
  /\ \A k \in SyncQueues : ChainLength[k] \in Nat \ {0}
  /\ ChainLength["tx"] = 1

VARIABLES
  vq,        \* the virtqueues
  notified,  \* queues the device has been told to look at
  pc,        \* "idle", "reply", or the stage of a request: "pushed", "wait"
  queue,     \* the queue the call works on
  head,      \* the head of its chain
  status,    \* the status byte or response of the request
  result,    \* what the last request reported
  rx_bufs,   \* the frame in each receive buffer (0: none)
  arrived,   \* history: frames the device accepted, in order
  delivered, \* history: frames recv returned
  reply,     \* the echo request being answered (0: none)
  answered   \* history: frames whose reply the device transmitted

vars == <<vq, notified, pc, queue, head, status, result, rx_bufs,
          arrived, delivered, reply, answered>>

call == <<pc, queue, head, status, result>>
net  == <<rx_bufs, arrived, delivered, reply, answered>>

(* Frames that are UDP echo requests: the even ones. *)
IsEcho(f) == f % 2 = 0
Echoes(s) ==
  LET echoes[i \in 0 .. Len(s)] ==
        IF i = 0 THEN <<>>
        ELSE IF IsEcho(s[i]) THEN Append(echoes[i - 1], s[i]) ELSE echoes[i - 1]
  IN  echoes[Len(s)]

RxPrefilled(size) ==
  [New(size) EXCEPT
     !.next = [i \in 0 .. size - 1 |-> 0], !.more = [i \in 0 .. size - 1 |-> FALSE],
     !.num_free = 0,
     !.avail = [i \in 0 .. size - 1 |-> i], !.avail_idx = size]

(* After blk::init, gpu::init and net::init: the receive queue has one       *)
(* buffer per descriptor, all of them available.                             *)
Init ==
  /\ \E size \in QueueSizes :
       /\ vq = [k \in Queues |-> IF k = "rx" THEN RxPrefilled(size[k]) ELSE New(size[k])]
       /\ rx_bufs = [i \in 0 .. size["rx"] - 1 |-> 0]
  /\ notified = {}
  /\ pc = "idle" /\ queue = "tx" /\ head = 0 /\ status = "unset" /\ result = "ok"
  /\ arrived = <<>> /\ delivered = <<>> /\ reply = 0 /\ answered = <<>>

-----------------------------------------------------------------------------
(* poll_echo sends its reply; the other requests come from idle callers. *)
Calls(k) == pc = (IF k = "tx" THEN "reply" ELSE "idle")

(* do_request, cmd and send up to push_avail, under the queue's lock. *)
Submit(k) ==
  /\ Calls(k)
  /\ CanAllocChain(vq[k], ChainLength[k])
  /\ queue' = k
  /\ head' = vq[k].free_head
  /\ status' = "unset"
  /\ vq' = [vq EXCEPT ![k] = PushAvail(AllocChain(@, ChainLength[k]), @.free_head)]
  /\ pc' = "pushed"
  /\ UNCHANGED <<notified, result, net>>

(* alloc_chain returns None: an error for blk and net, a panic for gpu. *)
SubmitFails(k) ==
  /\ Calls(k)
  /\ ~ CanAllocChain(vq[k], ChainLength[k])
  /\ pc' = IF k = "gpu" THEN "panic" ELSE "idle"
  /\ result' = "full"
  /\ UNCHANGED <<vq, notified, queue, head, status, net>>

Notify ==
  /\ pc = "pushed"
  /\ notified' = notified \cup {queue}
  /\ pc' = "wait"
  /\ UNCHANGED <<vq, queue, head, status, result, net>>

\* Mutant: the chain is reclaimed without waiting for the device.
WaitUsedSkipped ==
  /\ pc = "wait"
  /\ vq' = [vq EXCEPT ![queue] = FreeChain(@, head)]
  /\ result' = status
  /\ pc' = "idle"
  /\ UNCHANGED <<notified, queue, head, status, net>>

(* wait_used sees an element, whose id is ignored; free_chain; the status    *)
(* byte becomes the result.                                                  *)
WaitUsed ==
  /\ pc = "wait"
  /\ HasUsed(vq[queue])
  /\ vq' = [vq EXCEPT ![queue] = FreeChain(PopUsed(@), head)]
  /\ result' = status
  /\ pc' = "idle"
  /\ UNCHANGED <<notified, queue, head, status, net>>

\* Mutant: the buffer recv just emptied is not the one it posts again.
RecvRepostsNext ==
  LET id == PoppedId(vq["rx"])
      q  == PopUsed(vq["rx"])
  IN
  /\ pc = "idle"
  /\ HasUsed(vq["rx"])
  /\ delivered' = Append(delivered, rx_bufs[id])
  /\ vq' = [vq EXCEPT !["rx"] = PushAvail(q, (id + 1) % q.size)]
  /\ notified' = notified \cup {"rx"}
  /\ reply' = rx_bufs[id]
  /\ pc' = IF IsEcho(rx_bufs[id]) THEN "reply" ELSE "idle"
  /\ UNCHANGED <<queue, head, status, result, rx_bufs, arrived, answered>>

(* poll_echo: recv copies the frame out of the buffer the used element names *)
(* and posts the buffer again; an echo request is answered with send.        *)
Recv ==
  LET id == PoppedId(vq["rx"]) IN
  /\ pc = "idle"
  /\ HasUsed(vq["rx"])
  /\ delivered' = Append(delivered, rx_bufs[id])
  /\ vq' = [vq EXCEPT !["rx"] = PushAvail(PopUsed(@), id)]
  /\ notified' = notified \cup {"rx"}
  /\ reply' = rx_bufs[id]
  /\ pc' = IF IsEcho(rx_bufs[id]) THEN "reply" ELSE "idle"
  /\ UNCHANGED <<queue, head, status, result, rx_bufs, arrived, answered>>

-----------------------------------------------------------------------------
(* The devices.  A request queue is looked at after a notification, the      *)
(* receive queue whenever a frame arrives.                                   *)
DeviceFetch(k) ==
  /\ k \in notified \/ k = "rx"
  /\ DeviceSees(vq[k])
  /\ vq' = [vq EXCEPT ![k] = Fetch(@)]
  /\ UNCHANGED <<notified, call, net>>

(* A request is carried out, or fails; tx transmits the reply.              *)
DeviceServe(k, outcome) ==
  \E h \in vq[k].owned :
    /\ vq' = [vq EXCEPT ![k] = Return(@, h)]
    /\ status' = outcome
    /\ answered' = IF k = "tx" THEN Append(answered, reply) ELSE answered
    /\ UNCHANGED <<notified, pc, queue, head, result, rx_bufs, arrived, delivered, reply>>

(* A frame arrives and fills one of the buffers the device has fetched. *)
DeviceReceive ==
  \E h \in vq["rx"].owned :
    /\ Len(arrived) < MaxFrames
    /\ rx_bufs' = [rx_bufs EXCEPT ![h] = Len(arrived) + 1]
    /\ arrived' = Append(arrived, Len(arrived) + 1)
    /\ vq' = [vq EXCEPT !["rx"] = Return(@, h)]
    /\ UNCHANGED <<notified, call, delivered, reply, answered>>

Device(k) ==
  \/ DeviceFetch(k)
  \/ k \in SyncQueues /\ \E outcome \in {"ok", "err"} : DeviceServe(k, outcome)

Next ==
  \/ \E k \in SyncQueues : Submit(k) \/ SubmitFails(k)
  \/ Notify \/ WaitUsed \/ Recv
  \/ \E k \in Queues : Device(k)
  \/ DeviceReceive

Spec == Init /\ [][Next]_vars

(* A call under way goes on, and a device serves what it was notified of. *)
FairSpec ==
  /\ Spec
  /\ WF_vars(Notify \/ WaitUsed \/ Submit("tx"))
  /\ \A k \in Queues : WF_vars(Device(k))

-----------------------------------------------------------------------------
InFlight(k) == IF pc \in {"pushed", "wait"} /\ queue = k THEN ChainSet(vq[k], head) ELSE {}

(* The free list of a request queue holds num_free different descriptors,    *)
(* and together with the chain of the request under way they are all of      *)
(* them: no descriptor is lost or linked twice however often chains are      *)
(* taken off and pushed back (queue.rs alloc_chain, free_chain).             *)
FreeListSound ==
  \A k \in SyncQueues :
    LET q    == vq[k]
        free == {Walk(q, q.free_head, q.size)[i] : i \in 0 .. q.num_free - 1}
    IN  /\ Cardinality(free) = q.num_free
        /\ free \cap InFlight(k) = {}
        /\ free \cup InFlight(k) = 0 .. q.size - 1

(* A request finds its queue full only if the device offered fewer           *)
(* descriptors than one request needs; otherwise the errors of blk and net   *)
(* and the expect("virtqueue full") of gpu.rs:162 are unreachable.           *)
QueueNeverFull ==
  \A k \in SyncQueues :
    Calls(k) /\ ChainLength[k] <= vq[k].size => CanAllocChain(vq[k], ChainLength[k])

(* Buffers are released and descriptors reused only when the device is done  *)
(* with them: a chain the device holds or may still fetch belongs to the     *)
(* request under way.  wait_used ignores the id of the element it pops, so   *)
(* this also says that the element is the request's own, across wrap-around. *)
DeviceOnlyOwnsInFlight ==
  \A k \in SyncQueues :
    LET q == vq[k]
        ahead == {q.avail[(q.seen + i) % q.size] : i \in 0 .. ((q.avail_idx + IdxMod - q.seen) % IdxMod) - 1}
    IN  \A h \in q.owned \cup ahead : ChainSet(q, h) \subseteq InFlight(k) /\ h = head

Pending ==
  LET q == vq["rx"]
      n == (q.used_idx + IdxMod - q.last_used_idx) % IdxMod
  IN  [i \in 1 .. n |-> rx_bufs[q.used[(q.last_used_idx + i - 1) % q.size]]]

(* Frames are received exactly once and in order: what recv has returned     *)
(* followed by what waits in the used ring is what arrived, although every   *)
(* buffer is handed back to the device while others are still waiting.       *)
FramesDeliveredInOrder == delivered \o Pending = arrived

(* Every echo request received is answered once, in order, and before        *)
(* poll_echo returns.                                                        *)
EchoAnsweredOnce ==
  LET done == Echoes(delivered)
      k    == Len(answered)
  IN  /\ answered = SubSeq(done, 1, k)
      /\ Len(done) - k \in {0, 1}
      /\ pc = "idle" => answered = done

(* A request that has been pushed completes, with a status the device has    *)
(* written and not the 0xff the driver put there (blk.rs:86, 127): no        *)
(* notification is lost.                                                     *)
RequestCompletes == pc = "pushed" ~> pc = "idle" /\ result \in {"ok", "err"}
=============================================================================
