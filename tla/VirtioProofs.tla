------------------------------ MODULE VirtioProofs ------------------------------
(***************************************************************************)
(* Proofs about the drivers over the virtqueues, for any number of request  *)
(* queues, any queue sizes and chain lengths and any index width the sizes  *)
(* divide.                                                                  *)
(***************************************************************************)
EXTENDS Virtio, VirtqueueProofs

Active(k) == pc \in {"pushed", "wait"} /\ queue = k

RequestInv(k) == IF Active(k) THEN InRequest(vq[k], ChainLength[k], head) ELSE NoRequest(vq[k])

ReceiveInv == InOrder(vq["rx"], rx_bufs, delivered, arrived)

(* The echo request recv returned last is not transmitted yet. *)
Owed == pc = "reply" \/ (Active("tx") /\ ~ HasUsed(vq["tx"]))

EchoInv == Echoes(delivered) = IF Owed THEN Append(answered, reply) ELSE answered

TypeOK ==
  /\ vq \in [Queues -> QueueValues]
  /\ pc \in {"idle", "reply", "pushed", "wait", "panic"}
  /\ queue \in SyncQueues
  /\ rx_bufs \in [0 .. vq["rx"].size - 1 -> Nat]
  /\ arrived \in Seq(Nat) /\ delivered \in Seq(Nat) /\ answered \in Seq(Nat)
  /\ reply \in Nat

IInv ==
  /\ TypeOK
  /\ \A k \in SyncQueues : RequestInv(k)
  /\ ReceiveInv
  /\ EchoInv

-----------------------------------------------------------------------------
(* e[i] is what Echoes selects from the first i elements of s. *)
Selects(e, s, n) ==
  /\ e \in [0 .. n -> Seq(Nat)] /\ e[0] = <<>>
  /\ \A i \in 1 .. n : e[i] = IF IsEcho(s[i]) THEN Append(e[i - 1], s[i]) ELSE e[i - 1]

(* There are such selections, and Echoes takes the last of them. *)
LEMMA EchoesSelects ==
  ASSUME NEW s \in Seq(Nat)
  PROVE  \E e : Selects(e, s, Len(s)) /\ Echoes(s) = e[Len(s)]
<1> DEFINE n == Len(s)
           step == [i \in 1 .. n |-> [x \in Seq(Nat) |-> IF IsEcho(s[i]) THEN Append(x, s[i]) ELSE x]]
           nil == <<>>
           E == CHOOSE e : e = [i \in 0 .. n |-> IF i = 0 THEN <<>>
                  ELSE IF IsEcho(s[i]) THEN Append(e[i - 1], s[i]) ELSE e[i - 1]]
<1>1. n \in Nat /\ nil \in Seq(Nat)
  BY LenProperties, EmptySeq
<1>2. step \in [1 .. n -> [Seq(Nat) -> Seq(Nat)]]
  BY ElementOfSeq
<1> HIDE DEF step, nil
<1>3. PICK f \in [0 .. n -> Seq(Nat)] : Iterates(f, n, nil, step)
  BY <1>1, <1>2, IterationExists
<1>4. ASSUME NEW i \in 0 .. n, i # 0 
      PROVE step[i][f[i - 1]] = IF IsEcho(s[i]) THEN Append(f[i - 1], s[i]) ELSE f[i - 1]
  <2>1. i - 1 \in 0 .. n /\ i \in 1 .. n
    BY <1>1, <1>4
  <2>2. f[i - 1] \in Seq(Nat)
    BY <2>1
  <2> QED
    BY <2>1, <2>2 DEF step
<1>5. f = [i \in 0 .. n |-> IF i = 0 THEN <<>>
            ELSE IF IsEcho(s[i]) THEN Append(f[i - 1], s[i]) ELSE f[i - 1]]
  BY <1>3, <1>4 DEF Iterates, nil
<1>6. E = [i \in 0 .. n |-> IF i = 0 THEN <<>>
            ELSE IF IsEcho(s[i]) THEN Append(E[i - 1], s[i]) ELSE E[i - 1]]
  BY <1>5
<1>7. Echoes(s) = E[n]
  BY DEF Echoes
<1> HIDE DEF E, n
<1>8. 0 \in 0 .. n /\ \A i \in 1 .. n : i \in 0 .. n /\ i # 0
  BY <1>1
<1>9. E[0] = <<>> /\ \A i \in 1 .. n : E[i] = IF IsEcho(s[i]) THEN Append(E[i - 1], s[i]) ELSE E[i - 1]
  BY <1>8, <1>6
<1>10. f[0] = <<>> /\ \A i \in 1 .. n : f[i] = IF IsEcho(s[i]) THEN Append(f[i - 1], s[i]) ELSE f[i - 1]
  BY <1>8, <1>5
<1>11. SameSteps(E, f, n)
  BY <1>9, <1>10 DEF SameSteps
<1>12. Agree(E, f, n)
  BY <1>1, <1>11, IterationUnique
<1>13. E = f
  BY <1>6, <1>12 DEF Agree
<1>14. Selects(f, s, n)
  BY <1>10 DEF Selects
<1> QED
  BY <1>7, <1>13, <1>14 DEF n

(* Echoes of nothing, *)
LEMMA EchoesEmpty ==
  Echoes(<<>>) = <<>>
<1>1. <<>> \in Seq(Nat) /\ Len(<<>>) = 0
  BY EmptySeq
<1>2. PICK e : Selects(e, <<>>, 0) /\ Echoes(<<>>) = e[0]
  BY <1>1, EchoesSelects
<1> QED
  BY <1>2 DEF Selects

(* and of a longer sequence. *)
LEMMA EchoesAppend ==
  ASSUME NEW s \in Seq(Nat), NEW f \in Nat
  PROVE  /\ Echoes(Append(s, f)) = IF IsEcho(f) THEN Append(Echoes(s), f) ELSE Echoes(s)
         /\ Echoes(s) \in Seq(Nat)
<1> DEFINE n == Len(s)
           t == Append(s, f)
           m == n + 1
<1>1. n \in Nat /\ t \in Seq(Nat) /\ Len(t) = m /\ t[m] = f /\ \A i \in 1 .. n : t[i] = s[i]
  BY LenProperties, AppendProperties
<1> HIDE DEF n, t
<1>2. PICK d : Selects(d, s, n) /\ Echoes(s) = d[n]
  BY EchoesSelects DEF n
<1>3. PICK e : Selects(e, t, m) /\ Echoes(t) = e[m]
  BY <1>1, EchoesSelects
<1>4. SameSteps(d, e, n)
  <2>1. d[0] = <<>> /\ \A i \in 1 .. n : d[i] = IF IsEcho(s[i]) THEN Append(d[i - 1], s[i]) ELSE d[i - 1]
    BY <1>2 DEF Selects
  <2>2. e[0] = <<>> /\ \A i \in 1 .. n : e[i] = IF IsEcho(t[i]) THEN Append(e[i - 1], t[i]) ELSE e[i - 1]
    <3>1. \A i \in 1 .. n : i \in 1 .. m
      BY <1>1
    <3> QED
      BY <1>3, <3>1 DEF Selects
  <2> QED
    BY <1>1, <2>1, <2>2 DEF SameSteps
<1>5. e[n] = d[n]
  <2>1. Agree(d, e, n)
    BY <1>1, <1>4, IterationUnique
  <2> QED
    BY <1>1, <2>1 DEF Agree
<1>6. e[m] = IF IsEcho(f) THEN Append(e[n], f) ELSE e[n]
  <2>1. m \in 1 .. m /\ m - 1 = n
    BY <1>1
  <2>2. e[m] = IF IsEcho(t[m]) THEN Append(e[m - 1], t[m]) ELSE e[m - 1]
    BY <1>3, <2>1 DEF Selects
  <2> QED
    BY <1>1, <2>1, <2>2
<1>7. d[n] \in Seq(Nat)
  BY <1>1, <1>2 DEF Selects
<1> QED
  BY <1>2, <1>3, <1>5, <1>6, <1>7 DEF t

-----------------------------------------------------------------------------
(* and the receive queue has all its buffers available. *)
LEMMA NewReceiveQueue ==
  ASSUME NEW n \in Sizes, NEW bufs
  PROVE  /\ RxPrefilled(n) \in QueueValues /\ RxPrefilled(n).size = n
         /\ InOrder(RxPrefilled(n), bufs, <<>>, <<>>)
<1> DEFINE q == RxPrefilled(n)
<1>1. n \in Nat /\ n > 0 /\ IdxMod \in Nat /\ n < IdxMod
  BY QueueAssumption, IdxModAssumption DEF Sizes
<1>2. q = [size |-> n,
           next |-> [i \in 0 .. n - 1 |-> 0], more |-> [i \in 0 .. n - 1 |-> FALSE],
           avail |-> [i \in 0 .. n - 1 |-> i], avail_idx |-> n,
           used |-> [i \in 0 .. n - 1 |-> 0], used_idx |-> 0,
           free_head |-> 0, num_free |-> 0, last_used_idx |-> 0,
           seen |-> 0, owned |-> {}]
  <2> DEFINE nx == [i \in 0 .. n - 1 |-> IF i + 1 < n THEN i + 1 ELSE 0]
             zero == [i \in 0 .. n - 1 |-> 0]
             yes == [i \in 0 .. n - 1 |-> TRUE]
             no == [i \in 0 .. n - 1 |-> FALSE]
             id == [i \in 0 .. n - 1 |-> i]
             e == New(n)
  <2>1. e = [size |-> n, next |-> nx, more |-> yes, avail |-> zero, avail_idx |-> 0,
             used |-> zero, used_idx |-> 0, free_head |-> 0, num_free |-> n, last_used_idx |-> 0,
             seen |-> 0, owned |-> {}]
    BY DEF New
  <2>2. q = [e EXCEPT !.next = zero, !.more = no, !.num_free = 0, !.avail = id, !.avail_idx = n]
    BY DEF RxPrefilled
  <2> HIDE DEF e, nx, zero, yes, no, id, q
  <2>3. q = [size |-> n, next |-> zero, more |-> no, avail |-> id, avail_idx |-> n,
             used |-> zero, used_idx |-> 0, free_head |-> 0, num_free |-> 0, last_used_idx |-> 0,
             seen |-> 0, owned |-> {}]
    BY <2>1, <2>2
  <2> QED
    BY <2>3 DEF zero, no, id
<1>3. q \in VQ(n)
  BY <1>1, <1>2 DEF VQ
<1>4. q \in QueueValues
  BY <1>3, Zenon DEF QueueValues
<1>5. /\ q.size = n /\ q.avail_idx = n /\ q.used_idx = 0 /\ q.last_used_idx = 0 /\ q.seen = 0
      /\ q.owned = {} /\ \A i \in 0 .. n - 1 : q.avail[i] = i
  BY <1>2
<1> HIDE DEF q
<1>6. Cardinality({}) = 0
  BY FS_EmptySet
<1>7. 0 % IdxMod = 0 /\ n % IdxMod = n /\ \A i \in 0 .. n - 1 : i % n = i
  BY <1>1
<1>8. Ring(q, 0, 0, 0, n)
  <2>1. 0 <= 0 /\ 0 <= n /\ n = 0 + q.size /\ Cardinality(q.owned) = 0 - 0 /\ 0 .. 0 - 1 = {}
    BY <1>1, <1>5, <1>6
  <2>2. \A i, j \in 0 .. n - 1 : q.avail[i % q.size] = q.avail[j % q.size] => i = j
    BY <1>5, <1>7
  <2>3. \A j \in 0 .. n - 1 : q.avail[j % q.size] \notin q.owned
    BY <1>5
  <2> QED
    BY <1>5, <1>7, <2>1, <2>2, <2>3 DEF Ring
<1>9. <<>> \o Waiting(q, bufs, 0, 0) = <<>>
  <2>1. Waiting(q, bufs, 0, 0) = <<>>
    BY DEF Waiting
  <2>2. <<>> \in Seq(Nat)
    BY EmptySeq
  <2> QED
    BY <2>1, <2>2, ConcatEmptySeq
<1>10. InOrder(q, bufs, <<>>, <<>>)
  <2>1. 0 \in Nat
    OBVIOUS
  <2> QED
    BY <1>1, <1>8, <1>9, <2>1, Zenon DEF InOrder
<1> QED
  BY <1>4, <1>5, <1>10 DEF q

(* The invariant holds at first. *)
LEMMA InitInv ==
  Init => IInv
<1> SUFFICES ASSUME Init PROVE IInv
  OBVIOUS
<1>1. PICK size \in QueueSizes :
        /\ vq = [k \in Queues |-> IF k = "rx" THEN RxPrefilled(size[k]) ELSE New(size[k])]
        /\ rx_bufs = [i \in 0 .. size["rx"] - 1 |-> 0]
  BY DEF Init
<1>2. \A k \in Queues : size[k] \in Sizes
  BY QueueAssumption, IdxModAssumption DEF Sizes
<1>3. "rx" \in Queues /\ "tx" \in SyncQueues /\ \A k \in SyncQueues : k \in Queues /\ k # "rx"
  BY QueueAssumption DEF Queues
<1>4. ASSUME NEW k \in SyncQueues PROVE vq[k] \in QueueValues /\ NoRequest(vq[k])
  <2> DEFINE n == size[k]
  <2>1. vq[k] = New(n) /\ n \in Sizes
    BY <1>1, <1>2, <1>3
  <2> HIDE DEF n
  <2> QED
    BY <2>1, NewQueue
<1>5. /\ vq["rx"] \in QueueValues /\ vq["rx"].size = size["rx"]
      /\ InOrder(vq["rx"], rx_bufs, <<>>, <<>>)
  <2> DEFINE n == size["rx"]
  <2>1. vq["rx"] = RxPrefilled(n) /\ n \in Sizes
    BY <1>1, <1>2, <1>3
  <2> HIDE DEF n
  <2>2. RxPrefilled(n) \in QueueValues /\ RxPrefilled(n).size = n
        /\ InOrder(RxPrefilled(n), rx_bufs, <<>>, <<>>)
    BY <2>1, NewReceiveQueue
  <2> QED
    BY <2>1, <2>2 DEF n
<1>6. vq \in [Queues -> QueueValues]
  <2>1. \A k \in Queues : vq[k] \in QueueValues
    BY <1>4, <1>5 DEF Queues
  <2>2. vq = [k \in Queues |-> vq[k]]
    BY <1>1
  <2> QED
    BY <2>1, <2>2, Zenon
<1>7. TypeOK
  <2>1. rx_bufs \in [0 .. vq["rx"].size - 1 -> Nat]
    BY <1>1, <1>5
  <2>2. <<>> \in Seq(Nat)
    BY EmptySeq
  <2>3. /\ pc = "idle" /\ queue = "tx" /\ reply = 0
        /\ arrived = <<>> /\ delivered = <<>> /\ answered = <<>>
    BY DEF Init
  <2> QED
    BY <1>3, <1>6, <2>1, <2>2, <2>3 DEF TypeOK
<1>8. \A k \in SyncQueues : RequestInv(k)
  BY <1>4 DEF RequestInv, Active, Init
<1>9. ReceiveInv
  BY <1>5 DEF ReceiveInv, Init
<1>10. EchoInv
  BY EchoesEmpty DEF EchoInv, Owed, Active, Init
<1> QED
  BY <1>7, <1>8, <1>9, <1>10 DEF IInv

(* A step on a request queue leaves the others and the receive queue alone. *)
LEMMA OneQueue ==
  ASSUME TypeOK, NEW k \in SyncQueues, NEW r \in QueueValues, vq' = [vq EXCEPT ![k] = r]
  PROVE  /\ vq' \in [Queues -> QueueValues] /\ vq'[k] = r /\ vq'["rx"] = vq["rx"]
         /\ \A j \in SyncQueues : j # k => vq'[j] = vq[j]
<1>1. k \in Queues /\ k # "rx" /\ "rx" \in Queues /\ SyncQueues \subseteq Queues
  BY QueueAssumption DEF Queues
<1>2. vq \in [Queues -> QueueValues]
  BY DEF TypeOK
<1> QED
  BY <1>1, <1>2

(* The invariant after a step that touches no frame but perhaps answered. *)
LEMMA FramesKept ==
  ASSUME IInv, vq'["rx"] = vq["rx"], vq' \in [Queues -> QueueValues],
         pc' \in {"idle", "reply", "pushed", "wait", "panic"}, queue' \in SyncQueues,
         answered' \in Seq(Nat), UNCHANGED <<rx_bufs, arrived, delivered, reply>>
  PROVE  TypeOK' /\ ReceiveInv'
<1>1. TypeOK'
  BY DEF IInv, TypeOK
<1>2. ReceiveInv'
  BY DEF IInv, ReceiveInv
<1> QED
  BY <1>1, <1>2

(* The driver submits a request, *)
LEMMA SubmitStep ==
  ASSUME IInv, NEW k \in SyncQueues, Submit(k)
  PROVE  IInv'
<1> DEFINE q == vq[k]
           n == ChainLength[k]
           h == q.free_head
           r == PushAvail(AllocChain(q, n), h)
<1>1. /\ Calls(k) /\ CanAllocChain(q, n)
      /\ queue' = k /\ head' = h /\ vq' = [vq EXCEPT ![k] = r] /\ pc' = "pushed"
      /\ rx_bufs' = rx_bufs /\ arrived' = arrived /\ delivered' = delivered
      /\ reply' = reply /\ answered' = answered
  BY DEF Submit, net
<1>2. q \in QueueValues /\ n \in Nat \ {0}
  BY QueueAssumption DEF IInv, TypeOK, Queues
<1>3. pc = "idle" \/ pc = "reply"
  BY <1>1 DEF Calls
<1>4. \A j \in SyncQueues : NoRequest(vq[j])
  BY <1>3 DEF IInv, RequestInv, Active
<1>5. NoRequest(q)
  BY <1>4
<1> HIDE DEF q, n
<1>6. r \in QueueValues /\ InRequest(r, n, h) /\ ~ HasUsed(r)
  BY <1>1, <1>2, <1>5, SubmitRequest
<1> HIDE DEF r, h
<1>7. /\ vq' \in [Queues -> QueueValues] /\ vq'[k] = r /\ vq'["rx"] = vq["rx"]
      /\ \A j \in SyncQueues : j # k => vq'[j] = vq[j]
  BY <1>1, <1>6, OneQueue DEF IInv
<1>8. TypeOK' /\ ReceiveInv'
  <2>1. answered' \in Seq(Nat)
    BY <1>1 DEF IInv, TypeOK
  <2> QED
    BY <1>1, <1>7, <2>1, FramesKept
<1>9. ASSUME NEW j \in SyncQueues PROVE RequestInv(j)'
  <2>1. CASE j = k
    BY <1>1, <1>6, <1>7, <2>1 DEF RequestInv, Active, n
  <2>2. CASE j # k
    <3>1. ~ Active(j)' /\ vq'[j] = vq[j]
      BY <1>1, <1>7, <2>2 DEF Active
    <3> QED
      BY <1>4, <3>1 DEF RequestInv
  <2> QED
    BY <2>1, <2>2
<1>10. Owed' <=> Owed
  <2>1. Owed <=> k = "tx"
    BY <1>1 DEF Owed, Active, Calls
  <2>2. Owed' <=> k = "tx"
    <3>1. CASE k = "tx"
      <4>1. Active("tx")' /\ ~ HasUsed(vq'["tx"])
        BY <1>1, <1>6, <1>7, <3>1 DEF Active
      <4> QED
        BY <3>1, <4>1 DEF Owed
    <3>2. CASE k # "tx"
      BY <1>1, <3>2 DEF Owed, Active
    <3> QED
      BY <3>1, <3>2
  <2> QED
    BY <2>1, <2>2
<1>11. EchoInv'
  BY <1>1, <1>10 DEF IInv, EchoInv
<1> QED
  BY <1>8, <1>9, <1>11 DEF IInv

(* fails to, which it never does for a reply, *)
LEMMA SubmitFailsStep ==
  ASSUME IInv, NEW k \in SyncQueues, SubmitFails(k)
  PROVE  IInv'
<1>1. /\ Calls(k) /\ ~ CanAllocChain(vq[k], ChainLength[k])
      /\ pc' \in {"idle", "panic"} /\ vq' = vq /\ queue' = queue /\ head' = head
      /\ rx_bufs' = rx_bufs /\ arrived' = arrived /\ delivered' = delivered
      /\ reply' = reply /\ answered' = answered
  BY DEF SubmitFails, net
<1>2. pc = "idle" \/ pc = "reply"
  BY <1>1 DEF Calls
<1>3. \A j \in SyncQueues : NoRequest(vq[j])
  BY <1>2 DEF IInv, RequestInv, Active
<1>4. k # "tx"
  <2> SUFFICES ASSUME k = "tx" PROVE FALSE
    OBVIOUS
  <2>1. vq["tx"] \in QueueValues /\ ChainLength["tx"] = 1 /\ NoRequest(vq["tx"])
    BY <1>3, QueueAssumption DEF IInv, TypeOK, Queues
  <2>2. vq["tx"].size \in Nat /\ vq["tx"].size > 0
    BY <2>1, Fields
  <2>3. CanAllocChain(vq["tx"], 1)
    BY <2>1, <2>2, RoomForRequest
  <2> QED
    BY <1>1, <2>1, <2>3
<1>5. pc = "idle"
  BY <1>1, <1>4 DEF Calls
<1>6. TypeOK' /\ ReceiveInv'
  BY <1>1, FramesKept DEF IInv, TypeOK
<1>7. \A j \in SyncQueues : RequestInv(j)'
  BY <1>1, <1>3 DEF RequestInv, Active
<1>8. EchoInv'
  BY <1>1, <1>5 DEF IInv, EchoInv, Owed, Active
<1> QED
  BY <1>6, <1>7, <1>8 DEF IInv

(* notifies the device, *)
LEMMA NotifyStep ==
  ASSUME IInv, Notify
  PROVE  IInv'
<1>1. /\ pc = "pushed" /\ pc' = "wait" /\ vq' = vq /\ queue' = queue /\ head' = head
      /\ rx_bufs' = rx_bufs /\ arrived' = arrived /\ delivered' = delivered
      /\ reply' = reply /\ answered' = answered
  BY DEF Notify, net
<1>2. TypeOK' /\ ReceiveInv'
  BY <1>1, FramesKept DEF IInv, TypeOK
<1>3. \A j : Active(j)' <=> Active(j)
  BY <1>1 DEF Active
<1>4. \A j \in SyncQueues : RequestInv(j)'
  BY <1>1, <1>3 DEF IInv, RequestInv
<1>5. EchoInv'
  BY <1>1, <1>3 DEF IInv, EchoInv, Owed
<1> QED
  BY <1>2, <1>4, <1>5 DEF IInv

(* and finds the request done. *)
LEMMA WaitUsedStep ==
  ASSUME IInv, WaitUsed
  PROVE  IInv'
<1> DEFINE k == queue
           q == vq[k]
           n == ChainLength[k]
           r == FreeChain(PopUsed(q), head)
<1>1. /\ pc = "wait" /\ HasUsed(q) /\ vq' = [vq EXCEPT ![k] = r] /\ pc' = "idle" /\ queue' = queue
      /\ rx_bufs' = rx_bufs /\ arrived' = arrived /\ delivered' = delivered
      /\ reply' = reply /\ answered' = answered
  BY DEF WaitUsed, net
<1>2. k \in SyncQueues
  BY DEF IInv, TypeOK
<1>3. q \in QueueValues /\ n \in Nat \ {0}
  BY <1>2, QueueAssumption DEF IInv, TypeOK, Queues
<1>4. InRequest(q, n, head)
  BY <1>1, <1>2 DEF IInv, RequestInv, Active
<1>5. \A j \in SyncQueues : j # k => NoRequest(vq[j])
  BY DEF IInv, RequestInv, Active
<1> HIDE DEF n, q
<1>6. r \in QueueValues /\ NoRequest(r)
  BY <1>1, <1>3, <1>4, FinishRequest
<1> HIDE DEF r, k
<1>7. /\ vq' \in [Queues -> QueueValues] /\ vq'[k] = r /\ vq'["rx"] = vq["rx"]
      /\ \A j \in SyncQueues : j # k => vq'[j] = vq[j]
  BY <1>1, <1>2, <1>6, OneQueue DEF IInv
<1>8. TypeOK' /\ ReceiveInv'
  <2>1. answered' \in Seq(Nat) /\ queue' \in SyncQueues
    BY <1>1 DEF IInv, TypeOK
  <2> QED
    BY <1>1, <1>7, <2>1, FramesKept
<1>9. ASSUME NEW j \in SyncQueues PROVE RequestInv(j)'
  <2>1. NoRequest(vq'[j])
    BY <1>5, <1>6, <1>7
  <2> QED
    BY <1>1, <2>1 DEF RequestInv, Active
<1>10. ~ Owed /\ ~ Owed'
  BY <1>1 DEF Owed, Active, q, k
<1>11. EchoInv'
  BY <1>1, <1>10 DEF IInv, EchoInv
<1> QED
  BY <1>8, <1>9, <1>11 DEF IInv

(* recv returns a frame. *)
LEMMA RecvStep ==
  ASSUME IInv, Recv
  PROVE  IInv'
<1> DEFINE q == vq["rx"]
           id == PoppedId(q)
           f == rx_bufs[id]
           r == PushAvail(PopUsed(q), id)
<1>1. /\ pc = "idle" /\ HasUsed(q) /\ delivered' = Append(delivered, f)
      /\ vq' = [vq EXCEPT !["rx"] = r] /\ reply' = f
      /\ pc' = (IF IsEcho(f) THEN "reply" ELSE "idle")
      /\ queue' = queue /\ rx_bufs' = rx_bufs /\ arrived' = arrived /\ answered' = answered
  BY DEF Recv
<1>2. /\ q \in QueueValues /\ rx_bufs \in [0 .. q.size - 1 -> Nat] /\ delivered \in Seq(Nat)
      /\ InOrder(q, rx_bufs, delivered, arrived)
  BY DEF IInv, TypeOK, ReceiveInv, Queues
<1> HIDE DEF q
<1>3. /\ r \in QueueValues /\ r.size = q.size /\ f \in Nat
      /\ InOrder(r, rx_bufs, Append(delivered, f), arrived)
  BY <1>1, <1>2, RecvInOrder
<1> HIDE DEF r, f
<1>4. /\ vq' \in [Queues -> QueueValues] /\ vq'["rx"] = r
      /\ \A j \in SyncQueues : vq'[j] = vq[j]
  <2>1. vq \in [Queues -> QueueValues]
    BY DEF IInv, TypeOK
  <2>2. "rx" \in Queues /\ SyncQueues \subseteq Queues /\ "rx" \notin SyncQueues
    BY QueueAssumption DEF Queues
  <2> QED
    BY <1>1, <1>3, <2>1, <2>2
<1>5. delivered' \in Seq(Nat)
  BY <1>1, <1>2, <1>3
<1>6. TypeOK'
  <2>1. rx_bufs' \in [0 .. vq'["rx"].size - 1 -> Nat]
    BY <1>1, <1>2, <1>3, <1>4
  <2>2. pc' \in {"idle", "reply", "pushed", "wait", "panic"}
    BY <1>1
  <2>3. queue' \in SyncQueues /\ arrived' \in Seq(Nat) /\ answered' \in Seq(Nat) /\ reply' \in Nat
    BY <1>1, <1>3 DEF IInv, TypeOK
  <2> QED
    BY <1>4, <1>5, <2>1, <2>2, <2>3 DEF TypeOK
<1>7. \A j \in SyncQueues : RequestInv(j)'
  <2>1. \A j : ~ Active(j) /\ ~ Active(j)'
    BY <1>1 DEF Active
  <2> QED
    BY <1>4, <2>1 DEF IInv, RequestInv
<1>8. ReceiveInv'
  BY <1>1, <1>3, <1>4 DEF ReceiveInv
<1>9. EchoInv'
  <2>1. ~ Owed /\ (Owed' <=> IsEcho(f))
    BY <1>1 DEF Owed, Active
  <2>2. Echoes(delivered) = answered
    BY <2>1 DEF IInv, EchoInv
  <2>3. Echoes(Append(delivered, f)) = IF IsEcho(f) THEN Append(Echoes(delivered), f) ELSE Echoes(delivered)
    BY <1>2, <1>3, EchoesAppend
  <2> QED
    BY <1>1, <2>1, <2>2, <2>3 DEF EchoInv
<1> QED
  BY <1>6, <1>7, <1>8, <1>9 DEF IInv

(* A device fetches a chain, *)
LEMMA DeviceFetchStep ==
  ASSUME IInv, NEW k \in Queues, DeviceFetch(k)
  PROVE  IInv'
<1> DEFINE q == vq[k]
           r == Fetch(q)
<1>1. /\ DeviceSees(q) /\ vq' = [vq EXCEPT ![k] = r]
      /\ pc' = pc /\ queue' = queue /\ head' = head
      /\ rx_bufs' = rx_bufs /\ arrived' = arrived /\ delivered' = delivered
      /\ reply' = reply /\ answered' = answered
  BY DEF DeviceFetch, call, net
<1>2. q \in QueueValues
  BY DEF IInv, TypeOK
<1>3. \A j : Active(j)' <=> Active(j)
  BY <1>1 DEF Active
<1>4. CASE k = "rx"
  <2>1. /\ rx_bufs \in [0 .. q.size - 1 -> Nat] /\ delivered \in Seq(Nat)
        /\ InOrder(q, rx_bufs, delivered, arrived)
    BY <1>4 DEF IInv, TypeOK, ReceiveInv
  <2> HIDE DEF q
  <2>2. r \in QueueValues /\ r.size = q.size
    BY <1>2, FetchFields DEF SameLinks
  <2>3. InOrder(r, rx_bufs, delivered, arrived)
    BY <1>1, <1>2, <2>1, FetchInOrder
  <2> HIDE DEF r
  <2>4. /\ vq' \in [Queues -> QueueValues] /\ vq'["rx"] = r
        /\ \A j \in SyncQueues : vq'[j] = vq[j]
    <3>1. vq \in [Queues -> QueueValues]
      BY DEF IInv, TypeOK
    <3>2. "rx" \in Queues /\ SyncQueues \subseteq Queues /\ "rx" \notin SyncQueues
      BY QueueAssumption DEF Queues
    <3> QED
      BY <1>1, <1>4, <2>2, <3>1, <3>2
  <2>5. TypeOK'
    BY <1>1, <2>1, <2>2, <2>4 DEF IInv, TypeOK
  <2>6. \A j \in SyncQueues : RequestInv(j)'
    BY <1>1, <1>3, <2>4 DEF IInv, RequestInv
  <2>7. ReceiveInv'
    BY <1>1, <2>3, <2>4 DEF ReceiveInv
  <2>8. EchoInv'
    <3>1. vq'["tx"] = vq["tx"]
      BY <2>4, QueueAssumption
    <3> QED
      BY <1>1, <1>3, <3>1 DEF IInv, EchoInv, Owed
  <2> QED
    BY <2>5, <2>6, <2>7, <2>8 DEF IInv
<1>5. CASE k # "rx"
  <2>1. k \in SyncQueues
    BY <1>5 DEF Queues
  <2>2. Active(k)
    <3> SUFFICES ASSUME ~ Active(k) PROVE FALSE
      OBVIOUS
    <3>1. AtRest(q)
      BY <2>1 DEF IInv, RequestInv, NoRequest
    <3> QED
      BY <1>1, <3>1 DEF AtRest, DeviceSees
  <2>3. InRequest(q, ChainLength[k], head)
    BY <2>1, <2>2 DEF IInv, RequestInv
  <2> DEFINE n == ChainLength[k]
  <2> HIDE DEF n, q
  <2>4. r \in QueueValues /\ InRequest(r, n, head) /\ (HasUsed(r) <=> HasUsed(q))
    BY <1>1, <1>2, <2>3, FetchRequest DEF n
  <2> HIDE DEF r
  <2>5. /\ vq' \in [Queues -> QueueValues] /\ vq'[k] = r /\ vq'["rx"] = vq["rx"]
        /\ \A j \in SyncQueues : j # k => vq'[j] = vq[j]
    BY <1>1, <2>1, <2>4, OneQueue DEF IInv
  <2>6. TypeOK' /\ ReceiveInv'
    <3>1. answered' \in Seq(Nat) /\ queue' \in SyncQueues /\ pc' \in {"idle", "reply", "pushed", "wait", "panic"}
      BY <1>1 DEF IInv, TypeOK
    <3> QED
      BY <1>1, <2>5, <3>1, FramesKept
  <2>7. ASSUME NEW j \in SyncQueues PROVE RequestInv(j)'
    <3>1. CASE j = k
      BY <1>1, <1>3, <2>2, <2>4, <2>5, <3>1 DEF RequestInv, n
    <3>2. CASE j # k
      BY <1>1, <1>3, <2>5, <3>2 DEF IInv, RequestInv
    <3> QED
      BY <3>1, <3>2
  <2>8. EchoInv'
    <3>1. HasUsed(vq'["tx"]) <=> HasUsed(vq["tx"])
      BY <2>4, <2>5, QueueAssumption DEF q
    <3> QED
      BY <1>1, <1>3, <3>1 DEF IInv, EchoInv, Owed
  <2> QED
    BY <2>6, <2>7, <2>8 DEF IInv
<1> QED
  BY <1>4, <1>5

(* serves a request, *)
LEMMA DeviceServeStep ==
  ASSUME IInv, NEW k \in SyncQueues, NEW outcome, DeviceServe(k, outcome)
  PROVE  IInv'
<1> DEFINE q == vq[k]
<1>1. PICK g \in q.owned :
        /\ vq' = [vq EXCEPT ![k] = Return(q, g)]
        /\ answered' = IF k = "tx" THEN Append(answered, reply) ELSE answered
        /\ pc' = pc /\ queue' = queue /\ head' = head
        /\ rx_bufs' = rx_bufs /\ arrived' = arrived /\ delivered' = delivered /\ reply' = reply
  BY DEF DeviceServe
<1> DEFINE r == Return(q, g)
           n == ChainLength[k]
<1>2. q \in QueueValues
  BY DEF IInv, TypeOK, Queues
<1>3. \A j : Active(j)' <=> Active(j)
  BY <1>1 DEF Active
<1>4. Active(k)
  <2> SUFFICES ASSUME ~ Active(k) PROVE FALSE
    OBVIOUS
  <2>1. AtRest(q)
    BY DEF IInv, RequestInv, NoRequest
  <2> QED
    BY <1>1, <2>1 DEF AtRest
<1>5. InRequest(q, n, head)
  BY <1>4 DEF IInv, RequestInv
<1> HIDE DEF n, q
<1>6. r \in QueueValues /\ InRequest(r, n, head) /\ ~ HasUsed(q) /\ HasUsed(r)
  BY <1>1, <1>2, <1>5, ServeRequest
<1> HIDE DEF r
<1>7. /\ vq' \in [Queues -> QueueValues] /\ vq'[k] = r /\ vq'["rx"] = vq["rx"]
      /\ \A j \in SyncQueues : j # k => vq'[j] = vq[j]
  <2>1. vq' = [vq EXCEPT ![k] = r]
    BY <1>1 DEF r
  <2> QED
    BY <1>6, <2>1, OneQueue DEF IInv
<1>8. TypeOK' /\ ReceiveInv'
  <2>1. answered \in Seq(Nat) /\ reply \in Nat
    BY DEF IInv, TypeOK
  <2>2. answered' \in Seq(Nat)
    BY <1>1, <2>1
  <2>3. queue' \in SyncQueues /\ pc' \in {"idle", "reply", "pushed", "wait", "panic"}
    BY <1>1 DEF IInv, TypeOK
  <2> QED
    BY <1>1, <1>7, <2>2, <2>3, FramesKept
<1>9. ASSUME NEW j \in SyncQueues PROVE RequestInv(j)'
  <2>1. CASE j = k
    BY <1>1, <1>3, <1>4, <1>6, <1>7, <2>1 DEF RequestInv, n
  <2>2. CASE j # k
    BY <1>1, <1>3, <1>7, <2>2 DEF IInv, RequestInv
  <2> QED
    BY <2>1, <2>2
<1>10. EchoInv'
  <2>1. CASE k = "tx"
    <3>1. Owed /\ ~ Owed'
      BY <1>1, <1>3, <1>4, <1>6, <1>7, <2>1 DEF Owed, Active, q
    <3> QED
      BY <1>1, <2>1, <3>1 DEF IInv, EchoInv
  <2>2. CASE k # "tx"
    <3>1. vq'["tx"] = vq["tx"]
      BY <1>7, <2>2, QueueAssumption
    <3> QED
      BY <1>1, <1>3, <2>2, <3>1 DEF IInv, EchoInv, Owed
  <2> QED
    BY <2>1, <2>2
<1> QED
  BY <1>8, <1>9, <1>10 DEF IInv

(* and receives a frame. *)
LEMMA DeviceReceiveStep ==
  ASSUME IInv, DeviceReceive
  PROVE  IInv'
<1> DEFINE q == vq["rx"]
           f == Len(arrived) + 1
<1>1. PICK h \in q.owned :
        /\ rx_bufs' = [rx_bufs EXCEPT ![h] = f] /\ arrived' = Append(arrived, f)
        /\ vq' = [vq EXCEPT !["rx"] = Return(q, h)]
        /\ pc' = pc /\ queue' = queue /\ head' = head
        /\ delivered' = delivered /\ reply' = reply /\ answered' = answered
  BY DEF DeviceReceive, call
<1> DEFINE r == Return(q, h)
<1>2. /\ q \in QueueValues /\ rx_bufs \in [0 .. q.size - 1 -> Nat] /\ delivered \in Seq(Nat)
      /\ arrived \in Seq(Nat) /\ InOrder(q, rx_bufs, delivered, arrived)
  BY DEF IInv, TypeOK, ReceiveInv, Queues
<1>3. f \in Nat
  BY <1>2, LenProperties
<1> HIDE DEF q, f
<1>4. /\ r \in QueueValues /\ r.size = q.size
      /\ InOrder(r, [rx_bufs EXCEPT ![h] = f], delivered, Append(arrived, f))
  BY <1>1, <1>2, <1>3, ArriveInOrder
<1>5. h \in 0 .. q.size - 1
  BY <1>2, Fields
<1> HIDE DEF r
<1>6. /\ vq' \in [Queues -> QueueValues] /\ vq'["rx"] = r
      /\ \A j \in SyncQueues : vq'[j] = vq[j]
  <2>1. vq \in [Queues -> QueueValues]
    BY DEF IInv, TypeOK
  <2>2. "rx" \in Queues /\ SyncQueues \subseteq Queues /\ "rx" \notin SyncQueues
    BY QueueAssumption DEF Queues
  <2>3. vq' = [vq EXCEPT !["rx"] = r]
    BY <1>1 DEF r
  <2> QED
    BY <1>4, <2>1, <2>2, <2>3
<1>7. TypeOK'
  <2>1. rx_bufs' \in [0 .. vq'["rx"].size - 1 -> Nat]
    BY <1>1, <1>2, <1>3, <1>4, <1>6
  <2>2. arrived' \in Seq(Nat)
    BY <1>1, <1>2, <1>3
  <2> QED
    BY <1>1, <1>6, <2>1, <2>2 DEF IInv, TypeOK
<1>8. \A j : Active(j)' <=> Active(j)
  BY <1>1 DEF Active
<1>9. \A j \in SyncQueues : RequestInv(j)'
  BY <1>1, <1>6, <1>8 DEF IInv, RequestInv
<1>10. ReceiveInv'
  BY <1>1, <1>4, <1>6 DEF ReceiveInv
<1>11. EchoInv'
  <2>1. vq'["tx"] = vq["tx"]
    BY <1>6, QueueAssumption
  <2> QED
    BY <1>1, <1>8, <2>1 DEF IInv, EchoInv, Owed
<1> QED
  BY <1>7, <1>9, <1>10, <1>11 DEF IInv

(* Every step preserves the invariant. *)
LEMMA NextInv ==
  IInv /\ [Next]_vars => IInv'
<1> SUFFICES ASSUME IInv, [Next]_vars PROVE IInv'
  OBVIOUS
<1>1. CASE UNCHANGED vars
  <2>1. TypeOK'
    BY <1>1 DEF vars, IInv, TypeOK
  <2>2. \A k \in SyncQueues : RequestInv(k)'
    BY <1>1 DEF vars, IInv, RequestInv, Active
  <2>3. ReceiveInv' /\ EchoInv'
    BY <1>1 DEF vars, IInv, ReceiveInv, EchoInv, Owed, Active
  <2> QED
    BY <2>1, <2>2, <2>3 DEF IInv
<1>2. ASSUME NEW k \in SyncQueues, Submit(k) \/ SubmitFails(k) PROVE IInv'
  BY <1>2, SubmitStep, SubmitFailsStep
<1>3. CASE Notify \/ WaitUsed \/ Recv
  BY <1>3, NotifyStep, WaitUsedStep, RecvStep
<1>4. ASSUME NEW k \in Queues, Device(k) PROVE IInv'
  <2>1. CASE DeviceFetch(k)
    BY <2>1, DeviceFetchStep
  <2>2. ASSUME k \in SyncQueues, NEW outcome \in {"ok", "err"}, DeviceServe(k, outcome) PROVE IInv'
    BY <2>2, DeviceServeStep
  <2> QED
    BY <1>4, <2>1, <2>2 DEF Device
<1>5. CASE DeviceReceive
  BY <1>5, DeviceReceiveStep
<1> QED
  BY <1>1, <1>2, <1>3, <1>4, <1>5 DEF Next

(* The links of every request queue, what its device holds and the          *)
(* counters of the receive ring stay as the drivers mean them to be.        *)
THEOREM InductiveInvariant == Spec => []IInv
<1>1. Init => IInv
  BY InitInv
<1>2. IInv /\ [Next]_vars => IInv'
  BY NextInv
<1> QED
  BY <1>1, <1>2, PTL DEF Spec

-----------------------------------------------------------------------------
(* The descriptors of the request under way. *)
LEMMA InFlightIs ==
  ASSUME IInv, NEW k \in SyncQueues
  PROVE  /\ Active(k) => InFlight(k) = ChainSet(vq[k], head)
         /\ ~ Active(k) => InFlight(k) = {}
BY DEF InFlight, Active

(* The free list of every request queue is whole, *)
LEMMA FreeListHolds ==
  IInv => FreeListSound
<1> SUFFICES ASSUME IInv, NEW k \in SyncQueues
             PROVE  LET q    == vq[k]
                        free == {Walk(q, q.free_head, q.size)[i] : i \in 0 .. q.num_free - 1}
                    IN  /\ Cardinality(free) = q.num_free
                        /\ free \cap InFlight(k) = {}
                        /\ free \cup InFlight(k) = 0 .. q.size - 1
  BY DEF FreeListSound
<1> DEFINE q == vq[k]
           free == {Walk(q, q.free_head, q.size)[i] : i \in 0 .. q.num_free - 1}
<1>1. q \in QueueValues /\ ChainLength[k] \in Nat \ {0}
  BY QueueAssumption DEF IInv, TypeOK, Queues
<1>2. PICK n, w : n \in Nat /\ Linked(q, w, n) /\ InFlight(k) = Part(w, 0, n)
  <2>1. CASE Active(k)
    <3>1. InRequest(q, ChainLength[k], head)
      BY <2>1 DEF IInv, RequestInv
    <3>2. PICK w : Linked(q, w, ChainLength[k]) /\ head = w[0]
      BY <3>1 DEF InRequest
    <3>3. InFlight(k) = ChainSet(q, w[0])
      BY <2>1, <3>2, InFlightIs
    <3> DEFINE n == ChainLength[k]
    <3>4. n \in Nat /\ n # 0 /\ Linked(q, w, n)
      BY <1>1, <3>2
    <3> HIDE DEF n, q
    <3>5. ChainSet(q, w[0]) = Part(w, 0, n)
      BY <1>1, <3>4, LinkedParts
    <3> QED
      BY <3>3, <3>4, <3>5
  <2>2. CASE ~ Active(k)
    <3>1. NoRequest(q)
      BY <2>2 DEF IInv, RequestInv
    <3>2. PICK w : Linked(q, w, 0)
      BY <3>1 DEF NoRequest
    <3>3. InFlight(k) = {} /\ 0 .. 0 - 1 = {}
      BY <2>2, InFlightIs
    <3>4. InFlight(k) = Part(w, 0, 0)
      BY <3>3 DEF Part
    <3> QED
      BY <3>2, <3>4
  <2> QED
    BY <2>1, <2>2
<1> HIDE DEF q
<1>3. free = Part(w, n, q.size) /\ Cardinality(free) = q.num_free
  BY <1>1, <1>2, LinkedParts
<1> HIDE DEF free
<1>4. q.size \in Nat /\ n \in 0 .. q.size /\ Perm(w, q.size)
  BY <1>1, <1>2, Fields DEF Linked
<1>5. /\ Part(w, n, q.size) \cap Part(w, 0, n) = {}
      /\ Part(w, n, q.size) \cup Part(w, 0, n) = 0 .. q.size - 1
  BY <1>4, PermSplit
<1>6. /\ Cardinality(free) = q.num_free /\ free \cap InFlight(k) = {}
      /\ free \cup InFlight(k) = 0 .. q.size - 1
  BY <1>2, <1>3, <1>5
<1> QED
  BY <1>6 DEF free, q

(* a request finds room, *)
LEMMA NeverFullHolds ==
  IInv => QueueNeverFull
<1> SUFFICES ASSUME IInv, NEW k \in SyncQueues, Calls(k), ChainLength[k] <= vq[k].size
             PROVE  CanAllocChain(vq[k], ChainLength[k])
  BY DEF QueueNeverFull
<1>1. vq[k] \in QueueValues /\ ChainLength[k] \in Nat \ {0}
  BY QueueAssumption DEF IInv, TypeOK, Queues
<1>2. NoRequest(vq[k])
  BY DEF Calls, IInv, RequestInv, Active
<1> QED
  BY <1>1, <1>2, RoomForRequest

(* the one of the request under way, *)
LEMMA OwnsHolds ==
  IInv => DeviceOnlyOwnsInFlight
<1> SUFFICES ASSUME IInv, NEW k \in SyncQueues
             PROVE  LET q == vq[k]
                        ahead == {q.avail[(q.seen + i) % q.size] : i \in 0 .. ((q.avail_idx + IdxMod - q.seen) % IdxMod) - 1}
                    IN  \A h \in q.owned \cup ahead : ChainSet(q, h) \subseteq InFlight(k) /\ h = head
  BY DEF DeviceOnlyOwnsInFlight
<1> DEFINE q == vq[k]
           n == (q.avail_idx + IdxMod - q.seen) % IdxMod
           ahead == {q.avail[(q.seen + i) % q.size] : i \in 0 .. n - 1}
<1>1. q \in QueueValues
  BY DEF IInv, TypeOK, Queues
<1>2. InFlight(k) = IF Active(k) THEN ChainSet(q, head) ELSE {}
  BY InFlightIs
<1>3. IF Active(k) THEN Posted(q, head) \/ Held(q, head) \/ Returned(q) ELSE AtRest(q)
  BY DEF IInv, RequestInv, InRequest, NoRequest
<1> HIDE DEF q
<1>4. (q.avail_idx = q.seen => n = 0) /\ (Posted(q, head) => n = 1)
  BY <1>1, AheadOf
<1> HIDE DEF n
<1>5. CASE Posted(q, head) /\ Active(k)
  <2>1. q.owned = {} /\ q.avail[q.seen % q.size] = head /\ q.seen + 0 = q.seen
    BY <1>1, <1>5, Fields DEF Posted
  <2>2. 0 .. n - 1 = {0}
    BY <1>4, <1>5
  <2>3. \A h \in ahead : h = head
    BY <2>1, <2>2
  <2> HIDE DEF ahead
  <2>4. \A h \in q.owned \cup ahead : ChainSet(q, h) \subseteq InFlight(k) /\ h = head
    BY <1>2, <1>5, <2>1, <2>3
  <2> QED
    BY <2>4 DEF ahead, n, q
<1>6. CASE q.avail_idx = q.seen
  <2>1. 0 .. n - 1 = {}
    BY <1>4, <1>6
  <2>2. ahead = {}
    BY <2>1
  <2> HIDE DEF ahead
  <2>3. q.owned = {} \/ (q.owned = {head} /\ Active(k))
    BY <1>3 DEF Posted, Held, Returned, AtRest
  <2>4. \A h \in q.owned \cup ahead : ChainSet(q, h) \subseteq InFlight(k) /\ h = head
    BY <1>2, <2>2, <2>3
  <2> QED
    BY <2>4 DEF ahead, n, q
<1>7. (Posted(q, head) /\ Active(k)) \/ q.avail_idx = q.seen
  BY <1>3 DEF Held, Returned, AtRest
<1> QED
  BY <1>5, <1>6, <1>7

(* what waits in the used ring, counted with wrapped indices, is what waits, *)
LEMMA PendingIs ==
  ASSUME NEW q \in QueueValues, NEW bufs, NEW L \in Nat, NEW U \in Nat, NEW S \in Nat, NEW A \in Nat,
         Ring(q, L, U, S, A)
  PROVE  LET n == (q.used_idx + IdxMod - q.last_used_idx) % IdxMod
         IN  [i \in 1 .. n |-> bufs[q.used[(q.last_used_idx + i - 1) % q.size]]] = Waiting(q, bufs, L, U)
<1> DEFINE n == (q.used_idx + IdxMod - q.last_used_idx) % IdxMod
           M == IdxMod
           s == q.size
           l == q.last_used_idx
<1>1. M \in Nat \ {0} /\ s \in Nat \ {0} /\ M % s = 0 /\ s < M
  BY Fields, IdxModType
<1>2. q.used_idx = U % M /\ l = L % M /\ L <= U /\ U < L + M
  <2>1. L <= U /\ U <= S /\ S <= A /\ A = L + s
    BY DEF Ring
  <2>2. q.used_idx = U % M /\ l = L % M
    BY DEF Ring
  <2> QED
    BY <1>1, <2>1, <2>2
<1>3. n = U - L
  <2> HIDE DEF M
  <2>1. ((U % M) + M - (L % M)) % M = U - L
    BY <1>1, <1>2, WrappedDistance
  <2> QED
    BY <1>2, <2>1 DEF M
<1> HIDE DEF n, M, s, l
<1>4. \A z \in Nat : ((L % M) + z) % s = (L + z) % s
  <2>1. SameSlots(L, M, s)
    BY <1>1, WrappedSlots
  <2> QED
    BY <2>1 DEF SameSlots
<1>5. ASSUME NEW i \in 1 .. n PROVE (l + i - 1) % s = (L + i - 1) % s
  <2> DEFINE j == i - 1
  <2>1. j \in Nat /\ l \in Nat
    <3>1. n \in Nat
      BY <1>2, <1>3
    <3>2. L % M \in Nat
      BY <1>1, DivMod
    <3> QED
      BY <1>2, <3>1, <3>2
  <2>2. l + i - 1 = l + j /\ L + i - 1 = L + j
    BY <1>3, <2>1
  <2> HIDE DEF j
  <2>3. ((L % M) + j) % s = (L + j) % s
    BY <1>4, <2>1
  <2> QED
    BY <1>2, <2>2, <2>3
<1>6. [i \in 1 .. n |-> bufs[q.used[(l + i - 1) % s]]] = [i \in 1 .. n |-> bufs[q.used[(L + i - 1) % s]]]
  BY <1>5
<1> QED
  BY <1>3, <1>6 DEF Waiting, n, s, l, M

(* so the frames are in order, *)
LEMMA OrderHolds ==
  IInv => FramesDeliveredInOrder
<1> SUFFICES ASSUME IInv PROVE FramesDeliveredInOrder
  OBVIOUS
<1> DEFINE q == vq["rx"]
<1>1. q \in QueueValues
  BY DEF IInv, TypeOK, Queues
<1>2. PICK L, U, S, A \in Nat : Ring(q, L, U, S, A) /\ delivered \o Waiting(q, rx_bufs, L, U) = arrived
  BY DEF IInv, ReceiveInv, InOrder
<1>3. Pending = [i \in 1 .. (q.used_idx + IdxMod - q.last_used_idx) % IdxMod |->
                   rx_bufs[q.used[(q.last_used_idx + i - 1) % q.size]]]
  BY DEF Pending
<1> HIDE DEF q
<1>4. Pending = Waiting(q, rx_bufs, L, U)
  BY <1>1, <1>2, <1>3, PendingIs
<1> QED
  BY <1>2, <1>4 DEF FramesDeliveredInOrder

(* and the replies too. *)
LEMMA EchoHolds ==
  IInv => EchoAnsweredOnce
<1> SUFFICES ASSUME IInv PROVE EchoAnsweredOnce
  OBVIOUS
<1> DEFINE done == Echoes(delivered)
           n == Len(answered)
<1>1. answered \in Seq(Nat) /\ reply \in Nat
  BY DEF IInv, TypeOK
<1>2. done = IF Owed THEN Append(answered, reply) ELSE answered
  BY DEF IInv, EchoInv
<1>3. pc = "idle" => ~ Owed
  BY DEF Owed, Active
<1> HIDE DEF done
<1>4. n \in Nat /\ SubSeq(answered, 1, n) = answered
  BY <1>1, LenProperties, SubSeqFull
<1>5. CASE ~ Owed
  <2>1. done = answered /\ Len(done) - n = 0
    BY <1>2, <1>4, <1>5
  <2> QED
    BY <1>4, <2>1 DEF EchoAnsweredOnce, done
<1>6. CASE Owed
  <2> DEFINE t == Append(answered, reply)
  <2>1. t \in Seq(Nat) /\ Len(t) = n + 1 /\ \A i \in 1 .. n : t[i] = answered[i]
    BY <1>1, AppendProperties
  <2> HIDE DEF t
  <2>2. SubSeq(t, 1, n) = answered
    <3>1. \A i \in 1 .. n : t[i] \in Nat
      BY <1>1, <2>1, ElementOfSeq
    <3>2. /\ SubSeq(t, 1, n) \in Seq(Nat) /\ Len(SubSeq(t, 1, n)) = n
          /\ \A i \in 1 .. n : SubSeq(t, 1, n)[i] = t[i]
      BY <1>4, <2>1, <3>1, SubSeqProperties
    <3> QED
      BY <1>1, <2>1, <3>2, SeqEqual
  <2>3. done = t /\ Len(done) - n = 1
    BY <1>2, <1>4, <1>6, <2>1 DEF t
  <2> QED
    BY <1>3, <1>6, <2>2, <2>3 DEF EchoAnsweredOnce, done
<1> QED
  BY <1>5, <1>6

-----------------------------------------------------------------------------
(* No descriptor of a request queue is lost or linked twice, whatever the   *)
(* sizes of the queues and of the chains (queue.rs alloc_chain, free_chain).*)
THEOREM FreeListAlwaysSound == Spec => []FreeListSound
BY InductiveInvariant, FreeListHolds, PTL

(* A request that fits the queue finds room: the errors of blk and net and  *)
(* the expect("virtqueue full") of gpu.rs are unreachable then.             *)
THEOREM RequestsFindRoom == Spec => []QueueNeverFull
BY InductiveInvariant, NeverFullHolds, PTL

(* A device holds or may still fetch only the chain of the request under    *)
(* way, so the element wait_used pops is the request's own and a buffer is  *)
(* released only when the device is done with it, across wrap-around.       *)
THEOREM DeviceHoldsOnlyRequest == Spec => []DeviceOnlyOwnsInFlight
BY InductiveInvariant, OwnsHolds, PTL

(* recv returns every frame that arrived once and in order.                 *)
THEOREM FramesInOrder == Spec => []FramesDeliveredInOrder
BY InductiveInvariant, OrderHolds, PTL

(* poll_echo answers every echo request once, in order, before it returns.  *)
THEOREM EchoesAnswered == Spec => []EchoAnsweredOnce
BY InductiveInvariant, EchoHolds, PTL
=============================================================================
