------------------------------- MODULE Virtqueue -------------------------------
(***************************************************************************)
(* The split virtqueue of drivers/virtio/queue.rs as a value, with one      *)
(* operator per method.  Ring indices are u16 counters that wrap.           *)
(***************************************************************************)
EXTENDS Naturals, Sequences

CONSTANT IdxMod   \* 2^16, scaled: a multiple of every queue size

ASSUME IdxModAssumption == IdxMod \in Nat

(* Virtqueue::new: every descriptor is on the free list, in order.  The last *)
(* two fields belong to the device: how many available entries it has        *)
(* fetched, and the chains it is working on.                                 *)
New(size) ==
  [size |-> size,
   next |-> [i \in 0 .. size - 1 |-> IF i + 1 < size THEN i + 1 ELSE 0],
   more |-> [i \in 0 .. size - 1 |-> TRUE],
   avail |-> [i \in 0 .. size - 1 |-> 0], avail_idx |-> 0,
   used |-> [i \in 0 .. size - 1 |-> 0], used_idx |-> 0,
   free_head |-> 0, num_free |-> size, last_used_idx |-> 0,
   seen |-> 0, owned |-> {}]

(* The descriptors met by following next n times from head: walk[0 .. n]. *)
Walk(q, head, n) ==
  LET walk[i \in 0 .. n] == IF i = 0 THEN head ELSE q.next[walk[i - 1]] IN walk

CanAllocChain(q, n) == n # 0 /\ n <= q.num_free

(* alloc_chain: n descriptors off the free list, linked; the head is the old *)
(* free_head.                                                                *)
AllocChain(q, n) ==
  LET w == Walk(q, q.free_head, n)
  IN  [q EXCEPT !.free_head = w[n], !.num_free = @ - n,
         !.next[w[n - 1]] = 0,
         !.more = [i \in DOMAIN @ |-> IF \E k \in 0 .. n - 1 : w[k] = i THEN i # w[n - 1] ELSE @[i]]]

(* How many descriptors the chain at head has, following VRING_DESC_F_NEXT. *)
ChainLen(q, head) ==
  LET w == Walk(q, head, q.size - 1)
  IN  CHOOSE n \in 1 .. q.size :
        /\ n = q.size \/ ~ q.more[w[n - 1]]
        /\ \A k \in 0 .. n - 2 : q.more[w[k]]

ChainSet(q, head) == {Walk(q, head, q.size - 1)[k] : k \in 0 .. ChainLen(q, head) - 1}

\* Mutant: only the head of the chain goes back.
FreeChainHeadOnly(q, head) ==
  [q EXCEPT !.next[head] = q.free_head, !.more[head] = TRUE,
            !.free_head = head, !.num_free = @ + 1]

(* free_chain pushes the descriptors of the chain one by one, the tail last. *)
FreeChain(q, head) ==
  LET w == Walk(q, head, q.size - 1)
      n == ChainLen(q, head)
      Pos(i) == CHOOSE k \in 0 .. n - 1 : w[k] = i
      chain == ChainSet(q, head)
  IN  [q EXCEPT
         !.next = [i \in DOMAIN @ |->
                     IF i \notin chain THEN @[i]
                     ELSE IF i = head THEN q.free_head ELSE w[Pos(i) - 1]],
         !.more = [i \in DOMAIN @ |-> @[i] \/ i \in chain],
         !.free_head = w[n - 1], !.num_free = @ + n]

PushAvail(q, head) ==
  [q EXCEPT !.avail[q.avail_idx % q.size] = head, !.avail_idx = (@ + 1) % IdxMod]

\* Mutant: the indices are compared as if they never wrapped.
HasUsedUnwrapped(q) == q.used_idx > q.last_used_idx

HasUsed(q) == q.used_idx # q.last_used_idx

(* pop_used: the id it returns, and the queue afterwards. *)
PoppedId(q) == q.used[q.last_used_idx % q.size]
PopUsed(q)  == [q EXCEPT !.last_used_idx = (@ + 1) % IdxMod]

-----------------------------------------------------------------------------
(* The device's side (virtio 1.1, 2.6): it fetches available heads in order  *)
(* and returns chains in whatever order it finishes them.                    *)
DeviceSees(q) == q.seen # q.avail_idx

Fetch(q) ==
  [q EXCEPT !.owned = @ \cup {q.avail[q.seen % q.size]}, !.seen = (@ + 1) % IdxMod]

Return(q, head) ==
  [q EXCEPT !.owned = @ \ {head},
            !.used[q.used_idx % q.size] = head, !.used_idx = (@ + 1) % IdxMod]
=============================================================================
