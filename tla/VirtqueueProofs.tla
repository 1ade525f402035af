---------------------------- MODULE VirtqueueProofs ----------------------------
(***************************************************************************)
(* Lemmas about the operations of a virtqueue, for any size that divides    *)
(* the index width: the free list and the chains, the two rings, and what   *)
(* one request and the receive ring look like at every stage.               *)
(***************************************************************************)
EXTENDS Virtqueue, DataLemmas, FiniteSetTheorems

-----------------------------------------------------------------------------
(* Remainders.                                                              *)

(* Quotient and remainder. *)
LEMMA DivMod ==
  ASSUME NEW s \in Nat \ {0}, NEW x \in Nat
  PROVE  /\ x \div s \in Nat /\ x % s \in 0 .. s - 1
         /\ x = (x \div s) * s + (x % s)
<1>1. x \div s \in Nat
  OBVIOUS
<1>2. x % s \in 0 .. s - 1
  OBVIOUS
<1>3. x = s * (x \div s) + (x % s)
  OBVIOUS
<1>4. s * (x \div s) = (x \div s) * s
  BY <1>1
<1> QED
  BY <1>1, <1>2, <1>3, <1>4

(* They are the only ones. *)
LEMMA ModUnique ==
  ASSUME NEW s \in Nat \ {0}, NEW k \in Nat, NEW r \in 0 .. s - 1
  PROVE  (k * s + r) % s = r
<1> DEFINE x == k * s + r
           j == x \div s
           t == x % s
<1>1. x \in Nat
  OBVIOUS
<1>2. j \in Nat /\ t \in 0 .. s - 1 /\ x = j * s + t
  BY <1>1, DivMod
<1>3. k * s + r = j * s + t
  BY <1>2
<1> HIDE DEF x, j, t
<1>4. \A a, b \in Nat : a < b => b * s >= a * s + s
  <2> TAKE a, b \in Nat
  <2> HAVE a < b
  <2>1. PICK d \in Nat : b = a + 1 + d
    <3>1. b - (a + 1) \in Nat /\ b = a + 1 + (b - (a + 1))
      OBVIOUS
    <3> QED
      BY <3>1
  <2>2. b * s = a * s + s + d * s /\ d * s >= 0
    BY <2>1
  <2> QED
    BY <2>2
<1>5. k * s \in Nat /\ j * s \in Nat
  BY <1>2
<1>6. ~(k < j) /\ ~(j < k)
  BY <1>2, <1>3, <1>4, <1>5
<1>7. k = j
  BY <1>2, <1>6
<1>8. r = t
  BY <1>2, <1>3, <1>5, <1>7
<1> QED
  BY <1>8 DEF t, x

(* A multiple of the divisor does not change the remainder. *)
LEMMA ModPlusMultiple ==
  ASSUME NEW s \in Nat \ {0}, NEW k \in Nat, NEW x \in Nat
  PROVE  (x + k * s) % s = x % s
<1> DEFINE j == x \div s
           r == x % s
<1>1. j \in Nat /\ r \in 0 .. s - 1 /\ x = j * s + r
  BY DivMod
<1> HIDE DEF j, r
<1>2. x + k * s = (j + k) * s + r
  BY <1>1
<1>3. ((j + k) * s + r) % s = r
  BY <1>1, ModUnique
<1> QED
  BY <1>2, <1>3 DEF r

(* x and x % M lead to the same slots of a ring of s. *)
SameSlots(x, M, s) == \A y \in Nat : ((x % M) + y) % s = (x + y) % s

(* Wrapping an index at a multiple of s keeps the slots. *)
LEMMA WrappedSlots ==
  ASSUME NEW s \in Nat \ {0}, NEW M \in Nat \ {0}, M % s = 0, NEW x \in Nat
  PROVE  SameSlots(x, M, s)
<1> SUFFICES ASSUME NEW y \in Nat PROVE ((x % M) + y) % s = (x + y) % s
  BY DEF SameSlots
<1> DEFINE t == M \div s
           j == x \div M
           r == x % M
<1>1. t \in Nat /\ M = t * s
  BY DivMod
<1>2. j \in Nat /\ r \in 0 .. M - 1 /\ x = j * M + r
  BY DivMod
<1> HIDE DEF t, j, r
<1> DEFINE k == j * t
           z == r + y
<1>3. j * M = k * s /\ k \in Nat /\ z \in Nat
  BY <1>1, <1>2
<1>4. x + y = z + k * s
  BY <1>2, <1>3
<1> HIDE DEF k, z
<1>5. (z + k * s) % s = z % s
  BY <1>3, ModPlusMultiple
<1> QED
  BY <1>4, <1>5 DEF r, z

(* Counting on after the wrap. *)
LEMMA WrappedSucc ==
  ASSUME NEW M \in Nat \ {0}, NEW x \in Nat
  PROVE  ((x % M) + 1) % M = (x + 1) % M
<1>1. M % M = 0
  <2>1. (1 * M + 0) % M = 0
    BY ModUnique
  <2> QED
    BY <2>1
<1>2. \A y \in Nat : ((x % M) + y) % M = (x + y) % M
  <2>1. SameSlots(x, M, M)
    BY <1>1, WrappedSlots
  <2> QED
    BY <2>1 DEF SameSlots
<1> QED
  BY <1>2

(* Numbers less than s apart have different remainders, *)
LEMMA WindowDistinct ==
  ASSUME NEW s \in Nat \ {0}, NEW x \in Nat, NEW y \in Nat, x < y, y < x + s
  PROVE  x % s # y % s
<1> DEFINE j == x \div s
           r == x % s
           d == y - x
<1>1. j \in Nat /\ r \in 0 .. s - 1 /\ x = j * s + r
  BY DivMod
<1>2. d \in 1 .. s - 1 /\ y = x + d
  OBVIOUS
<1> HIDE DEF j, r, d
<1>3. CASE r + d < s
  <2> DEFINE e == r + d
  <2>1. y = j * s + e /\ e \in 0 .. s - 1
    BY <1>1, <1>2, <1>3
  <2>2. y % s = e
    <3> HIDE DEF e
    <3> QED
      BY <1>1, <2>1, ModUnique
  <2> QED
    BY <1>1, <1>2, <2>2 DEF r
<1>4. CASE ~(r + d < s)
  <2> DEFINE k == j + 1
             e == r + d - s
  <2>1. y = k * s + e /\ e \in 0 .. s - 1 /\ k \in Nat
    BY <1>1, <1>2, <1>4
  <2>2. y % s = e
    <3> HIDE DEF k, e
    <3> QED
      BY <2>1, ModUnique
  <2> QED
    BY <1>1, <1>2, <2>2 DEF r
<1> QED
  BY <1>3, <1>4

(* and the distance of two wrapped counters less than M apart is known.     *)
LEMMA WrappedDistance ==
  ASSUME NEW M \in Nat \ {0}, NEW x \in Nat, NEW y \in Nat, x <= y, y < x + M
  PROVE  ((y % M) + M - (x % M)) % M = y - x
<1> DEFINE j == x \div M
           r == x % M
           d == y - x
<1>1. j \in Nat /\ r \in 0 .. M - 1 /\ x = j * M + r
  BY DivMod
<1>2. d \in 0 .. M - 1 /\ y = x + d
  OBVIOUS
<1> HIDE DEF j, r, d
<1>3. CASE r + d < M
  <2> DEFINE e == r + d
  <2>1. y = j * M + e /\ e \in 0 .. M - 1
    BY <1>1, <1>2, <1>3
  <2>2. y % M = e
    <3> HIDE DEF e
    <3> QED
      BY <1>1, <2>1, ModUnique
  <2>3. (y % M) + M - r = 1 * M + d
    BY <1>1, <1>2, <2>2
  <2>4. (1 * M + d) % M = d
    BY <1>2, ModUnique
  <2> QED
    BY <2>3, <2>4 DEF r, d
<1>4. CASE ~(r + d < M)
  <2> DEFINE k == j + 1
             e == r + d - M
  <2>1. y = k * M + e /\ e \in 0 .. M - 1 /\ k \in Nat
    BY <1>1, <1>2, <1>4
  <2>2. y % M = e
    <3> HIDE DEF k, e
    <3> QED
      BY <2>1, ModUnique
  <2>3. (y % M) + M - r = 0 * M + d
    BY <1>1, <1>2, <2>2
  <2>4. (0 * M + d) % M = d
    BY <1>2, ModUnique
  <2> QED
    BY <2>3, <2>4 DEF r, d
<1> QED
  BY <1>3, <1>4

-----------------------------------------------------------------------------
(* A virtqueue of n descriptors. *)
VQ(n) ==
  [size : {n},
   next : [0 .. n - 1 -> 0 .. n - 1], more : [0 .. n - 1 -> BOOLEAN],
   avail : [0 .. n - 1 -> 0 .. n - 1], avail_idx : 0 .. IdxMod - 1,
   used : [0 .. n - 1 -> 0 .. n - 1], used_idx : 0 .. IdxMod - 1,
   free_head : 0 .. n - 1, num_free : 0 .. n, last_used_idx : 0 .. IdxMod - 1,
   seen : 0 .. IdxMod - 1, owned : SUBSET (0 .. n - 1)]

Sizes == {n \in Nat \ {0} : IdxMod % n = 0 /\ n < IdxMod}

QueueValues == UNION {VQ(n) : n \in Sizes}

(* w lists the descriptors of a queue of n, each once. *)
Perm(w, n) ==
  /\ w \in [0 .. n - 1 -> 0 .. n - 1]
  /\ \A i, j \in 0 .. n - 1 : w[i] = w[j] => i = j
  /\ \A x \in 0 .. n - 1 : \E i \in 0 .. n - 1 : w[i] = x

(* The first n descriptors of w are a chain, the others the free list. *)
Linked(q, w, n) ==
  /\ Perm(w, q.size)
  /\ n \in 0 .. q.size /\ q.num_free = q.size - n
  /\ n < q.size => q.free_head = w[n]
  /\ \A i \in 0 .. q.size - 2 : i # n - 1 => q.next[w[i]] = w[i + 1]
  /\ \A i \in 0 .. q.size - 1 : q.more[w[i]] <=> i # n - 1

-----------------------------------------------------------------------------
(* The rings of a request queue without a request, *)
AtRest(q) ==
  q.seen = q.avail_idx /\ q.used_idx = q.seen /\ q.last_used_idx = q.used_idx /\ q.owned = {}

(* with one the device has not fetched, *)
Posted(q, h) ==
  /\ q.avail_idx = (q.seen + 1) % IdxMod /\ q.avail[q.seen % q.size] = h
  /\ q.used_idx = q.seen /\ q.last_used_idx = q.used_idx /\ q.owned = {}

(* with one it works on, *)
Held(q, h) ==
  /\ q.avail_idx = q.seen /\ q.seen = (q.used_idx + 1) % IdxMod
  /\ q.last_used_idx = q.used_idx /\ q.owned = {h}

(* and with one it has returned. *)
Returned(q) ==
  /\ q.avail_idx = q.seen /\ q.used_idx = q.seen
  /\ q.used_idx = (q.last_used_idx + 1) % IdxMod /\ q.owned = {}

InRequest(q, n, h) ==
  /\ \E w : Linked(q, w, n) /\ h = w[0]
  /\ Posted(q, h) \/ Held(q, h) \/ Returned(q)

NoRequest(q) == (\E w : Linked(q, w, 0)) /\ AtRest(q)

(* The receive ring in terms of counters that never wrap: L elements of the *)
(* used ring are consumed of U returned, S available ones fetched of A.     *)
Ring(q, L, U, S, A) ==
  /\ L <= U /\ U <= S /\ S <= A /\ A = L + q.size
  /\ q.last_used_idx = L % IdxMod /\ q.used_idx = U % IdxMod
  /\ q.seen = S % IdxMod /\ q.avail_idx = A % IdxMod
  /\ Cardinality(q.owned) = S - U
  /\ \A i, j \in L .. U - 1 : q.used[i % q.size] = q.used[j % q.size] => i = j
  /\ \A i, j \in S .. A - 1 : q.avail[i % q.size] = q.avail[j % q.size] => i = j
  /\ \A i \in L .. U - 1, j \in S .. A - 1 : q.used[i % q.size] # q.avail[j % q.size]
  /\ \A i \in L .. U - 1 : q.used[i % q.size] \notin q.owned
  /\ \A j \in S .. A - 1 : q.avail[j % q.size] \notin q.owned

Waiting(q, bufs, L, U) == [i \in 1 .. U - L |-> bufs[q.used[(L + i - 1) % q.size]]]

InOrder(q, bufs, done, all) ==
  \E L, U, S, A \in Nat : Ring(q, L, U, S, A) /\ done \o Waiting(q, bufs, L, U) = all

-----------------------------------------------------------------------------
(* The fields of a virtqueue. *)
LEMMA Fields ==
  ASSUME NEW q \in QueueValues
  PROVE  /\ q.size \in Sizes /\ q \in VQ(q.size)
         /\ q.size \in Nat /\ q.size > 0 /\ IdxMod % q.size = 0 /\ q.size < IdxMod
         /\ q.next \in [0 .. q.size - 1 -> 0 .. q.size - 1]
         /\ q.more \in [0 .. q.size - 1 -> BOOLEAN]
         /\ q.avail \in [0 .. q.size - 1 -> 0 .. q.size - 1]
         /\ q.used \in [0 .. q.size - 1 -> 0 .. q.size - 1]
         /\ q.free_head \in 0 .. q.size - 1 /\ q.num_free \in 0 .. q.size
         /\ q.avail_idx \in 0 .. IdxMod - 1 /\ q.used_idx \in 0 .. IdxMod - 1
         /\ q.last_used_idx \in 0 .. IdxMod - 1 /\ q.seen \in 0 .. IdxMod - 1
         /\ q.owned \subseteq 0 .. q.size - 1
<1>1. PICK n \in Sizes : q \in VQ(n)
  BY DEF QueueValues
<1>2. n = q.size
  BY <1>1 DEF VQ
<1>3. q.size \in Sizes /\ q \in VQ(q.size)
  BY <1>1, <1>2
<1>4. q.size \in Nat /\ q.size > 0 /\ IdxMod % q.size = 0 /\ q.size < IdxMod
  BY <1>3 DEF Sizes
<1> QED
  BY <1>3, <1>4 DEF VQ

(* v follows next from h, n times. *)
IsWalk(v, q, h, n) ==
  /\ v[0] = h /\ \A i \in 1 .. n : v[i] = q.next[v[i - 1]]
  /\ \A i \in 0 .. n : v[i] \in DOMAIN q.next

(* Walk does so. *)
LEMMA WalkSteps ==
  ASSUME NEW q, NEW D, q.next \in [D -> D], NEW h \in D, NEW n \in Nat
  PROVE  IsWalk(Walk(q, h, n), q, h, n)
<1> DEFINE step == [i \in 1 .. n |-> q.next]
<1>1. step \in [1 .. n -> [D -> D]]
  OBVIOUS
<1> HIDE DEF step
<1>2. PICK f \in [0 .. n -> D] : Iterates(f, n, h, step)
  BY <1>1, IterationExists
<1>3. f = [i \in 0 .. n |-> IF i = 0 THEN h ELSE q.next[f[i - 1]]]
  BY <1>2 DEF Iterates, step
<1>4. Walk(q, h, n) = [i \in 0 .. n |-> IF i = 0 THEN h ELSE q.next[Walk(q, h, n)[i - 1]]]
  BY <1>3 DEF Walk
<1> DEFINE v == Walk(q, h, n)
<1>5. v = [i \in 0 .. n |-> IF i = 0 THEN h ELSE q.next[v[i - 1]]]
  BY <1>4
<1> HIDE DEF v
<1>6. v[0] = h /\ \A i \in 1 .. n : v[i] = q.next[v[i - 1]]
  BY <1>5
<1>7. SameSteps(v, f, n)
  <2>2. 0 \in 0 .. n /\ \A i \in 1 .. n : i \in 0 .. n /\ i # 0
    OBVIOUS
  <2>1. f[0] = h /\ \A i \in 1 .. n : f[i] = q.next[f[i - 1]]
    BY <1>3, <2>2
  <2> QED
    BY <1>6, <2>1 DEF SameSteps
<1>8. Agree(v, f, n)
  BY <1>7, IterationUnique
<1> QED
  BY <1>6, <1>8 DEF v, IsWalk, Agree

LinkedFrom(q, w, a, m) == \A i \in a .. a + m - 1 : q.next[w[i]] = w[i + 1]
Follows(v, w, a, m) == \A i \in 0 .. m : v[i] = w[a + i]

(* A walk from w[a] meets w[a + 1], w[a + 2], ... as long as these are      *)
(* linked.                                                                  *)
LEMMA WalkFollows ==
  ASSUME NEW q, NEW D, q.next \in [D -> D], NEW n \in Nat, NEW w, NEW a \in Nat, NEW m \in 0 .. n,
         w[a] \in D, LinkedFrom(q, w, a, m)
  PROVE  Follows(Walk(q, w[a], n), w, a, m)
<1> DEFINE v == Walk(q, w[a], n)
           g == [i \in 0 .. m |-> w[a + i]]
<1>1. v[0] = w[a] /\ \A i \in 1 .. n : v[i] = q.next[v[i - 1]]
  <2>1. IsWalk(v, q, w[a], n)
    BY WalkSteps
  <2> QED
    BY <2>1 DEF IsWalk
<1>2. g[0] = w[a] /\ \A i \in 1 .. m : g[i] = q.next[g[i - 1]]
  <2>1. g[0] = w[a]
    OBVIOUS
  <2>2. ASSUME NEW i \in 1 .. m PROVE g[i] = q.next[g[i - 1]]
    <3>1. a + (i - 1) \in a .. a + m - 1 /\ (a + (i - 1)) + 1 = a + i /\ i - 1 \in 0 .. m
      OBVIOUS
    <3>2. q.next[w[a + (i - 1)]] = w[a + i]
      BY <3>1 DEF LinkedFrom
    <3> QED
      BY <3>1, <3>2
  <2> QED
    BY <2>1, <2>2
<1> HIDE DEF v, g
<1>3. SameSteps(v, g, m)
  BY <1>1, <1>2 DEF SameSteps
<1>4. Agree(v, g, m)
  BY <1>3, IterationUnique
<1> QED
  BY <1>4 DEF v, g, Agree, Follows

-----------------------------------------------------------------------------
(* What the links of a queue say of its chain, *)
LEMMA ChainOf ==
  ASSUME NEW q \in QueueValues, NEW w, NEW n \in Nat \ {0}, Linked(q, w, n)
  PROVE  /\ ChainLen(q, w[0]) = n
         /\ \A i \in 0 .. n - 1 : Walk(q, w[0], q.size - 1)[i] = w[i]
         /\ ChainSet(q, w[0]) = {w[i] : i \in 0 .. n - 1}
<1> DEFINE s == q.size
           D == 0 .. s - 1
           v == Walk(q, w[0], s - 1)
           P(m) == (m = s \/ ~ q.more[v[m - 1]]) /\ \A k \in 0 .. m - 2 : q.more[v[k]]
<1>1. s \in Nat /\ s > 0 /\ q.next \in [D -> D] /\ q.more \in [D -> BOOLEAN]
  BY Fields
<1>2. /\ w \in [D -> D] /\ n \in 0 .. s
      /\ \A i \in 0 .. s - 2 : i # n - 1 => q.next[w[i]] = w[i + 1]
      /\ \A i \in D : q.more[w[i]] <=> i # n - 1
  BY Zenon DEF Linked, Perm
<1>3. ChainLen(q, w[0]) = CHOOSE m \in 1 .. s : P(m)
  BY DEF ChainLen
<1>4. ChainSet(q, w[0]) = {v[k] : k \in 0 .. ChainLen(q, w[0]) - 1}
  BY DEF ChainSet
<1> HIDE DEF s, v
<1>a. s \in Nat /\ n <= s
  BY <1>1, <1>2
<1>5. \A i \in 0 .. n - 1 : v[i] = w[i]
  <2> DEFINE m == n - 1
             l == s - 1
  <2>a. 0 \in D /\ l \in Nat /\ m \in 0 .. l
    BY <1>1, <1>a
  <2>1. w[0] \in D /\ l \in Nat /\ m \in 0 .. l
    BY <1>2, <2>a
  <2>2. LinkedFrom(q, w, 0, m)
    <3> SUFFICES ASSUME NEW i \in 0 .. 0 + m - 1 PROVE q.next[w[i]] = w[i + 1]
      BY DEF LinkedFrom
    <3>1. i \in 0 .. s - 2 /\ i # n - 1
      BY <1>1, <1>2
    <3> QED
      BY <1>2, <3>1
  <2> HIDE DEF m, l
  <2>3. Follows(Walk(q, w[0], l), w, 0, m)
    BY <1>1, <2>1, <2>2, WalkFollows
  <2> QED
    BY <2>1, <2>3 DEF v, l, m, Follows
<1>6. n \in 1 .. s /\ P(n)
  <2>1. n \in 1 .. s /\ n - 1 \in D /\ \A k \in 0 .. n - 2 : k \in D /\ k # n - 1 /\ k \in 0 .. n - 1
    BY <1>a
  <2>2. ~ q.more[v[n - 1]]
    BY <1>2, <1>5, <2>1
  <2>3. \A k \in 0 .. n - 2 : q.more[v[k]]
    BY <1>2, <1>5, <2>1
  <2> QED
    BY <2>1, <2>2, <2>3
<1>7. ASSUME NEW m \in 1 .. s, P(m) PROVE m = n
  <2>1. CASE m < n
    <3>1. m - 1 \in D /\ m - 1 # n - 1 /\ m - 1 \in 0 .. n - 1 /\ m # s
      <4> HIDE DEF P
      <4> QED
        BY <1>a, <2>1
    <3>2. q.more[v[m - 1]]
      BY <1>2, <1>5, <3>1
    <3> QED
      BY <1>7, <3>1, <3>2
  <2>2. CASE m > n
    <3>1. n - 1 \in 0 .. m - 2 /\ n - 1 \in D /\ n - 1 \in 0 .. n - 1
      <4> HIDE DEF P
      <4> QED
        BY <1>a, <2>2
    <3>2. ~ q.more[v[n - 1]]
      BY <1>2, <1>5, <3>1
    <3> QED
      BY <1>7, <3>1, <3>2
  <2> QED
    BY <1>a, <2>1, <2>2
<1>8. ChainLen(q, w[0]) = n
  <2> HIDE DEF P
  <2> QED
    BY <1>3, <1>6, <1>7
<1>9. {v[k] : k \in 0 .. n - 1} = {w[i] : i \in 0 .. n - 1}
  BY <1>5
<1>10. v = Walk(q, w[0], q.size - 1)
  BY DEF v, s
<1> QED
  BY <1>4, <1>5, <1>8, <1>9, <1>10

(* and of its free list. *)
LEMMA FreeListOf ==
  ASSUME NEW q \in QueueValues, NEW w, NEW n \in Nat, Linked(q, w, n)
  PROVE  LET free == {Walk(q, q.free_head, q.size)[i] : i \in 0 .. q.num_free - 1}
         IN  /\ free = {w[i] : i \in n .. q.size - 1}
             /\ Cardinality(free) = q.num_free
<1> DEFINE s == q.size
           D == 0 .. s - 1
           v == Walk(q, q.free_head, s)
           F == {w[i] : i \in n .. s - 1}
<1>1. s \in Nat /\ s > 0 /\ q.next \in [D -> D]
  BY Fields
<1>2. /\ w \in [D -> D] /\ n \in 0 .. s /\ q.num_free = s - n
      /\ n < s => q.free_head = w[n]
      /\ \A i \in 0 .. s - 2 : i # n - 1 => q.next[w[i]] = w[i + 1]
      /\ \A i, j \in D : w[i] = w[j] => i = j
  BY Zenon DEF Linked, Perm
<1> HIDE DEF s
<1>3. {v[i] : i \in 0 .. q.num_free - 1} = F
  <2>1. CASE n = s
    BY <1>1, <1>2, <2>1
  <2>2. CASE n < s
    <3> DEFINE m == s - 1 - n
    <3>1. w[n] \in D /\ m \in 0 .. s /\ q.free_head = w[n]
      BY <1>1, <1>2, <2>2
    <3>2. LinkedFrom(q, w, n, m)
      <4> SUFFICES ASSUME NEW i \in n .. n + m - 1 PROVE q.next[w[i]] = w[i + 1]
        BY DEF LinkedFrom
      <4>1. i \in 0 .. s - 2 /\ i # n - 1
        BY <1>1, <1>2
      <4> QED
        BY <1>2, <4>1
    <3>3. q.num_free - 1 = m
      BY <1>1, <1>2
    <3>a. n \in Nat /\ s \in Nat
      BY <1>1, <1>2
    <3>4. \A i \in n .. s - 1 : i - n \in 0 .. m /\ n + (i - n) = i
      BY <3>a
    <3>5. \A i \in 0 .. m : n + i \in n .. s - 1
      BY <1>1
    <3> HIDE DEF m
    <3>6. Follows(Walk(q, w[n], s), w, n, m)
      BY <1>1, <3>1, <3>2, WalkFollows
    <3>7. \A i \in 0 .. m : v[i] = w[n + i]
      BY <3>1, <3>6 DEF Follows
    <3> HIDE DEF v
    <3> QED
      BY <3>3, <3>4, <3>5, <3>7
  <2>3. n = s \/ n < s
    BY <1>1, <1>2
  <2> QED
    BY <2>1, <2>2, <2>3
<1>4. Cardinality(F) = s - n
  <2> DEFINE I == n .. s - 1
             f == [i \in I |-> w[i]]
  <2>1. IsFiniteSet(I) /\ Cardinality(I) = s - n
    <3>1. n <= s
      BY <1>1, <1>2
    <3>2. IsFiniteSet(I) /\ Cardinality(I) = IF n > s - 1 THEN 0 ELSE (s - 1) - n + 1
      BY <1>1, FS_Interval
    <3> QED
      BY <1>1, <3>1, <3>2
  <2>2. I \subseteq D
    BY <1>1
  <2>3. f \in [I -> F] /\ \A i, j \in I : f[i] = f[j] => i = j
    BY <1>2, <2>2
  <2>4. \A x \in F : \E i \in I : f[i] = x
    OBVIOUS
  <2> HIDE DEF I, F, f
  <2>5. f \in Injection(I, F)
    BY <2>3 DEF Injection, IsInjective
  <2>6. f \in Surjection(I, F)
    BY <2>3, <2>4 DEF Surjection
  <2> QED
    BY <2>1, <2>5, <2>6, FS_Bijection DEF ExistsBijection, Bijection
<1> QED
  BY <1>2, <1>3, <1>4 DEF s

-----------------------------------------------------------------------------
(* The rings of two queues are alike. *)
SameRings(r, q) ==
  /\ r.avail = q.avail /\ r.avail_idx = q.avail_idx /\ r.used = q.used /\ r.used_idx = q.used_idx
  /\ r.last_used_idx = q.last_used_idx /\ r.seen = q.seen /\ r.owned = q.owned

(* r is q with other descriptors. *)
Relinks(r, q, nx, mo, fh, nf) ==
  r = [q EXCEPT !.free_head = fh, !.num_free = nf, !.next = nx, !.more = mo]

(* A queue with other descriptors and the same rings is a queue. *)
LEMMA Relinked ==
  ASSUME NEW q \in QueueValues, NEW r,
         NEW nx \in [0 .. q.size - 1 -> 0 .. q.size - 1], NEW mo \in [0 .. q.size - 1 -> BOOLEAN],
         NEW fh \in 0 .. q.size - 1, NEW nf \in 0 .. q.size,
         Relinks(r, q, nx, mo, fh, nf)
  PROVE  /\ r \in VQ(q.size) /\ r \in QueueValues /\ r.size = q.size /\ SameRings(r, q)
         /\ r.next = nx /\ r.more = mo /\ r.free_head = fh /\ r.num_free = nf
<1>1. q \in VQ(q.size) /\ q.size \in Sizes
  BY Fields
<1> DEFINE s == q.size
<1>2. s = q.size
  OBVIOUS
<1> HIDE DEF s
<1>3. r \in VQ(s) /\ r.size = s /\ SameRings(r, q)
      /\ r.next = nx /\ r.more = mo /\ r.free_head = fh /\ r.num_free = nf
  BY <1>1, <1>2 DEF VQ, SameRings, Relinks
<1> QED
  BY <1>1, <1>2, <1>3 DEF QueueValues

(* alloc_chain takes the first n descriptors of the free list. *)
LEMMA AllocLinks ==
  ASSUME NEW q \in QueueValues, NEW w, Linked(q, w, 0), NEW n \in Nat \ {0}, CanAllocChain(q, n)
  PROVE  /\ AllocChain(q, n) \in QueueValues /\ AllocChain(q, n).size = q.size
         /\ SameRings(AllocChain(q, n), q)
         /\ Linked(AllocChain(q, n), w, n) /\ q.free_head = w[0]
<1> DEFINE s == q.size
           D == 0 .. s - 1
           v == Walk(q, q.free_head, n)
           nx == [q.next EXCEPT ![v[n - 1]] = 0]
           mo == [i \in D |-> IF \E k \in 0 .. n - 1 : v[k] = i THEN i # v[n - 1] ELSE q.more[i]]
           r == AllocChain(q, n)
<1>1. s \in Nat /\ s > 0 /\ q.next \in [D -> D] /\ q.more \in [D -> BOOLEAN]
  BY Fields
<1>2. /\ w \in [D -> D] /\ q.num_free = s - 0
      /\ 0 < s => q.free_head = w[0]
      /\ \A i \in 0 .. s - 2 : i # 0 - 1 => q.next[w[i]] = w[i + 1]
      /\ \A i \in D : q.more[w[i]] <=> i # 0 - 1
      /\ \A i, j \in D : w[i] = w[j] => i = j
      /\ Perm(w, s)
  BY Zenon DEF Linked, Perm
<1>3. n <= s /\ q.num_free = s
  BY <1>1, <1>2 DEF CanAllocChain
<1>4. q.free_head = w[0] /\ w[0] \in D
  BY <1>1, <1>2
<1>5. /\ \A i \in 0 .. s - 2 : q.next[w[i]] = w[i + 1]
      /\ \A i \in D : q.more[w[i]]
  BY <1>1, <1>2
<1>6. r = [q EXCEPT !.free_head = v[n], !.num_free = q.num_free - n, !.next = nx, !.more = mo]
  <2>1. DOMAIN q.more = D
    BY <1>1
  <2>2. q = [x \in DOMAIN q |-> q[x]]
    BY Fields DEF VQ
  <2> QED
    BY <2>1, <2>2 DEF AllocChain
<1> HIDE DEF r
<1>7. \A k \in 0 .. n - 1 : v[k] = w[k]
  <2> DEFINE m == n - 1
  <2>1. m \in 0 .. n
    OBVIOUS
  <2>2. LinkedFrom(q, w, 0, m)
    <3> SUFFICES ASSUME NEW i \in 0 .. 0 + m - 1 PROVE q.next[w[i]] = w[i + 1]
      BY DEF LinkedFrom
    <3>1. i \in 0 .. s - 2
      BY <1>1, <1>3
    <3> QED
      BY <1>5, <3>1
  <2> HIDE DEF m
  <2>3. Follows(Walk(q, w[0], n), w, 0, m)
    BY <1>1, <1>4, <2>1, <2>2, WalkFollows
  <2> QED
    BY <1>4, <2>1, <2>3 DEF m, Follows
<1>8. v[n] \in D /\ v[n] = q.next[v[n - 1]]
  <2>1. IsWalk(v, q, q.free_head, n)
    BY <1>1, <1>4, WalkSteps
  <2> QED
    BY <1>1, <2>1 DEF IsWalk
<1>9. n < s => v[n] = w[n]
  <2> SUFFICES ASSUME n < s PROVE v[n] = w[n]
    OBVIOUS
  <2>1. n - 1 \in 0 .. s - 2 /\ n - 1 \in 0 .. n - 1 /\ (n - 1) + 1 = n
    BY <1>1
  <2> QED
    BY <1>5, <1>7, <1>8, <2>1
<1> HIDE DEF v
<1>10. n - 1 \in D /\ v[n - 1] = w[n - 1] /\ s - n \in 0 .. s
  BY <1>1, <1>3, <1>7
<1>11. nx \in [D -> D] /\ \A x \in D : x # w[n - 1] => nx[x] = q.next[x]
  <2> DEFINE z == v[n - 1]
  <2>1. 0 \in D
    BY <1>1
  <2>2. nx = [q.next EXCEPT ![z] = 0] /\ z = w[n - 1]
    BY <1>10
  <2> HIDE DEF z, nx, D
  <2> QED
    BY <1>1, <2>1, <2>2
<1>12. mo \in [D -> BOOLEAN]
  BY <1>1
<1>13. \A i \in D : mo[w[i]] <=> i # n - 1
  <2> TAKE i \in D
  <2>1. mo[w[i]] = IF \E k \in 0 .. n - 1 : v[k] = w[i] THEN w[i] # w[n - 1] ELSE q.more[w[i]]
    BY <1>2, <1>10
  <2>2. CASE i \in 0 .. n - 1
    <3>1. mo[w[i]] = (w[i] # w[n - 1])
      BY <1>7, <2>1, <2>2
    <3> QED
      BY <1>2, <1>10, <3>1
  <2>3. CASE i \notin 0 .. n - 1
    <3>1. i # n - 1 /\ \A k \in 0 .. n - 1 : k \in D /\ k # i
      BY <1>1, <1>3, <2>3
    <3>2. \A k \in 0 .. n - 1 : v[k] # w[i]
      BY <1>2, <1>7, <3>1
    <3>3. mo[w[i]] = q.more[w[i]]
      BY <2>1, <3>2
    <3> QED
      BY <1>5, <3>1, <3>3
  <2> QED
    BY <2>2, <2>3
<1> HIDE DEF nx, mo
<1>14. /\ r \in QueueValues /\ r.size = s /\ SameRings(r, q)
       /\ r.next = nx /\ r.more = mo /\ r.free_head = v[n] /\ r.num_free = s - n
  <2> DEFINE fh == v[n]
             nf == q.num_free - n
  <2>1. nf = s - n /\ nf \in 0 .. s /\ fh \in D
    BY <1>3, <1>8, <1>10
  <2>2. Relinks(r, q, nx, mo, fh, nf)
    BY <1>6 DEF Relinks
  <2> HIDE DEF fh, nf
  <2>3. nx \in [0 .. q.size - 1 -> 0 .. q.size - 1]
    BY <1>11
  <2>4. mo \in [0 .. q.size - 1 -> BOOLEAN]
    BY <1>12
  <2>5. fh \in 0 .. q.size - 1 /\ nf \in 0 .. q.size
    BY <2>1
  <2> HIDE DEF s, D
  <2>6. /\ r \in QueueValues /\ r.size = q.size /\ SameRings(r, q)
        /\ r.next = nx /\ r.more = mo /\ r.free_head = fh /\ r.num_free = nf
    BY <2>2, <2>3, <2>4, <2>5, Relinked
  <2> QED
    BY <2>1, <2>6 DEF fh, s
<1>15. \A i \in 0 .. s - 2 : i # n - 1 => nx[w[i]] = w[i + 1]
  <2> SUFFICES ASSUME NEW i \in 0 .. s - 2, i # n - 1 PROVE nx[w[i]] = w[i + 1]
    OBVIOUS
  <2>1. i \in D
    BY <1>1
  <2>2. w[i] # w[n - 1] /\ w[i] \in D
    BY <1>2, <1>10, <2>1
  <2> QED
    BY <1>5, <1>11, <2>2
<1>16. n \in 0 .. s
  BY <1>1, <1>3
<1>17. Linked(r, w, n)
  <2> HIDE DEF s
  <2> QED
    BY <1>2, <1>9, <1>13, <1>14, <1>15, <1>16, Zenon DEF Linked
<1> QED
  BY <1>4, <1>14, <1>17 DEF r

(* free_chain pushes the chain back, its tail first on the free list. *)
LEMMA FreeLinks ==
  ASSUME NEW q \in QueueValues, NEW w, NEW n \in Nat \ {0}, Linked(q, w, n)
  PROVE  /\ FreeChain(q, w[0]) \in QueueValues /\ FreeChain(q, w[0]).size = q.size
         /\ SameRings(FreeChain(q, w[0]), q)
         /\ \E u : Linked(FreeChain(q, w[0]), u, 0)
<1> DEFINE s == q.size
           D == 0 .. s - 1
           v == Walk(q, w[0], s - 1)
           C == ChainSet(q, w[0])
           N == ChainLen(q, w[0])
           Pos(i) == CHOOSE k \in 0 .. N - 1 : v[k] = i
           nx == [i \in DOMAIN q.next |-> IF i \notin C THEN q.next[i]
                    ELSE IF i = w[0] THEN q.free_head ELSE v[Pos(i) - 1]]
           mo == [i \in DOMAIN q.more |-> q.more[i] \/ i \in C]
           r == FreeChain(q, w[0])
           u == [i \in D |-> IF i < n THEN w[n - 1 - i] ELSE w[i]]
<1>1. /\ s \in Nat /\ s > 0 /\ q.next \in [D -> D] /\ q.more \in [D -> BOOLEAN]
      /\ q.free_head \in D
  BY Fields
<1>2. /\ w \in [D -> D] /\ q.num_free = s - n /\ n \in 0 .. s
      /\ n < s => q.free_head = w[n]
      /\ \A i \in 0 .. s - 2 : i # n - 1 => q.next[w[i]] = w[i + 1]
      /\ \A i \in D : q.more[w[i]] <=> i # n - 1
      /\ \A i, j \in D : w[i] = w[j] => i = j
      /\ \A x \in D : \E i \in D : w[i] = x
  BY Zenon DEF Linked, Perm
<1>3. /\ N = n /\ C = {w[i] : i \in 0 .. n - 1}
      /\ \A i \in 0 .. n - 1 : v[i] = w[i]
  BY ChainOf
<1> DEFINE fh == v[N - 1]
           nf == q.num_free + N
<1>4. Relinks(r, q, nx, mo, fh, nf)
  <2>1. r = [q EXCEPT !.next = nx, !.more = mo, !.free_head = fh, !.num_free = nf]
    BY DEF FreeChain
  <2> HIDE DEF r, fh, nf, nx, mo
  <2>2. q = [x \in DOMAIN q |-> q[x]]
    BY Fields DEF VQ
  <2> QED
    BY <2>1, <2>2 DEF Relinks
<1> HIDE DEF r
<1>5. n - 1 \in D /\ fh = w[n - 1] /\ fh \in D /\ nf = s /\ nf \in 0 .. s /\ DOMAIN q.next = D /\ DOMAIN q.more = D
  <2>1. n - 1 \in D /\ n - 1 \in 0 .. n - 1 /\ s \in 0 .. s
    BY <1>1, <1>2
  <2>2. fh = w[n - 1] /\ fh \in D
    BY <1>2, <1>3, <2>1
  <2>3. nf = s
    BY <1>1, <1>2, <1>3
  <2> HIDE DEF fh, nf
  <2> QED
    BY <1>1, <2>1, <2>2, <2>3
<1> HIDE DEF fh, nf
<1>6. \A j \in 0 .. n - 1 : j \in D /\ w[j] \in C /\ Pos(w[j]) = j
  <2> TAKE j \in 0 .. n - 1
  <2>1. j \in D /\ \A k \in 0 .. n - 1 : k \in D
    BY <1>1, <1>2
  <2>2. v[j] = w[j] /\ \A k \in 0 .. n - 1 : v[k] = w[j] => k = j
    BY <1>2, <1>3, <2>1
  <2>3. Pos(w[j]) = CHOOSE k \in 0 .. n - 1 : v[k] = w[j]
    BY <1>3
  <2> QED
    BY <1>3, <2>1, <2>2, <2>3
<1>7. \A j \in D : j \notin 0 .. n - 1 => w[j] \notin C
  <2> SUFFICES ASSUME NEW j \in D, NEW k \in 0 .. n - 1, w[j] = w[k] PROVE j \in 0 .. n - 1
    BY <1>3
  <2> QED
    BY <1>2, <1>6
<1>8. \A j \in 1 .. n - 1 : nx[w[j]] = w[j - 1]
  <2> TAKE j \in 1 .. n - 1
  <2>1. j \in 0 .. n - 1 /\ j - 1 \in 0 .. n - 1 /\ 0 \in D /\ j # 0
    BY <1>1
  <2>2. w[j] \in D /\ w[j] \in C /\ w[j] # w[0] /\ Pos(w[j]) = j
    BY <1>2, <1>6, <2>1
  <2>3. nx[w[j]] = v[Pos(w[j]) - 1]
    BY <1>5, <2>2
  <2> QED
    BY <1>3, <2>1, <2>2, <2>3
<1>9. nx[w[0]] = q.free_head
  <2>1. 0 \in 0 .. n - 1
    OBVIOUS
  <2> QED
    BY <1>2, <1>5, <1>6, <2>1
<1>10. \A j \in D : j \notin 0 .. n - 1 => nx[w[j]] = q.next[w[j]]
  BY <1>2, <1>5, <1>7
<1>11. mo = [i \in D |-> TRUE]
  <2> SUFFICES ASSUME NEW i \in D PROVE (q.more[i] \/ i \in C) = TRUE
    BY <1>5
  <2>1. PICK j \in D : w[j] = i
    BY <1>2
  <2>2. CASE j \in 0 .. n - 1
    BY <1>6, <2>1, <2>2
  <2>3. CASE j \notin 0 .. n - 1
    <3>1. j # n - 1
      BY <2>3
    <3>2. q.more[i]
      BY <1>2, <2>1, <3>1
    <3> QED
      BY <3>2
  <2> QED
    BY <2>2, <2>3
<1>12. nx \in [D -> D]
  <2>1. DOMAIN nx = D /\ nx = [i \in D |-> nx[i]]
    BY <1>5
  <2>2. ASSUME NEW i \in D PROVE nx[i] \in D
    <3> HIDE DEF nx
    <3>1. PICK j \in D : w[j] = i
      BY <1>2
    <3>2. j \notin 0 .. n - 1 \/ j = 0 \/ (j \in 1 .. n - 1 /\ j - 1 \in D)
      BY <1>1, <1>2
    <3>3. CASE j \notin 0 .. n - 1
      BY <1>1, <1>10, <3>1, <3>3
    <3>4. CASE j = 0
      BY <1>1, <1>9, <3>1, <3>4
    <3>5. CASE j \in 1 .. n - 1 /\ j - 1 \in D
      BY <1>2, <1>8, <3>1, <3>5
    <3> QED
      BY <3>2, <3>3, <3>4, <3>5
  <2> HIDE DEF nx
  <2> QED
    BY <2>1, <2>2
<1> HIDE DEF nx, mo
<1>13. /\ r \in QueueValues /\ r.size = s /\ SameRings(r, q)
       /\ r.next = nx /\ r.more = mo /\ r.free_head = w[n - 1] /\ r.num_free = s
  <2>1. nx \in [0 .. q.size - 1 -> 0 .. q.size - 1]
    BY <1>12
  <2>2. mo \in [0 .. q.size - 1 -> BOOLEAN]
    BY <1>11
  <2>3. fh \in 0 .. q.size - 1 /\ nf \in 0 .. q.size
    BY <1>5
  <2>4. fh = w[n - 1] /\ nf = q.size
    BY <1>5
  <2> HIDE DEF s, D, v, C, N, Pos, u
  <2>5. /\ r \in QueueValues /\ r.size = q.size /\ SameRings(r, q)
        /\ r.next = nx /\ r.more = mo /\ r.free_head = fh /\ r.num_free = nf
    <3>1. Relinks(r, q, nx, mo, fh, nf)
      BY <1>4
    <3>2. nx \in [0 .. q.size - 1 -> 0 .. q.size - 1] /\ mo \in [0 .. q.size - 1 -> BOOLEAN]
      BY <2>1, <2>2
    <3>3. r \in QueueValues
      BY <3>1, <3>2, <2>3, Relinked
    <3>4. r.size = q.size /\ SameRings(r, q)
      BY <3>1, <3>2, <2>3, Relinked
    <3>5. r.next = nx /\ r.free_head = fh /\ r.num_free = nf
      BY <3>1, <3>2, <2>3, Relinked
    <3>6. r.more = mo
      BY <3>1, <3>2, <2>3, Relinked
    <3> QED
      BY <3>3, <3>4, <3>5, <3>6
  <2> QED
    BY <2>4, <2>5 DEF s
<1> HIDE DEF s, v, C, N
<1>14. \A i \in D : (i < n => n - 1 - i \in 0 .. n - 1 /\ n - 1 - i \in D) /\ (~(i < n) => i \notin 0 .. n - 1)
  <2>1. s \in Nat /\ n <= s
    BY <1>1, <1>2
  <2> QED
    BY <2>1
<1>15. u \in [D -> D]
  BY <1>2, <1>14
<1>16. \A i \in D : u[i] = IF i < n THEN w[n - 1 - i] ELSE w[i]
  OBVIOUS
<1> HIDE DEF u
<1>17. Perm(u, s)
  <2>1. ASSUME NEW i \in D, NEW j \in D, u[i] = u[j] PROVE i = j
    <3>1. CASE i < n /\ j < n
      <4>1. w[n - 1 - i] = w[n - 1 - j]
        BY <1>16, <2>1, <3>1
      <4>2. n - 1 - i = n - 1 - j
        BY <1>2, <1>14, <3>1, <4>1
      <4> QED
        BY <4>2
    <3>2. CASE i < n /\ ~(j < n)
      <4>1. w[n - 1 - i] = w[j]
        BY <1>16, <2>1, <3>2
      <4>2. n - 1 - i = j
        BY <1>2, <1>14, <3>2, <4>1
      <4> QED
        BY <1>14, <3>2, <4>2
    <3>3. CASE ~(i < n) /\ j < n
      <4>1. w[i] = w[n - 1 - j]
        BY <1>16, <2>1, <3>3
      <4>2. i = n - 1 - j
        BY <1>2, <1>14, <3>3, <4>1
      <4> QED
        BY <1>14, <3>3, <4>2
    <3>4. CASE ~(i < n) /\ ~(j < n)
      BY <1>2, <1>16, <2>1, <3>4
    <3> QED
      BY <3>1, <3>2, <3>3, <3>4
  <2>2. ASSUME NEW x \in D PROVE \E i \in D : u[i] = x
    <3>1. PICK i \in D : w[i] = x
      BY <1>2
    <3>2. CASE i < n
      <4>1. n - 1 - i \in D /\ n - 1 - i < n /\ n - 1 - (n - 1 - i) = i
        BY <1>14, <3>2
      <4>2. u[n - 1 - i] = w[i]
        BY <1>16, <4>1
      <4> QED
        BY <3>1, <4>1, <4>2
    <3>3. CASE ~(i < n)
      BY <1>16, <3>1, <3>3
    <3> QED
      BY <3>2, <3>3
  <2> QED
    BY <1>15, <2>1, <2>2 DEF Perm
<1>18. \A i \in 0 .. s - 2 : nx[u[i]] = u[i + 1]
  <2> TAKE i \in 0 .. s - 2
  <2>1. i \in D /\ i + 1 \in D
    BY <1>1
  <2>2. CASE i < n - 1
    <3>1. u[i] = w[n - 1 - i] /\ u[i + 1] = w[n - 1 - (i + 1)]
      BY <1>16, <2>1, <2>2
    <3>2. n - 1 - i \in 1 .. n - 1 /\ n - 1 - (i + 1) = (n - 1 - i) - 1
      BY <2>1, <2>2
    <3> QED
      BY <1>8, <3>1, <3>2
  <2>3. CASE i = n - 1
    <3>1. u[i] = w[0] /\ u[i + 1] = w[n] /\ n < s
      BY <1>1, <1>16, <2>1, <2>3
    <3> QED
      BY <1>2, <1>9, <3>1
  <2>4. CASE i > n - 1
    <3>1. u[i] = w[i] /\ u[i + 1] = w[i + 1] /\ i \notin 0 .. n - 1 /\ i # n - 1
      BY <1>16, <2>1, <2>4
    <3> QED
      BY <1>2, <1>10, <2>1, <3>1
  <2> QED
    BY <2>1, <2>2, <2>3, <2>4
<1>19. Linked(r, u, 0)
  <2>1. r.free_head = u[0] /\ 0 \in 0 .. s /\ s = s - 0 /\ \A i \in D : i # 0 - 1
    <3>1. 0 \in D /\ 0 < n /\ n - 1 - 0 = n - 1
      BY <1>1
    <3> QED
      BY <1>1, <1>13, <1>16, <3>1
  <2>2. \A i \in D : r.more[u[i]] = TRUE
    BY <1>11, <1>13, <1>15
  <2> QED
    BY <1>13, <1>17, <1>18, <2>1, <2>2, Zenon DEF Linked
<1> QED
  BY <1>13, <1>19 DEF r, s

-----------------------------------------------------------------------------
(* The descriptors of two queues are alike. *)
SameLinks(r, q) ==
  /\ r.size = q.size /\ r.next = q.next /\ r.more = q.more
  /\ r.free_head = q.free_head /\ r.num_free = q.num_free

(* The links of a queue do not depend on its rings. *)
LEMMA LinksKept ==
  ASSUME NEW q, NEW r, SameLinks(r, q), NEW w, NEW n, Linked(q, w, n)
  PROVE  Linked(r, w, n)
BY DEF SameLinks, Linked

(* The index width. *)
LEMMA IdxModType ==
  ASSUME NEW q \in QueueValues
  PROVE  IdxMod \in Nat \ {0} /\ IdxMod > 1 /\ q.size \in Nat \ {0}
<1>1. q.size \in Nat /\ q.size > 0 /\ q.size < IdxMod /\ IdxMod \in Nat
  BY Fields, IdxModAssumption
<1> QED
  BY <1>1

(* push_avail writes one slot of the available ring. *)
LEMMA PushFields ==
  ASSUME NEW q \in QueueValues, NEW h \in 0 .. q.size - 1
  PROVE  LET r == PushAvail(q, h) IN
         /\ r \in QueueValues /\ SameLinks(r, q)
         /\ r.avail = [q.avail EXCEPT ![q.avail_idx % q.size] = h]
         /\ r.avail_idx = (q.avail_idx + 1) % IdxMod
         /\ r.used = q.used /\ r.used_idx = q.used_idx /\ r.last_used_idx = q.last_used_idx
         /\ r.seen = q.seen /\ r.owned = q.owned
<1> DEFINE r == PushAvail(q, h)
           s == q.size
           av == [q.avail EXCEPT ![q.avail_idx % q.size] = h]
           ai == (q.avail_idx + 1) % IdxMod
<1>1. q \in VQ(s) /\ s \in Sizes /\ q.avail \in [0 .. s - 1 -> 0 .. s - 1] /\ q.avail_idx \in Nat
  BY Fields
<1>2. av \in [0 .. s - 1 -> 0 .. s - 1] /\ ai \in 0 .. IdxMod - 1
  <2> DEFINE z == q.avail_idx % q.size
  <2>1. s \in Nat \ {0} /\ IdxMod \in Nat \ {0} /\ q.avail_idx + 1 \in Nat
    BY <1>1, IdxModType
  <2>2. z \in 0 .. s - 1 /\ ai \in 0 .. IdxMod - 1
    BY <1>1, <2>1, DivMod
  <2>3. av = [q.avail EXCEPT ![z] = h] /\ h \in 0 .. s - 1
    OBVIOUS
  <2> HIDE DEF z, ai, av, s
  <2> QED
    BY <1>1, <2>2, <2>3
<1>3. r = [q EXCEPT !.avail = av, !.avail_idx = ai]
  BY <1>1 DEF PushAvail, VQ
<1> HIDE DEF r, av, ai
<1>4. r \in VQ(s) /\ SameLinks(r, q) /\ r.avail = av /\ r.avail_idx = ai
      /\ r.used = q.used /\ r.used_idx = q.used_idx /\ r.last_used_idx = q.last_used_idx
      /\ r.seen = q.seen /\ r.owned = q.owned
  <2> HIDE DEF s
  <2> QED
    BY <1>1, <1>2, <1>3 DEF VQ, SameLinks
<1> QED
  BY <1>1, <1>4 DEF r, av, ai, QueueValues

(* pop_used moves on in the used ring. *)
LEMMA PopFields ==
  ASSUME NEW q \in QueueValues
  PROVE  LET r == PopUsed(q) IN
         /\ r \in QueueValues /\ SameLinks(r, q)
         /\ r.last_used_idx = (q.last_used_idx + 1) % IdxMod
         /\ r.avail = q.avail /\ r.avail_idx = q.avail_idx /\ r.used = q.used /\ r.used_idx = q.used_idx
         /\ r.seen = q.seen /\ r.owned = q.owned
<1> DEFINE r == PopUsed(q)
           s == q.size
           li == (q.last_used_idx + 1) % IdxMod
<1>1. q \in VQ(s) /\ s \in Sizes /\ q.last_used_idx \in Nat
  BY Fields
<1>2. li \in 0 .. IdxMod - 1
  <2>1. IdxMod \in Nat \ {0} /\ q.last_used_idx + 1 \in Nat
    BY <1>1, IdxModType
  <2> QED
    BY <2>1, DivMod
<1>3. r = [q EXCEPT !.last_used_idx = li]
  BY <1>1 DEF PopUsed, VQ
<1> HIDE DEF r, li
<1>4. r \in VQ(s) /\ SameLinks(r, q) /\ r.last_used_idx = li
      /\ r.avail = q.avail /\ r.avail_idx = q.avail_idx /\ r.used = q.used /\ r.used_idx = q.used_idx
      /\ r.seen = q.seen /\ r.owned = q.owned
  <2> HIDE DEF s
  <2> QED
    BY <1>1, <1>2, <1>3 DEF VQ, SameLinks
<1> QED
  BY <1>1, <1>4 DEF r, li, QueueValues

(* The device fetches the next available head. *)
LEMMA FetchFields ==
  ASSUME NEW q \in QueueValues
  PROVE  LET r == Fetch(q) IN
         /\ r \in QueueValues /\ SameLinks(r, q)
         /\ r.owned = q.owned \cup {q.avail[q.seen % q.size]}
         /\ r.seen = (q.seen + 1) % IdxMod
         /\ r.avail = q.avail /\ r.avail_idx = q.avail_idx /\ r.used = q.used /\ r.used_idx = q.used_idx
         /\ r.last_used_idx = q.last_used_idx
<1> DEFINE r == Fetch(q)
           s == q.size
           ow == q.owned \cup {q.avail[q.seen % q.size]}
           se == (q.seen + 1) % IdxMod
<1>1. /\ q \in VQ(s) /\ s \in Sizes /\ q.avail \in [0 .. s - 1 -> 0 .. s - 1] /\ q.seen \in Nat
      /\ q.owned \subseteq 0 .. s - 1
  BY Fields
<1>2. ow \in SUBSET (0 .. s - 1) /\ se \in 0 .. IdxMod - 1
  <2> DEFINE z == q.seen % q.size
  <2>1. s \in Nat \ {0} /\ IdxMod \in Nat \ {0} /\ q.seen + 1 \in Nat
    BY <1>1, IdxModType
  <2>2. z \in 0 .. s - 1 /\ se \in 0 .. IdxMod - 1
    BY <1>1, <2>1, DivMod
  <2>3. ow = q.owned \cup {q.avail[z]}
    OBVIOUS
  <2> HIDE DEF z, se, ow, s
  <2> QED
    BY <1>1, <2>2, <2>3
<1>3. r = [q EXCEPT !.owned = ow, !.seen = se]
  BY <1>1 DEF Fetch, VQ
<1> HIDE DEF r, ow, se
<1>4. r \in VQ(s) /\ SameLinks(r, q) /\ r.owned = ow /\ r.seen = se
      /\ r.avail = q.avail /\ r.avail_idx = q.avail_idx /\ r.used = q.used /\ r.used_idx = q.used_idx
      /\ r.last_used_idx = q.last_used_idx
  <2> HIDE DEF s
  <2> QED
    BY <1>1, <1>2, <1>3 DEF VQ, SameLinks
<1> QED
  BY <1>1, <1>4 DEF r, ow, se, QueueValues

(* The device returns a chain it holds. *)
LEMMA ReturnFields ==
  ASSUME NEW q \in QueueValues, NEW h \in q.owned
  PROVE  LET r == Return(q, h) IN
         /\ r \in QueueValues /\ SameLinks(r, q)
         /\ r.owned = q.owned \ {h}
         /\ r.used = [q.used EXCEPT ![q.used_idx % q.size] = h]
         /\ r.used_idx = (q.used_idx + 1) % IdxMod
         /\ r.avail = q.avail /\ r.avail_idx = q.avail_idx /\ r.seen = q.seen
         /\ r.last_used_idx = q.last_used_idx
<1> DEFINE r == Return(q, h)
           s == q.size
           ow == q.owned \ {h}
           us == [q.used EXCEPT ![q.used_idx % q.size] = h]
           ui == (q.used_idx + 1) % IdxMod
<1>1. /\ q \in VQ(s) /\ s \in Sizes /\ q.used \in [0 .. s - 1 -> 0 .. s - 1] /\ q.used_idx \in Nat
      /\ q.owned \subseteq 0 .. s - 1
  BY Fields
<1>2. ow \in SUBSET (0 .. s - 1) /\ us \in [0 .. s - 1 -> 0 .. s - 1] /\ ui \in 0 .. IdxMod - 1
  <2> DEFINE z == q.used_idx % q.size
  <2>1. s \in Nat \ {0} /\ IdxMod \in Nat \ {0} /\ q.used_idx + 1 \in Nat
    BY <1>1, IdxModType
  <2>2. z \in 0 .. s - 1 /\ ui \in 0 .. IdxMod - 1
    BY <1>1, <2>1, DivMod
  <2>3. us = [q.used EXCEPT ![z] = h]
    OBVIOUS
  <2> HIDE DEF z, ui, us, s
  <2> QED
    BY <1>1, <2>2, <2>3 DEF ow
<1>3. r = [q EXCEPT !.owned = ow, !.used = us, !.used_idx = ui]
  BY <1>1 DEF Return, VQ
<1> HIDE DEF r, ow, us, ui
<1>4. r \in VQ(s) /\ SameLinks(r, q) /\ r.owned = ow /\ r.used = us /\ r.used_idx = ui
      /\ r.avail = q.avail /\ r.avail_idx = q.avail_idx /\ r.seen = q.seen
      /\ r.last_used_idx = q.last_used_idx
  <2> HIDE DEF s
  <2> QED
    BY <1>1, <1>2, <1>3 DEF VQ, SameLinks
<1> QED
  BY <1>1, <1>4 DEF r, ow, us, ui, QueueValues

-----------------------------------------------------------------------------
(* The slots of a ring seen through counters that never wrap. *)
LEMMA Slot ==
  ASSUME NEW q \in QueueValues, NEW x \in Nat
  PROVE  /\ (x % IdxMod) % q.size = x % q.size
         /\ ((x % IdxMod) + 1) % IdxMod = (x + 1) % IdxMod
         /\ x % q.size \in 0 .. q.size - 1
<1>1. IdxMod \in Nat \ {0} /\ q.size \in Nat \ {0} /\ IdxMod % q.size = 0
  BY IdxModType, Fields
<1> DEFINE s == q.size
           y == x % IdxMod
<1>2. s \in Nat \ {0} /\ IdxMod % s = 0
  BY <1>1
<1> HIDE DEF s
<1>3. \A z \in Nat : ((x % IdxMod) + z) % s = (x + z) % s
  <2>1. SameSlots(x, IdxMod, s)
    BY <1>1, <1>2, WrappedSlots
  <2> QED
    BY <2>1 DEF SameSlots
<1>4. y \in Nat
  BY <1>1, DivMod
<1>5. (y + 0) % s = (x + 0) % s
  BY <1>3
<1>6. y % s = x % s
  BY <1>4, <1>5
<1>7. ((x % IdxMod) + 1) % IdxMod = (x + 1) % IdxMod
  BY <1>1, WrappedSucc
<1>8. x % s \in 0 .. s - 1
  BY <1>2, DivMod
<1> QED
  BY <1>6, <1>7, <1>8 DEF s

(* The device holds finitely many chains. *)
LEMMA OwnedFinite ==
  ASSUME NEW q \in QueueValues
  PROVE  IsFiniteSet(q.owned) /\ Cardinality(q.owned) \in Nat
<1>1. q.owned \subseteq 0 .. q.size - 1 /\ q.size - 1 \in Int
  BY Fields
<1> DEFINE last == q.size - 1
<1>2. IsFiniteSet(0 .. last)
  <2>1. last \in Int /\ 0 \in Int
    BY <1>1
  <2> HIDE DEF last
  <2> QED
    BY <2>1, FS_Interval
<1>3. IsFiniteSet(q.owned)
  BY <1>1, <1>2, FS_Subset
<1> QED
  BY <1>3, FS_CardinalityType

(* A buffer the device fills goes to the end of what waits, *)
LEMMA RingReturn ==
  ASSUME NEW q \in QueueValues, NEW L \in Nat, NEW U \in Nat, NEW S \in Nat, NEW A \in Nat,
         Ring(q, L, U, S, A), NEW h \in q.owned
  PROVE  /\ Ring(Return(q, h), L, U + 1, S, A)
         /\ Return(q, h).used[U % q.size] = h
         /\ \A i \in L .. U - 1 : /\ Return(q, h).used[i % q.size] = q.used[i % q.size]
                                 /\ q.used[i % q.size] # h
<1> DEFINE r == Return(q, h)
           s == q.size
<1>1. /\ SameLinks(r, q) /\ r.owned = q.owned \ {h}
      /\ r.used = [q.used EXCEPT ![q.used_idx % q.size] = h]
      /\ r.used_idx = (q.used_idx + 1) % IdxMod
      /\ r.avail = q.avail /\ r.avail_idx = q.avail_idx /\ r.seen = q.seen
      /\ r.last_used_idx = q.last_used_idx
  BY ReturnFields
<1>2. /\ s \in Nat \ {0} /\ q.owned \subseteq 0 .. s - 1
      /\ q.used \in [0 .. s - 1 -> 0 .. s - 1]
  BY Fields
<1>3. /\ L <= U /\ U <= S /\ S <= A /\ A = L + s
      /\ q.last_used_idx = L % IdxMod /\ q.used_idx = U % IdxMod
      /\ q.seen = S % IdxMod /\ q.avail_idx = A % IdxMod
  BY DEF Ring
<1>4. /\ \A i, j \in L .. U - 1 : q.used[i % s] = q.used[j % s] => i = j
      /\ \A i, j \in S .. A - 1 : q.avail[i % s] = q.avail[j % s] => i = j
      /\ \A i \in L .. U - 1, j \in S .. A - 1 : q.used[i % s] # q.avail[j % s]
      /\ \A i \in L .. U - 1 : q.used[i % s] \notin q.owned
      /\ \A j \in S .. A - 1 : q.avail[j % s] \notin q.owned
  BY DEF Ring
<1>5. Cardinality(r.owned) = S - (U + 1) /\ U + 1 <= S
  <2>1. IsFiniteSet(q.owned)
    BY OwnedFinite
  <2>2. Cardinality(q.owned) = S - U
    BY DEF Ring
  <2>3. Cardinality(q.owned \ {h}) = Cardinality(q.owned) - 1 /\ Cardinality(q.owned \ {h}) \in Nat
    BY <2>1, FS_RemoveElement, FS_CardinalityType
  <2> QED
    BY <1>1, <1>3, <2>2, <2>3
<1>6. r.size = s /\ q.used_idx % s = U % s /\ r.used_idx = (U + 1) % IdxMod /\ U % s \in 0 .. s - 1
  BY <1>1, <1>3, Slot DEF SameLinks
<1> HIDE DEF r, s
<1>7. r.used = [q.used EXCEPT ![U % s] = h]
  BY <1>1, <1>6 DEF s
<1>8. r.used[U % s] = h
  BY <1>2, <1>6, <1>7
<1>9. \A i \in L .. U - 1 : r.used[i % s] = q.used[i % s] /\ q.used[i % s] # h
  <2> TAKE i \in L .. U - 1
  <2>1. i \in Nat /\ i < U /\ U < i + s
    BY <1>2, <1>3, <1>5
  <2>2. i % s # U % s
    BY <1>2, <2>1, WindowDistinct
  <2>3. i % s \in 0 .. s - 1
    BY <1>2, <2>1, DivMod
  <2> HIDE DEF Ring
  <2> DEFINE a == i % s
             b == U % s
  <2>4. a # b /\ a \in 0 .. s - 1 /\ r.used = [q.used EXCEPT ![b] = h]
    BY <1>7, <2>2, <2>3
  <2>5. q.used[a] \notin q.owned
    BY <1>4
  <2> HIDE DEF a, b
  <2>6. r.used[a] = q.used[a] /\ q.used[a] # h
    BY <1>2, <2>4, <2>5
  <2> QED
    BY <2>6 DEF a
<1>10. \A i \in L .. (U + 1) - 1 : i = U \/ i \in L .. U - 1
  BY <1>3
<1>11. \A i, j \in L .. (U + 1) - 1 : r.used[i % s] = r.used[j % s] => i = j
  BY <1>4, <1>8, <1>9, <1>10
<1>12. \A i \in L .. (U + 1) - 1, j \in S .. A - 1 : r.used[i % s] # q.avail[j % s]
  BY <1>4, <1>8, <1>9, <1>10
<1>13. \A i \in L .. (U + 1) - 1 : r.used[i % s] \notin q.owned \ {h}
  BY <1>4, <1>8, <1>9, <1>10
<1>14. \A j \in S .. A - 1 : q.avail[j % s] \notin q.owned \ {h}
  BY <1>4
<1>15. Ring(r, L, U + 1, S, A)
  <2>1. /\ L <= U + 1 /\ A = L + r.size /\ r.last_used_idx = L % IdxMod
        /\ r.seen = S % IdxMod /\ r.avail_idx = A % IdxMod
    BY <1>1, <1>3, <1>6
  <2>2. \A i, j \in L .. (U + 1) - 1 : r.used[i % r.size] = r.used[j % r.size] => i = j
    BY <1>1, <1>6, <1>11
  <2>3. \A i, j \in S .. A - 1 : r.avail[i % r.size] = r.avail[j % r.size] => i = j
    BY <1>1, <1>6, <1>4
  <2>4. \A i \in L .. (U + 1) - 1, j \in S .. A - 1 : r.used[i % r.size] # r.avail[j % r.size]
    BY <1>1, <1>6, <1>12
  <2>5. \A i \in L .. (U + 1) - 1 : r.used[i % r.size] \notin r.owned
    BY <1>1, <1>6, <1>13
  <2>6. \A j \in S .. A - 1 : r.avail[j % r.size] \notin r.owned
    BY <1>1, <1>6, <1>14
  <2> QED
    BY <1>3, <1>5, <1>6, <2>1, <2>2, <2>3, <2>4, <2>5, <2>6, Zenon DEF Ring
<1> QED
  BY <1>8, <1>9, <1>15 DEF r, s

(* a buffer it fetches leaves the available ring, *)
LEMMA RingFetch ==
  ASSUME NEW q \in QueueValues, NEW L \in Nat, NEW U \in Nat, NEW S \in Nat, NEW A \in Nat,
         Ring(q, L, U, S, A), DeviceSees(q)
  PROVE  Ring(Fetch(q), L, U, S + 1, A)
<1> DEFINE r == Fetch(q)
           s == q.size
           h == q.avail[S % s]
<1>1. /\ SameLinks(r, q) /\ r.owned = q.owned \cup {q.avail[q.seen % q.size]}
      /\ r.seen = (q.seen + 1) % IdxMod
      /\ r.avail = q.avail /\ r.avail_idx = q.avail_idx /\ r.used = q.used /\ r.used_idx = q.used_idx
      /\ r.last_used_idx = q.last_used_idx
  BY FetchFields
<1>2. s \in Nat \ {0}
  BY Fields
<1>3. /\ L <= U /\ U <= S /\ S <= A /\ A = L + s
      /\ q.last_used_idx = L % IdxMod /\ q.used_idx = U % IdxMod
      /\ q.seen = S % IdxMod /\ q.avail_idx = A % IdxMod
  BY DEF Ring
<1>4. /\ \A i, j \in L .. U - 1 : q.used[i % s] = q.used[j % s] => i = j
      /\ \A i, j \in S .. A - 1 : q.avail[i % s] = q.avail[j % s] => i = j
      /\ \A i \in L .. U - 1, j \in S .. A - 1 : q.used[i % s] # q.avail[j % s]
      /\ \A i \in L .. U - 1 : q.used[i % s] \notin q.owned
      /\ \A j \in S .. A - 1 : q.avail[j % s] \notin q.owned
  BY DEF Ring
<1>5. r.size = s /\ r.owned = q.owned \cup {h} /\ r.seen = (S + 1) % IdxMod
  BY <1>1, <1>3, Slot DEF SameLinks
<1>6. S \in S .. A - 1 /\ S + 1 <= A
  <2>1. S # A
    BY <1>3 DEF DeviceSees
  <2> QED
    BY <1>3, <2>1
<1> HIDE DEF r, s
<1>7. Cardinality(r.owned) = (S + 1) - U
  <2>1. h \notin q.owned
    BY <1>4, <1>6
  <2>2. Cardinality(q.owned) = S - U
    BY DEF Ring
  <2> HIDE DEF h
  <2>3. Cardinality(q.owned \cup {h}) = Cardinality(q.owned) + 1
    BY <2>1, OwnedFinite, FS_AddElement
  <2> QED
    BY <1>5, <2>2, <2>3
<1>8. \A j \in (S + 1) .. A - 1 : j \in S .. A - 1 /\ j # S
  BY <1>6
<1>9. \A i, j \in (S + 1) .. A - 1 : q.avail[i % s] = q.avail[j % s] => i = j
  BY <1>4, <1>8
<1>10. \A i \in L .. U - 1, j \in (S + 1) .. A - 1 : q.used[i % s] # q.avail[j % s]
  BY <1>4, <1>8
<1>11. \A i \in L .. U - 1 : q.used[i % s] \notin q.owned \cup {h}
  BY <1>4, <1>6
<1>12. \A j \in (S + 1) .. A - 1 : q.avail[j % s] \notin q.owned \cup {h}
  BY <1>4, <1>6, <1>8
<1>13. Ring(r, L, U, S + 1, A)
  <2>1. /\ U <= S + 1 /\ A = L + r.size /\ r.last_used_idx = L % IdxMod
        /\ r.used_idx = U % IdxMod /\ r.avail_idx = A % IdxMod
    BY <1>1, <1>3, <1>5
  <2>2. \A i, j \in L .. U - 1 : r.used[i % r.size] = r.used[j % r.size] => i = j
    BY <1>1, <1>5, <1>4
  <2>3. \A i, j \in (S + 1) .. A - 1 : r.avail[i % r.size] = r.avail[j % r.size] => i = j
    BY <1>1, <1>5, <1>9
  <2>4. \A i \in L .. U - 1, j \in (S + 1) .. A - 1 : r.used[i % r.size] # r.avail[j % r.size]
    BY <1>1, <1>5, <1>10
  <2>5. \A i \in L .. U - 1 : r.used[i % r.size] \notin r.owned
    BY <1>1, <1>5, <1>11
  <2>6. \A j \in (S + 1) .. A - 1 : r.avail[j % r.size] \notin r.owned
    BY <1>1, <1>5, <1>12
  <2> QED
    BY <1>3, <1>5, <1>6, <1>7, <2>1, <2>2, <2>3, <2>4, <2>5, <2>6, Zenon DEF Ring
<1> QED
  BY <1>13 DEF r

(* and the one recv empties is posted again behind all that are available.  *)
LEMMA RingRecv ==
  ASSUME NEW q \in QueueValues, NEW L \in Nat, NEW U \in Nat, NEW S \in Nat, NEW A \in Nat,
         Ring(q, L, U, S, A), HasUsed(q)
  PROVE  LET r == PushAvail(PopUsed(q), PoppedId(q)) IN
         /\ PoppedId(q) = q.used[L % q.size] /\ PoppedId(q) \in 0 .. q.size - 1 /\ L < U
         /\ r \in QueueValues /\ r.size = q.size /\ r.used = q.used
         /\ Ring(r, L + 1, U, S, A + 1)
<1> DEFINE p == PopUsed(q)
           id == q.used[L % q.size]
           r == PushAvail(p, id)
           s == q.size
<1>1. s \in Nat \ {0} /\ q.used \in [0 .. s - 1 -> 0 .. s - 1] /\ q.avail \in [0 .. s - 1 -> 0 .. s - 1]
  BY Fields
<1>2. /\ L <= U /\ U <= S /\ S <= A /\ A = L + s
      /\ q.last_used_idx = L % IdxMod /\ q.used_idx = U % IdxMod
      /\ q.seen = S % IdxMod /\ q.avail_idx = A % IdxMod
      /\ Cardinality(q.owned) = S - U
  BY DEF Ring
<1>3. /\ \A i, j \in L .. U - 1 : q.used[i % s] = q.used[j % s] => i = j
      /\ \A i, j \in S .. A - 1 : q.avail[i % s] = q.avail[j % s] => i = j
      /\ \A i \in L .. U - 1, j \in S .. A - 1 : q.used[i % s] # q.avail[j % s]
      /\ \A i \in L .. U - 1 : q.used[i % s] \notin q.owned
      /\ \A j \in S .. A - 1 : q.avail[j % s] \notin q.owned
  BY DEF Ring
<1>4. PoppedId(q) = id /\ id \in 0 .. s - 1
  <2>1. q.last_used_idx % q.size = L % q.size /\ L % q.size \in 0 .. s - 1
    BY <1>2, Slot
  <2> QED
    BY <1>1, <2>1 DEF PoppedId
<1>5. L < U /\ L \in L .. U - 1
  <2>1. L # U
    BY <1>2 DEF HasUsed
  <2> QED
    BY <1>2, <2>1
<1>6. /\ p \in QueueValues /\ SameLinks(p, q) /\ p.size = s
      /\ p.last_used_idx = (q.last_used_idx + 1) % IdxMod
      /\ p.avail = q.avail /\ p.avail_idx = q.avail_idx /\ p.used = q.used /\ p.used_idx = q.used_idx
      /\ p.seen = q.seen /\ p.owned = q.owned
  BY PopFields DEF SameLinks
<1> HIDE DEF p, id
<1>7. /\ r \in QueueValues /\ SameLinks(r, p)
      /\ r.avail = [p.avail EXCEPT ![p.avail_idx % p.size] = id]
      /\ r.avail_idx = (p.avail_idx + 1) % IdxMod
      /\ r.used = p.used /\ r.used_idx = p.used_idx /\ r.last_used_idx = p.last_used_idx
      /\ r.seen = p.seen /\ r.owned = p.owned
  BY <1>4, <1>6, PushFields
<1>8. /\ r.size = s /\ r.used = q.used /\ r.used_idx = q.used_idx /\ r.seen = q.seen /\ r.owned = q.owned
      /\ r.last_used_idx = (L + 1) % IdxMod /\ r.avail_idx = (A + 1) % IdxMod
      /\ r.avail = [q.avail EXCEPT ![A % s] = id] /\ A % s \in 0 .. s - 1
  BY <1>2, <1>6, <1>7, Slot DEF SameLinks
<1> HIDE DEF r, s
<1>9. \A j \in S .. A - 1 : r.avail[j % s] = q.avail[j % s]
  <2> TAKE j \in S .. A - 1
  <2>1. j \in Nat /\ j < A /\ A < j + s
    BY <1>1, <1>2, <1>5
  <2>2. j % s # A % s
    BY <1>1, <2>1, WindowDistinct
  <2>3. j % s \in 0 .. s - 1
    BY <1>1, <2>1, DivMod
  <2> HIDE DEF Ring
  <2> DEFINE a == j % s
             b == A % s
  <2>4. a # b /\ a \in 0 .. s - 1 /\ r.avail = [q.avail EXCEPT ![b] = id]
    BY <1>8, <2>2, <2>3
  <2> HIDE DEF a, b
  <2>5. r.avail[a] = q.avail[a]
    BY <1>1, <2>4
  <2> QED
    BY <2>5 DEF a
<1>10. r.avail[A % s] = id
  BY <1>1, <1>8
<1>11. \A j \in S .. (A + 1) - 1 : j = A \/ j \in S .. A - 1
  BY <1>2
<1>12. \A i \in (L + 1) .. U - 1 : i # L /\ i \in L .. U - 1
  BY <1>5
<1>13. /\ \A j \in S .. A - 1 : q.avail[j % s] # id
       /\ \A i \in (L + 1) .. U - 1 : q.used[i % s] # id
       /\ id \notin q.owned
  BY <1>3, <1>5, <1>12 DEF id, s
<1>14. \A i, j \in (L + 1) .. U - 1 : q.used[i % s] = q.used[j % s] => i = j
  BY <1>3, <1>12
<1>15. \A i, j \in S .. (A + 1) - 1 : r.avail[i % s] = r.avail[j % s] => i = j
  BY <1>3, <1>9, <1>10, <1>11, <1>13
<1>16. \A i \in (L + 1) .. U - 1, j \in S .. (A + 1) - 1 : q.used[i % s] # r.avail[j % s]
  BY <1>3, <1>9, <1>10, <1>11, <1>12, <1>13
<1>17. \A i \in (L + 1) .. U - 1 : q.used[i % s] \notin q.owned
  BY <1>3, <1>12
<1>18. \A j \in S .. (A + 1) - 1 : r.avail[j % s] \notin q.owned
  BY <1>3, <1>9, <1>10, <1>11, <1>13
<1>19. Ring(r, L + 1, U, S, A + 1)
  <2>1. /\ L + 1 <= U /\ S <= A + 1 /\ A + 1 = (L + 1) + r.size
        /\ r.last_used_idx = (L + 1) % IdxMod /\ r.used_idx = U % IdxMod
        /\ r.seen = S % IdxMod /\ r.avail_idx = (A + 1) % IdxMod
        /\ Cardinality(r.owned) = S - U
    BY <1>1, <1>2, <1>5, <1>8
  <2>2. \A i, j \in (L + 1) .. U - 1 : r.used[i % r.size] = r.used[j % r.size] => i = j
    BY <1>8, <1>14
  <2>3. \A i, j \in S .. (A + 1) - 1 : r.avail[i % r.size] = r.avail[j % r.size] => i = j
    BY <1>8, <1>15
  <2>4. \A i \in (L + 1) .. U - 1, j \in S .. (A + 1) - 1 : r.used[i % r.size] # r.avail[j % r.size]
    BY <1>8, <1>16
  <2>5. \A i \in (L + 1) .. U - 1 : r.used[i % r.size] \notin r.owned
    BY <1>8, <1>17
  <2>6. \A j \in S .. (A + 1) - 1 : r.avail[j % r.size] \notin r.owned
    BY <1>8, <1>18
  <2> QED
    BY <1>2, <2>1, <2>2, <2>3, <2>4, <2>5, <2>6, Zenon DEF Ring
<1> QED
  BY <1>4, <1>5, <1>7, <1>8, <1>19 DEF r, p, s, id

(* w holds the frames of the used elements L .. U - 1. *)
Waits(w, q, bufs, L, U) ==
  /\ w \in Seq(Nat) /\ Len(w) = U - L
  /\ \A i \in 1 .. U - L : w[i] = bufs[q.used[(L + i - 1) % q.size]]

(* Waiting is that sequence. *)
LEMMA WaitingSeq ==
  ASSUME NEW q \in QueueValues, NEW bufs \in [0 .. q.size - 1 -> Nat],
         NEW L \in Nat, NEW U \in Nat, L <= U
  PROVE  Waits(Waiting(q, bufs, L, U), q, bufs, L, U)
<1> DEFINE w == Waiting(q, bufs, L, U)
<1>1. \A i \in 1 .. U - L : bufs[q.used[(L + i - 1) % q.size]] \in Nat
  <2> TAKE i \in 1 .. U - L
  <2>1. L + i - 1 \in Nat
    OBVIOUS
  <2> DEFINE x == L + i - 1
  <2> HIDE DEF x
  <2>2. x % q.size \in 0 .. q.size - 1
    BY <2>1, Slot DEF x
  <2>3. bufs[q.used[x % q.size]] \in Nat
    BY <2>2, Fields
  <2> QED
    BY <2>3 DEF x
<1>2. w \in [1 .. U - L -> Nat]
  BY <1>1 DEF Waiting
<1>3. \A i \in 1 .. U - L : w[i] = bufs[q.used[(L + i - 1) % q.size]]
  BY DEF Waiting
<1> HIDE DEF w
<1>4. U - L \in Nat
  OBVIOUS
<1>5. w \in Seq(Nat) /\ Len(w) = U - L
  BY <1>2, <1>4, FunctionIsSeq
<1> QED
  BY <1>3, <1>5 DEF w, Waits

SameUsed(r, q) == r.size = q.size /\ r.used = q.used
StartsWith(w, f, t) == w # <<>> /\ Head(w) = f /\ Tail(w) = t

(* recv takes the first frame, *)
LEMMA WaitingHead ==
  ASSUME NEW q \in QueueValues, NEW bufs \in [0 .. q.size - 1 -> Nat],
         NEW L \in Nat, NEW U \in Nat, L < U,
         NEW r \in QueueValues, SameUsed(r, q)
  PROVE  StartsWith(Waiting(q, bufs, L, U), bufs[q.used[L % q.size]], Waiting(r, bufs, L + 1, U))
<1> USE DEF SameUsed
<1> DEFINE w == Waiting(q, bufs, L, U)
           t == Waiting(r, bufs, L + 1, U)
<1>1. /\ w \in Seq(Nat) /\ Len(w) = U - L
      /\ \A i \in 1 .. U - L : w[i] = bufs[q.used[(L + i - 1) % q.size]]
  <2>1. Waits(w, q, bufs, L, U)
    BY WaitingSeq
  <2> QED
    BY <2>1 DEF Waits
<1>2. /\ t \in Seq(Nat) /\ Len(t) = U - (L + 1)
      /\ \A i \in 1 .. U - (L + 1) : t[i] = bufs[r.used[((L + 1) + i - 1) % r.size]]
  <2> DEFINE K == L + 1
  <2>1. K \in Nat /\ K <= U
    OBVIOUS
  <2> HIDE DEF K
  <2>2. Waits(Waiting(r, bufs, K, U), r, bufs, K, U)
    BY <2>1, WaitingSeq
  <2> QED
    BY <2>2 DEF Waits, K
<1> HIDE DEF w, t
<1>3. w # <<>> /\ Head(w) = w[1] /\ 1 \in 1 .. U - L /\ L + 1 - 1 = L
  BY <1>1
<1>4. Head(w) = bufs[q.used[L % q.size]]
  BY <1>1, <1>3
<1>5. Tail(w) \in Seq(Nat) /\ Len(Tail(w)) = Len(t) /\ \A i \in 1 .. Len(Tail(w)) : Tail(w)[i] = w[i + 1]
  BY <1>1, <1>2, <1>3, HeadTailProperties
<1>6. ASSUME NEW i \in 1 .. Len(Tail(w)) PROVE Tail(w)[i] = t[i]
  <2>1. i + 1 \in 1 .. U - L /\ i \in 1 .. U - (L + 1) /\ L + (i + 1) - 1 = (L + 1) + i - 1
    BY <1>1, <1>2, <1>5
  <2>2. w[i + 1] = bufs[q.used[(L + (i + 1) - 1) % q.size]]
    BY <1>1, <2>1
  <2>3. t[i] = bufs[q.used[((L + 1) + i - 1) % q.size]]
    BY <1>2, <2>1
  <2> QED
    BY <1>5, <2>1, <2>2, <2>3
<1>7. Tail(w) = t
  BY <1>2, <1>5, <1>6, SeqEqual
<1> QED
  BY <1>3, <1>4, <1>7 DEF w, t, StartsWith

(* The element U of the ring becomes h, the waiting ones are others. *)
Fills(r, q, L, U, h) ==
  /\ r.used[U % q.size] = h
  /\ \A i \in L .. U - 1 : r.used[i % q.size] = q.used[i % q.size] /\ q.used[i % q.size] # h

EndsWith(t, w, f) == t = Append(w, f)
Put(bufs, h, f) == [bufs EXCEPT ![h] = f]

(* the device appends one. *)
LEMMA WaitingAppend ==
  ASSUME NEW q \in QueueValues, NEW bufs \in [0 .. q.size - 1 -> Nat],
         NEW L \in Nat, NEW U \in Nat, L <= U,
         NEW r \in QueueValues, r.size = q.size,
         NEW h \in 0 .. q.size - 1, NEW f \in Nat, Fills(r, q, L, U, h)
  PROVE  EndsWith(Waiting(r, Put(bufs, h, f), L, U + 1), Waiting(q, bufs, L, U), f)
<1> DEFINE w == Waiting(q, bufs, L, U)
           b == Put(bufs, h, f)
           t == Waiting(r, b, L, U + 1)
<1>1. /\ w \in Seq(Nat) /\ Len(w) = U - L
      /\ \A i \in 1 .. U - L : w[i] = bufs[q.used[(L + i - 1) % q.size]]
  <2>1. Waits(w, q, bufs, L, U)
    BY WaitingSeq
  <2> QED
    BY <2>1 DEF Waits
<1>2. b \in [0 .. r.size - 1 -> Nat] /\ b[h] = f
  BY DEF Put
<1>3. \A j \in 0 .. q.size - 1 : j # h => b[j] = bufs[j]
  BY DEF Put
<1> HIDE DEF b
<1>4. /\ t \in Seq(Nat) /\ Len(t) = (U + 1) - L
      /\ \A i \in 1 .. (U + 1) - L : t[i] = b[r.used[(L + i - 1) % r.size]]
  <2> DEFINE V == U + 1
  <2>1. V \in Nat /\ L <= V
    OBVIOUS
  <2> HIDE DEF V
  <2>2. Waits(Waiting(r, b, L, V), r, b, L, V)
    BY <1>2, <2>1, WaitingSeq
  <2> QED
    BY <2>2 DEF Waits, V
<1> HIDE DEF w, t
<1>5. /\ Append(w, f) \in Seq(Nat) /\ Len(Append(w, f)) = Len(t)
      /\ Append(w, f)[(U + 1) - L] = f /\ \A i \in 1 .. U - L : Append(w, f)[i] = w[i]
  <2>1. /\ Append(w, f) \in Seq(Nat) /\ Len(Append(w, f)) = Len(w) + 1
        /\ Append(w, f)[Len(w) + 1] = f /\ \A i \in 1 .. Len(w) : Append(w, f)[i] = w[i]
    <3>1. w \in Seq(Nat)
      BY <1>1
    <3> QED
      BY <3>1, AppendProperties
  <2>2. Len(w) + 1 = (U + 1) - L /\ Len(t) = Len(w) + 1
    BY <1>1, <1>4
  <2> QED
    BY <1>1, <2>1, <2>2
<1>6. t[(U + 1) - L] = f
  <2>1. (U + 1) - L \in 1 .. (U + 1) - L /\ L + ((U + 1) - L) - 1 = U
    OBVIOUS
  <2>2. t[(U + 1) - L] = b[r.used[U % r.size]]
    BY <1>4, <2>1
  <2> QED
    BY <1>2, <2>2 DEF Fills
<1>7. ASSUME NEW i \in 1 .. U - L PROVE t[i] = w[i]
  <2> DEFINE x == L + i - 1
             y == x % q.size
  <2>1. i \in 1 .. (U + 1) - L /\ x \in L .. U - 1 /\ x \in Nat
    OBVIOUS
  <2>2. t[i] = b[r.used[y]] /\ w[i] = bufs[q.used[y]]
    BY <1>1, <1>4, <2>1
  <2>3. r.used[y] = q.used[y] /\ q.used[y] # h
    BY <2>1 DEF Fills
  <2> HIDE DEF x
  <2>4. y \in 0 .. q.size - 1
    BY <2>1, Slot
  <2> HIDE DEF y
  <2>5. q.used[y] \in 0 .. q.size - 1
    BY <2>4, Fields
  <2> QED
    BY <1>3, <2>2, <2>3, <2>5
<1>8. ASSUME NEW i \in 1 .. Len(t) PROVE t[i] = Append(w, f)[i]
  <2>1. i = (U + 1) - L \/ i \in 1 .. U - L
    BY <1>4
  <2> QED
    BY <1>5, <1>6, <1>7, <2>1
<1>9. t = Append(w, f)
  BY <1>4, <1>5, <1>8, SeqEqual
<1> QED
  BY <1>9 DEF t, w, b, EndsWith

(* A wrapped index and its successor differ. *)
LEMMA NextIdx ==
  ASSUME NEW q \in QueueValues, NEW x \in 0 .. IdxMod - 1
  PROVE  (x + 1) % IdxMod \in 0 .. IdxMod - 1 /\ (x + 1) % IdxMod # x
<1>1. IdxMod \in Nat \ {0} /\ IdxMod > 1
  BY IdxModType
<1>2. CASE x + 1 = IdxMod
  BY <1>1, <1>2
<1>3. CASE x + 1 < IdxMod
  BY <1>1, <1>3
<1> QED
  BY <1>1, <1>2, <1>3

(* A request is placed on a queue that has none, *)
LEMMA SubmitRequest ==
  ASSUME NEW q \in QueueValues, NoRequest(q), NEW n \in Nat \ {0}, CanAllocChain(q, n)
  PROVE  LET r == PushAvail(AllocChain(q, n), q.free_head)
         IN  r \in QueueValues /\ InRequest(r, n, q.free_head) /\ ~ HasUsed(r)
<1> DEFINE a == AllocChain(q, n)
           h == q.free_head
           r == PushAvail(a, h)
<1>1. PICK w : Linked(q, w, 0)
  BY DEF NoRequest
<1>2. /\ a \in QueueValues /\ a.size = q.size /\ SameRings(a, q)
      /\ Linked(a, w, n) /\ h = w[0]
  BY <1>1, AllocLinks
<1>3. h \in 0 .. a.size - 1
  BY <1>2, Fields
<1> HIDE DEF a, h
<1>4. /\ r \in QueueValues /\ SameLinks(r, a)
      /\ r.avail = [a.avail EXCEPT ![a.avail_idx % a.size] = h]
      /\ r.avail_idx = (a.avail_idx + 1) % IdxMod
      /\ r.used_idx = a.used_idx /\ r.last_used_idx = a.last_used_idx
      /\ r.seen = a.seen /\ r.owned = a.owned
  BY <1>2, <1>3, PushFields
<1> HIDE DEF r
<1>5. Linked(r, w, n)
  BY <1>2, <1>4, LinksKept
<1>6. a.avail_idx = a.seen /\ a.used_idx = a.seen /\ a.last_used_idx = a.used_idx /\ a.owned = {}
  BY <1>2 DEF NoRequest, AtRest, SameRings
<1>7. r.size = a.size /\ r.avail[a.seen % a.size] = h
  <2>1. a.seen \in Nat /\ a.avail \in [0 .. a.size - 1 -> 0 .. a.size - 1] /\ a.size \in Nat \ {0}
    BY <1>2, Fields
  <2>2. a.seen % a.size \in 0 .. a.size - 1
    BY <2>1, DivMod
  <2> QED
    BY <1>4, <1>6, <2>1, <2>2 DEF SameLinks
<1>8. Posted(r, h)
  BY <1>4, <1>6, <1>7 DEF Posted
<1>9. InRequest(r, n, h)
  BY <1>2, <1>5, <1>8, Zenon DEF InRequest
<1>10. ~ HasUsed(r)
  BY <1>4, <1>6 DEF HasUsed
<1> QED
  BY <1>4, <1>9, <1>10 DEF r, a, h

(* where there is always room when the queue is long enough; *)
LEMMA RoomForRequest ==
  ASSUME NEW q \in QueueValues, NoRequest(q), NEW n \in Nat \ {0}, n <= q.size
  PROVE  CanAllocChain(q, n)
<1>1. PICK w : Linked(q, w, 0)
  BY DEF NoRequest
<1>2. q.num_free = q.size - 0 /\ q.size \in Nat
  BY <1>1, Fields DEF Linked
<1> QED
  BY <1>2 DEF CanAllocChain

(* the device fetches it, *)
LEMMA FetchRequest ==
  ASSUME NEW q \in QueueValues, NEW n, NEW h, InRequest(q, n, h), DeviceSees(q)
  PROVE  /\ Fetch(q) \in QueueValues /\ InRequest(Fetch(q), n, h)
         /\ HasUsed(Fetch(q)) <=> HasUsed(q)
<1> DEFINE r == Fetch(q)
<1>1. /\ r \in QueueValues /\ SameLinks(r, q)
      /\ r.owned = q.owned \cup {q.avail[q.seen % q.size]}
      /\ r.seen = (q.seen + 1) % IdxMod
      /\ r.avail_idx = q.avail_idx /\ r.used_idx = q.used_idx
      /\ r.last_used_idx = q.last_used_idx
  BY FetchFields
<1> HIDE DEF r
<1>2. Posted(q, h)
  BY DEF InRequest, Held, Returned, DeviceSees
<1>3. Held(r, h)
  BY <1>1, <1>2 DEF Posted, Held
<1>4. PICK w : Linked(q, w, n) /\ h = w[0]
  BY DEF InRequest
<1>5. Linked(r, w, n)
  BY <1>1, <1>4, LinksKept
<1>6. InRequest(r, n, h)
  BY <1>3, <1>4, <1>5, Zenon DEF InRequest
<1>7. HasUsed(r) <=> HasUsed(q)
  BY <1>1 DEF HasUsed
<1> QED
  BY <1>1, <1>6, <1>7 DEF r

(* and returns it, *)
LEMMA ServeRequest ==
  ASSUME NEW q \in QueueValues, NEW n, NEW h, InRequest(q, n, h), NEW g \in q.owned
  PROVE  /\ Return(q, g) \in QueueValues /\ InRequest(Return(q, g), n, h)
         /\ ~ HasUsed(q) /\ HasUsed(Return(q, g))
<1> DEFINE r == Return(q, g)
<1>1. /\ r \in QueueValues /\ SameLinks(r, q)
      /\ r.owned = q.owned \ {g}
      /\ r.used_idx = (q.used_idx + 1) % IdxMod
      /\ r.avail_idx = q.avail_idx /\ r.seen = q.seen
      /\ r.last_used_idx = q.last_used_idx
  BY ReturnFields
<1> HIDE DEF r
<1>2. Held(q, h)
  BY DEF InRequest, Posted, Returned
<1>3. Returned(r)
  BY <1>1, <1>2 DEF Held, Returned
<1>4. PICK w : Linked(q, w, n) /\ h = w[0]
  BY DEF InRequest
<1>5. Linked(r, w, n)
  BY <1>1, <1>4, LinksKept
<1>6. InRequest(r, n, h)
  BY <1>3, <1>4, <1>5, Zenon DEF InRequest
<1>7. ~ HasUsed(q)
  BY <1>2 DEF HasUsed, Held
<1>8. HasUsed(r)
  <2>1. q.used_idx \in 0 .. IdxMod - 1
    BY Fields
  <2>2. (q.used_idx + 1) % IdxMod # q.used_idx
    BY <2>1, NextIdx
  <2> QED
    BY <1>1, <1>2, <2>2 DEF HasUsed, Held
<1> QED
  BY <1>1, <1>6, <1>7, <1>8 DEF r

(* and wait_used ends it. *)
LEMMA FinishRequest ==
  ASSUME NEW q \in QueueValues, NEW n \in Nat \ {0}, NEW h, InRequest(q, n, h), HasUsed(q)
  PROVE  FreeChain(PopUsed(q), h) \in QueueValues /\ NoRequest(FreeChain(PopUsed(q), h))
<1> DEFINE p == PopUsed(q)
<1>1. /\ p \in QueueValues /\ SameLinks(p, q)
      /\ p.last_used_idx = (q.last_used_idx + 1) % IdxMod
      /\ p.avail_idx = q.avail_idx /\ p.used_idx = q.used_idx
      /\ p.seen = q.seen /\ p.owned = q.owned
  BY PopFields
<1> HIDE DEF p
<1>2. Returned(q)
  BY DEF InRequest, Held, Posted, HasUsed
<1>3. PICK w : Linked(q, w, n) /\ h = w[0]
  BY DEF InRequest
<1>4. Linked(p, w, n)
  BY <1>1, <1>3, LinksKept
<1> DEFINE r == FreeChain(p, h)
<1>5. r \in QueueValues /\ SameRings(r, p) /\ \E u : Linked(r, u, 0)
  BY <1>1, <1>3, <1>4, FreeLinks
<1> HIDE DEF r
<1>6. AtRest(r)
  BY <1>1, <1>2, <1>5 DEF Returned, AtRest, SameRings
<1>7. NoRequest(r)
  BY <1>5, <1>6, Zenon DEF NoRequest
<1> QED
  BY <1>5, <1>7 DEF r, p

(* The order of the frames is kept when the device fetches a buffer, *)
LEMMA FetchInOrder ==
  ASSUME NEW q \in QueueValues, NEW bufs, NEW done, NEW all, InOrder(q, bufs, done, all), DeviceSees(q)
  PROVE  InOrder(Fetch(q), bufs, done, all)
<1>1. PICK L, U, S, A \in Nat : Ring(q, L, U, S, A) /\ done \o Waiting(q, bufs, L, U) = all
  BY DEF InOrder
<1> DEFINE r == Fetch(q)
           T == S + 1
<1>2. Ring(r, L, U, T, A)
  BY <1>1, RingFetch
<1>3. r.used = q.used /\ r.size = q.size
  BY FetchFields DEF SameLinks
<1> HIDE DEF r
<1>4. Waiting(r, bufs, L, U) = Waiting(q, bufs, L, U)
  BY <1>3 DEF Waiting
<1>5. T \in Nat
  OBVIOUS
<1> HIDE DEF T
<1>6. InOrder(r, bufs, done, all)
  BY <1>1, <1>2, <1>4, <1>5, Zenon DEF InOrder
<1> QED
  BY <1>6 DEF r

(* when recv takes a frame, *)
LEMMA RecvInOrder ==
  ASSUME NEW q \in QueueValues, NEW bufs \in [0 .. q.size - 1 -> Nat], NEW done \in Seq(Nat), NEW all,
         InOrder(q, bufs, done, all), HasUsed(q)
  PROVE  LET id == PoppedId(q)
             r  == PushAvail(PopUsed(q), id)
         IN  /\ r \in QueueValues /\ r.size = q.size /\ bufs[id] \in Nat
             /\ InOrder(r, bufs, Append(done, bufs[id]), all)
<1>1. PICK L, U, S, A \in Nat : Ring(q, L, U, S, A) /\ done \o Waiting(q, bufs, L, U) = all
  BY DEF InOrder
<1> DEFINE id == PoppedId(q)
           r == PushAvail(PopUsed(q), id)
           K == L + 1
           B == A + 1
<1>2. /\ id = q.used[L % q.size] /\ id \in 0 .. q.size - 1 /\ L < U
      /\ r \in QueueValues /\ r.size = q.size /\ r.used = q.used
      /\ Ring(r, K, U, S, B)
  BY <1>1, RingRecv
<1> HIDE DEF r, id
<1> DEFINE w == Waiting(q, bufs, L, U)
<1>3. w # <<>> /\ Head(w) = bufs[id] /\ Tail(w) = Waiting(r, bufs, K, U)
  <2>1. StartsWith(w, bufs[q.used[L % q.size]], Waiting(r, bufs, K, U))
    BY <1>2, WaitingHead DEF SameUsed
  <2> QED
    BY <1>2, <2>1 DEF StartsWith
<1>4. w \in Seq(Nat)
  <2>1. Waits(w, q, bufs, L, U)
    BY <1>2, WaitingSeq
  <2> QED
    BY <2>1 DEF Waits
<1> HIDE DEF w
<1>5. Append(done, Head(w)) \o Tail(w) = done \o w
  BY <1>3, <1>4, MoveHead
<1>6. K \in Nat /\ B \in Nat
  OBVIOUS
<1> HIDE DEF K, B
<1>7. Append(done, bufs[id]) \o Waiting(r, bufs, K, U) = all
  BY <1>1, <1>3, <1>5 DEF w
<1>8. InOrder(r, bufs, Append(done, bufs[id]), all)
  BY <1>1, <1>2, <1>6, <1>7, Zenon DEF InOrder
<1>9. bufs[id] \in Nat
  BY <1>2
<1> QED
  BY <1>2, <1>8, <1>9 DEF r, id

(* and when one arrives. *)
LEMMA ArriveInOrder ==
  ASSUME NEW q \in QueueValues, NEW bufs \in [0 .. q.size - 1 -> Nat], NEW done \in Seq(Nat), NEW all,
         InOrder(q, bufs, done, all), NEW h \in q.owned, NEW f \in Nat
  PROVE  /\ Return(q, h) \in QueueValues /\ Return(q, h).size = q.size
         /\ InOrder(Return(q, h), [bufs EXCEPT ![h] = f], done, Append(all, f))
<1>1. PICK L, U, S, A \in Nat : Ring(q, L, U, S, A) /\ done \o Waiting(q, bufs, L, U) = all
  BY DEF InOrder
<1> DEFINE r == Return(q, h)
           b == Put(bufs, h, f)
           V == U + 1
<1>2. r \in QueueValues /\ r.size = q.size
  BY ReturnFields DEF SameLinks
<1>3. Ring(r, L, V, S, A)
  BY <1>1, RingReturn
<1>4. r.used[U % q.size] = h
  BY <1>1, RingReturn
<1>5. Fills(r, q, L, U, h)
  <2>1. \A i \in L .. U - 1 : r.used[i % q.size] = q.used[i % q.size] /\ q.used[i % q.size] # h
    BY <1>1, RingReturn
  <2> QED
    BY <1>4, <2>1 DEF Fills
<1>6. h \in 0 .. q.size - 1 /\ L <= U
  BY <1>1, Fields DEF Ring
<1> HIDE DEF r
<1> DEFINE w == Waiting(q, bufs, L, U)
<1>7. Waiting(r, b, L, V) = Append(w, f)
  <2>1. EndsWith(Waiting(r, b, L, V), w, f)
    BY <1>2, <1>5, <1>6, WaitingAppend
  <2> QED
    BY <2>1 DEF EndsWith
<1>8. w \in Seq(Nat)
  <2>1. Waits(w, q, bufs, L, U)
    BY <1>6, WaitingSeq
  <2> QED
    BY <2>1 DEF Waits
<1> HIDE DEF w, b
<1>9. done \o Append(w, f) = Append(done \o w, f)
  BY <1>8, AppendConcat
<1>10. V \in Nat
  OBVIOUS
<1> HIDE DEF V
<1>11. done \o Waiting(r, b, L, V) = Append(all, f)
  BY <1>1, <1>7, <1>9 DEF w
<1>12. InOrder(r, b, done, Append(all, f))
  BY <1>1, <1>3, <1>10, <1>11, Zenon DEF InOrder
<1> QED
  BY <1>2, <1>12 DEF r, b, Put

-----------------------------------------------------------------------------
(* A queue after its set-up has no request, *)
LEMMA NewQueue ==
  ASSUME NEW n \in Sizes
  PROVE  New(n) \in QueueValues /\ NoRequest(New(n))
<1> DEFINE q == New(n)
           w == [i \in 0 .. n - 1 |-> i]
<1>1. n \in Nat /\ n > 0 /\ IdxMod \in Nat /\ n < IdxMod
  BY IdxModAssumption DEF Sizes
<1>2. q \in VQ(n)
  BY <1>1 DEF New, VQ
<1>3. q \in QueueValues
  BY <1>2, Zenon DEF QueueValues
<1>4. Perm(w, n)
  BY <1>1 DEF Perm
<1>5. /\ q.size = n /\ q.num_free = n /\ q.free_head = 0
      /\ \A i \in 0 .. n - 1 : q.more[i] = TRUE
      /\ \A i \in 0 .. n - 2 : q.next[i] = i + 1
  BY <1>1 DEF New
<1>6. w[0] = 0 /\ 0 \in 0 .. n /\ n - 0 = n /\ \A i \in 0 .. n - 1 : w[i] = i /\ i # 0 - 1
  BY <1>1
<1>7. AtRest(q)
  BY DEF New, AtRest
<1> HIDE DEF q, w
<1>8. \A i \in 0 .. n - 2 : q.next[w[i]] = w[i + 1]
  <2> TAKE i \in 0 .. n - 2
  <2>1. i \in 0 .. n - 1 /\ i + 1 \in 0 .. n - 1
    BY <1>1
  <2> QED
    BY <1>5, <1>6, <2>1
<1>9. \A i \in 0 .. n - 1 : q.more[w[i]] <=> i # 0 - 1
  BY <1>5, <1>6
<1>10. Linked(q, w, 0)
  BY <1>4, <1>5, <1>6, <1>8, <1>9 DEF Linked
<1>11. NoRequest(q)
  BY <1>7, <1>10, Zenon DEF NoRequest
<1> QED
  BY <1>3, <1>11 DEF q

-----------------------------------------------------------------------------
(* The descriptors w lists from a up to b. *)
Part(w, a, b) == {w[i] : i \in a .. b - 1}

(* A permutation splits what it lists in two. *)
LEMMA PermSplit ==
  ASSUME NEW s \in Nat, NEW n \in 0 .. s, NEW w, Perm(w, s)
  PROVE  /\ Part(w, n, s) \cap Part(w, 0, n) = {}
         /\ Part(w, n, s) \cup Part(w, 0, n) = 0 .. s - 1
<1>1. /\ w \in [0 .. s - 1 -> 0 .. s - 1]
      /\ \A i, j \in 0 .. s - 1 : w[i] = w[j] => i = j
      /\ \A x \in 0 .. s - 1 : \E i \in 0 .. s - 1 : w[i] = x
  BY Zenon DEF Perm
<1>2. \A i \in n .. s - 1, j \in 0 .. n - 1 : i \in 0 .. s - 1 /\ j \in 0 .. s - 1 /\ i # j
  OBVIOUS
<1>3. \A i \in 0 .. s - 1 : i \in n .. s - 1 \/ i \in 0 .. n - 1
  OBVIOUS
<1>4. (n .. s - 1) \subseteq 0 .. s - 1 /\ (0 .. n - 1) \subseteq 0 .. s - 1
  OBVIOUS
<1>5. Part(w, n, s) \cap Part(w, 0, n) = {}
  BY <1>1, <1>2 DEF Part
<1>6. Part(w, n, s) \subseteq 0 .. s - 1 /\ Part(w, 0, n) \subseteq 0 .. s - 1
  BY <1>1, <1>4 DEF Part
<1>7. ASSUME NEW x \in 0 .. s - 1 PROVE x \in Part(w, n, s) \cup Part(w, 0, n)
  <2>1. PICK i \in 0 .. s - 1 : w[i] = x
    BY <1>1
  <2>2. i \in n .. s - 1 \/ i \in 0 .. n - 1
    BY <1>3
  <2> QED
    BY <2>1, <2>2 DEF Part
<1> QED
  BY <1>5, <1>6, <1>7

(* What the links say of the chain and of the free list, once more. *)
LEMMA LinkedParts ==
  ASSUME NEW q \in QueueValues, NEW w, NEW n \in Nat, Linked(q, w, n)
  PROVE  LET free == {Walk(q, q.free_head, q.size)[i] : i \in 0 .. q.num_free - 1}
         IN  /\ n # 0 => ChainSet(q, w[0]) = Part(w, 0, n)
             /\ free = Part(w, n, q.size) /\ Cardinality(free) = q.num_free
<1>1. n # 0 => ChainSet(q, w[0]) = Part(w, 0, n)
  <2> SUFFICES ASSUME n # 0 PROVE ChainSet(q, w[0]) = {w[i] : i \in 0 .. n - 1}
    BY DEF Part
  <2>1. n \in Nat \ {0}
    OBVIOUS
  <2> QED
    BY <2>1, ChainOf
<1> DEFINE free == {Walk(q, q.free_head, q.size)[i] : i \in 0 .. q.num_free - 1}
<1>2. free = {w[i] : i \in n .. q.size - 1} /\ Cardinality(free) = q.num_free
  BY FreeListOf
<1> HIDE DEF free
<1>3. free = Part(w, n, q.size)
  BY <1>2 DEF Part
<1> QED
  BY <1>1, <1>2, <1>3 DEF free

(* the device has one available chain to fetch at most, *)
LEMMA AheadOf ==
  ASSUME NEW q \in QueueValues, NEW h
  PROVE  LET n == (q.avail_idx + IdxMod - q.seen) % IdxMod
         IN  /\ q.avail_idx = q.seen => n = 0
             /\ Posted(q, h) => n = 1
<1>1. q.seen \in 0 .. IdxMod - 1 /\ IdxMod \in Nat \ {0} /\ IdxMod > 1
  BY Fields, IdxModType
<1> DEFINE M == IdxMod
           x == q.seen
           y == x + 1
<1>2. x \in Nat /\ x % M = x /\ M \in Nat \ {0} /\ x <= x /\ x < x + M /\ y \in Nat /\ x <= y /\ y < x + M
      /\ x - x = 0 /\ y - x = 1
  BY <1>1
<1> HIDE DEF M, x, y
<1>3. ((x % M) + M - (x % M)) % M = x - x
  BY <1>2, WrappedDistance
<1>4. ((y % M) + M - (x % M)) % M = y - x
  BY <1>2, WrappedDistance
<1>5. (x + M - x) % M = 0 /\ ((y % M) + M - x) % M = 1
  BY <1>2, <1>3, <1>4
<1> QED
  BY <1>5 DEF M, x, y, Posted
=============================================================================
