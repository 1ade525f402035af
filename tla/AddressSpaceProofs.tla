-------------------------- MODULE AddressSpaceProofs --------------------------
(***************************************************************************)
(* Proofs about the frame allocator and the root tables taken from it, for  *)
(* any page size, RAM layout and set of address spaces.                     *)
(***************************************************************************)
EXTENDS AddressSpace, DataLemmas, FiniteSetTheorems

(* What the allocator's own fields satisfy between two calls. *)
PmmInv ==
  /\ base \in Nat /\ num_frames \in Nat /\ num_frames <= MAX_FRAMES
  /\ next_hint \in Nat /\ free_frames \in Int
  /\ num_frames > 0 => next_hint < num_frames
  /\ bitmap \subseteq Frames
  /\ FreeCountExact
  /\ HeldFramesMarked

RootInv == root \in [Spaces -> Nat] /\ RootsOwned

(* What init chose for good. *)
PoolInv ==
  /\ bank \in [base : Nat, size : Nat] /\ kernel_end \in Nat
  /\ base = PoolBase(bank, kernel_end)
  /\ num_frames = PoolFrames(bank, kernel_end)

(* The entries of an address space: aligned, inside the address range, and  *)
(* no two of them sharing an address.                                       *)
Entries ==
  {m \in [va : Nat, pa : Nat, len : Nat \ {0}] :
     Aligned(m.va) /\ Aligned(m.pa) /\ Aligned(m.len) /\ m.va + m.len < AddrLimit}

Disjoint(M) ==
  \A m, n \in M : RangesOverlap(m.va, m.va + m.len, n.va, n.va + n.len) => m = n

MapInv ==
  /\ mappings \in [Spaces -> SUBSET Entries]
  /\ \A s \in Spaces : Disjoint(mappings[s])

FrameInv == PmmInv /\ RootInv /\ PoolInv

IInv == FrameInv /\ MapInv

-----------------------------------------------------------------------------
(* Arithmetic of frame indices and addresses.                               *)

(* Distinct indices have distinct addresses. *)
LEMMA AddrInjective ==
  ASSUME base \in Nat, NEW i \in Nat, NEW j \in Nat, Addr(i) = Addr(j)
  PROVE  i = j
<1>1. i * PAGE_SIZE = j * PAGE_SIZE
  BY PageSizeAssumption DEF Addr
<1>2. ASSUME NEW a \in Nat, NEW b \in Nat, a < b PROVE a * PAGE_SIZE < b * PAGE_SIZE
  BY <1>2, PageSizeAssumption
<1>3. ~(i < j) /\ ~(j < i)
  BY <1>1, <1>2, PageSizeAssumption
<1> QED BY <1>3

(* An address free_frame accepts is the address of the index it computes. *)
LEMMA AddrOfOffset ==
  ASSUME base \in Nat, NEW addr \in Nat, addr >= base, (addr - base) % PAGE_SIZE = 0
  PROVE  (addr - base) \div PAGE_SIZE \in Nat /\ Addr((addr - base) \div PAGE_SIZE) = addr
  BY PageSizeAssumption DEF Addr

(* The pool is finite. *)
LEMMA FramesFinite ==
  ASSUME num_frames \in Nat
  PROVE  IsFiniteSet(Frames) /\ Cardinality(Frames) = num_frames /\ Frames \subseteq Nat
<1>1. CASE num_frames = 0
  BY <1>1, FS_EmptySet DEF Frames
<1>2. CASE num_frames # 0
  BY <1>2, FS_Interval DEF Frames
<1> QED BY <1>1, <1>2

(* A probe stays inside the bitmap. *)
LEMMA ProbeInFrames ==
  ASSUME num_frames \in Nat, next_hint \in Nat, NEW i \in Frames
  PROVE  Probe(i) \in Frames /\ (Probe(i) + 1) % num_frames \in Frames
  BY DEF Probe, Frames

(* Every clear bit is reached by some probe of the circular scan. *)
LEMMA ProbeReaches ==
  ASSUME num_frames \in Nat, next_hint \in Nat, next_hint < num_frames, NEW x \in Frames
  PROVE  \E i \in Frames : Probe(i) = x
<1>1. num_frames > 0 /\ x \in Nat /\ x < num_frames
  BY DEF Frames
<1>2. CASE next_hint <= x
  <2>1. x - next_hint \in Frames
    BY <1>1, <1>2 DEF Frames
  <2>2. Probe(x - next_hint) = x
    BY <1>1, <1>2 DEF Probe
  <2> QED BY <2>1, <2>2
<1>3. CASE x < next_hint
  <2> DEFINE i == x + num_frames - next_hint
  <2>1. i \in Frames
    BY <1>1, <1>3 DEF Frames
  <2>2. next_hint + i = x + num_frames
    BY <1>1, <1>3
  <2>3. (x + num_frames) % num_frames = x
    BY <1>1
  <2>4. Probe(i) = x
    BY <2>2, <2>3 DEF Probe
  <2> QED BY <2>1, <2>4
<1> QED BY <1>1, <1>2, <1>3

-----------------------------------------------------------------------------
(* alloc_frame hands out a frame nobody holds and preserves the invariant. *)
LEMMA AllocStep ==
  ASSUME PmmInv, NEW addr \in Nat, AllocFrame(addr)
  PROVE  PmmInv' /\ addr \notin held /\ held' = held \cup {addr}
<1> USE DEF PmmInv
<1>1. PICK i \in Frames : /\ FirstFree(i) /\ addr = Addr(Probe(i))
                          /\ bitmap' = bitmap \cup {Probe(i)}
                          /\ next_hint' = (Probe(i) + 1) % num_frames
  BY DEF AllocFrame
<1>2. /\ free_frames' = free_frames - 1 /\ held' = held \cup {addr}
      /\ base' = base /\ num_frames' = num_frames /\ Frames' = Frames
  BY DEF AllocFrame, Frames
<1>3. /\ Probe(i) \in Frames /\ next_hint' \in Frames /\ Probe(i) \notin bitmap
      /\ Frames \subseteq Nat /\ IsFiniteSet(bitmap) /\ num_frames > 0
  <2>1. IsFiniteSet(Frames) /\ Frames \subseteq Nat
    BY FramesFinite
  <2>2. IsFiniteSet(bitmap)
    BY <2>1, FS_Subset
  <2> QED BY <1>1, <2>1, <2>2, ProbeInFrames DEF FirstFree, Frames
<1>4. addr \notin held
  <2> SUFFICES ASSUME NEW j \in bitmap, Addr(j) = addr PROVE FALSE
    BY DEF HeldFramesMarked
  <2> QED BY <1>1, <1>3, AddrInjective
<1>5. FreeCountExact'
  <2>1. Cardinality(bitmap') = Cardinality(bitmap) + 1 /\ Cardinality(bitmap) \in Nat
    BY <1>1, <1>3, FS_AddElement, FS_CardinalityType
  <2> QED BY <1>2, <2>1 DEF FreeCountExact
<1>6. HeldFramesMarked'
  <2>1. \A j \in Nat : Addr(j)' = Addr(j)
    BY <1>2 DEF Addr
  <2>2. held' = {Addr(j) : j \in bitmap'}
    BY <1>1, <1>2 DEF HeldFramesMarked
  <2> QED BY <1>1, <1>3, <2>1, <2>2 DEF HeldFramesMarked
<1>7. bitmap' \subseteq Frames'
  BY <1>1, <1>2, <1>3
<1>8. next_hint' \in Nat /\ next_hint' < num_frames'
  BY <1>2, <1>3 DEF Frames
<1> QED BY <1>2, <1>4, <1>5, <1>6, <1>7, <1>8

(* free_frame takes back exactly the frame at addr. *)
LEMMA FreeStep ==
  ASSUME PmmInv, NEW addr \in Nat, FreeFrame(addr)
  PROVE  PmmInv' /\ held' = held \ {addr}
<1> USE DEF PmmInv
<1> DEFINE k == (addr - base) \div PAGE_SIZE
<1>1. /\ k \in bitmap /\ k \in Nat /\ Addr(k) = addr
  BY AddrOfOffset DEF FreeFrame, FreeIgnores
<1>2. /\ bitmap' = bitmap \ {k} /\ free_frames' = free_frames + 1 /\ held' = held \ {addr}
      /\ base' = base /\ num_frames' = num_frames /\ next_hint' = next_hint /\ Frames' = Frames
  BY DEF FreeFrame, Frames
<1> HIDE DEF k
<1>3. IsFiniteSet(bitmap) /\ Frames \subseteq Nat
  BY FramesFinite, FS_Subset
<1>4. FreeCountExact'
  <2>1. Cardinality(bitmap') = Cardinality(bitmap) - 1 /\ Cardinality(bitmap) \in Nat
    BY <1>1, <1>2, <1>3, FS_RemoveElement, FS_CardinalityType
  <2> QED BY <1>2, <2>1 DEF FreeCountExact
<1>5. HeldFramesMarked'
  <2>1. \A j \in Nat : Addr(j)' = Addr(j)
    BY <1>2 DEF Addr
  <2>2. \A j \in bitmap : Addr(j) = addr => j = k
    BY <1>1, <1>3, AddrInjective
  <2>3. held' = {Addr(j) : j \in bitmap'}
    BY <1>1, <1>2, <2>2 DEF HeldFramesMarked
  <2> QED BY <1>2, <1>3, <2>1, <2>3 DEF HeldFramesMarked
<1> QED BY <1>2, <1>4, <1>5

-----------------------------------------------------------------------------
(* The lookup of translate.                                                 *)

Below(M, va) == {m \in M : m.va <= va}
Nearest(M, va) == CHOOSE x \in Below(M, va) : \A y \in Below(M, va) : y.va <= x.va
Covers(m, va) == m.va <= va /\ va < m.va + m.len

(* A space with an entry at or below an address has a nearest one. *)
LEMMA NearestExists ==
  ASSUME NEW M, M \subseteq Entries, NEW va \in Nat, Below(M, va) # {}
  PROVE  Nearest(M, va) \in Below(M, va)
<1> DEFINE B == Below(M, va)
           T == {va - m.va : m \in B}
<1>1. \A m \in B : m.va \in Nat /\ m.va <= va
  BY DEF Below, Entries
<1>2. T \subseteq Nat /\ T # {}
  BY <1>1
<1>3. PICK x \in T : \A y \in T : x <= y
  BY <1>2, LeastNatural
<1>4. PICK m \in B : x = va - m.va
  BY <1>3
<1>5. \A y \in B : y.va <= m.va
  <2> TAKE y \in B
  <2>1. x <= va - y.va
    BY <1>3
  <2> QED
    BY <1>1, <1>4, <2>1
<1> QED
  BY <1>4, <1>5 DEF Nearest

(* The entry that covers an address is the nearest one at or below it,      *)
(* because no other can start between.                                      *)
LEMMA NearestCovers ==
  ASSUME NEW M, M \subseteq Entries, Disjoint(M), NEW va \in Nat, NEW m \in M, Covers(m, va)
  PROVE  Below(M, va) # {} /\ Nearest(M, va) = m
<1>1. m \in Below(M, va)
  BY DEF Below, Covers
<1>2. Nearest(M, va) \in Below(M, va)
  BY <1>1, NearestExists
<1>3. \A y \in M : y.va \in Nat /\ y.len \in Nat /\ y.len > 0
  BY DEF Entries
<1>4. \A y \in Below(M, va) : y.va <= m.va
  <2> SUFFICES ASSUME NEW y \in M, y.va <= va, m.va < y.va PROVE FALSE
    BY <1>3 DEF Below
  <2>1. RangesOverlap(m.va, m.va + m.len, y.va, y.va + y.len)
    BY <1>3 DEF RangesOverlap, Covers
  <2>2. m = y
    BY <2>1 DEF Disjoint
  <2> QED
    BY <1>3, <2>2
<1> DEFINE x == Nearest(M, va)
<1>5. x \in M /\ \A y \in Below(M, va) : y.va <= x.va
  BY <1>1, <1>2, <1>4 DEF Nearest, Below
<1> HIDE DEF x
<1>6. x.va = m.va
  <2>1. x \in Below(M, va)
    BY <1>2 DEF x
  <2> QED
    BY <1>1, <1>3, <1>4, <1>5, <2>1
<1>7. RangesOverlap(x.va, x.va + x.len, m.va, m.va + m.len)
  BY <1>3, <1>5, <1>6 DEF RangesOverlap
<1>8. x = m
  BY <1>5, <1>7 DEF Disjoint
<1> QED
  BY <1>1, <1>8 DEF x

(* What the lookup answers, in terms of the nearest entry. *)
Answer(M, va) ==
  IF Below(M, va) = {} \/ va - Nearest(M, va).va >= Nearest(M, va).len THEN None
  ELSE (Nearest(M, va).pa + (va - Nearest(M, va).va)) % AddrLimit

(* The lookup answers for exactly the covered addresses. *)
LEMMA Lookup ==
  ASSUME NEW M, M \subseteq Entries, Disjoint(M), NEW va \in Nat
  PROVE  /\ \A m \in M : Covers(m, va) => Answer(M, va) = (m.pa + (va - m.va)) % AddrLimit
         /\ (~ \E m \in M : Covers(m, va)) => Answer(M, va) = None
<1> DEFINE x == Nearest(M, va)
<1>2. Answer(M, va) = IF Below(M, va) = {} \/ va - x.va >= x.len THEN None
                      ELSE (x.pa + (va - x.va)) % AddrLimit
  BY DEF Answer
<1>3. \A m \in M : m.va \in Nat /\ m.len \in Nat
  BY DEF Entries
<1> HIDE DEF x
<1>4. ASSUME NEW m \in M, Covers(m, va) PROVE Answer(M, va) = (m.pa + (va - m.va)) % AddrLimit
  <2>1. Below(M, va) # {} /\ x = m
    BY <1>4, NearestCovers DEF x
  <2>2. ~(va - m.va >= m.len)
    BY <1>3, <1>4 DEF Covers
  <2> QED
    BY <1>2, <2>1, <2>2
<1>5. ASSUME ~ \E m \in M : Covers(m, va) PROVE Answer(M, va) = None
  <2>1. CASE Below(M, va) = {}
    BY <1>2, <2>1
  <2>2. CASE Below(M, va) # {}
    <3>1. x \in M /\ x.va <= va
      BY <2>2, NearestExists DEF x, Below
    <3>2. va - x.va >= x.len
      BY <1>3, <1>5, <3>1 DEF Covers
    <3> QED
      BY <1>2, <3>2
  <2> QED
    BY <2>1, <2>2
<1> QED
  BY <1>4, <1>5

(* translate is that lookup in the entries of its space. *)
LEMMA TranslateAnswers ==
  \A s, va : /\ Translate(s, va) = Answer(mappings[s], va)
             /\ Translate(s, va)' = Answer(mappings'[s], va)
BY DEF Translate, Answer, Below, Nearest

-----------------------------------------------------------------------------
(* RoundUp returns the next multiple of the page size. *)
LEMMA RoundUpBounds ==
  ASSUME NEW x \in Nat
  PROVE  RoundUp(x) \in Nat /\ RoundUp(x) >= x /\ RoundUp(x) % PAGE_SIZE = 0
<1> DEFINE q == (x + PAGE_SIZE - 1) \div PAGE_SIZE
<1>1. q \in Nat /\ q * PAGE_SIZE >= x
  BY PageSizeAssumption
<1>2. RoundUp(x) = q * PAGE_SIZE
  BY DEF RoundUp
<1> HIDE DEF q
<1>3. (q * PAGE_SIZE) % PAGE_SIZE = 0
  BY <1>1, PageSizeAssumption
<1> QED BY <1>1, <1>2, <1>3, PageSizeAssumption

(* The invariant holds when init returns. *)
LEMMA InitInv == Init => IInv
<1> SUFFICES ASSUME Init PROVE IInv
  OBVIOUS
<1> USE DEF Init, PmmInit
<1>1. bank \in [base : Nat, size : Nat] /\ kernel_end \in Nat
  <2>1. PICK m \in MemoryMaps, kend \in KernelEnds :
          /\ kernel_end = kend
          /\ \/ m = <<>> /\ bank = [base |-> 0, size |-> 0]
             \/ \E i \in 1 .. Len(m) : IsLargest(m, i) /\ bank = m[i]
    OBVIOUS
  <2>2. kernel_end \in Nat /\ m \in Seq([base : Nat, size : Nat \ {0}])
    BY <2>1, MemoryMapsAssumption
  <2>3. CASE bank = [base |-> 0, size |-> 0]
    BY <2>2, <2>3
  <2>4. CASE \E i \in 1 .. Len(m) : bank = m[i]
    <3>1. PICK i \in 1 .. Len(m) : bank = m[i]
      BY <2>4
    <3>2. m[i] \in [base : Nat, size : Nat \ {0}]
      <4> DEFINE R == [base : Nat, size : Nat \ {0}]
      <4>1. m \in Seq(R)
        BY <2>2
      <4> HIDE DEF R, Init, PmmInit
      <4>2. m[i] \in R
        BY <4>1
      <4> QED BY <4>2 DEF R
    <3> QED BY <2>2, <3>1, <3>2
  <2> QED BY <2>1, <2>3, <2>4
<1>2. base \in Nat
  <2>1. CASE kernel_end \in bank.base .. bank.base + bank.size - 1
    BY <1>1, <2>1, RoundUpBounds DEF PoolBase
  <2>2. CASE kernel_end \notin bank.base .. bank.base + bank.size - 1
    BY <1>1, <2>2, RoundUpBounds DEF PoolBase
  <2> QED BY <2>1, <2>2
<1>3. num_frames \in Nat /\ num_frames <= MAX_FRAMES
  <2> DEFINE end == bank.base + bank.size
  <2> DEFINE n == IF end > base THEN (end - base) \div PAGE_SIZE ELSE 0
  <2>1. n \in Nat
    <3>1. \A x \in Nat : x \div PAGE_SIZE \in Nat
      BY PageSizeAssumption
    <3>2. end \in Nat /\ (end > base => end - base \in Nat)
      BY <1>1, <1>2
    <3> QED BY <3>1, <3>2
  <2>2. num_frames = Min2(n, MAX_FRAMES)
    BY DEF PoolFrames
  <2> HIDE DEF n
  <2> QED BY <2>1, <2>2, MaxFramesAssumption DEF Min2
<1>4. FreeCountExact
  BY <1>3, FS_EmptySet DEF FreeCountExact
<1>5. HeldFramesMarked
  BY DEF HeldFramesMarked
<1>6. RootInv
  BY DEF RootInv, RootsOwned
<1>7. PmmInv
  BY <1>2, <1>3, <1>4, <1>5 DEF PmmInv
<1>8. PoolInv
  BY <1>1 DEF PoolInv
<1>9. MapInv
  BY DEF MapInv, Disjoint
<1> QED BY <1>6, <1>7, <1>8, <1>9 DEF IInv, FrameInv

(* Every step of callers and address spaces preserves what is said of the   *)
(* frames.                                                                  *)
LEMMA NextFrameInv == FrameInv /\ [Next]_vars => FrameInv'
<1> SUFFICES ASSUME FrameInv, [Next]_vars PROVE FrameInv'
  OBVIOUS
<1> USE DEF FrameInv
<1>a. \A idx \in Frames : Addr(idx) \in Nat
  BY PageSizeAssumption, FramesFinite DEF PmmInv, Addr
<1>1. ASSUME NEW s \in Spaces, NEW idx \in Frames, AllocFrame(Addr(idx)),
             root' = [root EXCEPT ![s] = Addr(idx)]
      PROVE  FrameInv'
  <2>1. PmmInv' /\ Addr(idx) \notin held /\ held' = held \cup {Addr(idx)}
    BY <1>1, <1>a, AllocStep
  <2>2. RootInv'
    BY <1>1, <1>a, <2>1 DEF RootInv, RootsOwned
  <2> QED BY <1>1, <2>1, <2>2 DEF PoolInv, AllocFrame
<1>2. ASSUME UNCHANGED <<pmmvars, root>> PROVE FrameInv'
  BY <1>2 DEF pmmvars, PmmInv, RootInv, RootsOwned, PoolInv, Frames, FreeCountExact, HeldFramesMarked, Addr
<1>3. ASSUME NEW s \in Spaces, NEW va, NEW pa, NEW len, Map(s, va, pa, len) PROVE FrameInv'
  BY <1>1, <1>2, <1>3 DEF Map, EnsureRoot
<1>4. ASSUME ClientAlloc PROVE FrameInv'
  <2>1. PICK idx \in Frames : AllocFrame(Addr(idx))
    BY <1>4 DEF ClientAlloc
  <2>2. PmmInv' /\ held' = held \cup {Addr(idx)} /\ root' = root
    BY <1>4, <1>a, <2>1, AllocStep DEF ClientAlloc, asvars
  <2> QED BY <2>1, <2>2 DEF RootInv, RootsOwned, PoolInv, AllocFrame
<1>5. ASSUME NEW addr \in Addresses, ClientFree(addr) PROVE FrameInv'
  <2>1. addr \in Nat /\ FreeFrame(addr) /\ root' = root /\ \A s \in Spaces : root[s] # addr
    BY <1>5, MemoryMapsAssumption DEF ClientFree, asvars
  <2>2. PmmInv' /\ held' = held \ {addr}
    BY <2>1, FreeStep
  <2> QED BY <2>1, <2>2 DEF RootInv, RootsOwned, PoolInv, FreeFrame
<1>6. ASSUME NEW s, NEW va, Unmap(s, va) PROVE FrameInv'
  BY <1>2, <1>6 DEF Unmap
<1>7. CASE UNCHANGED vars
  BY <1>2, <1>7 DEF vars, asvars
<1> QED BY <1>3, <1>4, <1>5, <1>6, <1>7 DEF Next

(* A mapping that map accepts joins entries it does not overlap. *)
LEMMA MapStep ==
  ASSUME MapInv, NEW s \in Spaces, NEW va \in MapVas, NEW pa \in MapPas, NEW len \in MapLens,
         Map(s, va, pa, len)
  PROVE  /\ MapInv'
         /\ \A u \in Spaces : \A m \in mappings[u] : m \in mappings'[u]
<1> DEFINE new == [va |-> va, pa |-> pa, len |-> RoundUp(len)]
<1>1. va \in Nat /\ pa \in Nat /\ len \in Nat /\ len # 0
  BY MapArgsAssumption DEF Map, MapAccepts
<1>2. RoundUp(len) \in Nat \ {0} /\ Aligned(RoundUp(len))
  BY <1>1, RoundUpBounds DEF Aligned
<1>3. /\ Aligned(va) /\ Aligned(pa) /\ va + RoundUp(len) < AddrLimit
      /\ \A m \in mappings[s] : ~ RangesOverlap(va, va + RoundUp(len), m.va, m.va + m.len)
      /\ mappings' = [mappings EXCEPT ![s] = {m \in @ : m.va # va} \cup {new}]
  BY DEF Map, MapAccepts
<1>4. new \in Entries
  BY <1>1, <1>2, <1>3 DEF Entries
<1>5. mappings[s] \subseteq Entries /\ Disjoint(mappings[s])
  BY DEF MapInv
<1>6. \A m \in mappings[s] : m.va \in Nat /\ m.len \in Nat /\ m.len > 0
  BY <1>5 DEF Entries
<1>7. \A m \in mappings[s] : m.va # va
  BY <1>1, <1>2, <1>3, <1>6 DEF RangesOverlap
<1>8. mappings' = [mappings EXCEPT ![s] = mappings[s] \cup {new}]
  BY <1>3, <1>7
<1>9. /\ new.va = va /\ new.len = RoundUp(len)
  OBVIOUS
<1> HIDE DEF new
<1>10. Disjoint(mappings[s] \cup {new})
  <2> SUFFICES ASSUME NEW m \in mappings[s] \cup {new}, NEW n \in mappings[s] \cup {new},
                      RangesOverlap(m.va, m.va + m.len, n.va, n.va + n.len)
               PROVE  m = n
    BY DEF Disjoint
  <2>1. CASE m \in mappings[s] /\ n \in mappings[s]
    BY <1>5, <2>1 DEF Disjoint
  <2>2. CASE m = new /\ n \in mappings[s]
    BY <1>3, <1>9, <2>2
  <2>3. CASE m \in mappings[s] /\ n = new
    BY <1>3, <1>9, <2>3 DEF RangesOverlap
  <2> QED
    BY <2>1, <2>2, <2>3
<1>11. \A u \in Spaces : mappings'[u] = IF u = s THEN mappings[s] \cup {new} ELSE mappings[u]
  BY <1>8 DEF MapInv
<1>12. mappings' \in [Spaces -> SUBSET Entries]
  BY <1>4, <1>8 DEF MapInv
<1> QED
  BY <1>10, <1>11, <1>12 DEF MapInv

(* unmap takes an entry away. *)
LEMMA UnmapStep ==
  ASSUME MapInv, NEW s \in Spaces, NEW va, Unmap(s, va)
  PROVE  MapInv' /\ \A u \in Spaces : mappings'[u] \subseteq mappings[u]
<1>1. mappings' = [mappings EXCEPT ![s] = {m \in mappings[s] : m.va # va}]
  BY DEF Unmap
<1>2. \A u \in Spaces : mappings'[u] \subseteq mappings[u]
  BY <1>1 DEF MapInv
<1>3. mappings' \in [Spaces -> SUBSET Entries]
  BY <1>1 DEF MapInv
<1> QED
  BY <1>2, <1>3 DEF MapInv, Disjoint

(* The other users of the allocator leave the entries alone. *)
LEMMA ClientStep ==
  ASSUME ClientAlloc \/ (\E addr \in Addresses : ClientFree(addr)) \/ UNCHANGED vars
  PROVE  mappings' = mappings
BY DEF ClientAlloc, ClientFree, vars, asvars

(* Every step preserves the invariant. *)
LEMMA NextInv == IInv /\ [Next]_vars => IInv'
<1> SUFFICES ASSUME IInv, [Next]_vars PROVE IInv'
  OBVIOUS
<1>1. FrameInv' /\ MapInv
  BY NextFrameInv DEF IInv
<1>2. ASSUME mappings' = mappings PROVE MapInv'
  BY <1>1, <1>2 DEF MapInv
<1>3. MapInv'
  BY <1>1, <1>2, MapStep, UnmapStep, ClientStep DEF Next
<1> QED
  BY <1>1, <1>3 DEF IInv

(* The allocator and the root tables satisfy their invariant in every       *)
(* reachable state.                                                         *)
THEOREM InductiveInvariant == Spec => []IInv
<1> QED BY InitInv, NextInv, PTL DEF Spec

(* FREE_FRAMES counts the clear bits. *)
THEOREM FreeCountCorrect == Spec => []FreeCountExact
<1>1. IInv => FreeCountExact
  BY DEF IInv, FrameInv, PmmInv
<1> QED BY <1>1, InductiveInvariant, PTL

(* No frame is handed out twice. *)
THEOREM NoDoubleAllocation == Spec => []HeldFramesMarked
<1>1. IInv => HeldFramesMarked
  BY DEF IInv, FrameInv, PmmInv
<1> QED BY <1>1, InductiveInvariant, PTL

(* Root tables are distinct frames that stay allocated. *)
THEOREM RootsStayOwned == Spec => []RootsOwned
<1>1. IInv => RootsOwned
  BY DEF IInv, FrameInv, RootInv
<1> QED BY <1>1, InductiveInvariant, PTL

(* alloc_frame fails exactly when every frame is in use. *)
THEOREM AllocComplete == Spec => []NoneOnlyWhenFull
<1>1. IInv => NoneOnlyWhenFull
  <2> SUFFICES ASSUME IInv PROVE NoneOnlyWhenFull
    OBVIOUS
  <2> USE DEF IInv, FrameInv, PmmInv
  <2>1. /\ IsFiniteSet(Frames) /\ Cardinality(Frames) = num_frames /\ Frames \subseteq Nat
        /\ IsFiniteSet(bitmap) /\ Cardinality(bitmap) \in Nat
    BY FramesFinite, FS_Subset, FS_CardinalityType
  <2>2. free_frames = 0 <=> bitmap = Frames
    <3>1. Cardinality(Frames) = Cardinality(bitmap) => Frames = bitmap
      BY <2>1, FS_Subset
    <3> QED BY <2>1, <3>1 DEF FreeCountExact
  <2>3. bitmap = Frames => AllocReturnsNone
    BY ProbeInFrames DEF AllocReturnsNone, FirstFree
  <2>4. ASSUME bitmap # Frames PROVE ~ AllocReturnsNone
    <3>1. PICK x \in Frames : x \notin bitmap
      BY <2>4
    <3>2. next_hint < num_frames
      BY <3>1 DEF Frames
    <3> DEFINE T == {i \in Frames : Probe(i) \notin bitmap}
    <3>3. T \subseteq Nat /\ T # {}
      BY <2>1, <3>1, <3>2, ProbeReaches
    <3>4. PICK i \in T : \A j \in T : i <= j
      BY <3>3, LeastNatural
    <3>5. \A j \in Frames : j < i => Probe(j) \in bitmap
      BY <2>1, <3>4
    <3> QED BY <3>4, <3>5 DEF AllocReturnsNone, FirstFree
  <2> QED BY <2>2, <2>3, <2>4 DEF NoneOnlyWhenFull
<1> QED BY <1>1, InductiveInvariant, PTL

(* Every frame of the pool is aligned RAM of the chosen bank past the       *)
(* kernel image.                                                            *)
THEOREM PoolSound == Spec => []PoolInsideBank
<1>1. IInv => PoolInsideBank
  <2> SUFFICES ASSUME IInv, NEW idx \in Frames
               PROVE  /\ Addr(idx) % PAGE_SIZE = 0
                      /\ Addr(idx) >= bank.base
                      /\ Addr(idx) + PAGE_SIZE <= bank.base + bank.size
                      /\ kernel_end \in bank.base .. bank.base + bank.size - 1 =>
                           Addr(idx) >= kernel_end
    BY DEF PoolInsideBank
  <2> USE DEF IInv, FrameInv, PmmInv, PoolInv
  <2> DEFINE end == bank.base + bank.size
  <2> DEFINE n == (end - base) \div PAGE_SIZE
  <2>1. idx \in Nat /\ idx < num_frames /\ bank.base \in Nat /\ end \in Nat
    BY DEF Frames
  <2>2. /\ base % PAGE_SIZE = 0 /\ base >= bank.base
        /\ kernel_end \in bank.base .. end - 1 => base >= kernel_end
    <3>1. CASE kernel_end \in bank.base .. end - 1
      BY <2>1, <3>1, RoundUpBounds DEF PoolBase
    <3>2. CASE kernel_end \notin bank.base .. end - 1
      BY <2>1, <3>2, RoundUpBounds DEF PoolBase
    <3> QED BY <3>1, <3>2
  <2>3. end > base /\ num_frames <= n
    BY <2>1, MaxFramesAssumption, PageSizeAssumption DEF PoolFrames, Min2
  <2>4. idx + 1 <= n /\ n \in Nat
    BY <2>1, <2>3, PageSizeAssumption
  <2>5. n * PAGE_SIZE <= end - base
    BY <2>1, <2>3, PageSizeAssumption
  <2> HIDE DEF n
  <2>6. (idx + 1) * PAGE_SIZE <= n * PAGE_SIZE
    BY <2>1, <2>4, PageSizeAssumption
  <2>7. (idx + 1) * PAGE_SIZE = idx * PAGE_SIZE + PAGE_SIZE /\ idx * PAGE_SIZE \in Nat
    BY <2>1, PageSizeAssumption
  <2>8. Addr(idx) >= base /\ Addr(idx) + PAGE_SIZE <= end
    BY <2>1, <2>5, <2>6, <2>7, <2>3, <2>4, PageSizeAssumption DEF Addr
  <2>9. Addr(idx) % PAGE_SIZE = 0
    <3> DEFINE q == base \div PAGE_SIZE
    <3>1. q \in Nat /\ base = q * PAGE_SIZE
      BY <2>2, PageSizeAssumption
    <3> HIDE DEF q
    <3>2. Addr(idx) = (q + idx) * PAGE_SIZE
      BY <2>1, <3>1, PageSizeAssumption DEF Addr
    <3>3. \A k \in Nat : (k * PAGE_SIZE) % PAGE_SIZE = 0
      BY PageSizeAssumption
    <3> QED BY <2>1, <3>1, <3>2, <3>3
  <2> QED BY <2>1, <2>2, <2>8, <2>9, <2>7, PageSizeAssumption DEF Addr
<1> QED BY <1>1, InductiveInvariant, PTL

(* Every mapping is page-aligned, non-empty and ends inside the address     *)
(* range, and the allocator's counters stay within the pool (vmm.rs map,    *)
(* pmm.rs alloc_frame, free_frame).                                         *)
THEOREM TypeCorrect == Spec => []TypeOK
<1>1. IInv => TypeOK
  <2> SUFFICES ASSUME IInv PROVE TypeOK
    OBVIOUS
  <2>1. PmmInv /\ root \in [Spaces -> Nat] /\ MapInv
    BY DEF IInv, FrameInv, RootInv
  <2>2. /\ base \in Nat /\ num_frames \in Nat /\ num_frames <= MAX_FRAMES
        /\ next_hint \in Nat /\ bitmap \subseteq Frames /\ HeldFramesMarked /\ FreeCountExact
    BY <2>1 DEF PmmInv
  <2>3. free_frames \in 0 .. num_frames
    <3>1. IsFiniteSet(Frames) /\ Cardinality(Frames) = num_frames
      BY <2>2, FramesFinite
    <3>2. Cardinality(bitmap) \in Nat /\ Cardinality(bitmap) <= num_frames
      BY <2>2, <3>1, FS_Subset, FS_CardinalityType
    <3> QED
      BY <2>2, <3>2 DEF FreeCountExact
  <2>4. held \subseteq Nat
    <3>1. \A idx \in bitmap : Addr(idx) \in Nat
      BY <2>2, FramesFinite, PageSizeAssumption DEF Addr
    <3> QED
      BY <2>2, <3>1 DEF HeldFramesMarked
  <2>5. PmmTypeOK
    BY <2>2, <2>3, <2>4, MaxFramesAssumption DEF PmmTypeOK
  <2>6. \A s \in Spaces : \A m \in mappings[s] :
          Aligned(m.va) /\ Aligned(m.pa) /\ Aligned(m.len) /\ m.va + m.len \in 1 .. AddrLimit - 1
    <3> SUFFICES ASSUME NEW s \in Spaces, NEW m \in mappings[s]
                 PROVE  Aligned(m.va) /\ Aligned(m.pa) /\ Aligned(m.len) /\ m.va + m.len \in 1 .. AddrLimit - 1
      OBVIOUS
    <3>1. m \in Entries
      BY <2>1 DEF MapInv
    <3> QED
      BY <3>1, AddrLimitAssumption DEF Entries
  <2> QED
    BY <2>1, <2>5, <2>6 DEF TypeOK
<1> QED BY <1>1, InductiveInvariant, PTL

(* translate answers for exactly the addresses some mapping covers: what    *)
(* map keeps disjoint, the nearest entry decides (vmm.rs map, translate).   *)
THEOREM TranslateCorrect == Spec => []TranslateAgrees
<1>1. IInv => TranslateAgrees
  <2> SUFFICES ASSUME IInv, NEW s \in Spaces, NEW va \in 0 .. AddrLimit - 1
               PROVE  LET covering == {m \in mappings[s] : m.va <= va /\ va < m.va + m.len}
                      IN  IF covering = {} THEN Translate(s, va) = None
                          ELSE \A m \in covering : Translate(s, va) = (m.pa + (va - m.va)) % AddrLimit
    BY DEF TranslateAgrees
  <2>1. /\ \A m \in mappings[s] :
             Covers(m, va) => Translate(s, va) = (m.pa + (va - m.va)) % AddrLimit
        /\ (~ \E m \in mappings[s] : Covers(m, va)) => Translate(s, va) = None
    <3>1. mappings[s] \subseteq Entries /\ Disjoint(mappings[s]) /\ va \in Nat
      BY AddrLimitAssumption DEF IInv, MapInv
    <3> QED
      BY <3>1, Lookup, TranslateAnswers
  <2> QED
    BY <2>1 DEF Covers
<1> QED BY <1>1, InductiveInvariant, PTL

(* An address that is translated keeps its physical address until an unmap  *)
(* takes it away (vmm.rs map, unmap).                                       *)
THEOREM NeverRedirected == Spec => TranslationNeverRedirected
<1> DEFINE Kept == \A s \in Spaces : \A va \in 0 .. AddrLimit - 1 :
                     Translate(s, va) # None => Translate(s, va)' \in {Translate(s, va), None}
<1>1. IInv /\ IInv' /\ [Next]_vars => [Kept]_vars
  <2> SUFFICES ASSUME IInv, IInv', Next, NEW s \in Spaces, NEW va \in 0 .. AddrLimit - 1,
                      Translate(s, va) # None
               PROVE  Translate(s, va)' \in {Translate(s, va), None}
    OBVIOUS
  <2> DEFINE M == mappings[s]
             N == mappings'[s]
  <2>1. MapInv /\ va \in Nat /\ M \subseteq Entries /\ Disjoint(M) /\ N \subseteq Entries /\ Disjoint(N)
    BY AddrLimitAssumption DEF IInv, MapInv
  <2>2. Translate(s, va) = Answer(M, va) /\ Translate(s, va)' = Answer(N, va)
    BY TranslateAnswers
  <2>3. PICK m \in M : Covers(m, va)
    BY <2>1, <2>2, Lookup
  <2>4. Answer(M, va) = (m.pa + (va - m.va)) % AddrLimit
    BY <2>1, <2>3, Lookup
  <2>5. (\A n \in M : n \in N) \/ N \subseteq M
    BY <2>1, MapStep, UnmapStep, ClientStep DEF Next
  <2> HIDE DEF M, N
  <2>6. CASE \A n \in M : n \in N
    BY <2>1, <2>2, <2>3, <2>4, <2>6, Lookup
  <2>7. CASE N \subseteq M
    <3>1. CASE \E n \in N : Covers(n, va)
      <4>1. PICK n \in N : Covers(n, va)
        BY <3>1
      <4>2. Answer(N, va) = (n.pa + (va - n.va)) % AddrLimit /\ n \in M
        BY <2>1, <2>7, <4>1, Lookup
      <4>3. Answer(M, va) = (n.pa + (va - n.va)) % AddrLimit
        BY <2>1, <4>1, <4>2, Lookup
      <4> QED
        BY <2>2, <4>2, <4>3
    <3>2. CASE ~ \E n \in N : Covers(n, va)
      BY <2>1, <2>2, <3>2, Lookup
    <3> QED
      BY <3>1, <3>2
  <2> QED
    BY <2>5, <2>6, <2>7
<1> QED BY <1>1, InductiveInvariant, PTL DEF Spec, TranslationNeverRedirected

=============================================================================
