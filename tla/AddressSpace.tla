----------------------------- MODULE AddressSpace -----------------------------
(***************************************************************************)
(* The per-process address spaces of mm/vmm.rs, over the frame allocator    *)
(* of module Pmm: the first successful map of a space takes a frame for its *)
(* root table.  A failing map changes nothing, so it is no step.            *)
(***************************************************************************)
EXTENDS Pmm

CONSTANTS
  Spaces,      \* processes
  AddrLimit,   \* 2^64, scaled
  MapVas, MapPas, MapLens,  \* arguments map is called with
  None

ASSUME AddrLimitAssumption == AddrLimit \in Nat /\ AddrLimit % PAGE_SIZE = 0
ASSUME MapArgsAssumption == MapVas \subseteq Nat /\ MapPas \subseteq Nat /\ MapLens \subseteq Nat

VARIABLES root, mappings

asvars == <<root, mappings>>
vars   == <<pmmvars, asvars>>

Init ==
  /\ PmmInit
  /\ root = [s \in Spaces |-> 0]
  /\ mappings = [s \in Spaces |-> {}]

Aligned(addr) == addr % PAGE_SIZE = 0

\* Mutant: only the start of the new range is tested.
RangesOverlapStart(a_start, a_end, b_start, b_end) ==
  b_start <= a_start /\ a_start < b_end

RangesOverlap(a_start, a_end, b_start, b_end) == a_start < b_end /\ b_start < a_end

(* The checks of map before it changes anything: normalise_len, the two     *)
(* ensure_page_aligned, checked_end and the overlap scan.                   *)
MapAccepts(s, va, pa, len) ==
  /\ len # 0
  /\ len + PAGE_SIZE - 1 < AddrLimit
  /\ Aligned(va) /\ Aligned(pa)
  /\ va + RoundUp(len) < AddrLimit
  /\ \A m \in mappings[s] : ~ RangesOverlap(va, va + RoundUp(len), m.va, m.va + m.len)

\* Mutant: the frame is recorded for every space of the machine.
EnsureRootShared(s) ==
  \/ root[s] # 0 /\ UNCHANGED <<pmmvars, root>>
  \/ \E idx \in Frames :
       /\ root[s] = 0
       /\ AllocFrame(Addr(idx))
       /\ root' = [u \in Spaces |-> Addr(idx)]

(* ensure_root: zero stands for "not materialised". *)
EnsureRoot(s) ==
  \/ root[s] # 0 /\ UNCHANGED <<pmmvars, root>>
  \/ \E idx \in Frames :
       /\ root[s] = 0
       /\ AllocFrame(Addr(idx))
       /\ root' = [root EXCEPT ![s] = Addr(idx)]

Map(s, va, pa, len) ==
  /\ MapAccepts(s, va, pa, len)
  /\ EnsureRoot(s)
  /\ mappings' = [mappings EXCEPT
       ![s] = {m \in @ : m.va # va} \cup {[va |-> va, pa |-> pa, len |-> RoundUp(len)]}]

Unmap(s, va) ==
  /\ \E m \in mappings[s] : m.va = va
  /\ mappings' = [mappings EXCEPT ![s] = {m \in @ : m.va # va}]
  /\ UNCHANGED <<pmmvars, root>>

(* The other users of the allocator never hold a root table. *)
ClientAlloc == (\E idx \in Frames : AllocFrame(Addr(idx))) /\ UNCHANGED asvars

ClientFree(addr) ==
  /\ \A s \in Spaces : root[s] # addr
  /\ FreeFrame(addr)
  /\ UNCHANGED asvars

Next ==
  \/ \E s \in Spaces : \E va \in MapVas :
       (\E pa \in MapPas : \E len \in MapLens : Map(s, va, pa, len)) \/ Unmap(s, va)
  \/ ClientAlloc
  \/ \E addr \in Addresses : ClientFree(addr)

Spec == Init /\ [][Next]_vars

\* Mutant: the offset is compared with <=.
TranslateInclusive(s, va) ==
  LET below == {m \in mappings[s] : m.va <= va}
      m     == CHOOSE x \in below : \A y \in below : y.va <= x.va
  IN  IF below = {} \/ va - m.va > m.len THEN None
      ELSE (m.pa + (va - m.va)) % AddrLimit

(* translate: the entry with the greatest key not above va, if va is in it. *)
Translate(s, va) ==
  LET below == {m \in mappings[s] : m.va <= va}
      m     == CHOOSE x \in below : \A y \in below : y.va <= x.va
  IN  IF below = {} \/ va - m.va >= m.len THEN None
      ELSE (m.pa + (va - m.va)) % AddrLimit

-----------------------------------------------------------------------------
TypeOK ==
  /\ PmmTypeOK
  /\ root \in [Spaces -> Nat]
  /\ \A s \in Spaces : \A m \in mappings[s] :
       Aligned(m.va) /\ Aligned(m.pa) /\ Aligned(m.len) /\ m.va + m.len \in 1 .. AddrLimit - 1

(* Every root table is a frame of its own that stays allocated, whatever    *)
(* the other users of the allocator allocate and free.                      *)
RootsOwned ==
  \A s \in Spaces : root[s] # 0 =>
    /\ root[s] \in held
    /\ \A u \in Spaces \ {s} : root[u] # root[s]

(* translate answers for exactly the addresses some mapping covers, and     *)
(* with that mapping's physical address: looking only at the nearest entry  *)
(* below is enough because map keeps the ranges disjoint.                   *)
TranslateAgrees ==
  \A s \in Spaces : \A va \in 0 .. AddrLimit - 1 :
    LET covering == {m \in mappings[s] : m.va <= va /\ va < m.va + m.len}
    IN  IF covering = {} THEN Translate(s, va) = None
        ELSE \A m \in covering : Translate(s, va) = (m.pa + (va - m.va)) % AddrLimit

(* No call redirects an address that is already translated: it keeps its    *)
(* physical address until an unmap takes it away.                           *)
TranslationNeverRedirected ==
  [][\A s \in Spaces : \A va \in 0 .. AddrLimit - 1 :
       Translate(s, va) # None => Translate(s, va)' \in {Translate(s, va), None}]_vars
=============================================================================
