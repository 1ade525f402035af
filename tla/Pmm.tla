---------------------------------- MODULE Pmm ----------------------------------
(***************************************************************************)
(* The physical frame allocator of mm/pmm.rs.  Every operation runs under   *)
(* the PMM lock and is one step.  The bitmap is the set of frame indices    *)
(* whose bit is set; sizes are scaled by PAGE_SIZE.                         *)
(***************************************************************************)
EXTENDS Naturals, FiniteSets, Sequences

CONSTANTS
  PAGE_SIZE,   \* bytes per frame
  MAX_FRAMES,  \* frames the bitmap can describe
  MemoryMaps,  \* RAM layouts the firmware may report: sequences of regions
  KernelEnds,  \* where the kernel image may end (__kernel_end)
  Addresses    \* what callers may pass to free_frame

ASSUME PageSizeAssumption == PAGE_SIZE \in Nat \ {0}
ASSUME MaxFramesAssumption == MAX_FRAMES \in Nat
ASSUME MemoryMapsAssumption ==
  /\ KernelEnds \subseteq Nat /\ Addresses \subseteq Nat
  /\ \A m \in MemoryMaps : m \in Seq([base : Nat, size : Nat \ {0}])

VARIABLES
  bitmap, base, num_frames, next_hint,  \* PmmInner
  free_frames,                          \* FREE_FRAMES
  bank, kernel_end,                     \* the bank init chose, __kernel_end
  held                                  \* frames handed to callers, not yet freed

pmmvars == <<bitmap, base, num_frames, next_hint, free_frames, bank, kernel_end, held>>

-----------------------------------------------------------------------------
(* MemoryMap::largest: max_by_key returns the last of several maxima. *)
IsLargest(m, i) ==
  /\ i \in 1 .. Len(m)
  /\ \A j \in 1 .. Len(m) : m[j].size <= m[i].size
  /\ \A j \in i + 1 .. Len(m) : m[j].size < m[i].size

RoundUp(x) == ((x + PAGE_SIZE - 1) \div PAGE_SIZE) * PAGE_SIZE

\* Mutant: the pool starts at the bank even when the kernel lies inside it.
PoolBaseAtBank(b, kend) == RoundUp(b.base)

PoolBase(b, kend) ==
  RoundUp(IF kend \in b.base .. b.base + b.size - 1 THEN kend ELSE b.base)

Min2(x, y) == IF x <= y THEN x ELSE y

PoolFrames(b, kend) ==
  LET end == b.base + b.size
      lo  == PoolBase(b, kend)
  IN  Min2(IF end > lo THEN (end - lo) \div PAGE_SIZE ELSE 0, MAX_FRAMES)

(* pmm::init; a machine without RAM banks leaves an empty pool. *)
PmmInit ==
  /\ \E m \in MemoryMaps : \E kend \in KernelEnds :
       /\ kernel_end = kend
       /\ \/ m = <<>> /\ bank = [base |-> 0, size |-> 0]
          \/ \E i \in 1 .. Len(m) : IsLargest(m, i) /\ bank = m[i]
  /\ base = PoolBase(bank, kernel_end)
  /\ num_frames = PoolFrames(bank, kernel_end)
  /\ next_hint = 0
  /\ bitmap = {}
  /\ free_frames = num_frames
  /\ held = {}

-----------------------------------------------------------------------------
Frames == IF num_frames = 0 THEN {} ELSE 0 .. num_frames - 1
Addr(idx) == base + idx * PAGE_SIZE

Probe(i) == (next_hint + i) % num_frames

\* Mutant: the probe loop stops one frame short.
FirstFreeShort(i) ==
  /\ i \in Frames \ {num_frames - 1}
  /\ Probe(i) \notin bitmap
  /\ \A j \in Frames : j < i => Probe(j) \in bitmap

(* The i-th probe of the scan from next_hint is the first to find a clear bit. *)
FirstFree(i) ==
  /\ i \in Frames
  /\ Probe(i) \notin bitmap
  /\ \A j \in Frames : j < i => Probe(j) \in bitmap

AllocReturnsNone == ~ \E i \in Frames : FirstFree(i)

\* Mutant: the bit of the frame that is handed out stays clear.
AllocFrameUnmarked(addr) ==
  /\ \E i \in Frames :
       /\ FirstFree(i)
       /\ addr = Addr(Probe(i))
       /\ next_hint' = (Probe(i) + 1) % num_frames
  /\ free_frames' = free_frames - 1
  /\ held' = held \cup {addr}
  /\ UNCHANGED <<bitmap, base, num_frames, bank, kernel_end>>

(* alloc_frame, when it returns the frame at addr. *)
AllocFrame(addr) ==
  /\ \E i \in Frames :
       /\ FirstFree(i)
       /\ addr = Addr(Probe(i))
       /\ bitmap' = bitmap \cup {Probe(i)}
       /\ next_hint' = (Probe(i) + 1) % num_frames
  /\ free_frames' = free_frames - 1
  /\ held' = held \cup {addr}
  /\ UNCHANGED <<base, num_frames, bank, kernel_end>>

(* The early returns of free_frame. *)
FreeIgnores(addr) ==
  \/ addr < base
  \/ (addr - base) % PAGE_SIZE # 0
  \/ (addr - base) \div PAGE_SIZE >= num_frames
  \/ (addr - base) \div PAGE_SIZE \notin bitmap

\* Mutant: a second free of the same frame is counted again.
FreeFrameUnchecked(addr) ==
  /\ addr >= base /\ (addr - base) % PAGE_SIZE = 0
  /\ (addr - base) \div PAGE_SIZE < num_frames
  /\ bitmap' = bitmap \ {(addr - base) \div PAGE_SIZE}
  /\ free_frames' = free_frames + 1
  /\ held' = held \ {addr}
  /\ UNCHANGED <<base, num_frames, next_hint, bank, kernel_end>>

(* free_frame *)
FreeFrame(addr) ==
  /\ ~ FreeIgnores(addr)
  /\ bitmap' = bitmap \ {(addr - base) \div PAGE_SIZE}
  /\ free_frames' = free_frames + 1
  /\ held' = held \ {addr}
  /\ UNCHANGED <<base, num_frames, next_hint, bank, kernel_end>>

(* Callers allocate, and free frames or addresses that are not frames. *)
PmmNext ==
  \/ \E idx \in Frames : AllocFrame(Addr(idx))
  \/ \E addr \in Addresses : FreeFrame(addr)

PmmSpec == PmmInit /\ [][PmmNext]_pmmvars

-----------------------------------------------------------------------------
PmmTypeOK ==
  /\ base \in Nat /\ num_frames \in 0 .. MAX_FRAMES
  /\ next_hint \in Nat /\ free_frames \in 0 .. num_frames
  /\ bitmap \subseteq Frames
  /\ held \subseteq Nat

(* FREE_FRAMES, kept in an atomic beside the bitmap, always counts the      *)
(* clear bits: frees of addresses the allocator never handed out, or handed *)
(* out and already took back, do not disturb it (pmm.rs:114-130).           *)
FreeCountExact == free_frames = num_frames - Cardinality(bitmap)

(* A caller is never handed a frame that another caller still holds: the    *)
(* set bits are exactly the frames in callers' hands.                       *)
HeldFramesMarked == held = {Addr(idx) : idx \in bitmap}

(* alloc_frame fails exactly when FREE_FRAMES is zero: wherever next_hint   *)
(* stands, the circular scan reaches every clear bit.                       *)
NoneOnlyWhenFull == AllocReturnsNone <=> free_frames = 0

(* Every frame of the pool is page-aligned RAM of the chosen bank, past the *)
(* end of a kernel image that ends inside the bank.                         *)
PoolInsideBank ==
  \A idx \in Frames :
    /\ Addr(idx) % PAGE_SIZE = 0
    /\ Addr(idx) >= bank.base
    /\ Addr(idx) + PAGE_SIZE <= bank.base + bank.size
    /\ kernel_end \in bank.base .. bank.base + bank.size - 1 => Addr(idx) >= kernel_end
=============================================================================
