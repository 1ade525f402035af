-------------------------------- MODULE UefiLoader --------------------------------
(***************************************************************************)
(* The UEFI application that loads the kernel (efi-stub/src/main.rs),       *)
(* running on firmware that keeps changing its memory map until boot        *)
(* services have ended.  Memory is a line of pages of EFI_PAGE_SIZE bytes;  *)
(* a byte holds 0, a byte of the embedded kernel file (named by its offset  *)
(* in the file, from 1), or Junk.  Addresses stay far below 2^64, so the    *)
(* saturating and checked additions are plain ones.                         *)
(***************************************************************************)
EXTENDS Integers, FiniteSets, BootInfo

CONSTANTS
  EFI_PAGE_SIZE,
  NumPages,       \* pages of the machine
  Machines,       \* builds and machines: [arch, kernel, mode, tables, mem, layout]
  FirmwarePages,  \* pages the firmware takes and gives back on its own
  MaxEvents       \* bound on those changes

Pages == 0 .. NumPages - 1
Bytes == 0 .. NumPages * EFI_PAGE_SIZE - 1
Junk  == -1

ASSUME LoaderAssumption ==
  /\ EFI_PAGE_SIZE \in Nat \ {0} /\ NumPages \in Nat \ {0} /\ MaxEvents \in Nat
  /\ FirmwarePages \subseteq Pages
  /\ \A m \in Machines : m.mode # None => m.mode.w >= 8 /\ m.mode.h >= 8

VARIABLES
  machine,           \* arch, kernel file, GOP mode, configuration tables, map layout
  mem, key, events,  \* the firmware's type of each page, the map's key, changes so far
  ram,               \* contents of memory
  painted,           \* framebuffer words the loader has written
  step, tries,       \* efi_main's progress, rounds of the exit loop
  fw_table, entry,   \* results of find_firmware_table and load_kernel_elf
  map,               \* the MemoryMapSnapshot in hand
  handoff            \* the EfiHandoff block

firmware   == <<mem, key, events>>
loadervars == <<machine, firmware, ram, painted, step, tries, fw_table, entry, map, handoff>>

LoaderInit ==
  /\ machine \in Machines
  /\ mem = machine.mem
  /\ key = 0 /\ events = 0
  /\ ram = [b \in Bytes |-> Junk]
  /\ painted = {}
  /\ step = "find_table" /\ tries = 0
  /\ fw_table = 0 /\ entry = None /\ map = None /\ handoff = None

-----------------------------------------------------------------------------
Preferred ==
  IF machine.arch = "aarch64" THEN <<"dtb", "acpi20", "acpi10">>
                              ELSE <<"acpi20", "acpi10", "dtb">>

(* find_firmware_table: by order of preference, then of the table. *)
FirmwareTable ==
  LET Has(g) == \E i \in DOMAIN machine.tables : machine.tables[i].guid = g
      known  == SelectSeq(Preferred, Has)
  IN  IF known = <<>> THEN 0
      ELSE machine.tables[SelectInSeq(machine.tables, LAMBDA t : t.guid = known[1])].addr

FindTable ==
  /\ step = "find_table"
  /\ fw_table' = FirmwareTable
  /\ step' = "locate_gop"
  /\ UNCHANGED <<machine, firmware, ram, painted, tries, entry, map, handoff>>

LocateGop ==
  /\ step = "locate_gop"
  /\ step' = IF machine.mode = None THEN "halted" ELSE "paint"
  /\ UNCHANGED <<machine, firmware, ram, painted, tries, fw_table, entry, map, handoff>>

(* The words paint_pattern writes: the visible pixels, among them the square. *)
PatternWords(m) ==
  LET side == Max({8, Min({m.w, m.h}) \div 10})
      cx   == m.w \div 2 - side \div 2
      cy   == m.h \div 2 - side \div 2
  IN  {y * m.ppsl + x : y \in 0 .. m.h - 1, x \in 0 .. m.w - 1}
      \cup {y * m.ppsl + x : y \in cy .. cy + side - 1, x \in cx .. cx + side - 1}

Paint ==
  /\ step = "paint"
  /\ painted' = IF machine.mode.base = 0 \/ machine.mode.size = 0 THEN {}
                ELSE PatternWords(machine.mode)
  /\ step' = "load_elf"
  /\ UNCHANGED <<machine, firmware, ram, tries, fw_table, entry, map, handoff>>

-----------------------------------------------------------------------------
align_down(a) == (a \div EFI_PAGE_SIZE) * EFI_PAGE_SIZE
align_up(a)   == align_down(a + EFI_PAGE_SIZE - 1)

Loaded(k) == {i \in DOMAIN k.phdrs : k.phdrs[i].type = "load" /\ k.phdrs[i].memsz # 0}

load_min(k) == Min({align_down(k.phdrs[i].paddr) : i \in Loaded(k)})
load_max(k) == Max({align_up(k.phdrs[i].paddr + k.phdrs[i].memsz) : i \in Loaded(k)})

ImagePages(k) == load_min(k) \div EFI_PAGE_SIZE .. load_max(k) \div EFI_PAGE_SIZE - 1

(* allocate_pages(EFI_ALLOCATE_ADDRESS) finds every page of the range free. *)
Allocatable(k) == \A p \in ImagePages(k) : p \in Pages /\ mem[p] = "conventional"

\* Mutant: memory keeps what it held where the file has no bytes.
CopySegmentsUnzeroed(k, good) ==
  FoldLeft(LAMBDA m, h : [b \in Bytes |->
             IF b \in h.paddr .. h.paddr + h.filesz - 1 THEN h.offset + (b - h.paddr) + 1 ELSE m[b]],
           ram, good)

(* The image area is cleared, then the file's part of each segment is copied. *)
CopySegments(k, good) ==
  FoldLeft(LAMBDA m, h : [b \in Bytes |->
             IF b \in h.paddr .. h.paddr + h.filesz - 1 THEN h.offset + (b - h.paddr) + 1 ELSE m[b]],
           [b \in Bytes |-> IF b \in load_min(k) .. load_max(k) - 1 THEN 0 ELSE ram[b]],
           good)

(* The second pass stops at the first segment that runs past the file. *)
LoadElf ==
  LET k      == machine.kernel
      used   == SelectSeq(k.phdrs, LAMBDA h : h.type = "load" /\ h.filesz # 0)
      bad    == {i \in DOMAIN used : used[i].offset + used[i].filesz > k.len}
      loads  == k.valid /\ Loaded(k) # {} /\ Allocatable(k)
  IN  /\ step = "load_elf"
      /\ IF loads
         THEN /\ mem' = [p \in Pages |-> IF p \in ImagePages(k) THEN "loader" ELSE mem[p]]
              /\ key' = key + 1
              /\ ram' = CopySegments(k, IF bad = {} THEN used ELSE SubSeq(used, 1, Min(bad) - 1))
         ELSE UNCHANGED <<mem, key, ram>>
      /\ IF loads /\ bad = {}
         THEN entry' = k.entry /\ step' = "get_map"
         ELSE entry' = None /\ step' = "halted"
      /\ UNCHANGED <<machine, events, painted, tries, fw_table, map, handoff>>

-----------------------------------------------------------------------------
(* The firmware lists its map as maximal runs or page by page, upwards or   *)
(* downwards.                                                              *)
Descriptors ==
  LET Starts == {p \in Pages : machine.layout # "runs" \/ p = 0 \/ mem[p] # mem[p - 1]}
      up     == SelectSeq([i \in 1 .. NumPages |-> i - 1], LAMBDA p : p \in Starts)
      EndOf(p) == Min({q \in Starts : q > p} \cup {NumPages})
      descs  == [i \in DOMAIN up |->
                   [type |-> mem[up[i]], base |-> up[i] * EFI_PAGE_SIZE, pages |-> EndOf(up[i]) - up[i]]]
  IN  IF machine.layout = "down" THEN Reverse(descs) ELSE descs

(* get_memory_map, which fails when the map does not fit its buffer. *)
GetMap ==
  /\ step = "get_map"
  /\ \/ map' = [key |-> key, descs |-> Descriptors] /\ step' = "build"
     \/ map' = None /\ step' = "halted"
  /\ UNCHANGED <<machine, firmware, ram, painted, tries, fw_table, entry, handoff>>

(* push_memory_region *)
PushRegion(regions, r) ==
  IF r.size = 0 THEN regions
  ELSE IF regions # <<>> /\ Last(regions).base + Last(regions).size = r.base
       THEN [regions EXCEPT ![Len(regions)].size = @ + r.size]
  ELSE IF Len(regions) < MAX_MEMORY_REGIONS THEN Append(regions, r) ELSE regions

FallbackRam == IF machine.arch = "aarch64" THEN VIRT_RAM ELSE Q35_RAM

Conventional(descs) ==
  FoldLeft(LAMBDA rs, d : IF d.type = "conventional"
                          THEN PushRegion(rs, Region(d.base, d.pages * EFI_PAGE_SIZE)) ELSE rs,
           <<>>, descs)

(* build_handoff *)
Handoff(descs) ==
  LET arm     == machine.arch = "aarch64"
      regions == Conventional(descs)
  IN  [magic |-> UEFI_HANDOFF_MAGIC, version |-> UEFI_HANDOFF_VERSION,
       console_kind |-> IF arm THEN 0 ELSE 1,
       console_base |-> IF arm THEN VIRT_UART ELSE Q35_UART,
       intc_kind |-> IF arm THEN 0 ELSE 2,
       intc_primary |-> IF arm THEN "virt_dist" ELSE "lapic",
       intc_secondary |-> IF arm THEN "virt_cpu" ELSE "ioapic",
       timer_freq_hz |-> 0,
       memory |-> IF regions = <<>> THEN <<FallbackRam>> ELSE regions,
       framebuffer_present |-> 1,
       fb |-> [base |-> machine.mode.base, size |-> machine.mode.size,
               width |-> machine.mode.w, height |-> machine.mode.h,
               stride |-> machine.mode.ppsl * 4, bpp |-> 32,
               format |-> IF machine.mode.format = "rgb" THEN 1 ELSE 0],
       fw_table_addr |-> fw_table]

\* Mutant: only the first round builds the block.
BuildOnce ==
  /\ step = "build"
  /\ handoff' = IF handoff = None THEN Handoff(map.descs) ELSE handoff
  /\ step' = "exit"
  /\ UNCHANGED <<machine, firmware, ram, painted, tries, fw_table, entry, map>>

Build ==
  /\ step = "build"
  /\ handoff' = Handoff(map.descs)
  /\ step' = "exit"
  /\ UNCHANGED <<machine, firmware, ram, painted, tries, fw_table, entry, map>>

(* The call in exit_boot_services: it succeeds when the key is current, and   *)
(* is tried three times with a fresh map each.                               *)
Exit ==
  /\ step = "exit"
  /\ tries' = tries + 1
  /\ step' = IF map.key = key THEN "jump" ELSE IF tries' < 3 THEN "get_map" ELSE "halted"
  /\ UNCHANGED <<machine, firmware, ram, painted, fw_table, entry, map, handoff>>

(* jump_to_kernel, with interrupts masked and the MMU off. *)
Jump ==
  /\ step = "jump"
  /\ step' = "kernel"
  /\ UNCHANGED <<machine, firmware, ram, painted, tries, fw_table, entry, map, handoff>>

(* Firmware takes or frees a page for itself: any time before boot services end.  *)
(* Changes before the kernel is loaded are covered by the choice of Machines.    *)
FirmwareEvent ==
  /\ step \in {"get_map", "build", "exit"}
  /\ events < MaxEvents
  /\ \E p \in FirmwarePages :
       \/ mem[p] = "conventional"  /\ mem' = [mem EXCEPT ![p] = "boot_services"]
       \/ mem[p] = "boot_services" /\ mem' = [mem EXCEPT ![p] = "conventional"]
  /\ key' = key + 1
  /\ events' = events + 1
  /\ UNCHANGED <<machine, ram, painted, step, tries, fw_table, entry, map, handoff>>

LoaderNext ==
  \/ FindTable \/ LocateGop \/ Paint \/ LoadElf \/ GetMap \/ Build \/ Exit \/ Jump
  \/ FirmwareEvent

-----------------------------------------------------------------------------
RegionPages(regions) ==
  UNION {{p \in Pages : r.base <= p * EFI_PAGE_SIZE /\ (p + 1) * EFI_PAGE_SIZE <= r.base + r.size} :
         r \in Range(regions)}

FreePages == {p \in Pages : mem[p] = "conventional"}

(* What the kernel is handed is memory the firmware had free when boot       *)
(* services ended, however often the map changed while the loader was        *)
(* reading it; free memory is left out only when the array is full.          *)
HandedMemoryFree ==
  step \in {"jump", "kernel"} /\ FreePages # {} =>
    /\ RegionPages(handoff.memory) \subseteq FreePages
    /\ RegionPages(handoff.memory) = FreePages \/ Len(handoff.memory) = MAX_MEMORY_REGIONS

(* The kernel is entered with each segment's file bytes in place and the     *)
(* rest of every segment cleared, in pages that are not handed out again;    *)
(* of the screen only visible pixels have been painted.                      *)
ImageComplete ==
  step \in {"jump", "kernel"} =>
    LET k == machine.kernel IN
    /\ \A w \in painted : w % machine.mode.ppsl < machine.mode.w /\ w \div machine.mode.ppsl < machine.mode.h
    /\ \A i \in Loaded(k) : \A j \in 0 .. k.phdrs[i].memsz - 1 :
      LET b == k.phdrs[i].paddr + j IN
      /\ ram[b] = IF j < k.phdrs[i].filesz THEN k.phdrs[i].offset + j + 1 ELSE 0
      /\ mem[b \div EFI_PAGE_SIZE] = "loader"
=============================================================================
