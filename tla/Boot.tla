---------------------------------- MODULE Boot ----------------------------------
(***************************************************************************)
(* From firmware to shell.  The machine starts in the UEFI loader, or in    *)
(* the kernel with a device tree or a Multiboot2 block at hand; the         *)
(* trampolines (arch/*/boot.rs) turn what they get into the machine         *)
(* description, and kmain brings up the frame pool, the display and the     *)
(* virtio devices before the shell draws.                                   *)
(***************************************************************************)
EXTENDS UefiLoader, DeviceTree, Multiboot, VirtioProbe

CONSTANTS
  IMAGE,        \* where a loader other than UEFI puts the kernel: a region
  MAX_FRAMES

VARIABLES
  path,    \* "uefi", "dtb" or "multiboot"
  stage,   \* progress of the boot
  info,    \* BOOT_INFO
  pool     \* the frame pool: [base, frames]

P == INSTANCE Pmm WITH
  PAGE_SIZE <- EFI_PAGE_SIZE, MemoryMaps <- {}, KernelEnds <- {}, Addresses <- {},
  bitmap <- {}, base <- pool.base, num_frames <- pool.frames, next_hint <- 0, free_frames <- 0,
  bank <- None, kernel_end <- 0, held <- {}

laterstages == <<info, pool, displayvars, probevars>>
bootvars == <<path, stage, loadervars, dtvars, mbvars, laterstages>>

NoLoader ==
  /\ machine = None /\ mem = None /\ key = None /\ events = None /\ ram = None /\ painted = None
  /\ step = None /\ tries = None /\ fw_table = None /\ entry = None /\ map = None /\ handoff = None
NoTree ==
  /\ blob = None /\ tokens = None /\ cursor = None /\ walking = None /\ nesting = None
  /\ ctx = None /\ node = None /\ dtinfo = None
NoTags == mbi = None /\ cur = None /\ have_real_memory = None /\ tagging = None /\ bi = None

Init ==
  /\ \/ path = "uefi" /\ LoaderInit /\ NoTree /\ NoTags
     \/ path = "dtb" /\ TreeInit /\ NoLoader /\ NoTags
     \/ path = "multiboot" /\ MultibootInit /\ NoLoader /\ NoTree
  /\ stage = "firmware"
  /\ info = None /\ pool = None
  /\ monitors = <<>> /\ layers = <<>> /\ drawings = 0 /\ drawn = Nothing
  /\ ProbeInit

-----------------------------------------------------------------------------
Firmware(p) == stage = "firmware" /\ path = p /\ UNCHANGED <<path, stage, laterstages>>
Loading  == Firmware("uefi") /\ LoaderNext /\ UNCHANGED <<dtvars, mbvars>>
Parsing  == Firmware("dtb") /\ TreeNext /\ UNCHANGED <<loadervars, mbvars>>
Tagging  == Firmware("multiboot") /\ MultibootNext /\ UNCHANGED <<loadervars, dtvars>>

Aarch64 ==
  \/ path = "dtb"
  \/ path = "uefi" /\ machine.arch = "aarch64"

(* What the kernel makes of a hand-off block it does not accept: for the device *)
(* tree parser the block is a blob with the wrong magic.                        *)
Fallback == IF Aarch64 THEN qemu_virt_fallback ELSE qemu_q35_fallback

(* The trampolines and hal::init. *)
Trampoline ==
  /\ stage = "firmware"
  /\ \/ /\ step = "kernel"
        /\ info' = IF to_boot_info(handoff) = None THEN Fallback ELSE to_boot_info(handoff)
     \/ walking = "done" /\ info' = dtinfo
     \/ tagging = "done" /\ info' = bi
  /\ stage' = "mm"
  /\ UNCHANGED <<path, loadervars, dtvars, mbvars, pool, displayvars, probevars>>

Image ==
  IF path # "uefi" THEN IMAGE
  ELSE LET k == machine.kernel IN
       Region(load_min(k), Max({k.phdrs[i].paddr + k.phdrs[i].memsz : i \in Loaded(k)}) - load_min(k))

KernelEnd == Image.base + Image.size

(* mm::init: the pool lies in the largest bank, above the kernel. *)
MmInit ==
  /\ stage = "mm"
  /\ pool' = IF info.memory = <<>> THEN [base |-> 0, frames |-> 0]
             ELSE LET b == info.memory[CHOOSE i \in DOMAIN info.memory : P!IsLargest(info.memory, i)] IN
                  [base |-> P!PoolBase(b, KernelEnd), frames |-> P!PoolFrames(b, KernelEnd)]
  /\ stage' = "display"
  /\ UNCHANGED <<path, loadervars, dtvars, mbvars, info, displayvars, probevars>>

(* display::init, then the probe of drivers::init_late, which is for aarch64 only. *)
DisplayInit ==
  /\ stage = "display"
  /\ monitors' = <<FirstMonitor(info)>>
  /\ IF Aarch64 THEN stage' = "drivers" /\ ProbeStart
     ELSE stage' = "shell" /\ UNCHANGED probevars
  /\ UNCHANGED <<path, loadervars, dtvars, mbvars, info, pool, layers, drawings, drawn>>

InitLate ==
  /\ stage = "drivers"
  /\ IF ProbeDone THEN stage' = "shell" /\ UNCHANGED <<displayvars, probevars>>
     ELSE ProbeNext /\ UNCHANGED stage
  /\ UNCHANGED <<path, loadervars, dtvars, mbvars, info, pool>>

Shell ==
  /\ stage = "shell"
  /\ \/ DisplayNext /\ UNCHANGED probevars
     \/ CmdGpu
  /\ UNCHANGED <<path, stage, loadervars, dtvars, mbvars, info, pool>>

(* The loader stopped with an error, or a driver waits for a device that has no queue. *)
Stopped ==
  /\ step = "halted" \/ phase = "spin"
  /\ UNCHANGED bootvars

Next ==
  \/ Loading \/ Parsing \/ Tagging \/ Trampoline \/ MmInit \/ DisplayInit \/ InitLate \/ Shell
  \/ Stopped

-----------------------------------------------------------------------------
Extent(r) == r.base .. r.base + r.size - 1

(* The kernel accepts every block its own loader builds, and its frame pool never     *)
(* touches its image as long as a bank holds the image and a byte more, or none of    *)
(* it; after the UEFI loader all of the pool is memory the firmware had free.          *)
PoolClearOfImage ==
  pool # None =>
    LET frames == Extent(Region(pool.base, pool.frames * EFI_PAGE_SIZE))
        Apart(bank) == Extent(bank) \cap Extent(Image) = {}
        Within(bank) == bank.base <= Image.base /\ KernelEnd < bank.base + bank.size
    IN  /\ (\A bank \in Range(info.memory) : Apart(bank) \/ Within(bank)) => frames \cap Extent(Image) = {}
        /\ path = "uefi" =>
             /\ info = to_boot_info(handoff)
             /\ FreePages # {} => \A b \in frames : b \div EFI_PAGE_SIZE \in FreePages

Spec == Init /\ [][Next]_bootvars
=============================================================================
