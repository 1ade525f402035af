--------------------------------- MODULE BootInfo ---------------------------------
(***************************************************************************)
(* The machine description every boot path ends in (hal/boot_info.rs): the  *)
(* memory map, the fallback descriptions and the conversion of the UEFI     *)
(* hand-off block.  Register windows are represented by their base.         *)
(***************************************************************************)
EXTENDS Naturals, Sequences, SequencesExt

CONSTANTS
  MAX_MEMORY_REGIONS,
  VIRT_UART, VIRT_RAM,   \* QEMU virt: the PL011 and the default RAM bank
  Q35_UART, Q35_RAM,     \* QEMU q35: COM1 and the default RAM bank
  None                   \* Option::None

ASSUME RegionsAssumption == MAX_MEMORY_REGIONS \in Nat \ {0}

UEFI_HANDOFF_MAGIC   == "HYPUEFIH"
UEFI_HANDOFF_VERSION == 1

Region(base, size) == [base |-> base, size |-> size]

(* MemoryMap::push: empty banks and banks past the cap are ignored. *)
Push(map, r) ==
  IF Len(map) < MAX_MEMORY_REGIONS /\ r.size > 0 THEN Append(map, r) ELSE map

total_bytes(map) == FoldLeft(LAMBDA sum, r : sum + r.size, 0, map)

ConsoleSpec(kind, base) == [kind |-> kind, base |-> base]
IntcSpec(kind, primary, secondary) ==
  [kind |-> kind, primary |-> primary, secondary |-> secondary]

qemu_virt_fallback ==
  [console |-> ConsoleSpec("pl011", VIRT_UART), memory |-> <<VIRT_RAM>>,
   intc |-> IntcSpec("gicv2", "virt_dist", "virt_cpu"), timer_freq_hz |-> 0,
   framebuffer |-> None, fw_table_addr |-> 0]

qemu_q35_fallback ==
  [console |-> ConsoleSpec("ns16550", Q35_UART), memory |-> <<Q35_RAM>>,
   intc |-> IntcSpec("apic", "lapic", "ioapic"), timer_freq_hz |-> 0,
   framebuffer |-> None, fw_table_addr |-> 0]

-----------------------------------------------------------------------------
(* UefiHandoff: the block the UEFI loader fills in and the kernel reads.  Kinds and *)
(* formats travel as numbers; memory stands for the used part of the array.          *)
ConsoleKinds == <<"pl011", "ns16550", "bcm_mini">>
IntcKinds    == <<"gicv2", "gicv3", "apic", "pic8259">>
Formats      == <<"bgra", "rgba">>

Decodes(code, kinds) == code + 1 \in DOMAIN kinds

HandoffFramebuffer(h) ==
  IF h.framebuffer_present = 0 THEN None
  ELSE [base |-> h.fb.base, width |-> h.fb.width, height |-> h.fb.height,
        stride |-> h.fb.stride, bpp |-> h.fb.bpp, format |-> Formats[h.fb.format + 1]]

(* UefiHandoff::to_boot_info; None when the block is not one the kernel knows. *)
to_boot_info(h) ==
  IF \/ h.magic # UEFI_HANDOFF_MAGIC \/ h.version # UEFI_HANDOFF_VERSION
     \/ ~Decodes(h.console_kind, ConsoleKinds) \/ ~Decodes(h.intc_kind, IntcKinds)
     \/ h.framebuffer_present # 0 /\ ~Decodes(h.fb.format, Formats)
  THEN None
  ELSE [console |-> ConsoleSpec(ConsoleKinds[h.console_kind + 1], h.console_base),
        memory |-> FoldLeft(Push, <<>>, h.memory),
        intc |-> IntcSpec(IntcKinds[h.intc_kind + 1], h.intc_primary, h.intc_secondary),
        timer_freq_hz |-> h.timer_freq_hz,
        framebuffer |-> HandoffFramebuffer(h),
        fw_table_addr |-> h.fw_table_addr]
=============================================================================
