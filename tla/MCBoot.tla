---------------------------------- MODULE MCBoot ----------------------------------
(***************************************************************************)
(* Small machines for Boot: a memory of eight two-byte pages, device trees  *)
(* of up to three nodes below the root, blocks of up to three tags, two     *)
(* virtio slots, and screens of a few pixels.                               *)
(***************************************************************************)
EXTENDS Boot

MCVirtRam == Region(4, 8)
MCQ35Ram  == Region(2, 12)
MCImage   == Region(4, 5)

-----------------------------------------------------------------------------
(* UEFI: a kernel of two segments, the second with a cleared tail, and files the  *)
(* loader rejects.                                                                *)
Segment(type, paddr, memsz, offset, filesz) ==
  [type |-> type, paddr |-> paddr, memsz |-> memsz, offset |-> offset, filesz |-> filesz]
Kernel ==
  [valid |-> TRUE, len |-> 3, entry |-> 4,
   phdrs |-> <<Segment("load", 4, 2, 0, 2), Segment("note", 0, 0, 0, 1), Segment("load", 7, 3, 2, 1)>>]
Kernels == {Kernel, [Kernel EXCEPT !.valid = FALSE], [Kernel EXCEPT !.phdrs = <<>>], [Kernel EXCEPT !.len = 2]}

Mode == [base |-> 100, size |-> 400, w |-> 8, h |-> 9, ppsl |-> 10, format |-> "rgb"]
Tables == <<[guid |-> "acpi10", addr |-> 1], [guid |-> "dtb", addr |-> 2], [guid |-> "acpi20", addr |-> 3]>>
Free == [p \in Pages |-> "conventional"]
PageMaps ==
  {Free, [Free EXCEPT ![1] = "boot_services", ![6] = "reserved"], [Free EXCEPT ![3] = "reserved"],
   [p \in Pages |-> IF p \in 2 .. 4 THEN "conventional" ELSE "reserved"]}

Booting == [arch : {"aarch64", "x86_64"}, kernel : {Kernel}, mode : {Mode}, tables : {Tables},
            mem : PageMaps, layout : {"runs", "pages", "down"}]
Failing == [arch : {"x86_64"}, kernel : Kernels, mode : {None, [Mode EXCEPT !.size = 0, !.format = "bgr"]},
            tables : {<<>>, Tables}, mem : {Free}, layout : {"runs"}]
MCMachines == Booting \cup Failing

-----------------------------------------------------------------------------
(* Device trees: nodes of every kind the parser knows, in every order. *)
Node(name, unit, props, kids) ==
  [name |-> [base |-> name, unit |-> unit], props |-> props, kids |-> kids]
Peripheral(name, unit, driver, cells) ==
  Node(name, unit, <<<<"compatible", driver>>, <<"reg", cells>>>>, <<>>)
Nodes == {
  Node("memory", 1, <<<<"reg", <<0, 4, 8>>>>>>, <<>>),
  Node("memory", 2, <<<<"reg", <<1, 2, 3>>>>>>, <<>>),
  Node("memory", 3, <<<<"reg", <<0, 1, 0>>>>>>, <<>>),
  Node("chosen", 0, <<<<"stdout-path", [base |-> "serial", unit |-> 2]>>>>, <<>>),
  Node("chosen", 0, <<<<"stdout-path", [base |-> "serial0", unit |-> 0]>>>>,
       <<Node("framebuffer", 1, <<<<"reg", <<0, 9, 9>>>>, <<"width", 2>>, <<"height", 1>>, <<"stride", 12>>>>, <<>>)>>),
  Peripheral("pl011", 1, "pl011", <<0, VIRT_UART, 1>>),
  Peripheral("serial", 2, "ns16550", <<0, 7, 1>>),
  Peripheral("serial", 3, "bcm_mini", <<0, 8, 1>>),
  Node("serial", 5, <<<<"compatible", "ns16550">>>>, <<>>),
  Node("soc", 0, <<<<"#address-cells", 1>>, <<"#size-cells", 1>>>>,
       <<Node("bus", 0, <<<<"#size-cells", 2>>>>,
              <<Node("memory", 9, <<<<"reg", <<1, 1>>>>>>, <<Node("leaf", 0, <<>>, <<>>)>>)>>),
         Peripheral("uart", 4, "ns16550", <<9, 1>>)>>),
  Node("intc", 1, <<<<"compatible", "gicv3">>, <<"#address-cells", 1>>, <<"reg", <<0, 5, 1>>>>>>, <<>>),
  Node("timer", 1, <<<<"compatible", "timer">>, <<"clock-frequency", 3>>>>, <<>>),
  Node("framebuffer", 1, <<<<"compatible", "simple-framebuffer">>, <<"reg", <<0, 6, 4>>>>, <<"width", 2>>,
                           <<"height", 2>>, <<"format", "a8b8g8r8">>>>, <<>>)}
RootNode(kids) == Node("", 0, <<<<"#address-cells", 2>>, <<"#size-cells", 1>>>>, kids)
Distinct(s) == \A i, j \in DOMAIN s : i # j => s[i] # s[j]
Blob(tree, tail) == [addr |-> 1, ok |-> TRUE, tree |-> tree, tail |-> tail]
T(kind) == [t |-> kind]
MCBlobs ==
  {Blob(RootNode(kids), <<T("nop"), T("stop")>>) : kids \in {s \in SeqOf(Nodes, 3) : Distinct(s)}}
  \cup {Blob(RootNode(<<>>), tail) : tail \in {<<>>, <<T("junk")>>, <<T("end")>>}}
  \cup {[Blob(RootNode(<<>>), <<T("junk")>>) EXCEPT !.ok = FALSE, !.addr = a] : a \in {0, 1}}

-----------------------------------------------------------------------------
(* Multiboot2 blocks: tags of every kind, some of a length that is no multiple of 8. *)
Entry(base, size, available) == [base |-> base, size |-> size, available |-> available]
FbTag == [type |-> "fb", size |-> 38, fb_type |-> 1, bpp |-> 32, red_position |-> 16,
          addr |-> 100, width |-> 2, height |-> 2, pitch |-> 12]
Tags == {
  [type |-> "mmap", size |-> 64, entries |-> <<Entry(0, 1, FALSE), Entry(2, 10, TRUE)>>],
  [type |-> "mmap", size |-> 88, entries |-> <<Entry(0, 2, TRUE), Entry(4, 0, TRUE), Entry(4, 8, TRUE), Entry(13, 3, TRUE)>>],
  [type |-> "mmap", size |-> 16, entries |-> <<>>],
  [type |-> "basic", size |-> 16, lower |-> 1, upper |-> 3],
  [type |-> "basic", size |-> 16, lower |-> 0, upper |-> 0],
  FbTag, [FbTag EXCEPT !.red_position = 0], [FbTag EXCEPT !.fb_type = 2], [FbTag EXCEPT !.size = 21],
  [type |-> "rsdp", size |-> 28], [type |-> "systab", size |-> 16, table |-> 77],
  [type |-> "cmdline", size |-> 9], [type |-> "cmdline", size |-> 4]}
Block(tags) == [ptr |-> 1000, magic |-> TRUE, sane |-> TRUE, tags |-> tags]
EndTag == [type |-> "end", size |-> 8]
MCMultibootInfos ==
  {Block(Append(tags, EndTag)) : tags \in SeqOf(Tags, 3)} \cup {Block(<<>>)}
  \cup {[Block(<<EndTag>>) EXCEPT !.magic = FALSE], [Block(<<EndTag>>) EXCEPT !.sane = FALSE],
        [Block(<<EndTag>>) EXCEPT !.ptr = 0]}

-----------------------------------------------------------------------------
(* virtio slots: a device of each class, healthy, refusing, legacy or without a queue. *)
Disk == [magic |-> TRUE, id |-> "blk", version |-> 2, features |-> {"version_1", "other"}, max |-> 8,
         refuses |-> {}, mode |-> [width |-> 0, height |-> 0]]
Nic  == [Disk EXCEPT !.id = "net", !.max = 2]
Gpu  == [Disk EXCEPT !.id = "gpu", !.mode = [width |-> 4, height |-> 2]]
Devices ==
  {Disk, [Disk EXCEPT !.refuses = {"read"}], [Disk EXCEPT !.version = 3], [Disk EXCEPT !.version = 1],
   [Disk EXCEPT !.magic = FALSE], [Disk EXCEPT !.id = "console"], [Disk EXCEPT !.max = 0],
   Nic, [Nic EXCEPT !.version = 1], Gpu, [Gpu EXCEPT !.mode.width = 0, !.refuses = {"transfer"}],
   [Gpu EXCEPT !.version = 1]}
  \cup {[Gpu EXCEPT !.refuses = {c}] : c \in {"get_display_info", "set_scanout"}}
MCSlotSets == SeqOf(Devices, 2)
MCGpuDefault == [width |-> 3, height |-> 2]

-----------------------------------------------------------------------------
(* Drawing: every kind of call inside, across and outside the edges of a screen. *)
MCFont == [a |-> <<{0}, {1}>>]
MCVirtual == [width |-> 3, height |-> 2]
MCDemo == [x |-> 1, y |-> 0, w |-> 3, h |-> 2, tx |-> 1, ty |-> 1, text |-> <<"a", "?">>]
Red == <<200, 0, 10, 255>>
Rectangles == [op : {"fill", "stroke"}, x : {-2, 0, 1, 3}, y : {-1, 0, 1}, w : {0, 1, 3, 6}, h : {0, 1, 4}, c : {Red}]
Lines == [op : {"line"}, x : {-1, 0, 2}, y : {-1, 1}, x1 : {-2, 0, 3}, y1 : {0, 2, 4}, c : {Red}]
Texts == [op : {"text"}, x : {-1, 0, 2}, y : {-1, 0, 1}, text : {<<"a">>, <<"a", "?">>}, c : {Red}]
Button == [widget |-> "button", x |-> -5, y |-> 0, w |-> 7, h |-> 1, text |-> <<"a">>]
Label == [widget |-> "label", x |-> 2, y |-> 0, text |-> <<"a">>, c |-> Red]
Panel == [widget |-> "panel", x |-> 0, y |-> -1, w |-> 3, h |-> 3, c |-> Red, border |-> White,
          children |-> <<Button, Label>>]
MCDrawings ==
  {<<call>> : call \in Rectangles \cup Lines \cup Texts}
  \cup {Calls(w) : w \in {Button, Label, Panel, [Panel EXCEPT !.border = <<>>]}}

Sprite == [NewFramebuffer(2, 2, 3, "bgra") EXCEPT
             !.mem = [i \in DOMAIN @ |-> IF i = 1 THEN <<9, 9, 9, 0>> ELSE <<i, 2, 3, 4>>]]
MCLayers == {[fb |-> Sprite, x |-> -1, y |-> 0, z |-> 1], [fb |-> Sprite, x |-> 0, y |-> 1, z |-> 1],
             [fb |-> [Sprite EXCEPT !.height = 1], x |-> 1, y |-> 0, z |-> 0]}

(* A finished stage matters to the next one only through what it leaves behind. *)
View ==
  CASE stage \in {"firmware", "mm"} -> <<stage, path, loadervars, dtvars, mbvars, info>>
    [] stage = "display" -> <<stage, path, machine, mem, handoff, info, pool>>
    [] stage = "drivers" -> <<stage, probevars, monitors>>
    [] stage = "shell" ->
         <<stage, IF gpu_dev = None THEN None ELSE <<gpu_dev.monitor, slots[gpu_dev.slot].refuses>>,
           host, monitors, layers, drawings>>
=============================================================================
