-------------------------------- MODULE DeviceTree --------------------------------
(***************************************************************************)
(* The flattened device tree parser (hal/dtb.rs), one step per token of the *)
(* structure block.  Node names are [base, unit] (serial@2), a property     *)
(* value is a sequence of 32-bit cells, a string or a number, as its name   *)
(* wants, and `compatible` is the driver its first string selects.          *)
(***************************************************************************)
EXTENDS Integers, BootInfo

CONSTANTS
  MAX_DEPTH,
  CELL,    \* 2^32, the weight of the high cell of a two-cell value
  Blobs    \* what x0 may point to: [addr, ok, tree, tail]

ASSUME TreeAssumption == MAX_DEPTH \in Nat /\ MAX_DEPTH >= 2 /\ CELL \in Nat \ {0}

VARIABLES
  blob,      \* the device tree
  tokens,    \* its structure block
  cursor,    \* index of the next token
  walking,   \* parse_or_fallback's progress
  nesting,   \* open nodes of the subtree being skipped
  ctx,       \* WalkCtx: depth, address_cells, size_cells, stdout_path, in_chosen
  node,      \* node_name, node_compatible, node_reg, node_clock, fb_props by depth
  dtinfo     \* the BootInfo under construction

dtvars == <<blob, tokens, cursor, walking, nesting, ctx, node, dtinfo>>

Depths == 0 .. MAX_DEPTH - 1
NewNode(name) ==
  [name |-> name, compatible |-> "", reg |-> None, clock |-> 0, fb |-> None]
Anonymous == [base |-> "", unit |-> 0]

RECURSIVE Flatten(_)
(* The structure block of a tree of [name, props, kids]: properties first. *)
Flatten(n) ==
  <<[t |-> "begin", name |-> n.name]>>
  \o [i \in DOMAIN n.props |-> [t |-> "prop", name |-> n.props[i][1], value |-> n.props[i][2]]]
  \o FlattenSeq([i \in DOMAIN n.kids |-> Flatten(n.kids[i])])
  \o <<[t |-> "end"]>>

TreeInit ==
  /\ blob \in Blobs
  /\ tokens = Flatten(blob.tree) \o blob.tail
  /\ cursor = 1
  /\ walking = "header"
  /\ nesting = 0
  /\ ctx = [depth |-> 0, address_cells |-> [d \in Depths |-> IF d = 0 THEN 2 ELSE 0],
            size_cells |-> [d \in Depths |-> IF d = 0 THEN 1 ELSE 0],
            stdout_path |-> None, in_chosen |-> FALSE]
  /\ node = [d \in Depths |-> NewNode(Anonymous)]
  /\ dtinfo = None

(* parse_or_fallback up to the walk. *)
Header ==
  /\ walking = "header"
  /\ dtinfo' = [qemu_virt_fallback EXCEPT !.fw_table_addr = blob.addr]
  /\ walking' = IF blob.addr = 0 \/ ~blob.ok THEN "done" ELSE "walk"
  /\ UNCHANGED <<blob, tokens, cursor, nesting, ctx, node>>

-----------------------------------------------------------------------------
Token(kind) ==
  /\ walking = "walk"
  /\ cursor <= Len(tokens)
  /\ tokens[cursor].t = kind
  /\ cursor' = cursor + 1

Unskipped == nesting = 0 /\ UNCHANGED nesting
TooDeep == ctx.depth + 1 >= MAX_DEPTH

\* Mutant: a new node keeps the properties of the last one at its depth.
BeginNodeStale ==
  /\ Token("begin") /\ Unskipped /\ ~TooDeep
  /\ LET d == ctx.depth + 1 IN
     /\ ctx' = [ctx EXCEPT !.depth = d, !.address_cells[d] = ctx.address_cells[d - 1],
                           !.size_cells[d] = ctx.size_cells[d - 1],
                           !.in_chosen = @ \/ tokens[cursor].name.base = "chosen"]
     /\ node' = [node EXCEPT ![d].name = tokens[cursor].name]
  /\ UNCHANGED <<blob, tokens, walking, dtinfo>>

BeginNode ==
  /\ Token("begin") /\ Unskipped /\ ~TooDeep
  /\ LET d == ctx.depth + 1 IN
     /\ ctx' = [ctx EXCEPT !.depth = d, !.address_cells[d] = ctx.address_cells[d - 1],
                           !.size_cells[d] = ctx.size_cells[d - 1],
                           !.in_chosen = @ \/ tokens[cursor].name.base = "chosen"]
     /\ node' = [node EXCEPT ![d] = NewNode(tokens[cursor].name)]
  /\ UNCHANGED <<blob, tokens, walking, dtinfo>>

(* A node below the deepest level is skipped with everything in it. *)
SkipBegin ==
  /\ Token("begin")
  /\ nesting > 0 \/ TooDeep
  /\ nesting' = nesting + 1
  /\ UNCHANGED <<blob, tokens, walking, ctx, node, dtinfo>>

SkipEnd ==
  /\ Token("end") /\ nesting > 0
  /\ nesting' = nesting - 1
  /\ UNCHANGED <<blob, tokens, walking, ctx, node, dtinfo>>

SkipOther ==
  /\ \/ Token("nop")
     \/ nesting > 0 /\ Token("prop")
  /\ UNCHANGED <<blob, tokens, walking, nesting, ctx, node, dtinfo>>

(* FDT_END, an unknown token or the end of the block ends the walk. *)
Stop ==
  /\ walking = "walk"
  /\ cursor <= Len(tokens) => tokens[cursor].t \in {"stop", "junk"}
  /\ walking' = "done"
  /\ UNCHANGED <<blob, tokens, cursor, nesting, ctx, node, dtinfo>>

-----------------------------------------------------------------------------
read_cells(cells, at, n) ==
  CASE n = 1 -> cells[at] [] n = 2 -> cells[at] * CELL + cells[at + 1] [] OTHER -> 0

(* "reg": the parent's cell counts apply; a value too short is ignored. *)
RegOf(d, value) ==
  LET parent == Max({d, 1}) - 1
      ac == Max({ctx.address_cells[parent], 1})
      sc == Max({ctx.size_cells[parent], 1})
  IN  IF Len(value) < ac + sc THEN node[d].reg
      ELSE Region(read_cells(value, 1, ac), read_cells(value, ac + 1, sc))

(* fb_set *)
FbSet(d, field, value) ==
  LET old == IF node[d].fb = None
             THEN [base |-> 0, width |-> 0, height |-> 0, stride |-> 0, bpp |-> 32, format |-> "bgra"]
             ELSE node[d].fb
  IN  [old EXCEPT ![field] = value]

RgbaNames == {"a8b8g8r8", "x8b8g8r8", "r8g8b8a8", "r8g8b8x8"}

(* handle_prop *)
Prop ==
  /\ Token("prop") /\ Unskipped
  /\ LET d == ctx.depth
         name  == tokens[cursor].name
         value == tokens[cursor].value
     IN  /\ ctx' =
              CASE name = "#address-cells" -> [ctx EXCEPT !.address_cells[d] = value]
                [] name = "#size-cells"    -> [ctx EXCEPT !.size_cells[d] = value]
                [] name = "stdout-path" /\ d >= 1 /\ ctx.in_chosen -> [ctx EXCEPT !.stdout_path = value]
                [] OTHER -> ctx
         /\ node' =
              CASE name = "compatible"      -> [node EXCEPT ![d].compatible = value]
                [] name = "reg"             -> [node EXCEPT ![d].reg = RegOf(d, value)]
                [] name = "clock-frequency" -> [node EXCEPT ![d].clock = value]
                [] name \in {"width", "height", "stride"} -> [node EXCEPT ![d].fb = FbSet(d, name, value)]
                [] name = "format" ->
                     [node EXCEPT ![d].fb =
                        FbSet(d, name, IF value \in RgbaNames THEN "rgba" ELSE "bgra")]
                [] OTHER -> node
  /\ UNCHANGED <<blob, tokens, walking, dtinfo>>

-----------------------------------------------------------------------------
UartKinds == {"pl011", "ns16550", "bcm_mini"}
GicKinds  == {"gicv2", "gicv3"}

(* path_matches_node, for bases of which none is part of another: the unit     *)
(* address is not compared, and the usual aliases stand for any node called    *)
(* serial.                                                                    *)
PathMatches(path, name) ==
  \/ path.base = name.base
  \/ path.base \in {"serial0", "serial1", "serial2"} /\ name.base = "serial"

AddBank(info, reg) ==
  [info EXCEPT !.memory = Push(IF @ = <<VIRT_RAM>> THEN <<>> ELSE @, reg)]

SetConsole(info, n) ==
  IF IF ctx.stdout_path # None THEN PathMatches(ctx.stdout_path, n.name)
     ELSE info.console = ConsoleSpec("pl011", VIRT_UART)
  THEN [info EXCEPT !.console = ConsoleSpec(n.compatible, n.reg.base)]
  ELSE info

SetFramebuffer(info, n) ==
  [info EXCEPT !.framebuffer =
     [n.fb EXCEPT !.base = n.reg.base,
                  !.stride = IF @ = 0 /\ n.fb.width # 0 THEN n.fb.width * (n.fb.bpp \div 8) ELSE @]]

(* act_on_node: what a closed node says of the machine.  A memory node is      *)
(* nothing else, and a register-less controller or UART is ignored.           *)
ActOnNode(info, n) ==
  LET memory == n.name.base = "memory"
      gic    == ~memory /\ n.compatible \in GicKinds
      timer  == ~memory /\ n.compatible = "timer" /\ n.clock # 0
      uart   == ~memory /\ n.compatible \in UartKinds
      fb     == /\ ~memory /\ n.fb # None
                /\ \/ n.compatible = "simple-framebuffer"
                   \/ ctx.in_chosen /\ n.name.base = "framebuffer" /\ ~gic /\ ~uart
  IN  CASE memory /\ n.reg # None -> AddBank(info, n.reg)
        [] gic /\ n.reg # None ->
             [info EXCEPT !.intc.kind = n.compatible, !.intc.primary = n.reg.base]
        [] timer -> [info EXCEPT !.timer_freq_hz = n.clock]
        [] uart /\ n.reg # None -> SetConsole(info, n)
        [] fb /\ ~timer /\ n.reg # None -> SetFramebuffer(info, n)
        [] OTHER -> info

EndNode ==
  /\ Token("end") /\ Unskipped
  /\ IF ctx.depth = 0
     THEN walking' = "done" /\ UNCHANGED <<ctx, dtinfo>>
     ELSE /\ dtinfo' = ActOnNode(dtinfo, node[ctx.depth])
          /\ ctx' = [ctx EXCEPT !.in_chosen = @ /\ node[ctx.depth].name.base # "chosen",
                                !.depth = @ - 1]
          /\ UNCHANGED walking
  /\ UNCHANGED <<blob, tokens, node>>

TreeNext ==
  \/ Header \/ BeginNode \/ SkipBegin \/ SkipEnd \/ SkipOther \/ Stop \/ Prop \/ EndNode

-----------------------------------------------------------------------------
RECURSIVE Closing(_, _, _, _, _)
(* The nodes of a tree above the depth limit in the order they close, each with   *)
(* what its own text says, read with its parent's cell counts.                    *)
Closing(n, depth, ac, sc, chosen) ==
  LET Has(p)  == \E i \in DOMAIN n.props : n.props[i][1] = p
      Get(p, default) ==
        IF Has(p) THEN n.props[CHOOSE i \in DOMAIN n.props : n.props[i][1] = p][2] ELSE default
      inside  == chosen \/ n.name.base = "chosen"
      cells   == Get("reg", <<>>)
      At(i, c) == IF c = 1 THEN cells[i] ELSE IF c = 2 THEN cells[i] * CELL + cells[i + 1] ELSE 0
      kids    == IF depth + 1 >= MAX_DEPTH THEN <<>>
                 ELSE [i \in DOMAIN n.kids |->
                         Closing(n.kids[i], depth + 1, Get("#address-cells", ac), Get("#size-cells", sc), inside)]
  IN  FlattenSeq(kids) \o
      <<[name |-> n.name, compatible |-> Get("compatible", ""), clock |-> Get("clock-frequency", 0),
         reg |-> IF Has("reg") /\ Len(cells) >= ac + sc THEN Region(At(1, ac), At(ac + 1, sc)) ELSE None,
         chosen |-> chosen, stdout |-> IF inside THEN Get("stdout-path", None) ELSE None,
         width |-> Get("width", 0), stride |-> Get("stride", Get("width", 0) * 4)]>>

(* When the walk of a well-formed tree ends, the description holds its memory   *)
(* nodes in document order (a first bank equal to the fallback's is lost when      *)
(* another memory node follows), the last interrupt controller and framebuffer,   *)
(* and the UART that stdout-path selects: of the UARTs that follow /chosen the last   *)
(* it matches, else the first UART that is not the fallback's.  Properties never  *)
(* leak between nodes, and a subtree too deep to track is skipped exactly.        *)
TreeReported ==
  walking = "done" /\ blob.addr # 0 /\ blob.ok =>
    LET all    == Closing(blob.tree, 1, 2, 1, FALSE)
        Pick(Test(_)) == SelectSeq(all, Test)
        banks  == Pick(LAMBDA n : n.name.base = "memory" /\ n.reg # None)
        sized  == SelectSeq(banks, LAMBDA n : n.reg.size > 0)
        kept   == IF sized # <<>> /\ sized[1].reg = VIRT_RAM /\ Last(banks).reg # VIRT_RAM
                  THEN Tail(sized) ELSE sized
        gics   == Pick(LAMBDA n : n.compatible \in GicKinds /\ n.reg # None)
        fbs    == Pick(LAMBDA n : /\ n.reg # None
                                  /\ \/ n.compatible = "simple-framebuffer"
                                     \/ n.chosen /\ n.name.base = "framebuffer")
        choice == SelectInSeq(all, LAMBDA n : n.stdout # None)
        IsUart(n) == n.compatible \in UartKinds /\ n.reg # None
        Known(i)  == choice # 0 /\ i > choice
        picked == {i \in DOMAIN all : Known(i) /\ IsUart(all[i]) /\ PathMatches(all[choice].stdout, all[i].name)}
        early  == {i \in DOMAIN all : /\ ~Known(i) /\ IsUart(all[i])
                                      /\ ConsoleSpec(all[i].compatible, all[i].reg.base)
                                           # ConsoleSpec("pl011", VIRT_UART)}
        Console(i) == ConsoleSpec(all[i].compatible, all[i].reg.base)
    IN  /\ dtinfo.memory =
             IF banks = <<>> THEN <<VIRT_RAM>>
             ELSE [i \in 1 .. Min({Len(kept), MAX_MEMORY_REGIONS}) |-> kept[i].reg]
        /\ dtinfo.console =
             IF picked # {} THEN Console(Max(picked))
             ELSE IF early # {} THEN Console(Min(early)) ELSE ConsoleSpec("pl011", VIRT_UART)
        /\ dtinfo.intc.kind = IF gics = <<>> THEN "gicv2" ELSE Last(gics).compatible
        /\ gics # <<>> => dtinfo.intc.primary = Last(gics).reg.base
        /\ fbs # <<>> => /\ dtinfo.framebuffer.base = Last(fbs).reg.base
                         /\ dtinfo.framebuffer.stride = Last(fbs).stride
=============================================================================
