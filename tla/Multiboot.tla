-------------------------------- MODULE Multiboot --------------------------------
(***************************************************************************)
(* The Multiboot2 information parser (hal/multiboot.rs), one step per tag.  *)
(* The boot loader lays the tags out 8-byte aligned from info.ptr + 8 on.   *)
(* What a tag says is a record; entries of a memory map are [base, size,    *)
(* available].                                                             *)
(***************************************************************************)
EXTENDS Integers, BootInfo

CONSTANTS
  KIB,        \* bytes per unit of the basic memory tag
  MultibootInfos   \* [ptr, magic, sane, tags]: the block EBX points to

VARIABLES
  mbi,                \* the information block
  cur,                \* address of the next tag
  have_real_memory,
  tagging,            \* parse_or_fallback's progress
  bi                  \* the BootInfo under construction

mbvars == <<mbi, cur, have_real_memory, tagging, bi>>

Align8(n) == ((n + 7) \div 8) * 8

AddrOf(i) == mbi.ptr + 8 + FoldLeft(LAMBDA sum, t : sum + Align8(t.size), 0, SubSeq(mbi.tags, 1, i - 1))
BlockEnd  == AddrOf(Len(mbi.tags) + 1)
Body(addr) == addr + 8
FB_TAG == 32   \* bytes of a framebuffer tag up to its colour layout

(* What the parser sees at an address: a tag, or bytes that make no tag. *)
TagAt(addr) ==
  IF \E i \in DOMAIN mbi.tags : AddrOf(i) = addr
  THEN mbi.tags[CHOOSE i \in DOMAIN mbi.tags : AddrOf(i) = addr]
  ELSE [type |-> "junk", size |-> 0]

MultibootInit ==
  /\ mbi \in MultibootInfos
  /\ cur = 0
  /\ have_real_memory = FALSE
  /\ tagging = "header"
  /\ bi = None

MbHeader ==
  /\ tagging = "header"
  /\ bi' = [qemu_q35_fallback EXCEPT !.fw_table_addr = mbi.ptr]
  /\ cur' = mbi.ptr + 8
  /\ tagging' = IF ~mbi.magic \/ mbi.ptr = 0 \/ ~mbi.sane THEN "done" ELSE "tags"
  /\ UNCHANGED <<mbi, have_real_memory>>

-----------------------------------------------------------------------------
\* Mutant: the size of a tag is taken as its distance to the next.
AdvanceUnaligned == cur' = cur + TagAt(cur).size

Advance == cur' = cur + Align8(TagAt(cur).size)

Tag(type) ==
  /\ tagging = "tags"
  /\ cur + 8 <= BlockEnd
  /\ TagAt(cur).type = type /\ TagAt(cur).size >= 8
  /\ Advance
  /\ UNCHANGED <<mbi, tagging>>

MapOf(regions) == FoldLeft(Push, <<>>, regions)

MemoryMapTag ==
  /\ Tag("mmap")
  /\ LET new == MapOf(SelectSeq(TagAt(cur).entries, LAMBDA e : e.available))
         regions == [i \in DOMAIN new |-> Region(new[i].base, new[i].size)]
     IN  IF total_bytes(regions) # 0
         THEN bi' = [bi EXCEPT !.memory = regions] /\ have_real_memory' = TRUE
         ELSE UNCHANGED <<bi, have_real_memory>>

BasicMemTag ==
  /\ Tag("basic")
  /\ LET new == MapOf(<<Region(0, TagAt(cur).lower * KIB), Region(Q35_RAM.base, TagAt(cur).upper * KIB)>>)
     IN  bi' = IF ~have_real_memory /\ total_bytes(new) # 0 THEN [bi EXCEPT !.memory = new] ELSE bi
  /\ UNCHANGED have_real_memory

(* Only direct colour with 32 bits per pixel is taken. *)
FramebufferTag ==
  /\ Tag("fb")
  /\ LET t == TagAt(cur) IN
     bi' = IF t.size >= FB_TAG /\ t.fb_type = 1 /\ t.bpp = 32
           THEN [bi EXCEPT !.framebuffer =
                   [base |-> t.addr, width |-> t.width, height |-> t.height, stride |-> t.pitch,
                    bpp |-> t.bpp, format |-> IF t.red_position >= 16 THEN "bgra" ELSE "rgba"]]
           ELSE bi
  /\ UNCHANGED have_real_memory

RsdpTag ==
  /\ Tag("rsdp")
  /\ bi' = [bi EXCEPT !.fw_table_addr = Body(cur)]
  /\ UNCHANGED have_real_memory

SystabTag ==
  /\ Tag("systab")
  /\ bi' = IF bi.fw_table_addr = mbi.ptr THEN [bi EXCEPT !.fw_table_addr = TagAt(cur).table] ELSE bi
  /\ UNCHANGED have_real_memory

OtherTag == Tag("cmdline") /\ UNCHANGED <<bi, have_real_memory>>

(* The end tag, a tag too small to be one, or the end of the block. *)
LastTag ==
  /\ tagging = "tags"
  /\ cur + 8 > BlockEnd \/ TagAt(cur).type = "end" \/ TagAt(cur).size < 8
  /\ tagging' = "done"
  /\ UNCHANGED <<mbi, cur, have_real_memory, bi>>

MultibootNext ==
  \/ MbHeader \/ MemoryMapTag \/ BasicMemTag \/ FramebufferTag \/ RsdpTag \/ SystabTag
  \/ OtherTag \/ LastTag

-----------------------------------------------------------------------------
(* Whatever the order of the tags, a memory map that names RAM is preferred to  *)
(* the coarse figures and these to the fallback, an RSDP to the EFI system      *)
(* table, and no tag after a tag of odd length is missed, up to one too short    *)
(* to be a tag.                                                                 *)
TagsReported ==
  tagging = "done" /\ mbi.magic /\ mbi.sane /\ mbi.ptr # 0 =>
    LET Tags(type) == {i \in DOMAIN mbi.tags :
                         mbi.tags[i].type = type /\ \A j \in 1 .. i : mbi.tags[j].size >= 8}
        Ram(i) == LET s == SelectSeq(mbi.tags[i].entries, LAMBDA e : e.available /\ e.size > 0)
                  IN  [j \in DOMAIN s |-> Region(s[j].base, s[j].size)]
        maps   == {i \in Tags("mmap") : Ram(i) # <<>>}
        basics == {i \in Tags("basic") : mbi.tags[i].lower + mbi.tags[i].upper > 0}
        Known(i) == {r \in {Region(0, mbi.tags[i].lower * KIB), Region(Q35_RAM.base, mbi.tags[i].upper * KIB)} : r.size > 0}
        Cap(s) == SubSeq(s, 1, Min({Len(s), MAX_MEMORY_REGIONS}))
    IN  /\ maps # {} => bi.memory = Cap(Ram(Max(maps)))
        /\ maps = {} /\ basics # {} => Range(bi.memory) = Known(Max(basics))
        /\ maps = {} /\ basics = {} => bi.memory = <<Q35_RAM>>
        /\ bi.fw_table_addr =
             IF Tags("rsdp") # {} THEN Body(AddrOf(Max(Tags("rsdp"))))
             ELSE IF Tags("systab") # {} THEN mbi.tags[Min(Tags("systab"))].table ELSE mbi.ptr
        /\ (\E i \in Tags("fb") : mbi.tags[i].size >= FB_TAG /\ mbi.tags[i].fb_type = 1 /\ mbi.tags[i].bpp = 32)
             <=> bi.framebuffer # None
=============================================================================
