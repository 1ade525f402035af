--------------------------------- MODULE Display ---------------------------------
(***************************************************************************)
(* The display manager (display/mod.rs, display/monitor.rs), the stacking   *)
(* compositor (display/compositor.rs) and what the shell draws.  A monitor  *)
(* holds its framebuffer under its own lock, so one drawing call, or one    *)
(* composition, is one step.                                                *)
(***************************************************************************)
EXTENDS Framebuffer, BootInfo

CONSTANTS
  VIRTUAL,    \* size of the monitor of a machine without a framebuffer
  DEMO,       \* where the demo command puts its box: [x, y, w, h, tx, ty, text]
  Drawings,   \* what a program may draw in one go: sequences of Canvas calls
  Layers,     \* layers a program may push: [fb, x, y, z]
  MaxLayers,
  MaxDrawings

VARIABLES
  monitors,   \* MONITORS: [kind, fb], the identity being the place in the list
  layers,     \* layers of a compositor for the first monitor
  drawings,   \* drawings so far
  drawn       \* what the last step drew: [monitor, calls], or [monitor, layers]

displayvars == <<monitors, layers, drawings, drawn>>

Background == <<16, 24, 36, 255>>
Nothing == [monitor |-> 0]

Monitor(kind, fb) == [kind |-> kind, fb |-> fb]

(* display::init: the firmware's framebuffer, or one on the heap.  HAL strides  *)
(* are in bytes.                                                               *)
FirstMonitor(info) ==
  IF info.framebuffer = None
  THEN Monitor("virtual", NewFramebuffer(VIRTUAL.width, VIRTUAL.height, VIRTUAL.width, "bgra"))
  ELSE Monitor("physical", LET f == info.framebuffer IN
                           NewFramebuffer(f.width, f.height, f.stride \div 4, f.format))

DrawOn(m, calls) ==
  /\ drawings < MaxDrawings
  /\ drawings' = drawings + 1
  /\ monitors' = [monitors EXCEPT ![m].fb = FoldLeft(Draw, @, calls)]
  /\ drawn' = [monitor |-> m, calls |-> calls]
  /\ UNCHANGED layers

(* A program draws on a monitor it looked up. *)
DrawCalls == \E m \in DOMAIN monitors, calls \in Drawings : DrawOn(m, calls)

(* cmd_demo *)
CmdDemo ==
  LET fb == monitors[1].fb IN
  DrawOn(1, <<[op |-> "clear", c |-> Background],
              [op |-> "fill", x |-> DEMO.x, y |-> DEMO.y, w |-> DEMO.w, h |-> DEMO.h, c |-> <<51, 85, 204, 255>>],
              [op |-> "stroke", x |-> DEMO.x, y |-> DEMO.y, w |-> DEMO.w, h |-> DEMO.h, c |-> White],
              [op |-> "text", x |-> DEMO.tx, y |-> DEMO.ty, text |-> DEMO.text, c |-> White],
              [op |-> "line", x |-> 0, y |-> 0, x1 |-> fb.width - 1, y1 |-> fb.height - 1,
               c |-> <<255, 68, 68, 255>>]>>)

-----------------------------------------------------------------------------
PushLayer ==
  /\ Len(layers) < MaxLayers
  /\ \E l \in Layers : layers' = Append(layers, l)
  /\ drawn' = Nothing
  /\ UNCHANGED <<monitors, drawings>>

ClearLayers ==
  /\ layers # <<>>
  /\ layers' = <<>>
  /\ drawn' = Nothing
  /\ UNCHANGED <<monitors, drawings>>

(* sort_by_key(z), which is stable. *)
ByHeight(stack) ==
  FoldLeft(LAMBDA s, l : InsertAt(s, Len(SelectSeq(s, LAMBDA k : k.z <= l.z)) + 1, l), <<>>, stack)

(* blit: the opaque pixels of a layer that fall on the screen, byte for byte. *)
blit(dst, l) ==
  LET src == l.fb
      shown == {p \in (0 .. src.width - 1) \X (0 .. src.height - 1) :
                  /\ l.x + p[1] \in 0 .. dst.width - 1 /\ l.y + p[2] \in 0 .. dst.height - 1
                  /\ src.mem[p[2] * src.stride + p[1]][4] # 0}
      At(p) == (l.y + p[2]) * dst.stride + l.x + p[1]
  IN  [dst EXCEPT !.mem = [i \in DOMAIN @ |->
         IF \E p \in shown : At(p) = i
         THEN LET p == CHOOSE p \in shown : At(p) = i IN src.mem[p[2] * src.stride + p[1]]
         ELSE @[i]]]

(* Compositor::render *)
Render ==
  /\ drawings < MaxDrawings
  /\ drawings' = drawings + 1
  /\ monitors' = [monitors EXCEPT ![1].fb = FoldLeft(blit, clear(@, Background), ByHeight(layers))]
  /\ drawn' = [monitor |-> 1, layers |-> layers]
  /\ UNCHANGED layers

DisplayNext == DrawCalls \/ CmdDemo \/ PushLayer \/ ClearLayers \/ Render

-----------------------------------------------------------------------------
(* Whether a call paints the pixel (x, y), said pixel by pixel: a rectangle its    *)
(* points, an outline the rim of the part that is on the screen, a line the points *)
(* nearest to it, one for each step of its longer side.                            *)
Paints(call, fb, x, y) ==
  LET Inside == x \in call.x .. call.x + call.w - 1 /\ y \in call.y .. call.y + call.h - 1
      n == Max({Abs(call.x1 - call.x), Abs(call.y1 - call.y)})
      Along(from, to, i) ==
        LET d == (2 * Abs(to - from) * i + n) \div (2 * n) IN IF from < to THEN from + d ELSE from - d
  IN  CASE call.op = "clear" -> TRUE
        [] call.op = "fill"  -> Inside
        [] call.op = "stroke" ->
             /\ Inside
             /\ \/ x \in {Max({call.x, 0}), Min({call.x + call.w, fb.width}) - 1}
                \/ y \in {Max({call.y, 0}), Min({call.y + call.h, fb.height}) - 1}
        [] call.op = "line" ->
             IF n = 0 THEN <<x, y>> = <<call.x, call.y>>
             ELSE \E i \in 0 .. n : x = Along(call.x, call.x1, i) /\ y = Along(call.y, call.y1, i)
        [] call.op = "text" ->
             LET i == (x - call.x) \div GLYPH + 1 IN
             /\ i \in DOMAIN call.text /\ y - call.y \in 0 .. GLYPH - 1
             /\ call.text[i] \in DOMAIN Font =>
                  (GLYPH - 1) - ((x - call.x) % GLYPH) \in Font[call.text[i]][y - call.y + 1]

(* The word a composition shows at (x, y): the highest opaque layer there, of layers  *)
(* equally high the one pushed last.                                                   *)
Composed(stack, fb, x, y) ==
  LET Word(l) == l.fb.mem[(y - l.y) * l.fb.stride + x - l.x]
      there == {i \in DOMAIN stack :
                  LET l == stack[i] IN
                  /\ x - l.x \in 0 .. l.fb.width - 1 /\ y - l.y \in 0 .. l.fb.height - 1
                  /\ Word(l)[4] # 0}
      top == {i \in there : \A j \in there : stack[j].z <= stack[i].z}
  IN  IF there = {} THEN encode_rgba(fb, Background) ELSE Word(stack[Max(top)])

(* Every drawing leaves each visible pixel in the colour of the last call that      *)
(* covers it and all other pixels, and the padding at the end of each row, as they   *)
(* were, wherever on or off the screen it lies; a composition shows its layers by    *)
(* height.  No call indexes outside the framebuffer.                                 *)
DrawingExact ==
  [][drawn' # drawn /\ drawn'.monitor # 0 =>
       LET old == monitors[drawn'.monitor].fb
           new == monitors'[drawn'.monitor].fb
           Covering(x, y) ==
             {i \in DOMAIN drawn'.calls : Paints(drawn'.calls[i], old, x, y)}
           Word(i, x, y) ==
             IF "layers" \in DOMAIN drawn' THEN Composed(drawn'.layers, old, x, y)
             ELSE IF Covering(x, y) = {} THEN old.mem[i]
             ELSE encode_rgba(old, drawn'.calls[Max(Covering(x, y))].c)
       IN  /\ new # Panic
           /\ \A i \in DOMAIN old.mem :
                new.mem[i] = IF i % old.stride >= old.width THEN old.mem[i]
                             ELSE Word(i, i % old.stride, i \div old.stride)]_displayvars
=============================================================================
