------------------------------- MODULE Framebuffer -------------------------------
(***************************************************************************)
(* The drawing code: display/framebuffer.rs, ui/canvas.rs, ui/font.rs and   *)
(* ui/widgets.rs.  A framebuffer is its geometry and its memory, one word   *)
(* of four bytes per pixel; the stride counts words.  A drawing call that   *)
(* would index outside the memory, or subtract below zero, yields Panic.    *)
(***************************************************************************)
EXTENDS Integers, Sequences, SequencesExt

CONSTANTS
  GLYPH,   \* side of a glyph
  Font,    \* GLYPHS: for each printable character its rows, the set bits of each
  Panic    \* what a call that panics yields

(* Framebuffer::new and from_mmio over memory that reads zero. *)
NewFramebuffer(width, height, stride, format) ==
  [width |-> width, height |-> height, stride |-> stride, format |-> format,
   mem |-> [i \in 0 .. stride * height - 1 |-> <<0, 0, 0, 0>>]]

(* encode_rgba: the bytes of a colour in memory order. *)
encode_rgba(fb, c) == IF fb.format = "bgra" THEN <<c[3], c[2], c[1], c[4]>> ELSE c

Store(fb, words, c) ==
  IF fb = Panic \/ ~(words \subseteq DOMAIN fb.mem) THEN Panic
  ELSE [fb EXCEPT !.mem = [i \in DOMAIN @ |-> IF i \in words THEN encode_rgba(fb, c) ELSE @[i]]]

(* put_pixel on each of a set of points: the ones outside are ignored. *)
put_pixel(fb, points, c) ==
  Store(fb, {p[2] * fb.stride + p[1] :
               p \in {q \in points : q[1] \in 0 .. fb.width - 1 /\ q[2] \in 0 .. fb.height - 1}}, c)

clear(fb, c) ==
  Store(fb, {y * fb.stride + x : x \in 0 .. fb.width - 1, y \in 0 .. fb.height - 1}, c)

fill_rect(fb, x, y, w, h, c) ==
  IF fb = Panic THEN Panic
  ELSE LET x_end == Min({x + w, fb.width})
           y_end == Min({y + h, fb.height})
       IN  IF y < y_end /\ x_end < x THEN Panic
           ELSE Store(fb, {yy * fb.stride + xx : xx \in x .. x_end - 1, yy \in y .. y_end - 1}, c)

stroke_rect(fb, x, y, w, h, c) ==
  IF w = 0 \/ h = 0 THEN fb
  ELSE LET top    == fill_rect(fb, x, y, w, 1, c)
           bottom == fill_rect(top, x, y + h - 1, w, 1, c)
           left   == fill_rect(bottom, x, y, 1, h, c)
       IN  fill_rect(left, x + w - 1, y, 1, h, c)

-----------------------------------------------------------------------------
\* Mutant: a rectangle that starts left of the screen keeps its width.
clipKeepsWidth(x, y, w, h, sw, sh) ==
  LET nx == Max({x, 0})
      ny == Max({y, 0})
  IN  IF nx >= sw \/ ny >= sh THEN <<0, 0, 0, 0>>
      ELSE <<nx, ny, Min({w, sw - nx}), Min({Max({h + Min({y, 0}), 0}), sh - ny})>>

(* Canvas clip: the visible part of a rectangle, as an origin and a size. *)
clip(x, y, w, h, sw, sh) ==
  LET nx == Max({x, 0})
      ny == Max({y, 0})
  IN  IF nx >= sw \/ ny >= sh THEN <<0, 0, 0, 0>>
      ELSE <<nx, ny, Min({Max({w + Min({x, 0}), 0}), sw - nx}), Min({Max({h + Min({y, 0}), 0}), sh - ny})>>

RECURSIVE Bresenham(_, _, _, _, _)
(* The points Canvas::line visits from (x, y) on, with the error term err. *)
Bresenham(x, y, x1, y1, s) ==
  IF x = x1 /\ y = y1 THEN {<<x, y>>}
  ELSE LET e2    == 2 * s.err
           right == e2 >= s.dy
           down  == e2 <= s.dx
           err   == s.err + (IF right THEN s.dy ELSE 0) + (IF down THEN s.dx ELSE 0)
       IN  {<<x, y>>} \cup
           Bresenham(IF right THEN x + s.sx ELSE x, IF down THEN y + s.sy ELSE y, x1, y1,
                     [s EXCEPT !.err = err])

Abs(n) == IF n < 0 THEN -n ELSE n

LinePoints(x0, y0, x1, y1) ==
  LET dx == Abs(x1 - x0)
      dy == -Abs(y1 - y0)
  IN  Bresenham(x0, y0, x1, y1, [dx |-> dx, dy |-> dy, err |-> dx + dy,
                                 sx |-> IF x0 < x1 THEN 1 ELSE -1, sy |-> IF y0 < y1 THEN 1 ELSE -1])

(* glyph_for: a character outside the font is a filled square. *)
glyph_for(ch) ==
  IF ch \in DOMAIN Font THEN Font[ch] ELSE [row \in 1 .. GLYPH |-> 0 .. GLYPH - 1]

(* draw_char at (x, y): the highest bit of a row is its leftmost pixel. *)
CharPoints(x, y, ch) ==
  {<<x + col, y + row>> : <<col, row>> \in
     {p \in (0 .. GLYPH - 1) \X (0 .. GLYPH - 1) : GLYPH - 1 - p[1] \in glyph_for(ch)[p[2] + 1]}}

TextPoints(x, y, text) == UNION {CharPoints(x + (i - 1) * GLYPH, y, text[i]) : i \in DOMAIN text}

(* One call of the Canvas. *)
Draw(fb, call) ==
  LET r == clip(call.x, call.y, call.w, call.h, fb.width, fb.height)
  IN  CASE call.op = "clear"  -> clear(fb, call.c)
        [] call.op = "fill"   -> fill_rect(fb, r[1], r[2], r[3], r[4], call.c)
        [] call.op = "stroke" -> stroke_rect(fb, r[1], r[2], r[3], r[4], call.c)
        [] call.op = "line"   -> put_pixel(fb, LinePoints(call.x, call.y, call.x1, call.y1), call.c)
        [] call.op = "text"   -> put_pixel(fb, TextPoints(call.x, call.y, call.text), call.c)

-----------------------------------------------------------------------------
White == <<255, 255, 255, 255>>
Half(n) == IF n < 0 THEN -((-n) \div 2) ELSE n \div 2   \* i32 division by two

RECURSIVE Calls(_)
(* Widget::render: a panel paints itself, then its children over it. *)
Calls(w) ==
  CASE w.widget = "label" -> <<[op |-> "text", x |-> w.x, y |-> w.y, text |-> w.text, c |-> w.c]>>
    [] w.widget = "button" ->
         <<[op |-> "fill", x |-> w.x, y |-> w.y, w |-> w.w, h |-> w.h, c |-> <<51, 85, 204, 255>>],
           [op |-> "stroke", x |-> w.x, y |-> w.y, w |-> w.w, h |-> w.h, c |-> <<0, 0, 0, 255>>],
           [op |-> "text", x |-> w.x + 6, y |-> w.y + Half(w.h - GLYPH), text |-> w.text, c |-> White]>>
    [] w.widget = "panel" ->
         <<[op |-> "fill", x |-> w.x, y |-> w.y, w |-> w.w, h |-> w.h, c |-> w.c]>>
         \o (IF w.border = <<>> THEN <<>>
             ELSE <<[op |-> "stroke", x |-> w.x, y |-> w.y, w |-> w.w, h |-> w.h, c |-> w.border]>>)
         \o FlattenSeq([i \in DOMAIN w.children |-> Calls(w.children[i])])
=============================================================================
