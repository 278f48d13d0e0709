---------------------------- MODULE Framebuffer ----------------------------
(***************************************************************************)
(* The decoded desktop of an RDP session, rdt-rdp/src/framebuffer.rs.      *)
(*                                                                         *)
(* A buffer is a record: its size, its pixels in one flat array indexed    *)
(* from 0 as in the code, and the damage, a sequence of no or one          *)
(* rectangle.  A pixel is one colour where the code has four bytes, so     *)
(* that a 32-bit product of bytes is one of pixels modulo 2^30.  The array *)
(* of a size whose bytes 32 bits cannot count is too short for its cells;  *)
(* what indexes it outside panics (as the product does in a debug build),  *)
(* and no value here stands for that: the sizes of a session are assumed   *)
(* to fit.                                                                 *)
(***************************************************************************)
EXTENDS Integers, Sequences

CONSTANTS
  Colours,   \* the values of a pixel
  Black,     \* the colour of a new buffer
  Word       \* pixels whose bytes 32 bits can count, and one more: 2^30

ASSUME ColoursAssumption == Black \in Colours
ASSUME WordAssumption    == Word \in Nat \ {0}

Least(a, b)    == IF a < b THEN a ELSE b
Greatest(a, b) == IF a > b THEN a ELSE b

Rect   == [left : Nat, top : Nat, width : Nat, height : Nat]

Damage == {d \in Seq(Rect) : Len(d) <= 1}

IsEmpty(r) == r.width = 0 \/ r.height = 0

(* The left and the top edge are moved into the buffer, the size is cut.   *)
Clamped(r, w, h) ==
  LET left == Least(r.left, Greatest(w - 1, 0))
      top  == Least(r.top, Greatest(h - 1, 0))
  IN [left |-> left, top |-> top,
      width |-> Least(r.width, w - left), height |-> Least(r.height, h - top)]

(* The bounding box.                                                       *)
Union(a, b) ==
  LET left   == Least(a.left, b.left)
      top    == Least(a.top, b.top)
      right  == Greatest(a.left + a.width, b.left + b.width)
      bottom == Greatest(a.top + a.height, b.top + b.height)
  IN IF IsEmpty(a) THEN b
     ELSE IF IsEmpty(b) THEN a
     ELSE [left |-> left, top |-> top, width |-> right - left, height |-> bottom - top]

(* width * height * 4 as a u32, in pixels.                                 *)
Area(w, h) == (w * h) % Word

NewBuffer(w, h) ==
  LET width  == Greatest(w, 1)
      height == Greatest(h, 1)
  IN [width |-> width, height |-> height,
      pixels |-> [i \in 0..(Area(width, height) - 1) |-> Black], damage |-> << >>]

MarkDirty(damage, r) ==
  IF damage = << >> THEN << r >> ELSE << Union(damage[1], r) >>

(* A bug: rows are copied as if the width had not changed.                 *)

ResizeFlat(fb, w, h) ==
  LET next  == [i \in 0..(w * h - 1) |->
                 IF i \in DOMAIN fb.pixels THEN fb.pixels[i] ELSE Black]
      whole == [left |-> 0, top |-> 0, width |-> w, height |-> h]
  IN [width |-> w, height |-> h, pixels |-> next, damage |-> << whole >>]

(* Row by row: the part that both sizes have is copied, the rest is black. *)
Resize(fb, w, h) ==
  LET width  == Greatest(w, 1)
      height == Greatest(h, 1)
      rows   == Least(height, fb.height)
      row    == Least(width, fb.width)
      next   == [i \in 0..(Area(width, height) - 1) |->
                  IF i \div width < rows /\ i % width < row
                  THEN fb.pixels[(i \div width) * fb.width + (i % width)]
                  ELSE Black]
      whole  == [left |-> 0, top |-> 0, width |-> width, height |-> height]
  IN IF width = fb.width /\ height = fb.height THEN fb
     ELSE [width |-> width, height |-> height, pixels |-> next,
           damage |-> MarkDirty(<< >>, whole)]

(* Row by row; the source's rows have the length of the clamped rectangle, *)
(* and data that is too short for it is not drawn at all.                  *)
Blit(fb, rect, data) ==
  LET r == Clamped(rect, fb.width, fb.height)
      cell(i) == << (i % fb.width) - r.left, (i \div fb.width) - r.top >>
      hit(i)  == cell(i)[1] \in 0..(r.width - 1) /\ cell(i)[2] \in 0..(r.height - 1)
      next == [i \in DOMAIN fb.pixels |->
                IF hit(i) THEN data[cell(i)[2] * r.width + cell(i)[1] + 1]
                ELSE fb.pixels[i]]
  IN IF IsEmpty(r) \/ Len(data) < Area(r.width, r.height) THEN fb
     ELSE [width |-> fb.width, height |-> fb.height, pixels |-> next,
           damage |-> MarkDirty(fb.damage, r)]

TakeDamage(fb) ==
  [width |-> fb.width, height |-> fb.height, pixels |-> fb.pixels, damage |-> << >>]

-----------------------------------------------------------------------------
(* What a rectangle covers, and when it lies inside a size.                *)
Cells(r) == (r.left .. (r.left + r.width - 1)) \X (r.top .. (r.top + r.height - 1))

Inside(r, w, h) ==
  /\ r \in Rect
  /\ r.left + r.width <= w
  /\ r.top + r.height <= h

(* A picture: what should be seen, as a function of column and row.        *)
Picture(fb) ==
  [c \in (0..(fb.width - 1)) \X (0..(fb.height - 1)) |->
     fb.pixels[c[2] * fb.width + c[1]]]
=============================================================================
