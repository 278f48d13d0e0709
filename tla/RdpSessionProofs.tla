-------------------------- MODULE RdpSessionProofs --------------------------
(***************************************************************************)
(* What RdpSession guarantees for desktops of every size that SizesFit     *)
(* admits, every bitmap, every number of callers and calls.                *)
(***************************************************************************)
EXTENDS RdpSession, TLAPS

(* A rectangle inside a size; damage all of which is.                      *)
AllInside(d, w, h) == \A i \in DOMAIN d : Inside(d[i], w, h)

(* The task holds no event back once it has left its loop.                 *)
NothingHeldBack == task # "selecting" => telling = << >>

RdpInv == TypeOK /\ DamageInside /\ NothingHeldBack /\ EndIsTold
-----------------------------------------------------------------------------
(* Rectangles.                                                             *)

(* Whatever rectangle the server names, what is left of it lies inside.    *)
LEMMA ClampedInside ==
  ASSUME NEW r \in Rect, NEW w \in Nat \ {0}, NEW h \in Nat \ {0}
  PROVE  Inside(Clamped(r, w, h), w, h)
  BY DEF Rect, Clamped, Inside, Least, Greatest

LEMMA UnionInside ==
  ASSUME NEW w \in Nat, NEW h \in Nat, NEW a, NEW b, Inside(a, w, h), Inside(b, w, h)
  PROVE  Inside(Union(a, b), w, h)
  BY DEF Rect, Union, IsEmpty, Inside, Least, Greatest

LEMMA MarkDirtyInside ==
  ASSUME NEW w \in Nat, NEW h \in Nat, NEW d \in Damage, AllInside(d, w, h),
         NEW r, Inside(r, w, h)
  PROVE  MarkDirty(d, r) \in Damage /\ AllInside(MarkDirty(d, r), w, h)
  <1>1. CASE d = << >>
    BY <1>1 DEF MarkDirty, AllInside, Damage, Inside
  <1>2. CASE d # << >>
    <2>1. Inside(Union(d[1], r), w, h)
      BY <1>2, UnionInside DEF AllInside, Damage
    <2> QED BY <1>2, <2>1 DEF MarkDirty, AllInside, Damage, Inside
  <1> QED BY <1>1, <1>2

-----------------------------------------------------------------------------
(* The flat array.                                                         *)

(* A cell inside a grid has its index inside the grid's array.             *)
LEMMA CellInArray ==
  ASSUME NEW w \in Nat, NEW h \in Nat, NEW x \in 0..(w - 1), NEW y \in 0..(h - 1)
  PROVE  y * w + x \in 0..(w * h - 1)
  <1>1. y * w <= (h - 1) * w
    BY SMT
  <1>2. (h - 1) * w = w * h - w
    BY SMT
  <1>3. y * w \in Nat /\ w * h \in Nat
    BY SMT
  <1> QED BY <1>1, <1>2, <1>3

(* ... and the index gives the cell back.                                  *)
LEMMA CellOfIndex ==
  ASSUME NEW w \in Nat \ {0}, NEW y \in Nat, NEW x \in 0..(w - 1)
  PROVE  (y * w + x) % w = x /\ (y * w + x) \div w = y
  <1> DEFINE i == y * w + x
             q == i \div w
             r == i % w
  <1>0. y * w \in Nat
    BY SMT
  <1>1. i \in Nat
    BY <1>0
  <1>2. q \in Int /\ r \in 0..(w - 1) /\ i = w * q + r
    <2> HIDE DEF i
    <2> QED BY <1>1, SMT
  <1>3. y * w = w * y
    BY SMT
  <1>4. w * q - w * y = x - r
    <2> HIDE DEF q, r
    <2>1. w * q \in Int /\ w * y \in Int
      BY <1>2, SMT
    <2> QED BY <1>2, <1>3, <2>1, SMT
  <1> HIDE DEF q, r
  <1>5. w * (q - y) = x - r
    BY <1>2, <1>4, SMT
  <1>6. q - y < 1
    <2> SUFFICES ASSUME q - y >= 1 PROVE FALSE
      BY <1>2
    <2>1. w * (q - y) >= w
      BY <1>2, SMT
    <2> QED BY <1>2, <1>5, <2>1
  <1>7. q - y > -1
    <2> SUFFICES ASSUME q - y <= -1 PROVE FALSE
      BY <1>2
    <2>1. w * (q - y) <= -w
      BY <1>2, SMT
    <2> QED BY <1>2, <1>5, <2>1
  <1>8. q = y
    BY <1>2, <1>6, <1>7
  <1>9. w * (q - y) = 0
    BY <1>2, <1>8, SMT
  <1>10. r = x
    BY <1>2, <1>5, <1>9
  <1> QED BY <1>8, <1>10 DEF q, r

(* A size that fits has all its pixels in the array.                       *)
LEMMA AreaOfFitting ==
  ASSUME NEW w \in Nat, NEW h \in Nat, w * h < Word
  PROVE  Area(w, h) = w * h
  <1>1. w * h \in Nat
    BY SMT
  <1>2. \A a \in Nat : a < Word => a % Word = a
    BY WordAssumption, SMT
  <1> QED BY <1>1, <1>2, Zenon DEF Area

(* What lies inside a size that fits does too.                             *)
LEMMA AreaInside ==
  ASSUME NEW w \in Nat, NEW h \in Nat, w * h < Word, NEW r, Inside(r, w, h)
  PROVE  Area(r.width, r.height) = r.width * r.height
  <1>1. r.width \in 0..w /\ r.height \in 0..h
    BY DEF Inside, Rect
  <1>2. \A a \in 0..w, c \in 0..h : a * c <= w * h
    <2> SUFFICES ASSUME NEW a \in 0..w, NEW c \in 0..h PROVE a * c <= w * h
      OBVIOUS
    <2>1. a * c <= w * c
      BY SMT
    <2>2. w * c <= w * h
      BY SMT
    <2>3. a * c \in Int /\ w * c \in Int /\ w * h \in Int
      BY SMT
    <2> QED BY <2>1, <2>2, <2>3
  <1> DEFINE a == r.width
             c == r.height
  <1>3. a \in Nat /\ c \in Nat /\ a * c <= w * h
    BY <1>1, <1>2
  <1> HIDE DEF a, c
  <1>4. a * c \in Int /\ w * h \in Int
    BY <1>3, SMT
  <1>5. a * c < Word
    BY <1>3, <1>4, WordAssumption
  <1> QED BY <1>3, <1>5, AreaOfFitting DEF a, c

LEMMA NewBufferIsBuffer ==
  ASSUME NEW w \in Nat \ {0}, NEW h \in Nat \ {0}, w * h < Word
  PROVE  /\ IsBuffer(NewBuffer(w, h))
         /\ NewBuffer(w, h).damage = << >>
  <1>1. Greatest(w, 1) = w /\ Greatest(h, 1) = h
    BY DEF Greatest
  <1>2. NewBuffer(w, h) = [width |-> w, height |-> h,
                           pixels |-> [i \in 0..(w * h - 1) |-> Black], damage |-> << >>]
    BY <1>1, AreaOfFitting, Zenon DEF NewBuffer
  <1> QED BY <1>2, ColoursAssumption DEF IsBuffer, Damage

LEMMA TakeDamageIsBuffer ==
  ASSUME NEW b, IsBuffer(b)
  PROVE  IsBuffer(TakeDamage(b)) /\ TakeDamage(b).damage = << >>
  BY DEF TakeDamage, IsBuffer, Damage

(* No bitmap makes the code read or write outside an array: every pixel it *)
(* writes is a colour of the bitmap, and the damage stays inside.          *)
LEMMA BlitIsBuffer ==
  ASSUME NEW b, IsBuffer(b), AllInside(b.damage, b.width, b.height),
         NEW rect \in Rect, NEW data \in Seq(Colours)
  PROVE  /\ IsBuffer(Blit(b, rect, data))
         /\ AllInside(Blit(b, rect, data).damage, Blit(b, rect, data).width,
                      Blit(b, rect, data).height)
  <1> DEFINE r == Clamped(rect, b.width, b.height)
             cell(i) == << (i % b.width) - r.left, (i \div b.width) - r.top >>
             hit(i)  == cell(i)[1] \in 0..(r.width - 1) /\ cell(i)[2] \in 0..(r.height - 1)
             at(i)   == cell(i)[2] * r.width + cell(i)[1]
             next == [i \in DOMAIN b.pixels |-> IF hit(i) THEN data[at(i) + 1] ELSE b.pixels[i]]
  <1>1. Inside(r, b.width, b.height) /\ r.width \in Nat /\ r.height \in Nat
    BY ClampedInside DEF IsBuffer, Inside, Rect
  <1>0. Area(r.width, r.height) = r.width * r.height
    <2> HIDE DEF r
    <2> QED BY <1>1, AreaInside DEF IsBuffer
  <1>2. CASE IsEmpty(r) \/ Len(data) < r.width * r.height
    BY <1>0, <1>2 DEF Blit
  <1>3. CASE ~IsEmpty(r) /\ Len(data) >= r.width * r.height
    <2>1. r.width * r.height \in Nat
      <3> HIDE DEF r
      <3> QED BY <1>1, SMT
    <2>2. \A i \in DOMAIN b.pixels : hit(i) => data[at(i) + 1] \in Colours
      <3> SUFFICES ASSUME NEW i \in DOMAIN b.pixels, hit(i)
                   PROVE  data[at(i) + 1] \in Colours
        OBVIOUS
      <3> HIDE DEF r, cell
      <3>1. at(i) \in 0..(r.width * r.height - 1)
        BY <1>1, CellInArray
      <3> HIDE DEF at
      <3>2. at(i) + 1 \in 1..Len(data)
        BY <1>3, <2>1, <3>1
      <3> QED BY <3>2
    <2> HIDE DEF hit, at
    <2>3. next \in [0..(b.width * b.height - 1) -> Colours]
      BY <2>2 DEF IsBuffer
    <2>4. Blit(b, rect, data) = [width |-> b.width, height |-> b.height, pixels |-> next,
                                 damage |-> MarkDirty(b.damage, r)]
      BY <1>0, <1>3, <1>1, <2>1 DEF Blit, hit, at
    <2> HIDE DEF next, r
    <2>5. /\ MarkDirty(b.damage, r) \in Damage
          /\ AllInside(MarkDirty(b.damage, r), b.width, b.height)
      BY <1>1, MarkDirtyInside DEF IsBuffer
    <2> QED BY <2>3, <2>4, <2>5 DEF IsBuffer
  <1>4. Len(data) \in Nat /\ (r.width * r.height) \in Nat
    <2> HIDE DEF r
    <2> QED BY <1>1, SMT
  <1> QED BY <1>2, <1>3, <1>4

(* Neither does a resize: each pixel it keeps is one of the old buffer,    *)
(* and the damage is the whole of the new one.                             *)
LEMMA ResizeIsBuffer ==
  ASSUME NEW b, IsBuffer(b), AllInside(b.damage, b.width, b.height),
         NEW w \in Nat \ {0}, NEW h \in Nat \ {0}, w * h < Word
  PROVE  /\ IsBuffer(Resize(b, w, h))
         /\ AllInside(Resize(b, w, h).damage, Resize(b, w, h).width,
                      Resize(b, w, h).height)
  <1> DEFINE rows    == Least(h, b.height)
             row     == Least(w, b.width)
             kept(i) == i \div w < rows /\ i % w < row
             from(i) == (i \div w) * b.width + (i % w)
             next    == [i \in 0..(w * h - 1) |-> IF kept(i) THEN b.pixels[from(i)] ELSE Black]
             whole   == [left |-> 0, top |-> 0, width |-> w, height |-> h]
  <1>1. Greatest(w, 1) = w /\ Greatest(h, 1) = h /\ Area(w, h) = w * h
    BY AreaOfFitting DEF Greatest
  <1>2. /\ rows \in Nat /\ rows <= b.height
        /\ row \in Nat /\ row <= b.width
    BY DEF Least, IsBuffer
  <1>3. CASE w = b.width /\ h = b.height
    BY <1>1, <1>3 DEF Resize
  <1>4. CASE ~(w = b.width /\ h = b.height)
    <2>1. \A i \in 0..(w * h - 1) : kept(i) => b.pixels[from(i)] \in Colours
      <3> SUFFICES ASSUME NEW i \in 0..(w * h - 1), kept(i)
                   PROVE  b.pixels[from(i)] \in Colours
        OBVIOUS
      <3> HIDE DEF rows, row
      <3>0. w * h \in Nat
        BY SMT
      <3>1. i \in Nat
        BY <3>0
      <3>2. i \div w \in Nat /\ i % w \in Nat
        BY <3>1, SMT
      <3> DEFINE x == i % w
                 y == i \div w
      <3>3. x \in 0..(b.width - 1) /\ y \in 0..(b.height - 1)
        BY <1>2, <3>2 DEF IsBuffer
      <3> HIDE DEF x, y
      <3>4. y * b.width + x \in 0..(b.width * b.height - 1)
        BY <3>3, CellInArray DEF IsBuffer
      <3> QED BY <3>4 DEF IsBuffer, x, y
    <2> HIDE DEF kept, from
    <2>2. next \in [0..(w * h - 1) -> Colours]
      BY <2>1, ColoursAssumption
    <2>3. Resize(b, w, h) = [width |-> w, height |-> h, pixels |-> next,
                             damage |-> MarkDirty(<< >>, whole)]
      BY <1>1, <1>4, Zenon DEF Resize, kept, from
    <2> HIDE DEF next
    <2>4. MarkDirty(<< >>, whole) = << whole >>
      BY DEF MarkDirty
    <2>5. whole \in Rect /\ Inside(whole, w, h)
      BY DEF Rect, Inside
    <2> HIDE DEF whole
    <2>6. << whole >> \in Damage /\ AllInside(<< whole >>, w, h)
      BY <2>5 DEF Damage, AllInside
    <2> QED BY <2>2, <2>3, <2>4, <2>6 DEF IsBuffer
  <1> QED BY <1>3, <1>4

-----------------------------------------------------------------------------
(* What the array shows.                                                   *)

Grid(w, h) == (0..(w - 1)) \X (0..(h - 1))

LEMMA CellOfGrid ==
  ASSUME NEW w \in Nat \ {0}, NEW h \in Nat \ {0}, NEW c \in Grid(w, h)
  PROVE  /\ c[1] \in 0..(w - 1) /\ c[2] \in 0..(h - 1) /\ c = << c[1], c[2] >>
         /\ c[2] * w + c[1] \in 0..(w * h - 1)
         /\ (c[2] * w + c[1]) % w = c[1] /\ (c[2] * w + c[1]) \div w = c[2]
  <1>1. c[1] \in 0..(w - 1) /\ c[2] \in 0..(h - 1) /\ c = << c[1], c[2] >>
    BY DEF Grid
  <1>2. c[2] * w + c[1] \in 0..(w * h - 1)
    BY <1>1, CellInArray
  <1>3. (c[2] * w + c[1]) % w = c[1] /\ (c[2] * w + c[1]) \div w = c[2]
    BY <1>1, CellOfIndex
  <1> QED BY <1>1, <1>2, <1>3

LEMMA PictureShows ==
  ASSUME NEW b
  PROVE  /\ Picture(b) = [c \in Grid(b.width, b.height) |-> b.pixels[c[2] * b.width + c[1]]]
         /\ DOMAIN Picture(b) = Grid(b.width, b.height)
         /\ \A c \in Grid(b.width, b.height) : Picture(b)[c] = b.pixels[c[2] * b.width + c[1]]
  BY DEF Picture, Grid

(* A bitmap changes the cells of the clamped rectangle, to the colours at  *)
(* the same places of the bitmap, and no others.                           *)
LEMMA BlitShows ==
  ASSUME NEW b, IsBuffer(b), NEW rect \in Rect, NEW data \in Seq(Colours),
         NEW r, r = Clamped(rect, b.width, b.height)
  PROVE  \/ (IsEmpty(r) \/ Len(data) < r.width * r.height) /\ Blit(b, rect, data) = b
         \/ /\ ~IsEmpty(r) /\ Len(data) >= r.width * r.height
            /\ Blit(b, rect, data).width = b.width /\ Blit(b, rect, data).height = b.height
            /\ Blit(b, rect, data).damage = MarkDirty(b.damage, r)
            /\ \A c \in Grid(b.width, b.height) :
                  Picture(Blit(b, rect, data))[c] =
                     IF c \in Cells(r)
                     THEN data[(c[2] - r.top) * r.width + (c[1] - r.left) + 1]
                     ELSE Picture(b)[c]
  <1> DEFINE cell(i) == << (i % b.width) - r.left, (i \div b.width) - r.top >>
             hit(i)  == cell(i)[1] \in 0..(r.width - 1) /\ cell(i)[2] \in 0..(r.height - 1)
             at(i)   == cell(i)[2] * r.width + cell(i)[1]
             next == [i \in DOMAIN b.pixels |-> IF hit(i) THEN data[at(i) + 1] ELSE b.pixels[i]]
             drawn == Blit(b, rect, data)
  <1>1. /\ b.width \in Nat \ {0} /\ b.height \in Nat \ {0}
        /\ DOMAIN b.pixels = 0..(b.width * b.height - 1)
    BY DEF IsBuffer
  <1>2. r.left \in Nat /\ r.top \in Nat /\ r.width \in Nat /\ r.height \in Nat
    BY <1>1, ClampedInside DEF Inside, Rect
  <1>0. Area(r.width, r.height) = r.width * r.height
    BY <1>1, ClampedInside, AreaInside DEF IsBuffer
  <1>3. CASE IsEmpty(r) \/ Len(data) < r.width * r.height
    BY <1>0, <1>3 DEF Blit
  <1>4. CASE ~IsEmpty(r) /\ Len(data) >= r.width * r.height
    <2>1. drawn = [width |-> b.width, height |-> b.height, pixels |-> next,
                   damage |-> MarkDirty(b.damage, r)]
      <3>1. r.width * r.height \in Nat /\ Len(data) \in Nat
        BY <1>2, SMT
      <3> QED BY <1>0, <1>4, <3>1 DEF Blit
    <2> HIDE DEF drawn, next, cell, hit, at
    <2>2. /\ drawn.width = b.width /\ drawn.height = b.height /\ drawn.pixels = next
          /\ drawn.damage = MarkDirty(b.damage, r)
      BY <2>1
    <2>3. ASSUME NEW c \in Grid(b.width, b.height)
          PROVE  Picture(drawn)[c] = IF c \in Cells(r)
                                     THEN data[(c[2] - r.top) * r.width + (c[1] - r.left) + 1]
                                     ELSE Picture(b)[c]
      <3> DEFINE i == c[2] * b.width + c[1]
      <3>1. /\ c[1] \in Int /\ c[2] \in Int /\ c = << c[1], c[2] >>
            /\ i \in DOMAIN b.pixels /\ i % b.width = c[1] /\ i \div b.width = c[2]
        BY <1>1, CellOfGrid
      <3>2. Picture(drawn)[c] = drawn.pixels[i] /\ Picture(b)[c] = b.pixels[i]
        BY <2>2, PictureShows
      <3> HIDE DEF i
      <3>3. drawn.pixels[i] = IF hit(i) THEN data[at(i) + 1] ELSE b.pixels[i]
        BY <2>2, <3>1 DEF next
      <3>4. cell(i)[1] = c[1] - r.left /\ cell(i)[2] = c[2] - r.top
        BY <3>1 DEF cell
      <3>5. hit(i) <=> c \in Cells(r)
        <4> DEFINE x == c[1]
                   y == c[2]
        <4>1. x \in Int /\ y \in Int /\ c = << x, y >>
          BY <3>1
        <4>2. hit(i) <=> x - r.left \in 0..(r.width - 1) /\ y - r.top \in 0..(r.height - 1)
          BY <3>4 DEF hit
        <4> HIDE DEF x, y
        <4>3. c \in Cells(r) <=> /\ x \in r.left..(r.left + r.width - 1)
                                /\ y \in r.top..(r.top + r.height - 1)
          <5> DEFINE across == r.left..(r.left + r.width - 1)
                     down   == r.top..(r.top + r.height - 1)
          <5>1. Cells(r) = across \X down
            BY DEF Cells
          <5> HIDE DEF across, down
          <5>2. << x, y >> \in across \X down <=> x \in across /\ y \in down
            OBVIOUS
          <5> QED BY <4>1, <5>1, <5>2 DEF across, down
        <4>4. \A left \in Nat, width \in Nat, k \in Int :
                 k - left \in 0..(width - 1) <=> k \in left..(left + width - 1)
          OBVIOUS
        <4>5. /\ x - r.left \in 0..(r.width - 1) <=> x \in r.left..(r.left + r.width - 1)
              /\ y - r.top \in 0..(r.height - 1) <=> y \in r.top..(r.top + r.height - 1)
          BY <1>2, <4>1, <4>4, Zenon
        <4> QED BY <4>2, <4>3, <4>5
      <3>6. at(i) = (c[2] - r.top) * r.width + (c[1] - r.left)
        BY <3>4 DEF at
      <3> QED BY <3>2, <3>3, <3>5, <3>6
    <2> QED BY <1>4, <2>2, <2>3 DEF drawn
  <1>5. Len(data) \in Nat /\ r.width * r.height \in Nat
    BY <1>2, SMT
  <1> QED BY <1>3, <1>4, <1>5

(* A rectangle that lies inside is not clamped.                            *)
LEMMA FitsInside ==
  ASSUME NEW r \in Rect, NEW w \in Nat \ {0}, NEW h \in Nat \ {0}, ~IsEmpty(r),
         Cells(r) \subseteq Grid(w, h)
  PROVE  Clamped(r, w, h) = r
  <1> DEFINE right  == r.left + r.width - 1
             bottom == r.top + r.height - 1
  <1>1. /\ r.left \in Nat /\ r.top \in Nat /\ r.width \in Nat \ {0} /\ r.height \in Nat \ {0}
        /\ r = [left |-> r.left, top |-> r.top, width |-> r.width, height |-> r.height]
    BY DEF Rect, IsEmpty
  <1>2. << right, bottom >> \in Cells(r)
    BY <1>1 DEF Cells
  <1>3. << right, bottom >> \in Grid(w, h)
    BY <1>2
  <1> HIDE DEF right, bottom
  <1>4. right \in 0..(w - 1) /\ bottom \in 0..(h - 1)
    BY <1>3 DEF Grid
  <1>5. r.left + r.width <= w /\ r.top + r.height <= h
    BY <1>1, <1>4 DEF right, bottom
  <1>6. /\ Least(r.left, Greatest(w - 1, 0)) = r.left /\ Least(r.top, Greatest(h - 1, 0)) = r.top
        /\ Least(r.width, w - r.left) = r.width /\ Least(r.height, h - r.top) = r.height
    BY <1>1, <1>5 DEF Least, Greatest
  <1> QED BY <1>1, <1>6 DEF Clamped

LEMMA EmptyHasNoCells ==
  ASSUME NEW r \in Rect, IsEmpty(r)
  PROVE  /\ Cells(r) = {}
         /\ \A w, h \in Nat \ {0} : IsEmpty(Clamped(r, w, h))
  <1>1. /\ r.left \in Nat /\ r.top \in Nat /\ r.width \in Nat /\ r.height \in Nat
        /\ r.width = 0 \/ r.height = 0
    BY DEF Rect, IsEmpty
  <1>2. Cells(r) = {}
    <2>1. CASE r.width = 0
      <3>1. r.left .. (r.left + r.width - 1) = {}
        BY <1>1, <2>1
      <3> QED BY <3>1 DEF Cells
    <2>2. CASE r.height = 0
      <3>1. r.top .. (r.top + r.height - 1) = {}
        BY <1>1, <2>2
      <3> QED BY <3>1 DEF Cells
    <2> QED BY <1>1, <2>1, <2>2
  <1>3. ASSUME NEW w \in Nat \ {0}, NEW h \in Nat \ {0} PROVE IsEmpty(Clamped(r, w, h))
    BY <1>1 DEF Clamped, IsEmpty, Least, Greatest
  <1> QED BY <1>2, <1>3

(* A bitmap that fits the desktop is drawn as the server draws it, unless  *)
(* it is cut, when nothing is.                                             *)
LEMMA BlitDraws ==
  ASSUME NEW b, IsBuffer(b), NEW u, u.rect \in Rect, u.data \in Seq(Colours),
         Cells(u.rect) \subseteq Grid(b.width, b.height)
  PROVE  Picture(Blit(b, u.rect, u.data)) = IF IsCut(u) THEN Picture(b) ELSE Drawn(Picture(b), u)
  <1> DEFINE r == Clamped(u.rect, b.width, b.height)
             drawn == Blit(b, u.rect, u.data)
  <1>1. b.width \in Nat \ {0} /\ b.height \in Nat \ {0}
    BY DEF IsBuffer
  <1>2. u.rect.width \in Nat /\ u.rect.height \in Nat /\ Len(u.data) \in Nat
    BY DEF Rect
  <1>3. u.rect.width * u.rect.height \in Nat
    BY <1>2, SMT
  <1>4. DOMAIN Picture(b) = Grid(b.width, b.height)
        /\ Picture(b) = [c \in Grid(b.width, b.height) |-> Picture(b)[c]]
    BY PictureShows
  <1>5. CASE IsEmpty(u.rect)
    <2>1. IsEmpty(r) /\ Cells(u.rect) = {}
      BY <1>1, <1>5, EmptyHasNoCells
    <2>2. drawn = b
      BY <2>1, BlitShows
    <2>3. Drawn(Picture(b), u) = [c \in Grid(b.width, b.height) |-> Picture(b)[c]]
      BY <1>4, <2>1 DEF Drawn
    <2> QED BY <1>4, <2>2, <2>3
  <1>6. CASE ~IsEmpty(u.rect) /\ IsCut(u)
    <2>1. r = u.rect
      BY <1>1, <1>6, FitsInside
    <2>2. Len(u.data) < r.width * r.height
      BY <1>6, <2>1 DEF IsCut
    <2>3. drawn = b
      <3> HIDE DEF r
      <3> QED BY <1>2, <1>3, <2>1, <2>2, BlitShows DEF r
    <2> QED BY <1>6, <2>3
  <1>7. CASE ~IsEmpty(u.rect) /\ ~IsCut(u)
    <2>1. r = u.rect
      BY <1>1, <1>7, FitsInside
    <2>2. ~(IsEmpty(u.rect) \/ Len(u.data) < u.rect.width * u.rect.height)
      BY <1>7 DEF IsCut
    <2>3. /\ drawn.width = b.width /\ drawn.height = b.height
          /\ \A c \in Grid(b.width, b.height) :
                Picture(drawn)[c] =
                   IF c \in Cells(u.rect)
                   THEN u.data[(c[2] - u.rect.top) * u.rect.width + (c[1] - u.rect.left) + 1]
                   ELSE Picture(b)[c]
      <3> HIDE DEF drawn, r
      <3> QED BY <2>1, <2>2, BlitShows DEF drawn, r
    <2> HIDE DEF drawn, r
    <2>4. Picture(drawn) = [c \in Grid(b.width, b.height) |-> Picture(drawn)[c]]
      BY <2>3, PictureShows
    <2>5. Drawn(Picture(b), u) =
            [c \in Grid(b.width, b.height) |->
               IF c \in Cells(u.rect)
               THEN u.data[(c[2] - u.rect.top) * u.rect.width + (c[1] - u.rect.left) + 1]
               ELSE Picture(b)[c]]
      BY <1>4 DEF Drawn
    <2>6. [c \in Grid(b.width, b.height) |-> Picture(drawn)[c]] = Drawn(Picture(b), u)
      BY <2>3, <2>5
    <2> QED BY <1>7, <2>4, <2>6 DEF drawn
  <1> QED BY <1>5, <1>6, <1>7

(* The cells a bitmap changes are in the damage.                           *)
LEMMA UnionCovers ==
  ASSUME NEW a \in Rect, NEW r \in Rect, ~IsEmpty(r)
  PROVE  Cells(r) \subseteq Cells(Union(a, r))
  <1>1. CASE IsEmpty(a)
    BY <1>1 DEF Union
  <1>2. CASE ~IsEmpty(a)
    <2> DEFINE all == Union(a, r)
    <2>1. /\ all.left <= r.left /\ r.left + r.width <= all.left + all.width
          /\ all.top <= r.top /\ r.top + r.height <= all.top + all.height
          /\ all.left \in Int /\ all.width \in Int /\ all.top \in Int /\ all.height \in Int
          /\ r.left \in Int /\ r.width \in Int /\ r.top \in Int /\ r.height \in Int
      BY <1>2 DEF Union, Rect, Least, Greatest
    <2> HIDE DEF all
    <2>2. r.left..(r.left + r.width - 1) \subseteq all.left..(all.left + all.width - 1)
      BY <2>1
    <2>3. r.top..(r.top + r.height - 1) \subseteq all.top..(all.top + all.height - 1)
      BY <2>1
    <2>4. Cells(r) \subseteq Cells(all)
      BY <2>2, <2>3 DEF Cells
    <2> QED BY <2>4 DEF all
  <1> QED BY <1>1, <1>2

LEMMA BlitCovered ==
  ASSUME NEW b, IsBuffer(b), NEW rect \in Rect, NEW data \in Seq(Colours)
  PROVE  /\ Blit(b, rect, data).width = b.width /\ Blit(b, rect, data).height = b.height
         /\ \A c \in Grid(b.width, b.height) :
               Picture(Blit(b, rect, data))[c] # Picture(b)[c] =>
                  \E i \in DOMAIN Blit(b, rect, data).damage :
                     c \in Cells(Blit(b, rect, data).damage[i])
  <1> DEFINE r == Clamped(rect, b.width, b.height)
             drawn == Blit(b, rect, data)
  <1>1. r \in Rect
    BY ClampedInside DEF IsBuffer, Inside
  <1> HIDE DEF r, drawn
  <1>2. CASE drawn = b
    BY <1>2 DEF drawn
  <1>3. CASE /\ ~IsEmpty(r)
             /\ drawn.width = b.width /\ drawn.height = b.height
             /\ drawn.damage = MarkDirty(b.damage, r)
             /\ \A c \in Grid(b.width, b.height) \ Cells(r) : Picture(drawn)[c] = Picture(b)[c]
    <2>1. \E i \in DOMAIN drawn.damage : Cells(r) \subseteq Cells(drawn.damage[i])
      <3>1. CASE b.damage = << >>
        <4>1. drawn.damage = << r >>
          BY <1>3, <3>1 DEF MarkDirty
        <4>2. 1 \in DOMAIN drawn.damage /\ drawn.damage[1] = r
          BY <4>1
        <4> QED BY <4>2
      <3>2. CASE b.damage # << >>
        <4>1. b.damage[1] \in Rect
          BY <3>2 DEF IsBuffer, Damage
        <4>2. drawn.damage = << Union(b.damage[1], r) >>
          BY <1>3, <3>2 DEF MarkDirty
        <4>3. 1 \in DOMAIN drawn.damage /\ drawn.damage[1] = Union(b.damage[1], r)
          BY <4>2
        <4> QED BY <1>1, <1>3, <4>1, <4>3, UnionCovers
      <3> QED BY <3>1, <3>2
    <2> QED BY <1>3, <2>1 DEF drawn
  <1>4. drawn = b \/ /\ ~IsEmpty(r)
                     /\ drawn.width = b.width /\ drawn.height = b.height
                     /\ drawn.damage = MarkDirty(b.damage, r)
                     /\ \A c \in Grid(b.width, b.height) \ Cells(r) :
                           Picture(drawn)[c] = Picture(b)[c]
    BY BlitShows DEF drawn, r
  <1> QED BY <1>2, <1>3, <1>4

(* A resize keeps the part both sizes have where it is.                    *)
LEMMA ResizeDraws ==
  ASSUME NEW b, IsBuffer(b), NEW w \in Nat \ {0}, NEW h \in Nat \ {0}, w * h < Word
  PROVE  Picture(Resize(b, w, h)) = Sized(w, h, Picture(b))
  <1> DEFINE rows == Least(h, b.height)
             row  == Least(w, b.width)
             kept(i) == i \div w < rows /\ i % w < row
             from(i) == (i \div w) * b.width + (i % w)
             next == [i \in 0..(w * h - 1) |-> IF kept(i) THEN b.pixels[from(i)] ELSE Black]
             sized == Resize(b, w, h)
  <1>1. b.width \in Nat \ {0} /\ b.height \in Nat \ {0}
    BY DEF IsBuffer
  <1>2. Greatest(w, 1) = w /\ Greatest(h, 1) = h /\ Area(w, h) = w * h
    BY AreaOfFitting DEF Greatest
  <1>3. DOMAIN Picture(b) = Grid(b.width, b.height)
        /\ Picture(b) = [c \in Grid(b.width, b.height) |-> Picture(b)[c]]
    BY PictureShows
  <1>4. Sized(w, h, Picture(b)) =
          [c \in Grid(w, h) |-> IF c \in Grid(b.width, b.height) THEN Picture(b)[c] ELSE Black]
    BY <1>3 DEF Sized, Grid
  <1>5. CASE w = b.width /\ h = b.height
    <2>1. sized = b
      BY <1>2, <1>5 DEF Resize
    <2>2. [c \in Grid(w, h) |-> IF c \in Grid(b.width, b.height) THEN Picture(b)[c] ELSE Black]
            = [c \in Grid(b.width, b.height) |-> Picture(b)[c]]
      BY <1>5
    <2> QED BY <1>3, <1>4, <2>1, <2>2
  <1>6. CASE ~(w = b.width /\ h = b.height)
    <2>1. sized.width = w /\ sized.height = h /\ sized.pixels = next
      BY <1>2, <1>6 DEF Resize
    <2> HIDE DEF sized, next, kept, from
    <2>2. ASSUME NEW c \in Grid(w, h)
          PROVE  Picture(sized)[c] =
                    IF c \in Grid(b.width, b.height) THEN Picture(b)[c] ELSE Black
      <3> DEFINE i == c[2] * w + c[1]
      <3>1. /\ c[1] \in 0..(w - 1) /\ c[2] \in 0..(h - 1) /\ c = << c[1], c[2] >>
            /\ i \in 0..(w * h - 1) /\ i % w = c[1] /\ i \div w = c[2]
        BY CellOfGrid
      <3> HIDE DEF i
      <3>2. Picture(sized)[c] = next[i]
        BY <2>1, PictureShows DEF i
      <3>3. next[i] = IF kept(i) THEN b.pixels[from(i)] ELSE Black
        BY <3>1 DEF next
      <3>4. from(i) = c[2] * b.width + c[1]
        BY <3>1 DEF from
      <3>5. kept(i) <=> c[2] < b.height /\ c[1] < b.width
        BY <1>1, <3>1 DEF kept, Least
      <3>6. c \in Grid(b.width, b.height) <=> c[2] < b.height /\ c[1] < b.width
        <4> DEFINE x == c[1]
                   y == c[2]
        <4>1. x \in Nat /\ y \in Nat /\ c = << x, y >>
          BY <3>1
        <4> HIDE DEF x, y
        <4>2. << x, y >> \in Grid(b.width, b.height) <=> y < b.height /\ x < b.width
          BY <1>1, <4>1 DEF Grid
        <4> QED BY <4>1, <4>2 DEF x, y
      <3>7. c \in Grid(b.width, b.height) => Picture(b)[c] = b.pixels[c[2] * b.width + c[1]]
        BY PictureShows
      <3> QED BY <3>2, <3>3, <3>4, <3>5, <3>6, <3>7
    <2>3. Picture(sized) = [c \in Grid(w, h) |-> Picture(sized)[c]]
      BY <2>1, PictureShows
    <2>4. [c \in Grid(w, h) |-> Picture(sized)[c]] =
            [c \in Grid(w, h) |-> IF c \in Grid(b.width, b.height) THEN Picture(b)[c] ELSE Black]
      BY <2>2
    <2> QED BY <1>4, <2>3, <2>4 DEF sized
  <1> QED BY <1>5, <1>6

-----------------------------------------------------------------------------
(* Events.                                                                 *)

LEMMA FrameIsEvent ==
  ASSUME NEW b, IsBuffer(b), AllInside(b.damage, b.width, b.height)
  PROVE  /\ Frame(b.damage, b.width, b.height) \in Event
         /\ WithinEvent(Frame(b.damage, b.width, b.height))
  BY DEF IsBuffer, Frame, Event, WithinEvent, AllInside

LEMMA ResizedIsEvent ==
  ASSUME NEW size \in Sizes
  PROVE  Resized(size) \in Event /\ WithinEvent(Resized(size))
  BY RdpAssumption DEF Resized, Event, WithinEvent, Damage

LEMMA ClosedIsEvent ==
  /\ Closed \in Event /\ WithinEvent(Closed) /\ Closed.kind = "Closed"
  /\ Notice \in Event /\ WithinEvent(Notice)
  BY DEF Closed, Notice, Plain, Event, WithinEvent, Damage

(* What is sent arrives at the end, or nowhere.                            *)
LEMMA TellKeeps ==
  ASSUME TypeOK, DamageInside, NEW e \in Event, WithinEvent(e), Tell(e)
  PROVE  /\ events' \in Seq(Event)
         /\ heard' \in BOOLEAN
         /\ \A i \in DOMAIN events' : WithinEvent(events'[i])
         /\ owner # "gone" => heard' = (e.kind = "Closed")
  <1>1. CASE owner = "gone"
    BY <1>1 DEF Tell, TypeOK, DamageInside
  <1>2. CASE owner # "gone"
    <2>1. events' = Append(events, e) /\ heard' = (e.kind = "Closed")
      BY <1>2 DEF Tell
    <2>2. heard' \in BOOLEAN
      BY <2>1
    <2>3. events' \in Seq(Event)
      BY <2>1 DEF TypeOK
    <2>4. \A i \in DOMAIN events' : WithinEvent(events'[i])
      <3> SUFFICES ASSUME NEW i \in DOMAIN events'
                   PROVE  WithinEvent(events'[i])
        OBVIOUS
      <3>1. (i \in DOMAIN events /\ events'[i] = events[i]) \/ events'[i] = e
        BY <2>1 DEF TypeOK
      <3> QED BY <3>1 DEF DamageInside
    <2> QED BY <2>1, <2>2, <2>3, <2>4
  <1> QED BY <1>1, <1>2

LEMMA BatchIsSequence ==
  ASSUME NEW b \in Batch
  PROVE  b \in Seq(Output)
  BY RdpAssumption DEF Batch

LEMMA QueueKeeps ==
  ASSUME TypeOK, NEW c \in Command, Queue(c)
  PROVE  commands' \in Seq(Command)
  BY DEF TypeOK, Queue

-----------------------------------------------------------------------------
(* The invariant.                                                          *)

LEMMA InitInv == Init => RdpInv
  <1> SUFFICES ASSUME Init PROVE RdpInv
    OBVIOUS
  <1>1. PICK size \in Sizes : fb = NewBuffer(size[1], size[2])
    BY DEF Init
  <1>2. size[1] \in Nat \ {0} /\ size[2] \in Nat \ {0} /\ size[1] * size[2] < Word
    BY RdpAssumption, SizesFit
  <1>3. IsBuffer(fb) /\ fb.damage = << >>
    BY <1>1, <1>2, NewBufferIsBuffer
  <1>4. TypeOK
    <2>1. commands \in Seq(Command) /\ outputs \in Seq(Output)
          /\ telling \in Seq(Event) /\ Len(telling) <= 1 /\ events \in Seq(Event)
      BY DEF Init
    <2>2. pc \in [Callers -> Places] /\ task \in Stages /\ owner \in Owners
      BY DEF Init, Stages, Owners, Places
    <2>3. 0 \in 0..MaxCalls
      BY RdpAssumption
    <2> QED BY <1>3, <2>1, <2>2, <2>3 DEF Init, TypeOK
  <1> QED
    BY <1>3, <1>4 DEF Init, RdpInv, DamageInside, NothingHeldBack, EndIsTold

(* The application's steps do not touch the buffer; only a repaint takes   *)
(* its damage, and only a drop and a consumer take events.                 *)
LEMMA CallInv ==
  ASSUME RdpInv, NEW c \in Callers, Call(c)
  PROVE  RdpInv'
  <1> USE DEF RdpInv
  <1>1. /\ UNCHANGED << fb, task, outputs, telling, events, owner, served, desktop, screen, heard >>
        /\ closing' \in BOOLEAN /\ pc' \in [Callers -> Places]
        /\ accepted' \in Nat /\ calls' \in 0..MaxCalls
        /\ commands' \in Seq(Command)
    <2>1. CASE Send(c)
      BY <2>1, RdpAssumption DEF Send, MayCall, TypeOK, Places
    <2>2. CASE SendQueues(c)
      <3>1. commands' \in Seq(Command)
        BY <2>2, QueueKeeps DEF SendQueues, Command
      <3> QED BY <2>2, <3>1 DEF SendQueues, TypeOK, Places
    <2>3. CASE RequestResize(c)
      <3>1. commands' \in Seq(Command)
        BY <2>3, QueueKeeps DEF RequestResize, Command
      <3> QED BY <2>3, <3>1, RdpAssumption DEF RequestResize, MayCall, TypeOK
    <2>4. CASE Disconnect(c)
      BY <2>4, RdpAssumption DEF Disconnect, MayCall, TypeOK, Places
    <2>5. CASE DisconnectQueues(c)
      <3>1. commands' \in Seq(Command)
        BY <2>5, QueueKeeps DEF DisconnectQueues, Command
      <3> QED BY <2>5, <3>1 DEF DisconnectQueues, TypeOK, Places
    <2> QED BY <2>1, <2>2, <2>3, <2>4, <2>5 DEF Call
  <1>2. TypeOK'
    BY <1>1 DEF TypeOK, IsBuffer
  <1> QED BY <1>1, <1>2 DEF DamageInside, NothingHeldBack, EndIsTold, WithinEvent

LEMMA OwnerInv ==
  ASSUME RdpInv, Connect \/ Drop \/ DropQueues \/ Consume
  PROVE  RdpInv'
  <1> USE DEF RdpInv
  <1>1. CASE Connect
    BY <1>1 DEF Connect, TypeOK, IsBuffer, DamageInside, NothingHeldBack, EndIsTold,
                WithinEvent, Stages, Owners
  <1>2. CASE Drop
    BY <1>2 DEF Drop, Exclusive, TypeOK, IsBuffer, DamageInside, NothingHeldBack,
                EndIsTold, WithinEvent, Owners
  <1>3. CASE DropQueues
    <2>1. commands' \in Seq(Command)
      BY <1>3, QueueKeeps DEF DropQueues, Command
    <2>2. TypeOK'
      BY <1>3, <2>1 DEF DropQueues, TypeOK, IsBuffer, Owners
    <2> QED BY <1>3, <2>2 DEF DropQueues, DamageInside, NothingHeldBack, EndIsTold, WithinEvent
  <1>4. CASE Consume
    <2>1. events # << >> /\ events' = Tail(events)
          /\ UNCHANGED << fb, closing, commands, task, outputs, telling, owner, pc,
                          accepted, calls, served, heard >>
      BY <1>4 DEF Consume, appVars
    <2>2. events' \in Seq(Event) /\ \A i \in DOMAIN events' : WithinEvent(events'[i])
      <3>1. events \in Seq(Event)
        BY DEF TypeOK
      <3>2. \A i \in DOMAIN events' : i + 1 \in DOMAIN events /\ events'[i] = events[i + 1]
        BY <2>1, <3>1
      <3> QED BY <2>1, <3>1, <3>2 DEF DamageInside
    <2>3. TypeOK'
      BY <2>1, <2>2 DEF TypeOK, IsBuffer
    <2> QED BY <2>1, <2>2, <2>3 DEF DamageInside, NothingHeldBack, EndIsTold, WithinEvent
  <1> QED BY <1>1, <1>2, <1>3, <1>4

LEMMA RepaintInv ==
  ASSUME RdpInv, Repaint
  PROVE  RdpInv'
  <1> USE DEF RdpInv
  <1>1. fb' = TakeDamage(fb)
        /\ UNCHANGED << closing, commands, task, outputs, telling, events, owner, pc,
                        accepted, calls, served, heard >>
    BY DEF Repaint, appVars
  <1>2. IsBuffer(fb') /\ fb'.damage = << >>
    BY <1>1, TakeDamageIsBuffer DEF TypeOK
  <1>3. TypeOK'
    BY <1>1, <1>2 DEF TypeOK, IsBuffer
  <1> QED BY <1>1, <1>2, <1>3 DEF DamageInside, NothingHeldBack, EndIsTold, WithinEvent

(* The steps of the task that do not touch the buffer.                     *)
LEMMA PumpInv ==
  ASSUME RdpInv, Start \/ Serve \/ ReadPdu \/ TellOutput \/ Leave \/ Shutdown \/ Finish
  PROVE  RdpInv'
  <1> USE DEF RdpInv
  <1>1. CASE Start
    <2>1. events' \in Seq(Event) /\ \A i \in DOMAIN events' : WithinEvent(events'[i])
      BY <1>1, ClosedIsEvent, TellKeeps DEF Start, TypeOK, DamageInside
    <2>2. heard' \in BOOLEAN
      BY <1>1, ClosedIsEvent, TellKeeps DEF Start, TypeOK
    <2>3. task' = "done" => (heard' \/ owner = "gone")
      BY <1>1, ClosedIsEvent, TellKeeps DEF Start
    <2>4. /\ UNCHANGED << fb, closing, commands, outputs, telling, owner, pc,
                          accepted, calls, served >>
          /\ task = "starting" /\ task' \in {"selecting", "done"}
      BY <1>1 DEF Start, appVars
    <2>5. TypeOK'
      BY <2>1, <2>2, <2>4 DEF TypeOK, IsBuffer, Stages
    <2> QED BY <2>1, <2>3, <2>4, <2>5
            DEF DamageInside, NothingHeldBack, EndIsTold, WithinEvent
  <1>2. ASSUME Process
        PROVE  /\ task' = task \/ task' = "leaving"
               /\ outputs' \in Seq(Output) /\ events' \in Seq(Event)
               /\ heard' \in BOOLEAN
               /\ \A i \in DOMAIN events' : WithinEvent(events'[i])
    <2>1. CASE Fail
      BY <2>1, ClosedIsEvent, TellKeeps DEF Fail, TypeOK
    <2>2. CASE (\E b \in Batch : Room(b) /\ outputs' = b) /\ UNCHANGED << task, events, heard >>
      BY <2>2, BatchIsSequence DEF TypeOK, DamageInside
    <2> QED BY <1>2, <2>1, <2>2 DEF Process
  <1>3. CASE ReadPdu \/ Serve
    <2>1. /\ UNCHANGED << fb, closing, telling, owner, pc, accepted, calls >>
          /\ telling = << >> /\ task = "selecting"
          /\ task' = task \/ task' = "leaving"
          /\ outputs' \in Seq(Output) /\ events' \in Seq(Event)
          /\ heard' \in BOOLEAN
          /\ \A i \in DOMAIN events' : WithinEvent(events'[i])
          /\ commands' \in Seq(Command) /\ served' \in Nat
      <3>1. CASE ReadPdu
        BY <3>1, <1>2 DEF ReadPdu, Selecting, appVars, TypeOK
      <3>2. CASE Serve
        <4>1. commands' \in Seq(Command) /\ served' \in Nat
          BY <3>2 DEF Serve, TypeOK
        <4>2. /\ UNCHANGED << fb, closing, telling, owner, pc, accepted, calls >>
              /\ telling = << >> /\ task = "selecting"
              /\ \/ task' = "leaving" /\ UNCHANGED << outputs, events, heard >>
                 \/ Process
          BY <3>2 DEF Serve, Selecting, appVars
        <4> QED BY <4>1, <4>2, <1>2 DEF TypeOK, DamageInside
      <3> QED BY <1>3, <3>1, <3>2
    <2>2. TypeOK'
      BY <2>1 DEF TypeOK, IsBuffer, Stages
    <2> QED BY <2>1, <2>2 DEF DamageInside, NothingHeldBack, EndIsTold, WithinEvent
  <1>4. CASE TellOutput
    <2>1. telling[1] \in Event /\ WithinEvent(telling[1])
      BY <1>4 DEF TellOutput, TypeOK, DamageInside
    <2>2. /\ events' \in Seq(Event) /\ heard' \in BOOLEAN
          /\ \A i \in DOMAIN events' : WithinEvent(events'[i])
      BY <1>4, <2>1, TellKeeps DEF TellOutput
    <2>3. /\ UNCHANGED << fb, closing, commands, task, outputs, owner, pc, accepted,
                          calls, served >>
          /\ telling # << >> /\ telling' = << >>
      BY <1>4 DEF TellOutput, appVars
    <2>4. task = "selecting"
      BY <2>3 DEF NothingHeldBack
    <2>5. TypeOK'
      BY <2>2, <2>3 DEF TypeOK, IsBuffer
    <2> QED BY <2>2, <2>3, <2>4, <2>5 DEF DamageInside, NothingHeldBack, EndIsTold, WithinEvent
  <1>5. CASE Leave
    BY <1>5 DEF Leave, appVars, TypeOK, IsBuffer, DamageInside, NothingHeldBack,
                EndIsTold, WithinEvent, Stages
  <1>6. CASE Shutdown
    <2>1. /\ events' \in Seq(Event) /\ heard' \in BOOLEAN
          /\ \A i \in DOMAIN events' : WithinEvent(events'[i])
          /\ heard' \/ owner = "gone"
      BY <1>6, ClosedIsEvent, TellKeeps DEF Shutdown
    <2>2. /\ UNCHANGED << fb, closing, commands, outputs, telling, owner, pc, accepted,
                          calls, served >>
          /\ task = "shutdown" /\ task' = "ended"
      BY <1>6 DEF Shutdown, appVars
    <2>3. TypeOK'
      BY <2>1, <2>2 DEF TypeOK, IsBuffer, Stages
    <2> QED BY <2>1, <2>2, <2>3 DEF DamageInside, NothingHeldBack, EndIsTold, WithinEvent
  <1>7. CASE Finish
    <2>1. /\ UNCHANGED << fb, closing, outputs, telling, events, owner, pc, accepted,
                          calls, served, heard >>
          /\ task = "ended" /\ task' = "done" /\ commands' \in Seq(Command)
      BY <1>7 DEF Finish, appVars
    <2>2. TypeOK'
      BY <2>1 DEF TypeOK, IsBuffer, Stages
    <2> QED BY <2>1, <2>2 DEF DamageInside, NothingHeldBack, EndIsTold, WithinEvent
  <1> QED BY <1>1, <1>3, <1>4, <1>5, <1>6, <1>7

(* The steps that draw: the damage goes from the buffer into the event.    *)
LEMMA ApplyInv ==
  ASSUME RdpInv, ApplyOutput
  PROVE  RdpInv'
  <1> USE DEF RdpInv
  <1> DEFINE o == Head(outputs)
  <1>1. /\ UNCHANGED << closing, commands, task, events, owner, pc, accepted, calls,
                        served, heard >>
        /\ task = "selecting" /\ telling = << >>
        /\ outputs # << >> /\ outputs' = Tail(outputs)
    BY DEF ApplyOutput, appVars
  <1>2. o \in Output /\ outputs' \in Seq(Output)
    BY <1>1 DEF TypeOK
  <1>3. IsBuffer(fb) /\ AllInside(fb.damage, fb.width, fb.height)
    BY DEF TypeOK, DamageInside, AllInside
  <1>4. /\ IsBuffer(fb') /\ AllInside(fb'.damage, fb'.width, fb'.height)
        /\ telling' \in Seq(Event) /\ Len(telling') <= 1
        /\ \A i \in DOMAIN telling' : WithinEvent(telling'[i])
    <2>1. CASE o.kind = "Graphics" /\ ApplyGraphics(o.update)
      <3>1. o.update.rect \in Rect /\ o.update.data \in Seq(Colours)
        BY <1>2, <2>1, RdpAssumption DEF Output
      <3> DEFINE drawn == Blit(fb, o.update.rect, o.update.data)
      <3>2. IsBuffer(drawn) /\ AllInside(drawn.damage, drawn.width, drawn.height)
        BY <1>3, <3>1, BlitIsBuffer
      <3>3. /\ telling' = << Frame(drawn.damage, drawn.width, drawn.height) >>
            /\ fb' = TakeDamage(drawn)
        BY <2>1 DEF ApplyGraphics
      <3> HIDE DEF drawn
      <3>4. IsBuffer(fb') /\ fb'.damage = << >>
        BY <3>2, <3>3, TakeDamageIsBuffer
      <3>5. /\ Frame(drawn.damage, drawn.width, drawn.height) \in Event
            /\ WithinEvent(Frame(drawn.damage, drawn.width, drawn.height))
        BY <3>2, FrameIsEvent
      <3> QED BY <3>3, <3>4, <3>5 DEF AllInside
    <2>2. CASE o.kind = "DesktopSize" /\ ApplySize(o.size)
      <3>1. o.size \in Sizes
        BY <1>2, <2>2 DEF Output
      <3>2. o.size[1] \in Nat \ {0} /\ o.size[2] \in Nat \ {0} /\ o.size[1] * o.size[2] < Word
        BY <3>1, RdpAssumption, SizesFit
      <3>3. fb' = Resize(fb, o.size[1], o.size[2]) /\ telling' = << Resized(o.size) >>
        BY <2>2 DEF ApplySize
      <3>4. IsBuffer(fb') /\ AllInside(fb'.damage, fb'.width, fb'.height)
        BY <1>3, <3>2, <3>3, ResizeIsBuffer
      <3>5. Resized(o.size) \in Event /\ WithinEvent(Resized(o.size))
        BY <3>1, ResizedIsEvent
      <3> QED BY <3>3, <3>4, <3>5
    <2>3. CASE o.kind = "Terminate" /\ telling' = << Closed >> /\ UNCHANGED fb
      BY <1>3, <2>3, ClosedIsEvent
    <2>4. CASE o.kind = "Notice" /\ telling' = << Notice >> /\ UNCHANGED fb
      BY <1>3, <2>4, ClosedIsEvent
    <2> QED BY <2>1, <2>2, <2>3, <2>4 DEF ApplyOutput
  <1>5. TypeOK'
    BY <1>1, <1>2, <1>4 DEF TypeOK
  <1>6. DamageInside'
    BY <1>1, <1>4 DEF DamageInside, AllInside
  <1> QED BY <1>1, <1>5, <1>6 DEF NothingHeldBack, EndIsTold

LEMMA NextInv == RdpInv /\ [Next]_vars => RdpInv'
  <1> SUFFICES ASSUME RdpInv, [Next]_vars PROVE RdpInv'
    OBVIOUS
  <1>1. CASE UNCHANGED vars
    BY <1>1 DEF vars, RdpInv, TypeOK, IsBuffer, DamageInside, NothingHeldBack,
                EndIsTold, WithinEvent
  <1>2. CASE Next
    BY <1>2, CallInv, OwnerInv, RepaintInv, PumpInv, ApplyInv DEF Next, Task
  <1> QED BY <1>1, <1>2

THEOREM RdpInvariant == Spec => []RdpInv
  BY InitInv, NextInv, PTL DEF Spec

(* The types, and with them that, for desktops whose bytes 32 bits can     *)
(* count (SizesFit), no bitmap or resize makes the code index outside an   *)
(* array: the buffer has a colour for each of its pixels, whatever         *)
(* rectangles and however little data the server sends.                    *)
THEOREM TypeCorrect == Spec => []TypeOK
  BY RdpInvariant, PTL DEF RdpInv

(* Damage never reaches outside the size it is reported with.              *)
THEOREM DamageTheorem == Spec => []DamageInside
  BY RdpInvariant, PTL DEF RdpInv

(* The last event of a session that is over is Closed.                     *)
THEOREM EndTheorem == Spec => []EndIsTold
  BY RdpInvariant, PTL DEF RdpInv

-----------------------------------------------------------------------------
(* The picture of the server.                                              *)

LEMMA TakenShows ==
  ASSUME NEW b
  PROVE  /\ Picture(TakeDamage(b)) = Picture(b)
         /\ TakeDamage(b).width = b.width /\ TakeDamage(b).height = b.height
  BY DEF Picture, TakeDamage

LEMMA LostStaysLost ==
  ASSUME NEW u
  PROVE  Drawn(Lost, u) = Lost
  <1>1. DOMAIN Lost = {}
    BY DEF Lost
  <1> QED BY <1>1 DEF Drawn, Lost

LEMMA PictureInit == Init => PictureFaithful
  BY DEF Init, PictureFaithful

LEMMA PictureStep == RdpInv /\ PictureFaithful /\ [Next]_vars => PictureFaithful'
  <1> SUFFICES ASSUME RdpInv, PictureFaithful, [Next]_vars PROVE PictureFaithful'
    OBVIOUS
  <1>1. IsBuffer(fb) /\ fb.width \in Nat \ {0} /\ fb.height \in Nat \ {0}
    BY DEF RdpInv, TypeOK, IsBuffer
  <1>2. CASE ApplyOutput
    <2> DEFINE o == Head(outputs)
    <2>1. o \in Output
      BY <1>2 DEF ApplyOutput, RdpInv, TypeOK
    <2>2. CASE o.kind = "Graphics" /\ ApplyGraphics(o.update)
      <3> DEFINE u == o.update
                 drawn == Blit(fb, u.rect, u.data)
      <3>1. u.rect \in Rect /\ u.data \in Seq(Colours)
        BY <2>1, <2>2, RdpAssumption DEF Output
      <3>2. fb' = TakeDamage(drawn)
            /\ desktop' = IF ~Fits(u) THEN Lost
                          ELSE IF IsCut(u) THEN desktop ELSE Drawn(desktop, u)
        BY <2>2 DEF ApplyGraphics
      <3> HIDE DEF o, u, drawn
      <3>3. Picture(fb') = Picture(drawn)
        BY <3>2, TakenShows
      <3> SUFFICES ASSUME desktop' # Lost PROVE Picture(drawn) = desktop'
        BY <3>3 DEF PictureFaithful
      <3>4. Fits(u) /\ desktop # Lost
        BY <3>2, LostStaysLost
      <3>5. Picture(fb) = desktop
        BY <3>4 DEF PictureFaithful
      <3>6. Cells(u.rect) \subseteq Grid(fb.width, fb.height)
        BY <3>4, <3>5, PictureShows DEF Fits
      <3>7. Picture(drawn) = IF IsCut(u) THEN desktop ELSE Drawn(desktop, u)
        BY <1>1, <3>1, <3>5, <3>6, BlitDraws DEF drawn
      <3> QED BY <3>2, <3>4, <3>7
    <2>3. CASE o.kind = "DesktopSize" /\ ApplySize(o.size)
      <3>1. o.size[1] \in Nat \ {0} /\ o.size[2] \in Nat \ {0} /\ o.size[1] * o.size[2] < Word
        BY <2>1, <2>3, RdpAssumption, SizesFit DEF Output
      <3>2. fb' = Resize(fb, o.size[1], o.size[2])
            /\ desktop' = IF desktop = Lost THEN Lost ELSE Sized(o.size[1], o.size[2], desktop)
        BY <2>3 DEF ApplySize
      <3>3. Picture(fb') = Sized(o.size[1], o.size[2], Picture(fb))
        BY <1>1, <3>1, <3>2, ResizeDraws
      <3> QED BY <3>2, <3>3 DEF PictureFaithful
    <2>4. CASE UNCHANGED << fb, desktop >>
      BY <2>4 DEF PictureFaithful
    <2> QED BY <1>2, <2>2, <2>3, <2>4 DEF ApplyOutput
  <1>3. CASE Repaint
    BY <1>3, TakenShows DEF Repaint, PictureFaithful
  <1>4. CASE UNCHANGED << fb, desktop >>
    BY <1>4 DEF PictureFaithful
  <1>5. ASSUME NEW c \in Callers, Call(c) PROVE UNCHANGED << fb, desktop >>
    BY <1>5 DEF Call, Send, SendQueues, RequestResize, Disconnect, DisconnectQueues
  <1>6. ASSUME Connect \/ Drop \/ DropQueues \/ Consume PROVE UNCHANGED << fb, desktop >>
    BY <1>6 DEF Connect, Drop, DropQueues, Consume
  <1>7. ASSUME Start \/ Serve \/ ReadPdu \/ TellOutput \/ Leave \/ Shutdown \/ Finish
        PROVE  UNCHANGED << fb, desktop >>
    BY <1>7 DEF Start, Serve, ReadPdu, TellOutput, Leave, Shutdown, Finish
  <1> QED BY <1>2, <1>3, <1>4, <1>5, <1>6, <1>7 DEF Next, Task, vars

(* The flat array shows what the server drew, through every sequence of    *)
(* bitmaps and resizes, for desktops of every size whose bytes 32 bits can *)
(* count (SizesFit).                                                       *)
THEOREM PictureTheorem == Spec => []PictureFaithful
  BY RdpInvariant, PictureInit, PictureStep, PTL DEF Spec
-----------------------------------------------------------------------------
(* The picture of an application that follows the events.                  *)

(* What it has still to hear: the queue, and the event about to be sent.   *)
Queued    == {events[i] : i \in DOMAIN events}
Pending   == Queued \cup {telling[i] : i \in DOMAIN telling}
Covers(e, c) == e.kind = "Frame" /\ \E i \in DOMAIN e.damage : c \in Cells(e.damage[i])
Replaced  == \E e \in Pending : e.kind = "Resized"

(* Each cell is shown as it is, or an event to come tells of it; before a  *)
(* Resized nothing need be right.                                          *)
AsGrid(f, grid) == f = [c \in grid |-> f[c]]
Shows ==
  /\ AsGrid(screen, Grid(fb.width, fb.height))
  /\ \A c \in Grid(fb.width, fb.height) :
        screen[c] = Picture(fb)[c] \/ \E e \in Pending : Covers(e, c)
Followed == owner # "gone" => Replaced \/ Shows

LEMMA FollowedInit == Init => Followed
  BY PictureShows DEF Init, Followed, Shows, AsGrid

LEMMA FollowedCatchesUp == Followed => ScreenCatchesUp
  <1> SUFFICES ASSUME Followed, owner = "held", events = << >>, telling = << >>
               PROVE  screen = Picture(fb)
    BY DEF ScreenCatchesUp
  <1>1. Pending = {}
    BY DEF Pending, Queued
  <1>2. Shows
    BY <1>1 DEF Followed, Replaced
  <1> QED BY <1>1, <1>2, PictureShows DEF Shows, AsGrid

(* Nothing that is to be told is lost on the way into the queue.           *)
LEMMA TellQueues ==
  ASSUME TypeOK, NEW e, owner # "gone", Tell(e)
  PROVE  Queued \cup {e} \subseteq Queued'
  <1>1. events' = Append(events, e) /\ events \in Seq(Event)
    BY DEF Tell, TypeOK
  <1>2. \A i \in DOMAIN events : i \in DOMAIN events' /\ events'[i] = events[i]
    BY <1>1
  <1>3. Len(events) + 1 \in DOMAIN events' /\ events'[Len(events) + 1] = e
    BY <1>1
  <1> QED BY <1>2, <1>3 DEF Queued

(* A step that leaves both pictures and drops no event.                    *)
LEMMA MoreToHear ==
  ASSUME Followed, screen' = screen, Picture(fb') = Picture(fb),
         fb'.width = fb.width, fb'.height = fb.height,
         owner' # "gone" => owner # "gone" /\ Pending \subseteq Pending'
  PROVE  Followed'
  <1> SUFFICES ASSUME owner' # "gone" PROVE (Replaced \/ Shows)'
    BY DEF Followed
  <1>1. Replaced => Replaced'
    BY DEF Replaced
  <1>2. Shows => Shows'
    BY DEF Shows
  <1> QED BY <1>1, <1>2 DEF Followed

(* The first event is consumed: it is followed, and the others are kept.   *)
LEMMA ConsumeFollows ==
  ASSUME RdpInv, Followed, Consume
  PROVE  Followed'
  <1> DEFINE e    == Head(events)
             now  == Picture(fb)
             seen == UNION {Cells(r) : r \in {e.damage[i] : i \in DOMAIN e.damage}}
             grid == Grid(fb.width, fb.height)
  <1>1. /\ events # << >> /\ events' = Tail(events) /\ events \in Seq(Event)
        /\ UNCHANGED << fb, telling, owner >> /\ owner = "held"
    BY DEF Consume, Exclusive, appVars, RdpInv, TypeOK
  <1>2. e \in Event /\ e.kind \in {"Frame", "Resized", "Notice", "Closed"}
    <2>1. e \in Event
      BY <1>1
    <2> HIDE DEF e
    <2> QED BY <2>1 DEF Event
  <1>3. screen' = CASE e.kind = "Resized" -> now
                    [] e.kind = "Frame" ->
                         [c \in DOMAIN screen |->
                            IF c \in seen /\ c \in DOMAIN now THEN now[c] ELSE screen[c]]
                    [] OTHER -> screen
    BY DEF Consume
  <1>4. Pending \subseteq Pending' \cup {e}
    <2>1. \A i \in DOMAIN events : i # 1 => i - 1 \in DOMAIN events' /\ events'[i - 1] = events[i]
      BY <1>1
    <2>2. events[1] = e
      BY <1>1
    <2>3. Queued \subseteq Queued' \cup {e}
      BY <2>1, <2>2 DEF Queued
    <2> QED BY <1>1, <2>3 DEF Pending
  <1>5. \A c : Covers(e, c) <=> e.kind = "Frame" /\ c \in seen
    BY DEF Covers
  <1>6. DOMAIN now = grid /\ AsGrid(now, grid)
    BY PictureShows DEF AsGrid
  <1> HIDE DEF e, now, seen, grid
  <1>7. /\ (Grid(fb.width, fb.height))' = grid /\ Picture(fb)' = now
        /\ Shows <=> /\ AsGrid(screen, grid)
                     /\ \A c \in grid :
                           screen[c] = now[c] \/ \E d \in Pending : Covers(d, c)
    BY <1>1 DEF now, grid, Shows, Grid, Picture
  <1>8. \/ Replaced'
        \/ /\ AsGrid(screen', grid)
           /\ \A c \in grid : screen'[c] = now[c] \/ \E d \in Pending' : Covers(d, c)
    <2>1. CASE e.kind = "Resized"
      <3>1. screen' = now
        BY <1>3, <2>1
      <3> QED BY <1>6, <3>1
    <2>2. CASE e.kind # "Resized" /\ Replaced
      BY <1>4, <2>2 DEF Replaced
    <2>3. CASE e.kind # "Resized" /\ ~Replaced
      <3>1. /\ AsGrid(screen, grid)
            /\ \A c \in grid : screen[c] = now[c] \/ \E d \in Pending : Covers(d, c)
        BY <1>1, <1>7, <2>3 DEF Followed
      <3>2. CASE e.kind = "Frame"
        <4>1. screen' = [c \in grid |-> IF c \in seen THEN now[c] ELSE screen[c]]
          <5>1. DOMAIN screen = grid
            BY <3>1 DEF AsGrid
          <5>2. screen' = [c \in DOMAIN screen |->
                             IF c \in seen /\ c \in DOMAIN now THEN now[c] ELSE screen[c]]
            BY <1>3, <3>2
          <5> QED BY <1>6, <5>1, <5>2
        <4>2. AsGrid(screen', grid)
          BY <4>1 DEF AsGrid
        <4>3. ASSUME NEW c \in grid
              PROVE  screen'[c] = now[c] \/ \E d \in Pending' : Covers(d, c)
          <5>1. CASE c \in seen
            BY <4>1, <5>1
          <5>2. CASE c \notin seen
            <6>1. screen'[c] = screen[c]
              BY <4>1, <5>2
            <6>2. screen[c] = now[c] \/ \E d \in Pending : Covers(d, c)
              BY <3>1
            <6>3. ~Covers(e, c)
              BY <1>5, <5>2
            <6> QED BY <1>4, <6>1, <6>2, <6>3
          <5> QED BY <5>1, <5>2
        <4> QED BY <4>2, <4>3
      <3>3. CASE e.kind # "Frame"
        <4>1. screen' = screen
          BY <1>3, <2>3, <3>3
        <4>2. \A c : ~Covers(e, c)
          BY <1>5, <3>3
        <4>3. \A c : (\E d \in Pending : Covers(d, c)) => \E d \in Pending' : Covers(d, c)
          BY <1>4, <4>2
        <4> QED BY <3>1, <4>1, <4>3
      <3> QED BY <3>2, <3>3
    <2> QED BY <2>1, <2>2, <2>3
  <1> QED BY <1>7, <1>8 DEF Followed, Shows

(* A bitmap is told of as it is drawn, a new size as it is taken.          *)
LEMMA ApplyFollows ==
  ASSUME RdpInv, Followed, ApplyOutput
  PROVE  Followed'
  <1> DEFINE o == Head(outputs)
  <1>1. /\ UNCHANGED << events, screen, owner >> /\ telling = << >>
        /\ o \in Output
    BY DEF ApplyOutput, appVars, RdpInv, TypeOK
  <1>2. Pending = Queued /\ Queued' = Queued
    BY <1>1 DEF Pending, Queued
  <1>3. Pending \subseteq Pending'
    BY <1>2 DEF Pending
  <1>4. CASE o.kind = "Graphics" /\ ApplyGraphics(o.update)
    <2> DEFINE u == o.update
               drawn == Blit(fb, u.rect, u.data)
               frame == Frame(drawn.damage, drawn.width, drawn.height)
               grid == Grid(fb.width, fb.height)
    <2>1. u.rect \in Rect /\ u.data \in Seq(Colours)
      BY <1>1, <1>4, RdpAssumption DEF Output
    <2>2. fb' = TakeDamage(drawn) /\ telling' = << frame >>
      BY <1>4 DEF ApplyGraphics
    <2>3. frame.kind = "Frame" /\ frame.damage = drawn.damage
      BY DEF Frame
    <2>4. /\ drawn.width = fb.width /\ drawn.height = fb.height
          /\ \A c \in grid :
                Picture(drawn)[c] # Picture(fb)[c] =>
                   \E i \in DOMAIN drawn.damage : c \in Cells(drawn.damage[i])
      BY <2>1, BlitCovered DEF RdpInv, TypeOK
    <2> HIDE DEF o, u, drawn, frame, grid
    <2>5. frame \in Pending'
      <3>1. 1 \in DOMAIN telling' /\ telling'[1] = frame
        BY <2>2
      <3> QED BY <3>1 DEF Pending
    <2>6. Picture(fb)' = Picture(drawn) /\ (Grid(fb.width, fb.height))' = grid
      BY <2>2, <2>4, TakenShows DEF Grid, grid
    <2>7. Replaced => Replaced'
      BY <1>3 DEF Replaced
    <2>8. ASSUME Shows PROVE Shows'
      <3>1. AsGrid(screen, grid)
        BY <2>8 DEF Shows, grid
      <3>2. ASSUME NEW c \in grid
            PROVE  screen[c] = Picture(drawn)[c] \/ \E e \in Pending' : Covers(e, c)
        <4>1. CASE Picture(drawn)[c] = Picture(fb)[c]
          BY <1>3, <2>8, <4>1 DEF Shows, grid
        <4>2. CASE Picture(drawn)[c] # Picture(fb)[c]
          <5>1. Covers(frame, c)
            BY <2>3, <2>4, <4>2 DEF Covers
          <5> QED BY <2>5, <5>1
        <4> QED BY <4>1, <4>2
      <3> QED BY <1>1, <2>6, <3>1, <3>2 DEF Shows
    <2> QED BY <1>1, <2>7, <2>8 DEF Followed
  <1>5. CASE o.kind = "DesktopSize" /\ ApplySize(o.size)
    <2>1. telling' = << Resized(o.size) >>
      BY <1>5 DEF ApplySize
    <2>2. 1 \in DOMAIN telling' /\ telling'[1].kind = "Resized"
      BY <2>1 DEF Resized
    <2>3. Replaced'
      BY <2>2 DEF Replaced, Pending
    <2> QED BY <2>3 DEF Followed
  <1>6. CASE UNCHANGED fb
    BY <1>1, <1>3, <1>6, MoreToHear
  <1> QED BY <1>4, <1>5, <1>6 DEF ApplyOutput

(* Before it connects the application has no session to drop.              *)
Unconnected == task = "none" => owner = "none"

LEMMA UnconnectedStep == Unconnected /\ [Next]_vars => Unconnected'
  <1> SUFFICES ASSUME Unconnected, [Next]_vars PROVE Unconnected'
    OBVIOUS
  <1>1. ASSUME NEW c \in Callers, Call(c) PROVE UNCHANGED << task, owner >>
    BY <1>1 DEF Call, Send, SendQueues, RequestResize, Disconnect, DisconnectQueues
  <1>2. ASSUME Consume \/ Repaint \/ ApplyOutput \/ TellOutput \/ UNCHANGED vars
        PROVE  UNCHANGED << task, owner >>
    BY <1>2 DEF Consume, Repaint, ApplyOutput, TellOutput, vars, appVars
  <1>3. ASSUME Start \/ Serve \/ ReadPdu \/ Leave \/ Shutdown \/ Finish
        PROVE  UNCHANGED owner /\ (task' = "none" => task = "none")
    BY <1>3 DEF Start, Serve, ReadPdu, Process, Fail, Leave, Shutdown, Finish, appVars
  <1>4. CASE Connect \/ Drop \/ DropQueues
    BY <1>4 DEF Connect, Drop, Exclusive, DropQueues, Unconnected
  <1> QED BY <1>1, <1>2, <1>3, <1>4 DEF Unconnected, Next, Task

LEMMA FollowedStep == RdpInv /\ Unconnected /\ Followed /\ [Next]_vars => Followed'
  <1> SUFFICES ASSUME RdpInv, Unconnected, Followed, [Next]_vars PROVE Followed'
    OBVIOUS
  <1> USE DEF RdpInv
  <1>1. ASSUME UNCHANGED << events, telling, screen >>,
               fb' = fb \/ fb' = TakeDamage(fb), owner' # "gone" => owner # "gone"
        PROVE  Followed'
    <2>1. Pending' = Pending
      BY <1>1 DEF Pending, Queued
    <2> QED BY <1>1, <2>1, TakenShows, MoreToHear
  <1>2. ASSUME NEW e, Tell(e), UNCHANGED << telling, screen, fb, owner >>
        PROVE  Followed'
    <2>1. owner # "gone" => Pending \subseteq Pending'
      BY <1>2, TellQueues DEF Pending
    <2> QED BY <1>2, <2>1, MoreToHear
  <1>3. ASSUME NEW c \in Callers, Call(c) PROVE Followed'
    BY <1>1, <1>3 DEF Call, Send, SendQueues, RequestResize, Disconnect, DisconnectQueues
  <1>4. CASE Connect \/ Drop
    <2>1. owner # "gone"
      BY <1>4 DEF Connect, Drop, Exclusive, Unconnected
    <2> QED BY <1>1, <1>4, <2>1 DEF Connect, Drop
  <1>5. CASE DropQueues
    BY <1>5 DEF DropQueues, Followed
  <1>6. CASE Repaint \/ Leave \/ Finish
    BY <1>1, <1>6 DEF Repaint, Leave, Finish, appVars
  <1>7. CASE Start \/ Shutdown
    <2>1. /\ Tell(Closed) \/ UNCHANGED events
          /\ UNCHANGED << telling, screen, fb, owner >>
      BY <1>7 DEF Start, Shutdown, appVars
    <2> QED BY <1>1, <1>2, <2>1
  <1>8. CASE Serve \/ ReadPdu
    <2>1. /\ Tell(Closed) \/ UNCHANGED events
          /\ UNCHANGED << telling, screen, fb, owner >>
      BY <1>8 DEF Serve, ReadPdu, Process, Fail, appVars
    <2> QED BY <1>1, <1>2, <2>1
  <1>9. CASE TellOutput
    <2>1. Tell(telling[1]) /\ telling \in Seq(Event) /\ Len(telling) <= 1 /\ telling # << >>
          /\ UNCHANGED << screen, fb, owner >>
      BY <1>9 DEF TellOutput, appVars, TypeOK
    <2>2. {telling[i] : i \in DOMAIN telling} \subseteq {telling[1]}
      BY <2>1
    <2>3. owner # "gone" => Pending \subseteq Pending'
      BY <2>1, <2>2, TellQueues DEF Pending
    <2> QED BY <2>1, <2>3, MoreToHear
  <1>10. CASE UNCHANGED vars
    BY <1>1, <1>10 DEF vars
  <1> QED BY <1>3, <1>4, <1>5, <1>6, <1>7, <1>8, <1>9, <1>10, ConsumeFollows, ApplyFollows
          DEF Next, Task

(* An application that does what the events say shows the buffer's picture *)
(* when it has heard them all, whatever the renderer took of the damage.   *)
THEOREM ScreenTheorem == Spec => []ScreenCatchesUp
  <1>1. Followed => ScreenCatchesUp
    BY FollowedCatchesUp
  <1>2. Init => Unconnected
    BY DEF Init, Unconnected
  <1> QED BY <1>1, <1>2, RdpInvariant, UnconnectedStep, FollowedInit, FollowedStep, PTL DEF Spec
=============================================================================
