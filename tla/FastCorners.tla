------------------------------ MODULE FastCorners ------------------------------
(***************************************************************************)
(* The FAST-10 corner tests (externals/fast/src): a pixel is a corner if,  *)
(* of the ring of 16 pixels around it, 10 in a row are brighter than it by *)
(* more than a barrier, or 10 in a row darker.  The generated decision     *)
(* trees (fast_10.cpp, corner_10.h) are what they decide; the SSE2 version *)
(* has a formula of its own, and walks a row of the image in blocks of 16. *)
(***************************************************************************)
EXTENDS Integers

Byte == 0 .. 255

(* The ring as the array pixel[] of fast_10.cpp numbers it.                 *)
Ring == 0 .. 15
RingX(r) == <<0, 1, 2, 3, 3, 3, 2, 1, 0, -1, -2, -3, -3, -3, -2, -1>>[r + 1]
RingY(r) == <<3, 3, 2, 1, 0, -1, -2, -3, -3, -3, -2, -1, 0, 1, 2, 3>>[r + 1]
RingAround(img, at) == [r \in Ring |-> img[<<at[1] + RingX(r), at[2] + RingY(r)>>]]

-----------------------------------------------------------------------------
(* The plain version                                                        *)

Arc(s) == {(s + k) % 16 : k \in 0 .. 9}
Contiguous(flags) == \E s \in Ring : Arc(s) \subseteq flags

Brighter(ring, center, barrier) == {r \in Ring : ring[r] > center + barrier}
Darker(ring, center, barrier) == {r \in Ring : ring[r] < center - barrier}

IsCorner(ring, center, barrier) ==
  \/ Contiguous(Brighter(ring, center, barrier))
  \/ Contiguous(Darker(ring, center, barrier))

CornerAt(img, at, barrier) == IsCorner(RingAround(img, at), img[at], barrier)

(* fast_corner_detect_10.                                                   *)
DetectPlain(img, w, h, barrier) ==
  {at \in (3 .. w - 4) \X (3 .. h - 4) : CornerAt(img, at, barrier)}

-----------------------------------------------------------------------------
(* The SSE2 version                                                         *)

SubsEpu8(x, y) == IF x < y THEN 0 ELSE x - y
AddsEpu8(x, y) == IF x + y > 255 THEN 255 ELSE x + y

(* CHECK_BARRIER with lo and hi, for the two halves of its flags.  The      *)
(* barrier is cast to a byte.                                              *)
FlaggedDarker(ring, center, barrier) ==
  {r \in Ring : SubsEpu8(SubsEpu8(center, barrier % 256), ring[r]) # 0}
FlaggedBrighter(ring, center, barrier) ==
  {r \in Ring : SubsEpu8(ring[r], AddsEpu8(barrier % 256, center)) # 0}

(* The formula of faster_corner_detect_10, with its names for the pixels:   *)
(* b is the top of the ring, e its bottom.                                 *)
Possible(flags) ==
  LET e == 0 \in flags   f == 1 \in flags   p == 2 \in flags   l == 3 \in flags
      k == 4 \in flags   j == 5 \in flags   n == 6 \in flags   c == 7 \in flags
      b == 8 \in flags   a == 9 \in flags   m == 10 \in flags  g == 11 \in flags
      h == 12 \in flags  i == 13 \in flags  o == 14 \in flags  d == 15 \in flags
      abc == a /\ b /\ c
      ghi == g /\ h /\ i
  IN  /\ (m /\ b) \/ (e /\ p)
      /\ o \/ (b /\ n)
      /\ n \/ (e /\ o)
      /\ h \/ (n /\ k /\ p)
      /\ k \/ (m /\ h /\ o)
      /\ a \/ (e /\ p)
      /\ c \/ (o /\ e)
      /\ d \/ (abc /\ n)
      /\ f \/ (m /\ abc)
      /\ g \/ (f /\ p /\ k)
      /\ i \/ (c /\ n /\ k)
      /\ j \/ (d /\ o /\ ghi)
      /\ l \/ (m /\ a /\ ghi)

FlaggedAt(img, at, barrier) ==
  LET ring == RingAround(img, at)
      center == img[at]
  IN  \/ Possible(FlaggedDarker(ring, center, barrier))
      \/ Possible(FlaggedBrighter(ring, center, barrier))

(* A row of width w: its first columns and its last ones are tested one by  *)
(* one, those between in blocks.                                           *)
XEnd(w) == (w - 3) - ((w - 3) % 16)
HeadColumns == 3 .. 15
BlockStarts(w) == {x \in 16 .. XEnd(w) - 1 : x % 16 = 0}
Blocks(w) == UNION {x .. x + 15 : x \in BlockStarts(w)}
TailColumns(w) == XEnd(w) .. w - 4

(* fast_corner_detect_10_sse2.                                              *)
DetectSSE2(img, w, h, barrier) ==
  IF w < 22 THEN DetectPlain(img, w, h, barrier)
  ELSE IF h < 7 THEN {}
  ELSE {at \in (HeadColumns \cup TailColumns(w)) \X (3 .. h - 4) : CornerAt(img, at, barrier)}
       \cup {at \in Blocks(w) \X (3 .. h - 4) : FlaggedAt(img, at, barrier)}
=============================================================================
