--------------------------------- MODULE Vision ---------------------------------
(***************************************************************************)
(* The image kernels that have a vector version                            *)
(* (externals/vikit/src/vision.cpp, patch_score.h): halfSample makes a     *)
(* level of the image pyramid of the one before, calcSharrDeriv takes the  *)
(* gradient of an image, ZMSSD compares two patches.  shiTomasiScore has   *)
(* only the test that keeps it inside the image here.                      *)
(***************************************************************************)
EXTENDS Integers

Pixel == 0 .. 255

-----------------------------------------------------------------------------
(* halfSample: one pixel of four, two of which are of the row tl, tr and    *)
(* two of the row bl, br.                                                  *)

Scalar(tl, tr, bl, br) == (tl + tr + bl + br) \div 4

(* _mm_avg_epu8 and _mm_avg_epu16.                                          *)
Avg(x, y) == (x + y + 1) \div 2
SSE2(tl, tr, bl, br) == Avg(Avg(tl, bl), Avg(tr, br))

(* Where in the image of the given stride (in.cols, in.step) the pointers   *)
(* top and bottom of the plain version are when pixel x of row y is made.   *)
OutWidth(cols) == cols \div 2
Top(cols, x, y) == y * (2 * OutWidth(cols) + cols) + 2 * x
Bottom(cols, x, y) == Top(cols, x, y) + cols

(* Row y is made: bottom < end at its beginning.                            *)
RowMade(rows, cols, y) == Bottom(cols, 0, y) < cols * rows

(* The NEON version: vaddl_u8 and vaddw_u8 add in 16 bits, vshrn_n_u16      *)
(* shifts and keeps the lower byte.                                        *)
AddU16(x, y) == (x + y) % 65536
NEON(tl, tr, bl, br) == (AddU16(AddU16(AddU16(tl, tr), bl), br) \div 4) % 256

(* Row y of the new image is made of rows 2 y and 2 y + 1 while 2 y is a    *)
(* row of the image.                                                       *)
NEONTop(cols, x, y) == (2 * y) * cols + 2 * x
NEONBottom(cols, x, y) == (2 * y + 1) * cols + 2 * x
NEONRowMade(rows, y) == 2 * y < rows

-----------------------------------------------------------------------------
(* shiTomasiScore: the score of the corner (u, v)                           *)

HalfBox == 4

(* Not too close to the border, so that the score is not 0 at once.         *)
Scored(rows, cols, u, v) ==
  /\ u - HalfBox >= 1 /\ u + HalfBox < cols - 1
  /\ v - HalfBox >= 1 /\ v + HalfBox < rows - 1

(* ptr_left, ptr_right, ptr_top and ptr_bottom for each pixel of the box.   *)
Box(u, v) == (u - HalfBox .. u + HalfBox - 1) \X (v - HalfBox .. v + HalfBox - 1)
PixelsRead(u, v) ==
  UNION {{<<p[1] - 1, p[2]>>, <<p[1] + 1, p[2]>>, <<p[1], p[2] - 1>>, <<p[1], p[2] + 1>>} :
           p \in Box(u, v)}

-----------------------------------------------------------------------------
(* calcSharrDeriv on an image with one channel, img[y][x]                   *)

(* A row or a column outside the image is the one next to the border, if    *)
(* there is one.                                                           *)
Mirrored(i, n) ==
  IF i < 0 THEN (IF n > 1 THEN 1 ELSE 0)
  ELSE IF i >= n THEN (IF n > 1 THEN n - 2 ELSE 0) ELSE i

(* The pixels around (x, y), p[row][column].                                *)
Around(img, rows, cols, x, y) ==
  [dy \in -1 .. 1 |-> [dx \in -1 .. 1 |-> img[Mirrored(y + dy, rows)][Mirrored(x + dx, cols)]]]

(* The plain version: int, then a cast to deriv_type, a short.              *)
Short(v) == ((v + 32768) % 65536) - 32768
Smooth(s0, s1, s2) == Short((s0 + s2) * 3 + s1 * 10)
Differ(s0, s2) == Short(s2 - s0)

(* The SSE2 version: every operation in 16 bits.                            *)
AddEpi16(x, y) == Short(x + y)
SubEpi16(x, y) == Short(x - y)
MulloEpi16(x, y) == Short(x * y)
SmoothSSE2(s0, s1, s2) == AddEpi16(MulloEpi16(AddEpi16(s0, s2), 3), MulloEpi16(s1, 10))
DifferSSE2(s0, s2) == SubEpi16(s2, s0)

(* Down the columns first (trow0 smooths, trow1 differs), then along the    *)
(* rows.                                                                   *)
DerivX(p) ==
  Differ(Smooth(p[-1][-1], p[0][-1], p[1][-1]), Smooth(p[-1][1], p[0][1], p[1][1]))
DerivY(p) ==
  Smooth(Differ(p[-1][-1], p[1][-1]), Differ(p[-1][0], p[1][0]), Differ(p[-1][1], p[1][1]))
DerivXSSE2(p) ==
  DifferSSE2(SmoothSSE2(p[-1][-1], p[0][-1], p[1][-1]), SmoothSSE2(p[-1][1], p[0][1], p[1][1]))
DerivYSSE2(p) ==
  SmoothSSE2(DifferSSE2(p[-1][-1], p[1][-1]), DifferSSE2(p[-1][0], p[1][0]),
             DifferSSE2(p[-1][1], p[1][1]))

-----------------------------------------------------------------------------
(* ZMSSD on patches of 8 by 8 pixels                                        *)

Side == 0 .. 7
Patch == [Side -> [Side -> Pixel]]
SumOf8(f) == f[0] + f[1] + f[2] + f[3] + f[4] + f[5] + f[6] + f[7]

(* The plain version, row by row.                                           *)
Sum(a) == SumOf8([y \in Side |-> SumOf8(a[y])])
Products(a, c) == [y \in Side |-> [x \in Side |-> a[y][x] * c[y][x]]]
SumOfProducts(a, c) == Sum(Products(a, c))

(* The SSE2 version: eight sums of 16 bits that saturate, and for the       *)
(* products four of 32 bits that do not.                                   *)
Word == 65536
AddsEpu16(x, y) == IF x + y > Word - 1 THEN Word - 1 ELSE x + y
AddEpi32(x, y) == (x + y) % (Word * Word)
Lane16(a, x) ==
  AddsEpu16(a[7][x], AddsEpu16(a[6][x], AddsEpu16(a[5][x], AddsEpu16(a[4][x],
  AddsEpu16(a[3][x], AddsEpu16(a[2][x], AddsEpu16(a[1][x], a[0][x])))))))
Lane32(p, l) ==
  LET madd(y) == p[y][2 * l] + p[y][2 * l + 1]
  IN  AddEpi32(madd(7), AddEpi32(madd(6), AddEpi32(madd(5), AddEpi32(madd(4),
      AddEpi32(madd(3), AddEpi32(madd(2), AddEpi32(madd(1), madd(0))))))))
SumXMM16(a) == SumOf8([x \in Side |-> Lane16(a, x)])
SumXMM32(p) == Lane32(p, 0) + Lane32(p, 1) + Lane32(p, 2) + Lane32(p, 3)
=============================================================================
