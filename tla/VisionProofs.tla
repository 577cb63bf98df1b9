------------------------------ MODULE VisionProofs ------------------------------
(***************************************************************************)
(* How far the vector versions agree with the plain ones, for all pixels,  *)
(* what the computations on images read, and that their integers are wide  *)
(* enough; the corner detectors and their score; the choice among the      *)
(* decompositions of a homography.                                         *)
(***************************************************************************)
EXTENDS FeatureAlignment, HomographyDecomposition, FastScore, FiniteSetTheorems, TLAPS

(* halfSample: the SSE2 version rounds up where the plain one rounds down,  *)
(* which makes a pixel brighter by one at most; a level of the pyramid      *)
(* depends on the alignment of the images to that extent.                  *)
THEOREM HalfSampleAgrees ==
  ASSUME NEW tl \in Pixel, NEW tr \in Pixel, NEW bl \in Pixel, NEW br \in Pixel
  PROVE  /\ Scalar(tl, tr, bl, br) \in Pixel /\ SSE2(tl, tr, bl, br) \in Pixel
         /\ SSE2(tl, tr, bl, br) - Scalar(tl, tr, bl, br) \in {0, 1}
BY DEF Pixel, Scalar, SSE2, Avg

(* With an even number of columns the plain version makes each pixel of the *)
(* four that it stands for, and as many rows as the new image has.          *)
THEOREM HalfSampleInPlace ==
  ASSUME NEW rows \in Nat, NEW cols \in Nat \ {0}, cols % 2 = 0, NEW x \in Nat, NEW y \in Nat
  PROVE  /\ Top(cols, x, y) = (2 * y) * cols + 2 * x
         /\ Bottom(cols, x, y) = (2 * y + 1) * cols + 2 * x
         /\ RowMade(rows, cols, y) <=> y < rows \div 2
<1>1. 2 * OutWidth(cols) + cols = 2 * cols
  BY DEF OutWidth
<1>2. ASSUME NEW u \in Nat
      PROVE  /\ Top(cols, u, y) = (2 * y) * cols + 2 * u
             /\ Bottom(cols, u, y) = (2 * y + 1) * cols + 2 * u
  <2>1. Top(cols, u, y) = y * (2 * cols) + 2 * u
    BY <1>1 DEF Top
  <2>2. y * (2 * cols) = (2 * y) * cols /\ (2 * y + 1) * cols = (2 * y) * cols + cols
    OBVIOUS
  <2>3. (2 * y) * cols \in Int
    OBVIOUS
  <2> QED BY <2>1, <2>2, <2>3 DEF Bottom
<1>3. Bottom(cols, 0, y) = (2 * y + 1) * cols
  <2>1. (2 * y + 1) * cols \in Int
    OBVIOUS
  <2> QED BY <1>2, <2>1
<1>4. RowMade(rows, cols, y) <=> 2 * y + 1 < rows
  <2>1. ASSUME 2 * y + 1 < rows PROVE (2 * y + 1) * cols < cols * rows
    BY <2>1, SMT
  <2>2. ASSUME 2 * y + 1 >= rows PROVE (2 * y + 1) * cols >= cols * rows
    BY <2>2, SMT
  <2>3. (2 * y + 1) * cols \in Int /\ cols * rows \in Int
    OBVIOUS
  <2> QED BY <1>3, <2>1, <2>2, <2>3 DEF RowMade
<1> QED BY <1>2, <1>4

(* With an odd number every row is made of pixels one column further to the *)
(* left than the row before.                                               *)
THEOREM HalfSampleSkews ==
  ASSUME NEW cols \in Nat, cols % 2 = 1, NEW x \in Nat, NEW y \in Nat
  PROVE  Top(cols, x, y) = (2 * y) * cols + 2 * x - y
<1>1. 2 * OutWidth(cols) + cols = 2 * cols - 1
  BY DEF OutWidth
<1>2. Top(cols, x, y) = y * (2 * cols - 1) + 2 * x
  BY <1>1 DEF Top
<1>3. y * (2 * cols - 1) = (2 * y) * cols - y /\ (2 * y) * cols \in Int
  OBVIOUS
<1> QED BY <1>2, <1>3

(* halfSampleNEON makes the pixel of the plain version, of the four pixels  *)
(* it stands for; with an odd number of rows it makes one row more than the *)
(* new image has, of a row that the old one does not have.                  *)
THEOREM HalfSampleNEONExact ==
  ASSUME NEW tl \in Pixel, NEW tr \in Pixel, NEW bl \in Pixel, NEW br \in Pixel
  PROVE  NEON(tl, tr, bl, br) = Scalar(tl, tr, bl, br)
BY DEF Pixel, NEON, AddU16, Scalar

THEOREM HalfSampleNEONRows ==
  ASSUME NEW rows \in Nat, NEW cols \in Nat \ {0}, cols % 16 = 0, NEW x \in Nat, NEW y \in Nat
  PROVE  /\ NEONTop(cols, x, y) = Top(cols, x, y) /\ NEONBottom(cols, x, y) = Bottom(cols, x, y)
         /\ rows % 2 = 0 => (NEONRowMade(rows, y) <=> RowMade(rows, cols, y))
         /\ rows % 2 = 1 => /\ NEONRowMade(rows, rows \div 2) /\ ~RowMade(rows, cols, rows \div 2)
                            /\ NEONBottom(cols, x, rows \div 2) >= rows * cols
<1>1. cols % 2 = 0
  BY SMT
<1>2. rows \div 2 \in Nat
  OBVIOUS
<1>3. ASSUME NEW z \in Nat
      PROVE  /\ Top(cols, x, z) = (2 * z) * cols + 2 * x
             /\ Bottom(cols, x, z) = (2 * z + 1) * cols + 2 * x
             /\ RowMade(rows, cols, z) <=> z < rows \div 2
  BY <1>1, <1>3, HalfSampleInPlace, ZenonT(40)
<1>4. ASSUME rows % 2 = 1
      PROVE  NEONBottom(cols, x, rows \div 2) >= rows * cols
  <2>1. 2 * (rows \div 2) + 1 = rows
    BY <1>4
  <2>2. rows * cols \in Int
    OBVIOUS
  <2> QED BY <2>1, <2>2 DEF NEONBottom
<1> QED BY <1>2, <1>3, <1>4 DEF NEONTop, NEONBottom, NEONRowMade

-----------------------------------------------------------------------------
(* shiTomasiScore reads nothing outside the image, not even one pixel       *)
(* further than its box.                                                   *)
THEOREM ScoreReadsInside ==
  ASSUME NEW rows \in Nat, NEW cols \in Nat, NEW u \in Int, NEW v \in Int,
         Scored(rows, cols, u, v)
  PROVE  PixelsRead(u, v) \subseteq (0 .. cols - 1) \X (0 .. rows - 1)
<1>1. ASSUME NEW p \in Box(u, v)
      PROVE  {<<p[1] - 1, p[2]>>, <<p[1] + 1, p[2]>>, <<p[1], p[2] - 1>>, <<p[1], p[2] + 1>>}
               \subseteq (0 .. cols - 1) \X (0 .. rows - 1)
  BY DEF Box, Scored, HalfBox
<1> QED BY <1>1 DEF PixelsRead

-----------------------------------------------------------------------------
(* calcSharrDeriv: 16 bits are enough for what it computes.                 *)

Within(v, bound) == v \in Int /\ -bound <= v /\ v <= bound

LEMMA ShortExact ==
  ASSUME NEW v, Within(v, 32767)
  PROVE  Short(v) = v
BY DEF Short, Within

LEMMA SmoothExact ==
  ASSUME NEW s0, NEW s1, NEW s2, Within(s0, 255), Within(s1, 255), Within(s2, 255)
  PROVE  /\ Smooth(s0, s1, s2) = (s0 + s2) * 3 + s1 * 10
         /\ SmoothSSE2(s0, s1, s2) = (s0 + s2) * 3 + s1 * 10
<1>1. /\ Within(s0 + s2, 32767) /\ Within((s0 + s2) * 3, 32767)
      /\ Within(s1 * 10, 32767) /\ Within((s0 + s2) * 3 + s1 * 10, 32767)
  BY DEF Within
<1> QED BY <1>1, ShortExact DEF Smooth, SmoothSSE2, AddEpi16, MulloEpi16

LEMMA DifferExact ==
  ASSUME NEW s0, NEW s2, Within(s0, 4080), Within(s2, 4080)
  PROVE  Differ(s0, s2) = s2 - s0 /\ DifferSSE2(s0, s2) = s2 - s0
<1>1. Within(s2 - s0, 32767)
  BY DEF Within
<1> QED BY <1>1, ShortExact DEF Differ, DifferSSE2, SubEpi16

(* The pixels that calcSharrDeriv takes are pixels of the image, at its     *)
(* borders too.                                                            *)
Neighbourhood == [-1 .. 1 -> [-1 .. 1 -> Pixel]]
THEOREM SharrTakesPixels ==
  ASSUME NEW rows \in Nat \ {0}, NEW cols \in Nat \ {0},
         NEW img \in [0 .. rows - 1 -> [0 .. cols - 1 -> Pixel]],
         NEW x \in 0 .. cols - 1, NEW y \in 0 .. rows - 1
  PROVE  Around(img, rows, cols, x, y) \in Neighbourhood
<1>1. ASSUME NEW n \in Nat \ {0}, NEW i \in 0 .. n - 1, NEW d \in -1 .. 1
      PROVE  Mirrored(i + d, n) \in 0 .. n - 1
  BY DEF Mirrored
<1>2. ASSUME NEW dy \in -1 .. 1, NEW dx \in -1 .. 1
      PROVE  img[Mirrored(y + dy, rows)][Mirrored(x + dx, cols)] \in Pixel
  BY <1>1
<1> QED BY <1>2 DEF Around, Neighbourhood

(* calcSharrDeriv: nothing is lost in 16 bits by either version, so that    *)
(* both make the derivatives weighted 3, 10, 3.                             *)
THEOREM SharrExact ==
  ASSUME NEW p \in Neighbourhood
  PROVE  /\ DerivX(p) = 3 * (p[-1][1] - p[-1][-1]) + 10 * (p[0][1] - p[0][-1])
                          + 3 * (p[1][1] - p[1][-1])
         /\ DerivY(p) = 3 * (p[1][-1] - p[-1][-1]) + 10 * (p[1][0] - p[-1][0])
                          + 3 * (p[1][1] - p[-1][1])
         /\ DerivXSSE2(p) = DerivX(p) /\ DerivYSSE2(p) = DerivY(p)
         /\ Within(DerivX(p), 4080) /\ Within(DerivY(p), 4080)
<1> DEFINE tl == p[-1][-1]   tc == p[-1][0]   tr == p[-1][1]
           l == p[0][-1]                      r == p[0][1]
           bl == p[1][-1]    bc == p[1][0]    br == p[1][1]
<1>1. /\ tl \in 0 .. 255 /\ tc \in 0 .. 255 /\ tr \in 0 .. 255 /\ l \in 0 .. 255
      /\ r \in 0 .. 255 /\ bl \in 0 .. 255 /\ bc \in 0 .. 255 /\ br \in 0 .. 255
  BY DEF Neighbourhood, Pixel
<1>2. /\ DerivX(p) = Differ(Smooth(tl, l, bl), Smooth(tr, r, br))
      /\ DerivXSSE2(p) = DifferSSE2(SmoothSSE2(tl, l, bl), SmoothSSE2(tr, r, br))
      /\ DerivY(p) = Smooth(Differ(tl, bl), Differ(tc, bc), Differ(tr, br))
      /\ DerivYSSE2(p) = SmoothSSE2(DifferSSE2(tl, bl), DifferSSE2(tc, bc), DifferSSE2(tr, br))
  BY DEF DerivX, DerivXSSE2, DerivY, DerivYSSE2
<1> HIDE DEF tl, tc, tr, l, r, bl, bc, br
<1>3. /\ DerivX(p) = ((tr + br) * 3 + r * 10) - ((tl + bl) * 3 + l * 10)
      /\ DerivXSSE2(p) = ((tr + br) * 3 + r * 10) - ((tl + bl) * 3 + l * 10)
  <2>1. /\ Smooth(tl, l, bl) = (tl + bl) * 3 + l * 10
        /\ SmoothSSE2(tl, l, bl) = (tl + bl) * 3 + l * 10
        /\ Smooth(tr, r, br) = (tr + br) * 3 + r * 10
        /\ SmoothSSE2(tr, r, br) = (tr + br) * 3 + r * 10
    <3>1. /\ Within(tl, 255) /\ Within(l, 255) /\ Within(bl, 255)
          /\ Within(tr, 255) /\ Within(r, 255) /\ Within(br, 255)
      BY <1>1 DEF Within
    <3> QED BY <3>1, SmoothExact
  <2>2. Within((tl + bl) * 3 + l * 10, 4080) /\ Within((tr + br) * 3 + r * 10, 4080)
    BY <1>1 DEF Within
  <2> QED BY <1>2, <2>1, <2>2, DifferExact
<1>4. /\ DerivY(p) = ((bl - tl) + (br - tr)) * 3 + (bc - tc) * 10
      /\ DerivYSSE2(p) = ((bl - tl) + (br - tr)) * 3 + (bc - tc) * 10
  <2>1. /\ Differ(tl, bl) = bl - tl /\ DifferSSE2(tl, bl) = bl - tl
        /\ Differ(tc, bc) = bc - tc /\ DifferSSE2(tc, bc) = bc - tc
        /\ Differ(tr, br) = br - tr /\ DifferSSE2(tr, br) = br - tr
    <3>1. /\ Within(tl, 4080) /\ Within(bl, 4080) /\ Within(tc, 4080)
          /\ Within(bc, 4080) /\ Within(tr, 4080) /\ Within(br, 4080)
      BY <1>1 DEF Within
    <3> QED BY <3>1, DifferExact
  <2>2. Within(bl - tl, 255) /\ Within(bc - tc, 255) /\ Within(br - tr, 255)
    BY <1>1 DEF Within
  <2> QED BY <1>2, <2>1, <2>2, SmoothExact
<1>5. /\ DerivX(p) = 3 * (tr - tl) + 10 * (r - l) + 3 * (br - bl)
      /\ DerivY(p) = 3 * (bl - tl) + 10 * (bc - tc) + 3 * (br - tr)
      /\ DerivXSSE2(p) = DerivX(p) /\ DerivYSSE2(p) = DerivY(p)
      /\ Within(DerivX(p), 4080) /\ Within(DerivY(p), 4080)
  BY <1>1, <1>3, <1>4 DEF Within
<1> QED BY <1>5 DEF tl, tc, tr, l, r, bl, bc, br

-----------------------------------------------------------------------------
(* ZMSSD                                                                    *)

LEMMA Columns ==
  0 \in Side /\ 1 \in Side /\ 2 \in Side /\ 3 \in Side
  /\ 4 \in Side /\ 5 \in Side /\ 6 \in Side /\ 7 \in Side
BY DEF Side

(* Two rows, added column by column.                                        *)
Plus(f, g) == [x \in Side |-> f[x] + g[x]]
LEMMA SumOfPlus ==
  ASSUME NEW f \in [Side -> Int], NEW g \in [Side -> Int]
  PROVE  /\ Plus(f, g) \in [Side -> Int]
         /\ SumOf8(f) \in Int
         /\ SumOf8(Plus(f, g)) = SumOf8(f) + SumOf8(g)
<1>1. \A x \in Side : f[x] \in Int /\ g[x] \in Int
  OBVIOUS
<1> QED BY <1>1, Columns DEF Plus, SumOf8

(* The eight rows, added up column by column, and their sum row by row.     *)
ColumnSums(a) ==
  Plus(Plus(Plus(Plus(Plus(Plus(Plus(a[0], a[1]), a[2]), a[3]), a[4]), a[5]), a[6]), a[7])
LEMMA SumByColumns ==
  ASSUME NEW a \in [Side -> [Side -> Int]]
  PROVE  SumOf8(ColumnSums(a)) = Sum(a)
<1> DEFINE upTo1 == Plus(a[0], a[1])
           upTo2 == Plus(upTo1, a[2])
           upTo3 == Plus(upTo2, a[3])
           upTo4 == Plus(upTo3, a[4])
           upTo5 == Plus(upTo4, a[5])
           upTo6 == Plus(upTo5, a[6])
           upTo7 == Plus(upTo6, a[7])
<1>0. ColumnSums(a) = upTo7
  BY DEF ColumnSums
<1>1. \A y \in Side : a[y] \in [Side -> Int]
  OBVIOUS
<1>2. upTo1 \in [Side -> Int] /\ SumOf8(upTo1) = SumOf8(a[0]) + SumOf8(a[1])
  BY <1>1, Columns, SumOfPlus
<1> HIDE DEF upTo1
<1>3. upTo2 \in [Side -> Int] /\ SumOf8(upTo2) = SumOf8(upTo1) + SumOf8(a[2])
  BY <1>1, <1>2, Columns, SumOfPlus
<1> HIDE DEF upTo2
<1>4. upTo3 \in [Side -> Int] /\ SumOf8(upTo3) = SumOf8(upTo2) + SumOf8(a[3])
  BY <1>1, <1>3, Columns, SumOfPlus
<1> HIDE DEF upTo3
<1>5. upTo4 \in [Side -> Int] /\ SumOf8(upTo4) = SumOf8(upTo3) + SumOf8(a[4])
  BY <1>1, <1>4, Columns, SumOfPlus
<1> HIDE DEF upTo4
<1>6. upTo5 \in [Side -> Int] /\ SumOf8(upTo5) = SumOf8(upTo4) + SumOf8(a[5])
  BY <1>1, <1>5, Columns, SumOfPlus
<1> HIDE DEF upTo5
<1>7. upTo6 \in [Side -> Int] /\ SumOf8(upTo6) = SumOf8(upTo5) + SumOf8(a[6])
  BY <1>1, <1>6, Columns, SumOfPlus
<1> HIDE DEF upTo6
<1>8. SumOf8(upTo7) = SumOf8(upTo6) + SumOf8(a[7])
  BY <1>1, <1>7, Columns, SumOfPlus
<1> HIDE DEF upTo7
<1>9. Sum(a) = SumOf8(a[0]) + SumOf8(a[1]) + SumOf8(a[2]) + SumOf8(a[3])
                  + SumOf8(a[4]) + SumOf8(a[5]) + SumOf8(a[6]) + SumOf8(a[7])
  <2> DEFINE rows == [y \in Side |-> SumOf8(a[y])]
  <2>1. Sum(a) = SumOf8(rows)
    BY DEF Sum
  <2>2. \A y \in Side : rows[y] = SumOf8(a[y])
    OBVIOUS
  <2> HIDE DEF rows
  <2> QED BY <2>1, <2>2, Columns DEF SumOf8
<1> QED BY <1>0, <1>2, <1>3, <1>4, <1>5, <1>6, <1>7, <1>8, <1>9

(* The sums of 16 bits never saturate, so that the eight of them add up to  *)
(* the sum that the plain version takes row by row.                         *)
THEOREM PatchSumsAgree ==
  ASSUME NEW a \in Patch
  PROVE  SumXMM16(a) = Sum(a)
<1>1. ASSUME NEW x \in Side, NEW y \in Side
      PROVE  a[y][x] \in Nat /\ a[y][x] <= 255
  BY SMTT(30) DEF Patch, Pixel
<1>2. a \in [Side -> [Side -> Int]]
  BY DEF Patch, Pixel
<1>3. ASSUME NEW x \in Side
      PROVE  Lane16(a, x) = ColumnSums(a)[x]
  BY <1>1, Columns, SMTT(30) DEF Lane16, AddsEpu16, Word, ColumnSums, Plus
<1>4. SumXMM16(a) = SumOf8(ColumnSums(a))
  BY <1>3, Columns DEF SumXMM16, SumOf8
<1> QED BY <1>2, <1>4, SumByColumns

(* The product of two pixels, and eight times two of them.                  *)
MaxProduct == 255 * 255
LEMMA WordLarge ==
  MaxProduct \in Nat /\ Word * Word \in Nat /\ 16 * MaxProduct < Word * Word
<1>1. MaxProduct \in Nat /\ MaxProduct <= Word /\ Word \in Nat /\ 16 < Word
  BY SMT DEF MaxProduct, Word
<1>2. ASSUME NEW w \in Nat, 16 < w PROVE w * w \in Nat /\ 16 * w < w * w
  BY <1>2, SMT
<1>3. Word * Word \in Nat /\ 16 * Word < Word * Word
  BY <1>1, <1>2
<1> QED BY <1>1, <1>3, SMT

LEMMA ProductsBounded ==
  ASSUME NEW a \in Patch, NEW c \in Patch, NEW col \in Side, NEW row \in Side
  PROVE  Products(a, c)[row][col] \in 0 .. MaxProduct
<1>1. a[row][col] \in 0 .. 255 /\ c[row][col] \in 0 .. 255
  BY DEF Patch, Pixel
<1>2. ASSUME NEW u \in 0 .. 255, NEW v \in 0 .. 255
      PROVE  u * v \in 0 .. MaxProduct
  <2>1. u * v \in Int /\ 255 * v \in Int /\ 255 * 255 \in Int
    BY SMT
  <2>2. 0 <= u * v /\ u * v <= 255 * v /\ 255 * v <= 255 * 255
    BY SMT
  <2> DEFINE uv == u * v   v255 == 255 * v   most == 255 * 255
  <2>3. uv \in Int /\ v255 \in Int /\ most \in Int
    BY <2>1
  <2>4. 0 <= uv /\ uv <= v255 /\ v255 <= most
    BY <2>2
  <2> HIDE DEF uv, v255, most
  <2>5. uv \in 0 .. most
    BY <2>3, <2>4
  <2> QED BY <2>5 DEF uv, most, MaxProduct
<1>3. Products(a, c)[row][col] = a[row][col] * c[row][col]
  BY DEF Products
<1> QED BY <1>1, <1>2, <1>3, Zenon

(* Eight additions of 32 bits do not wrap around.                           *)
LEMMA SumsOf32Bits ==
  ASSUME NEW m \in [Side -> 0 .. 2 * MaxProduct]
  PROVE  AddEpi32(m[7], AddEpi32(m[6], AddEpi32(m[5], AddEpi32(m[4],
         AddEpi32(m[3], AddEpi32(m[2], AddEpi32(m[1], m[0])))))))
           = m[0] + m[1] + m[2] + m[3] + m[4] + m[5] + m[6] + m[7]
<1>0. /\ m[0] \in 0 .. 2 * MaxProduct /\ m[1] \in 0 .. 2 * MaxProduct
      /\ m[2] \in 0 .. 2 * MaxProduct /\ m[3] \in 0 .. 2 * MaxProduct
      /\ m[4] \in 0 .. 2 * MaxProduct /\ m[5] \in 0 .. 2 * MaxProduct
      /\ m[6] \in 0 .. 2 * MaxProduct /\ m[7] \in 0 .. 2 * MaxProduct
  BY Columns
<1>1. ASSUME NEW x \in Nat, NEW y \in Nat, x + y <= 16 * MaxProduct
      PROVE  AddEpi32(x, y) = x + y
  <2>1. ASSUME NEW u \in Nat, NEW v \in Nat, u < v PROVE u % v = u
    BY <2>1, SMT
  <2>2. x + y \in Nat /\ x + y < Word * Word /\ Word * Word \in Nat
    BY <1>1, WordLarge, SMT
  <2> QED BY <2>1, <2>2, Zenon DEF AddEpi32
<1>2. AddEpi32(m[1], m[0]) = m[0] + m[1]
  BY <1>0, <1>1, WordLarge, SMT
<1>3. AddEpi32(m[2], m[0] + m[1]) = m[0] + m[1] + m[2]
  BY <1>0, <1>1, WordLarge, SMT
<1>4. AddEpi32(m[3], m[0] + m[1] + m[2]) = m[0] + m[1] + m[2] + m[3]
  BY <1>0, <1>1, WordLarge, SMT
<1>5. AddEpi32(m[4], m[0] + m[1] + m[2] + m[3]) = m[0] + m[1] + m[2] + m[3] + m[4]
  BY <1>0, <1>1, WordLarge, SMT
<1>6. AddEpi32(m[5], m[0] + m[1] + m[2] + m[3] + m[4])
        = m[0] + m[1] + m[2] + m[3] + m[4] + m[5]
  <2> DEFINE low == m[0] + m[1] + m[2] + m[3] + m[4]
  <2>1. low \in Nat /\ m[5] \in Nat /\ m[5] + low <= 16 * MaxProduct /\ m[5] + low = low + m[5]
    BY <1>0, WordLarge, SMT
  <2> HIDE DEF low
  <2>2. AddEpi32(m[5], low) = low + m[5]
    BY <1>1, <2>1
  <2> QED BY <2>2 DEF low
<1>7. AddEpi32(m[6], m[0] + m[1] + m[2] + m[3] + m[4] + m[5])
        = m[0] + m[1] + m[2] + m[3] + m[4] + m[5] + m[6]
  <2> DEFINE low == m[0] + m[1] + m[2] + m[3] + m[4] + m[5]
  <2>1. low \in Nat /\ m[6] \in Nat /\ m[6] + low <= 16 * MaxProduct /\ m[6] + low = low + m[6]
    BY <1>0, WordLarge, SMT
  <2> HIDE DEF low
  <2>2. AddEpi32(m[6], low) = low + m[6]
    BY <1>1, <2>1
  <2> QED BY <2>2 DEF low
<1>8. AddEpi32(m[7], m[0] + m[1] + m[2] + m[3] + m[4] + m[5] + m[6])
        = m[0] + m[1] + m[2] + m[3] + m[4] + m[5] + m[6] + m[7]
  <2> DEFINE low == m[0] + m[1] + m[2] + m[3] + m[4] + m[5] + m[6]
  <2>1. low \in Nat /\ m[7] \in Nat /\ m[7] + low <= 16 * MaxProduct /\ m[7] + low = low + m[7]
    BY <1>0, WordLarge, SMT
  <2> HIDE DEF low
  <2>2. AddEpi32(m[7], low) = low + m[7]
    BY <1>1, <2>1
  <2> QED BY <2>2 DEF low
<1> QED BY <1>2, <1>3, <1>4, <1>5, <1>6, <1>7, <1>8, Zenon

(* A sum of 32 bits is that of two columns.                                 *)
LEMMA Lane32Exact ==
  ASSUME NEW p, NEW l \in 0 .. 3,
         \A x \in Side, y \in Side : p[y][x] \in 0 .. MaxProduct
  PROVE  Lane32(p, l) = ColumnSums(p)[2 * l] + ColumnSums(p)[2 * l + 1]
<1> DEFINE madd(y) == p[y][2 * l] + p[y][2 * l + 1]
<1>1. 2 * l \in Side /\ 2 * l + 1 \in Side
  BY SMT DEF Side
<1>2. \A y \in Side : p[y][2 * l] \in 0 .. MaxProduct /\ p[y][2 * l + 1] \in 0 .. MaxProduct
  BY <1>1, SMT
<1>3. \A y \in Side : madd(y) \in 0 .. 2 * MaxProduct
  BY <1>2, WordLarge, SMT
<1>4. Lane32(p, l) = AddEpi32(madd(7), AddEpi32(madd(6), AddEpi32(madd(5), AddEpi32(madd(4),
        AddEpi32(madd(3), AddEpi32(madd(2), AddEpi32(madd(1), madd(0))))))))
  BY Zenon DEF Lane32
<1>5. Lane32(p, l) = madd(0) + madd(1) + madd(2) + madd(3) + madd(4) + madd(5) + madd(6) + madd(7)
  <2> HIDE DEF madd
  <2> DEFINE m == [y \in Side |-> madd(y)]
  <2>1. m \in [Side -> 0 .. 2 * MaxProduct]
    BY <1>3
  <2>2. /\ m[0] = madd(0) /\ m[1] = madd(1) /\ m[2] = madd(2) /\ m[3] = madd(3)
        /\ m[4] = madd(4) /\ m[5] = madd(5) /\ m[6] = madd(6) /\ m[7] = madd(7)
    BY Columns
  <2> HIDE DEF m
  <2>3. AddEpi32(m[7], AddEpi32(m[6], AddEpi32(m[5], AddEpi32(m[4],
        AddEpi32(m[3], AddEpi32(m[2], AddEpi32(m[1], m[0])))))))
          = m[0] + m[1] + m[2] + m[3] + m[4] + m[5] + m[6] + m[7]
    BY <2>1, SumsOf32Bits
  <2> QED BY <1>4, <2>2, <2>3
<1>6. ASSUME NEW x \in {2 * l, 2 * l + 1}
      PROVE  ColumnSums(p)[x] = p[0][x] + p[1][x] + p[2][x] + p[3][x]
                                  + p[4][x] + p[5][x] + p[6][x] + p[7][x]
  BY <1>1, SMT DEF ColumnSums, Plus
<1> QED BY <1>2, <1>5, <1>6, Columns, WordLarge, SMT

(* The four sums of products stay below 2^32 and add up to the sum that the *)
(* plain version takes.                                                    *)
THEOREM ProductSumsAgree ==
  ASSUME NEW a \in Patch, NEW c \in Patch
  PROVE  SumXMM32(Products(a, c)) = SumOfProducts(a, c)
<1> DEFINE p == Products(a, c)
<1>1. ASSUME NEW x \in Side, NEW y \in Side
      PROVE  p[y][x] \in 0 .. MaxProduct
  BY ProductsBounded, SMT
<1>2. p \in [Side -> [Side -> Int]]
  <2>1. \A y \in Side : p[y] \in [Side -> Int]
    BY <1>1, WordLarge, SMT DEF Products
  <2> QED BY <2>1, SMT DEF Products
<1>3. SumOfProducts(a, c) = Sum(p)
  BY SMT DEF SumOfProducts
<1> HIDE DEF p
<1>4. /\ Lane32(p, 0) = ColumnSums(p)[0] + ColumnSums(p)[1]
      /\ Lane32(p, 1) = ColumnSums(p)[2] + ColumnSums(p)[3]
      /\ Lane32(p, 2) = ColumnSums(p)[4] + ColumnSums(p)[5]
      /\ Lane32(p, 3) = ColumnSums(p)[6] + ColumnSums(p)[7]
  <2>1. \A l \in 0 .. 3 : Lane32(p, l) = ColumnSums(p)[2 * l] + ColumnSums(p)[2 * l + 1]
    BY <1>1, Lane32Exact, SMT
  <2> QED BY <2>1, SMT
<1>5. \A x \in Side : ColumnSums(p)[x] \in Int
  BY <1>1, Columns, WordLarge, SMT DEF ColumnSums, Plus
<1>6. SumXMM32(p) = SumOf8(ColumnSums(p))
  BY <1>4, <1>5, Columns, SMT DEF SumXMM32, SumOf8
<1> QED BY <1>2, <1>3, <1>6, SumByColumns, SMT DEF p
-----------------------------------------------------------------------------
(* Feature alignment                                                        *)

(* A patch that is compared lies in the image, with the further row and     *)
(* column that the interpolation takes.                                    *)
THEOREM PatchReadInside ==
  ASSUME NEW rows \in Nat, NEW cols \in Nat, NEW u \in Int, NEW v \in Int,
         InImage(rows, cols, u, v)
  PROVE  PatchRead(u, v) \subseteq (0 .. cols - 1) \X (0 .. rows - 1)
<1>1. ASSUME NEW p \in PatchPixels(u, v)
      PROVE  {<<p[1], p[2]>>, <<p[1] + 1, p[2]>>, <<p[1], p[2] + 1>>, <<p[1] + 1, p[2] + 1>>}
               \subseteq (0 .. cols - 1) \X (0 .. rows - 1)
  BY DEF PatchPixels, InImage, HalfPatch
<1> QED BY <1>1 DEF PatchRead

(* The shares are the products that they stand for and make up the whole.   *)
LEMMA SharesWhole ==
  ASSUME NEW n \in Nat \ {0}, NEW i \in 0 .. n - 1, NEW j \in 0 .. n - 1
  PROVE  /\ n * n \in Nat \ {0}
         /\ Shares(n, i, j) \in [Corners -> Nat]
         /\ SumOver(Shares(n, i, j)) = n * n
<1> DEFINE tl == (n - i) * (n - j)   tr == i * (n - j)   bl == (n - i) * j   br == i * j
<1>1. tl \in Nat /\ tr \in Nat /\ bl \in Nat /\ br \in Nat /\ n * n \in Nat \ {0}
  <2>1. ASSUME NEW a \in Nat, NEW b \in Nat PROVE a * b \in Nat
    OBVIOUS
  <2>2. n - i \in Nat /\ n - j \in Nat /\ i \in Nat /\ j \in Nat /\ n * n # 0
    OBVIOUS
  <2> QED BY <2>1, <2>2
<1>2. tl + tr + bl + br = n * n
  <2>1. tl + tr = n * (n - j) /\ bl + br = n * j
    OBVIOUS
  <2>2. n * (n - j) + n * j = n * n /\ n * (n - j) \in Int /\ n * j \in Int
    OBVIOUS
  <2> QED BY <1>1, <2>1, <2>2
<1>3. /\ Shares(n, i, j) = [c \in Corners |-> CASE c = "TL" -> tl [] c = "TR" -> tr
                                               [] c = "BL" -> bl [] c = "BR" -> br]
  BY DEF Shares
<1> HIDE DEF tl, tr, bl, br
<1>4. /\ Shares(n, i, j)["TL"] = tl /\ Shares(n, i, j)["TR"] = tr
      /\ Shares(n, i, j)["BL"] = bl /\ Shares(n, i, j)["BR"] = br
      /\ Shares(n, i, j) \in [Corners -> Nat]
  BY <1>1, <1>3 DEF Corners
<1> QED BY <1>1, <1>2, <1>4 DEF SumOver

(* A quotient that is cut off.                                              *)
LEMMA CutOff ==
  ASSUME NEW a \in Nat, NEW d \in Nat \ {0}
  PROVE  /\ a \div d \in Nat
         /\ (a \div d) * d <= a
         /\ a < (a \div d) * d + d
BY SMT

(* The three weights that are cut off lose less than one each, which the    *)
(* last one gains; they make up the whole.                                 *)
LEMMA WeightsWhole ==
  ASSUME NEW one \in Nat, NEW n \in Nat \ {0}, NEW i \in 0 .. n - 1, NEW j \in 0 .. n - 1
  PROVE  LET w == Weights(one, n, i, j)
             s == Shares(n, i, j)
             d == n * n
         IN  /\ w \in [Corners -> Nat]
             /\ SumOver(w) = one
             /\ \A c \in Corners \ {"BR"} : w[c] * d <= one * s[c] /\ one * s[c] < w[c] * d + d
<1> DEFINE w == Weights(one, n, i, j)
           s == Shares(n, i, j)
           d == n * n
<1>1. /\ d \in Nat \ {0} /\ s \in [Corners -> Nat]
      /\ s["TL"] + s["TR"] + s["BL"] + s["BR"] = d
  BY SharesWhole DEF SumOver
<1>2. /\ w = [[c \in Corners |-> Cut(one, n, s[c])] EXCEPT !["BR"] = one - Cut(one, n, s["TL"])
                                                       - Cut(one, n, s["TR"]) - Cut(one, n, s["BL"])]
  BY DEF Weights, Corners
<1>3. \A c \in Corners : Cut(one, n, s[c]) = (one * s[c]) \div d
  BY DEF Cut
<1> HIDE DEF w, s, d
<1>4. /\ w["TL"] = (one * s["TL"]) \div d /\ w["TR"] = (one * s["TR"]) \div d
      /\ w["BL"] = (one * s["BL"]) \div d /\ w["BR"] = one - w["TL"] - w["TR"] - w["BL"]
      /\ w = [c \in Corners |-> w[c]]
  BY <1>2, <1>3 DEF Corners
<1>5. s["TL"] \in Nat /\ s["TR"] \in Nat /\ s["BL"] \in Nat /\ s["BR"] \in Nat
  BY <1>1 DEF Corners
<1>6. ASSUME NEW a \in Nat
      PROVE  /\ one * a \in Nat /\ (one * a) \div d \in Nat
             /\ ((one * a) \div d) * d <= one * a /\ one * a < ((one * a) \div d) * d + d
  <2>1. one * a \in Nat
    OBVIOUS
  <2> QED BY <2>1, <1>1, CutOff
<1>7. /\ w["TL"] \in Nat /\ w["TL"] * d <= one * s["TL"] /\ one * s["TL"] < w["TL"] * d + d
      /\ w["TR"] \in Nat /\ w["TR"] * d <= one * s["TR"] /\ one * s["TR"] < w["TR"] * d + d
      /\ w["BL"] \in Nat /\ w["BL"] * d <= one * s["BL"] /\ one * s["BL"] < w["BL"] * d + d
  BY <1>4, <1>5, <1>6
<1>8. w["TL"] + w["TR"] + w["BL"] <= one
  <2> DEFINE k == w["TL"] + w["TR"] + w["BL"]
             t == s["TL"] + s["TR"] + s["BL"]
  <2>1. k * d <= one * t
    <3>1. k * d = w["TL"] * d + w["TR"] * d + w["BL"] * d
      BY <1>1, <1>7
    <3>2. one * t = one * s["TL"] + one * s["TR"] + one * s["BL"]
      BY <1>5
    <3>3. /\ w["TL"] * d \in Int /\ w["TR"] * d \in Int /\ w["BL"] * d \in Int
          /\ one * s["TL"] \in Int /\ one * s["TR"] \in Int /\ one * s["BL"] \in Int
      BY <1>1, <1>5, <1>7
    <3> HIDE DEF k, t
    <3> QED BY <1>7, <3>1, <3>2, <3>3
  <2>2. t \in Nat /\ k \in Nat /\ t <= d
    BY <1>1, <1>5, <1>7
  <2> HIDE DEF k, t
  <2>3. one * t <= one * d
    BY <2>2, <1>1
  <2>4. ASSUME k > one PROVE k * d > one * d
    BY <2>2, <2>4, <1>1
  <2>5. k * d \in Int /\ one * d \in Int /\ one * t \in Int
    BY <2>2, <1>1
  <2>6. k <= one
    BY <2>1, <2>2, <2>3, <2>4, <2>5
  <2> QED BY <2>6 DEF k
<1>9. w["BR"] \in Nat
  BY <1>4, <1>7, <1>8
<1>10. w \in [Corners -> Nat]
  BY <1>4, <1>7, <1>9 DEF Corners
<1>11. SumOver(w) = one
  BY <1>4, <1>7, <1>9 DEF SumOver
<1>12. \A c \in Corners \ {"BR"} : w[c] * d <= one * s[c] /\ one * s[c] < w[c] * d + d
  BY <1>7 DEF Corners
<1> QED BY <1>10, <1>11, <1>12 DEF w, s, d

(* A weighted mean is between the least and the greatest.                   *)
LEMMA MeanBetween ==
  ASSUME NEW w \in [Corners -> Nat], NEW p \in [Corners -> Pixel],
         NEW lo \in Nat, NEW hi \in Nat,
         \A c \in Corners : lo <= p[c] /\ p[c] <= hi
  PROVE  /\ Weighted(w, p) \in Nat
         /\ SumOver(w) * lo <= Weighted(w, p) /\ Weighted(w, p) <= SumOver(w) * hi
<1>1. ASSUME NEW c \in Corners
      PROVE  /\ w[c] * p[c] \in Nat /\ w[c] * lo \in Nat /\ w[c] * hi \in Nat
             /\ w[c] * lo <= w[c] * p[c] /\ w[c] * p[c] <= w[c] * hi
  <2>1. ASSUME NEW x \in Nat, NEW a \in Nat, NEW b \in Nat, a <= b
        PROVE  x * a \in Nat /\ x * b \in Nat /\ x * a <= x * b
    BY <2>1, SMT
  <2>2. w[c] \in Nat /\ p[c] \in Nat
    BY DEF Pixel
  <2> QED BY <2>1, <2>2
<1>2. /\ "TL" \in Corners /\ "TR" \in Corners /\ "BL" \in Corners /\ "BR" \in Corners
  BY DEF Corners
<1>3. Weighted(w, p) = w["TL"] * p["TL"] + w["TR"] * p["TR"] + w["BL"] * p["BL"] + w["BR"] * p["BR"]
  BY <1>2 DEF Weighted, SumOver
<1>4. ASSUME NEW x \in Nat
      PROVE  SumOver(w) * x = w["TL"] * x + w["TR"] * x + w["BL"] * x + w["BR"] * x
  <2>1. w["TL"] \in Nat /\ w["TR"] \in Nat /\ w["BL"] \in Nat /\ w["BR"] \in Nat
    BY <1>2
  <2> QED BY <2>1 DEF SumOver
<1> DEFINE least(c) == w[c] * lo   this(c) == w[c] * p[c]   most(c) == w[c] * hi
<1>5. ASSUME NEW c \in Corners
      PROVE  /\ this(c) \in Nat /\ least(c) \in Nat /\ most(c) \in Nat
             /\ least(c) <= this(c) /\ this(c) <= most(c)
  BY <1>1
<1>6. /\ Weighted(w, p) = this("TL") + this("TR") + this("BL") + this("BR")
      /\ SumOver(w) * lo = least("TL") + least("TR") + least("BL") + least("BR")
      /\ SumOver(w) * hi = most("TL") + most("TR") + most("BL") + most("BR")
  BY <1>3, <1>4
<1> HIDE DEF least, this, most
<1> QED BY <1>2, <1>5, <1>6

LEMMA WordBound ==
  Word * Word \in Nat /\ 64 * Word < Word * Word /\ 64 * Word = 256 * OneSSE2
BY DEF Word, OneSSE2

(* The integers that align2D_SSE2 and align2D_NEON compute with are wide    *)
(* enough, and what they find between four pixels is neither darker nor     *)
(* brighter than all of them.                                              *)
THEOREM InterpolationBetween ==
  ASSUME NEW n \in Nat \ {0}, NEW i \in 0 .. n - 1, NEW j \in 0 .. n - 1,
         NEW p \in [Corners -> Pixel], NEW lo \in Pixel, NEW hi \in Pixel,
         \A c \in Corners : lo <= p[c] /\ p[c] <= hi
  PROVE  LET w14 == Weights(OneSSE2, n, i, j)
             w7  == Weights(OneNEON, n, i, j)
         IN  /\ InterpolateSSE2(w14, p) = (Weighted(w14, p) + OneSSE2 \div 2) \div OneSSE2
             /\ InterpolateNEON(w7, p) = Weighted(w7, p) \div OneNEON
             /\ InterpolateSSE2(w14, p) \in lo .. hi /\ InterpolateNEON(w7, p) \in lo .. hi
<1> DEFINE w14 == Weights(OneSSE2, n, i, j)
           w7  == Weights(OneNEON, n, i, j)
<1>1. /\ w14 \in [Corners -> Nat] /\ SumOver(w14) = OneSSE2
      /\ w7 \in [Corners -> Nat] /\ SumOver(w7) = OneNEON
  <2>1. OneSSE2 \in Nat /\ OneNEON \in Nat
    BY DEF OneSSE2, OneNEON
  <2> QED BY <2>1, WeightsWhole
<1> HIDE DEF w14, w7
<1>2. lo \in Nat /\ hi \in Nat /\ hi <= 255
  BY DEF Pixel
<1>3. /\ Weighted(w14, p) \in Nat /\ Weighted(w7, p) \in Nat
      /\ OneSSE2 * lo <= Weighted(w14, p) /\ Weighted(w14, p) <= OneSSE2 * hi
      /\ OneNEON * lo <= Weighted(w7, p) /\ Weighted(w7, p) <= OneNEON * hi
  BY <1>1, <1>2, MeanBetween
<1>4. ASSUME NEW w \in [Corners -> Nat]
      PROVE  /\ \A c \in Corners : w[c] * p[c] \in Nat
             /\ Weighted(w, p) = w["TL"] * p["TL"] + w["TR"] * p["TR"]
                                   + w["BL"] * p["BL"] + w["BR"] * p["BR"]
  <2>1. ASSUME NEW c \in Corners PROVE w[c] * p[c] \in Nat
    <3>1. w[c] \in Nat /\ p[c] \in Nat
      BY DEF Pixel
    <3> QED BY <3>1
  <2>2. "TL" \in Corners /\ "TR" \in Corners /\ "BL" \in Corners /\ "BR" \in Corners
    BY DEF Corners
  <2> QED BY <2>1, <2>2 DEF Weighted, SumOver
<1>5. InterpolateSSE2(w14, p) = (Weighted(w14, p) + OneSSE2 \div 2) \div OneSSE2
  <2> DEFINE a == w14["TL"] * p["TL"] + w14["TR"] * p["TR"]
             b == w14["BL"] * p["BL"] + w14["BR"] * p["BR"]
  <2>1. a \in Nat /\ b \in Nat /\ Weighted(w14, p) = a + b
    <3>1. "TL" \in Corners /\ "TR" \in Corners /\ "BL" \in Corners /\ "BR" \in Corners
      BY DEF Corners
    <3> QED BY <1>1, <1>4, <3>1
  <2>2. InterpolateSSE2(w14, p) = AddEpi32(AddEpi32(a, b), OneSSE2 \div 2) \div OneSSE2
    BY DEF InterpolateSSE2
  <2> HIDE DEF a, b
  <2>3. a + b + OneSSE2 \div 2 < 64 * Word
    <3>1. OneSSE2 * hi <= 255 * OneSSE2 /\ 255 * OneSSE2 + OneSSE2 \div 2 < 256 * OneSSE2
      BY <1>2 DEF OneSSE2
    <3>2. OneSSE2 \div 2 \in Nat /\ OneSSE2 \in Nat
      BY DEF OneSSE2
    <3>3. OneSSE2 * hi \in Nat
      BY <1>2, <3>2
    <3> HIDE DEF OneSSE2
    <3> QED BY <1>3, <2>1, <3>1, <3>2, <3>3, WordBound
  <2>4. ASSUME NEW x \in Nat, NEW y \in Nat, x + y < 64 * Word PROVE AddEpi32(x, y) = x + y
    <3> DEFINE m == Word * Word
    <3>1. m \in Nat /\ x + y < m
      BY <2>4, WordBound DEF Word
    <3>2. AddEpi32(x, y) = (x + y) % m
      BY DEF AddEpi32
    <3> HIDE DEF m
    <3> QED BY <3>1, <3>2
  <2>5. OneSSE2 \div 2 \in Nat
    BY DEF OneSSE2
  <2>6. 64 * Word \in Nat
    BY DEF Word
  <2>7. AddEpi32(a, b) = a + b
    BY <2>1, <2>3, <2>4, <2>5, <2>6
  <2>8. AddEpi32(a + b, OneSSE2 \div 2) = a + b + OneSSE2 \div 2
    BY <2>1, <2>3, <2>4, <2>5
  <2> QED BY <2>1, <2>2, <2>7, <2>8
<1>6. InterpolateSSE2(w14, p) \in lo .. hi
  BY <1>2, <1>3, <1>5 DEF OneSSE2
<1>7. InterpolateNEON(w7, p) = Weighted(w7, p) \div OneNEON
  <2> DEFINE a == w7["TL"] * p["TL"]   b == w7["TR"] * p["TR"]
             c == w7["BL"] * p["BL"]   d == w7["BR"] * p["BR"]
  <2>1. a \in Nat /\ b \in Nat /\ c \in Nat /\ d \in Nat /\ Weighted(w7, p) = a + b + c + d
    <3>1. "TL" \in Corners /\ "TR" \in Corners /\ "BL" \in Corners /\ "BR" \in Corners
      BY DEF Corners
    <3> QED BY <1>1, <1>4, <3>1
  <2>2. InterpolateNEON(w7, p) =
          AddU16(a % 65536, AddU16(b % 65536, AddU16(c % 65536, d % 65536))) \div OneNEON
    BY DEF InterpolateNEON, MulU16
  <2> HIDE DEF a, b, c, d
  <2>3. a + b + c + d <= 32640
    BY <1>2, <1>3, <2>1 DEF OneNEON
  <2>4. a % 65536 = a /\ b % 65536 = b /\ c % 65536 = c /\ d % 65536 = d
    BY <2>1, <2>3
  <2>5. AddU16(a, AddU16(b, AddU16(c, d))) = a + b + c + d
    BY <2>1, <2>3 DEF AddU16
  <2> QED BY <2>1, <2>2, <2>4, <2>5
<1>8. InterpolateNEON(w7, p) \in lo .. hi
  BY <1>2, <1>3, <1>7 DEF OneNEON
<1> QED BY <1>5, <1>6, <1>7, <1>8 DEF w14, w7

(* Cutting the weights off moves light to the pixel at the bottom right:    *)
(* what the integers find is off the mean that align2D takes by 3 * 255     *)
(* parts of the whole at most, before it is rounded.  That is less than a   *)
(* twentieth of a grey level for align2D_SSE2 (16384 parts), and almost 6   *)
(* grey levels for align2D_NEON (128 parts).                               *)
THEOREM InterpolationClose ==
  ASSUME NEW n \in Nat \ {0}, NEW i \in 0 .. n - 1, NEW j \in 0 .. n - 1,
         NEW p \in [Corners -> Pixel], NEW one \in {OneSSE2, OneNEON}
  PROVE  LET d == n * n
             exact == one * Weighted(Shares(n, i, j), p)
             found == d * Weighted(Weights(one, n, i, j), p)
         IN  exact - found <= 765 * d /\ found - exact <= 765 * d
<1> DEFINE d == n * n
           s == Shares(n, i, j)
           w == Weights(one, n, i, j)
<1>1. one \in Nat
  BY DEF OneSSE2, OneNEON
<1>2. /\ d \in Nat \ {0} /\ s \in [Corners -> Nat] /\ SumOver(s) = d
      /\ w \in [Corners -> Nat] /\ SumOver(w) = one
      /\ \A c \in Corners \ {"BR"} : w[c] * d <= one * s[c] /\ one * s[c] < w[c] * d + d
  BY <1>1, SharesWhole, WeightsWhole
<1> HIDE DEF d, s, w
<1> DEFINE lost(c) == one * s[c] - w[c] * d
<1>3. ASSUME NEW c \in Corners
      PROVE  s[c] \in Nat /\ w[c] \in Nat /\ p[c] \in 0 .. 255 /\ lost(c) \in Int
             /\ one * s[c] \in Int /\ w[c] * d \in Int
  <2>1. s[c] \in Nat /\ w[c] \in Nat /\ p[c] \in 0 .. 255
    BY <1>2 DEF Pixel
  <2> QED BY <2>1, <1>1, <1>2
<1>4. /\ "TL" \in Corners /\ "TR" \in Corners /\ "BL" \in Corners /\ "BR" \in Corners
      /\ "TL" # "BR" /\ "TR" # "BR" /\ "BL" # "BR"
  BY DEF Corners
<1>5. ASSUME NEW c \in Corners, c # "BR" PROVE 0 <= lost(c) /\ lost(c) <= d
  <2>1. w[c] * d <= one * s[c] /\ one * s[c] < w[c] * d + d
    BY <1>2, <1>5
  <2> QED BY <2>1, <1>2, <1>3
<1>6. lost("TL") + lost("TR") + lost("BL") + lost("BR") = 0
  <2>1. one * s["TL"] + one * s["TR"] + one * s["BL"] + one * s["BR"] = one * d
    <3>1. s["TL"] + s["TR"] + s["BL"] + s["BR"] = d
      BY <1>2 DEF SumOver
    <3>2. one * (s["TL"] + s["TR"] + s["BL"] + s["BR"])
            = one * s["TL"] + one * s["TR"] + one * s["BL"] + one * s["BR"]
      BY <1>1, <1>3, <1>4
    <3> QED BY <3>1, <3>2
  <2>2. w["TL"] * d + w["TR"] * d + w["BL"] * d + w["BR"] * d = one * d
    <3>1. w["TL"] + w["TR"] + w["BL"] + w["BR"] = one
      BY <1>2 DEF SumOver
    <3>2. (w["TL"] + w["TR"] + w["BL"] + w["BR"]) * d
            = w["TL"] * d + w["TR"] * d + w["BL"] * d + w["BR"] * d
      BY <1>2, <1>3, <1>4
    <3> QED BY <3>1, <3>2
  <2>3. one * d \in Int
    BY <1>1, <1>2
  <2> QED BY <2>1, <2>2, <2>3, <1>3, <1>4
<1>7. one * Weighted(s, p) - d * Weighted(w, p)
        = lost("TL") * p["TL"] + lost("TR") * p["TR"] + lost("BL") * p["BL"] + lost("BR") * p["BR"]
  <2>1. /\ Weighted(s, p) = s["TL"] * p["TL"] + s["TR"] * p["TR"] + s["BL"] * p["BL"] + s["BR"] * p["BR"]
        /\ Weighted(w, p) = w["TL"] * p["TL"] + w["TR"] * p["TR"] + w["BL"] * p["BL"] + w["BR"] * p["BR"]
    BY <1>4 DEF Weighted, SumOver
  <2>2. ASSUME NEW c \in Corners
        PROVE  /\ lost(c) * p[c] = one * (s[c] * p[c]) - d * (w[c] * p[c])
               /\ one * (s[c] * p[c]) \in Int /\ d * (w[c] * p[c]) \in Int
               /\ s[c] * p[c] \in Int /\ w[c] * p[c] \in Int
    BY <1>1, <1>2, <1>3, SMTT(30)
  <2> DEFINE sp(c) == s[c] * p[c]   wp(c) == w[c] * p[c]
  <2>3. /\ one * (sp("TL") + sp("TR") + sp("BL") + sp("BR"))
             = one * sp("TL") + one * sp("TR") + one * sp("BL") + one * sp("BR")
        /\ d * (wp("TL") + wp("TR") + wp("BL") + wp("BR"))
             = d * wp("TL") + d * wp("TR") + d * wp("BL") + d * wp("BR")
    <3>1. \A c \in Corners : sp(c) \in Int /\ wp(c) \in Int
      BY <2>2
    <3> HIDE DEF sp, wp
    <3> QED BY <3>1, <1>1, <1>2, <1>4
  <2>4. ASSUME NEW c \in Corners
        PROVE  /\ lost(c) * p[c] = one * sp(c) - d * wp(c)
               /\ one * sp(c) \in Int /\ d * wp(c) \in Int
    BY <2>2
  <2>5. /\ Weighted(s, p) = sp("TL") + sp("TR") + sp("BL") + sp("BR")
        /\ Weighted(w, p) = wp("TL") + wp("TR") + wp("BL") + wp("BR")
    BY <2>1
  <2> HIDE DEF sp, wp, lost
  <2> QED BY <2>3, <2>4, <2>5, <1>4
<1>8. ASSUME NEW x \in Int, NEW a \in 0 .. 255, NEW b \in 0 .. 255, 0 <= x, x <= d
      PROVE  /\ x * (a - b) \in Int
             /\ x * (a - b) <= 255 * d /\ 0 - 255 * d <= x * (a - b)
  <2>1. a - b \in Int /\ a - b <= 255 /\ -255 <= a - b
    OBVIOUS
  <2>2. ASSUME NEW e \in Int, e <= 255, -255 <= e
        PROVE  x * e \in Int /\ x * e <= 255 * x /\ 0 - 255 * x <= x * e
    BY <2>2, <1>8, SMT
  <2>3. 255 * x <= 255 * d
    BY <1>8, <1>2
  <2> QED BY <2>1, <2>2, <2>3, <1>8, <1>2
<1>9. one * Weighted(s, p) - d * Weighted(w, p)
        = lost("TL") * (p["TL"] - p["BR"]) + lost("TR") * (p["TR"] - p["BR"])
            + lost("BL") * (p["BL"] - p["BR"])
  <2>1. \A c \in Corners : lost(c) \in Int /\ p[c] \in Int
    BY <1>3
  <2> HIDE DEF lost
  <2>2. lost("BR") = 0 - lost("TL") - lost("TR") - lost("BL")
    BY <1>4, <1>6, <2>1
  <2>3. lost("BR") * p["BR"] = 0 - lost("TL") * p["BR"] - lost("TR") * p["BR"] - lost("BL") * p["BR"]
    BY <1>4, <2>1, <2>2
  <2>4. ASSUME NEW c \in Corners
        PROVE  /\ lost(c) * (p[c] - p["BR"]) = lost(c) * p[c] - lost(c) * p["BR"]
               /\ lost(c) * p[c] \in Int /\ lost(c) * p["BR"] \in Int
    BY <1>4, <2>1
  <2> QED BY <1>4, <1>7, <2>3, <2>4
<1>10. one * Weighted(s, p) \in Int /\ d * Weighted(w, p) \in Int
  <2>1. ASSUME NEW f \in [Corners -> Nat] PROVE Weighted(f, p) \in Int
    <3>1. \A c \in Corners : 0 <= p[c] /\ p[c] <= 255
      BY <1>3
    <3> QED BY <3>1, MeanBetween
  <2> QED BY <2>1, <1>1, <1>2
<1>11. ASSUME NEW c \in Corners, c # "BR"
       PROVE  /\ lost(c) * (p[c] - p["BR"]) \in Int
              /\ lost(c) * (p[c] - p["BR"]) <= 255 * d /\ 0 - 255 * d <= lost(c) * (p[c] - p["BR"])
  <2>1. lost(c) \in Int /\ 0 <= lost(c) /\ lost(c) <= d /\ p[c] \in 0 .. 255 /\ p["BR"] \in 0 .. 255
    BY <1>3, <1>4, <1>5, <1>11
  <2> HIDE DEF lost
  <2> QED BY <2>1, <1>8
<1> DEFINE moved(c) == lost(c) * (p[c] - p["BR"])
<1>12. /\ one * Weighted(s, p) - d * Weighted(w, p) = moved("TL") + moved("TR") + moved("BL")
       /\ \A c \in {"TL", "TR", "BL"} :
            moved(c) \in Int /\ moved(c) <= 255 * d /\ 0 - 255 * d <= moved(c)
  BY <1>4, <1>9, <1>11
<1> HIDE DEF moved, lost
<1>13. /\ one * Weighted(s, p) - d * Weighted(w, p) <= 765 * d
       /\ d * Weighted(w, p) - one * Weighted(s, p) <= 765 * d
  BY <1>2, <1>10, <1>12
<1> QED BY <1>13 DEF d, s, w

(* A lane of vres_sum holds the sum of its eight residuals as long as the   *)
(* mean difference of the patches stays below 3840 grey levels.            *)
THEOREM ResidualSumExact ==
  ASSUME NEW found \in [Side -> Pixel], NEW ref \in [Side -> Pixel],
         NEW mean, Within(mean, 3840)
  PROVE  ResidualSum(found, ref, mean)
           = SumOf8([y \in Side |-> found[y] - ref[y]]) + 8 * mean
<1>1. ASSUME NEW y \in Side
      PROVE  /\ found[y] - ref[y] \in Int
             /\ Residual(found[y], ref[y], mean) = (found[y] - ref[y]) + mean
             /\ Within((found[y] - ref[y]) + mean, 4095)
  <2>1. found[y] \in 0 .. 255 /\ ref[y] \in 0 .. 255
    BY DEF Pixel
  <2>2. Within(found[y] - ref[y], 32767) /\ Within((found[y] - ref[y]) + mean, 4095)
    <3> DEFINE a == found[y]   b == ref[y]
    <3>0. a \in 0 .. 255 /\ b \in 0 .. 255
      BY <2>1
    <3> HIDE DEF a, b
    <3>1. Within(a - b, 255)
      BY <3>0 DEF Within
    <3>2. ASSUME NEW x, Within(x, 255)
          PROVE  Within(x, 32767) /\ Within(x + mean, 4095)
      BY <3>2 DEF Within
    <3>3. Within(a - b, 32767) /\ Within((a - b) + mean, 4095)
      BY <3>1, <3>2
    <3> QED BY <3>3 DEF a, b
  <2>3. Within((found[y] - ref[y]) + mean, 32767)
    BY <2>2 DEF Within
  <2> QED BY <2>2, <2>3, ShortExact DEF Residual, SubEpi16, AddEpi16, Within
<1> DEFINE r(y) == (found[y] - ref[y]) + mean
<1>2. \A y \in Side : Within(r(y), 4095) /\ Residual(found[y], ref[y], mean) = r(y)
  BY <1>1
<1>3. ASSUME NEW k \in 0 .. 7, NEW x, NEW y \in Side, Within(x, 4095 * k)
      PROVE  AddEpi16(x, r(y)) = x + r(y) /\ Within(x + r(y), 4095 * (k + 1))
  <2>1. Within(r(y), 4095)
    BY <1>2
  <2> HIDE DEF r
  <2>2. Within(x + r(y), 4095 * (k + 1)) /\ Within(x + r(y), 32767)
    BY <2>1, <1>3 DEF Within
  <2> QED BY <2>2, ShortExact DEF AddEpi16
<1>4. SumOf8([y \in Side |-> found[y] - ref[y]]) + 8 * mean
        = r(0) + r(1) + r(2) + r(3) + r(4) + r(5) + r(6) + r(7)
  BY <1>1, Columns DEF SumOf8, Within
<1>5. ResidualSum(found, ref, mean) = AddEpi16(AddEpi16(AddEpi16(AddEpi16(AddEpi16(AddEpi16(
        AddEpi16(AddEpi16(0, r(0)), r(1)), r(2)), r(3)), r(4)), r(5)), r(6)), r(7))
  BY <1>2, Columns DEF ResidualSum
<1>6. \A y \in Side : r(y) \in Int
  BY <1>2 DEF Within
<1> HIDE DEF r
<1> DEFINE sum1 == r(0)          sum2 == sum1 + r(1)   sum3 == sum2 + r(2)   sum4 == sum3 + r(3)
           sum5 == sum4 + r(4)   sum6 == sum5 + r(5)   sum7 == sum6 + r(6)
<1>7. AddEpi16(0, r(0)) = sum1 /\ Within(sum1, 4095)
  <2>1. Within(0, 4095 * 0)
    BY DEF Within
  <2> QED BY <2>1, <1>3, <1>6, Columns
<1> HIDE DEF sum1
<1>8. AddEpi16(sum1, r(1)) = sum2 /\ Within(sum2, 4095 * 2)
  BY <1>3, <1>7, Columns
<1> HIDE DEF sum2
<1>9. AddEpi16(sum2, r(2)) = sum3 /\ Within(sum3, 4095 * 3)
  BY <1>3, <1>8, Columns
<1> HIDE DEF sum3
<1>10. AddEpi16(sum3, r(3)) = sum4 /\ Within(sum4, 4095 * 4)
  BY <1>3, <1>9, Columns
<1> HIDE DEF sum4
<1>11. AddEpi16(sum4, r(4)) = sum5 /\ Within(sum5, 4095 * 5)
  BY <1>3, <1>10, Columns
<1> HIDE DEF sum5
<1>12. AddEpi16(sum5, r(5)) = sum6 /\ Within(sum6, 4095 * 6)
  BY <1>3, <1>11, Columns
<1> HIDE DEF sum6
<1>13. AddEpi16(sum6, r(6)) = sum7 /\ Within(sum7, 4095 * 7)
  BY <1>3, <1>12, Columns
<1> HIDE DEF sum7
<1>14. AddEpi16(sum7, r(7)) = sum7 + r(7)
  BY <1>3, <1>13, Columns
<1> QED BY <1>4, <1>5, <1>7, <1>8, <1>9, <1>10, <1>11, <1>12, <1>13, <1>14
     DEF sum1, sum2, sum3, sum4, sum5, sum6, sum7

-----------------------------------------------------------------------------
(* The decomposition of a homography                                        *)

(* The four decompositions of one sign.                                     *)
OfSign(s) == {decom \in Decompositions : decom.d = s}
LEMMA FourOfSign ==
  ASSUME NEW s \in Sign
  PROVE  IsFiniteSet(OfSign(s)) /\ Cardinality(OfSign(s)) = 4
<1> DEFINE r(x, y) == [d |-> s, e1 |-> x, e3 |-> y]
           one == {r(-1, -1)}
           two == one \cup {r(-1, 1)}
           three == two \cup {r(1, -1)}
           four == three \cup {r(1, 1)}
<1>1. \A x, y, u, v \in Sign : r(x, y) = r(u, v) <=> x = u /\ y = v
  OBVIOUS
<1>2. OfSign(s) = {r(-1, -1), r(-1, 1), r(1, -1), r(1, 1)}
  BY DEF OfSign, Decompositions, Sign
<1>3. -1 \in Sign /\ 1 \in Sign /\ -1 # 1
  BY DEF Sign
<1> HIDE DEF r
<1>4. /\ r(-1, 1) \notin one /\ r(1, -1) \notin two /\ r(1, 1) \notin three
  BY <1>1, <1>3
<1>5. ASSUME NEW S, NEW x, IsFiniteSet(S), x \notin S
      PROVE  IsFiniteSet(S \cup {x}) /\ Cardinality(S \cup {x}) = Cardinality(S) + 1
  BY <1>5, FS_AddElement
<1>6. IsFiniteSet(one) /\ Cardinality(one) = 1
  BY FS_Singleton
<1>7. /\ IsFiniteSet(four)
      /\ Cardinality(four) = 4
  <2> HIDE DEF one
  <2>1. IsFiniteSet(two) /\ Cardinality(two) = 1 + 1
    BY <1>4, <1>5, <1>6
  <2> HIDE DEF two
  <2>2. IsFiniteSet(three) /\ Cardinality(three) = 1 + 1 + 1
    BY <1>4, <1>5, <2>1
  <2> HIDE DEF three
  <2>3. IsFiniteSet(four) /\ Cardinality(four) = 1 + 1 + 1 + 1
    BY <1>4, <1>5, <2>2
  <2> QED BY <2>3
<1>8. OfSign(s) = four
  BY <1>2
<1> QED BY <1>7, <1>8

(* The numbers that the two tests count.                                    *)
First(side) == [decom \in Decompositions |-> Cardinality(FirstPositive(side, decom))]
Second(a, b) == [decom \in Decompositions |-> Cardinality(SecondPositive(a, b, decom))]

(* The first test only tells the signs of d apart: unless it finds as many  *)
(* inliers in front with either sign, the four that are kept are the four   *)
(* of the better sign.                                                     *)
THEOREM BetterSignKept ==
  ASSUME NEW Inliers, IsFiniteSet(Inliers),
         NEW side \in [Inliers -> Int], NEW s \in Sign, NEW kept,
         BestOf(kept, Decompositions, 4, First(side)),
         \A x \in OfSign(s), y \in Decompositions \ OfSign(s) : First(side)[x] > First(side)[y]
  PROVE  kept = OfSign(s)
<1>1. kept \subseteq Decompositions /\ Cardinality(kept) = 4
  BY DEF BestOf
<1>2. IsFiniteSet(Decompositions)
  <2>1. Decompositions = OfSign(1) \cup OfSign(-1)
    BY DEF Decompositions, OfSign, Sign
  <2>2. IsFiniteSet(OfSign(1)) /\ IsFiniteSet(OfSign(-1))
    BY FourOfSign DEF Sign
  <2> QED BY <2>1, <2>2, FS_Union
<1>3. ASSUME NEW x \in Decompositions PROVE First(side)[x] \in Nat
  <2>1. FirstPositive(side, x) \subseteq Inliers
    BY DEF FirstPositive
  <2>2. Cardinality(FirstPositive(side, x)) \in Nat
    BY <2>1, FS_Subset, FS_CardinalityType
  <2> QED BY <2>2 DEF First
<1>4. ASSUME NEW x \in kept, x \notin OfSign(s) PROVE FALSE
  <2>1. PICK y \in OfSign(s) : y \notin kept
    <3>1. ASSUME OfSign(s) \subseteq kept PROVE FALSE
      <4>1. IsFiniteSet(kept \ {x}) /\ Cardinality(kept \ {x}) = 3
        BY <1>1, <1>2, <1>4, FS_Subset, FS_RemoveElement
      <4>2. OfSign(s) \in SUBSET (kept \ {x})
        BY <1>4, <3>1
      <4>3. Cardinality(OfSign(s)) <= 3
        BY <4>1, <4>2, FS_Subset
      <4> QED BY <4>3, FourOfSign
    <3> QED BY <3>1
  <2>2. y \in Decompositions
    BY DEF OfSign
  <2>3. First(side)[x] >= First(side)[y]
    BY <2>1, <2>2 DEF BestOf
  <2>4. First(side)[y] > First(side)[x]
    BY <1>1, <1>4
  <2>5. First(side)[x] \in Nat /\ First(side)[y] \in Nat
    BY <1>1, <1>3, <2>2
  <2> QED BY <2>3, <2>4, <2>5
<1>5. kept \subseteq OfSign(s)
  BY <1>4
<1>6. IsFiniteSet(OfSign(s)) /\ Cardinality(kept) = Cardinality(OfSign(s))
  BY <1>1, FourOfSign
<1> QED BY <1>5, <1>6, FS_Subset

(* The hypothesis of the theorem before is about two numbers only: all      *)
(* decompositions of one sign have the same.                               *)
LEMMA FirstBySign ==
  ASSUME NEW side, NEW x \in Decompositions, NEW y \in Decompositions, x.d = y.d
  PROVE  First(side)[x] = First(side)[y]
BY DEF First, FirstPositive

(* Among the four that are kept none has more than ten ninths of the        *)
(* inliers in front of the one that is chosen.                             *)
THEOREM ChosenNearlyBest ==
  ASSUME NEW Inliers, IsFiniteSet(Inliers),
         NEW side \in [Inliers -> Int], NEW a \in [Inliers -> Int], NEW b \in [Inliers -> Int],
         NEW kept, NEW pair, NEW chosen,
         findBestDecomposition(side, a, b, kept, pair, chosen)
  PROVE  /\ chosen \in kept
         /\ \A x \in kept : 9 * Second(a, b)[x] <= 10 * Second(a, b)[chosen]
<1> DEFINE n == Second(a, b)
<1>1. /\ BestOf(kept, Decompositions, 4, First(side)) /\ BestOf(pair, kept, 2, n)
      /\ Resolved(chosen, pair, n)
  BY DEF findBestDecomposition, First, Second
<1>2. kept \subseteq Decompositions /\ pair \subseteq kept /\ Cardinality(pair) = 2
  BY <1>1 DEF BestOf
<1>3. ASSUME NEW x \in Decompositions PROVE n[x] \in Nat
  <2>1. SecondPositive(a, b, x) \subseteq Inliers
    BY DEF SecondPositive
  <2>2. Cardinality(SecondPositive(a, b, x)) \in Nat
    BY <2>1, FS_Subset, FS_CardinalityType
  <2> QED BY <2>2 DEF Second
<1> HIDE DEF n
<1>4. PICK best \in pair, other \in pair :
        /\ best # other /\ n[best] >= n[other]
        /\ \/ chosen = best
           \/ chosen = other /\ ~(10 * n[other] < 9 * n[best])
  BY <1>1 DEF Resolved
<1>5. ASSUME NEW x \in kept PROVE n[x] <= n[best]
  <2>1. CASE x \in pair
    <3>1. x = best \/ x = other
      <4>1. ASSUME x # best, x # other PROVE FALSE
        <5> DEFINE one == {best}   two == one \cup {other}   three == two \cup {x}
        <5>1. IsFiniteSet(one) /\ Cardinality(one) = 1
          BY FS_Singleton
        <5>2. other \notin one /\ x \notin two /\ three \subseteq pair
          BY <1>4, <2>1, <4>1
        <5> HIDE DEF one
        <5>3. IsFiniteSet(two) /\ Cardinality(two) = 1 + 1
          BY <5>1, <5>2, FS_AddElement
        <5> HIDE DEF two
        <5>4. IsFiniteSet(three) /\ Cardinality(three) = 1 + 1 + 1
          BY <5>2, <5>3, FS_AddElement
        <5> HIDE DEF three
        <5>5. IsFiniteSet(pair)
          <6>1. IsFiniteSet(Decompositions)
            <7>1. Decompositions = OfSign(1) \cup OfSign(-1)
              BY DEF Decompositions, OfSign, Sign
            <7>2. IsFiniteSet(OfSign(1)) /\ IsFiniteSet(OfSign(-1))
              BY FourOfSign DEF Sign
            <7> QED BY <7>1, <7>2, FS_Union
          <6> QED BY <6>1, <1>2, FS_Subset
        <5>6. 3 <= Cardinality(pair)
          BY <5>2, <5>5, <5>4, FS_Subset
        <5> QED BY <5>6, <1>2
      <4> QED BY <4>1
    <3> QED BY <3>1, <1>2, <1>3, <1>4
  <2>2. CASE x \notin pair
    BY <1>1, <1>2, <1>3, <1>4, <2>2 DEF BestOf
  <2> QED BY <2>1, <2>2
<1>6. chosen \in kept /\ chosen \in Decompositions /\ best \in Decompositions /\ other \in Decompositions
  BY <1>2, <1>4
<1>7. 9 * n[best] <= 10 * n[chosen]
  BY <1>3, <1>4, <1>6
<1>8. ASSUME NEW x \in kept PROVE 9 * n[x] <= 10 * n[chosen]
  BY <1>2, <1>3, <1>5, <1>6, <1>7
<1> QED BY <1>6, <1>8 DEF n

(* The decomposition with the plane turned round, which explains the        *)
(* homography as well, is never chosen instead of one that has more than    *)
(* ten of nineteen inliers in front: what is in front of one is not in      *)
(* front of the other.                                                     *)
Turned(decom) == [d |-> decom.d, e1 |-> -decom.e1, e3 |-> -decom.e3]
THEOREM TurnedNotChosen ==
  ASSUME NEW Inliers, IsFiniteSet(Inliers),
         NEW side \in [Inliers -> Int], NEW a \in [Inliers -> Int], NEW b \in [Inliers -> Int],
         NEW kept, NEW pair, NEW chosen,
         findBestDecomposition(side, a, b, kept, pair, chosen),
         NEW x \in kept, 19 * Second(a, b)[x] > 10 * Cardinality(Inliers)
  PROVE  chosen # Turned(x)
<1>1. x \in Decompositions /\ kept \subseteq Decompositions
  BY DEF findBestDecomposition, BestOf
<1>2. Turned(x) \in Decompositions
  BY <1>1 DEF Turned, Decompositions, Sign
<1> DEFINE here == SecondPositive(a, b, x)
           there == SecondPositive(a, b, Turned(x))
<1>3. here \subseteq Inliers /\ there \subseteq Inliers /\ here \cap there = {}
  <2>1. here \subseteq Inliers /\ there \subseteq Inliers
    BY DEF SecondPositive
  <2>2. ASSUME NEW m \in Inliers, m \in here, m \in there PROVE FALSE
    <3> DEFINE v == x.e1 * a[m] + x.e3 * b[m]
               w == Turned(x).e1 * a[m] + Turned(x).e3 * b[m]
    <3>1. /\ x.d \in {-1, 1} /\ x.e1 \in {-1, 1} /\ x.e3 \in {-1, 1}
          /\ Turned(x).d = x.d /\ Turned(x).e1 = -x.e1 /\ Turned(x).e3 = -x.e3
      BY <1>1 DEF Turned, Decompositions, Sign
    <3>2. a[m] \in Int /\ b[m] \in Int
      OBVIOUS
    <3>3. v \in Int /\ w = -v
      BY <3>1, <3>2
    <3>4. x.d * v > 0 /\ Turned(x).d * w > 0
      BY <2>2 DEF SecondPositive
    <3> HIDE DEF v, w
    <3> QED BY <3>1, <3>3, <3>4
  <2> QED BY <2>1, <2>2
<1>4. /\ Second(a, b)[x] = Cardinality(here) /\ Second(a, b)[Turned(x)] = Cardinality(there)
  BY <1>1, <1>2 DEF Second
<1> HIDE DEF here, there
<1>5. Cardinality(here) + Cardinality(there) <= Cardinality(Inliers)
  <2>1. IsFiniteSet(here) /\ IsFiniteSet(there)
    BY <1>3, FS_Subset
  <2>2. Cardinality(here \cup there) = Cardinality(here) + Cardinality(there)
    <3>1. Cardinality(here \cap there) = 0
      BY <1>3, FS_EmptySet
    <3>2. Cardinality(here) \in Nat /\ Cardinality(there) \in Nat
      BY <2>1, FS_CardinalityType
    <3>3. Cardinality(here \cup there)
            = Cardinality(here) + Cardinality(there) - Cardinality(here \cap there)
      BY <2>1, FS_Union
    <3> QED BY <3>1, <3>2, <3>3
  <2>3. here \cup there \in SUBSET Inliers
    BY <1>3
  <2> QED BY <2>2, <2>3, FS_Subset
<1>6. Cardinality(here) \in Nat /\ Cardinality(there) \in Nat /\ Cardinality(Inliers) \in Nat
  BY <1>3, FS_Subset, FS_CardinalityType
<1>7. ASSUME chosen = Turned(x) PROVE FALSE
  <2>1. 9 * Second(a, b)[x] <= 10 * Second(a, b)[chosen]
    BY ChosenNearlyBest
  <2>2. 9 * Cardinality(here) <= 10 * Cardinality(there)
    BY <2>1, <1>4, <1>7
  <2>3. 19 * Cardinality(here) > 10 * Cardinality(Inliers)
    BY <1>4
  <2> QED BY <2>2, <2>3, <1>5, <1>6
<1> QED BY <1>7

-----------------------------------------------------------------------------
(* Corners: fast_corner_detect_10 and its score                             *)

LEMMA ArcInRing == \A s \in Ring : Arc(s) \subseteq Ring
BY DEF Ring, Arc

(* The sixteen arcs.                                                        *)
LEMMA Arcs ==
  /\ Arc(0) = {0, 1, 2, 3, 4, 5, 6, 7, 8, 9}
  /\ Arc(1) = {1, 2, 3, 4, 5, 6, 7, 8, 9, 10}
  /\ Arc(2) = {2, 3, 4, 5, 6, 7, 8, 9, 10, 11}
  /\ Arc(3) = {3, 4, 5, 6, 7, 8, 9, 10, 11, 12}
  /\ Arc(4) = {4, 5, 6, 7, 8, 9, 10, 11, 12, 13}
  /\ Arc(5) = {5, 6, 7, 8, 9, 10, 11, 12, 13, 14}
  /\ Arc(6) = {6, 7, 8, 9, 10, 11, 12, 13, 14, 15}
  /\ Arc(7) = {7, 8, 9, 10, 11, 12, 13, 14, 15, 0}
  /\ Arc(8) = {8, 9, 10, 11, 12, 13, 14, 15, 0, 1}
  /\ Arc(9) = {9, 10, 11, 12, 13, 14, 15, 0, 1, 2}
  /\ Arc(10) = {10, 11, 12, 13, 14, 15, 0, 1, 2, 3}
  /\ Arc(11) = {11, 12, 13, 14, 15, 0, 1, 2, 3, 4}
  /\ Arc(12) = {12, 13, 14, 15, 0, 1, 2, 3, 4, 5}
  /\ Arc(13) = {13, 14, 15, 0, 1, 2, 3, 4, 5, 6}
  /\ Arc(14) = {14, 15, 0, 1, 2, 3, 4, 5, 6, 7}
  /\ Arc(15) = {15, 0, 1, 2, 3, 4, 5, 6, 7, 8}
BY DEF Arc

LEMMA RingMembers == Ring = {0, 1, 2, 3, 4, 5, 6, 7, 8, 9, 10, 11, 12, 13, 14, 15}
BY DEF Ring

(* The formula of the SSE2 version, which asks for a few pixels of an arc   *)
(* at a time, accepts a ring if and only if it has ten flagged in a row.    *)
THEOREM PossibleExact ==
  ASSUME NEW flags \in SUBSET Ring
  PROVE  Possible(flags) <=> Contiguous(flags)
<1>1. Contiguous(flags) <=>
        \/ Arc(0) \subseteq flags \/ Arc(1) \subseteq flags \/ Arc(2) \subseteq flags
        \/ Arc(3) \subseteq flags \/ Arc(4) \subseteq flags \/ Arc(5) \subseteq flags
        \/ Arc(6) \subseteq flags \/ Arc(7) \subseteq flags \/ Arc(8) \subseteq flags
        \/ Arc(9) \subseteq flags \/ Arc(10) \subseteq flags \/ Arc(11) \subseteq flags
        \/ Arc(12) \subseteq flags \/ Arc(13) \subseteq flags \/ Arc(14) \subseteq flags
        \/ Arc(15) \subseteq flags
  BY RingMembers DEF Contiguous
<1> QED BY <1>1, Arcs DEF Possible

(* Saturation at 0 and at 255 flags no pixel that the plain test does not,  *)
(* for barriers that fit a byte.                                            *)
LEMMA FlagsExact ==
  ASSUME NEW px \in [Ring -> Byte], NEW mid \in Byte, NEW barrier \in Byte
  PROVE  /\ FlaggedDarker(px, mid, barrier) = Darker(px, mid, barrier)
         /\ FlaggedBrighter(px, mid, barrier) = Brighter(px, mid, barrier)
<1>1. barrier % 256 = barrier /\ barrier \in 0 .. 255 /\ mid \in 0 .. 255
  BY DEF Byte
<1>2. ASSUME NEW r \in Ring
      PROVE  /\ SubsEpu8(SubsEpu8(mid, barrier), px[r]) # 0 <=> px[r] < mid - barrier
             /\ SubsEpu8(px[r], AddsEpu8(barrier, mid)) # 0 <=> px[r] > mid + barrier
  <2>1. px[r] \in 0 .. 255
    BY DEF Byte
  <2> QED BY <1>1, <2>1 DEF SubsEpu8, AddsEpu8
<1> QED BY <1>1, <1>2 DEF FlaggedDarker, FlaggedBrighter, Darker, Brighter

(* The blocks fill the row between its head and its tail: every column is   *)
(* tested once.                                                            *)
LEMMA ColumnsOnce ==
  ASSUME NEW w \in Nat, w >= 22
  PROVE  /\ XEnd(w) \in 16 .. w - 3
         /\ Blocks(w) = 16 .. XEnd(w) - 1
<1>1. XEnd(w) \in 16 .. w - 3 /\ XEnd(w) % 16 = 0
  BY DEF XEnd
<1>2. ASSUME NEW x \in 16 .. XEnd(w) - 1
      PROVE  x \in Blocks(w)
  <2> DEFINE start == 16 * (x \div 16)
  <2>1. x \in start .. start + 15 /\ start % 16 = 0 /\ start \in Int
    OBVIOUS
  <2>2. start \in 16 .. XEnd(w) - 1
    BY <1>1, <2>1
  <2>3. start \in BlockStarts(w)
    BY <2>1, <2>2 DEF BlockStarts
  <2> HIDE DEF start
  <2> QED BY <2>1, <2>3 DEF Blocks
<1>3. ASSUME NEW start \in BlockStarts(w)
      PROVE  start .. start + 15 \subseteq 16 .. XEnd(w) - 1
  BY <1>1 DEF BlockStarts
<1>4. Blocks(w) \subseteq 16 .. XEnd(w) - 1
  BY <1>3 DEF Blocks
<1> QED BY <1>1, <1>2, <1>4

(* fast_corner_detect_10_sse2 finds what fast_corner_detect_10 finds.       *)
THEOREM SSE2Exact ==
  ASSUME NEW w \in Nat, NEW h \in Nat, NEW barrier \in Byte,
         NEW img \in [(0 .. w - 1) \X (0 .. h - 1) -> Byte]
  PROVE  DetectSSE2(img, w, h, barrier) = DetectPlain(img, w, h, barrier)
<1>1. CASE w < 22
  BY <1>1 DEF DetectSSE2
<1>2. CASE w >= 22 /\ h < 7
  BY <1>2 DEF DetectSSE2, DetectPlain
<1>3. CASE w >= 22 /\ h >= 7
  <2>1. ASSUME NEW at \in (3 .. w - 4) \X (3 .. h - 4)
        PROVE  FlaggedAt(img, at, barrier) <=> CornerAt(img, at, barrier)
    <3>1. img[at] \in Byte
      <4>1. at \in (0 .. w - 1) \X (0 .. h - 1)
        OBVIOUS
      <4> QED BY <4>1
    <3>2. ASSUME NEW r \in Ring
          PROVE  img[<<at[1] + RingX(r), at[2] + RingY(r)>>] \in Byte
      <4>1. RingX(r) \in -3 .. 3 /\ RingY(r) \in -3 .. 3
        BY RingMembers DEF RingX, RingY
      <4>2. at[1] + RingX(r) \in 0 .. w - 1 /\ at[2] + RingY(r) \in 0 .. h - 1
        BY <4>1
      <4> QED BY <4>2
    <3>3. RingAround(img, at) \in [Ring -> Byte]
      BY <3>2 DEF RingAround
    <3>4. /\ Darker(RingAround(img, at), img[at], barrier) \subseteq Ring
          /\ Brighter(RingAround(img, at), img[at], barrier) \subseteq Ring
      BY DEF Darker, Brighter
    <3> QED BY <3>1, <3>3, <3>4, FlagsExact, PossibleExact DEF FlaggedAt, CornerAt, IsCorner
  <2>2. 3 .. w - 4 = HeadColumns \cup Blocks(w) \cup TailColumns(w)
    <3>1. XEnd(w) \in Int /\ 16 <= XEnd(w) /\ XEnd(w) <= w - 3
      BY <1>3, ColumnsOnce
    <3>2. Blocks(w) = 16 .. XEnd(w) - 1
      BY <1>3, ColumnsOnce
    <3>3. ASSUME NEW x \in Int
          PROVE  x \in 3 .. w - 4 <=>
                   x \in 3 .. 15 \/ x \in 16 .. XEnd(w) - 1 \/ x \in XEnd(w) .. w - 4
      BY <3>1, <1>3
    <3>4. HeadColumns \cup Blocks(w) \cup TailColumns(w) \subseteq Int
      BY <3>1, <3>2 DEF HeadColumns, TailColumns
    <3>5. 3 .. w - 4 \subseteq Int
      OBVIOUS
    <3> QED BY <3>2, <3>3, <3>4, <3>5 DEF HeadColumns, TailColumns
  <2>3. /\ DetectSSE2(img, w, h, barrier) =
             {at \in (HeadColumns \cup TailColumns(w)) \X (3 .. h - 4) : CornerAt(img, at, barrier)}
             \cup {at \in Blocks(w) \X (3 .. h - 4) : FlaggedAt(img, at, barrier)}
        /\ DetectPlain(img, w, h, barrier) =
             {at \in (3 .. w - 4) \X (3 .. h - 4) : CornerAt(img, at, barrier)}
    BY <1>3 DEF DetectSSE2, DetectPlain
  <2> HIDE DEF HeadColumns, TailColumns, Blocks, CornerAt, FlaggedAt
  <2> QED BY <2>1, <2>2, <2>3
<1> QED BY <1>1, <1>2, <1>3

-----------------------------------------------------------------------------
(* The score                                                                *)

(* A corner at a barrier is one at every lower barrier.                     *)
LEMMA LowerBarrier ==
  ASSUME NEW px \in [Ring -> Byte], NEW mid \in Byte, NEW high \in Nat, NEW low \in Nat,
         low <= high, IsCorner(px, mid, high)
  PROVE  IsCorner(px, mid, low)
<1>1. \A r \in Ring : px[r] \in Int
  BY DEF Byte
<1>2. mid \in Int
  BY DEF Byte
<1>3. Brighter(px, mid, high) \subseteq Brighter(px, mid, low)
  BY <1>1, <1>2 DEF Brighter
<1>4. Darker(px, mid, high) \subseteq Darker(px, mid, low)
  BY <1>1, <1>2 DEF Darker
<1> QED BY <1>3, <1>4 DEF IsCorner, Contiguous

(* The pixel is a corner at the last barrier that was tried.                *)
SInv ==
  /\ ring \in [Ring -> Byte] /\ center \in Byte
  /\ tried \in Nat \ {0} /\ pc \in {"loop", "return"}
  /\ IsCorner(ring, center, tried - 1)
  /\ pc = "return" => ~IsCorner(ring, center, tried)

LEMMA StepSInv == SInv /\ [Next]_vars => SInv'
<1>s. SUFFICES ASSUME SInv, [Next]_vars PROVE SInv'
  OBVIOUS
<1>1. CASE Raise
  <2>1. PICK s \in Ring, min_diff \in Byte \ {0} :
          /\ \/ \A r \in Arc(s) : ring[r] - (center + tried) >= min_diff
             \/ \A r \in Arc(s) : (center - tried) - ring[r] >= min_diff
          /\ tried' = tried + min_diff
    BY <1>1 DEF Raise
  <2>2. UNCHANGED <<ring, center, pc>> /\ pc = "loop"
    BY <1>1 DEF Raise
  <2>3. /\ tried \in Nat /\ min_diff \in Nat \ {0} /\ center \in Int
        /\ \A r \in Arc(s) : r \in Ring /\ ring[r] \in Int
    BY <1>s, <2>1, ArcInRing DEF SInv, Byte
  <2>4. \/ \A r \in Arc(s) : ring[r] > center + (tried' - 1)
        \/ \A r \in Arc(s) : ring[r] < center - (tried' - 1)
    BY <2>1, <2>3
  <2>5. IsCorner(ring, center, tried' - 1)
    BY <2>1, <2>3, <2>4 DEF IsCorner, Contiguous, Brighter, Darker
  <2>6. tried' \in Nat \ {0}
    BY <2>1, <2>3
  <2> QED BY <1>s, <2>2, <2>5, <2>6 DEF SInv
<1>2. CASE Break
  BY <1>s, <1>2 DEF Break, SInv
<1>3. CASE UNCHANGED vars
  BY <1>s, <1>3 DEF vars, SInv
<1> QED BY <1>s, <1>1, <1>2, <1>3 DEF Next

(* fast_corner_score_10 returns the highest barrier at which the pixel is a *)
(* corner, for every ring of pixels.                                        *)
THEOREM ScoreCorrect == Spec => []ScoreExact
<1>1. Init => SInv
  <2>1. ASSUME Init PROVE threshold \in Nat /\ tried = threshold + 1 /\ tried - 1 = threshold
    BY <2>1 DEF Init, Byte
  <2> QED BY <2>1 DEF Init, SInv
<1>2. ASSUME SInv PROVE ScoreExact
  <2>1. SUFFICES ASSUME pc = "return", NEW barrier \in Nat
                 PROVE  IsCorner(ring, center, barrier) <=> barrier <= score
    BY DEF ScoreExact
  <2>2. tried \in Nat /\ tried - 1 \in Nat
    BY <1>2 DEF SInv
  <2>3. CASE barrier <= tried - 1
    BY <1>2, <2>2, <2>3, LowerBarrier DEF SInv, score
  <2>4. CASE barrier >= tried
    <3>1. ~IsCorner(ring, center, barrier)
      BY <1>2, <2>1, <2>2, <2>4, LowerBarrier DEF SInv
    <3> QED BY <2>2, <2>4, <3>1 DEF score
  <2> QED BY <2>2, <2>3, <2>4
<1> QED BY StepSInv, <1>1, <1>2, PTL DEF Spec
=============================================================================
