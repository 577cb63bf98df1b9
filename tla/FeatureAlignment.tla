---------------------------- MODULE FeatureAlignment ----------------------------
(***************************************************************************)
(* The patch that align1D, align2D and its vector versions compare with    *)
(* the image (externals/svo/src/feature_alignment.cpp): which pixels they  *)
(* read, and how align2D_SSE2 and align2D_NEON interpolate between them    *)
(* with integers where align2D does with floats.  The least squares step   *)
(* that moves the patch is floating-point and not here.                    *)
(***************************************************************************)
EXTENDS Vision

HalfPatch == 4

(* The patch around the pixel (u, v) is compared: the loop does not break.  *)
InImage(rows, cols, u, v) ==
  /\ u >= HalfPatch /\ u < cols - HalfPatch
  /\ v >= HalfPatch /\ v < rows - HalfPatch

(* it[0], it[1], it[cur_step] and it[cur_step + 1] for each of its pixels.  *)
PatchPixels(u, v) == (u - HalfPatch .. u + HalfPatch - 1) \X (v - HalfPatch .. v + HalfPatch - 1)
PatchRead(u, v) ==
  UNION {{<<p[1], p[2]>>, <<p[1] + 1, p[2]>>, <<p[1], p[2] + 1>>, <<p[1] + 1, p[2] + 1>>} :
           p \in PatchPixels(u, v)}

-----------------------------------------------------------------------------
(* Between four pixels, at the fraction i / n of a column and j / n of a    *)
(* row (a float is such a fraction, with a power of two for n).            *)

Corners == {"TL", "TR", "BL", "BR"}
SumOver(f) == f["TL"] + f["TR"] + f["BL"] + f["BR"]
Weighted(w, p) == SumOver([c \in Corners |-> w[c] * p[c]])

(* The weights of align2D, as multiples of 1 / (n n).                       *)
Shares(n, i, j) ==
  [c \in Corners |-> CASE c = "TL" -> (n - i) * (n - j) [] c = "TR" -> i * (n - j)
                       [] c = "BL" -> (n - i) * j       [] c = "BR" -> i * j]

(* The weights of the vector versions, as multiples of 1 / one: three are   *)
(* cut off, the last takes what is left.                                   *)
Cut(one, n, share) == (one * share) \div (n * n)
Weights(one, n, i, j) ==
  LET s == Shares(n, i, j)
      w == [c \in Corners |-> Cut(one, n, s[c])]
  IN  [w EXCEPT !["BR"] = one - w["TL"] - w["TR"] - w["BL"]]

(* align2D_SSE2: W_BITS is 14, sums of 32 bits, rounded to the next.        *)
OneSSE2 == 16384
InterpolateSSE2(w, p) ==
  AddEpi32(AddEpi32(w["TL"] * p["TL"] + w["TR"] * p["TR"], w["BL"] * p["BL"] + w["BR"] * p["BR"]),
           OneSSE2 \div 2) \div OneSSE2

(* align2D_NEON: SHIFT_BITS is 7, products and sums of 16 bits, rounded     *)
(* down.                                                                   *)
OneNEON == 128
MulU16(x, y) == (x * y) % 65536
InterpolateNEON(w, p) ==
  AddU16(MulU16(w["TL"], p["TL"]),
         AddU16(MulU16(w["TR"], p["TR"]),
                AddU16(MulU16(w["BL"], p["BL"]), MulU16(w["BR"], p["BR"])))) \div OneNEON

(* align2D_NEON: a lane of vres_sum, the residuals of one column of the     *)
(* patch, each corrected by mean, in 16 bits.                              *)
Residual(found, ref, mean) == AddEpi16(SubEpi16(found, ref), mean)
ResidualSum(found, ref, mean) ==
  LET r(y) == Residual(found[y], ref[y], mean)
  IN  AddEpi16(AddEpi16(AddEpi16(AddEpi16(AddEpi16(AddEpi16(AddEpi16(AddEpi16(
        0, r(0)), r(1)), r(2)), r(3)), r(4)), r(5)), r(6)), r(7))
=============================================================================
